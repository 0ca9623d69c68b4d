------------------------------- MODULE Pixels -------------------------------
(***************************************************************************)
(* The arithmetic on pictures: which tiles of the screen have changed      *)
(* (combine_rectangle), where the planes of a picture lie (onFrame,        *)
(* Encode), where the camera's picture goes (capture_dxgi, capture_gdi),   *)
(* and how a sample of the camera is addressed, converted and scaled       *)
(* (escapi).  Pixels are <<x, y>>, addresses count pixels or bytes.        *)
(***************************************************************************)
EXTENDS Integers, FiniteSets

CONSTANTS
  Side,  \* bound: pictures are up to Side pixels wide and high
  Tile   \* width and height of a tile

VARIABLES
  screen,   \* a picture [w, h]
  other,    \* another, of the camera
  changed   \* the pixels of screen that are not as they were

vars == <<screen, other, changed>>

Within(p) == (0..(p.w - 1)) \X (0..(p.h - 1))
None == [w |-> 0, h |-> 0]
Picture == [w: 1..Side, h: 1..Side]
Least(a, b) == IF a < b THEN a ELSE b

Init == screen = None /\ other = None /\ changed = {}

\* What the operators below are given.
Given ==
  /\ screen = None
  /\ screen' \in Picture /\ other' \in Picture
  /\ changed' \in IF screen'.w * screen'.h <= 9 /\ other' = screen'
                  THEN SUBSET Within(screen') ELSE {{}}

Next == Given

Spec == Init /\ [][Next]_vars

-----------------------------------------------------------------------------
(* What has changed on the screen. *)

\* combine_rectangle() walks over the tiles, cut off at the border.
Tiles ==
  {[l |-> x, t |-> y, r |-> Least(x + Tile, screen.w), b |-> Least(y + Tile, screen.h)] :
     x \in {k \in 0..(screen.w - 1) : k % Tile = 0},
     y \in {k \in 0..(screen.h - 1) : k % Tile = 0}}

\* The rows of a tile are compared in five turns, each takes every fifth.
Rows(tile) ==
  {tile.t + turn + 5 * k : turn \in 0..4, k \in 0..Side} \cap (tile.t)..(tile.b - 1)

Dirty(tile) == \E y \in Rows(tile), x \in (tile.l)..(tile.r - 1) : <<x, y>> \in changed

\* The region that region_to_rectangle() cuts into rectangles.
Region ==
  UNION {((tile.l)..(tile.r - 1)) \X ((tile.t)..(tile.b - 1)) : tile \in {u \in Tiles : Dirty(u)}}

-----------------------------------------------------------------------------
(* The planes of a picture in m_pYUVData. *)

PlaneSize(p) == (p.w * p.h * 3) \div 2

\* Where onFrame() and Encode() take the last plane to begin.
PlaneV(p) == p.w * p.h + (p.h \div 2) * (p.w \div 2)
PlaneVEncoded(p) == p.w * p.h + (p.w * p.h) \div 4

\* What ARGBToI420 writes from there on: half the rows, half the columns.
WritesV(p) ==
  {PlaneV(p) + y * (p.w \div 2) + x : x \in 0..((p.w + 1) \div 2 - 1), y \in 0..((p.h + 1) \div 2 - 1)}

-----------------------------------------------------------------------------
(* The camera's picture on the screen. *)

\* Row k of the camera goes to this row of the screen, up to where either ends.
Target(k, c) == (screen.h - other.h + k) * screen.w + c
Copied == Least(screen.w, other.w)
Overlay == {Target(k, c) : k \in 0..(other.h - 1), c \in 0..(Copied - 1)}

\* Mutant: j follows i.
SourceStart_rows(k) == k * screen.w

\* j goes on where the row before was cut off: a camera wider than the screen is
\* sheared.
SourceStart(k) == k * Copied

-----------------------------------------------------------------------------
(* A sample of the camera, of the size of other, for a target of the size of
   screen. *)

Scaled(i, j) ==
  ((i * other.h) \div screen.h) * other.w + (j * other.w) \div screen.w

\* VideoBufferLock: where row y begins, top-down or bottom-up.
RowStart(stride, h, y) == (IF stride < 0 THEN -stride * (h - 1) ELSE 0) + y * stride

\* TransformImage_YUY2 and _NV12 write two pixels of a row at a time, and the
\* latter two rows.
Converted(p, both) ==
  {<<x, y>> : x \in 0..(p.w - 1 + (p.w % 2)), y \in 0..(p.h - 1 + (IF both THEN p.h % 2 ELSE 0))}

-----------------------------------------------------------------------------
Even(p) == p.w % 2 = 0 /\ p.h % 2 = 0

\* A screen that has changed anywhere is sent, one that has not is not, and the
\* rectangles cover all that changed and nothing beside the screen.
ChangesFound ==
  /\ (Region = {}) = (changed = {})
  /\ changed \subseteq Region /\ Region \subseteq Within(screen)

\* For even sizes, the planes are where both sides expect them, and inside.
PlanesInside ==
  Even(screen) =>
    /\ PlaneV(screen) = PlaneVEncoded(screen)
    /\ \A a \in WritesV(screen) : a < PlaneSize(screen)

\* A camera no larger than the screen is shown in its lower left corner, row by
\* row, and nothing beside the screen is written.
CameraInPlace ==
  (other # None /\ other.w <= screen.w /\ other.h <= screen.h) =>
    /\ Overlay \subseteq 0..(screen.w * screen.h - 1)
    /\ \A k \in 0..(other.h - 1) : Target(k, 0) % screen.w = 0 /\ SourceStart(k) = k * other.w

\* Scaling reads inside the sample, and converting, for even sizes, writes
\* inside the picture; every row of the sample is inside its buffer.
SampleInside ==
  /\ \A i \in 0..(screen.h - 1), j \in 0..(screen.w - 1) :
       Scaled(i, j) \in 0..(other.w * other.h - 1)
  /\ \A y \in 0..(other.h - 1), s \in {other.w, -other.w} :
       RowStart(s, other.h, y) \in {k * other.w : k \in 0..(other.h - 1)}
  /\ Even(other) => Converted(other, TRUE) \subseteq Within(other)

\* All addresses are where they should be.
AddressesRight ==
  ChangesFound /\ PlanesInside /\ CameraInPlace /\ SampleInside
=============================================================================
