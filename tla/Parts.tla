------------------------------- MODULE Parts -------------------------------
(***************************************************************************)
(* The parts of a client that are small enough to be looked at one by one, *)
(* each with its state, and what each must keep.                           *)
(***************************************************************************)
EXTENDS Integers

CONSTANTS
  Thread, BufferSize,          \* who sends, and the size of the send buffer
  PictureSize,                 \* sizes of a picture
  MaxStarts,                   \* bound: captures started
  Lines, CameraLines,          \* heights of the display and of the camera's picture
  IntervalCnt, MaxSeq, Word,   \* the window, the bound on frames, and the width of their numbers
  Modes,                       \* number of modes of the camera
  Side, Tile,                  \* largest side of a picture, and of a tile
  MaxElements                     \* bound: elements of a JSON array

\* Sizes are positive, and sequence numbers do not wrap around.
ASSUME PartsAssumption ==
  /\ BufferSize \in Nat /\ PictureSize \subseteq Nat \ {0}
  /\ Lines \subseteq Nat \ {0} /\ CameraLines \in Nat
  /\ MaxSeq \in Nat /\ Word \in Nat /\ MaxSeq < Word
  /\ Modes \in Nat \ {0}
  /\ Side \in Nat /\ Tile \in Nat \ {0} /\ MaxElements \in Nat

VARIABLES
  send_pos, send_call, send_state, send_wsi, send_happened,
  video_pub, video_file, video_event, video_window, video_quit,
  video_handle, video_ws, video_ui, video_loop, video_after, video_happened,
  grab_mode, grab_told, grab_kind, grab_camera, grab_at, grab_mirror,
  grab_dx, grab_gdi, grab_force, grab_happened,
  cam_good, cam_misfit, cam_format, cam_dev, cam_used, cam_bad, cam_redo,
  cam_error, cam_request, cam_doCapture, cam_at, cam_callback, cam_happened,
  x_start, x_thread, x_valid, x_size, x_screen, x_image, x_seq, x_ack,
  x_quit, x_happened,
  pic_frame, pic_yuv, pic_encoder, pic_decoder, pic_phase, pic_at, pic_grab,
  pic_happened,
  px_screen, px_other, px_changed,
  val_value, val_list, val_odd

sendVars == <<send_pos, send_call, send_state, send_wsi, send_happened>>
videoVars == <<video_pub, video_file, video_event, video_window, video_quit,
  video_handle, video_ws, video_ui, video_loop, video_after, video_happened>>
grabVars == <<grab_mode, grab_told, grab_kind, grab_camera, grab_at,
  grab_mirror, grab_dx, grab_gdi, grab_force, grab_happened>>
camVars == <<cam_good, cam_misfit, cam_format, cam_dev, cam_used, cam_bad,
  cam_redo, cam_error, cam_request, cam_doCapture, cam_at, cam_callback,
  cam_happened>>
xVars == <<x_start, x_thread, x_valid, x_size, x_screen, x_image, x_seq,
  x_ack, x_quit, x_happened>>
picVars == <<pic_frame, pic_yuv, pic_encoder, pic_decoder, pic_phase, pic_at,
  pic_grab, pic_happened>>
pxVars == <<px_screen, px_other, px_changed>>
valVars == <<val_value, val_list, val_odd>>

Send == INSTANCE SendBuffer WITH
  Size <- BufferSize, pos <- send_pos,
  call <- send_call, state <- send_state, wsi <- send_wsi,
  happened <- send_happened

Video == INSTANCE VideoLife WITH
  pub <- video_pub, file <- video_file, event <- video_event,
  window <- video_window, quit <- video_quit, handle <- video_handle,
  ws <- video_ws, ui <- video_ui, loop <- video_loop, after <- video_after,
  happened <- video_happened

Grab == INSTANCE Grab WITH
  mode <- grab_mode, told <- grab_told,
  kind <- grab_kind, camera <- grab_camera, at <- grab_at,
  mirror <- grab_mirror, dx <- grab_dx, gdi <- grab_gdi, force <- grab_force,
  happened <- grab_happened

Cam == INSTANCE Camera WITH
  good <- cam_good, misfit <- cam_misfit, format <- cam_format,
  dev <- cam_dev, used <- cam_used, bad <- cam_bad, redo <- cam_redo,
  error <- cam_error, request <- cam_request, doCapture <- cam_doCapture,
  at <- cam_at, callback <- cam_callback, happened <- cam_happened

X == INSTANCE XCapture WITH
  start <- x_start,
  thread <- x_thread, valid <- x_valid, size <- x_size, screen <- x_screen,
  image <- x_image, seq <- x_seq, ack <- x_ack, quit <- x_quit,
  happened <- x_happened

Pic == INSTANCE Picture WITH
  Size <- PictureSize, frame <- pic_frame, yuv <- pic_yuv, encoder <- pic_encoder,
  decoder <- pic_decoder, phase <- pic_phase, at <- pic_at, grab <- pic_grab,
  happened <- pic_happened

Px == INSTANCE Pixels WITH
  screen <- px_screen, other <- px_other,
  changed <- px_changed

Array == INSTANCE JsonArray WITH
  MaxSize <- MaxElements, value <- val_value, list <- val_list, odd <- val_odd

-----------------------------------------------------------------------------
\* Whatever sends overlap, what no other overlapped is right.
SendsWhole == Send!SendsWhole

\* Starting, stopping and deleting a client: nothing is used that is gone, or goes
\* on that was stopped.
LifeOrderly == Video!LifeOrderly

\* What is grabbed fits, and there is something to grab from.
FramesFit == Grab!FramesFit

\* The two threads of the camera share the picture and the reader rightly.
CameraShared == Cam!CameraShared

\* The frames of Linux have the size they say, and their numbers the distance.
XFramesFit == X!XFramesFit

\* Every picture is converted and encoded, at its own size.
PicturesFit == Pic!PicturesFit

\* All addresses are where they should be.
AddressesRight == Px!AddressesRight

\* An array reads as the list of what was put into it, but for resize() and removeIndex()
\* of one with holes, which do not do what their documentation says.
ReadsAsList == Array!ReadsAsList

\* Who waits for a capture does not wait for ever: starts, stops and deletions end,
\* a forced frame is sent, a picture of the camera comes, the loop of Linux starts;
\* each up to the causes it names.
WaitsEnd == Video!AllEnd /\ Grab!ForcedFrame /\ Cam!Delivered /\ X!StartReturns
=============================================================================
