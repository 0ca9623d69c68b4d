------------------------------- MODULE Pacing -------------------------------
(***************************************************************************)
(* What the capture library promises about its pace: a frame is taken only *)
(* when the newest is not further than the window ahead of what has been   *)
(* acknowledged, and only what was taken is believed to be acknowledged.   *)
(* A second thread acknowledges in two steps: what it found to be news may *)
(* have been overtaken by a reset when it is written.                      *)
(***************************************************************************)
EXTENDS Integers

CONSTANT Window   \* frames that may be unacknowledged when another is taken

VARIABLES
  sent,    \* frames taken
  acked,   \* the number up to which they are acknowledged
  due      \* what the second thread is about to write there, or None

vars == <<sent, acked, due>>
None == -1

Init == sent = 0 /\ acked = 0 /\ due = None

\* A frame is taken, and all before it forgiven when it opens a new encoder.
Take ==
  /\ sent <= acked + Window
  /\ sent' = sent + 1
  /\ acked' \in {acked, sent}
  /\ UNCHANGED due

\* A frame that comes to nothing gives its number back.
GiveBack ==
  /\ acked < sent /\ due < sent
  /\ sent' = sent - 1
  /\ UNCHANGED <<acked, due>>

\* The second thread hears news, or is to forgive everything, or everything but
\* the frame in the making.
Hear ==
  /\ due = None
  /\ due' \in ((acked + 1)..sent) \cup ({sent, sent - 1} \cap Nat)
  /\ UNCHANGED <<sent, acked>>

Write ==
  /\ due # None
  /\ acked' = due
  /\ due' = None
  /\ UNCHANGED sent

Next == Take \/ GiveBack \/ Hear \/ Write

Spec == Init /\ [][Next]_vars

\* Nobody acknowledges what was not taken, and no step goes more than a frame
\* beyond the window: only an overtaken write, which takes the acknowledged
\* number back, leaves the newest frame further ahead.
Bounded == sent \in Nat /\ acked \in 0..sent /\ due \in (0..sent) \cup {None}
Within == sent <= acked + Window + 1
Paced == []Bounded /\ [][Within => Within' \/ acked' < acked]_vars
=============================================================================
