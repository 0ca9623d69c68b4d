------------------------------ MODULE MCParts ------------------------------
(***************************************************************************)
(* Model checking the parts of a client, and those of the JSON library: a  *)
(* behaviour chooses one of them, which then runs alone.                   *)
(***************************************************************************)
EXTENDS Parts

VARIABLES
  which,  \* the part that runs
  sca_given,
  text_doc

scaVars == <<sca_given>>
textVars == <<text_doc>>

Val == INSTANCE JsonValue WITH
  MaxSize <- MaxElements, value <- val_value, list <- val_list, odd <- val_odd

Sca == INSTANCE JsonScalar WITH
  Length <- 3, given <- sca_given

Text == INSTANCE JsonWriter WITH
  Beginnings <-
    {<<>>, <<"{", "e", ":", "k">>, <<"{", "k", ":", "n", ",">>, <<"[", "n", ",">>},
  MaxLexemes <- 5, MaxExtras <- 2, rightMargin_ <- 9, doc <- text_doc

-----------------------------------------------------------------------------
Part == {"send", "video", "grab", "camera", "x", "picture", "pixels", "value", "scalar", "text"}

Init ==
  /\ which \in Part
  /\ Send!Init
  /\ Video!Init
  /\ Grab!Init
  /\ Cam!Init
  /\ X!Init
  /\ Pic!Init
  /\ Px!Init
  /\ Val!Init
  /\ Sca!Init
  /\ Text!Init
  \* The parts that do not run have one initial state each.
  /\ which # "grab" => grab_mode = 3 /\ ~grab_camera
  /\ which # "camera" => cam_good = {} /\ \A m \in 1..Modes : cam_format[m] = "other"
  /\ which # "picture" => ~pic_decoder
  /\ which # "text" => text_doc = <<>>

Alone ==
  /\ UNCHANGED which
  /\ which # "send" => UNCHANGED sendVars
  /\ which # "video" => UNCHANGED videoVars
  /\ which # "grab" => UNCHANGED grabVars
  /\ which # "camera" => UNCHANGED camVars
  /\ which # "x" => UNCHANGED xVars
  /\ which # "picture" => UNCHANGED picVars
  /\ which # "pixels" => UNCHANGED pxVars
  /\ which # "value" => UNCHANGED valVars
  /\ which # "scalar" => UNCHANGED scaVars
  /\ which # "text" => UNCHANGED textVars

Next ==
  /\ \/ which = "send" /\ Send!Next
     \/ which = "video" /\ Video!Next
     \/ which = "grab" /\ Grab!Next
     \/ which = "camera" /\ Cam!Next
     \/ which = "x" /\ X!Next
     \/ which = "picture" /\ Pic!Next
     \/ which = "pixels" /\ Px!Next
     \/ which = "value" /\ Val!Next
     \/ which = "scalar" /\ Sca!Next
     \/ which = "text" /\ Text!Next
  /\ Alone

vars == <<which, sendVars, videoVars, grabVars, camVars, xVars, picVars, pxVars,
          valVars, scaVars, textVars>>

\* The fairness of the parts, of the one that runs.
Spec ==
  /\ Init /\ [][Next]_vars
  /\ WF_videoVars(which = "video" /\ Video!WsWorks)
  /\ SF_videoVars(which = "video" /\ Video!Leaves)
  /\ WF_videoVars(which = "video" /\ Video!UiWorks)
  /\ \A n \in 1..MaxStarts : WF_videoVars(which = "video" /\ Video!LoopWorks(n))
  /\ WF_grabVars(which = "grab" /\ Grab!LoopWorks)
  /\ WF_camVars(which = "camera" /\ Cam!CaptureWorks)
  /\ WF_camVars(which = "camera" /\ Cam!CallbackWorks)
  /\ WF_xVars(which = "x" /\ X!StartWorks)
  /\ WF_xVars(which = "x" /\ X!ThreadWorks)

-----------------------------------------------------------------------------
\* The order of values and paths into them, strings and numbers, paths and places, but
\* for the inputs that the code does not treat as its documentation or assertions say.
ValuesKept == (which = "value" => Val!Ordered /\ Val!PathsLead) /\ Sca!ScalarsKept

\* What the readers take, and what they leave out, is what they should, but for what
\* the documentation of the features forbids or allows and the code does not; a value
\* that was read is written so that it is read again as the same, with the same
\* comments where they, the newlines or the nulls are not left out; but a comment may
\* hide what follows it, and with nulls left out a null by itself, or alone in an
\* array, is not found again.
DocumentsKept == which = "text" => Text!ReadingRight /\ Text!WritesBack
=============================================================================
