---------------------------- MODULE MCClockPhases ----------------------------
(***************************************************************************)
(* ClockPhases with the frames of the text command WRITE, in a buffer of   *)
(* the size of the longest one, and a binary frame that is one character   *)
(* too long for it.                                                        *)
(***************************************************************************)
EXTENDS ClockPhases

C == INSTANCE CommandFrames

MCFrames == {C!ResetFrame, C!AddressFrame(96, 64), C!ScreenFrame,
             C!DataFrame([k \in 1..30 |-> SYN])}
=============================================================================
