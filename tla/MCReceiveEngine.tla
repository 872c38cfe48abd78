-------------------------- MODULE MCReceiveEngine --------------------------
(***************************************************************************)
(* ReceiveEngine with a buffer of two characters and, at any time, the     *)
(* characters of control frames and of transparent frames that the station *)
(* aborts.  The other kinds come with the frames of MCTributaryLink.       *)
(***************************************************************************)
EXTENDS ReceiveEngine

ControlAndAbortBytes == {STX, DLE, ENQ, EOT}
=============================================================================
