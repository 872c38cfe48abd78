---------------------------- MODULE MCSendEngine ----------------------------
(***************************************************************************)
(* SendEngine with frames that leave room in the buffer, that fill it to   *)
(* the last cell and that are too long for it.                             *)
(***************************************************************************)
EXTENDS SendEngine

C == INSTANCE CommandFrames

ShortFrames == {C!DataFrame(<<>>), C!DataFrame(<<SYN>>), C!DataFrame(<<ETX, DLE>>)}
=============================================================================
