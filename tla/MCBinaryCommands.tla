-------------------------- MODULE MCBinaryCommands --------------------------
(***************************************************************************)
(* BinaryCommands with a byte of four values, so that an int ends at 7:    *)
(* commands of every code, the lengths 0, 1, 2 and the longest one, and    *)
(* frames whose length needs one byte and two.                             *)
(***************************************************************************)
EXTENDS BinaryCommands

Request(code, data) == [code |-> code, data |-> data]

MCRequests ==
    {Request(CMD_UNKNOWN, <<>>), Request(CMD_READ, <<>>), Request(CMD_RESET, <<>>),
     Request(CMD_TEXTMODE, <<>>), Request(CMD_DEBUG, <<0>>), Request(CMD_DEBUG, <<1>>),
     Request(CMD_WRITE, <<>>), Request(CMD_WRITE, <<1, 2>>),
     Request(CMD_WRITE_READ, <<3>>),
     Request(CMD_WRITE_READ, <<1, 2, 3, 0, 1, 2, 3>>)}
=============================================================================
