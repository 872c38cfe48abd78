--------------------------- MODULE CommandFrames ---------------------------
(***************************************************************************)
(* The frames the commands of the host put on the line.                    *)
(***************************************************************************)
EXTENDS BscProtocol, Sequences

Opening == <<PAD, LPAD, LPAD, SYN>>

\* A binary WRITE or WRITE_READ: the host's data between pads.
DataFrame(data) == Opening \o data \o <<PAD>>

\* The text commands: the line reset that precedes each of them, the poll and
\* the select of a device, and the screen that WRITE sends.
ResetFrame == Opening \o <<SYN, EOT, PAD>>

AddressFrame(cu, device) == Opening \o <<SYN, cu, cu, device, device, ENQ, PAD>>

HelloWorld == <<39, 245, 66, 17, 64, 64, 29, 96,
                200, 197, 211, 211, 214, 64, 230, 214, 217, 211, 196, 64, 64, 19>>

ScreenFrame ==
    Opening \o <<SYN, DLE, STX>> \o HelloWorld \o <<DLE, ETX, 108, 22, PAD>>
=============================================================================
