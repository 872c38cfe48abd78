---------------------------- MODULE BscProtocol ----------------------------
(***************************************************************************)
(* The bytes of the binary synchronous (BSC) line protocol that the        *)
(* engines give a meaning to, with the values of bsc_protocol.h, and the   *)
(* order in which the bits of a byte travel.                               *)
(***************************************************************************)
EXTENDS Integers

Byte == 0..255
Bit  == 0..1

SYN  == 50      \* 0x32, also the idle character
SOH  == 1       \* 0x01
STX  == 2       \* 0x02
ETB  == 38      \* 0x26
ENQ  == 45      \* 0x2D
ETX  == 3       \* 0x03
DLE  == 16      \* 0x10
LPAD == 85      \* 0x55, BSC_CONTROL_LEADING_PAD
PAD  == 255     \* 0xFF
NAK  == 61      \* 0x3D
ITB  == 31      \* 0x1F
EOT  == 55      \* 0x37
ACK0 == 112     \* 0x70, after a DLE
ACK1 == 97      \* 0x61, after a DLE
WACK == 107     \* 0x6B, after a DLE
RVI  == 124     \* 0x7C, after a DLE

\* Bytes travel least significant bit first: bit i of byte b.
BitOf(b, i) == (b \div 2^i) % 2
=============================================================================
