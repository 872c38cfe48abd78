----------------------------- MODULE BscFrames -----------------------------
(***************************************************************************)
(* The frames a tributary station answers with, as the repository's README *)
(* and the comment above processBit() list them, each with its characters  *)
(* on the line (wire) and the characters the host is to get (stored): one  *)
(* SYN, the frame without SYN fill or DLE stuffing, and the trailing pad.  *)
(* These definitions are the reference ReceiveEngine is checked against;   *)
(* they share nothing with its state machine.                              *)
(***************************************************************************)
EXTENDS BscProtocol, SequencesExt

Lead == <<PAD, SYN, SYN>>

NotSyn(b) == b # SYN
WithoutFill(text) == SelectSeq(text, NotSyn)

DoubledDle(b) == IF b = DLE THEN <<DLE, DLE>> ELSE <<b>>
StuffDle(text) == FlattenSeq([i \in DOMAIN text |-> DoubledDle(text[i])])

FrameOf(wire, stored) ==
    [wire   |-> Lead \o wire \o <<PAD>>, stored |-> <<SYN>> \o stored \o <<PAD>>]

\* SYN SYN NAK PAD, and the same for EOT.
ControlFrame(b) == FrameOf(<<b>>, <<b>>)

\* SYN SYN DLE ACK0|ACK1 PAD, and the same for WACK and RVI.
DleFrame(b) == FrameOf(<<DLE, b>>, <<DLE, b>>)

\* SYN SYN STX text ETX|ETB BCC BCC PAD, or with a header before the STX.
TextFrame(header, text, end, bcc) ==
    LET soh == IF header = <<>> THEN <<>> ELSE <<SOH>> \o header
    IN  FrameOf(soh \o <<STX>> \o text \o <<end>> \o bcc,
                soh \o <<STX>> \o WithoutFill(text) \o <<end>> \o bcc)

\* SYN SYN DLE STX text DLE ETX|ETB|ITB BCC BCC PAD, DLE doubled in the text.
TransparentFrame(text, end, bcc) ==
    FrameOf(<<DLE, STX>> \o StuffDle(text) \o <<DLE, end>> \o bcc,
            <<DLE, STX>> \o text \o <<DLE, end>> \o bcc)

\* What fits into a buffer of n bytes.
Truncated(f, n) ==
    [f EXCEPT !.stored = SubSeq(f.stored, 1, Min({n, Len(f.stored)}))]
=============================================================================
