--------------------------- MODULE StationFrames ---------------------------
(***************************************************************************)
(* The frames of BscFrames as a reader of the line finds them: which       *)
(* position of the wire holds what, and which characters the host is to    *)
(* get.  BscFrames builds frames from their contents; here a frame of any  *)
(* length is recognised, and nothing is constructed.                       *)
(*                                                                         *)
(* The frames with WACK and RVI are not among them: the engine does not    *)
(* know these answers (run RareAnswers).                                   *)
(***************************************************************************)
EXTENDS BscProtocol, Sequences, FiniteSets

\* PAD SYN SYN ... PAD
Framed(f) ==
    /\ f.wire \in Seq(Byte)
    /\ Len(f.wire) >= 5
    /\ f.wire[1] = PAD /\ f.wire[2] = SYN /\ f.wire[3] = SYN
    /\ f.wire[Len(f.wire)] = PAD

IsControl(f) == Len(f.wire) = 5 /\ f.wire[4] \in {EOT, NAK}

IsAck(f) == Len(f.wire) = 6 /\ f.wire[4] = DLE /\ f.wire[5] \in {ACK0, ACK1}

\* The position of the ETX, ETB or ITB; BCC BCC PAD come after it.
End(f) == Len(f.wire) - 3

IsText(f) ==
    /\ End(f) >= 5
    /\ f.wire[4] \in {SOH, STX}
    /\ \A i \in 5..(End(f) - 1) : f.wire[i] \notin {DLE, ETX, ETB}
    /\ f.wire[End(f)] \in {ETX, ETB}

\* P are the DLEs that stuff a DLE of the text: the text has DLEs in pairs
\* that begin at P, and no other.
IsStuffing(f, P) ==
    /\ \A i \in 6..(End(f) - 2) : f.wire[i] = DLE <=> i \in P \/ i - 1 \in P
    /\ \A i \in P : i + 1 \notin P

TextRange(f) == 6..(End(f) - 3)
Stuffing(f)  == CHOOSE P \in SUBSET TextRange(f) : IsStuffing(f, P)

IsTransparent(f) ==
    /\ End(f) >= 7
    /\ f.wire[4] = DLE /\ f.wire[5] = STX
    /\ f.wire[End(f) - 1] = DLE /\ f.wire[End(f)] \in {ITB, ETX, ETB}
    /\ \E P \in SUBSET TextRange(f) : IsStuffing(f, P)

\* The characters that are not for the host: the first pad, all but the
\* first SYN, the fill in a text and the stuffing.
Dropped(f) ==
    {1, 3} \union (IF IsText(f)
                   THEN {i \in 5..(End(f) - 1) : f.wire[i] = SYN}
                   ELSE IF IsTransparent(f) THEN Stuffing(f) ELSE {})

Kept(f) == (DOMAIN f.wire) \ Dropped(f)

KeptUpTo(f, i) == Cardinality({j \in Kept(f) : j <= i})

\* f.stored are the kept characters that fit into a buffer of n bytes.
IsStored(f, n) ==
    LET all == KeptUpTo(f, Len(f.wire))
    IN  /\ f.stored \in Seq(Byte)
        /\ Len(f.stored) = IF all <= n THEN all ELSE n
        /\ \A i \in Kept(f) :
            KeptUpTo(f, i) <= n => f.stored[KeptUpTo(f, i)] = f.wire[i]

WellFormed(f, n) ==
    /\ Framed(f)
    /\ IsControl(f) \/ IsAck(f) \/ IsText(f) \/ IsTransparent(f)
    /\ IsStored(f, n)
=============================================================================
