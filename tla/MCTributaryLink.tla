-------------------------- MODULE MCTributaryLink --------------------------
(***************************************************************************)
(* TributaryLink with answers of every kind, chosen so that control        *)
(* characters turn up where they are data: in a BCC, in transparent text,  *)
(* in a header.                                                            *)
(***************************************************************************)
EXTENDS LinkInvariant

F == INSTANCE BscFrames

A == 193        \* 0xC1, plain text

MCFrames ==
    {F!Truncated(f, MaxData) : f \in
        {F!DleFrame(ACK0), F!DleFrame(ACK1),
         F!ControlFrame(EOT), F!ControlFrame(NAK),
         F!TextFrame(<<STX, SOH>>, <<>>, ETB, <<ETX, PAD>>),
         F!TextFrame(<<ACK1>>, <<STX, A>>, ETX, <<SYN, DLE>>),
         F!TextFrame(<<>>, <<A, SYN, EOT>>, ETB, <<DLE, STX>>),
         F!TransparentFrame(<<>>, ETX, <<DLE, DLE>>),
         F!TransparentFrame(<<DLE, ETX>>, ETX, <<DLE, SYN>>),
         F!TransparentFrame(<<SYN, A>>, ETB, <<PAD, ETX>>),
         F!TransparentFrame(<<DLE, DLE, ENQ, A>>, ITB, <<STX, A>>)}}

MCLineBytes == {SYN, SOH, STX, ETB, ENQ, ETX, DLE, PAD, NAK, ITB, EOT, ACK0,
                ACK1, A}

Patient(steps) == [answering |-> steps, turnaround |-> TRUE, patient |-> TRUE]

InTheWait    == {Patient({"wait"})}
BetweenReads == {Patient({"idle", "wait"})}

\* Between reads, under startReceiving(), in the wait and during the copy.  The
\* main loop does not wait for a frame to end: one that begins in these steps
\* goes on, and ends, in all the others.
AnyTime == {[answering |-> {"idle", "clear", "wait", "send"},
             turnaround |-> FALSE, patient |-> FALSE]}

\* What an engine out of step makes of frames: enough to leave it in text at
\* mark, and to complete a frame that no station sent.
NoGarble    == {}
MCGarble    == {STX, NAK}
ShortFrames ==
    {F!Truncated(f, MaxData) : f \in {F!DleFrame(ACK1), F!ControlFrame(NAK)}}

\* The theorems of ReceiverProofs are about these frames and stations; a
\* frame that BscFrames builds is one that StationFrames recognises.
ASSUME KnownAnswers ==
    /\ \A f \in MCFrames : WellFormed(f, MaxData)
    /\ \A f \in ShortFrames : WellFormed(f, MaxData)
    /\ \A text \in F!BoundedSeq({A, SYN, ITB, DLE, ETX}, 3) :
        LET Known(f) == WellFormed(F!Truncated(f, MaxData), MaxData) IN
        /\ \A end \in {ITB, ETX, ETB} :
            Known(F!TransparentFrame(text, end, <<DLE, ETX>>))
        /\ \A header \in {<<>>, <<A, STX>>}, end \in {ETX, ETB} :
            {DLE, ETX} \cap F!ToSet(text) = {} =>
                Known(F!TextFrame(header, text, end, <<SYN, A>>))

AckFrames == {F!DleFrame(ACK0), F!DleFrame(ACK1)}
=============================================================================
