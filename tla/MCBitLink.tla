----------------------------- MODULE MCBitLink -----------------------------
(***************************************************************************)
(* BitLink with one short answer and one with characters that look like    *)
(* SYN and DLE where they are data.                                        *)
(***************************************************************************)
EXTENDS BitLink

F == INSTANCE BscFrames

MCFrames == {F!Truncated(f, MaxData) : f \in
                {F!DleFrame(ACK0), F!TextFrame(<<>>, <<SYN>>, ETX, <<SYN, DLE>>)}}

\* What an engine out of step makes of their bits can be any character.
AllBytes == Byte

InTheWait == {[answering |-> {"wait"}, turnaround |-> TRUE, patient |-> TRUE]}

S == INSTANCE StationFrames

\* The theorems of BitLinkProofs are about these frames.
ASSUME FramesAreKnown == FramesFound /\ \A f \in Frames : S!WellFormed(f, MaxData)
=============================================================================
