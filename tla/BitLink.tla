------------------------------ MODULE BitLink ------------------------------
(***************************************************************************)
(* TributaryLink bit by bit.                                               *)
(*                                                                         *)
(* The timer interrupt samples the line in one phase of the clock          *)
(* (getBit()) and looks at what it has in the next one (processBit()); the *)
(* main loop can run in between.  The station starts a frame at any bit:   *)
(* nothing ties its characters to the ones the engine counted before.  The *)
(* engine finds them if it hunts, or if the frame happens to begin with a  *)
(* character of the engine; else it cuts the frame into other characters.  *)
(***************************************************************************)
EXTENDS TributaryLink

VARIABLES
    inputBitBuffer,
    receiveBitCounter,
    bitNo,                  \* bits of the current character on the line
    sampled                 \* getBit() ran and processBit() is next

bitVars    == <<inputBitBuffer, receiveBitCounter, bitNo, sampled>>
allBitVars == <<linkVars, bitVars>>

CounterSize == 2^8          \* _receiveBitCounter is a uint8_t

BitTypeOK ==
    /\ LinkTypeOK
    /\ inputBitBuffer \in Byte
    /\ receiveBitCounter \in 0..(CounterSize - 1)
    /\ bitNo \in 0..8
    /\ sampled \in BOOLEAN

BitInit ==
    /\ LinkInit
    /\ inputBitBuffer = 0
    /\ receiveBitCounter = 0
    /\ bitNo = 0
    /\ sampled = FALSE

LineLevel == IF line = <<>> THEN 1 ELSE BitOf(Head(line), bitNo)

\* Seeded faults: the buffer is not shifted; it is shifted the other way.
ShiftInNoShift(buffer, bit) == buffer + 128 * bit
ShiftInLeft(buffer, bit) == (2 * buffer + bit) % 256

\* The last bit comes in at the top; the oldest one falls out.
ShiftIn(buffer, bit) == buffer \div 2 + 128 * bit

GetBit ==
    /\ ~sampled
    /\ sampled' = TRUE
    /\ inputBitBuffer' = ShiftIn(inputBitBuffer, LineLevel)
    /\ receiveBitCounter' = (receiveBitCounter + 1) % CounterSize
    /\ bitNo' = bitNo + 1
    /\ UNCHANGED linkVars

\* The line goes on to its next character after the last bit of one.
LineAdvances ==
    IF bitNo < 8
    THEN UNCHANGED <<bitNo, lineVars>>
    ELSE /\ bitNo' = 0
         /\ line' = IF line = <<>> THEN line ELSE Tail(line)
         /\ turned' = (line = <<>>)
         /\ IF Len(line) = 1
            THEN /\ current' = NoAnswer
                 /\ latest' = IF met THEN current ELSE NoAnswer
            ELSE UNCHANGED <<current, latest>>
         /\ UNCHANGED met

SyncPattern == inputBitBuffer = SYN

\* Seeded fault: the counter goes on when the pattern was found.
ProcessBitHuntingCountsOn ==
    /\ receiveState = OutOfSync
    /\ \/ SyncPattern /\ SyncFound
       \/ ~SyncPattern /\ UNCHANGED vars
    /\ UNCHANGED receiveBitCounter

ProcessBitHunting ==
    /\ receiveState = OutOfSync
    /\ \/ SyncPattern /\ SyncFound /\ receiveBitCounter' = 0
       \/ ~SyncPattern /\ UNCHANGED <<vars, receiveBitCounter>>

ProcessBitInSync ==
    /\ receiveState # OutOfSync
    /\ \/ receiveBitCounter # 8 /\ UNCHANGED <<vars, receiveBitCounter>>
       \/ receiveBitCounter = 8 /\ ProcessByte(inputBitBuffer)
                                /\ receiveBitCounter' = 0

ProcessBit ==
    /\ sampled
    /\ sampled' = FALSE
    /\ ProcessBitHunting \/ ProcessBitInSync
    /\ LineAdvances
    /\ UNCHANGED <<inputBitBuffer, env, answer, hostVars>>

\* The station takes over the line from mark at a bit of its choice.
TransmitBits(f) ==
    /\ ~sampled
    /\ Transmit(f)
    /\ met' = (Ready /\ (receiveState = OutOfSync \/ receiveBitCounter = 0))
    /\ bitNo' = 0
    /\ UNCHANGED <<inputBitBuffer, receiveBitCounter, sampled>>

HostOrMain ==
    /\ WriteCommand \/ WriteReadCommand \/ MainLoop
    /\ UNCHANGED bitVars

BitNext ==
    \/ GetBit \/ ProcessBit
    \/ \E f \in Frames : TransmitBits(f)
    \/ HostOrMain

\* The timer interrupt always comes again, and the main loop always gets on.
BitSpec == BitInit /\ [][BitNext]_allBitVars
                   /\ WF_allBitVars(GetBit) /\ WF_allBitVars(ProcessBit)
                   /\ WF_allBitVars(MainLoop /\ UNCHANGED bitVars)

-----------------------------------------------------------------------------
\* The frames begin with PAD SYN: the bits need no more than that.
LeadIn(f) == Len(f.wire) >= 2 /\ f.wire[1] = PAD /\ f.wire[2] = SYN

FramesFound == \A f \in Frames : LeadIn(f)

\* Between two samples an engine in sync has counted as many bits of its
\* character as the line has of the one that is on it, if it met the frame.
InStep == receiveState # OutOfSync /\ met => receiveBitCounter = bitNo

\* The bits give an engine that is ready for a frame the characters of that
\* frame and no others, at whatever bit it begins and whatever the counter
\* had reached (and wrapped to) while the engine hunted: the pattern that
\* ends the hunt is the first SYN of the frame, not the end of one character
\* and the start of the next.
CharactersOnly == LinkSpec

\* The same without its fairness, for stations that answer when they like: an
\* engine out of step gets characters of Garble and the marks between frames.
CharacterSteps == LinkInit /\ [][LinkNext]_linkVars
=============================================================================
