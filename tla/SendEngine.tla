----------------------------- MODULE SendEngine -----------------------------
(***************************************************************************)
(* SendEngine and the write command that drives it.                        *)
(*                                                                         *)
(* The timer interrupt runs sendBit() once per bit: it takes characters    *)
(* from the data buffer and puts their bits on the line.  The main loop    *)
(* clears the engine, fills the buffer with the data of the command,       *)
(* starts the engine and waits.  clearBuffer() and startSending() are      *)
(* several stores, and the interrupt comes between any two of them.        *)
(***************************************************************************)
EXTENDS DataBuffer, Sequences

CONSTANTS
    Frames,         \* the frames the commands send (module CommandFrames)
    Prompt          \* the main loop gets from startSending() to
                    \* stopSendingOnIdle() before a whole frame is out

ASSUME SendAssumption == Frames \subseteq Seq(Byte) /\ Prompt \in BOOLEAN

VARIABLES
    sendDataBuffer,
    sendBitBuffer,
    sendBitBufferLength,
    xmitState,              \* SEND_STATE_...
    stopOnIdle,
    rxd,                    \* level of the RXD line
    pc,                     \* next statement of the main loop
    rest,                   \* characters still to be given to addByte()
    given                   \* history: all characters of the command

engineVars == <<sendDataBuffer, sendBitBuffer, sendBitBufferLength, xmitState,
                stopOnIdle, rxd>>
mainVars   == <<pc, rest, given>>
vars       == <<engineVars, mainVars>>

XmitStates == {"OFF", "IDLE", "XMIT"}
MainSteps == {"command", "clear", "bits", "off", "nostop", "add", "start",
              "restart", "stop", "wait", "done"}

TypeOK ==
    /\ sendDataBuffer \in DataBuffers
    /\ sendBitBuffer \in Byte
    /\ sendBitBufferLength \in 0..8
    /\ xmitState \in XmitStates
    /\ stopOnIdle \in BOOLEAN
    /\ rxd \in Bit
    /\ pc \in MainSteps
    /\ rest \in Seq(Byte)
    /\ given \in Seq(Byte)

\* The constructor leaves the bit buffer alone.
Init ==
    /\ sendDataBuffer = NewDataBuffer
    /\ sendBitBuffer \in {0, 255}
    /\ sendBitBufferLength = 0
    /\ xmitState = "OFF"
    /\ stopOnIdle = FALSE
    /\ rxd = 1
    /\ pc = "command"
    /\ rest = <<>>
    /\ given = <<>>

-----------------------------------------------------------------------------
(***************************************************************************)
(* The interrupt: sendBit().  It does nothing while the engine is off.     *)
(***************************************************************************)

\* Seeded fault: the bits leave the byte at the wrong end.
EmitFromHighEnd(byte, length) ==
    /\ rxd' = byte \div 128
    /\ sendBitBuffer' = (2 * byte) % 256
    /\ sendBitBufferLength' = length - 1

EmitFrom(byte, length) ==
    /\ rxd' = byte % 2
    /\ sendBitBuffer' = byte \div 2
    /\ sendBitBufferLength' = length - 1

SendNextBit ==
    /\ xmitState # "OFF"
    /\ sendBitBufferLength # 0
    /\ EmitFrom(sendBitBuffer, sendBitBufferLength)
    /\ UNCHANGED <<sendDataBuffer, xmitState, stopOnIdle>>

SendNextByte ==
    /\ xmitState # "OFF"
    /\ sendBitBufferLength = 0
    /\ CanRead(sendDataBuffer)
    /\ sendDataBuffer' = Advance(sendDataBuffer)
    /\ xmitState' = "XMIT"
    /\ EmitFrom(NextByte(sendDataBuffer), 8)
    /\ UNCHANGED stopOnIdle

NothingToSend ==
    /\ xmitState # "OFF"
    /\ sendBitBufferLength = 0
    /\ ~CanRead(sendDataBuffer)
    /\ Prompt => pc \notin {"restart", "stop"}

SendIdle ==
    /\ NothingToSend
    /\ ~stopOnIdle
    /\ xmitState' = "IDLE"
    /\ EmitFrom(SYN, 8)
    /\ UNCHANGED <<sendDataBuffer, stopOnIdle>>

\* Seeded faults: the sender stops without a change of its state; with the
\* first bit of an idle character.
StopAtIdleStaysOn ==
    /\ NothingToSend
    /\ stopOnIdle
    /\ sendBitBuffer' = SYN
    /\ rxd' = 1
    /\ UNCHANGED <<sendDataBuffer, sendBitBufferLength, xmitState, stopOnIdle>>

StopAtIdleFallsThrough ==
    /\ NothingToSend
    /\ stopOnIdle
    /\ xmitState' = "OFF"
    /\ EmitFrom(SYN, 8)
    /\ UNCHANGED <<sendDataBuffer, stopOnIdle>>

StopAtIdle ==
    /\ NothingToSend
    /\ stopOnIdle
    /\ xmitState' = "OFF"
    /\ sendBitBuffer' = SYN
    /\ rxd' = 1
    /\ UNCHANGED <<sendDataBuffer, sendBitBufferLength, stopOnIdle>>

SendBit ==
    /\ SendNextBit \/ SendNextByte \/ SendIdle \/ StopAtIdle
    /\ UNCHANGED mainVars

-----------------------------------------------------------------------------
(***************************************************************************)
(* The main loop.                                                          *)
(***************************************************************************)

WriteCommand(f) ==
    /\ pc = "command"
    /\ rest' = f
    /\ given' = f
    /\ pc' = "clear"
    /\ UNCHANGED engineVars

\* Seeded fault: the buffer is rewound and keeps its length.
RewindData ==
    /\ pc = "clear"
    /\ sendDataBuffer' = [sendDataBuffer EXCEPT !.readPos = 0]
    /\ pc' = "bits"
    /\ UNCHANGED <<sendBitBuffer, sendBitBufferLength, xmitState, stopOnIdle,
                   rxd, rest, given>>

\* clearBuffer(): four stores.
ClearData ==
    /\ pc = "clear"
    /\ sendDataBuffer' = Clear(sendDataBuffer)
    /\ pc' = "bits"
    /\ UNCHANGED <<sendBitBuffer, sendBitBufferLength, xmitState, stopOnIdle,
                   rxd, rest, given>>

\* Seeded fault: the bits of an idle character stay in the bit buffer.
ClearBitsForgotten ==
    /\ pc = "bits"
    /\ pc' = "off"
    /\ UNCHANGED <<engineVars, rest, given>>

ClearBits ==
    /\ pc = "bits"
    /\ sendBitBufferLength' = 0
    /\ pc' = "off"
    /\ UNCHANGED <<sendDataBuffer, sendBitBuffer, xmitState, stopOnIdle, rxd,
                   rest, given>>

ClearState ==
    /\ pc = "off"
    /\ xmitState' = "OFF"
    /\ pc' = "nostop"
    /\ UNCHANGED <<sendDataBuffer, sendBitBuffer, sendBitBufferLength,
                   stopOnIdle, rxd, rest, given>>

ClearStop ==
    /\ pc = "nostop"
    /\ stopOnIdle' = FALSE
    /\ pc' = "add"
    /\ UNCHANGED <<sendDataBuffer, sendBitBuffer, sendBitBufferLength,
                   xmitState, rxd, rest, given>>

\* addByte(); nobody looks at the -1 of a full buffer.
AddByte ==
    /\ pc = "add"
    /\ rest # <<>>
    /\ sendDataBuffer' = Write(sendDataBuffer, Head(rest))
    /\ rest' = Tail(rest)
    /\ UNCHANGED <<sendBitBuffer, sendBitBufferLength, xmitState, stopOnIdle,
                   rxd, pc, given>>

AllAdded ==
    /\ pc = "add"
    /\ rest = <<>>
    /\ pc' = "start"
    /\ UNCHANGED <<engineVars, rest, given>>

\* startSending(): two stores, then stopSendingOnIdle().
StartXmit ==
    /\ pc = "start"
    /\ xmitState' = "XMIT"
    /\ pc' = "restart"
    /\ UNCHANGED <<sendDataBuffer, sendBitBuffer, sendBitBufferLength,
                   stopOnIdle, rxd, rest, given>>

SetStop(from, value, to) ==
    /\ pc = from
    /\ stopOnIdle' = value
    /\ pc' = to
    /\ UNCHANGED <<sendDataBuffer, sendBitBuffer, sendBitBufferLength,
                   xmitState, rxd, rest, given>>

StartNoStop       == SetStop("restart", FALSE, "stop")
StopSendingOnIdle == SetStop("stop", TRUE, "wait")

\* Seeded fault: the wait ends when the last character was fetched.
WaitEndsAtLastByte ==
    /\ pc = "wait"
    /\ ~CanRead(sendDataBuffer)
    /\ pc' = "done"
    /\ UNCHANGED <<engineVars, rest, given>>

\* waitForSendIdle()
WaitEnds ==
    /\ pc = "wait"
    /\ xmitState \in {"IDLE", "OFF"}
    /\ pc' = "done"
    /\ UNCHANGED <<engineVars, rest, given>>

\* The response goes to the host.
WriteDone ==
    /\ pc = "done"
    /\ pc' = "command"
    /\ given' = <<>>
    /\ UNCHANGED <<engineVars, rest>>

WriteStep ==
    \/ ClearData \/ ClearBits \/ ClearState \/ ClearStop
    \/ AddByte \/ AllAdded \/ StartXmit \/ StartNoStop \/ StopSendingOnIdle
    \/ WaitEnds \/ WriteDone

Next ==
    \/ SendBit
    \/ \E f \in Frames : WriteCommand(f)
    \/ WriteStep

\* The timer interrupt always comes again, and the main loop always gets on.
Spec == Init /\ [][Next]_vars /\ WF_vars(SendBit) /\ WF_vars(WriteStep)

-----------------------------------------------------------------------------
\* When waitForSendIdle() returns and the command is answered, every bit of
\* the buffer is on the line, also when the interrupt ran dry between
\* startSending() and stopSendingOnIdle().
WaitMeansSent ==
    pc = "done" =>
        /\ sendDataBuffer.readPos = sendDataBuffer.len
        /\ xmitState = "IDLE" \/ sendBitBufferLength = 0

\* What is on its way is the frame of the command, up to the size of the
\* buffer: nothing of the previous command, nothing lost to the interrupt
\* that may read the buffer while clearBuffer() takes it apart.
FrameAsGiven ==
    pc \in {"start", "restart", "stop", "wait", "done"} =>
        Contents(sendDataBuffer) =
            SubSeq(given, 1, IF Len(given) < MaxData THEN Len(given) ELSE MaxData)

\* A sender that is off leaves the line at mark: the next frame's leading pad
\* joins a quiet line.
RestAtMark == xmitState = "OFF" => rxd = 1

\* The busy wait of waitForSendIdle() always ends, whatever was written.
WaitReturns == pc = "wait" ~> pc = "done"

\* "WRITE command completed with %d bytes of data remaining to be sent"
\* (process, CommandProcessor.cpp): with none remaining, all went out.
NoneRemainingMeansAllSent ==
    pc = "done" /\ sendDataBuffer.len - sendDataBuffer.readPos = 0 =>
        Contents(sendDataBuffer) = given

-----------------------------------------------------------------------------
(***************************************************************************)
(* The inductive invariant behind WaitMeansSent and FrameAsGiven.          *)
(***************************************************************************)

BufferWritten ==
    /\ sendDataBuffer.readPos <= sendDataBuffer.len
    /\ WrittenBelow(sendDataBuffer, sendDataBuffer.len)

AllFetched == sendDataBuffer.readPos = sendDataBuffer.len

\* The states of the engine tell what is out.
StateMeansSent ==
    /\ xmitState = "IDLE" => AllFetched
    /\ pc \in {"restart", "stop", "wait", "done"} /\ xmitState = "OFF" =>
            AllFetched /\ sendBitBufferLength = 0
    /\ pc = "done" => xmitState # "XMIT"

\* An engine that is still idling after a command stops by itself, and is off
\* and empty before the next frame is put together.
StopsBeforeFilling ==
    /\ pc \in {"wait", "done", "command", "clear", "bits", "off"} =>
            stopOnIdle \/ xmitState = "OFF"
    /\ pc \in {"nostop", "add", "start"} => xmitState = "OFF"
    /\ pc \in {"bits", "off", "nostop"} => sendDataBuffer.len = 0
    /\ pc \in {"off", "nostop", "add", "start"} => sendBitBufferLength = 0

Stored(n) == IF n < MaxData THEN n ELSE MaxData

\* n characters of the command were given to addByte().
Added(n) ==
    /\ sendDataBuffer.len = Stored(n)
    /\ \A k \in 1..Stored(n) : sendDataBuffer.buff[k - 1] = given[k]

RestIsSuffix ==
    /\ Len(rest) <= Len(given)
    /\ \A k \in 1..Len(rest) : rest[k] = given[Len(given) - Len(rest) + k]

FrameSoFar ==
    /\ pc \in {"clear", "bits", "off", "nostop"} => rest = given
    /\ pc = "add" => RestIsSuffix /\ Added(Len(given) - Len(rest))
    /\ pc \in {"start", "restart", "stop", "wait", "done"} => Added(Len(given))

IndInv ==
    /\ TypeOK
    /\ BufferWritten
    /\ StateMeansSent
    /\ StopsBeforeFilling
    /\ FrameSoFar

-----------------------------------------------------------------------------
\* The engine implements LineSender: in idle the bits of the buffer are out
\* and the bit buffer counts an idle character.
Sender == INSTANCE LineSender WITH
    frame <- Contents(sendDataBuffer),
    sent  <- IF xmitState = "IDLE"
             THEN 8 * sendDataBuffer.readPos
             ELSE 8 * sendDataBuffer.readPos - sendBitBufferLength,
    idle  <- IF xmitState = "IDLE" THEN (8 - sendBitBufferLength) % 8 ELSE 0,
    on    <- xmitState # "OFF",
    level <- rxd

SendsEveryBit == Sender!SenderSpec
=============================================================================
