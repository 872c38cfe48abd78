--------------------------- MODULE BinaryCommands ---------------------------
(***************************************************************************)
(* CommandProcessorBinary and the host program, byte by byte on the way to *)
(* the dongle and message by message on the way back.                      *)
(*                                                                         *)
(* The host may send commands ahead of the answers.  The dongle has no     *)
(* other mark between two commands than the lengths it reads, so every     *)
(* command has to take exactly its own bytes from the stream.              *)
(*                                                                         *)
(* The exchange on the line (modules SendEngine and ReceiveEngine) is one  *)
(* step here: a frame was received, or the wait expired.  The text mode is *)
(* entered and left; what happens in it is not modelled here.              *)
(***************************************************************************)
EXTENDS Integers, SequencesExt

CONSTANTS
    ByteSize,       \* 256: a length is two bytes, and so is an int
    Requests,       \* commands of the host, [code, data]
    FrameLengths,   \* lengths of received frames
    DebugLength,    \* length of a debug message
    MaxPending      \* bound: commands sent ahead and answers not yet taken

CMD_UNKNOWN    == 0
CMD_WRITE      == 1
CMD_READ       == 2
CMD_WRITE_READ == 3
CMD_DEBUG      == 9
CMD_RESET      == 15
CMD_TEXTMODE   == 48

Codes == {CMD_UNKNOWN, CMD_WRITE, CMD_READ, CMD_WRITE_READ, CMD_DEBUG, CMD_RESET,
          CMD_TEXTMODE}

RESP_BIT             == 128
ERROR_BIT            == 64
CMD_RESPONSE_TIMEOUT == 16
FREE_RAM             == 140

IntSize == ByteSize * ByteSize

\* The host keeps to the lengths that an int can hold and that the command
\* takes from the stream.
ASSUME HostAssumption ==
    /\ ByteSize \in Nat \ {0, 1} /\ MaxPending \in Nat
    /\ FrameLengths \subseteq 0..(IntSize \div 2 - 1)
    /\ DebugLength \in 1..(IntSize \div 2 - 1)
    /\ \A r \in Requests :
        /\ r.code \in Codes
        /\ r.data \in Seq(0..(ByteSize - 1))
        /\ Len(r.data) < IntSize \div 2
        /\ r.code = CMD_DEBUG => Len(r.data) = 1
        /\ r.code \in {CMD_UNKNOWN, CMD_READ, CMD_RESET, CMD_TEXTMODE} => r.data = <<>>

VARIABLES
    toDongle,           \* bytes the host has sent and the dongle has not read
    toHost,             \* messages the host has not taken
    pc,
    commandCode,
    commandDataLength,
    i,                  \* loop index of copyCommandDataToSender()
    sent,               \* data given to the send engine
    debugEnabled,
    syncControl,        \* the processor's pointer is the one it was given
    linesReset,         \* history: this command has reset the modem lines
    asked               \* history: commands of the host not yet answered

commandVars == <<commandCode, commandDataLength, i, sent, linesReset>>
objectVars  == <<debugEnabled, syncControl>>
vars == <<toDongle, toHost, pc, commandVars, objectVars, asked>>

Steps == {"code", "high", "low", "data", "value", "execute", "reset",
          "receive", "text"}

\* Seeded fault: the low byte of the length comes first.
MessageLowFirst(code, n) ==
    [code |-> code, high |-> n % ByteSize, low |-> (n \div ByteSize) % ByteSize,
     payload |-> n]

Message(code, n) ==
    [code |-> code, high |-> (n \div ByteSize) % ByteSize, low |-> n % ByteSize,
     payload |-> n]

BinTypeOK ==
    /\ toDongle \in Seq(Nat)
    /\ \A m \in ToSet(toHost) :
        m.code \in 0..255 /\ m.high \in 0..(ByteSize - 1) /\ m.low \in 0..(ByteSize - 1)
    /\ pc \in Steps
    /\ commandCode \in Codes
    /\ commandDataLength \in (-(IntSize \div 2))..(IntSize \div 2 - 1)
    /\ i \in 0..(IntSize \div 2)
    /\ sent \in Seq(0..(ByteSize - 1))
    /\ debugEnabled \in BOOLEAN /\ syncControl \in BOOLEAN /\ linesReset \in BOOLEAN
    /\ asked \in Seq(Requests)

\* The constructor hands its member syncControl, not its argument, to the
\* base class: the pointer is what the memory of the new object held.
NewProcessor ==
    /\ debugEnabled' = TRUE
    /\ syncControl' \in BOOLEAN

Init ==
    /\ toDongle = <<>> /\ toHost = <<>> /\ asked = <<>>
    /\ pc = "code"
    /\ commandCode = CMD_UNKNOWN
    /\ commandDataLength = 0
    /\ i = 0
    /\ sent = <<>>
    /\ linesReset = FALSE
    /\ debugEnabled = TRUE
    /\ syncControl \in BOOLEAN

-----------------------------------------------------------------------------
\* The host.

Wire(r) ==
    <<r.code, Len(r.data) \div ByteSize, Len(r.data) % ByteSize>> \o r.data

HostSends(r) ==
    /\ pc # "text"
    /\ \A k \in DOMAIN asked : asked[k].code # CMD_TEXTMODE
    /\ Len(asked) + Len(toHost) < MaxPending
    /\ toDongle' = toDongle \o Wire(r)
    /\ asked' = Append(asked, r)
    /\ UNCHANGED <<toHost, pc, commandVars, objectVars>>

HostTakes ==
    /\ toHost # <<>>
    /\ toHost' = Tail(toHost)
    /\ UNCHANGED <<toDongle, pc, commandVars, objectVars, asked>>

-----------------------------------------------------------------------------
\* getCommand()

ReadByte == toDongle # <<>> /\ toDongle' = Tail(toDongle)

ReadCode ==
    /\ pc = "code"
    /\ ReadByte
    /\ commandCode' = Head(toDongle)
    /\ pc' = "high"
    /\ UNCHANGED <<toHost, commandDataLength, i, sent, linesReset, objectVars, asked>>

ReadHigh ==
    /\ pc = "high"
    /\ ReadByte
    /\ commandDataLength' = Head(toDongle)
    /\ pc' = "low"
    /\ UNCHANGED <<toHost, commandCode, i, sent, linesReset, objectVars, asked>>

\* Seeded fault: a length is negative from one value too early on.
SignedEarly(n) == IF n < IntSize \div 2 - 1 THEN n ELSE n - IntSize

Signed(n) == IF n < IntSize \div 2 THEN n ELSE n - IntSize

AfterHeader(code) ==
    IF code \in {CMD_WRITE, CMD_WRITE_READ} THEN "data"
    ELSE IF code = CMD_DEBUG THEN "value" ELSE "execute"

ReadLow ==
    /\ pc = "low"
    /\ ReadByte
    /\ commandDataLength' = Signed(commandDataLength * ByteSize + Head(toDongle))
    /\ pc' = AfterHeader(commandCode)
    /\ i' = 0
    /\ sent' = <<>>
    /\ linesReset' = FALSE
    /\ UNCHANGED <<toHost, commandCode, objectVars, asked>>

-----------------------------------------------------------------------------
\* copyCommandDataToSender()

CopyByte ==
    /\ pc = "data"
    /\ i < commandDataLength
    /\ ReadByte
    /\ sent' = Append(sent, Head(toDongle))
    /\ i' = i + 1
    /\ UNCHANGED <<toHost, pc, commandCode, commandDataLength, linesReset,
                   objectVars, asked>>

\* Seeded fault: the loop ends one byte early.
CopiedEarly ==
    /\ pc = "data"
    /\ i >= commandDataLength - 1
    /\ pc' = "execute"
    /\ UNCHANGED <<toDongle, toHost, commandVars, objectVars, asked>>

Copied ==
    /\ pc = "data"
    /\ i >= commandDataLength
    /\ pc' = "execute"
    /\ UNCHANGED <<toDongle, toHost, commandVars, objectVars, asked>>

-----------------------------------------------------------------------------
\* process(), after the header and the data.

Debug(enabled) == IF enabled THEN <<Message(RESP_BIT + CMD_DEBUG, DebugLength)>> ELSE <<>>

\* The last message of a command: a response, after debug messages.
Respond(messages, code, n) ==
    /\ toHost' = toHost \o messages \o <<Message(code, n)>>
    /\ asked' = SubSeq(asked, 2, Len(asked))

WriteCommand ==
    /\ pc = "execute" /\ commandCode = CMD_WRITE
    /\ Respond(Debug(debugEnabled), RESP_BIT + CMD_WRITE, 0)
    /\ pc' = "code"
    /\ UNCHANGED <<toDongle, commandVars, objectVars>>

\* Up to startReceiving() and the message that follows it.
WriteReadCommand ==
    /\ pc = "execute" /\ commandCode = CMD_WRITE_READ
    /\ toHost' = toHost \o Debug(debugEnabled) \o Debug(debugEnabled)
    /\ pc' = "receive"
    /\ UNCHANGED <<toDongle, commandVars, objectVars, asked>>

ReadCommand ==
    /\ pc = "execute" /\ commandCode = CMD_READ
    /\ toHost' = toHost \o Debug(debugEnabled)
    /\ pc' = "receive"
    /\ UNCHANGED <<toDongle, commandVars, objectVars, asked>>

FrameReceived ==
    /\ pc = "receive"
    /\ \E n \in FrameLengths : Respond(<<>>, RESP_BIT + commandCode, n)
    /\ pc' = "code"
    /\ UNCHANGED <<toDongle, commandVars, objectVars>>

\* Seeded fault: the expired wait goes on to the response of a frame.
TimeoutThenFrame ==
    /\ pc = "receive"
    /\ Respond(<<Message(RESP_BIT + commandCode + CMD_RESPONSE_TIMEOUT, 0)>>,
               RESP_BIT + commandCode, 0)
    /\ pc' = "code"
    /\ UNCHANGED <<toDongle, commandVars, objectVars>>

ReceiveTimeout ==
    /\ pc = "receive"
    /\ Respond(<<>>, RESP_BIT + commandCode + CMD_RESPONSE_TIMEOUT, 0)
    /\ pc' = "code"
    /\ UNCHANGED <<toDongle, commandVars, objectVars>>

\* One data byte is read whatever the length says.
DebugCommand ==
    /\ pc = "value"
    /\ ReadByte
    /\ debugEnabled' = (Head(toDongle) # 0)
    /\ Respond(Debug(debugEnabled') \o <<Message(FREE_RAM, 2)>>,
               RESP_BIT + CMD_DEBUG, 0)
    /\ pc' = "code"
    /\ UNCHANGED <<commandVars, syncControl>>

\* A call through another pointer resets some lines or none.
DeviceReset ==
    /\ pc = "execute" /\ commandCode = CMD_RESET
    /\ linesReset' \in IF syncControl THEN {TRUE} ELSE BOOLEAN
    /\ pc' = "reset"
    /\ UNCHANGED <<toDongle, toHost, commandCode, commandDataLength, i, sent,
                   objectVars, asked>>

ResetDone ==
    /\ pc = "reset"
    /\ Respond(Debug(debugEnabled), RESP_BIT + CMD_RESET, 0)
    /\ pc' = "code"
    /\ UNCHANGED <<toDongle, commandVars, objectVars>>

\* Then the front end replaces the processor by one for text commands.
TextModeCommand ==
    /\ pc = "execute" /\ commandCode = CMD_TEXTMODE
    /\ Respond(Debug(debugEnabled), RESP_BIT + CMD_TEXTMODE, 0)
    /\ pc' = "text"
    /\ NewProcessor
    /\ UNCHANGED <<toDongle, commandVars>>

\* The user typed BIN.
BinaryMode ==
    /\ pc = "text"
    /\ pc' = "code"
    /\ NewProcessor
    /\ UNCHANGED <<toDongle, toHost, commandVars, asked>>

UnrecognizedCommand ==
    /\ pc = "execute" /\ commandCode = CMD_UNKNOWN
    /\ Respond(Debug(debugEnabled), RESP_BIT + ERROR_BIT + commandCode, 0)
    /\ pc' = "code"
    /\ UNCHANGED <<toDongle, commandVars, objectVars>>

Dongle ==
    \/ ReadCode \/ ReadHigh \/ ReadLow \/ CopyByte \/ Copied
    \/ WriteCommand \/ WriteReadCommand \/ ReadCommand
    \/ FrameReceived \/ ReceiveTimeout \/ DebugCommand
    \/ DeviceReset \/ ResetDone \/ TextModeCommand \/ UnrecognizedCommand

Next ==
    \/ \E r \in Requests : HostSends(r)
    \/ HostTakes \/ Dongle \/ BinaryMode

\* Reads of bytes that are there return, and so do the engines (modules
\* SendEngine and TributaryLink) and the writes to USB.
Spec == Init /\ [][Next]_vars /\ WF_vars(Dongle)

-----------------------------------------------------------------------------
\* Between two commands the stream holds the commands that are not answered,
\* from the first byte of the first one on: whatever was sent ahead, no
\* command leaves bytes behind or takes bytes of the next one.
RequestsInStep ==
    pc = "code" =>
        toDongle = FlattenSeq([k \in DOMAIN asked |-> Wire(asked[k])])

\* The send engine got the data of the command the host is waiting for, all
\* of it and nothing else, also for the longest length an int can hold.
DataAsSent ==
    pc \in {"execute", "receive"} /\ commandCode \in {CMD_WRITE, CMD_WRITE_READ} =>
        sent = Head(asked).data

\* The length bytes of sendResponse() tell the host where the next message
\* begins.
ResponsesInStep ==
    \A k \in DOMAIN toHost :
        ByteSize * toHost[k].high + toHost[k].low = toHost[k].payload

\* "RESET command completed" (process, CommandProcessor.cpp): when the
\* dongle says so, the modem lines have been reset.
ResetCompleted == pc = "reset" => linesReset

-----------------------------------------------------------------------------
(***************************************************************************)
(* The inductive invariant behind them: the stream is what is left of the  *)
(* command that is read, and the commands behind it.                       *)
(***************************************************************************)

Stream(commands) == FlattenSeq([k \in DOMAIN commands |-> Wire(commands[k])])

InCommand == pc \notin {"code", "text"}

\* The command the dongle is at, and what of it is still in the stream.
Command == Head(asked)

LeftOver ==
    CASE pc = "high"  -> <<Len(Command.data) \div ByteSize>>
                            \o (<<Len(Command.data) % ByteSize>> \o Command.data)
      [] pc = "low"   -> <<Len(Command.data) % ByteSize>> \o Command.data
      [] pc = "data"  -> SubSeq(Command.data, i + 1, Len(Command.data))
      [] pc = "value" -> Command.data
      [] OTHER        -> <<>>

StreamInStep ==
    toDongle = IF InCommand THEN LeftOver \o Stream(Tail(asked)) ELSE Stream(asked)

CommandInStep ==
    InCommand =>
        /\ asked # <<>>
        /\ commandCode = Command.code
        /\ pc = "low" => commandDataLength = Len(Command.data) \div ByteSize
        /\ pc = "data" => /\ commandCode \in {CMD_WRITE, CMD_WRITE_READ}
                          /\ commandDataLength = Len(Command.data)
                          /\ i <= Len(Command.data)
                          /\ sent = SubSeq(Command.data, 1, i)
        /\ pc = "value" => commandCode = CMD_DEBUG
        /\ pc \in {"execute", "receive"} /\ commandCode \in {CMD_WRITE, CMD_WRITE_READ}
                => sent = Command.data
        /\ pc = "receive" => commandCode \in {CMD_READ, CMD_WRITE_READ}
        /\ pc = "reset" => commandCode = CMD_RESET

\* What the host can be sent: messages with the length that they have.
HostMessages ==
    {m \in [code : 0..255, high : 0..(ByteSize - 1), low : 0..(ByteSize - 1),
            payload : 0..(IntSize - 1)] :
        ByteSize * m.high + m.low = m.payload}

BinInv ==
    /\ BinTypeOK
    /\ toHost \in Seq(HostMessages)
    /\ StreamInStep
    /\ CommandInStep

-----------------------------------------------------------------------------
\* A host that ignores debug messages and the free memory sees the promises
\* of CommandServer kept.
IsAnswer(m) ==
    m.code # FREE_RAM /\ (m.code = RESP_BIT + CMD_DEBUG => m.high = 0 /\ m.low = 0)

AnswerCode(m) == IF IsAnswer(m) THEN <<m.code>> ELSE <<>>

AnswerCodesIn(messages) == FlattenSeq([k \in DOMAIN messages |-> AnswerCode(messages[k])])

CommandCodes(commands) == [k \in DOMAIN commands |-> commands[k].code]

PossibleAnswers ==
    [c \in Codes |->
        CASE c \in {CMD_READ, CMD_WRITE_READ} -> {c + 128, c + 128 + 16}
          [] c = CMD_UNKNOWN                  -> {c + 128 + 64}
          [] OTHER                            -> {c + 128}]

Server == INSTANCE CommandServer WITH
    Answers <- PossibleAnswers,
    pending <- CommandCodes(asked),
    answers <- AnswerCodesIn(toHost)

AnsweredInOrder == Server!ServerSpec
=============================================================================
