--------------------------- MODULE ReceiveEngine ---------------------------
(***************************************************************************)
(* ReceiveEngine at the level of characters.                               *)
(*                                                                         *)
(* Two actors share the engine.  The timer interrupt runs processBit() and *)
(* stores the characters of the line in one of two data buffers; on the    *)
(* last character of a frame it hands that buffer over (frameComplete())   *)
(* and goes on with the other one.  The main loop executes a read command: *)
(* startReceiving(), waitReceivedFrameComplete(), getSavedFrame(), and the *)
(* copy of the frame to the host.  An interrupt is atomic for the main     *)
(* loop; the main loop can be interrupted between any two of its accesses  *)
(* to the shared state, and each such access is an action here.            *)
(*                                                                         *)
(* Here the line may deliver any character at any time.  TributaryLink     *)
(* restricts the line to frames, BitLink assembles the characters from     *)
(* bits.                                                                   *)
(***************************************************************************)
EXTENDS DataBuffer

CONSTANT LineBytes          \* the characters that can be on the line

ASSUME LineBytesAssumption == LineBytes \subseteq Byte

VARIABLES
    receiveState,           \* RECEIVE_STATE_...
    previousByteDLE,
    dataBuffers,            \* _dataBuffers[2]
    receiveDataBuffer,      \* index of the working buffer
    savedFrame,             \* index of the last complete frame, or NULL
    frameComplete,
    pc,                     \* next statement of the main loop
    frame,                  \* local pointer of the main loop to a buffer
    frameLen,               \* len argument of the binary sendResponse()
    x,                      \* loop index of the copy to the host
    taken,                  \* history: what frame held when it was taken
    overrun                 \* history: a later frame completed since

engineVars  == <<receiveState, previousByteDLE, dataBuffers,
                 receiveDataBuffer, savedFrame, frameComplete>>
mainVars    == <<pc, frame, frameLen, x>>
historyVars == <<taken, overrun>>
vars        == <<engineVars, mainVars, historyVars>>

NULL == -1
OutOfSync == "OUT_OF_SYNC"
ReceiveStates ==
    {OutOfSync, "IDLE", "DATA", "TRANSPARENT_DATA", "BCC1", "BCC2", "PAD"}
MainSteps == {"idle", "load", "clear", "hunt", "wait", "flag", "take",
              "length", "send", "test", "get", "cell"}

\* The main loop is copying a frame to the host.
Copying == pc \in {"length", "send", "test", "get", "cell"}

TypeOK ==
    /\ receiveState \in ReceiveStates
    /\ previousByteDLE \in BOOLEAN
    /\ dataBuffers \in [0..1 -> DataBuffers]
    /\ receiveDataBuffer \in 0..1
    /\ savedFrame \in 0..1 \union {NULL}
    /\ frameComplete \in BOOLEAN
    /\ pc \in MainSteps
    /\ frame \in 0..1 \union {NULL}
    /\ frameLen \in 0..MaxData
    /\ x \in 0..MaxData
    /\ taken \in DataBuffers
    /\ overrun \in BOOLEAN

Init ==
    /\ receiveState = OutOfSync
    /\ previousByteDLE = FALSE
    /\ dataBuffers = [k \in 0..1 |-> NewDataBuffer]
    /\ receiveDataBuffer = 0
    /\ savedFrame = NULL
    /\ frameComplete = FALSE
    /\ pc = "idle"
    /\ frame = NULL
    /\ frameLen = 0
    /\ x = 0
    /\ taken = NewDataBuffer
    /\ overrun = FALSE

-----------------------------------------------------------------------------
(***************************************************************************)
(* The interrupt: processBit() with a complete character.                  *)
(***************************************************************************)

Working == dataBuffers[receiveDataBuffer]

HandOverUnchanged == UNCHANGED <<receiveDataBuffer, savedFrame, frameComplete,
                                 historyVars>>

\* The interrupt stores one character, or the pair DLE, c.
Store(db) ==
    /\ dataBuffers' = [dataBuffers EXCEPT ![receiveDataBuffer] = db]
    /\ HandOverUnchanged

StoreNothing == UNCHANGED dataBuffers /\ HandOverUnchanged

\* Seeded faults: the buffers are not swapped; they are swapped before the
\* pointer to the frame is saved.
DeliverNoSwap(db) ==
    /\ dataBuffers' = [dataBuffers EXCEPT ![receiveDataBuffer] = db]
    /\ savedFrame' = receiveDataBuffer
    /\ frameComplete' = TRUE
    /\ overrun' = (overrun \/ Copying)
    /\ UNCHANGED <<receiveDataBuffer, taken>>

DeliverSavesNext(db) ==
    LET next == 1 - receiveDataBuffer IN
    /\ dataBuffers' = [dataBuffers EXCEPT ![receiveDataBuffer] = db,
                                          ![next] = Clear(dataBuffers[next])]
    /\ savedFrame' = next
    /\ receiveDataBuffer' = next
    /\ frameComplete' = TRUE
    /\ overrun' = (overrun \/ Copying)
    /\ UNCHANGED taken

\* frameComplete(), after the last characters were written to give db.
Deliver(db) ==
    LET next == 1 - receiveDataBuffer IN
    /\ dataBuffers' = [dataBuffers EXCEPT ![receiveDataBuffer] = db,
                                          ![next] = Clear(dataBuffers[next])]
    /\ savedFrame' = receiveDataBuffer
    /\ receiveDataBuffer' = next
    /\ frameComplete' = TRUE
    /\ overrun' = (overrun \/ Copying)
    /\ UNCHANGED taken

\* The SYN pattern was found in the bits of the line.
SyncFound ==
    /\ receiveState = OutOfSync
    /\ receiveState' = "IDLE"
    /\ Store(Write(Working, SYN))
    /\ UNCHANGED <<previousByteDLE, mainVars>>

InText == receiveState \in {"DATA", "IDLE"}

PadByte(b) ==
    /\ receiveState = "PAD"
    /\ Deliver(Write(Working, b))
    /\ receiveState' = "IDLE"
    /\ UNCHANGED previousByteDLE

SynByte(b) ==
    /\ InText
    /\ b = SYN
    /\ Store(IF Working.len = 0 THEN Write(Working, SYN) ELSE Working)
    /\ UNCHANGED <<receiveState, previousByteDLE>>

DleByte(b) ==
    /\ InText
    /\ b = DLE
    /\ previousByteDLE' = TRUE
    /\ StoreNothing
    /\ UNCHANGED receiveState

TransparentStart(b) ==
    /\ InText
    /\ previousByteDLE /\ b = STX
    /\ Store(Write(Write(Working, DLE), STX))
    /\ receiveState' = "TRANSPARENT_DATA"
    /\ previousByteDLE' = FALSE

BlockStart(b) ==
    /\ InText
    /\ b = SOH \/ (b = STX /\ ~previousByteDLE)
    /\ Store(Write(Working, b))
    /\ receiveState' = "DATA"
    /\ previousByteDLE' = FALSE

\* The flag stays set: only the other IDLE branches below reset it.
AckByte(b) ==
    /\ receiveState = "IDLE"
    /\ previousByteDLE /\ b \in {ACK0, ACK1}
    /\ Store(Write(Write(Working, DLE), b))
    /\ receiveState' = "PAD"
    /\ UNCHANGED previousByteDLE

EotOrNakByte(b) ==
    /\ receiveState = "IDLE"
    /\ b \in {EOT, NAK}
    /\ Store(Write(Working, b))
    /\ receiveState' = "PAD"
    /\ previousByteDLE' = FALSE

\* Seeded fault: the DLE is not forgotten between two frames.
OtherIdleByteKeepsDle(b) ==
    /\ receiveState = "IDLE"
    /\ b \notin {SYN, DLE, STX, SOH, EOT, NAK}
    /\ ~(previousByteDLE /\ b \in {ACK0, ACK1})
    /\ StoreNothing
    /\ UNCHANGED <<receiveState, previousByteDLE>>

\* Seeded fault: what comes between two frames is stored.
OtherIdleByteStored(b) ==
    /\ receiveState = "IDLE"
    /\ b \notin {SYN, DLE, STX, SOH, EOT, NAK}
    /\ ~(previousByteDLE /\ b \in {ACK0, ACK1})
    /\ previousByteDLE' = FALSE
    /\ Store(Write(Working, b))
    /\ UNCHANGED receiveState

OtherIdleByte(b) ==
    /\ receiveState = "IDLE"
    /\ b \notin {SYN, DLE, STX, SOH, EOT, NAK}
    /\ ~(previousByteDLE /\ b \in {ACK0, ACK1})
    /\ previousByteDLE' = FALSE
    /\ StoreNothing
    /\ UNCHANGED receiveState

\* Seeded fault: a block that ends with ETB is stored to its last character
\* and then not ended.
BlockEndNotAtEtb(b) ==
    /\ receiveState = "DATA"
    /\ b \in {ETB, ETX}
    /\ Store(Write(Working, b))
    /\ receiveState' = IF b = ETX THEN "BCC1" ELSE "DATA"
    /\ UNCHANGED previousByteDLE

BlockEnd(b) ==
    /\ receiveState = "DATA"
    /\ b \in {ETB, ETX}
    /\ Store(Write(Working, b))
    /\ receiveState' = "BCC1"
    /\ UNCHANGED previousByteDLE

DataByte(b) ==
    /\ receiveState = "DATA"
    /\ b \notin {SYN, DLE, STX, SOH, ETB, ETX}
    /\ Store(Write(Working, b))
    /\ UNCHANGED <<receiveState, previousByteDLE>>

InTransparent == receiveState = "TRANSPARENT_DATA"

\* Seeded fault: both DLEs of a stuffed pair are stored.
DoubledDleKeepsBoth(b) ==
    /\ InTransparent
    /\ previousByteDLE /\ b = DLE
    /\ Store(Write(Write(Working, DLE), DLE))
    /\ previousByteDLE' = FALSE
    /\ UNCHANGED receiveState

DoubledDle(b) ==
    /\ InTransparent
    /\ previousByteDLE /\ b = DLE
    /\ Store(Write(Working, DLE))
    /\ previousByteDLE' = FALSE
    /\ UNCHANGED receiveState

\* The frame is complete, yet the engine stays in transparent data.
TransparentAbort(b) ==
    /\ InTransparent
    /\ previousByteDLE /\ b = ENQ
    /\ Deliver(Write(Write(Working, DLE), b))
    /\ previousByteDLE' = FALSE
    /\ UNCHANGED receiveState

TransparentEnd(b) ==
    /\ InTransparent
    /\ previousByteDLE /\ b \in {ITB, ETX, ETB}
    /\ Store(Write(Write(Working, DLE), b))
    /\ receiveState' = "BCC1"
    /\ UNCHANGED previousByteDLE

SingleDle(b) ==
    /\ InTransparent
    /\ ~previousByteDLE /\ b = DLE
    /\ previousByteDLE' = TRUE
    /\ StoreNothing
    /\ UNCHANGED receiveState

\* A DLE before b, if there was one, is lost and the flag stays set.
TransparentByte(b) ==
    /\ InTransparent
    /\ b # DLE
    /\ ~(previousByteDLE /\ b \in {ENQ, ITB, ETX, ETB})
    /\ Store(Write(Working, b))
    /\ UNCHANGED <<receiveState, previousByteDLE>>

BccByte(b) ==
    /\ receiveState \in {"BCC1", "BCC2"}
    /\ Store(Write(Working, b))
    /\ receiveState' = IF receiveState = "BCC1" THEN "BCC2" ELSE "PAD"
    /\ UNCHANGED previousByteDLE

ProcessByte(b) ==
    /\ \/ PadByte(b)          \/ SynByte(b)          \/ DleByte(b)
       \/ TransparentStart(b) \/ BlockStart(b)       \/ AckByte(b)
       \/ EotOrNakByte(b)     \/ OtherIdleByte(b)    \/ BlockEnd(b)
       \/ DataByte(b)         \/ DoubledDle(b)       \/ TransparentAbort(b)
       \/ TransparentEnd(b)   \/ SingleDle(b)        \/ TransparentByte(b)
       \/ BccByte(b)
    /\ UNCHANGED mainVars

-----------------------------------------------------------------------------
(***************************************************************************)
(* The main loop: a read command of either command processor.              *)
(***************************************************************************)

StartRead ==
    /\ pc = "idle"
    /\ pc' = "load"
    /\ UNCHANGED <<engineVars, frame, frameLen, x, historyVars>>

\* startReceiving(): the pointer for _receiveDataBuffer->clear() is loaded,
\* the buffer it points to is cleared, and only then the engine hunts.
LoadReceiveBuffer ==
    /\ pc = "load"
    /\ frame' = receiveDataBuffer
    /\ pc' = "clear"
    /\ UNCHANGED <<engineVars, frameLen, x, historyVars>>

ClearReceiveBuffer ==
    /\ pc = "clear"
    /\ dataBuffers' = [dataBuffers EXCEPT ![frame] = Clear(dataBuffers[frame])]
    /\ pc' = "hunt"
    /\ frame' = NULL
    /\ UNCHANGED <<receiveState, previousByteDLE, receiveDataBuffer,
                   savedFrame, frameComplete, frameLen, x, historyVars>>

EnterHunt ==
    /\ pc = "hunt"
    /\ receiveState' = OutOfSync
    /\ pc' = "wait"
    /\ UNCHANGED <<previousByteDLE, dataBuffers, receiveDataBuffer, savedFrame,
                   frameComplete, frame, frameLen, x, historyVars>>

\* Seeded fault: the wait ends without a look at the flag.
FrameSeenAnyway ==
    /\ pc = "wait"
    /\ pc' = "flag"
    /\ UNCHANGED <<engineVars, frame, frameLen, x, historyVars>>

\* waitReceivedFrameComplete(): the flag is tested, then the time.
FrameSeen ==
    /\ pc = "wait"
    /\ frameComplete
    /\ pc' = "flag"
    /\ UNCHANGED <<engineVars, frame, frameLen, x, historyVars>>

WaitExpires ==
    /\ pc = "wait"
    /\ ~frameComplete
    /\ pc' = "idle"
    /\ UNCHANGED <<engineVars, frame, frameLen, x, historyVars>>

\* getSavedFrame(): two statements.  Then the binary or the text command
\* processor, whichever executes the read, copies the frame to the host.
ResetFlag ==
    /\ pc = "flag"
    /\ frameComplete' = FALSE
    /\ pc' = "take"
    /\ UNCHANGED <<receiveState, previousByteDLE, dataBuffers,
                   receiveDataBuffer, savedFrame, frame, frameLen, x,
                   historyVars>>

TakeFrame ==
    /\ pc = "take"
    /\ frame' = savedFrame
    /\ taken' = dataBuffers[savedFrame]
    /\ overrun' = FALSE
    /\ pc' \in {"length", "test"}
    /\ UNCHANGED <<engineVars, frameLen, x>>

\* The response is out: the locals of the command are gone.
ResponseDone ==
    /\ pc' = "idle"
    /\ frame' = NULL
    /\ frameLen' = 0
    /\ x' = 0
    /\ taken' = NewDataBuffer
    /\ overrun' = FALSE
    /\ UNCHANGED engineVars

\* Binary sendResponse(): the length is read once, the cells one by one.
ReadLength ==
    /\ pc = "length"
    /\ frameLen' = dataBuffers[frame].len
    /\ pc' = "send"
    /\ UNCHANGED <<engineVars, frame, x, historyVars>>

SendBinaryByte ==
    /\ pc = "send"
    /\ x < frameLen
    /\ x' = x + 1
    /\ UNCHANGED <<engineVars, pc, frame, frameLen, historyVars>>

BinaryDone == pc = "send" /\ x >= frameLen /\ ResponseDone

\* Text execRead(): the loop reads the length again for every byte, and
\* get() once more before it reads the cell.  (An earlier get() of the same
\* byte decides on a leading zero in the text: layout.)
TestLength ==
    /\ pc = "test"
    /\ x < dataBuffers[frame].len
    /\ pc' = "get"
    /\ UNCHANGED <<engineVars, frame, frameLen, x, historyVars>>

NextTextByte ==
    /\ x' = x + 1
    /\ pc' = "test"
    /\ UNCHANGED <<engineVars, frame, frameLen, historyVars>>

\* The frame has become shorter since TestLength: get() returns -1.
GetPastEnd ==
    /\ pc = "get"
    /\ x >= dataBuffers[frame].len
    /\ NextTextByte

GetInRange ==
    /\ pc = "get"
    /\ x < dataBuffers[frame].len
    /\ pc' = "cell"
    /\ UNCHANGED <<engineVars, frame, frameLen, x, historyVars>>

SendTextByte == pc = "cell" /\ NextTextByte

TextDone == pc = "test" /\ x >= dataBuffers[frame].len /\ ResponseDone

\* What the next SendBinaryByte, GetPastEnd or SendTextByte gives to the host.
HostByte == IF pc = "get" THEN -1 ELSE dataBuffers[frame].buff[x]

Main ==
    \/ LoadReceiveBuffer \/ ClearReceiveBuffer \/ EnterHunt
    \/ FrameSeen \/ WaitExpires \/ ResetFlag \/ TakeFrame
    \/ ReadLength \/ SendBinaryByte \/ BinaryDone
    \/ TestLength \/ GetPastEnd \/ GetInRange \/ SendTextByte \/ TextDone

Interrupt == SyncFound \/ \E b \in LineBytes : ProcessByte(b)

Next == Interrupt \/ StartRead \/ Main

Spec == Init /\ [][Next]_vars

-----------------------------------------------------------------------------
(***************************************************************************)
(* Safety, whatever the line sends and however the two actors interleave.  *)
(***************************************************************************)

\* The two buffers alternate (frameComplete()): the frame the main loop
\* copies to the host is left alone by the interrupt, byte by byte and in its
\* length, for as long as no later frame completes.
FrameIntact ==
    Copying /\ ~overrun =>
        /\ dataBuffers[frame] = taken
        /\ frame # receiveDataBuffer

\* A byte that goes to the host was written by the interrupt: the copy never
\* reads past what was received into the uninitialised heap of a buffer, not
\* even when a later frame clears or refills the buffer under it, between the
\* length test and the cell of DataBuffer::get() as well.
OnlyReceivedBytesSent ==
    (pc = "send" /\ x < frameLen) \/ pc = "cell" => HostByte # Unwritten

\* When the main loop dereferences the saved frame there is one.
FrameExistsWhenTaken == pc \in {"flag", "take"} => savedFrame # NULL

-----------------------------------------------------------------------------
(***************************************************************************)
(* The inductive invariant behind them.                                    *)
(***************************************************************************)

BuffersApart == savedFrame # receiveDataBuffer

FlagMeansSaved == frameComplete \/ pc \in {"flag", "take"} => savedFrame # NULL

LengthIsWritten == \A k \in 0..1 : WrittenBelow(dataBuffers[k], dataBuffers[k].len)

CopyIsWritten ==
    /\ pc = "clear" \/ Copying => frame \in 0..1
    /\ pc = "send" => WrittenBelow(dataBuffers[frame], frameLen)
    /\ pc = "get" => x < MaxData
    /\ pc = "cell" => x < MaxData /\ WrittenBelow(dataBuffers[frame], x + 1)

IndInv ==
    /\ TypeOK
    /\ BuffersApart
    /\ FlagMeansSaved
    /\ LengthIsWritten
    /\ CopyIsWritten
    /\ FrameIntact
=============================================================================
