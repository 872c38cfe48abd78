---------------------------- MODULE SenderProofs ----------------------------
(***************************************************************************)
(* The invariants of SendEngine and ClockPhases hold for every size of the *)
(* buffer and every set of frames, whether the main loop is prompt or not. *)
(***************************************************************************)
EXTENDS ClockPhases, DataBufferTheorems, SequenceTheorems

-----------------------------------------------------------------------------
(***************************************************************************)
(* SendEngine.                                                             *)
(*                                                                         *)
(* The argument: the interrupt changes the read cursor, the bits and the   *)
(* state of the engine but never a cell or the length of the buffer, so it *)
(* cannot disturb the frame; what it can do to the state depends on what   *)
(* is left to send.  The main loop fills the buffer only while the engine  *)
(* is off.                                                                 *)
(***************************************************************************)

\* The values of the members, when the invariant holds.
LEMMA MemberTypes ==
    ASSUME TypeOK
    PROVE  /\ sendDataBuffer.len \in 0..MaxData
           /\ sendDataBuffer.readPos \in 0..MaxData
           /\ sendDataBuffer.buff \in [0..(MaxData - 1) -> Cell]
           /\ sendBitBufferLength \in 0..8
           /\ MaxData \in Nat \ {0}
BY MaxDataAssumption DEF TypeOK, DataBuffers

\* A character in the buffer that was not read yet is a byte.
LEMMA NextByteIsByte ==
    ASSUME TypeOK, BufferWritten, CanRead(sendDataBuffer)
    PROVE  NextByte(sendDataBuffer) \in Byte
<1>1. sendDataBuffer.readPos \in 0..(sendDataBuffer.len - 1)
  BY MemberTypes DEF CanRead
<1> QED
  BY <1>1 DEF BufferWritten, WrittenBelow, NextByte

\* Nothing can be read when and only when the cursor is at the length.
LEMMA NothingLeft ==
    ASSUME TypeOK, BufferWritten
    PROVE  ~CanRead(sendDataBuffer) <=> AllFetched
BY MemberTypes DEF CanRead, BufferWritten, AllFetched

\* The bits of a byte leave it one by one.
LEMMA EmitType ==
    ASSUME NEW byte \in Byte, NEW length \in 1..8, EmitFrom(byte, length)
    PROVE  /\ rxd' \in Bit
           /\ sendBitBuffer' \in Byte
           /\ sendBitBufferLength' \in 0..7
BY DEF EmitFrom, Byte, Bit

-----------------------------------------------------------------------------
\* What the interrupt leaves alone.
BufferKept ==
    /\ sendDataBuffer'.buff = sendDataBuffer.buff
    /\ sendDataBuffer'.len = sendDataBuffer.len
    /\ UNCHANGED <<stopOnIdle, pc, rest, given>>

\* The interrupt keeps the types, the buffer's contents and its cursor.
LEMMA InterruptKeepsTypes ==
    ASSUME IndInv, SendBit
    PROVE  TypeOK' /\ BufferWritten' /\ BufferKept
<1> USE DEF IndInv
<1>0. TypeOK /\ BufferWritten /\ UNCHANGED mainVars
  BY DEF SendBit
<1>1. CASE SendNextBit
  <2>1. sendBitBufferLength \in 1..8 /\ sendBitBuffer \in Byte
    BY <1>0, <1>1, MemberTypes DEF SendNextBit, TypeOK
  <2>2. rxd' \in Bit /\ sendBitBuffer' \in Byte /\ sendBitBufferLength' \in 0..8
    BY <1>1, <2>1, EmitType DEF SendNextBit
  <2> QED
    BY <1>0, <1>1, <2>2 DEF SendNextBit, TypeOK, BufferWritten, BufferKept, mainVars
<1>2. CASE SendNextByte
  <2>1. NextByte(sendDataBuffer) \in Byte
    BY <1>0, <1>2, NextByteIsByte DEF SendNextByte
  <2>2. rxd' \in Bit /\ sendBitBuffer' \in Byte /\ sendBitBufferLength' \in 0..8
    BY <1>2, <2>1, EmitType DEF SendNextByte
  <2>3. sendDataBuffer' = [sendDataBuffer EXCEPT !.readPos = sendDataBuffer.readPos + 1]
    BY <1>2 DEF SendNextByte, Advance
  <2>4. /\ sendDataBuffer'.buff = sendDataBuffer.buff
        /\ sendDataBuffer'.len = sendDataBuffer.len
        /\ sendDataBuffer'.readPos = sendDataBuffer.readPos + 1
    BY <1>0, <2>3 DEF TypeOK, DataBuffers
  <2>5. /\ sendDataBuffer.readPos + 1 \in 0..MaxData
        /\ sendDataBuffer.readPos + 1 <= sendDataBuffer.len
    BY <1>0, <1>2, MemberTypes DEF SendNextByte, CanRead
  <2>6. sendDataBuffer' \in DataBuffers
    BY <1>0, <2>3, <2>5 DEF TypeOK, DataBuffers
  <2>7. BufferWritten'
    BY <1>0, <2>4, <2>5 DEF BufferWritten, WrittenBelow
  <2> QED
    BY <1>0, <1>2, <2>2, <2>4, <2>6, <2>7
       DEF SendNextByte, TypeOK, BufferKept, mainVars, XmitStates
<1>3. CASE SendIdle
  <2>0. SYN \in Byte
    BY DEF SYN, Byte
  <2>1. rxd' \in Bit /\ sendBitBuffer' \in Byte /\ sendBitBufferLength' \in 0..8
    BY <1>3, <2>0, EmitType DEF SendIdle
  <2> QED
    BY <1>0, <1>3, <2>1
       DEF SendIdle, TypeOK, BufferWritten, BufferKept, mainVars, XmitStates
<1>4. CASE StopAtIdle
  BY <1>0, <1>4
     DEF StopAtIdle, TypeOK, BufferWritten, BufferKept, mainVars, XmitStates,
         SYN, Byte, Bit
<1> QED
  BY <1>1, <1>2, <1>3, <1>4 DEF SendBit

\* The interrupt keeps the frame: it depends on cells, length and main loop.
LEMMA FrameKept ==
    ASSUME FrameSoFar, BufferKept
    PROVE  FrameSoFar'
BY DEF FrameSoFar, BufferKept, Added, RestIsSuffix

\* The interrupt keeps what the state of the engine says.
LEMMA InterruptKeepsState ==
    ASSUME IndInv, SendBit
    PROVE  StateMeansSent' /\ StopsBeforeFilling'
<1>0. /\ TypeOK /\ BufferWritten /\ StateMeansSent /\ StopsBeforeFilling
      /\ BufferKept
  BY InterruptKeepsTypes DEF IndInv
<1>1. CASE SendNextBit
  BY <1>0, <1>1, MemberTypes
     DEF SendNextBit, StateMeansSent, StopsBeforeFilling, BufferKept, AllFetched
<1>2. CASE SendNextByte
  <2>1. ~AllFetched /\ sendDataBuffer.len # 0
    BY <1>0, <1>2, NothingLeft DEF SendNextByte, CanRead
  <2>2. pc # "done" /\ pc \notin {"bits", "off", "nostop", "add", "start"}
    BY <1>0, <1>2, <2>1
       DEF SendNextByte, StateMeansSent, StopsBeforeFilling, TypeOK, XmitStates
  <2> QED
    BY <1>0, <1>2, <2>1, <2>2
       DEF SendNextByte, StateMeansSent, StopsBeforeFilling, BufferKept
<1>3. CASE SendIdle
  <2>1. AllFetched'
    BY <1>0, <1>3, NothingLeft DEF SendIdle, NothingToSend, AllFetched
  <2>2. pc \notin {"off", "nostop", "add", "start", "wait", "done", "command", "clear", "bits"}
    BY <1>0, <1>3 DEF SendIdle, NothingToSend, StopsBeforeFilling
  <2> QED
    BY <1>0, <1>3, <2>1, <2>2
       DEF SendIdle, StateMeansSent, StopsBeforeFilling, BufferKept
<1>4. CASE StopAtIdle
  <2>1. AllFetched' /\ sendBitBufferLength' = 0
    BY <1>0, <1>4, NothingLeft DEF StopAtIdle, NothingToSend, AllFetched
  <2> QED
    BY <1>0, <1>4, <2>1
       DEF StopAtIdle, StateMeansSent, StopsBeforeFilling, BufferKept
<1> QED
  BY <1>1, <1>2, <1>3, <1>4 DEF SendBit

LEMMA InterruptKeepsInv ==
    ASSUME IndInv, SendBit
    PROVE  IndInv'
<1>1. FrameSoFar'
  BY InterruptKeepsTypes, FrameKept DEF IndInv
<1> QED
  BY <1>1, InterruptKeepsTypes, InterruptKeepsState DEF IndInv

-----------------------------------------------------------------------------
\* The steps of the main loop that leave the buffer and the characters alone
\* and only change the members of the engine or the place in the program.
LEMMA BufferStaysWritten ==
    ASSUME BufferWritten, UNCHANGED sendDataBuffer
    PROVE  BufferWritten'
BY DEF BufferWritten, WrittenBelow

\* A new command: the whole frame is still to be added.
LEMMA CommandKeepsInv ==
    ASSUME IndInv, NEW f \in Frames, WriteCommand(f)
    PROVE  IndInv'
<1> USE DEF IndInv
<1>1. f \in Seq(Byte)
  BY SendAssumption
<1>2. TypeOK'
  BY <1>1 DEF WriteCommand, engineVars, TypeOK, MainSteps
<1>3. BufferWritten'
  BY BufferStaysWritten DEF WriteCommand, engineVars
<1>4. StateMeansSent' /\ StopsBeforeFilling'
  BY DEF WriteCommand, engineVars, StateMeansSent, StopsBeforeFilling, AllFetched
<1>5. FrameSoFar'
  BY DEF WriteCommand, FrameSoFar
<1> QED
  BY <1>2, <1>3, <1>4, <1>5

\* clearBuffer(), first store: the buffer is empty, whatever the engine did.
LEMMA ClearDataKeepsInv ==
    ASSUME IndInv, ClearData
    PROVE  IndInv'
<1> USE DEF IndInv
<1>1. /\ sendDataBuffer' = Clear(sendDataBuffer)
      /\ sendDataBuffer \in DataBuffers
  BY DEF ClearData, TypeOK
<1>2. /\ sendDataBuffer' \in DataBuffers
      /\ sendDataBuffer'.len = 0
      /\ WrittenBelow(sendDataBuffer', 0)
  BY <1>1, ClearGrows DEF Grown
<1>3. sendDataBuffer'.readPos = 0
  BY <1>1 DEF Clear, DataBuffers
<1>4. TypeOK'
  BY <1>2 DEF ClearData, TypeOK, MainSteps
<1>5. BufferWritten'
  BY <1>2, <1>3 DEF BufferWritten
<1>6. StateMeansSent' /\ StopsBeforeFilling'
  BY <1>2, <1>3 DEF ClearData, StateMeansSent, StopsBeforeFilling, AllFetched
<1>7. FrameSoFar'
  BY DEF ClearData, FrameSoFar
<1> QED
  BY <1>4, <1>5, <1>6, <1>7

\* The other stores of clearBuffer(), and those of startSending() and
\* stopSendingOnIdle().
LEMMA StoresKeepInv ==
    ASSUME IndInv,
           ClearBits \/ ClearState \/ ClearStop \/ StartXmit
               \/ StartNoStop \/ StopSendingOnIdle
    PROVE  IndInv'
<1> USE DEF IndInv
<1>0. UNCHANGED <<sendDataBuffer, rest, given>>
  BY DEF ClearBits, ClearState, ClearStop, StartXmit, StartNoStop,
         StopSendingOnIdle, SetStop
<1>1. BufferWritten'
  BY <1>0, BufferStaysWritten
<1>2. TypeOK'
  <2> USE DEF TypeOK, MainSteps, XmitStates
  <2>1. CASE ClearBits
    BY <2>1 DEF ClearBits
  <2>2. CASE ClearState
    BY <2>2 DEF ClearState
  <2>3. CASE ClearStop
    BY <2>3 DEF ClearStop
  <2>4. CASE StartXmit
    BY <2>4 DEF StartXmit
  <2>5. CASE StartNoStop
    BY <2>5 DEF StartNoStop, SetStop
  <2>6. CASE StopSendingOnIdle
    BY <2>6 DEF StopSendingOnIdle, SetStop
  <2> QED
    BY <2>1, <2>2, <2>3, <2>4, <2>5, <2>6
<1>3. StateMeansSent' /\ StopsBeforeFilling'
  <2> USE DEF StateMeansSent, StopsBeforeFilling, AllFetched
  <2>1. CASE ClearBits
    BY <2>1 DEF ClearBits
  <2>2. CASE ClearState
    BY <2>2 DEF ClearState
  <2>3. CASE ClearStop
    BY <2>3 DEF ClearStop
  <2>4. CASE StartXmit
    BY <2>4 DEF StartXmit
  <2>5. CASE StartNoStop
    BY <2>5 DEF StartNoStop, SetStop
  <2>6. CASE StopSendingOnIdle
    BY <2>6 DEF StopSendingOnIdle, SetStop
  <2> QED
    BY <2>1, <2>2, <2>3, <2>4, <2>5, <2>6
<1>4. FrameSoFar'
  <2>1. CASE ClearStop
    <3>1. rest = given /\ sendDataBuffer.len = 0 /\ pc' = "add"
      BY <2>1 DEF ClearStop, FrameSoFar, StopsBeforeFilling
    <3>2. Len(given) \in Nat
      BY DEF TypeOK
    <3>3. RestIsSuffix'
      BY <1>0, <3>1, <3>2 DEF RestIsSuffix
    <3>4. Added(0)'
      BY <1>0, <3>1, MaxDataAssumption DEF Added, Stored
    <3>5. Len(given') - Len(rest') = 0
      BY <1>0, <3>1, <3>2
    <3> QED
      BY <3>1, <3>3, <3>4, <3>5 DEF FrameSoFar
  <2>2. CASE ~ClearStop
    <3>1. /\ pc' \in {"off", "nostop"} => rest = given
          /\ pc' \in {"restart", "stop", "wait"} => Added(Len(given))
          /\ pc' \in {"off", "nostop", "restart", "stop", "wait"}
      BY <2>2 DEF ClearBits, ClearState, StartXmit, StartNoStop,
                  StopSendingOnIdle, SetStop, FrameSoFar
    <3>2. Added(Len(given)) => Added(Len(given))'
      BY <1>0 DEF Added
    <3> QED
      BY <1>0, <3>1, <3>2 DEF FrameSoFar
  <2> QED
    BY <2>1, <2>2
<1> QED
  BY <1>1, <1>2, <1>3, <1>4

\* One more character is in the buffer, or the buffer is full.
LEMMA AddByteKeepsFrame ==
    ASSUME IndInv, AddByte
    PROVE  FrameSoFar'
<1> USE DEF IndInv
<1>0. PICK n \in Nat : n = Len(given) - Len(rest)
  <2>1. Len(rest) \in Nat /\ Len(given) \in Nat
    BY DEF TypeOK
  <2>2. Len(rest) <= Len(given)
    BY DEF AddByte, FrameSoFar, RestIsSuffix
  <2>3. Len(given) - Len(rest) \in Nat
    BY <2>1, <2>2
  <2> QED
    BY <2>3
<1>1. /\ rest \in Seq(Byte) /\ given \in Seq(Byte) /\ rest # <<>>
      /\ rest' = Tail(rest) /\ given' = given /\ pc = "add" /\ pc' = "add"
      /\ sendDataBuffer' = Write(sendDataBuffer, Head(rest))
      /\ sendDataBuffer \in DataBuffers
      /\ RestIsSuffix /\ Added(n)
  BY <1>0 DEF AddByte, TypeOK, FrameSoFar
<1>2. /\ Len(rest) \in Nat /\ Len(given) \in Nat /\ Len(rest) # 0
      /\ Len(Tail(rest)) = Len(rest) - 1
      /\ \A k \in 1..Len(Tail(rest)) : Tail(rest)[k] = rest[k + 1]
      /\ Head(rest) = rest[1]
  BY <1>0, <1>1
<1>3. n \in Nat /\ Len(given') - Len(rest') = n + 1
  BY <1>0, <1>1, <1>2
<1>4. Head(rest) = given[n + 1]
  <2>1. 1 \in 1..Len(rest)
    BY <1>2
  <2>2. rest[1] = given[n + 1]
    BY <1>0, <1>1, <2>1 DEF RestIsSuffix
  <2> QED
    BY <1>2, <2>2
<1>5. RestIsSuffix'
  <2>1. Len(rest') <= Len(given')
    BY <1>0, <1>1, <1>2 DEF RestIsSuffix
  <2>2. ASSUME NEW k \in 1..Len(rest')
        PROVE  rest'[k] = given'[Len(given') - Len(rest') + k]
    <3>1. k + 1 \in 1..Len(rest) /\ rest'[k] = rest[k + 1]
      BY <1>0, <1>1, <1>2, <2>2
    <3>2. rest[k + 1] = given[n + (k + 1)]
      BY <1>0, <1>1, <3>1 DEF RestIsSuffix
    <3>3. n + (k + 1) = Len(given') - Len(rest') + k
      BY <1>3
    <3> QED
      BY <1>0, <1>1, <3>1, <3>2, <3>3
  <2> QED
    BY <2>1, <2>2 DEF RestIsSuffix
<1>6. Added(n + 1)'
  <2>1. /\ sendDataBuffer.len = Stored(n)
        /\ \A k \in 1..Stored(n) : sendDataBuffer.buff[k - 1] = given[k]
    BY <1>0, <1>1 DEF Added
  <2>2. /\ Stored(n) = IF n < MaxData THEN n ELSE MaxData
        /\ Stored(n + 1) = IF n + 1 < MaxData THEN n + 1 ELSE MaxData
    BY DEF Stored
  <2>3. /\ sendDataBuffer'.len =
                IF sendDataBuffer.len < MaxData
                THEN sendDataBuffer.len + 1 ELSE sendDataBuffer.len
        /\ \A i \in 0..(MaxData - 1) :
                sendDataBuffer'.buff[i] =
                    IF i = sendDataBuffer.len THEN Head(rest)
                    ELSE sendDataBuffer.buff[i]
    BY <1>0, <1>1, WriteEffect
  <2>4. sendDataBuffer'.len = Stored(n + 1)
    BY <1>3, <2>1, <2>2, <2>3, MaxDataAssumption
  <2>5. ASSUME NEW k \in 1..Stored(n + 1)
        PROVE  sendDataBuffer'.buff[k - 1] = given'[k]
    <3>0. k - 1 \in 0..(MaxData - 1)
      BY <1>3, <2>2, <2>5, MaxDataAssumption
    <3>1. CASE k \in 1..Stored(n)
      <4>1. k - 1 # sendDataBuffer.len
        BY <1>3, <2>1, <2>2, <3>1, MaxDataAssumption
      <4> QED
        BY <1>0, <1>1, <2>1, <2>3, <3>0, <3>1, <4>1
    <3>2. CASE k \notin 1..Stored(n)
      <4>1. k = n + 1 /\ k - 1 = sendDataBuffer.len
        BY <1>3, <2>1, <2>2, <2>5, <3>2, MaxDataAssumption
      <4> QED
        BY <1>0, <1>1, <1>4, <2>3, <3>0, <4>1
    <3> QED
      BY <3>1, <3>2
  <2> QED
    BY <1>0, <1>1, <2>4, <2>5 DEF Added, Stored
<1>7. Added(Len(given) - Len(rest))'
  BY <1>0, <1>1, <1>3, <1>6
<1> QED
  BY <1>0, <1>1, <1>5, <1>7 DEF FrameSoFar

LEMMA AddByteKeepsInv ==
    ASSUME IndInv, AddByte
    PROVE  IndInv'
<1> USE DEF IndInv
<1>0. /\ sendDataBuffer' = Write(sendDataBuffer, Head(rest))
      /\ sendDataBuffer \in DataBuffers
      /\ WrittenBelow(sendDataBuffer, sendDataBuffer.len)
      /\ rest \in Seq(Byte) /\ rest # <<>>
  BY DEF AddByte, TypeOK, BufferWritten
<1>1. Head(rest) \in Byte /\ Tail(rest) \in Seq(Byte)
  BY <1>0
<1>2. /\ sendDataBuffer' \in DataBuffers
      /\ WrittenBelow(sendDataBuffer', sendDataBuffer'.len)
  BY <1>0, <1>1, WriteGrows DEF Grown
<1>3. TypeOK'
  BY <1>1, <1>2 DEF AddByte, TypeOK
<1>4. /\ sendDataBuffer'.readPos = sendDataBuffer.readPos
      /\ sendDataBuffer'.len >= sendDataBuffer.len
  <2>1. /\ sendDataBuffer'.readPos = sendDataBuffer.readPos
        /\ sendDataBuffer'.len =
                IF sendDataBuffer.len < MaxData
                THEN sendDataBuffer.len + 1 ELSE sendDataBuffer.len
    BY <1>0, WriteEffect
  <2> QED
    BY <2>1, MemberTypes
<1>5. BufferWritten'
  BY <1>2, <1>4, <1>3, MemberTypes DEF BufferWritten, TypeOK, DataBuffers
<1>6. StateMeansSent' /\ StopsBeforeFilling'
  BY DEF AddByte, StateMeansSent, StopsBeforeFilling
<1> QED
  BY <1>3, <1>5, <1>6, AddByteKeepsFrame

\* The steps that only look and go on.
LEMMA WaitingKeepsInv ==
    ASSUME IndInv, AllAdded \/ WaitEnds \/ WriteDone
    PROVE  IndInv'
<1> USE DEF IndInv
<1>0. UNCHANGED <<sendDataBuffer, sendBitBuffer, sendBitBufferLength, xmitState,
                  stopOnIdle, rxd, rest>>
  BY DEF AllAdded, WaitEnds, WriteDone, engineVars
<1>1. BufferWritten'
  BY <1>0, BufferStaysWritten
<1>2. TypeOK'
  <2>1. given' \in Seq(Byte)
    <3>1. given' = given \/ given' = <<>>
      BY DEF AllAdded, WaitEnds, WriteDone
    <3>2. given \in Seq(Byte) /\ <<>> \in Seq(Byte)
      BY DEF TypeOK
    <3> QED
      BY <3>1, <3>2
  <2>2. pc' \in MainSteps
    BY DEF AllAdded, WaitEnds, WriteDone, MainSteps
  <2> QED
    BY <1>0, <2>1, <2>2 DEF TypeOK
<1>3. StateMeansSent' /\ StopsBeforeFilling'
  <2> USE DEF StateMeansSent, StopsBeforeFilling, AllFetched
  <2>1. CASE AllAdded
    BY <1>0, <2>1 DEF AllAdded
  <2>2. CASE WaitEnds
    BY <1>0, <2>2 DEF WaitEnds
  <2>3. CASE WriteDone
    BY <1>0, <2>3 DEF WriteDone
  <2> QED
    BY <2>1, <2>2, <2>3
<1>4. FrameSoFar'
  <2>1. CASE AllAdded
    <3>1. /\ Len(given) \in Nat
          /\ rest = <<>> /\ given' = given /\ pc' = "start"
          /\ Added(Len(given) - Len(rest))
      BY <2>1 DEF AllAdded, FrameSoFar, TypeOK
    <3>2. Len(given) - Len(rest) = Len(given)
      BY <3>1
    <3>3. Added(Len(given))
      BY <3>1, <3>2
    <3>4. Added(Len(given))'
      BY <1>0, <3>1, <3>3 DEF Added
    <3> QED
      BY <3>1, <3>4 DEF FrameSoFar
  <2>2. CASE WaitEnds
    <3>1. given' = given /\ pc' = "done" /\ Added(Len(given))
      BY <2>2 DEF WaitEnds, FrameSoFar
    <3>2. Added(Len(given))'
      BY <1>0, <3>1 DEF Added
    <3> QED
      BY <3>1, <3>2 DEF FrameSoFar
  <2>3. CASE WriteDone
    BY <2>3 DEF WriteDone, FrameSoFar
  <2> QED
    BY <2>1, <2>2, <2>3
<1> QED
  BY <1>1, <1>2, <1>3, <1>4

-----------------------------------------------------------------------------
LEMMA InitInv == Init => IndInv
<1> SUFFICES ASSUME Init PROVE IndInv
  OBVIOUS
<1>1. /\ sendDataBuffer \in DataBuffers
      /\ WrittenBelow(sendDataBuffer, 0)
  BY NewDataBufferType DEF Init
<1>2. sendDataBuffer.len = 0 /\ sendDataBuffer.readPos = 0
  BY DEF Init, NewDataBuffer
<1>3. TypeOK
  <2>1. /\ sendBitBuffer \in Byte
        /\ sendBitBufferLength \in 0..8
        /\ rxd \in Bit
    BY DEF Init, Byte, Bit
  <2>2. /\ xmitState \in XmitStates
        /\ stopOnIdle \in BOOLEAN
        /\ pc \in MainSteps
    BY DEF Init, XmitStates, MainSteps
  <2>3. rest \in Seq(Byte) /\ given \in Seq(Byte)
    BY DEF Init
  <2> QED
    BY <1>1, <2>1, <2>2, <2>3 DEF TypeOK
<1>4. BufferWritten
  BY <1>1, <1>2 DEF BufferWritten
<1>5. StateMeansSent /\ StopsBeforeFilling /\ FrameSoFar
  BY <1>2 DEF Init, StateMeansSent, StopsBeforeFilling, FrameSoFar, AllFetched
<1> QED
  BY <1>3, <1>4, <1>5 DEF IndInv

LEMMA NextInv == IndInv /\ [Next]_vars => IndInv'
<1> SUFFICES ASSUME IndInv, [Next]_vars PROVE IndInv'
  OBVIOUS
<1>1. CASE SendBit
  BY <1>1, InterruptKeepsInv
<1>2. ASSUME NEW f \in Frames, WriteCommand(f)
      PROVE  IndInv'
  BY <1>2, CommandKeepsInv
<1>3. CASE WriteStep
  <2>1. CASE ClearData
    BY <2>1, ClearDataKeepsInv
  <2>2. CASE \/ ClearBits \/ ClearState \/ ClearStop \/ StartXmit
             \/ StartNoStop \/ StopSendingOnIdle
    BY <2>2, StoresKeepInv
  <2>3. CASE AddByte
    BY <2>3, AddByteKeepsInv
  <2>4. CASE AllAdded \/ WaitEnds \/ WriteDone
    BY <2>4, WaitingKeepsInv
  <2> QED
    BY <1>3, <2>1, <2>2, <2>3, <2>4 DEF WriteStep
<1>4. CASE UNCHANGED vars
  <2>1. BufferKept /\ UNCHANGED <<sendDataBuffer, sendBitBuffer,
                                  sendBitBufferLength, xmitState, rxd>>
    BY <1>4 DEF vars, engineVars, mainVars, BufferKept
  <2>2. FrameSoFar' /\ BufferWritten'
    BY <2>1, FrameKept, BufferStaysWritten DEF IndInv
  <2>3. TypeOK' /\ StateMeansSent' /\ StopsBeforeFilling'
    BY <2>1 DEF IndInv, BufferKept, TypeOK, StateMeansSent,
                StopsBeforeFilling, AllFetched
  <2> QED
    BY <2>2, <2>3 DEF IndInv
<1> QED
  BY <1>1, <1>2, <1>3, <1>4 DEF Next

-----------------------------------------------------------------------------
\* The invariant of all the interleavings of sendBit() with clearBuffer(),
\* addByte(), startSending() and stopSendingOnIdle().
THEOREM InductiveInvariant == Spec => []IndInv
BY InitInv, NextInv, PTL DEF Spec

\* Every member keeps its type: the read cursor of sendBit() never leaves the
\* buffer and the bit counter never goes below zero.
THEOREM TypeCorrect == Spec => []TypeOK
<1>1. IndInv => TypeOK
  BY DEF IndInv
<1> QED
  BY <1>1, InductiveInvariant, PTL

\* A write command is answered only when everything in the buffer is out.
THEOREM WaitIsHonest == Spec => []WaitMeansSent
<1>1. IndInv => WaitMeansSent
  <2> SUFFICES ASSUME IndInv, pc = "done"
               PROVE  /\ sendDataBuffer.readPos = sendDataBuffer.len
                      /\ xmitState = "IDLE" \/ sendBitBufferLength = 0
    BY DEF WaitMeansSent
  <2>1. xmitState \in {"OFF", "IDLE"}
    BY DEF IndInv, TypeOK, XmitStates, StateMeansSent
  <2> QED
    BY <2>1 DEF IndInv, StateMeansSent, AllFetched
<1> QED
  BY <1>1, InductiveInvariant, PTL

\* The buffer that is sent holds the frame of the command, cut at the size of
\* the buffer, however the interrupt came between the stores.
THEOREM FrameIsGiven == Spec => []FrameAsGiven
<1>1. IndInv => FrameAsGiven
  <2> DEFINE m == IF Len(given) < MaxData THEN Len(given) ELSE MaxData
  <2> SUFFICES ASSUME IndInv,
                      pc \in {"start", "restart", "stop", "wait", "done"}
               PROVE  Contents(sendDataBuffer) = SubSeq(given, 1, m)
    BY DEF FrameAsGiven
  <2>1. given \in Seq(Byte) /\ Len(given) \in Nat
    BY DEF IndInv, TypeOK
  <2>2. /\ sendDataBuffer.len = m
        /\ \A k \in 1..m : sendDataBuffer.buff[k - 1] = given[k]
    BY DEF IndInv, FrameSoFar, Added, Stored
  <2>3. m \in Nat /\ m <= Len(given)
    BY <2>1, MaxDataAssumption
  <2> HIDE DEF m
  <2>4. SubSeq(given, 1, m) = [k \in 1..m |-> given[k]]
    BY <2>1, <2>3
  <2>5. Contents(sendDataBuffer) = [k \in 1..m |-> sendDataBuffer.buff[k - 1]]
    BY <2>2 DEF Contents
  <2> QED
    BY <2>2, <2>4, <2>5
<1> QED
  BY <1>1, InductiveInvariant, PTL

-----------------------------------------------------------------------------
(***************************************************************************)
(* SendEngine implements LineSender, for every size of the buffer, every   *)
(* set of frames, and whether the main loop is prompt or not.              *)
(*                                                                         *)
(* The frame of the abstract sender is what the buffer holds, and the bits *)
(* that are out follow from the read cursor and the bit counter.  For that *)
(* the bit buffer has to hold what is left of the character before the     *)
(* cursor, whatever the main loop does meanwhile.                          *)
(***************************************************************************)

\* The bit buffer is byte b without the bits that are out.
OutSoFar(b) == sendBitBuffer = b \div 2^(8 - sendBitBufferLength)

\* The same after a step, for what byte b was before it.
OutAfter(b) == sendBitBuffer' = b \div 2^(8 - sendBitBufferLength')

\* Where the bits in the bit buffer come from, and when there are none.
BitsLeft ==
    /\ sendBitBufferLength \in 0..7
    /\ xmitState = "OFF" => sendBitBufferLength = 0
    /\ xmitState = "IDLE" /\ sendBitBufferLength # 0 => OutSoFar(SYN)
    /\ xmitState = "XMIT" /\ sendBitBufferLength # 0 =>
           /\ sendDataBuffer.readPos # 0
           /\ OutSoFar(sendDataBuffer.buff[sendDataBuffer.readPos - 1])

\* A write that is answered is out, and the next one starts from the first
\* character.
WriteIsOut ==
    /\ pc \in {"done", "command", "clear", "bits", "off"} => xmitState # "XMIT"
    /\ pc \in {"add", "start"} => sendDataBuffer.readPos = 0

RefInv == IndInv /\ BitsLeft /\ WriteIsOut

-----------------------------------------------------------------------------
\* Bits leave a byte at its low end.

LEMMA Halves ==
    ASSUME NEW b \in Byte, NEW i \in 0..6
    PROVE  (b \div 2^i) \div 2 = b \div 2^(i + 1)
<1>. DEFINE Half(n) == (b \div 2^n) \div 2 = b \div 2^(n + 1)
<1>1. /\ 2^0 = 1 /\ 2^1 = 2 /\ 2^2 = 4 /\ 2^3 = 8
      /\ 2^4 = 16 /\ 2^5 = 32 /\ 2^6 = 64 /\ 2^7 = 128
  OBVIOUS
<1>2. Half(0) /\ Half(1) /\ Half(2)
  BY <1>1 DEF Byte
<1>3. Half(3) /\ Half(4)
  BY <1>1 DEF Byte
<1>4. Half(5) /\ Half(6)
  BY <1>1 DEF Byte
<1>5. i \in {0, 1, 2, 3, 4, 5, 6}
  OBVIOUS
<1>. QED
  BY <1>2, <1>3, <1>4, <1>5

LEMMA EmitsBit ==
    ASSUME NEW b \in Byte, NEW length \in 1..8, EmitFrom(b \div 2^(8 - length), length)
    PROVE  /\ rxd' = BitOf(b, 8 - length)
           /\ sendBitBufferLength' = length - 1
           /\ sendBitBufferLength' # 0 => OutAfter(b)
<1>1. rxd' = BitOf(b, 8 - length) /\ sendBitBufferLength' = length - 1
  BY DEF EmitFrom, BitOf
<1>2. ASSUME length # 1
      PROVE  sendBitBuffer' = b \div 2^(8 - sendBitBufferLength')
  <2>1. 8 - length \in 0..6
    BY <1>2
  <2>2. sendBitBuffer' = (b \div 2^(8 - length)) \div 2
    BY DEF EmitFrom
  <2>3. sendBitBuffer' = b \div 2^((8 - length) + 1)
    BY <2>1, <2>2, Halves
  <2>4. (8 - length) + 1 = 8 - sendBitBufferLength'
    BY <1>1
  <2>. QED
    BY <2>3, <2>4
<1>. QED
  BY <1>1, <1>2 DEF OutAfter

\* A character that was just fetched.
LEMMA EmitsFirstBit ==
    ASSUME NEW b \in Byte, EmitFrom(b, 8)
    PROVE  /\ rxd' = BitOf(b, 0)
           /\ sendBitBufferLength' = 7
           /\ OutAfter(b)
<1>1. b \div 2^(8 - 8) = b
  <2>1. 2^(8 - 8) = 1
    OBVIOUS
  <2>. QED
    BY <2>1 DEF Byte
<1>2. EmitFrom(b \div 2^(8 - 8), 8)
  BY <1>1
<1>. QED
  BY <1>2, EmitsBit

\* The characters of the buffer as a sequence.
LEMMA ContentsOfBuffer ==
    ASSUME NEW db \in DataBuffers, WrittenBelow(db, db.len)
    PROVE  /\ Contents(db) \in Seq(Byte)
           /\ Len(Contents(db)) = db.len
           /\ \A k \in 1..db.len : Contents(db)[k] = db.buff[k - 1]
<1>1. db.len \in Nat
  BY MaxDataAssumption DEF DataBuffers
<1>2. \A k \in 1..db.len : db.buff[k - 1] \in Byte
  BY <1>1 DEF WrittenBelow
<1>. QED
  BY <1>1, <1>2 DEF Contents

-----------------------------------------------------------------------------
\* The steps of the interrupt are steps of the abstract sender.

\* A step of the abstract sender, or one that it does not see.
SenderStep == [Sender!SenderNext]_(Sender!senderVars)

\* Both modules mean the same bits.
LEMMA SameBits ==
    /\ Sender!SYN = SYN
    /\ \A b, i : Sender!BitOf(b, i) = BitOf(b, i)
BY DEF Sender!SYN, SYN, Sender!BitOf, BitOf

\* The refinement mapping.
Frame == Contents(sendDataBuffer)
SentBits ==
    IF xmitState = "IDLE"
    THEN 8 * sendDataBuffer.readPos
    ELSE 8 * sendDataBuffer.readPos - sendBitBufferLength
IdleBits == IF xmitState = "IDLE" THEN (8 - sendBitBufferLength) % 8 ELSE 0

LEMMA BufferOfInv ==
    ASSUME IndInv
    PROVE  /\ Frame \in Seq(Byte)
           /\ Len(Frame) = sendDataBuffer.len
           /\ \A k \in 1..sendDataBuffer.len : Frame[k] = sendDataBuffer.buff[k - 1]
BY ContentsOfBuffer DEF Frame, IndInv, TypeOK, BufferWritten

LEMMA IsFrameBit ==
    ASSUME xmitState # "OFF", xmitState' # "OFF", IdleBits = 0, IdleBits' = 0,
           SentBits < 8 * Len(Frame), SentBits' = SentBits + 1, Frame' = Frame,
           rxd' = BitOf(Frame[1 + SentBits \div 8], SentBits % 8)
    PROVE  SenderStep
<1>1. Sender!EmitFrameBit
  BY SameBits DEF Sender!EmitFrameBit, IdleBits, SentBits, Frame
<1>. QED
  BY <1>1 DEF SenderStep, Sender!SenderNext

LEMMA IsIdleBit ==
    ASSUME xmitState # "OFF", xmitState' # "OFF", SentBits = 8 * Len(Frame),
           SentBits' = SentBits, Frame' = Frame, IdleBits' = (IdleBits + 1) % 8,
           rxd' = BitOf(SYN, IdleBits)
    PROVE  SenderStep
<1>1. Sender!EmitIdleBit
  BY SameBits DEF Sender!EmitIdleBit, Sender!AllOut, IdleBits, SentBits, Frame
<1>. QED
  BY <1>1 DEF SenderStep, Sender!SenderNext

LEMMA IsTurnOff ==
    ASSUME xmitState # "OFF", xmitState' = "OFF", SentBits = 8 * Len(Frame),
           SentBits' = SentBits, Frame' = Frame, IdleBits = 0, IdleBits' = 0,
           rxd' \in {rxd, 1}
    PROVE  SenderStep
<1>1. Sender!TurnOff
  BY DEF Sender!TurnOff, Sender!AllOut, IdleBits, SentBits, Frame
<1>. QED
  BY <1>1 DEF SenderStep, Sender!SenderNext

\* What the cases of sendBit() have in common.
LEMMA InterruptFacts ==
    ASSUME RefInv, SendBit
    PROVE  /\ IndInv' /\ BufferKept
           /\ Frame' = Frame
           /\ xmitState \in {"IDLE", "XMIT"}
           /\ xmitState = "IDLE" => AllFetched
           /\ sendDataBuffer.len \in Nat /\ sendDataBuffer.readPos \in Nat
           /\ sendDataBuffer.readPos <= sendDataBuffer.len
           /\ sendBitBufferLength \in 0..7
<1>1. IndInv' /\ BufferKept
  BY InterruptKeepsInv, InterruptKeepsTypes DEF RefInv
<1>2. Frame' = Frame
  BY <1>1 DEF BufferKept, Contents, Frame
<1>3. xmitState \in {"IDLE", "XMIT"}
  BY DEF SendBit, SendNextBit, SendNextByte, SendIdle, StopAtIdle, NothingToSend,
         RefInv, IndInv, TypeOK, XmitStates
<1>. QED
  BY <1>1, <1>2, <1>3, MemberTypes
  DEF RefInv, IndInv, BitsLeft, BufferWritten, StateMeansSent

LEMMA NextBitRefines ==
    ASSUME RefInv, SendBit, SendNextBit
    PROVE  (BitsLeft /\ WriteIsOut)' /\ SenderStep
<1>. DEFINE b == IF xmitState = "IDLE" THEN SYN
                 ELSE sendDataBuffer.buff[sendDataBuffer.readPos - 1]
            L == sendBitBufferLength
<1>0. /\ L \in 1..7 /\ UNCHANGED <<sendDataBuffer, xmitState, stopOnIdle, pc>>
      /\ EmitFrom(sendBitBuffer, L)
  BY InterruptFacts DEF SendNextBit, SendBit, mainVars
<1>1. OutSoFar(b) /\ (xmitState = "XMIT" => sendDataBuffer.readPos # 0)
  BY <1>0, InterruptFacts DEF RefInv, BitsLeft
<1>2. b \in Byte
  <2>1. CASE xmitState = "IDLE"
    BY <2>1 DEF SYN, Byte
  <2>2. CASE xmitState = "XMIT"
    <3>1. sendDataBuffer.readPos - 1 \in 0..(sendDataBuffer.len - 1)
      BY <1>1, <2>2, InterruptFacts
    <3>. QED
      BY <2>2, <3>1 DEF RefInv, IndInv, BufferWritten, WrittenBelow
  <2>. QED
    BY <2>1, <2>2, InterruptFacts
<1>3. /\ rxd' = BitOf(b, 8 - L)
      /\ sendBitBufferLength' = L - 1
      /\ sendBitBufferLength' # 0 => OutAfter(b)
  <2>1. PICK c \in Byte : c = b
    BY <1>2
  <2>2. PICK n \in 1..7 : n = L
    BY <1>0
  <2>3. EmitFrom(c \div 2^(8 - n), n)
    BY <1>0, <1>1, <2>1, <2>2 DEF OutSoFar
  <2>4. n \in 1..8
    OBVIOUS
  <2>5. /\ rxd' = BitOf(c, 8 - n)
        /\ sendBitBufferLength' = n - 1
        /\ sendBitBufferLength' # 0 => OutAfter(c)
    BY <2>3, <2>4, EmitsBit
  <2>. QED
    BY <2>1, <2>2, <2>5 DEF OutAfter
<1>4. (BitsLeft /\ WriteIsOut)'
  BY <1>0, <1>1, <1>3, InterruptFacts DEF RefInv, BitsLeft, WriteIsOut, OutSoFar, OutAfter
<1>5. CASE xmitState = "IDLE"
  <2>1. IdleBits = 8 - L /\ IdleBits' = (IdleBits + 1) % 8
    BY <1>0, <1>3, <1>5 DEF IdleBits
  <2>2. SentBits = 8 * Len(Frame) /\ SentBits' = SentBits
    BY <1>0, <1>5, InterruptFacts, BufferOfInv DEF SentBits, AllFetched, RefInv
  <2>. QED
    BY <1>0, <1>3, <1>4, <1>5, <2>1, <2>2, IsIdleBit, InterruptFacts
<1>6. CASE xmitState = "XMIT"
  <2>. DEFINE r == sendDataBuffer.readPos
  <2>1. SentBits = 8 * r - L /\ SentBits' = 8 * r - (L - 1)
    BY <1>0, <1>3, <1>6 DEF SentBits
  <2>2. /\ SentBits \div 8 = r - 1 /\ SentBits % 8 = 8 - L
        /\ SentBits < 8 * sendDataBuffer.len /\ SentBits' = SentBits + 1
        /\ 1 + SentBits \div 8 = r
        /\ r \in 1..sendDataBuffer.len
    <3>1. r \in Nat \ {0} /\ r <= sendDataBuffer.len /\ sendDataBuffer.len \in Nat
      BY <1>1, <1>6, InterruptFacts
    <3>2. L \in 1..7
      BY <1>0
    <3>. QED
      <4>. HIDE DEF r, L
      <4>. QED
        BY <2>1, <3>1, <3>2
  <2>3. Frame[1 + SentBits \div 8] = b
    BY <1>6, <2>2, BufferOfInv DEF RefInv
  <2>4. IdleBits = 0 /\ IdleBits' = 0 /\ Len(Frame) = sendDataBuffer.len
    BY <1>0, <1>6, BufferOfInv DEF IdleBits, RefInv
  <2>. QED
    BY <1>0, <1>3, <1>4, <1>6, <2>2, <2>3, <2>4, IsFrameBit, InterruptFacts
<1>. QED
  BY <1>4, <1>5, <1>6, InterruptFacts

LEMMA NextByteRefines ==
    ASSUME RefInv, SendBit, SendNextByte
    PROVE  (BitsLeft /\ WriteIsOut)' /\ SenderStep
<1>. DEFINE r == sendDataBuffer.readPos
            b == NextByte(sendDataBuffer)
<1>0. /\ sendBitBufferLength = 0 /\ EmitFrom(b, 8) /\ xmitState' = "XMIT"
      /\ sendDataBuffer' = Advance(sendDataBuffer)
      /\ CanRead(sendDataBuffer) /\ UNCHANGED <<stopOnIdle, pc>>
  BY DEF SendNextByte, SendBit, mainVars
<1>1. b \in Byte /\ b = sendDataBuffer.buff[r]
  BY <1>0, NextByteIsByte DEF RefInv, IndInv, NextByte
<1>2. rxd' = BitOf(b, 0) /\ sendBitBufferLength' = 7 /\ OutAfter(b)
  BY <1>0, <1>1, EmitsFirstBit
<1>3. /\ r < sendDataBuffer.len /\ ~AllFetched
  BY <1>0, InterruptFacts DEF CanRead, AllFetched
<1>4. /\ sendDataBuffer'.readPos = r + 1
      /\ sendDataBuffer'.buff = sendDataBuffer.buff
  BY <1>0 DEF Advance, RefInv, IndInv, TypeOK, DataBuffers
<1>5. xmitState = "XMIT"
  BY <1>3, InterruptFacts
<1>6. (BitsLeft /\ WriteIsOut)'
  <2>1. sendDataBuffer'.buff[sendDataBuffer'.readPos - 1] = b
    BY <1>1, <1>4, InterruptFacts
  <2>2. pc \notin {"done", "command", "clear", "bits", "off", "add", "start"}
    BY <1>5 DEF RefInv, WriteIsOut, IndInv, StopsBeforeFilling
  <2>3. sendDataBuffer'.readPos # 0
    BY <1>4, InterruptFacts
  <2>. QED
    BY <1>0, <1>2, <2>1, <2>2, <2>3 DEF BitsLeft, WriteIsOut, OutSoFar, OutAfter
<1>7. SenderStep
  <2>1. SentBits = 8 * r /\ SentBits' = SentBits + 1
    BY <1>0, <1>2, <1>4, <1>5, InterruptFacts DEF SentBits
  <2>2. /\ SentBits \div 8 = r /\ SentBits % 8 = 0
        /\ SentBits < 8 * sendDataBuffer.len
        /\ 1 + r \in 1..sendDataBuffer.len /\ (1 + r) - 1 = r
    BY <1>3, <2>1, InterruptFacts
  <2>3. Frame[1 + SentBits \div 8] = b
    <3>1. Frame[1 + r] = sendDataBuffer.buff[(1 + r) - 1]
      BY <2>2, BufferOfInv DEF RefInv
    <3>. QED
      BY <1>1, <2>2, <3>1
  <2>4. IdleBits = 0 /\ IdleBits' = 0 /\ Len(Frame) = sendDataBuffer.len
    BY <1>0, <1>5, BufferOfInv DEF IdleBits, RefInv
  <2>. QED
    BY <1>0, <1>2, <1>5, <2>1, <2>2, <2>3, <2>4, IsFrameBit, InterruptFacts
<1>. QED
  BY <1>6, <1>7

LEMMA IdleRefines ==
    ASSUME RefInv, SendBit, SendIdle
    PROVE  (BitsLeft /\ WriteIsOut)' /\ SenderStep
<1>0. /\ sendBitBufferLength = 0 /\ EmitFrom(SYN, 8) /\ xmitState' = "IDLE"
      /\ ~stopOnIdle /\ AllFetched /\ UNCHANGED <<sendDataBuffer, stopOnIdle, pc>>
  BY NothingLeft DEF SendIdle, NothingToSend, SendBit, mainVars, RefInv, IndInv
<1>1. rxd' = BitOf(SYN, 0) /\ sendBitBufferLength' = 7 /\ OutAfter(SYN)
  BY <1>0, EmitsFirstBit DEF SYN, Byte
<1>2. (BitsLeft /\ WriteIsOut)'
  BY <1>0, <1>1 DEF RefInv, BitsLeft, WriteIsOut, OutSoFar, OutAfter
<1>3. IdleBits = 0 /\ IdleBits' = 1
  BY <1>0, <1>1 DEF IdleBits
<1>4. SentBits = 8 * Len(Frame) /\ SentBits' = SentBits
  <2>1. SentBits = 8 * sendDataBuffer.readPos /\ SentBits' = 8 * sendDataBuffer.readPos
    BY <1>0, InterruptFacts DEF SentBits
  <2>2. Len(Frame) = sendDataBuffer.readPos
    BY <1>0, BufferOfInv DEF AllFetched, RefInv
  <2>. QED
    BY <2>1, <2>2
<1>. QED
  BY <1>0, <1>1, <1>2, <1>3, <1>4, IsIdleBit, InterruptFacts

LEMMA StopRefines ==
    ASSUME RefInv, SendBit, StopAtIdle
    PROVE  (BitsLeft /\ WriteIsOut)' /\ SenderStep
<1>0. /\ sendBitBufferLength = 0 /\ sendBitBufferLength' = 0 /\ xmitState' = "OFF"
      /\ rxd' = 1 /\ AllFetched /\ UNCHANGED <<sendDataBuffer, stopOnIdle, pc>>
  BY NothingLeft DEF StopAtIdle, NothingToSend, SendBit, mainVars, RefInv, IndInv
<1>1. (BitsLeft /\ WriteIsOut)'
  BY <1>0 DEF RefInv, BitsLeft, WriteIsOut
<1>2. IdleBits = 0 /\ IdleBits' = 0
  BY <1>0 DEF IdleBits
<1>3. SentBits = 8 * Len(Frame) /\ SentBits' = SentBits
  <2>1. SentBits = 8 * sendDataBuffer.readPos /\ SentBits' = 8 * sendDataBuffer.readPos
    BY <1>0, InterruptFacts DEF SentBits
  <2>2. Len(Frame) = sendDataBuffer.readPos
    BY <1>0, BufferOfInv DEF AllFetched, RefInv
  <2>. QED
    BY <2>1, <2>2
<1>. QED
  BY <1>0, <1>1, <1>2, <1>3, IsTurnOff, InterruptFacts

-----------------------------------------------------------------------------
\* So are the steps of the main loop.

\* The steps that only go on, or change whether the sender stops.
LEMMA QuietStepRefines ==
    ASSUME RefInv,
           UNCHANGED <<sendDataBuffer, sendBitBuffer, sendBitBufferLength, xmitState, rxd>>
    PROVE  BitsLeft' /\ SenderStep
<1>1. BitsLeft'
  BY DEF RefInv, BitsLeft, OutSoFar
<1>2. UNCHANGED (Sender!senderVars)
  BY DEF Sender!senderVars, Contents
<1>. QED
  BY <1>1, <1>2 DEF SenderStep

LEMMA GoingOnRefines ==
    ASSUME RefInv, \/ (\E f \in Frames : WriteCommand(f))
                   \/ ClearStop \/ AllAdded \/ StartNoStop \/ StopSendingOnIdle
                   \/ WaitEnds \/ WriteDone
    PROVE  (BitsLeft /\ WriteIsOut)' /\ SenderStep
<1>1. UNCHANGED <<sendDataBuffer, sendBitBuffer, sendBitBufferLength, xmitState, rxd>>
  BY DEF WriteCommand, ClearStop, AllAdded, StartNoStop, StopSendingOnIdle, SetStop,
         WaitEnds, WriteDone, engineVars
<1>2. sendDataBuffer.len = 0 => sendDataBuffer.readPos = 0
  BY MemberTypes DEF RefInv, IndInv, BufferWritten
<1>3. WriteIsOut'
  <2>. USE <1>1, <1>2 DEF RefInv, IndInv, StopsBeforeFilling, WriteIsOut
  <2>1. CASE \E f \in Frames : WriteCommand(f)
    BY <2>1 DEF WriteCommand
  <2>2. CASE ClearStop \/ AllAdded
    BY <2>2 DEF ClearStop, AllAdded
  <2>3. CASE StartNoStop \/ StopSendingOnIdle
    BY <2>3 DEF StartNoStop, StopSendingOnIdle, SetStop
  <2>4. CASE WaitEnds \/ WriteDone
    BY <2>4 DEF WaitEnds, WriteDone
  <2>. QED
    BY <2>1, <2>2, <2>3, <2>4
<1>. QED
  BY <1>1, <1>3, QuietStepRefines

\* A frame is forgotten when it is out.
LEMMA ClearDataRefines ==
    ASSUME RefInv, ClearData
    PROVE  (BitsLeft /\ WriteIsOut)' /\ SenderStep
<1>0. /\ sendDataBuffer'.len = 0 /\ sendDataBuffer'.readPos = 0
      /\ UNCHANGED <<sendBitBuffer, sendBitBufferLength, xmitState, rxd>>
      /\ pc = "clear" /\ pc' = "bits" /\ xmitState \in {"IDLE", "OFF"}
  BY DEF ClearData, Clear, RefInv, IndInv, TypeOK, DataBuffers, WriteIsOut, XmitStates
<1>1. (BitsLeft /\ WriteIsOut)'
  BY <1>0 DEF RefInv, BitsLeft, WriteIsOut, OutSoFar
<1>2. Frame' = <<>>
  BY <1>0 DEF Frame, Contents
<1>3. SentBits' = 0 /\ IdleBits' = IdleBits
  BY <1>0 DEF SentBits, IdleBits, RefInv, BitsLeft
<1>4. xmitState # "OFF" => SentBits = 8 * Len(Frame)
  BY <1>0, BufferOfInv DEF SentBits, RefInv, IndInv, StateMeansSent, AllFetched
<1>5. Sender!Forget
  BY <1>0, <1>2, <1>3, <1>4
  DEF Sender!Forget, Sender!AllOut, Frame, SentBits, IdleBits
<1>. QED
  BY <1>1, <1>5 DEF SenderStep, Sender!SenderNext

\* Only an idle character is cut short.
LEMMA ClearBitsRefines ==
    ASSUME RefInv, ClearBits
    PROVE  (BitsLeft /\ WriteIsOut)' /\ SenderStep
<1>0. /\ UNCHANGED <<sendDataBuffer, sendBitBuffer, xmitState, rxd>>
      /\ pc = "bits" /\ pc' = "off" /\ sendBitBufferLength' = 0
      /\ xmitState \in {"IDLE", "OFF"}
  BY DEF ClearBits, RefInv, IndInv, TypeOK, WriteIsOut, XmitStates
<1>1. (BitsLeft /\ WriteIsOut)'
  BY <1>0 DEF RefInv, BitsLeft, WriteIsOut
<1>2. Frame' = Frame
  BY <1>0 DEF Frame, Contents
<1>3. CASE xmitState = "IDLE"
  <2>1. SentBits = 8 * Len(Frame) /\ SentBits' = SentBits /\ IdleBits' = 0
    <3>1. /\ SentBits = 8 * sendDataBuffer.readPos
          /\ SentBits' = 8 * sendDataBuffer.readPos
      BY <1>0, <1>3 DEF SentBits
    <3>2. Len(Frame) = sendDataBuffer.readPos
      BY <1>3, BufferOfInv DEF RefInv, IndInv, StateMeansSent, AllFetched
    <3>3. IdleBits' = 0
      BY <1>0, <1>3 DEF IdleBits
    <3>. QED
      BY <3>1, <3>2, <3>3
  <2>2. Sender!CutIdle
    BY <1>0, <1>2, <1>3, <2>1
    DEF Sender!CutIdle, Sender!AllOut, Frame, SentBits, IdleBits
  <2>. QED
    BY <1>1, <2>2 DEF SenderStep, Sender!SenderNext
<1>4. CASE xmitState = "OFF"
  <2>1. UNCHANGED sendBitBufferLength
    BY <1>0, <1>4 DEF RefInv, BitsLeft
  <2>. QED
    BY <1>0, <1>1, <2>1, QuietStepRefines
<1>. QED
  BY <1>0, <1>3, <1>4

LEMMA ClearStateRefines ==
    ASSUME RefInv, ClearState
    PROVE  (BitsLeft /\ WriteIsOut)' /\ SenderStep
<1>0. /\ UNCHANGED <<sendDataBuffer, sendBitBuffer, sendBitBufferLength, rxd>>
      /\ pc = "off" /\ pc' = "nostop" /\ xmitState' = "OFF"
      /\ sendBitBufferLength = 0 /\ xmitState \in {"IDLE", "OFF"}
  BY DEF ClearState, RefInv, IndInv, TypeOK, StopsBeforeFilling, WriteIsOut, XmitStates
<1>1. (BitsLeft /\ WriteIsOut)'
  BY <1>0 DEF BitsLeft, WriteIsOut
<1>2. CASE xmitState = "IDLE"
  <2>1. IdleBits = 0 /\ IdleBits' = 0
    BY <1>0, <1>2 DEF IdleBits
  <2>2. SentBits = 8 * sendDataBuffer.readPos /\ SentBits' = 8 * sendDataBuffer.readPos
    BY <1>0, <1>2, MemberTypes DEF SentBits, RefInv, IndInv
  <2>3. Len(Frame) = sendDataBuffer.readPos /\ Frame' = Frame
    BY <1>0, <1>2, BufferOfInv
    DEF RefInv, IndInv, StateMeansSent, AllFetched, Frame, Contents
  <2>. QED
    BY <1>0, <1>1, <1>2, <2>1, <2>2, <2>3, IsTurnOff
<1>3. CASE xmitState = "OFF"
  BY <1>0, <1>1, <1>3, QuietStepRefines
<1>. QED
  BY <1>0, <1>2, <1>3

\* A character is appended, or dropped by a full buffer.
LEMMA AddByteRefines ==
    ASSUME RefInv, AddByte
    PROVE  (BitsLeft /\ WriteIsOut)' /\ SenderStep
<1>. DEFINE b == Head(rest)
            n == sendDataBuffer.len
<1>0. /\ UNCHANGED <<sendBitBuffer, sendBitBufferLength, xmitState, rxd, pc>>
      /\ pc = "add" /\ xmitState = "OFF" /\ sendBitBufferLength = 0
      /\ sendDataBuffer' = Write(sendDataBuffer, b)
      /\ sendDataBuffer \in DataBuffers /\ b \in Byte
      /\ sendDataBuffer.readPos = 0 /\ n \in 0..MaxData
  BY MemberTypes
  DEF AddByte, RefInv, IndInv, TypeOK, StopsBeforeFilling, WriteIsOut
<1>1. /\ sendDataBuffer'.readPos = 0
      /\ sendDataBuffer'.len = IF n < MaxData THEN n + 1 ELSE n
      /\ \A i \in 0..(MaxData - 1) :
             sendDataBuffer'.buff[i] = IF i = n THEN b ELSE sendDataBuffer.buff[i]
  BY <1>0, WriteEffect
<1>2. (BitsLeft /\ WriteIsOut)'
  BY <1>0, <1>1 DEF BitsLeft, WriteIsOut
<1>3. SentBits = 0 /\ SentBits' = 0 /\ IdleBits = 0 /\ IdleBits' = 0
  BY <1>0, <1>1 DEF SentBits, IdleBits
<1>4. CASE n < MaxData
  <2>1. Frame' = Append(Frame, b)
    <3>0. /\ Frame \in Seq(Byte) /\ Len(Frame) = n
          /\ Frame = [k \in 1..n |-> sendDataBuffer.buff[k - 1]]
          /\ Frame' = [k \in 1..(n + 1) |-> sendDataBuffer'.buff[k - 1]]
      BY <1>1, <1>4, BufferOfInv DEF RefInv, Frame, Contents
    <3>1. \A k \in 1..(n + 1) :
              sendDataBuffer'.buff[k - 1] = IF k <= n THEN sendDataBuffer.buff[k - 1] ELSE b
      <4>1. SUFFICES ASSUME NEW k \in 1..(n + 1)
                     PROVE  sendDataBuffer'.buff[k - 1] =
                                IF k <= n THEN sendDataBuffer.buff[k - 1] ELSE b
        OBVIOUS
      <4>2. k - 1 \in 0..(MaxData - 1) /\ (k - 1 = n <=> ~(k <= n))
        BY <1>0, <1>4, MaxDataAssumption
      <4>. QED
        BY <1>1, <4>2
    <3>2. Append(Frame, b) = [k \in 1..(n + 1) |-> IF k <= n THEN Frame[k] ELSE b]
      BY <1>0, <3>0
    <3>. QED
      BY <1>0, <3>0, <3>1, <3>2
  <2>2. Sender!AppendByte
    BY <1>0, <1>3, <2>1
    DEF Sender!AppendByte, Sender!Byte, Byte, Frame, SentBits, IdleBits
  <2>. QED
    BY <1>2, <2>2 DEF SenderStep, Sender!SenderNext
<1>5. CASE ~(n < MaxData)
  <2>1. sendDataBuffer' = sendDataBuffer
    BY <1>0, <1>5, MaxDataAssumption DEF Write, IsFull
  <2>. QED
    BY <1>0, <1>2, <2>1, QuietStepRefines
<1>. QED
  BY <1>4, <1>5

LEMMA StartXmitRefines ==
    ASSUME RefInv, StartXmit
    PROVE  (BitsLeft /\ WriteIsOut)' /\ SenderStep
<1>0. /\ UNCHANGED <<sendDataBuffer, sendBitBuffer, sendBitBufferLength, rxd>>
      /\ pc' = "restart" /\ xmitState = "OFF" /\ xmitState' = "XMIT"
      /\ sendBitBufferLength = 0
  BY DEF StartXmit, RefInv, IndInv, StopsBeforeFilling
<1>1. (BitsLeft /\ WriteIsOut)'
  BY <1>0 DEF BitsLeft, WriteIsOut
<1>2. Frame' = Frame /\ SentBits' = SentBits /\ IdleBits' = IdleBits
  BY <1>0 DEF Frame, Contents, SentBits, IdleBits
<1>3. Sender!TurnOn
  BY <1>0, <1>2 DEF Sender!TurnOn, Frame, SentBits, IdleBits
<1>. QED
  BY <1>1, <1>3 DEF SenderStep, Sender!SenderNext

-----------------------------------------------------------------------------
LEMMA RefAtFirst == Init => RefInv /\ Sender!SenderInit
<1>. SUFFICES ASSUME Init PROVE RefInv /\ Sender!SenderInit
  OBVIOUS
<1>1. /\ sendDataBuffer.len = 0 /\ sendDataBuffer.readPos = 0
      /\ sendBitBufferLength = 0 /\ xmitState = "OFF" /\ pc = "command" /\ rxd = 1
  BY DEF Init, NewDataBuffer
<1>2. RefInv
  BY <1>1, InitInv DEF RefInv, BitsLeft, WriteIsOut
<1>3. Contents(sendDataBuffer) = <<>>
  BY <1>1 DEF Contents
<1>. QED
  BY <1>1, <1>2, <1>3 DEF Sender!SenderInit

LEMMA RefNext == RefInv /\ [Next]_vars => RefInv' /\ SenderStep
<1>. SUFFICES ASSUME RefInv, [Next]_vars PROVE RefInv' /\ SenderStep
  OBVIOUS
<1>1. IndInv'
  BY NextInv DEF RefInv
<1>2. (BitsLeft /\ WriteIsOut)' /\ SenderStep
  <2>1. CASE SendBit
    BY <2>1, NextBitRefines, NextByteRefines, IdleRefines, StopRefines DEF SendBit
  <2>2. CASE (\E f \in Frames : WriteCommand(f)) \/ WriteStep
    BY <2>2, GoingOnRefines, ClearDataRefines, ClearBitsRefines, ClearStateRefines,
       AddByteRefines, StartXmitRefines
    DEF WriteStep
  <2>3. CASE UNCHANGED vars
    <3>1. WriteIsOut'
      BY <2>3 DEF vars, engineVars, mainVars, RefInv, WriteIsOut
    <3>. QED
      BY <2>3, <3>1, QuietStepRefines DEF vars, engineVars
  <2>. QED
    BY <2>1, <2>2, <2>3 DEF Next
<1>. QED
  BY <1>1, <1>2 DEF RefInv

\* The bits of every frame go out in order, none twice and none left out,
\* and a frame is only put together while the sender is off: for all the
\* interleavings of the interrupt with the stores of the main loop.
THEOREM BitsInOrder == Spec => SendsEveryBit
<1>1. RefInv /\ [Next]_vars => [Sender!SenderNext]_(Sender!senderVars)
  BY RefNext DEF SenderStep
<1>2. Spec => []RefInv
  BY RefAtFirst, RefNext, PTL DEF Spec
<1>3. Init => Sender!SenderInit
  BY RefAtFirst
<1>. QED
  BY <1>1, <1>2, <1>3, PTL DEF Spec, SendsEveryBit, Sender!SenderSpec

-----------------------------------------------------------------------------
(***************************************************************************)
(* ClockPhases.                                                            *)
(*                                                                         *)
(* The argument has two parts.  The clock and modem lines depend on the    *)
(* phase and on the place in deviceReset() only.  The data line depends on *)
(* the sender; a reset comes when the sender is off and at mark, so that   *)
(* it writes what is there and every step is one of SendEngine, whose      *)
(* invariant is used as it is.                                             *)
(***************************************************************************)

\* What is left of a function's writes from the k-th one on.
Left(writes, k) == SubSeq(writes, k, Len(writes))

NotReadyAt(k) ==
    /\ task = "setDsrNotReady" /\ script = Left(NotReadyWrites, k)
    /\ k = 8 => ~dsrReady

ReadyAt(k) ==
    /\ task = "setDsrReady" /\ script = Left(ReadyWrites, k)
    /\ k >= 2 => pins["dsr"] = 0
    /\ k >= 6 => pins["cd"] = 1
    /\ k >= 7 => pins["cts"] = 0
    /\ k >= 9 => dsrReady

LinesReady == dsrReady /\ pins["dsr"] = 0 /\ pins["cts"] = 0 /\ pins["cd"] = 1

\* Where deviceReset() is, and what it has written since it began.
ResetPlace ==
    \/ task = "none" /\ script = <<>> /\ LinesReady
    \/ \E k \in 1..8 : NotReadyAt(k)
    \/ \E k \in 1..11 : ReadyAt(k)

\* A clock that deviceReset() pulled down early has had its second edge.
ClockEdges ==
    /\ clockPhase \in 0..3
    /\ pins \in [Pins -> Bit]
    /\ edges \in [Clocks -> 0..3]
    /\ dsrReady \in BOOLEAN
    /\ \A c \in Clocks :
        /\ clockPhase = 0 => pins[c] = 0 /\ edges[c] = 2
        /\ clockPhase = 1 => pins[c] = 0 /\ edges[c] = 0
        /\ clockPhase \in {2, 3} =>
               (pins[c] = 1 /\ edges[c] = 1) \/ (pins[c] = 0 /\ edges[c] = 2)

LinesInv == ResetPlace /\ ClockEdges

\* The sender idles never, and it is off and at mark outside of a write.
SenderAtRest ==
    /\ xmitState # "IDLE"
    /\ pc \notin {"restart", "stop", "wait"} => xmitState = "OFF"
    /\ RestAtMark
    /\ pc = "wait" => stopOnIdle
    /\ task # "none" => pc = "command"

-----------------------------------------------------------------------------
Write1 == [pin : Pins \union {"rxd", "dsrReady"}, level : Bit]

\* The writes of the two functions (SyncBitBanger.cpp:80-115).
LEMMA TheWrites ==
    /\ NotReadyWrites \in Seq(Write1) /\ Len(NotReadyWrites) = 7
    /\ ReadyWrites \in Seq(Write1) /\ Len(ReadyWrites) = 10
    /\ \A k \in 1..7 : NotReadyWrites[k] \in Write1
    /\ \A k \in 1..10 : ReadyWrites[k] \in Write1
<1>. USE DEF Write1, Pins, Clocks, Bit, Set, NotReadyWrites, ReadyWrites
<1>1. NotReadyWrites \in Seq(Write1) /\ Len(NotReadyWrites) = 7
  OBVIOUS
<1>2. ReadyWrites \in Seq(Write1) /\ Len(ReadyWrites) = 10
  OBVIOUS
<1>3. /\ \A k \in 1..7 : NotReadyWrites[k] \in Write1
      /\ \A k \in 1..10 : ReadyWrites[k] \in Write1
  OBVIOUS
<1>. QED
  BY <1>1, <1>2, <1>3

\* deviceReset() pulls the clocks down and the data line up, never the other
\* way round (SyncBitBanger.cpp:80-115).
SafeWrite(s) ==
    /\ s \in Write1
    /\ s.pin \in Clocks => s.level = 0
    /\ s.pin = "rxd" => s.level = 1

LEMMA WritesAreSafe ==
    /\ \A k \in 1..7 : SafeWrite(NotReadyWrites[k])
    /\ \A k \in 1..10 : SafeWrite(ReadyWrites[k])
<1>1. \A k \in 1..7 : SafeWrite(NotReadyWrites[k])
  BY TheWrites DEF SafeWrite, NotReadyWrites, Set, Clocks
<1>2. \A k \in 1..10 : SafeWrite(ReadyWrites[k])
  BY TheWrites DEF SafeWrite, ReadyWrites, Set, Clocks
<1>. QED
  BY <1>1, <1>2

\* One write is done, and the others are left (SyncBitBanger.cpp:82-89).
LEMMA LeftHeadTail ==
    ASSUME NEW w \in Seq(Write1), NEW k \in 1..Len(w)
    PROVE  /\ Left(w, k) # <<>>
           /\ Head(Left(w, k)) = w[k]
           /\ Tail(Left(w, k)) = Left(w, k + 1)
<1>1. /\ Head(Left(w, k)) = w[k]
      /\ Tail(Left(w, k)) = Left(w, k + 1)
  BY HeadTailOfSubSeq, Len(w) \in k..Len(w) DEF Left
<1>2. Left(w, k) # <<>>
  <2>1. Left(w, k) = << w[k] >> \o SubSeq(w, k + 1, Len(w))
    BY SubSeqRecursiveFirst, Len(w) \in k..Len(w) DEF Left
  <2>. QED
    BY <2>1
<1>. QED
  BY <1>1, <1>2

LEMMA LeftEnds ==
    /\ Left(NotReadyWrites, 1) = NotReadyWrites /\ Left(NotReadyWrites, 8) = <<>>
    /\ Left(ReadyWrites, 1) = ReadyWrites /\ Left(ReadyWrites, 11) = <<>>
    /\ \A k \in 1..7 : Left(NotReadyWrites, k) # <<>>
    /\ \A k \in 1..10 : Left(ReadyWrites, k) # <<>>
<1>1. Left(NotReadyWrites, 1) = NotReadyWrites /\ Left(ReadyWrites, 1) = ReadyWrites
  BY TheWrites, SubSeqFull DEF Left
<1>2. Left(NotReadyWrites, 8) = <<>> /\ Left(ReadyWrites, 11) = <<>>
  BY TheWrites, SubSeqEmpty DEF Left
<1>3. \A k \in 1..7 : Left(NotReadyWrites, k) # <<>>
  BY TheWrites, LeftHeadTail
<1>4. \A k \in 1..10 : Left(ReadyWrites, k) # <<>>
  BY TheWrites, LeftHeadTail
<1>. QED
  BY <1>1, <1>2, <1>3, <1>4

-----------------------------------------------------------------------------
\* The lines, whatever the sender does.

LEMMA LinesAtFirst == ClockInit => LinesInv
<1>. SUFFICES ASSUME ClockInit PROVE LinesInv
  OBVIOUS
<1>1. ReadyAt(1)
  BY TheWrites, LeftEnds DEF ClockInit, ReadyAt
<1>2. ClockEdges
  <2>1. clockPhase = 0 /\ dsrReady \in BOOLEAN
    BY DEF ClockInit
  <2>3. pins \in [Pins -> Bit]
    BY DEF ClockInit, Bit
  <2>4. edges \in [Clocks -> 0..3]
    BY DEF ClockInit
  <2>2. \A c \in Clocks : pins[c] = 0 /\ edges[c] = 2
    BY DEF ClockInit, Pins, Clocks
  <2>. QED
    BY <2>1, <2>2, <2>3, <2>4 DEF ClockEdges
<1>. QED
  BY <1>1, <1>2 DEF LinesInv, ResetPlace

\* The interrupt drives the clocks and nothing else of the lines.
LEMMA InterruptKeepsLines == LinesInv /\ Interrupt => LinesInv'
<1>. SUFFICES ASSUME LinesInv, Interrupt PROVE LinesInv'
  OBVIOUS
<1>1. /\ UNCHANGED <<dsrReady, task, script>>
      /\ \A p \in {"dsr", "cd", "cts"} : pins'[p] = pins[p]
  BY DEF Interrupt, DataPhase, ClocksRise, ProcessPhase, ClocksFall, Drive,
         Pins, Clocks
<1>2. ResetPlace'
  BY <1>1 DEF LinesInv, ResetPlace, NotReadyAt, ReadyAt, LinesReady
<1>3. ClockEdges'
  <2>. USE DEF LinesInv, ClockEdges
  <2>1. CASE DataPhase
    BY <2>1 DEF DataPhase
  <2>2. CASE ClocksRise
    BY <2>2 DEF ClocksRise, Drive, Pins, Clocks, Bit
  <2>3. CASE ProcessPhase
    BY <2>3 DEF ProcessPhase
  <2>4. CASE ClocksFall
    BY <2>4 DEF ClocksFall, Drive, Pins, Clocks, Bit
  <2>. QED
    BY <2>1, <2>2, <2>3, <2>4 DEF Interrupt
<1>. QED
  BY <1>2, <1>3 DEF LinesInv

\* The writes of deviceReset() that are left are those of one of the two
\* functions from some place on.
LEMMA NextWrite ==
    ASSUME LinesInv, script # <<>>
    PROVE  \/ \E k \in 1..7 : /\ NotReadyAt(k)
                              /\ Head(script) = NotReadyWrites[k]
                              /\ Tail(script) = Left(NotReadyWrites, k + 1)
           \/ \E k \in 1..10 : /\ ReadyAt(k)
                               /\ Head(script) = ReadyWrites[k]
                               /\ Tail(script) = Left(ReadyWrites, k + 1)
<1>1. ASSUME NEW k \in 1..8, NotReadyAt(k)
      PROVE  \E j \in 1..7 : /\ NotReadyAt(j)
                             /\ Head(script) = NotReadyWrites[j]
                             /\ Tail(script) = Left(NotReadyWrites, j + 1)
  <2>1. k \in 1..7
    BY <1>1, LeftEnds DEF NotReadyAt
  <2>. QED
    BY <1>1, <2>1, TheWrites, LeftHeadTail DEF NotReadyAt
<1>2. ASSUME NEW k \in 1..11, ReadyAt(k)
      PROVE  \E j \in 1..10 : /\ ReadyAt(j)
                              /\ Head(script) = ReadyWrites[j]
                              /\ Tail(script) = Left(ReadyWrites, j + 1)
  <2>1. k \in 1..10
    BY <1>2, LeftEnds DEF ReadyAt
  <2>. QED
    BY <1>2, <2>1, TheWrites, LeftHeadTail DEF ReadyAt
<1>. QED
  BY <1>1, <1>2 DEF LinesInv, ResetPlace

LEMMA NextWriteIsSafe == LinesInv /\ script # <<>> => SafeWrite(Head(script))
  BY NextWrite, WritesAreSafe

LEMMA WriteKeepsLines == LinesInv /\ WritePin => LinesInv'
<1>. SUFFICES ASSUME LinesInv, WritePin PROVE LinesInv'
  OBVIOUS
<1>. DEFINE s == Head(script)
<1>0. /\ script # <<>> /\ script' = Tail(script) /\ UNCHANGED <<clockPhase, task>>
      /\ dsrReady' = IF s.pin = "dsrReady" THEN s.level = 1 ELSE dsrReady
      /\ Drive([p \in Pins |-> IF p = s.pin THEN s.level ELSE pins[p]])
  BY DEF WritePin
<1>1. s \in Write1 /\ (s.pin \in Clocks => s.level = 0)
  BY <1>0, NextWriteIsSafe DEF SafeWrite
<1>2. /\ pins' \in [Pins -> Bit] /\ dsrReady' \in BOOLEAN
      /\ \A p \in Pins : pins'[p] = IF p = s.pin THEN s.level ELSE pins[p]
  BY <1>0, <1>1 DEF LinesInv, ClockEdges, Drive, Write1
<1>3. ClockEdges'
  <2>1. /\ clockPhase' = clockPhase
        /\ edges' = [c \in Clocks |->
                        IF pins'[c] = pins[c] \/ edges[c] = 3 THEN edges[c] ELSE edges[c] + 1]
        /\ \A c \in Clocks : pins'[c] = 0 \/ pins'[c] = pins[c]
    BY <1>0, <1>1, <1>2 DEF Drive, Pins
  <2>. QED
    BY <1>2, <2>1 DEF LinesInv, ClockEdges, Bit
<1>6. /\ s.pin = "dsrReady" /\ s.level = 1 => dsrReady'
      /\ s.pin = "dsrReady" /\ ~(s.level = 1) => ~dsrReady'
      /\ s.pin # "dsrReady" => dsrReady' = dsrReady
  <2>. HIDE DEF s
  <2>. QED
    BY <1>0, Zenon
<1>4. CASE \E k \in 1..7 : /\ NotReadyAt(k)
                           /\ s = NotReadyWrites[k]
                           /\ Tail(script) = Left(NotReadyWrites, k + 1)
  <2>1. PICK k \in 1..7 : /\ NotReadyAt(k)
                          /\ s = NotReadyWrites[k]
                          /\ Tail(script) = Left(NotReadyWrites, k + 1)
    BY <1>4
  <2>2. k = 7 => ~dsrReady'
    <3>1. k = 7 => s.pin = "dsrReady" /\ s.level = 0
      BY <2>1 DEF NotReadyWrites, Set
    <3>2. s.level = 0 => ~(s.level = 1)
      OBVIOUS
    <3>. QED
      BY <1>6, <3>1, <3>2
  <2>3. NotReadyAt(k + 1)'
    BY <1>0, <2>1, <2>2 DEF NotReadyAt
  <2>. QED
    BY <1>3, <2>3, k + 1 \in 1..8 DEF LinesInv, ResetPlace
<1>5. CASE \E k \in 1..10 : /\ ReadyAt(k)
                            /\ s = ReadyWrites[k]
                            /\ Tail(script) = Left(ReadyWrites, k + 1)
  <2>1. PICK k \in 1..10 : /\ ReadyAt(k)
                           /\ s = ReadyWrites[k]
                           /\ Tail(script) = Left(ReadyWrites, k + 1)
    BY <1>5
  <2>2. /\ k = 1 => s.pin = "dsr" /\ s.level = 0
        /\ k \in 2..5 => s.pin = "cd"
        /\ k = 5 => s.level = 1
        /\ k = 6 => s.pin = "cts" /\ s.level = 0
        /\ k = 7 => s.pin = "rxd"
        /\ k = 8 => s.pin = "dsrReady" /\ s.level = 1
        /\ k \in 9..10 => s.pin \in Clocks
    BY <2>1 DEF ReadyWrites, Set, Clocks
  <2>. HIDE DEF s
  <2>3. /\ pins'["dsr"] = IF s.pin = "dsr" THEN s.level ELSE pins["dsr"]
        /\ pins'["cd"] = IF s.pin = "cd" THEN s.level ELSE pins["cd"]
        /\ pins'["cts"] = IF s.pin = "cts" THEN s.level ELSE pins["cts"]
    BY <1>2 DEF Pins
  <2>4. k + 1 >= 2 => pins'["dsr"] = 0
    BY <2>1, <2>2, <2>3 DEF ReadyAt, Clocks
  <2>5. k + 1 >= 6 => pins'["cd"] = 1
    BY <2>1, <2>2, <2>3 DEF ReadyAt, Clocks
  <2>6. k + 1 >= 7 => pins'["cts"] = 0
    BY <2>1, <2>2, <2>3 DEF ReadyAt, Clocks
  <2>7. k + 1 >= 9 => dsrReady'
    <3>1. CASE k = 8
      BY <1>6, <2>2, <3>1
    <3>2. CASE k \in 9..10
      <4>1. s.pin # "dsrReady" /\ dsrReady
        BY <2>1, <2>2, <3>2 DEF ReadyAt, Clocks
      <4>. QED
        BY <1>6, <4>1
    <3>. QED
      BY <3>1, <3>2
  <2>8. ReadyAt(k + 1)'
    BY <1>0, <2>1, <2>4, <2>5, <2>6, <2>7 DEF ReadyAt
  <2>. QED
    BY <1>3, <2>8, k + 1 \in 1..11 DEF LinesInv, ResetPlace
<1>. QED
  BY <1>0, <1>4, <1>5, NextWrite

\* deviceReset() begins, and goes from one function to the next.
LEMMA CallsKeepLines ==
    LinesInv /\ (DeviceReset \/ ThenSetDsrReady \/ ResetDone) => LinesInv'
<1>. SUFFICES ASSUME LinesInv, DeviceReset \/ ThenSetDsrReady \/ ResetDone
              PROVE  LinesInv'
  OBVIOUS
<1>0. UNCHANGED <<clockPhase, pins, dsrReady, edges>>
  BY DEF DeviceReset, ThenSetDsrReady, ResetDone
<1>1. ClockEdges'
  BY <1>0 DEF LinesInv, ClockEdges
<1>2. CASE DeviceReset
  <2>1. NotReadyAt(1)'
    BY <1>2, TheWrites, LeftEnds DEF DeviceReset, NotReadyAt
  <2>. QED
    BY <1>1, <2>1 DEF LinesInv, ResetPlace
<1>3. CASE ThenSetDsrReady
  <2>1. ~dsrReady
    <3>1. PICK k \in 1..8 : NotReadyAt(k)
      BY <1>3 DEF LinesInv, ResetPlace, ThenSetDsrReady, ReadyAt
    <3>2. k = 8
      BY <1>3, <3>1, LeftEnds DEF ThenSetDsrReady, NotReadyAt
    <3>. QED
      BY <3>1, <3>2 DEF NotReadyAt
  <2>2. ReadyAt(1)'
    BY <1>3, <2>1, TheWrites, LeftEnds DEF ThenSetDsrReady, ReadyAt
  <2>. QED
    BY <1>1, <2>2 DEF LinesInv, ResetPlace
<1>4. CASE ResetDone
  <2>1. PICK k \in 1..11 : ReadyAt(k)
    BY <1>4 DEF LinesInv, ResetPlace, ResetDone, NotReadyAt
  <2>2. k = 11
    BY <1>4, <2>1, LeftEnds DEF ResetDone, ReadyAt
  <2>3. LinesReady'
    BY <1>0, <2>1, <2>2 DEF ReadyAt, LinesReady
  <2>. QED
    BY <1>1, <1>4, <2>3 DEF ResetDone, LinesInv, ResetPlace
<1>. QED
  BY <1>2, <1>3, <1>4

LEMMA LinesNext == LinesInv /\ [ClockNext]_allVars => LinesInv'
<1>. SUFFICES ASSUME LinesInv, [ClockNext]_allVars PROVE LinesInv'
  OBVIOUS
<1>1. CASE SendCommand \/ UNCHANGED allVars
  BY <1>1
  DEF SendCommand, allVars, clockVars, LinesInv, ResetPlace, ClockEdges,
      NotReadyAt, ReadyAt, LinesReady
<1>. QED
  BY <1>1, InterruptKeepsLines, WriteKeepsLines, CallsKeepLines DEF ClockNext

-----------------------------------------------------------------------------
\* Each bit has one pulse of each clock, whenever a reset comes: for every
\* way the main loop is interrupted, and with no assumption on its speed.
THEOREM PulsePerBit == ClockSpec => []OnePulsePerBit
<1>1. LinesInv => OnePulsePerBit
  BY DEF LinesInv, ClockEdges, OnePulsePerBit
<1>. QED
  BY <1>1, LinesAtFirst, LinesNext, PTL DEF ClockSpec

-----------------------------------------------------------------------------
\* A write of deviceReset() from the main loop is none of the sender's, and
\* leaves its invariant alone whatever level it finds.
LEMMA WriteKeepsSender == LinesInv /\ IndInv /\ WritePin => IndInv'
<1>. SUFFICES ASSUME LinesInv, IndInv, WritePin PROVE IndInv'
  OBVIOUS
<1>1. /\ script # <<>>
      /\ rxd' = IF Head(script).pin = "rxd" THEN Head(script).level ELSE rxd
      /\ UNCHANGED <<sendDataBuffer, sendBitBuffer, sendBitBufferLength,
                     xmitState, stopOnIdle, mainVars>>
  BY DEF WritePin
<1>2. rxd' \in Bit
  BY <1>1, NextWriteIsSafe DEF SafeWrite, Write1, IndInv, TypeOK
<1>3. FrameSoFar' /\ BufferWritten'
  BY <1>1, FrameKept, BufferStaysWritten DEF IndInv, BufferKept, mainVars
<1>4. TypeOK' /\ StateMeansSent' /\ StopsBeforeFilling'
  BY <1>1, <1>2 DEF mainVars, IndInv, TypeOK, StateMeansSent, StopsBeforeFilling, AllFetched
<1>. QED
  BY <1>3, <1>4 DEF IndInv

LEMMA SenderNext == LinesInv /\ IndInv /\ [ClockNext]_allVars => IndInv'
<1>. SUFFICES ASSUME LinesInv, IndInv, [ClockNext]_allVars PROVE IndInv'
  OBVIOUS
<1>1. CASE ~WritePin
  <2>1. [Next]_vars
    BY <1>1
    DEF ClockNext, Interrupt, DataPhase, ClocksRise, ProcessPhase, ClocksFall,
        DeviceReset, ThenSetDsrReady, ResetDone, SendCommand, allVars, Next
  <2>. QED
    BY <2>1, NextInv
<1>. QED
  BY <1>1, WriteKeepsSender

LEMMA LeftAreWrites ==
    /\ \A k \in 1..8 : Left(NotReadyWrites, k) \in Seq(Write1)
    /\ \A k \in 1..11 : Left(ReadyWrites, k) \in Seq(Write1)
<1>1. ASSUME NEW w \in Seq(Write1), NEW k \in 1..(Len(w) + 1)
      PROVE  Left(w, k) \in Seq(Write1)
  <2>1. (\A j \in k..Len(w) : w[j] \in Write1) /\ k \in Int /\ Len(w) \in Int
    OBVIOUS
  <2>. QED
    BY <2>1, SubSeqProperties DEF Left
<1>2. Len(NotReadyWrites) + 1 = 8 /\ Len(ReadyWrites) + 1 = 11
  BY TheWrites
<1>. QED
  BY <1>1, <1>2, TheWrites

\* Every variable keeps its type, however the two actors interleave and with
\* no assumption on the speed of the main loop.
THEOREM ClockTypeCorrect == ClockSpec => []ClockTypeOK
<1>1. ClockInit => IndInv
  BY InitInv DEF ClockInit
<1>2. LinesInv /\ IndInv => ClockTypeOK
  <2>. SUFFICES ASSUME LinesInv, IndInv PROVE ClockTypeOK
    OBVIOUS
  <2>1. TypeOK /\ ClockEdges
    BY DEF IndInv, LinesInv
  <2>2. task \in Tasks
    BY DEF LinesInv, ResetPlace, NotReadyAt, ReadyAt, Tasks
  <2>3. script \in Seq(Write1)
    <3>1. CASE task = "none" /\ script = <<>>
      BY <3>1
    <3>2. CASE \E k \in 1..8 : NotReadyAt(k)
      BY <3>2, LeftAreWrites DEF NotReadyAt
    <3>3. CASE \E k \in 1..11 : ReadyAt(k)
      BY <3>3, LeftAreWrites DEF ReadyAt
    <3>. QED
      BY <3>1, <3>2, <3>3 DEF LinesInv, ResetPlace
  <2>. QED
    BY <2>1, <2>2, <2>3 DEF ClockTypeOK, ClockEdges, Write1
<1>. QED
  BY <1>1, <1>2, LinesAtFirst, LinesNext, SenderNext, PTL DEF ClockSpec

-----------------------------------------------------------------------------
\* The sender under a reset, when the main loop is prompt.

SafeInv == IndInv /\ LinesInv /\ SenderAtRest

LEMMA SafeAtFirst == ClockInit => SafeInv
<1>. SUFFICES ASSUME ClockInit PROVE SafeInv
  OBVIOUS
<1>1. IndInv
  BY InitInv DEF ClockInit
<1>2. SenderAtRest
  BY DEF ClockInit, Init, SenderAtRest, RestAtMark
<1>. QED
  BY <1>1, <1>2, LinesAtFirst DEF SafeInv

\* A reset comes to a sender that is off and at mark, so that the write of
\* the data line changes nothing (SyncBitBanger.cpp:86, 106).
LEMMA WriteFindsMark ==
    ASSUME SafeInv, WritePin
    PROVE  UNCHANGED vars
<1>1. script # <<>> /\ task # "none"
  BY NextWrite DEF WritePin, SafeInv, LinesInv, NotReadyAt, ReadyAt
<1>2. rxd = 1
  BY <1>1 DEF SafeInv, SenderAtRest, RestAtMark
<1>3. rxd' = IF Head(script).pin = "rxd" THEN Head(script).level ELSE rxd
  BY DEF WritePin
<1>4. rxd' = rxd
  BY <1>1, <1>2, <1>3, NextWriteIsSafe DEF SafeInv, SafeWrite
<1>. QED
  BY <1>4 DEF WritePin, vars, engineVars, mainVars

\* Every step is one of the sender and its main loop, or leaves them alone.
LEMMA StepOfSender ==
    ASSUME SafeInv, [ClockNext]_allVars
    PROVE  [Next]_vars
<1>1. CASE WritePin
  BY <1>1, WriteFindsMark
<1>2. CASE ~WritePin
  BY <1>2
  DEF ClockNext, Interrupt, DataPhase, ClocksRise, ProcessPhase, ClocksFall,
      DeviceReset, ThenSetDsrReady, ResetDone, SendCommand, allVars, Next
<1>. QED
  BY <1>1, <1>2

\* The interrupt goes off at the end of the frame, at mark: a prompt main
\* loop has asked for it before (SendEngine.cpp:70-79).
LEMMA SendBitRests ==
    ASSUME Prompt, SafeInv, SendBit
    PROVE  /\ xmitState' # "IDLE"
           /\ pc \notin {"restart", "stop", "wait"} => xmitState' = "OFF"
           /\ RestAtMark'
           /\ UNCHANGED <<stopOnIdle, pc>>
<1>. USE DEF SafeInv, SenderAtRest
<1>0. UNCHANGED <<pc, rest, given>>
  BY DEF SendBit, mainVars
<1>1. pc \in {"restart", "stop", "wait"}
  BY DEF SendBit, SendNextBit, SendNextByte, SendIdle, StopAtIdle, NothingToSend
<1>2. CASE SendNextBit
  BY <1>0, <1>1, <1>2 DEF SendNextBit, RestAtMark
<1>3. CASE SendNextByte
  BY <1>0, <1>1, <1>3 DEF SendNextByte, RestAtMark
<1>4. CASE SendIdle
  BY <1>1, <1>4 DEF SendIdle, NothingToSend
<1>5. CASE StopAtIdle
  BY <1>0, <1>1, <1>5 DEF StopAtIdle, RestAtMark
<1>. QED
  BY <1>2, <1>3, <1>4, <1>5 DEF SendBit

\* A write begins with the sender off.
LEMMA CommandRests ==
    ASSUME SafeInv, NEW f \in Frames, WriteCommand(f), task = "none", UNCHANGED task
    PROVE  SenderAtRest'
BY DEF SafeInv, SenderAtRest, RestAtMark, WriteCommand, engineVars

\* The main loop switches on what is at mark, and ends with what is off.
LEMMA WriteRests ==
    ASSUME SafeInv, WriteStep, UNCHANGED task
    PROVE  SenderAtRest'
<1>. USE DEF SafeInv, SenderAtRest, RestAtMark
<1>1. task = "none"
  BY DEF WriteStep, ClearData, ClearBits, ClearState, ClearStop, AddByte, AllAdded,
         StartXmit, StartNoStop, StopSendingOnIdle, SetStop, WaitEnds, WriteDone
<1>2. CASE ClearData \/ ClearBits \/ ClearState \/ ClearStop \/ AddByte \/ AllAdded
  BY <1>1, <1>2
  DEF ClearData, ClearBits, ClearState, ClearStop, AddByte, AllAdded, engineVars
<1>3. CASE StartXmit \/ StartNoStop \/ StopSendingOnIdle
  BY <1>1, <1>3 DEF StartXmit, StartNoStop, StopSendingOnIdle, SetStop
<1>4. CASE WaitEnds \/ WriteDone
  BY <1>1, <1>4 DEF WaitEnds, WriteDone, engineVars
<1>. QED
  BY <1>2, <1>3, <1>4 DEF WriteStep

LEMMA SafeNext == Prompt /\ SafeInv /\ [ClockNext]_allVars => SafeInv'
<1>. SUFFICES ASSUME Prompt, SafeInv, [ClockNext]_allVars PROVE SafeInv'
  OBVIOUS
<1>1. IndInv'
  BY StepOfSender, NextInv DEF SafeInv
<1>2. LinesInv'
  BY LinesNext DEF SafeInv
<1>3. SenderAtRest'
  <2>. USE DEF SafeInv
  <2>1. CASE Interrupt
    <3>1. CASE SendBit
      <4>1. UNCHANGED task
        BY <2>1 DEF Interrupt, DataPhase, ClocksRise, ProcessPhase, ClocksFall
      <4>. QED
        BY <3>1, <4>1, SendBitRests DEF SenderAtRest
    <3>2. CASE ~SendBit
      BY <2>1, <3>2
      DEF Interrupt, DataPhase, ClocksRise, ProcessPhase, ClocksFall, vars,
          engineVars, mainVars, SenderAtRest, RestAtMark
    <3>. QED
      BY <3>1, <3>2
  <2>2. CASE DeviceReset
    BY <2>2
    DEF DeviceReset, vars, engineVars, mainVars, SenderAtRest, RestAtMark
  <2>3. CASE WritePin
    <3>1. UNCHANGED vars /\ UNCHANGED task
      BY <2>3, WriteFindsMark DEF WritePin
    <3>. QED
      BY <3>1 DEF vars, engineVars, mainVars, SenderAtRest, RestAtMark
  <2>4. CASE ThenSetDsrReady \/ ResetDone
    BY <2>4
    DEF ThenSetDsrReady, ResetDone, vars, engineVars, mainVars, SenderAtRest, RestAtMark
  <2>5. CASE SendCommand
    <3>1. UNCHANGED task
      BY <2>5 DEF SendCommand, clockVars
    <3>2. CASE WriteStep
      BY <3>1, <3>2, WriteRests
    <3>3. CASE ~WriteStep
      BY <2>5, <3>1, <3>3, CommandRests DEF SendCommand
    <3>. QED
      BY <3>2, <3>3
  <2>6. CASE UNCHANGED allVars
    BY <2>6
    DEF allVars, vars, clockVars, engineVars, mainVars, SenderAtRest, RestAtMark
  <2>. QED
    BY <2>1, <2>2, <2>3, <2>4, <2>5, <2>6 DEF ClockNext
<1>. QED
  BY <1>1, <1>2, <1>3 DEF SafeInv

LEMMA SafeAlways ==
    ASSUME Prompt
    PROVE  ClockSpec => []SafeInv
BY SafeAtFirst, SafeNext, PTL DEF ClockSpec

\* Data are only sent on a line that is ready, with deviceReset() between any
\* two phases of the interrupt.
THEOREM DataOnReadyLine ==
    ASSUME Prompt
    PROVE  ClockSpec => []DataOnlyWhenReady
<1>1. SafeInv => DataOnlyWhenReady
  BY DEF SafeInv, SenderAtRest, LinesInv, ResetPlace, NotReadyAt, ReadyAt,
         LinesReady, DataOnlyWhenReady
<1>. QED
  BY <1>1, SafeAlways, PTL

\* A sender that is off leaves the line at mark, and a reset does not disturb
\* it.
THEOREM MarkAtRest ==
    ASSUME Prompt
    PROVE  ClockSpec => []RestAtMark
<1>1. SafeInv => RestAtMark
  BY DEF SafeInv, SenderAtRest
<1>. QED
  BY <1>1, SafeAlways, PTL

\* The data line never changes while its clock is high.
THEOREM DataStable ==
    ASSUME Prompt
    PROVE  ClockSpec => StableWhileClocked
<1>1. ASSUME SafeInv, [ClockNext]_allVars, rxd' # rxd
      PROVE  pins["rxclk"] = 0 /\ pins'["rxclk"] = 0
  <2>1. CASE DataPhase
    BY <1>1, <2>1 DEF DataPhase, SafeInv, LinesInv, ClockEdges, Clocks
  <2>2. CASE ~DataPhase
    <3>1. UNCHANGED rxd \/ WritePin
      BY <1>1, <2>2
      DEF ClockNext, Interrupt, ClocksRise, ProcessPhase, ClocksFall, DeviceReset,
          ThenSetDsrReady, ResetDone, SendCommand, allVars, vars, engineVars,
          WriteCommand, WriteStep, ClearData, ClearBits, ClearState, ClearStop,
          AddByte, AllAdded, StartXmit, StartNoStop, StopSendingOnIdle, SetStop,
          WaitEnds, WriteDone
    <3>. QED
      BY <1>1, <3>1, WriteFindsMark DEF vars, engineVars
  <2>. QED
    BY <2>1, <2>2
<1>2. SafeInv /\ [ClockNext]_allVars
      => [rxd' # rxd => pins["rxclk"] = 0 /\ pins'["rxclk"] = 0]_allVars
  BY <1>1
<1>. QED
  BY <1>2, SafeAlways, PTL DEF ClockSpec, StableWhileClocked
=============================================================================
