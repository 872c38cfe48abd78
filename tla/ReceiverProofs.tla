--------------------------- MODULE ReceiverProofs ---------------------------
(***************************************************************************)
(* The invariants of ReceiveEngine and TributaryLink hold for every size   *)
(* of the buffers and every set of characters and frames on the line.      *)
(***************************************************************************)
EXTENDS LinkInvariant, DataBufferTheorems, FiniteSetTheorems

-----------------------------------------------------------------------------
(***************************************************************************)
(* ReceiveEngine.                                                          *)
(*                                                                         *)
(* The argument: whatever the interrupt does to a buffer is one of three   *)
(* things (EngineStep), nothing, characters added to the working buffer,   *)
(* or the working buffer handed over, and each keeps IndInv; then the same *)
(* for every statement of the main loop.                                   *)
(***************************************************************************)

\* The three effects of the interrupt on the buffers.
BufferStep ==
    \/ StoreNothing
    \/ \E db \in DataBuffers : Grown(db, Working) /\ Store(db)
    \/ \E db \in DataBuffers : Grown(db, Working) /\ Deliver(db)

\* One run of the interrupt, seen from the main loop.
EngineStep ==
    /\ receiveState' \in ReceiveStates
    /\ previousByteDLE' \in BOOLEAN
    /\ BufferStep
    /\ UNCHANGED mainVars

\* The working buffer is a buffer with its first len cells written.
LEMMA WorkingType ==
    ASSUME IndInv
    PROVE  Working \in DataBuffers /\ WrittenBelow(Working, Working.len)
BY DEF IndInv, TypeOK, LengthIsWritten, Working

\* SYN, DLE and STX are bytes.
LEMMA ControlBytes == SYN \in Byte /\ DLE \in Byte /\ STX \in Byte
BY DEF SYN, DLE, STX, Byte

\* Every branch of processBit() is an EngineStep.
LEMMA ByteIsEngineStep ==
    ASSUME IndInv, NEW b \in Byte, ProcessByte(b)
    PROVE  EngineStep
<1>0. receiveState \in ReceiveStates /\ previousByteDLE \in BOOLEAN
  BY DEF IndInv, TypeOK
<1>1. /\ Grown(Working, Working)
      /\ Grown(Write(Working, b), Working)
      /\ Grown(Write(Working, SYN), Working)
      /\ Grown(Write(Working, STX), Working)
      /\ Grown(Write(Working, DLE), Working)
      /\ Grown(Write(Write(Working, DLE), STX), Working)
      /\ Grown(Write(Write(Working, DLE), b), Working)
  <2>1. Working \in DataBuffers /\ WrittenBelow(Working, Working.len)
    BY WorkingType
  <2>2. Grown(Working, Working)
    BY <2>1 DEF Grown
  <2> QED
    BY <2>1, <2>2, ControlBytes, WriteGrows, WriteTwiceGrows
<1>2. ASSUME NEW db, Grown(db, Working), Store(db) \/ Deliver(db)
      PROVE  BufferStep
  BY <1>2 DEF BufferStep, Grown
<1>3. UNCHANGED mainVars
  BY DEF ProcessByte
<1> SUFFICES /\ receiveState' \in ReceiveStates
             /\ previousByteDLE' \in BOOLEAN
             /\ BufferStep
  BY <1>3 DEF EngineStep
<1>4. CASE PadByte(b)
  <2>1. BufferStep
    BY <1>1, <1>2, <1>4 DEF PadByte
  <2> QED
    BY <1>0, <2>1, <1>4 DEF PadByte, ReceiveStates
<1>5. CASE SynByte(b)
  <2>1. BufferStep
    BY <1>1, <1>2, <1>5 DEF SynByte
  <2> QED
    BY <1>0, <2>1, <1>5 DEF SynByte
<1>6. CASE DleByte(b)
  BY <1>0, <1>6 DEF DleByte, BufferStep
<1>7. CASE TransparentStart(b)
  <2>1. BufferStep
    BY <1>1, <1>2, <1>7 DEF TransparentStart
  <2> QED
    BY <2>1, <1>7 DEF TransparentStart, ReceiveStates
<1>8. CASE BlockStart(b)
  <2>1. BufferStep
    BY <1>1, <1>2, <1>8 DEF BlockStart
  <2> QED
    BY <2>1, <1>8 DEF BlockStart, ReceiveStates
<1>9. CASE AckByte(b)
  <2>1. BufferStep
    BY <1>1, <1>2, <1>9 DEF AckByte
  <2> QED
    BY <1>0, <2>1, <1>9 DEF AckByte, ReceiveStates
<1>10. CASE EotOrNakByte(b)
  <2>1. BufferStep
    BY <1>1, <1>2, <1>10 DEF EotOrNakByte
  <2> QED
    BY <2>1, <1>10 DEF EotOrNakByte, ReceiveStates
<1>11. CASE OtherIdleByte(b)
  BY <1>0, <1>11 DEF OtherIdleByte, BufferStep
<1>12. CASE BlockEnd(b)
  <2>1. BufferStep
    BY <1>1, <1>2, <1>12 DEF BlockEnd
  <2> QED
    BY <1>0, <2>1, <1>12 DEF BlockEnd, ReceiveStates
<1>13. CASE DataByte(b)
  <2>1. BufferStep
    BY <1>1, <1>2, <1>13 DEF DataByte
  <2> QED
    BY <1>0, <2>1, <1>13 DEF DataByte
<1>14. CASE DoubledDle(b)
  <2>1. BufferStep
    BY <1>1, <1>2, <1>14 DEF DoubledDle
  <2> QED
    BY <1>0, <2>1, <1>14 DEF DoubledDle
<1>15. CASE TransparentAbort(b)
  <2>1. BufferStep
    BY <1>1, <1>2, <1>15 DEF TransparentAbort
  <2> QED
    BY <1>0, <2>1, <1>15 DEF TransparentAbort
<1>16. CASE TransparentEnd(b)
  <2>1. BufferStep
    BY <1>1, <1>2, <1>16 DEF TransparentEnd
  <2> QED
    BY <1>0, <2>1, <1>16 DEF TransparentEnd, ReceiveStates
<1>17. CASE SingleDle(b)
  BY <1>0, <1>17 DEF SingleDle, BufferStep
<1>18. CASE TransparentByte(b)
  <2>1. BufferStep
    BY <1>1, <1>2, <1>18 DEF TransparentByte
  <2> QED
    BY <1>0, <2>1, <1>18 DEF TransparentByte
<1>19. CASE BccByte(b)
  <2>1. BufferStep
    BY <1>1, <1>2, <1>19 DEF BccByte
  <2> QED
    BY <1>0, <2>1, <1>19 DEF BccByte, ReceiveStates
<1> QED
  BY <1>4, <1>5, <1>6, <1>7, <1>8, <1>9, <1>10, <1>11, <1>12, <1>13,
     <1>14, <1>15, <1>16, <1>17, <1>18, <1>19 DEF ProcessByte

\* Finding the SYN pattern is an EngineStep.
LEMMA SyncIsEngineStep ==
    ASSUME IndInv, SyncFound
    PROVE  EngineStep
<1>1. Grown(Write(Working, SYN), Working)
  BY WorkingType, ControlBytes, WriteGrows
<1>2. BufferStep
  BY <1>1 DEF SyncFound, BufferStep, Grown
<1> QED
  BY <1>2 DEF SyncFound, EngineStep, ReceiveStates, IndInv, TypeOK

-----------------------------------------------------------------------------
\* Buffers that only grow keep what the main loop copies from written.
LEMMA GrownKeepsCopy ==
    ASSUME IndInv, UNCHANGED mainVars,
           \A k \in 0..1 : Grown(dataBuffers'[k], dataBuffers[k])
    PROVE  CopyIsWritten'
<1>1. pc' = pc /\ frame' = frame /\ frameLen' = frameLen /\ x' = x
  BY DEF mainVars
<1>2. frameLen \in 0..MaxData /\ CopyIsWritten
  BY DEF IndInv, TypeOK
<1>3. ASSUME pc = "send"
      PROVE  WrittenBelow(dataBuffers'[frame], frameLen)
  <2>1. frame \in 0..1 /\ WrittenBelow(dataBuffers[frame], frameLen)
    BY <1>2, <1>3 DEF CopyIsWritten, Copying
  <2>2. Grown(dataBuffers'[frame], dataBuffers[frame])
    BY <2>1
  <2> QED
    BY <1>2, <2>1, <2>2 DEF Grown
<1>4. Copying' <=> Copying
  BY <1>1 DEF Copying
<1>5. ASSUME pc = "cell"
      PROVE  WrittenBelow(dataBuffers'[frame], x + 1)
  <2>1. /\ frame \in 0..1 /\ WrittenBelow(dataBuffers[frame], x + 1)
        /\ x + 1 \in 0..MaxData
    BY <1>2, <1>5, MaxDataAssumption DEF CopyIsWritten, Copying, IndInv, TypeOK
  <2>2. Grown(dataBuffers'[frame], dataBuffers[frame])
    BY <2>1
  <2> QED
    BY <2>1, <2>2 DEF Grown
<1> QED
  BY <1>1, <1>2, <1>3, <1>4, <1>5 DEF CopyIsWritten

\* The interrupt adds characters to the working buffer.
LEMMA StoreKeepsInv ==
    ASSUME IndInv, UNCHANGED mainVars,
           receiveState' \in ReceiveStates, previousByteDLE' \in BOOLEAN,
           NEW db \in DataBuffers, Grown(db, Working), Store(db)
    PROVE  IndInv'
<1>1. /\ pc' = pc /\ frame' = frame /\ frameLen' = frameLen /\ x' = x
      /\ UNCHANGED <<receiveDataBuffer, savedFrame, frameComplete, taken, overrun>>
      /\ dataBuffers' = [dataBuffers EXCEPT ![receiveDataBuffer] = db]
  BY DEF mainVars, Store, HandOverUnchanged, historyVars
<1>2. TypeOK /\ LengthIsWritten
  BY DEF IndInv
<1>3. /\ dataBuffers'[receiveDataBuffer] = db
      /\ \A k \in 0..1 : k # receiveDataBuffer => dataBuffers'[k] = dataBuffers[k]
  BY <1>1, <1>2 DEF TypeOK
<1>4. TypeOK'
  BY <1>1, <1>2 DEF TypeOK
<1>5. \A k \in 0..1 : Grown(dataBuffers'[k], dataBuffers[k])
  BY <1>2, <1>3 DEF TypeOK, LengthIsWritten, Grown, Working
<1>6. LengthIsWritten'
  BY <1>5 DEF LengthIsWritten, Grown
<1>7. CopyIsWritten'
  BY <1>5, GrownKeepsCopy
<1>8. FrameIntact'
  BY <1>1, <1>3 DEF IndInv, FrameIntact, CopyIsWritten, Copying
<1>9. BuffersApart' /\ FlagMeansSaved'
  BY <1>1 DEF IndInv, BuffersApart, FlagMeansSaved
<1> QED
  BY <1>4, <1>6, <1>7, <1>8, <1>9 DEF IndInv

\* The interrupt hands the working buffer over and clears the other one.
LEMMA DeliverKeepsInv ==
    ASSUME IndInv, UNCHANGED mainVars,
           receiveState' \in ReceiveStates, previousByteDLE' \in BOOLEAN,
           NEW db \in DataBuffers, Grown(db, Working), Deliver(db)
    PROVE  IndInv'
<1> DEFINE next == 1 - receiveDataBuffer
<1>1. /\ pc' = pc /\ frame' = frame /\ frameLen' = frameLen /\ x' = x
      /\ taken' = taken
      /\ savedFrame' = receiveDataBuffer
      /\ receiveDataBuffer' = next
      /\ frameComplete' = TRUE
      /\ overrun' = (overrun \/ Copying)
      /\ dataBuffers' = [dataBuffers EXCEPT ![receiveDataBuffer] = db,
                                            ![next] = Clear(dataBuffers[next])]
  BY DEF mainVars, Deliver
<1>2. TypeOK /\ LengthIsWritten
  BY DEF IndInv
<1>3. /\ receiveDataBuffer \in 0..1
      /\ next \in 0..1
      /\ receiveDataBuffer # next
      /\ \A k \in 0..1 : k = receiveDataBuffer \/ k = next
  BY <1>2 DEF TypeOK
<1>4. dataBuffers \in [0..1 -> DataBuffers]
  BY <1>2 DEF TypeOK
<1>5. Grown(Clear(dataBuffers[next]), dataBuffers[next])
  BY <1>3, <1>4, ClearGrows
<1> HIDE DEF next
<1>6. /\ dataBuffers'[receiveDataBuffer] = db
      /\ dataBuffers'[next] = Clear(dataBuffers[next])
      /\ dataBuffers' \in [0..1 -> DataBuffers]
  BY <1>1, <1>3, <1>4, <1>5 DEF Grown
<1>7. TypeOK'
  <2>1. overrun' \in BOOLEAN
    BY <1>1
  <2> QED
    BY <1>1, <1>2, <1>3, <1>6, <2>1 DEF TypeOK
<1>8. \A k \in 0..1 : Grown(dataBuffers'[k], dataBuffers[k])
  BY <1>3, <1>5, <1>6 DEF Working
<1>9. LengthIsWritten'
  BY <1>8 DEF LengthIsWritten, Grown
<1>10. CopyIsWritten'
  BY <1>8, GrownKeepsCopy
<1>11. FrameIntact'
  <2>1. Copying' <=> Copying
    BY <1>1 DEF Copying
  <2> QED
    BY <1>1, <2>1 DEF FrameIntact
<1>12. BuffersApart'
  BY <1>1, <1>3 DEF BuffersApart
<1>13. FlagMeansSaved'
  BY <1>1, <1>3 DEF FlagMeansSaved, NULL
<1> QED
  BY <1>7, <1>9, <1>10, <1>11, <1>12, <1>13 DEF IndInv

\* A run of the interrupt keeps the invariant.
LEMMA EngineStepKeepsInv ==
    ASSUME IndInv, EngineStep
    PROVE  IndInv'
<1>1. CASE StoreNothing
  <2>1. UNCHANGED <<dataBuffers, receiveDataBuffer, savedFrame, frameComplete,
                    taken, overrun, pc, frame, frameLen, x>>
    BY <1>1 DEF EngineStep, StoreNothing, HandOverUnchanged, historyVars, mainVars
  <2>2. TypeOK'
    BY <2>1 DEF IndInv, TypeOK, EngineStep
  <2> QED
    BY <2>1, <2>2 DEF IndInv, BuffersApart, FlagMeansSaved, LengthIsWritten,
                      CopyIsWritten, FrameIntact, Copying
<1>2. CASE \E db \in DataBuffers : Grown(db, Working) /\ Store(db)
  BY <1>2, StoreKeepsInv DEF EngineStep
<1>3. CASE \E db \in DataBuffers : Grown(db, Working) /\ Deliver(db)
  BY <1>3, DeliverKeepsInv DEF EngineStep
<1> QED
  BY <1>1, <1>2, <1>3 DEF EngineStep, BufferStep

-----------------------------------------------------------------------------
\* A statement of the main loop keeps the invariant, whatever the interrupt
\* did before it.
LEMMA MainKeepsInv ==
    ASSUME IndInv, StartRead \/ Main
    PROVE  IndInv'
<1> USE DEF IndInv, engineVars, historyVars
<1>0. TypeOK /\ CopyIsWritten /\ FrameIntact /\ LengthIsWritten
  OBVIOUS
<1>1. CASE StartRead
  BY <1>1 DEF StartRead, TypeOK, MainSteps, BuffersApart, FlagMeansSaved,
              LengthIsWritten, CopyIsWritten, FrameIntact, Copying
<1>2. CASE LoadReceiveBuffer
  BY <1>2 DEF LoadReceiveBuffer, TypeOK, MainSteps, BuffersApart,
              FlagMeansSaved, LengthIsWritten, CopyIsWritten, FrameIntact, Copying
<1>3. CASE ClearReceiveBuffer
  <2>1. frame \in 0..1 /\ dataBuffers \in [0..1 -> DataBuffers]
    BY <1>0, <1>3 DEF ClearReceiveBuffer, CopyIsWritten, TypeOK
  <2>2. Grown(Clear(dataBuffers[frame]), dataBuffers[frame])
    BY <2>1, ClearGrows
  <2>3. /\ dataBuffers'[frame] = Clear(dataBuffers[frame])
        /\ \A k \in 0..1 : k # frame => dataBuffers'[k] = dataBuffers[k]
        /\ dataBuffers' \in [0..1 -> DataBuffers]
    BY <1>3, <2>1, <2>2 DEF ClearReceiveBuffer, Grown
  <2>4. TypeOK'
    BY <1>0, <1>3, <2>3 DEF ClearReceiveBuffer, TypeOK, MainSteps
  <2>5. LengthIsWritten'
    BY <1>0, <2>2, <2>3 DEF LengthIsWritten, Grown
  <2>6. CopyIsWritten' /\ FrameIntact'
    BY <1>3 DEF ClearReceiveBuffer, CopyIsWritten, FrameIntact, Copying
  <2>7. BuffersApart' /\ FlagMeansSaved'
    BY <1>3 DEF ClearReceiveBuffer, BuffersApart, FlagMeansSaved
  <2> QED
    BY <2>4, <2>5, <2>6, <2>7
<1>4. CASE EnterHunt
  BY <1>4 DEF EnterHunt, TypeOK, MainSteps, ReceiveStates, BuffersApart,
              FlagMeansSaved, LengthIsWritten, CopyIsWritten, FrameIntact, Copying
<1>5. CASE FrameSeen
  BY <1>5 DEF FrameSeen, TypeOK, MainSteps, BuffersApart, FlagMeansSaved,
              LengthIsWritten, CopyIsWritten, FrameIntact, Copying
<1>6. CASE WaitExpires
  BY <1>6 DEF WaitExpires, TypeOK, MainSteps, BuffersApart, FlagMeansSaved,
              LengthIsWritten, CopyIsWritten, FrameIntact, Copying
<1>7. CASE ResetFlag
  BY <1>7 DEF ResetFlag, TypeOK, MainSteps, BuffersApart, FlagMeansSaved,
              LengthIsWritten, CopyIsWritten, FrameIntact, Copying
<1>8. CASE TakeFrame
  <2>1. savedFrame \in 0..1 /\ savedFrame # receiveDataBuffer
    BY <1>0, <1>8 DEF TakeFrame, FlagMeansSaved, BuffersApart, TypeOK
  <2>2. TypeOK'
    BY <1>0, <1>8, <2>1 DEF TakeFrame, TypeOK, MainSteps
  <2>3. CopyIsWritten' /\ FrameIntact'
    BY <1>8, <2>1 DEF TakeFrame, CopyIsWritten, FrameIntact, Copying
  <2> QED
    BY <1>8, <2>2, <2>3 DEF TakeFrame, BuffersApart, FlagMeansSaved,
                            LengthIsWritten
<1>9. CASE ReadLength
  <2>1. frame \in 0..1
    BY <1>0, <1>9 DEF ReadLength, CopyIsWritten, Copying
  <2>2. dataBuffers[frame].len \in 0..MaxData
    BY <1>0, <2>1 DEF TypeOK, DataBuffers
  <2>3. WrittenBelow(dataBuffers[frame], dataBuffers[frame].len)
    BY <1>0, <2>1 DEF LengthIsWritten
  <2>4. TypeOK'
    BY <1>0, <1>9, <2>2 DEF ReadLength, TypeOK, MainSteps
  <2>5. CopyIsWritten' /\ FrameIntact'
    BY <1>0, <1>9, <2>1, <2>3 DEF ReadLength, CopyIsWritten, FrameIntact, Copying
  <2> QED
    BY <1>9, <2>4, <2>5 DEF ReadLength, BuffersApart, FlagMeansSaved,
                            LengthIsWritten
<1>10. CASE SendBinaryByte
  <2>1. x' \in 0..MaxData
    BY <1>0, <1>10, MaxDataAssumption DEF SendBinaryByte, TypeOK
  <2>2. TypeOK'
    BY <1>0, <1>10, <2>1 DEF SendBinaryByte, TypeOK
  <2> QED
    BY <1>10, <2>2 DEF SendBinaryByte, BuffersApart, FlagMeansSaved,
                       LengthIsWritten, CopyIsWritten, FrameIntact, Copying
<1>11. CASE TestLength
  <2>1. frame \in 0..1
    BY <1>0, <1>11 DEF TestLength, CopyIsWritten, Copying
  <2>2. x < MaxData
    BY <1>0, <1>11, <2>1, MaxDataAssumption DEF TestLength, TypeOK, DataBuffers
  <2> QED
    BY <1>11, <2>1, <2>2 DEF TestLength, TypeOK, MainSteps, BuffersApart,
         FlagMeansSaved, LengthIsWritten, CopyIsWritten, FrameIntact, Copying
<1>12. CASE GetInRange
  <2>1. frame \in 0..1
    BY <1>0, <1>12 DEF GetInRange, CopyIsWritten, Copying
  <2>2. /\ WrittenBelow(dataBuffers[frame], dataBuffers[frame].len)
        /\ dataBuffers[frame].len \in 0..MaxData
        /\ x \in 0..MaxData /\ x < dataBuffers[frame].len
    BY <1>0, <1>12, <2>1 DEF GetInRange, LengthIsWritten, TypeOK, DataBuffers
  <2>3. x < MaxData /\ WrittenBelow(dataBuffers[frame], x + 1)
    BY <2>2, MaxDataAssumption DEF WrittenBelow
  <2>4. TypeOK'
    BY <1>0, <1>12 DEF GetInRange, TypeOK, MainSteps
  <2>5. CopyIsWritten' /\ FrameIntact'
    BY <1>0, <1>12, <2>1, <2>3 DEF GetInRange, CopyIsWritten, FrameIntact, Copying
  <2> QED
    BY <1>12, <2>4, <2>5 DEF GetInRange, BuffersApart, FlagMeansSaved,
                             LengthIsWritten
<1>14. CASE GetPastEnd \/ SendTextByte
  <2>1. NextTextByte /\ pc \in {"get", "cell"}
    BY <1>14 DEF GetPastEnd, SendTextByte
  <2>2. x' \in 0..MaxData
    BY <1>0, <2>1, MaxDataAssumption DEF NextTextByte, CopyIsWritten, TypeOK
  <2> QED
    BY <2>1, <2>2 DEF NextTextByte, TypeOK, MainSteps, BuffersApart,
         FlagMeansSaved, LengthIsWritten, CopyIsWritten, FrameIntact, Copying
<1>13. CASE BinaryDone \/ TextDone
  <2>1. ResponseDone
    BY <1>13 DEF BinaryDone, TextDone
  <2>2. 0 \in 0..MaxData /\ NewDataBuffer \in DataBuffers
    BY NewDataBufferType, MaxDataAssumption
  <2>3. TypeOK'
    BY <1>0, <2>1, <2>2 DEF ResponseDone, TypeOK, MainSteps
  <2> QED
    BY <2>1, <2>3 DEF ResponseDone, BuffersApart, FlagMeansSaved,
                      LengthIsWritten, CopyIsWritten, FrameIntact, Copying
<1> QED
  BY <1>1, <1>2, <1>3, <1>4, <1>5, <1>6, <1>7, <1>8, <1>9, <1>10, <1>11,
     <1>12, <1>13, <1>14 DEF Main

\* The invariant holds initially.
LEMMA InitInv == Init => IndInv
<1> SUFFICES ASSUME Init PROVE IndInv
  OBVIOUS
<1>1. NewDataBuffer \in DataBuffers /\ WrittenBelow(NewDataBuffer, 0)
  BY NewDataBufferType
<1>2. NewDataBuffer.len = 0
  BY DEF NewDataBuffer
<1>3. TypeOK
  <2>1. 0 \in 0..MaxData
    BY MaxDataAssumption
  <2>2. dataBuffers \in [0..1 -> DataBuffers]
    BY <1>1 DEF Init
  <2>3. receiveState \in ReceiveStates /\ pc \in MainSteps
    BY DEF Init, ReceiveStates, MainSteps
  <2>4. frameLen \in 0..MaxData /\ x \in 0..MaxData /\ taken \in DataBuffers
    BY <1>1, <2>1 DEF Init
  <2>5. receiveDataBuffer \in 0..1 /\ savedFrame = NULL /\ frame = NULL
    BY DEF Init
  <2>6. /\ previousByteDLE \in BOOLEAN
        /\ frameComplete \in BOOLEAN
        /\ overrun \in BOOLEAN
    BY DEF Init
  <2> QED
    BY <2>2, <2>3, <2>4, <2>5, <2>6 DEF TypeOK
<1>4. LengthIsWritten
  BY <1>1, <1>2 DEF Init, LengthIsWritten
<1> QED
  BY <1>3, <1>4 DEF Init, IndInv, BuffersApart, FlagMeansSaved, NULL,
                    CopyIsWritten, FrameIntact, Copying

\* Every step keeps the invariant.
LEMMA NextInv == IndInv /\ [Next]_vars => IndInv'
<1> SUFFICES ASSUME IndInv, [Next]_vars PROVE IndInv'
  OBVIOUS
<1>1. CASE SyncFound
  BY <1>1, SyncIsEngineStep, EngineStepKeepsInv
<1>2. ASSUME NEW b \in LineBytes, ProcessByte(b)
      PROVE  IndInv'
  BY <1>2, LineBytesAssumption, ByteIsEngineStep, EngineStepKeepsInv
<1>3. CASE StartRead \/ Main
  BY <1>3, MainKeepsInv
<1>4. CASE UNCHANGED vars
  BY <1>4 DEF vars, engineVars, mainVars, historyVars, IndInv, TypeOK,
              BuffersApart, FlagMeansSaved, LengthIsWritten, CopyIsWritten,
              FrameIntact, Copying
<1> QED
  BY <1>1, <1>2, <1>3, <1>4 DEF Next, Interrupt

\* The inductive invariant holds in every state of every execution.
THEOREM InductiveInvariant == Spec => []IndInv
BY InitInv, NextInv, PTL DEF Spec

\* Every variable keeps its type: no index of the buffers, no length and no
\* loop counter ever leaves its range.
THEOREM TypeCorrect == Spec => []TypeOK
<1>1. IndInv => TypeOK
  BY DEF IndInv
<1> QED
  BY <1>1, InductiveInvariant, PTL

\* The frame being copied to the host is not touched until a later frame
\* completes, however the interrupt and the main loop interleave.
THEOREM FrameStaysIntact == Spec => []FrameIntact
<1>1. IndInv => FrameIntact
  BY DEF IndInv
<1> QED
  BY <1>1, InductiveInvariant, PTL

\* Only bytes that came from the line go to the host, even while the frame
\* is overrun by a later one.
THEOREM UnwrittenNeverSent == Spec => []OnlyReceivedBytesSent
<1>1. ASSUME IndInv
      PROVE  OnlyReceivedBytesSent
  <2>1. TypeOK /\ CopyIsWritten /\ LengthIsWritten
    BY <1>1 DEF IndInv
  <2>2. \A b \in Byte : b # Unwritten
    BY DEF Byte, Unwritten
  <2>3. CASE pc = "send" /\ x < frameLen
    <3>1. WrittenBelow(dataBuffers[frame], frameLen) /\ x \in 0..(frameLen - 1)
      BY <2>1, <2>3, MaxDataAssumption DEF CopyIsWritten, TypeOK
    <3> QED
      BY <2>2, <2>3, <3>1 DEF WrittenBelow, HostByte, OnlyReceivedBytesSent
  <2>4. CASE pc = "cell"
    <3>1. /\ WrittenBelow(dataBuffers[frame], x + 1) /\ x \in 0..((x + 1) - 1)
          /\ HostByte = dataBuffers[frame].buff[x]
      BY <2>1, <2>4 DEF CopyIsWritten, TypeOK, HostByte
    <3> QED
      BY <2>2, <3>1 DEF WrittenBelow, OnlyReceivedBytesSent
  <2> QED
    BY <2>3, <2>4 DEF OnlyReceivedBytesSent
<1> QED
  BY <1>1, InductiveInvariant, PTL

\* getSavedFrame() never returns NULL to a command that saw the flag.
THEOREM SavedFrameExists == Spec => []FrameExistsWhenTaken
<1>1. IndInv => FrameExistsWhenTaken
  BY DEF IndInv, FlagMeansSaved, FrameExistsWhenTaken
<1> QED
  BY <1>1, InductiveInvariant, PTL

-----------------------------------------------------------------------------
(***************************************************************************)
(* TributaryLink.                                                          *)
(*                                                                         *)
(* First, every step of the link is a step of the engine or leaves it      *)
(* alone: the buffers are safe for every set of frames and every           *)
(* environment, and a read gives the host bytes of the line only.          *)
(*                                                                         *)
(* Then the frames of StationFrames, of any length.  The position in the   *)
(* frame determines the state of the engine and what is in its working     *)
(* buffer; with the last character the buffer is the frame as the host is  *)
(* to get it, and it stays so until the host has it.                       *)
(***************************************************************************)

\* What happens on the line can happen to the engine.
LEMMA StepOfEngine ==
    ASSUME LinkTypeOK, [LinkNext]_linkVars
    PROVE  [Next]_vars
<1>1. CASE (\E f \in Frames : Transmit(f)) \/ WriteCommand \/ UNCHANGED linkVars
  BY <1>1 DEF Transmit, WriteCommand, linkVars
<1>2. CASE LineByte
  <2>1. Head(line) \in LineBytes
    BY <1>2 DEF LinkTypeOK, LineByte
  <2>2. EngineTakes(Head(line)) \/ UNCHANGED vars \/ EngineGarbles
    BY <1>2 DEF LineByte
  <2>. QED
    BY <2>1, <2>2, LinkAssumption DEF EngineTakes, EngineGarbles, Next, Interrupt
<1>3. CASE LineMark \/ GarbledByte
  <2>1. EngineTakes(PAD) \/ UNCHANGED vars \/ EngineGarbles
    BY <1>3 DEF LineMark, GarbledByte
  <2>. QED
    BY <2>1, LinkAssumption DEF EngineTakes, EngineGarbles, Next, Interrupt
<1>4. CASE WriteReadCommand
  BY <1>4 DEF WriteReadCommand, Next
<1>5. CASE MainLoop
  BY <1>5
  DEF MainLoop, PrepareStep, ReadStep, ReadExpires, HostGetsByte, HostGetsEnd,
      Next, Main
<1>. QED
  BY <1>1, <1>2, <1>3, <1>4, <1>5 DEF LinkNext, Line

\* What the host gets is a byte, or the -1 of a read past the end of a frame
\* that was overrun.
LEMMA HostGetsBytes ==
    ASSUME IndInv, SendBinaryByte \/ GetPastEnd \/ SendTextByte
    PROVE  HostByte \in Byte \union {-1}
<1>0. TypeOK /\ CopyIsWritten
  BY DEF IndInv
<1>1. CASE SendBinaryByte
  <2>1. pc = "send" /\ x < frameLen
    BY <1>1 DEF SendBinaryByte
  <2>2. WrittenBelow(dataBuffers[frame], frameLen) /\ x \in 0..(frameLen - 1)
    BY <1>0, <2>1, MaxDataAssumption DEF CopyIsWritten, TypeOK
  <2>. QED
    BY <2>1, <2>2 DEF WrittenBelow, HostByte
<1>2. CASE GetPastEnd
  BY <1>2 DEF GetPastEnd, HostByte
<1>3. CASE SendTextByte
  <2>1. /\ pc = "cell" /\ WrittenBelow(dataBuffers[frame], x + 1)
        /\ x \in 0..((x + 1) - 1)
    BY <1>0, <1>3 DEF SendTextByte, CopyIsWritten, TypeOK
  <2>. QED
    BY <2>1 DEF WrittenBelow, HostByte
<1>. QED
  BY <1>1, <1>2, <1>3

LEMMA LinkAtFirst == LinkInit => IndInv /\ LinkTypeOK
<1>. SUFFICES ASSUME LinkInit PROVE IndInv /\ LinkTypeOK
  OBVIOUS
<1>1. IndInv
  BY InitInv DEF LinkInit
<1>. QED
  BY <1>1, LinkAssumption DEF LinkInit, IndInv, LinkTypeOK, Results

LEMMA LinkNextInv == IndInv /\ LinkTypeOK /\ [LinkNext]_linkVars => (IndInv /\ LinkTypeOK)'
<1>. SUFFICES ASSUME IndInv, LinkTypeOK, [LinkNext]_linkVars
              PROVE  (IndInv /\ LinkTypeOK)'
  OBVIOUS
<1>1. IndInv'
  BY StepOfEngine, NextInv
<1>2. TypeOK'
  BY <1>1 DEF IndInv
<1>. DEFINE Station == /\ env \in Environments
                       /\ line \in Seq(LineBytes)
                       /\ answer \in Frames \union {NoAnswer}
                       /\ current \in Frames \union {NoAnswer}
                       /\ turned \in BOOLEAN
                       /\ met \in BOOLEAN
                       /\ hostOut \in Seq(Byte \union {-1})
                       /\ result \in Results
                       /\ latest \in Frames \union {NoAnswer}
<1>3. Station
  BY DEF LinkTypeOK
<1>4. Station'
  <2>1. CASE (\E f \in Frames : Transmit(f))
    BY <1>3, <2>1, LinkAssumption DEF Transmit, hostVars
  <2>2. CASE LineByte
    <3>1. Head(line) \in LineBytes /\ Tail(line) \in Seq(LineBytes)
      BY <1>3, <2>2 DEF LineByte
    <3>. QED
      BY <1>3, <2>2, <3>1 DEF LineByte, hostVars
  <2>3. CASE LineMark
    BY <1>3, <2>3 DEF LineMark, hostVars
  <2>4. CASE WriteCommand \/ WriteReadCommand
    <3>1. Poll
      BY <2>4 DEF WriteCommand, WriteReadCommand
    <3>. QED
      BY <1>3, <3>1 DEF Poll, lineVars, Results
  <2>5. CASE ReadStep \/ ReadExpires \/ HostGetsEnd \/ GarbledByte
    BY <1>3, <2>5
    DEF ReadStep, ReadExpires, HostGetsEnd, GarbledByte, lineVars, hostVars, Results
  <2>8. CASE PrepareStep
    <3>1. met' \in BOOLEAN /\ latest' \in Frames \union {NoAnswer}
      BY <1>3, <2>8 DEF PrepareStep
    <3>. QED
      BY <1>3, <2>8, <3>1 DEF PrepareStep, hostVars
  <2>6. CASE HostGetsByte
    BY <1>3, <2>6, HostGetsBytes DEF HostGetsByte, lineVars
  <2>7. CASE UNCHANGED linkVars
    BY <1>3, <2>7 DEF linkVars, lineVars, hostVars
  <2>. QED
    BY <2>1, <2>2, <2>3, <2>4, <2>5, <2>6, <2>7, <2>8 DEF LinkNext, Line, MainLoop
<1>. QED
  BY <1>1, <1>2, <1>4 DEF LinkTypeOK

LEMMA LinkInv == LinkSpec => [](IndInv /\ LinkTypeOK)
BY LinkAtFirst, LinkNextInv, PTL DEF LinkSpec

\* The host is given characters of the line and -1, in every environment: no
\* uninitialized cell of a buffer is in any answer.
THEOREM LinkTypeCorrect == LinkSpec => []LinkTypeOK
BY LinkInv, PTL

\* The link is the engine of ReceiveEngine: what that module promises about
\* the buffers holds for every station.
THEOREM LinkIsEngine == LinkSpec => Spec
<1>1. LinkInit => Init
  BY DEF LinkInit
<1>2. LinkTypeOK /\ [LinkNext]_linkVars => [Next]_vars
  BY StepOfEngine
<1>. QED
  BY <1>1, <1>2, LinkInv, PTL DEF LinkSpec, Spec

-----------------------------------------------------------------------------
(***************************************************************************)
(* The characters of a frame, and the buffers that hold them.              *)
(***************************************************************************)
\* A buffer stays a buffer when a byte is written.
LEMMA WriteType ==
    ASSUME NEW db \in DataBuffers, NEW b \in Byte
    PROVE  Write(db, b) \in DataBuffers
<1>1. CASE IsFull(db)
  BY <1>1 DEF Write
<1>2. CASE ~IsFull(db)
  <2>1. /\ db.len \in 0..(MaxData - 1)
        /\ db.buff \in [0..(MaxData - 1) -> Cell]
        /\ b \in Cell
    BY <1>2, MaxDataAssumption DEF IsFull, DataBuffers, Cell
  <2>2. [db.buff EXCEPT ![db.len] = b] \in [0..(MaxData - 1) -> Cell]
    BY <2>1
  <2>. DEFINE new == [db EXCEPT !.buff[db.len] = b, !.len = db.len + 1]
  <2>3. /\ new.buff = [db.buff EXCEPT ![db.len] = b]
        /\ new.len = db.len + 1 /\ new.readPos = db.readPos
    BY DEF DataBuffers
  <2>4. new.len \in 0..MaxData /\ new.readPos \in 0..MaxData
    BY <2>1, <2>3, MaxDataAssumption DEF DataBuffers
  <2>5. new \in DataBuffers
    BY <2>2, <2>3, <2>4 DEF DataBuffers
  <2>. QED
    BY <1>2, <2>5 DEF Write
<1>. QED
  BY <1>1, <1>2

\* Every kept character adds one to what is stored, the others nothing.
LEMMA KeptStep ==
    ASSUME NEW f, f.wire \in Seq(Byte), NEW i \in 1..Len(f.wire)
    PROVE  KeptUpTo(f, i) = IF i \in Kept(f) THEN KeptUpTo(f, i - 1) + 1
                                             ELSE KeptUpTo(f, i - 1)
<1>. DEFINE S(n) == {j \in Kept(f) : j <= n}
<1>1. Kept(f) \subseteq 1..Len(f.wire)
  BY DEF Kept
<1>2. S(i) = IF i \in Kept(f) THEN S(i - 1) \union {i} ELSE S(i - 1)
  BY <1>1
<1>3. S(i - 1) \subseteq 1..Len(f.wire) /\ IsFiniteSet(1..Len(f.wire))
  BY <1>1, FS_Interval
<1>4. IsFiniteSet(S(i - 1)) /\ i \notin S(i - 1)
  BY <1>3, FS_Subset
<1>. HIDE DEF S
<1>5. Cardinality(S(i - 1) \union {i}) = Cardinality(S(i - 1)) + 1
  BY <1>4, FS_AddElement
<1>6. KeptUpTo(f, i) = Cardinality(S(i)) /\ KeptUpTo(f, i - 1) = Cardinality(S(i - 1))
  BY DEF KeptUpTo, S
<1>. QED
  BY <1>2, <1>5, <1>6

\* The number of kept characters never exceeds that of all of them, and the
\* first SYN is always there.
LEMMA KeptBounds ==
    ASSUME NEW f, f.wire \in Seq(Byte), NEW i \in 0..Len(f.wire)
    PROVE  /\ KeptUpTo(f, i) \in Nat
           /\ KeptUpTo(f, i) <= KeptUpTo(f, Len(f.wire))
           /\ KeptUpTo(f, 0) = 0
           /\ 2 \in Kept(f) /\ 2 <= i => KeptUpTo(f, i) >= 1
<1>. DEFINE S(n) == {j \in Kept(f) : j <= n}
<1>1. Kept(f) \subseteq 1..Len(f.wire)
  BY DEF Kept
<1>2. \A n \in 0..Len(f.wire) : S(n) \subseteq 1..Len(f.wire)
  BY <1>1
<1>3. ASSUME NEW n \in 0..Len(f.wire)
      PROVE  IsFiniteSet(S(n)) /\ Cardinality(S(n)) \in Nat
  <2>1. S(n) \in SUBSET (1..Len(f.wire)) /\ IsFiniteSet(1..Len(f.wire))
    BY <1>2, FS_Interval
  <2>. HIDE DEF S
  <2>2. IsFiniteSet(S(n))
    BY <2>1, FS_Subset
  <2>. QED
    BY <2>2, FS_CardinalityType
<1>4. S(i) \subseteq S(Len(f.wire)) /\ S(0) = {}
  BY <1>1
<1>5. 2 \in Kept(f) /\ 2 <= i => S(i) # {}
  OBVIOUS
<1>. HIDE DEF S
<1>6. Cardinality(S(i)) <= Cardinality(S(Len(f.wire)))
  BY <1>3, <1>4, FS_Subset
<1>7. Cardinality(S(0)) = 0 /\ (S(i) # {} => Cardinality(S(i)) >= 1)
  BY <1>3, <1>4, FS_EmptySet
<1>. QED
  BY <1>3, <1>5, <1>6, <1>7 DEF KeptUpTo, S

\* A write adds the next of the characters to be stored.
LEMMA WriteHolds ==
    ASSUME NEW db \in DataBuffers, NEW s, NEW n \in Nat, NEW b,
           Holds(db, s, n), n < MaxData => s[n + 1] = b
    PROVE  Holds(Write(db, b), s, n + 1)
<1>1. /\ Write(db, b).len = IF db.len < MaxData THEN db.len + 1 ELSE db.len
      /\ \A i \in 0..(MaxData - 1) :
            Write(db, b).buff[i] = IF i = db.len THEN b ELSE db.buff[i]
  BY WriteEffect
<1>2. db.len = IF n <= MaxData THEN n ELSE MaxData
  BY DEF Holds
<1>3. \A k \in 0..(db.len - 1) : db.buff[k] = s[k + 1]
  BY DEF Holds
<1>4. Write(db, b).len = IF n + 1 <= MaxData THEN n + 1 ELSE MaxData
  BY <1>1, <1>2, MaxDataAssumption
<1>5. ASSUME NEW k \in 0..(Write(db, b).len - 1)
      PROVE  Write(db, b).buff[k] = s[k + 1]
  <2>1. k \in 0..(MaxData - 1)
    BY <1>4, MaxDataAssumption
  <2>2. CASE k = db.len
    BY <1>1, <1>2, <1>4, <2>1, <2>2, MaxDataAssumption
  <2>3. CASE k # db.len
    <3>1. k \in 0..(db.len - 1)
      BY <1>2, <1>4, <2>1, <2>3, MaxDataAssumption
    <3>. QED
      BY <1>1, <1>3, <2>1, <2>3, <3>1
  <2>. QED
    BY <2>2, <2>3
<1>. QED
  BY <1>4, <1>5 DEF Holds

\* The stuffing of a transparent frame is one.
LEMMA StuffingType ==
    ASSUME NEW f, IsTransparent(f)
    PROVE  Stuffing(f) \in SUBSET TextRange(f) /\ IsStuffing(f, Stuffing(f))
BY DEF IsTransparent, Stuffing

\* The kinds of frames differ in their fourth and fifth character.
LEMMA KindsApart ==
    ASSUME NEW f, WellFormed(f, MaxData)
    PROVE  /\ IsText(f) => ~IsTransparent(f) /\ ~IsAck(f) /\ ~IsControl(f)
           /\ IsTransparent(f) => ~IsAck(f) /\ ~IsControl(f)
           /\ IsAck(f) => ~IsControl(f)
           /\ Len(f.wire) \in Nat /\ Len(f.wire) >= 5
           /\ End(f) = Len(f.wire) - 3
           /\ f.wire \in Seq(Byte)
BY DEF WellFormed, Framed, IsText, IsTransparent, IsAck, IsControl, End,
       SOH, STX, DLE, ACK0, ACK1, EOT, NAK

\* A DLE that waits for the next character is one of those the host gets,
\* and so is that next one.
LEMMA AnnouncedIsKept ==
    ASSUME NEW f, WellFormed(f, MaxData), NEW i \in 1..Len(f.wire), Announces(f, i)
    PROVE  /\ i \in Kept(f) /\ f.wire[i] = DLE
           /\ i >= 4
           /\ i + 1 \in Kept(f) /\ ~Announces(f, i + 1) /\ ~Announces(f, i - 1)
<1>1. IsAck(f) \/ IsTransparent(f)
  BY DEF Announces
<1>2. CASE IsAck(f)
  BY <1>2, KindsApart DEF Announces, Kept, Dropped, IsAck
<1>3. CASE IsTransparent(f)
  <2>1. Stuffing(f) \subseteq 6..(Len(f.wire) - 6)
    BY <1>3, StuffingType, KindsApart DEF TextRange
  <2>2. Dropped(f) = {1, 3} \union Stuffing(f)
    BY <1>3, KindsApart DEF Dropped
  <2>3. Len(f.wire) \in Nat /\ Len(f.wire) >= 10 /\ f.wire[4] = DLE
    BY <1>3, KindsApart DEF IsTransparent
  <2>4. f.wire[Len(f.wire) - 4] = DLE
    BY <1>3, KindsApart DEF IsTransparent
  <2>5. \A k : Announces(f, k) <=> k = 4 \/ k = Len(f.wire) - 4
    BY <1>3, KindsApart DEF Announces
  <2>6. i = 4 \/ i = Len(f.wire) - 4
    BY <2>5
  <2>7. i \in DOMAIN f.wire /\ i + 1 \in DOMAIN f.wire
    BY <2>3, <2>6, KindsApart
  <2>8. i \notin Dropped(f) /\ i + 1 \notin Dropped(f)
    BY <2>1, <2>2, <2>3, <2>6
  <2>9. f.wire[i] = DLE /\ i >= 4
    BY <2>3, <2>4, <2>6
  <2>10. ~Announces(f, i + 1) /\ ~Announces(f, i - 1)
    <3>1. i + 1 # 4 /\ i + 1 # Len(f.wire) - 4 /\ i - 1 # 4 /\ i - 1 # Len(f.wire) - 4
      BY <2>3, <2>6
    <3>. QED
      BY <2>5, <3>1
  <2>. QED
    BY <2>7, <2>8, <2>9, <2>10 DEF Kept
<1>. QED
  BY <1>1, <1>2, <1>3

\* What is stored for a character is the next of the kept characters.
LEMMA BufferAfterHolds ==
    ASSUME NEW f, WellFormed(f, MaxData), NEW i \in 2..Len(f.wire),
           NEW db \in DataBuffers, Holds(db, f.stored, Written(f, i - 1))
    PROVE  Holds(BufferAfter(f, i, db), f.stored, Written(f, i))
<1>0. f.wire \in Seq(Byte) /\ Len(f.wire) \in Nat
  BY KindsApart
<1>1. /\ i \in 1..Len(f.wire) /\ i - 1 \in 1..Len(f.wire)
      /\ i - 1 \in 0..Len(f.wire) /\ i - 2 \in 0..Len(f.wire)
  BY <1>0
<1>2. /\ KeptUpTo(f, i) = IF i \in Kept(f) THEN KeptUpTo(f, i - 1) + 1
                                          ELSE KeptUpTo(f, i - 1)
      /\ KeptUpTo(f, i - 1) \in Nat
  BY <1>0, <1>1, KeptStep, KeptBounds
<1>3. \A k \in Kept(f) : KeptUpTo(f, k) <= MaxData => f.stored[KeptUpTo(f, k)] = f.wire[k]
  BY DEF WellFormed, IsStored
<1>4. CASE Announces(f, i)
  BY <1>0, <1>1, <1>2, <1>4, AnnouncedIsKept DEF Written, BufferAfter
<1>5. CASE i \notin Kept(f)
  <2>1. ~Announces(f, i) /\ ~Announces(f, i - 1)
    BY <1>0, <1>1, <1>5, AnnouncedIsKept
  <2>. QED
    BY <1>2, <1>5, <2>1 DEF Written, BufferAfter
<1>6. CASE Announces(f, i - 1)
  <2>1. /\ i - 1 \in Kept(f) /\ f.wire[i - 1] = DLE
        /\ i \in Kept(f) /\ ~Announces(f, i)
    BY <1>0, <1>1, <1>6, AnnouncedIsKept
  <2>2. KeptUpTo(f, i - 1) = KeptUpTo(f, i - 2) + 1 /\ KeptUpTo(f, i - 2) \in Nat
    BY <1>0, <1>1, <2>1, KeptStep, KeptBounds
  <2>3. PICK n \in Nat : n = KeptUpTo(f, i - 2)
    BY <2>2
  <2>4. Holds(db, f.stored, n) /\ Written(f, i) = n + 1 + 1
    BY <1>2, <1>6, <2>1, <2>2, <2>3 DEF Written
  <2>5. /\ n < MaxData => f.stored[n + 1] = DLE
        /\ n + 1 < MaxData => f.stored[n + 1 + 1] = f.wire[i]
    BY <1>2, <1>3, <2>1, <2>2, <2>3, MaxDataAssumption
  <2>6. DLE \in Byte /\ f.wire[i] \in Byte
    BY <1>0, <1>1, ControlBytes
  <2>7. Holds(Write(db, DLE), f.stored, n + 1)
    BY <2>4, <2>5, WriteHolds
  <2>8. Write(db, DLE) \in DataBuffers
    BY <2>6, WriteType
  <2>9. Holds(Write(Write(db, DLE), f.wire[i]), f.stored, n + 1 + 1)
    BY <2>5, <2>7, <2>8, WriteHolds
  <2>. QED
    BY <1>6, <2>1, <2>4, <2>9 DEF BufferAfter
<1>7. CASE i \in Kept(f) /\ ~Announces(f, i) /\ ~Announces(f, i - 1)
  <2>1. PICK n \in Nat : n = KeptUpTo(f, i - 1)
    BY <1>2
  <2>2. Holds(db, f.stored, n) /\ Written(f, i) = n + 1
    BY <1>2, <1>7, <2>1 DEF Written
  <2>3. n < MaxData => f.stored[n + 1] = f.wire[i]
    BY <1>2, <1>3, <1>7, <2>1, MaxDataAssumption
  <2>4. Holds(Write(db, f.wire[i]), f.stored, n + 1)
    BY <2>2, <2>3, WriteHolds
  <2>. QED
    BY <1>7, <2>2, <2>4 DEF BufferAfter
<1>. QED
  BY <1>4, <1>5, <1>6, <1>7

\* The engine is in state s and knows of a DLE as dle says.
EngineIs(s, dle) == receiveState = s /\ (previousByteDLE <=> dle)

\* The engine goes to state s.
EngineGoes(s, dle) == receiveState' = s /\ previousByteDLE' = dle /\ UNCHANGED mainVars

\* Storing nothing is storing the working buffer as it is.
LEMMA StoreNothingIsStore ==
    ASSUME TypeOK, StoreNothing
    PROVE  Store(Working)
BY DEF TypeOK, StoreNothing, Store, Working

\* Between frames the engine hears of a mark or a leading pad nothing.
LEMMA PadBetweenFrames ==
    ASSUME receiveState \in {OutOfSync, "IDLE"}, EngineTakes(PAD)
    PROVE  /\ receiveState' = receiveState
           /\ IF receiveState = "IDLE" THEN previousByteDLE' = FALSE
                                       ELSE UNCHANGED previousByteDLE
           /\ StoreNothing /\ UNCHANGED mainVars
<1>1. CASE receiveState = OutOfSync
  <2>1. ~ProcessByte(PAD)
    BY <1>1 DEF ProcessByte, OutOfSync, PadByte, InText, SynByte, DleByte,
         TransparentStart, BlockStart, AckByte, EotOrNakByte, OtherIdleByte,
         BlockEnd, DataByte, InTransparent, DoubledDle, TransparentAbort,
         TransparentEnd, SingleDle, TransparentByte, BccByte
  <2>. QED
    BY <1>1, <2>1 DEF EngineTakes, PAD, SYN, vars, engineVars, mainVars, historyVars,
         OutOfSync, StoreNothing, HandOverUnchanged
<1>2. CASE receiveState = "IDLE"
  <2>1. OtherIdleByte(PAD) /\ UNCHANGED mainVars
    BY <1>2 DEF EngineTakes, SyncFound, ProcessByte, OutOfSync, PadByte, InText, SynByte,
         DleByte, TransparentStart, BlockStart, AckByte, EotOrNakByte,
         BlockEnd, DataByte, InTransparent, DoubledDle, TransparentAbort,
         TransparentEnd, SingleDle, TransparentByte, BccByte, PAD, SYN, DLE,
         STX, SOH, ACK0, ACK1, EOT, NAK
  <2>. QED
    BY <1>2, <2>1 DEF OtherIdleByte
<1>. QED
  BY <1>1, <1>2

\* The branch of processBit() that a character of a frame takes, state by
\* state.
LEMMA NotSyn ==
    ASSUME NEW b, b # SYN
    PROVE  ~SynByte(b)
BY DEF SynByte

\* The second character of an acknowledgement goes to the branch for it.
LEMMA AckByteTaken ==
    ASSUME NEW b, EngineTakes(b), receiveState = "IDLE", previousByteDLE, b \in {ACK0, ACK1}
    PROVE  AckByte(b) /\ UNCHANGED mainVars
<1>1. ~SynByte(b) /\ ~SyncFound /\ receiveState # OutOfSync
  BY NotSyn DEF SyncFound, OutOfSync, SYN, ACK0, ACK1
<1>2. ~(\/ DleByte(b) \/ BlockStart(b) \/ EotOrNakByte(b)
        \/ OtherIdleByte(b) \/ TransparentStart(b))
  BY DEF DleByte, BlockStart, EotOrNakByte, OtherIdleByte, TransparentStart,
         DLE, SOH, STX, EOT, NAK, ACK0, ACK1
<1>3. ~(\/ PadByte(b) \/ BlockEnd(b) \/ DataByte(b) \/ DoubledDle(b)
        \/ TransparentAbort(b) \/ TransparentEnd(b) \/ SingleDle(b)
        \/ TransparentByte(b) \/ BccByte(b))
  BY DEF PadByte, BlockEnd, DataByte, DoubledDle, TransparentAbort,
         TransparentEnd, SingleDle, TransparentByte, BccByte, InTransparent
<1>. QED
  BY <1>1, <1>2, <1>3 DEF EngineTakes, ProcessByte

\* And the last one of transparent data to the branch that ends them.
LEMMA TransparentEndTaken ==
    ASSUME NEW b, EngineTakes(b), receiveState = "TRANSPARENT_DATA", previousByteDLE,
           b \in {ITB, ETX, ETB}
    PROVE  TransparentEnd(b) /\ UNCHANGED mainVars
<1>1. ~SynByte(b) /\ ~SyncFound /\ receiveState # OutOfSync
  BY NotSyn DEF SyncFound, OutOfSync, SYN, ITB, ETX, ETB
<1>2. ~(\/ DleByte(b) \/ BlockStart(b) \/ EotOrNakByte(b) \/ AckByte(b)
        \/ OtherIdleByte(b) \/ TransparentStart(b) \/ PadByte(b)
        \/ BlockEnd(b) \/ DataByte(b) \/ BccByte(b))
  BY DEF DleByte, BlockStart, EotOrNakByte, OtherIdleByte, TransparentStart,
         InText, AckByte, PadByte, BlockEnd, DataByte, BccByte
<1>3. ~(DoubledDle(b) \/ TransparentAbort(b) \/ SingleDle(b))
  BY DEF DoubledDle, TransparentAbort, SingleDle, DLE, ENQ, ITB, ETX, ETB
<1>4. ~TransparentByte(b)
  BY DEF TransparentByte
<1>. QED
  BY <1>1, <1>2, <1>3, <1>4 DEF EngineTakes, ProcessByte

\* What the interrupt does between frames and at the beginning of one.
LEMMA IdleByteEffect ==
    ASSUME NEW b, EngineTakes(b), previousByteDLE \in BOOLEAN
    PROVE  /\ receiveState \in {OutOfSync, "IDLE"} /\ b = SYN
              => /\ receiveState' = "IDLE" /\ UNCHANGED <<previousByteDLE, mainVars>>
                 /\ Store(IF receiveState = OutOfSync \/ Working.len = 0
                          THEN Write(Working, b) ELSE Working)
           /\ receiveState = "IDLE" /\ b = DLE
              => EngineGoes("IDLE", TRUE) /\ StoreNothing
           /\ EngineIs("IDLE", TRUE) /\ b \in {ACK0, ACK1}
              => EngineGoes("PAD", previousByteDLE) /\ Store(Write(Write(Working, DLE), b))
           /\ receiveState = "IDLE" /\ b \in {EOT, NAK}
              => EngineGoes("PAD", FALSE) /\ Store(Write(Working, b))
           /\ EngineIs("IDLE", FALSE) /\ b \in {SOH, STX}
              => EngineGoes("DATA", FALSE) /\ Store(Write(Working, b))
           /\ EngineIs("IDLE", TRUE) /\ b = STX
              => /\ EngineGoes("TRANSPARENT_DATA", FALSE)
                 /\ Store(Write(Write(Working, DLE), b))
<1>. USE DEF EngineTakes, SyncFound, ProcessByte, OutOfSync, PadByte, InText,
         SynByte, DleByte, TransparentStart, BlockStart, AckByte, EotOrNakByte,
         OtherIdleByte, BlockEnd, DataByte, InTransparent, DoubledDle,
         TransparentAbort, TransparentEnd, SingleDle, TransparentByte, BccByte,
         EngineIs, EngineGoes, SYN, DLE, STX, SOH, ETB, ETX, ITB, ENQ, ACK0,
         ACK1, EOT, NAK
<1>1. ASSUME receiveState \in {OutOfSync, "IDLE"} /\ b = SYN
      PROVE  /\ receiveState' = "IDLE" /\ UNCHANGED <<previousByteDLE, mainVars>>
             /\ Store(IF receiveState = OutOfSync \/ Working.len = 0
                      THEN Write(Working, b) ELSE Working)
  BY <1>1
<1>2. ASSUME receiveState = "IDLE" /\ b = DLE
      PROVE  EngineGoes("IDLE", TRUE) /\ StoreNothing
  BY <1>2
<1>3. ASSUME EngineIs("IDLE", TRUE) /\ b \in {ACK0, ACK1}
      PROVE  EngineGoes("PAD", previousByteDLE) /\ Store(Write(Write(Working, DLE), b))
  <2>1. AckByte(b) /\ UNCHANGED mainVars
    BY <1>3, AckByteTaken
  <2>. QED
    BY <2>1
<1>4. ASSUME receiveState = "IDLE" /\ b \in {EOT, NAK}
      PROVE  EngineGoes("PAD", FALSE) /\ Store(Write(Working, b))
  BY <1>4
<1>5. ASSUME EngineIs("IDLE", FALSE) /\ b \in {SOH, STX}
      PROVE  EngineGoes("DATA", FALSE) /\ Store(Write(Working, b))
  BY <1>5
<1>6. ASSUME EngineIs("IDLE", TRUE) /\ b = STX
      PROVE  /\ EngineGoes("TRANSPARENT_DATA", FALSE)
             /\ Store(Write(Write(Working, DLE), b))
  BY <1>6
<1>. HIDE DEF EngineTakes, SyncFound, ProcessByte, OutOfSync, PadByte, InText,
         SynByte, DleByte, TransparentStart, BlockStart, AckByte, EotOrNakByte,
         OtherIdleByte, BlockEnd, DataByte, InTransparent, DoubledDle,
         TransparentAbort, TransparentEnd, SingleDle, TransparentByte, BccByte,
         EngineIs, EngineGoes, SYN, DLE, STX, SOH, ETB, ETX, ITB, ENQ, ACK0,
         ACK1, EOT, NAK
<1>. QED
  BY <1>1, <1>2, <1>3, <1>4, <1>5, <1>6

\* What it does in a text, transparent or not.
LEMMA TextByteEffect ==
    ASSUME NEW b, EngineTakes(b), previousByteDLE \in BOOLEAN
    PROVE  /\ EngineIs("DATA", FALSE) /\ b \notin {DLE, ETB, ETX}
              => /\ EngineGoes("DATA", FALSE)
                 /\ Store(IF b = SYN /\ Working.len # 0 THEN Working
                                                 ELSE Write(Working, b))
           /\ EngineIs("DATA", FALSE) /\ b \in {ETB, ETX}
              => EngineGoes("BCC1", FALSE) /\ Store(Write(Working, b))
           /\ EngineIs("TRANSPARENT_DATA", FALSE) /\ b # DLE
              => /\ EngineGoes("TRANSPARENT_DATA", FALSE)
                 /\ Store(Write(Working, b))
           /\ EngineIs("TRANSPARENT_DATA", FALSE) /\ b = DLE
              => EngineGoes("TRANSPARENT_DATA", TRUE) /\ StoreNothing
           /\ EngineIs("TRANSPARENT_DATA", TRUE) /\ b = DLE
              => /\ EngineGoes("TRANSPARENT_DATA", FALSE)
                 /\ Store(Write(Working, b))
           /\ EngineIs("TRANSPARENT_DATA", TRUE) /\ b \in {ITB, ETX, ETB}
              => /\ EngineGoes("BCC1", previousByteDLE)
                 /\ Store(Write(Write(Working, DLE), b))
<1>. USE DEF EngineTakes, SyncFound, ProcessByte, OutOfSync, PadByte, InText,
         SynByte, DleByte, TransparentStart, BlockStart, AckByte, EotOrNakByte,
         OtherIdleByte, BlockEnd, DataByte, InTransparent, DoubledDle,
         TransparentAbort, TransparentEnd, SingleDle, TransparentByte, BccByte,
         EngineIs, EngineGoes, SYN, DLE, STX, SOH, ETB, ETX, ITB, ENQ, ACK0,
         ACK1, EOT, NAK
<1>1. ASSUME EngineIs("DATA", FALSE) /\ b \notin {DLE, ETB, ETX}
      PROVE  /\ EngineGoes("DATA", FALSE)
             /\ Store(IF b = SYN /\ Working.len # 0 THEN Working
                                             ELSE Write(Working, b))
  BY <1>1
<1>2. ASSUME EngineIs("DATA", FALSE) /\ b \in {ETB, ETX}
      PROVE  EngineGoes("BCC1", FALSE) /\ Store(Write(Working, b))
  BY <1>2
<1>3. ASSUME EngineIs("TRANSPARENT_DATA", FALSE) /\ b # DLE
      PROVE  /\ EngineGoes("TRANSPARENT_DATA", FALSE)
             /\ Store(Write(Working, b))
  BY <1>3
<1>4. ASSUME EngineIs("TRANSPARENT_DATA", FALSE) /\ b = DLE
      PROVE  EngineGoes("TRANSPARENT_DATA", TRUE) /\ StoreNothing
  BY <1>4
<1>5. ASSUME EngineIs("TRANSPARENT_DATA", TRUE) /\ b = DLE
      PROVE  /\ EngineGoes("TRANSPARENT_DATA", FALSE)
             /\ Store(Write(Working, b))
  BY <1>5
<1>6. ASSUME EngineIs("TRANSPARENT_DATA", TRUE) /\ b \in {ITB, ETX, ETB}
      PROVE  /\ EngineGoes("BCC1", previousByteDLE)
             /\ Store(Write(Write(Working, DLE), b))
  <2>1. TransparentEnd(b) /\ UNCHANGED mainVars
    BY <1>6, TransparentEndTaken
  <2>. QED
    BY <2>1
<1>. HIDE DEF EngineTakes, SyncFound, ProcessByte, OutOfSync, PadByte, InText,
         SynByte, DleByte, TransparentStart, BlockStart, AckByte, EotOrNakByte,
         OtherIdleByte, BlockEnd, DataByte, InTransparent, DoubledDle,
         TransparentAbort, TransparentEnd, SingleDle, TransparentByte, BccByte,
         EngineIs, EngineGoes, SYN, DLE, STX, SOH, ETB, ETX, ITB, ENQ, ACK0,
         ACK1, EOT, NAK
<1>. QED
  BY <1>1, <1>2, <1>3, <1>4, <1>5, <1>6

\* What it does with the block check characters and the pad.
LEMMA CheckByteEffect ==
    ASSUME NEW b, EngineTakes(b), previousByteDLE \in BOOLEAN
    PROVE  /\ receiveState = "BCC1"
              => EngineGoes("BCC2", previousByteDLE) /\ Store(Write(Working, b))
           /\ receiveState = "BCC2"
              => EngineGoes("PAD", previousByteDLE) /\ Store(Write(Working, b))
           /\ receiveState = "PAD"
              => EngineGoes("IDLE", previousByteDLE) /\ Deliver(Write(Working, b))
<1>. USE DEF EngineTakes, SyncFound, ProcessByte, OutOfSync, PadByte, InText,
         SynByte, DleByte, TransparentStart, BlockStart, AckByte, EotOrNakByte,
         OtherIdleByte, BlockEnd, DataByte, InTransparent, DoubledDle,
         TransparentAbort, TransparentEnd, SingleDle, TransparentByte, BccByte,
         EngineIs, EngineGoes, SYN, DLE, STX, SOH, ETB, ETX, ITB, ENQ, ACK0,
         ACK1, EOT, NAK
<1>1. ASSUME receiveState = "BCC1"
      PROVE  EngineGoes("BCC2", previousByteDLE) /\ Store(Write(Working, b))
  BY <1>1
<1>2. ASSUME receiveState = "BCC2"
      PROVE  EngineGoes("PAD", previousByteDLE) /\ Store(Write(Working, b))
  BY <1>2
<1>3. ASSUME receiveState = "PAD"
      PROVE  EngineGoes("IDLE", previousByteDLE) /\ Deliver(Write(Working, b))
  BY <1>3
<1>. HIDE DEF EngineTakes, SyncFound, ProcessByte, OutOfSync, PadByte, InText,
         SynByte, DleByte, TransparentStart, BlockStart, AckByte, EotOrNakByte,
         OtherIdleByte, BlockEnd, DataByte, InTransparent, DoubledDle,
         TransparentAbort, TransparentEnd, SingleDle, TransparentByte, BccByte,
         EngineIs, EngineGoes, SYN, DLE, STX, SOH, ETB, ETX, ITB, ENQ, ACK0,
         ACK1, EOT, NAK
<1>. QED
  BY <1>1, <1>2, <1>3

-----------------------------------------------------------------------------
\* The engine does with the i-th character of f what the frame says.
TakesChar(f, i) ==
    /\ receiveState' = StateAfter(f, i)
    /\ previousByteDLE' <=> DleAfter(f, i)
    /\ Store(BufferAfter(f, i, Working))
    /\ UNCHANGED mainVars

\* Where the engine is before the i-th character, and what it hears.
Awaits(f, i) ==
    /\ TypeOK
    /\ EngineTakes(f.wire[i])
    /\ IF i = 2 THEN BeforeFrame ELSE InFrame(f, i - 1)

\* The two SYNs: only the first one is stored.
LEMMA SyncChars ==
    ASSUME NEW f, WellFormed(f, MaxData), NEW i \in 2..3, Awaits(f, i)
    PROVE  TakesChar(f, i)
<1>0. /\ previousByteDLE \in BOOLEAN
      /\ f.wire[i] = SYN /\ f.wire[4] # SYN
      /\ Len(f.wire) \in Nat /\ Len(f.wire) >= 5 /\ f.wire \in Seq(Byte)
  <2>1. f.wire[4] \in {EOT, NAK, DLE, SOH, STX}
    BY DEF WellFormed, IsControl, IsAck, IsText, IsTransparent
  <2>2. f.wire[4] # SYN
    BY <2>1 DEF SYN, EOT, NAK, DLE, SOH, STX
  <2>3. f.wire[i] = SYN
    BY DEF WellFormed, Framed
  <2>. QED
    BY <2>2, <2>3, KindsApart DEF Awaits, TypeOK
<1>1. 2 \in Kept(f) /\ 3 \notin Kept(f)
  <2>1. \A k \in Dropped(f) : k = 1 \/ k = 3 \/ k >= 5
    BY StuffingType, KindsApart DEF Dropped, TextRange
  <2>2. 3 \in Dropped(f) /\ 2 \in DOMAIN f.wire
    BY <1>0 DEF Dropped
  <2>. QED
    BY <2>1, <2>2 DEF Kept
<1>2. \A k \in 1..3 : ~Announces(f, k) /\ ~DleAfter(f, k)
  <2>1. IsTransparent(f) => End(f) >= 7 /\ \A k \in Stuffing(f) : k >= 6
    BY StuffingType DEF IsTransparent, TextRange
  <2>. QED
    BY <1>0, <2>1 DEF Announces, DleAfter, End
<1>3. StateAfter(f, 2) = "IDLE" /\ StateAfter(f, 3) = "IDLE"
  BY DEF StateAfter
<1>4. CASE i = 2
  <2>1. BufferAfter(f, i, Working) = Write(Working, SYN)
    BY <1>0, <1>1, <1>2, <1>4 DEF BufferAfter
  <2>2. receiveState \in {OutOfSync, "IDLE"} /\ ~previousByteDLE /\ Working.len = 0
    BY <1>4 DEF Awaits, BeforeFrame
  <2>3. /\ receiveState' = "IDLE" /\ UNCHANGED <<previousByteDLE, mainVars>>
        /\ Store(Write(Working, SYN))
    BY <1>0, <2>2, IdleByteEffect DEF Awaits
  <2>. QED
    BY <1>2, <1>3, <1>4, <2>1, <2>2, <2>3 DEF TakesChar
<1>5. CASE i = 3
  <2>1. BufferAfter(f, i, Working) = Working
    BY <1>1, <1>5 DEF BufferAfter
  <2>2. receiveState = "IDLE" /\ ~previousByteDLE
    BY <1>2, <1>3, <1>5 DEF Awaits, InFrame
  <2>3. Working.len # 0
    <3>1. KeptUpTo(f, 2) \in Nat /\ KeptUpTo(f, 2) >= 1
      BY <1>0, <1>1, KeptBounds
    <3>2. Holds(Working, f.stored, KeptUpTo(f, 2))
      BY <1>2, <1>5 DEF Awaits, InFrame, Written
    <3>. QED
      BY <3>1, <3>2, MaxDataAssumption DEF Holds
  <2>4. /\ receiveState' = "IDLE" /\ UNCHANGED <<previousByteDLE, mainVars>>
        /\ Store(Working)
    BY <1>0, <2>2, <2>3, IdleByteEffect DEF Awaits, OutOfSync
  <2>. QED
    BY <1>2, <1>3, <1>5, <2>1, <2>2, <2>4 DEF TakesChar
<1>. QED
  BY <1>4, <1>5

\* EOT and NAK.
LEMMA ControlChars ==
    ASSUME NEW f, WellFormed(f, MaxData), IsControl(f), Awaits(f, 4)
    PROVE  TakesChar(f, 4)
<1>0. previousByteDLE \in BOOLEAN /\ f.wire[4] \in {EOT, NAK} /\ Len(f.wire) = 5
  BY DEF Awaits, TypeOK, IsControl
<1>1. ~IsAck(f) /\ ~IsText(f) /\ ~IsTransparent(f)
  BY KindsApart
<1>2. \A k : ~Announces(f, k) /\ ~DleAfter(f, k)
  BY <1>1 DEF Announces, DleAfter
<1>3. 4 \in Kept(f) /\ StateAfter(f, 3) = "IDLE" /\ StateAfter(f, 4) = "PAD"
  BY <1>0, <1>1, KindsApart DEF Kept, Dropped, StateAfter
<1>4. receiveState = "IDLE"
  BY <1>3 DEF Awaits, InFrame
<1>5. EngineGoes("PAD", FALSE) /\ Store(Write(Working, f.wire[4]))
  BY <1>0, <1>4, IdleByteEffect DEF Awaits
<1>. QED
  BY <1>2, <1>3, <1>5 DEF TakesChar, EngineGoes, BufferAfter

\* DLE ACK0 and DLE ACK1.
LEMMA AckChars ==
    ASSUME NEW f, WellFormed(f, MaxData), IsAck(f), NEW i \in 4..5, Awaits(f, i)
    PROVE  TakesChar(f, i)
<1>0. /\ previousByteDLE \in BOOLEAN /\ TypeOK
      /\ f.wire[4] = DLE /\ f.wire[5] \in {ACK0, ACK1} /\ Len(f.wire) = 6
  BY DEF Awaits, TypeOK, IsAck
<1>1. ~IsText(f) /\ ~IsTransparent(f)
  BY KindsApart
<1>2. /\ Announces(f, 4) /\ ~Announces(f, 5)
      /\ ~DleAfter(f, 3) /\ DleAfter(f, 4) /\ DleAfter(f, 5)
  BY <1>1 DEF Announces, DleAfter
<1>3. /\ 4 \in Kept(f) /\ 5 \in Kept(f)
      /\ StateAfter(f, 3) = "IDLE" /\ StateAfter(f, 4) = "IDLE"
      /\ StateAfter(f, 5) = "PAD"
  BY <1>0, <1>1, KindsApart DEF Kept, Dropped, StateAfter
<1>4. receiveState = "IDLE" /\ (previousByteDLE <=> i = 5)
  BY <1>2, <1>3 DEF Awaits, InFrame
<1>5. CASE i = 4
  <2>1. EngineGoes("IDLE", TRUE) /\ Store(Working)
    BY <1>0, <1>4, <1>5, IdleByteEffect, StoreNothingIsStore DEF Awaits
  <2>. QED
    BY <1>2, <1>3, <1>5, <2>1 DEF TakesChar, EngineGoes, BufferAfter
<1>6. CASE i = 5
  <2>1. /\ EngineGoes("PAD", previousByteDLE)
        /\ Store(Write(Write(Working, DLE), f.wire[5]))
    BY <1>0, <1>4, <1>6, IdleByteEffect DEF Awaits, EngineIs
  <2>. QED
    BY <1>2, <1>3, <1>4, <1>6, <2>1 DEF TakesChar, EngineGoes, BufferAfter
<1>. QED
  BY <1>5, <1>6

\* A block of text with its BCC.
LEMMA TextChars ==
    ASSUME NEW f, WellFormed(f, MaxData), IsText(f),
           NEW i \in 4..(Len(f.wire) - 1), Awaits(f, i)
    PROVE  TakesChar(f, i)
<1>. DEFINE L == Len(f.wire)
<1>0. /\ previousByteDLE \in BOOLEAN
      /\ L \in Nat /\ L >= 8 /\ End(f) = L - 3 /\ f.wire \in Seq(Byte)
      /\ f.wire[4] \in {SOH, STX}
      /\ f.wire[L - 3] \in {ETX, ETB}
      /\ \A k \in 5..(L - 4) : f.wire[k] \notin {DLE, ETX, ETB}
  BY KindsApart DEF Awaits, TypeOK, IsText
<1>1. ~IsAck(f) /\ ~IsTransparent(f)
  BY KindsApart
<1>2. \A k : ~Announces(f, k) /\ ~DleAfter(f, k)
  BY <1>1 DEF Announces, DleAfter
<1>3. i \in Kept(f) <=> ~(i \in 5..(L - 4) /\ f.wire[i] = SYN)
  BY <1>0 DEF Kept, Dropped
<1>4. f.wire[4] # DLE /\ IsText(f)
  BY <1>0 DEF SOH, STX, DLE
<1>5. /\ StateAfter(f, 3) = "IDLE" /\ StateAfter(f, 4) = "DATA"
      /\ i \in 5..(L - 4) => StateAfter(f, i - 1) = "DATA" /\ StateAfter(f, i) = "DATA"
      /\ StateAfter(f, L - 4) = "DATA" /\ StateAfter(f, L - 3) = "BCC1"
      /\ StateAfter(f, L - 2) = "BCC2" /\ StateAfter(f, L - 1) = "PAD"
  <2>1. \A k \in 4..(L - 4) : StateAfter(f, k) = "DATA"
    BY <1>0, <1>4 DEF StateAfter
  <2>2. i \in 5..(L - 4) => i \in 4..(L - 4) /\ i - 1 \in 4..(L - 4)
    BY <1>0
  <2>3. 4 \in 4..(L - 4) /\ L - 4 \in 4..(L - 4)
    BY <1>0
  <2>4. /\ StateAfter(f, 3) = "IDLE" /\ StateAfter(f, L - 3) = "BCC1"
        /\ StateAfter(f, L - 2) = "BCC2" /\ StateAfter(f, L - 1) = "PAD"
    BY <1>0, <1>4 DEF StateAfter
  <2>. QED
    BY <2>1, <2>2, <2>3, <2>4
<1>6. /\ receiveState = StateAfter(f, i - 1)
      /\ ~previousByteDLE
      /\ EngineTakes(f.wire[i])
  BY <1>2 DEF Awaits, InFrame
<1>. DEFINE b == f.wire[i]
<1>7. BufferAfter(f, i, Working) =
        IF i \in 5..(L - 4) /\ b = SYN THEN Working ELSE Write(Working, b)
  BY <1>2, <1>3 DEF BufferAfter
<1>. SUFFICES /\ EngineGoes(StateAfter(f, i), FALSE)
              /\ Store(IF i \in 5..(L - 4) /\ b = SYN THEN Working ELSE Write(Working, b))
  BY <1>2, <1>7 DEF TakesChar, EngineGoes
<1>8. CASE i = 4
  <2>1. EngineIs("IDLE", FALSE) /\ b \in {SOH, STX}
    BY <1>0, <1>5, <1>6, <1>8 DEF EngineIs
  <2>2. EngineGoes("DATA", FALSE) /\ Store(Write(Working, b))
    BY <1>0, <1>6, <2>1, IdleByteEffect
  <2>3. i \notin 5..(L - 4) /\ StateAfter(f, i) = "DATA"
    BY <1>5, <1>8
  <2>. QED
    BY <2>2, <2>3
<1>9. CASE i \in 5..(L - 4)
  <2>1. EngineIs("DATA", FALSE) /\ b \notin {DLE, ETB, ETX}
    BY <1>0, <1>5, <1>6, <1>9 DEF EngineIs
  <2>2. Working.len # 0
    <3>1. i - 1 \in 0..L /\ 2 <= i - 1
      BY <1>0, <1>9
    <3>2. 2 \in Kept(f)
      BY <1>0 DEF Kept, Dropped
    <3>3. KeptUpTo(f, i - 1) \in Nat /\ KeptUpTo(f, i - 1) >= 1
      BY <1>0, <3>1, <3>2, KeptBounds
    <3>4. Holds(Working, f.stored, KeptUpTo(f, i - 1))
      BY <1>2, <1>9 DEF Awaits, InFrame, Written
    <3>. QED
      BY <3>3, <3>4, MaxDataAssumption DEF Holds
  <2>3. /\ EngineGoes("DATA", FALSE)
        /\ Store(IF b = SYN /\ Working.len # 0 THEN Working ELSE Write(Working, b))
    BY <1>0, <1>6, <2>1, TextByteEffect
  <2>. QED
    BY <1>5, <1>9, <2>2, <2>3
<1>10. CASE i = L - 3
  <2>1. EngineIs("DATA", FALSE) /\ b \in {ETB, ETX}
    BY <1>0, <1>5, <1>6, <1>10 DEF EngineIs
  <2>2. EngineGoes("BCC1", FALSE) /\ Store(Write(Working, b))
    BY <1>0, <1>6, <2>1, TextByteEffect
  <2>. QED
    BY <1>0, <1>5, <1>10, <2>2
<1>11. CASE i = L - 2
  <2>1. receiveState = "BCC1"
    BY <1>0, <1>5, <1>6, <1>11
  <2>2. EngineGoes("BCC2", previousByteDLE) /\ Store(Write(Working, b))
    BY <1>0, <1>6, <2>1, CheckByteEffect
  <2>. QED
    BY <1>0, <1>5, <1>6, <1>11, <2>2 DEF EngineGoes
<1>12. CASE i = L - 1
  <2>1. receiveState = "BCC2"
    BY <1>0, <1>5, <1>6, <1>12
  <2>2. EngineGoes("PAD", previousByteDLE) /\ Store(Write(Working, b))
    BY <1>0, <1>6, <2>1, CheckByteEffect
  <2>. QED
    BY <1>0, <1>5, <1>6, <1>12, <2>2 DEF EngineGoes
<1>13. i = 4 \/ i \in 5..(L - 4) \/ i = L - 3 \/ i = L - 2 \/ i = L - 1
  BY <1>0
<1>. QED
  BY <1>8, <1>9, <1>10, <1>11, <1>12, <1>13

\* A block of transparent text with its BCC: a DLE that stuffs is dropped
\* and remembered, the one it stuffs is stored.
LEMMA TransparentChars ==
    ASSUME NEW f, WellFormed(f, MaxData), IsTransparent(f),
           NEW i \in 4..(Len(f.wire) - 1), Awaits(f, i)
    PROVE  TakesChar(f, i)
<1>. DEFINE L == Len(f.wire)
            P == Stuffing(f)
            b == f.wire[i]
<1>0. /\ previousByteDLE \in BOOLEAN /\ TypeOK
      /\ L \in Nat /\ L >= 10 /\ End(f) = L - 3 /\ f.wire \in Seq(Byte)
      /\ f.wire[4] = DLE /\ f.wire[5] = STX
      /\ f.wire[L - 4] = DLE /\ f.wire[L - 3] \in {ITB, ETX, ETB}
  BY KindsApart DEF Awaits, TypeOK, IsTransparent
<1>1. ~IsAck(f) /\ ~IsText(f)
  BY KindsApart
<1>2. /\ \A k \in P : k \in 6..(L - 6)
      /\ \A k \in 6..(L - 5) : f.wire[k] = DLE <=> k \in P \/ k - 1 \in P
      /\ \A k \in P : k + 1 \notin P
  <2>1. P \in SUBSET (6..(L - 3 - 3)) /\ IsStuffing(f, P)
    BY <1>0, StuffingType DEF TextRange
  <2>2. \A k \in P : k \in 6..(L - 6)
    BY <1>0, <2>1
  <2>3. \A k \in 6..(L - 3 - 2) : f.wire[k] = DLE <=> k \in P \/ k - 1 \in P
    BY <1>0, <2>1 DEF IsStuffing
  <2>4. \A k \in P : k + 1 \notin P
    BY <2>1 DEF IsStuffing
  <2>5. L - 3 - 2 = L - 5
    BY <1>0
  <2>. QED
    BY <2>2, <2>3, <2>4, <2>5
<1>3. /\ \A k : Announces(f, k) <=> k = 4 \/ k = L - 4
      /\ \A k : DleAfter(f, k) <=> k = 4 \/ k \in P \/ k >= L - 4
  BY <1>0, <1>1 DEF Announces, DleAfter
<1>4. i \in Kept(f) <=> i \notin P
  BY <1>0, <1>1 DEF Kept, Dropped
<1>5. /\ StateAfter(f, 3) = "IDLE" /\ StateAfter(f, 4) = "IDLE"
      /\ \A k \in 5..(L - 4) : StateAfter(f, k) = "TRANSPARENT_DATA"
      /\ StateAfter(f, L - 3) = "BCC1" /\ StateAfter(f, L - 2) = "BCC2"
      /\ StateAfter(f, L - 1) = "PAD"
  <2>1. StateAfter(f, 3) = "IDLE" /\ StateAfter(f, 4) = "IDLE"
    BY <1>0 DEF StateAfter
  <2>2. \A k \in 5..(L - 4) : StateAfter(f, k) = "TRANSPARENT_DATA"
    BY <1>0, <1>1 DEF StateAfter
  <2>3. /\ StateAfter(f, L - 3) = "BCC1" /\ StateAfter(f, L - 2) = "BCC2"
        /\ StateAfter(f, L - 1) = "PAD"
    <3>1. \A k \in Nat : k > 4 => StateAfter(f, k) =
             IF k = L - 1 THEN "PAD" ELSE IF k = L - 2 THEN "BCC2"
             ELSE IF k = L - 3 THEN "BCC1" ELSE "TRANSPARENT_DATA"
      BY <1>0, <1>1 DEF StateAfter
    <3>2. /\ L - 3 \in Nat /\ L - 3 > 4 /\ L - 3 # L - 1 /\ L - 3 # L - 2
          /\ L - 2 \in Nat /\ L - 2 > 4 /\ L - 2 # L - 1
          /\ L - 1 \in Nat /\ L - 1 > 4
      BY <1>0
    <3>. HIDE DEF L
    <3>. QED
      BY <3>1, <3>2
  <2>. QED
    BY <2>1, <2>2, <2>3
<1>6. /\ receiveState = StateAfter(f, i - 1)
      /\ previousByteDLE <=> DleAfter(f, i - 1)
      /\ EngineTakes(b)
  BY DEF Awaits, InFrame
<1>7. CASE i = 4
  <2>1. receiveState = "IDLE" /\ b = DLE
    BY <1>0, <1>5, <1>6, <1>7
  <2>2. EngineGoes("IDLE", TRUE) /\ Store(Working)
    BY <1>0, <1>6, <2>1, IdleByteEffect, StoreNothingIsStore
  <2>3. BufferAfter(f, i, Working) = Working /\ DleAfter(f, i)
    BY <1>3, <1>7 DEF BufferAfter
  <2>4. StateAfter(f, i) = "IDLE"
    BY <1>5, <1>7
  <2>. QED
    BY <2>2, <2>3, <2>4 DEF TakesChar, EngineGoes
<1>8. CASE i = 5
  <2>1. receiveState = "IDLE" /\ b = STX /\ (previousByteDLE <=> TRUE)
    BY <1>0, <1>3, <1>5, <1>6, <1>8
  <2>2. EngineGoes("TRANSPARENT_DATA", FALSE) /\ Store(Write(Write(Working, DLE), b))
    BY <1>0, <1>6, <2>1, IdleByteEffect DEF EngineIs
  <2>3. i \notin P /\ ~Announces(f, i) /\ Announces(f, i - 1)
    BY <1>0, <1>2, <1>3, <1>8
  <2>4. BufferAfter(f, i, Working) = Write(Write(Working, DLE), b)
    BY <1>4, <2>3 DEF BufferAfter
  <2>5. ~DleAfter(f, i) /\ StateAfter(f, i) = "TRANSPARENT_DATA"
    BY <1>0, <1>3, <1>5, <1>8, <2>3
  <2>. QED
    BY <2>2, <2>4, <2>5 DEF TakesChar, EngineGoes
<1>9. CASE i \in 6..(L - 5)
  <2>0. /\ ~Announces(f, i) /\ ~Announces(f, i - 1)
        /\ receiveState = "TRANSPARENT_DATA" /\ StateAfter(f, i) = "TRANSPARENT_DATA"
        /\ previousByteDLE <=> i - 1 \in P
        /\ DleAfter(f, i) <=> i \in P
        /\ b = DLE <=> i \in P \/ i - 1 \in P
    <3>1. i - 1 # 4 /\ i - 1 # L - 4 /\ i # 4 /\ i # L - 4
      BY <1>0, <1>9
    <3>2. i \in 5..(L - 4) /\ i - 1 \in 5..(L - 4) /\ ~(i >= L - 4) /\ ~(i - 1 >= L - 4)
      BY <1>0, <1>9
    <3>. QED
      BY <1>2, <1>3, <1>5, <1>6, <1>9, <3>1, <3>2
  <2>1. CASE i \in P
    <3>1. i - 1 \notin P
      <4>1. i - 1 \in P => i - 1 + 1 \notin P
        BY <1>2
      <4>2. i - 1 + 1 = i
        BY <1>9
      <4>. QED
        BY <2>1, <4>1, <4>2
    <3>2. EngineIs("TRANSPARENT_DATA", FALSE) /\ b = DLE
      BY <2>0, <2>1, <3>1 DEF EngineIs
    <3>3. EngineGoes("TRANSPARENT_DATA", TRUE) /\ Store(Working)
      BY <1>0, <1>6, <3>2, TextByteEffect, StoreNothingIsStore
    <3>4. BufferAfter(f, i, Working) = Working
      BY <1>4, <2>1 DEF BufferAfter
    <3>. QED
      BY <2>0, <2>1, <3>3, <3>4 DEF TakesChar, EngineGoes
  <2>2. CASE i \notin P
    <3>1. \/ EngineIs("TRANSPARENT_DATA", TRUE) /\ b = DLE
          \/ EngineIs("TRANSPARENT_DATA", FALSE) /\ b # DLE
      BY <2>0, <2>2 DEF EngineIs
    <3>2. EngineGoes("TRANSPARENT_DATA", FALSE) /\ Store(Write(Working, b))
      BY <1>0, <1>6, <3>1, TextByteEffect
    <3>3. BufferAfter(f, i, Working) = Write(Working, b)
      BY <1>4, <2>0, <2>2 DEF BufferAfter
    <3>. QED
      BY <2>0, <2>2, <3>2, <3>3 DEF TakesChar, EngineGoes
  <2>. QED
    BY <2>1, <2>2
<1>10. CASE i = L - 4
  <2>1. i - 1 \notin P /\ i - 1 # 4 /\ ~(i - 1 >= L - 4) /\ i - 1 \in 5..(L - 4)
    <3>1. i - 1 = L - 5 /\ L - 5 \notin 6..(L - 6)
      BY <1>0, <1>10
    <3>. QED
      BY <1>0, <1>2, <3>1
  <2>2. EngineIs("TRANSPARENT_DATA", FALSE) /\ b = DLE
    BY <1>0, <1>3, <1>5, <1>6, <1>10, <2>1 DEF EngineIs
  <2>3. EngineGoes("TRANSPARENT_DATA", TRUE) /\ Store(Working)
    BY <1>0, <1>6, <2>2, TextByteEffect, StoreNothingIsStore
  <2>4. BufferAfter(f, i, Working) = Working
    BY <1>3, <1>10 DEF BufferAfter
  <2>5. DleAfter(f, i) /\ StateAfter(f, i) = "TRANSPARENT_DATA"
    BY <1>0, <1>3, <1>5, <1>10
  <2>. QED
    BY <2>3, <2>4, <2>5 DEF TakesChar, EngineGoes
<1>11. CASE i = L - 3
  <2>1. /\ i \notin P /\ ~Announces(f, i) /\ Announces(f, i - 1)
        /\ i - 1 \in 5..(L - 4) /\ DleAfter(f, i - 1) /\ DleAfter(f, i)
    BY <1>0, <1>2, <1>3, <1>11
  <2>2. EngineIs("TRANSPARENT_DATA", TRUE) /\ b \in {ITB, ETX, ETB}
    BY <1>0, <1>5, <1>6, <1>11, <2>1 DEF EngineIs
  <2>3. /\ EngineGoes("BCC1", previousByteDLE)
        /\ Store(Write(Write(Working, DLE), b))
    BY <1>0, <1>6, <2>2, TextByteEffect
  <2>4. BufferAfter(f, i, Working) = Write(Write(Working, DLE), b)
    BY <1>4, <2>1 DEF BufferAfter
  <2>5. StateAfter(f, i) = "BCC1"
    BY <1>5, <1>11
  <2>. QED
    BY <2>1, <2>2, <2>3, <2>4, <2>5 DEF TakesChar, EngineGoes, EngineIs
<1>12. CASE i \in {L - 2, L - 1}
  <2>1. /\ i \notin P /\ ~Announces(f, i) /\ ~Announces(f, i - 1)
        /\ DleAfter(f, i - 1) /\ DleAfter(f, i)
    BY <1>0, <1>2, <1>3, <1>12
  <2>2. /\ receiveState = IF i = L - 2 THEN "BCC1" ELSE "BCC2"
        /\ StateAfter(f, i) = IF i = L - 2 THEN "BCC2" ELSE "PAD"
    BY <1>0, <1>5, <1>6, <1>12
  <2>3. EngineGoes(StateAfter(f, i), previousByteDLE) /\ Store(Write(Working, b))
    BY <1>0, <1>6, <1>12, <2>2, CheckByteEffect
  <2>4. BufferAfter(f, i, Working) = Write(Working, b)
    BY <1>4, <2>1 DEF BufferAfter
  <2>. QED
    BY <1>6, <2>1, <2>3, <2>4 DEF TakesChar, EngineGoes
<1>13. \/ i = 4 \/ i = 5 \/ i \in 6..(L - 5) \/ i = L - 4 \/ i = L - 3
       \/ i \in {L - 2, L - 1}
  BY <1>0
<1>. QED
  BY <1>7, <1>8, <1>9, <1>10, <1>11, <1>12, <1>13

\* The last two characters of a frame do not wait for a further one.
LEMMA LastIsPlain ==
    ASSUME NEW f, WellFormed(f, MaxData)
    PROVE  ~Announces(f, Len(f.wire)) /\ ~Announces(f, Len(f.wire) - 1)
<1>1. PICK n \in Nat : n = Len(f.wire)
  BY KindsApart
<1>2. n >= 5 /\ End(f) = n - 3
  BY <1>1, KindsApart
<1>3. IsAck(f) => n = 6
  BY <1>1 DEF IsAck
<1>4. IsTransparent(f) => n >= 10
  BY <1>2 DEF IsTransparent
<1>5. CASE IsTransparent(f)
  <2>1. n # 4 /\ n - 1 # 4 /\ n # n - 3 - 1 /\ n - 1 # n - 3 - 1
    BY <1>4, <1>5
  <2>. QED
    BY <1>1, <1>2, <2>1 DEF Announces
<1>6. CASE ~IsTransparent(f)
  <2>1. IsAck(f) => n # 4 /\ n - 1 # 4
    BY <1>3
  <2>. QED
    BY <1>1, <1>6, <2>1 DEF Announces
<1>. QED
  BY <1>5, <1>6

\* Nothing is stored for the leading pad.
LEMMA FirstPadDropped ==
    ASSUME NEW f, WellFormed(f, MaxData)
    PROVE  Written(f, 1) = 0
<1>1. f.wire \in Seq(Byte) /\ 1 \in 1..Len(f.wire) /\ 1 - 1 = 0
  BY KindsApart
<1>2. 1 \notin Kept(f)
  BY DEF Kept, Dropped
<1>3. ~Announces(f, 1)
  BY <1>1, <1>2, AnnouncedIsKept
<1>4. KeptUpTo(f, 1) = KeptUpTo(f, 0) /\ KeptUpTo(f, 0) = 0
  BY <1>1, <1>2, KeptStep, KeptBounds
<1>. QED
  BY <1>3, <1>4 DEF Written

\* After the last character the buffer holds all of the frame that fits.
LEMMA WholeFrameHeld ==
    ASSUME NEW f, WellFormed(f, MaxData), NEW db,
           Holds(db, f.stored, Written(f, Len(f.wire)))
    PROVE  Holds(db, f.stored, Len(f.stored))
<1>1. Written(f, Len(f.wire)) = KeptUpTo(f, Len(f.wire))
  BY LastIsPlain DEF Written
<1>2. KeptUpTo(f, Len(f.wire)) \in Nat
  <2>1. f.wire \in Seq(Byte) /\ Len(f.wire) \in 0..Len(f.wire)
    BY KindsApart
  <2>. QED
    BY <2>1, KeptBounds
<1>3. Len(f.stored) = IF KeptUpTo(f, Len(f.wire)) <= MaxData
                      THEN KeptUpTo(f, Len(f.wire)) ELSE MaxData
  BY DEF WellFormed, IsStored
<1>. QED
  BY <1>1, <1>2, <1>3, MaxDataAssumption DEF Holds

\* Every character of a frame but the last.
LEMMA CharTaken ==
    ASSUME NEW f, WellFormed(f, MaxData),
           NEW i \in 2..(Len(f.wire) - 1), Awaits(f, i)
    PROVE  TakesChar(f, i)
<1>1. Len(f.wire) \in Nat /\ Len(f.wire) >= 5
  BY KindsApart
<1>2. CASE i \in 2..3
  BY <1>2, SyncChars
<1>3. CASE i \in 4..(Len(f.wire) - 1)
  <2>1. IsControl(f) => i = 4
    BY <1>3 DEF IsControl
  <2>2. IsAck(f) => i \in 4..5
    BY <1>3 DEF IsAck
  <2>. QED
    BY <1>3, <2>1, <2>2, ControlChars, AckChars, TextChars, TransparentChars
    DEF WellFormed
<1>. QED
  BY <1>1, <1>2, <1>3

\* With the last one the engine hands over the frame.
LEMMA LastCharTaken ==
    ASSUME NEW f, WellFormed(f, MaxData), Awaits(f, Len(f.wire))
    PROVE  /\ receiveState' = "IDLE"
           /\ Deliver(BufferAfter(f, Len(f.wire), Working))
           /\ UNCHANGED mainVars
<1>. DEFINE L == Len(f.wire)
<1>0. /\ previousByteDLE \in BOOLEAN
      /\ L \in Nat /\ L >= 5 /\ f.wire \in Seq(Byte) /\ End(f) = L - 3
  BY KindsApart DEF Awaits, TypeOK
<1>1. StateAfter(f, L - 1) = "PAD"
  BY <1>0 DEF StateAfter
<1>2. receiveState = "PAD"
  BY <1>0, <1>1 DEF Awaits, InFrame
<1>3. ~Announces(f, L) /\ ~Announces(f, L - 1)
  BY LastIsPlain
<1>4. L \in Kept(f)
  <2>1. \A k \in Dropped(f) : k = 1 \/ k = 3 \/ k <= L - 4
    BY <1>0, StuffingType DEF Dropped, TextRange
  <2>. QED
    BY <1>0, <2>1 DEF Kept
<1>5. BufferAfter(f, L, Working) = Write(Working, f.wire[L])
  BY <1>3, <1>4 DEF BufferAfter
<1>6. EngineGoes("IDLE", previousByteDLE) /\ Deliver(Write(Working, f.wire[L]))
  BY <1>0, <1>2, CheckByteEffect DEF Awaits
<1>. QED
  BY <1>5, <1>6 DEF EngineGoes

-----------------------------------------------------------------------------
LEMMA EmptyIffNoLength ==
    ASSUME NEW S, NEW s \in Seq(S)
    PROVE  s = <<>> <=> Len(s) = 0
OBVIOUS

\* A character of the line, seen from the frame it belongs to.
LEMMA LineOfFrame ==
    ASSUME KnownFrames, LinkTypeOK, OnLine, met, LineByte
    PROVE  /\ current \in Frames /\ WellFormed(current, MaxData)
           /\ Len(current.wire) \in Nat /\ Len(current.wire) >= 5
           /\ Position \in 0..(Len(current.wire) - 1)
           /\ EngineTakes(current.wire[Position + 1])
           /\ line' = Tail(line) /\ Len(line') = Len(line) - 1
           /\ \A j \in 1..Len(line') : line'[j] = line[j + 1]
           /\ line' = <<>> <=> Position + 1 = Len(current.wire)
           /\ line' # <<>> => Position' = Position + 1
           /\ turned' = FALSE
           /\ IF line' = <<>> THEN latest' = current ELSE UNCHANGED <<latest, current>>
           /\ UNCHANGED <<env, answer, met, hostOut, result>>
<1>1. line \in Seq(LineBytes) /\ line # <<>>
  BY DEF LinkTypeOK, LineByte
<1>2. current \in Frames /\ WellFormed(current, MaxData)
  BY <1>1 DEF OnLine, KnownFrames
<1>3. PICK n \in Nat : n = Len(current.wire)
  BY <1>2, KindsApart
<1>4. n >= 5 /\ Len(current.wire) >= 5
  BY <1>2, <1>3, KindsApart
<1>5. PICK m \in Nat : m = Len(line)
  BY <1>1
<1>6. Position = n - m /\ m >= 1 /\ n - m \in 0..(n - 1)
  BY <1>1, <1>3, <1>5 DEF Position, OnLine
<1>7. /\ line' = Tail(line) /\ Len(line') = m - 1
      /\ \A j \in 1..(m - 1) : line'[j] = line[j + 1]
      /\ Head(line) = line[1] /\ line' \in Seq(LineBytes)
  BY <1>1, <1>5 DEF LineByte
<1>8. line[1] = current.wire[Position + 1]
  BY <1>1, <1>5, <1>6 DEF OnLine
<1>9. line' = <<>> <=> m - 1 = 0
  <2>1. line' = <<>> <=> Len(line') = 0
    BY <1>7, EmptyIffNoLength
  <2>. QED
    BY <1>7, <2>1
<1>10. /\ UNCHANGED <<env, answer, met, hostOut, result>> /\ turned' = FALSE
       /\ IF line' = <<>> THEN latest' = current ELSE UNCHANGED <<latest, current>>
  BY <1>7 DEF LineByte, hostVars
<1>11. line' # <<>> => Position' = n - (m - 1)
  BY <1>3, <1>7, <1>10 DEF Position
<1>12. EngineTakes(Head(line))
  BY DEF LineByte
<1>. QED
  BY <1>2, <1>3, <1>4, <1>5, <1>6, <1>7, <1>8, <1>9, <1>10, <1>11, <1>12

\* What a character of a frame does to the engine: the leading pad nothing,
\* the last character hands the frame over, the others are stored.
LEMMA LineByteEffect ==
    ASSUME KnownFrames, IndInv, LinkTypeOK, OnLine, met, LineByte
    PROVE  /\ UNCHANGED mainVars
           /\ \/ /\ Position = 0
                 /\ receiveState' = receiveState /\ ~previousByteDLE'
                 /\ BeforeFrame
                 /\ StoreNothing
              \/ /\ Position >= 1 /\ Position + 1 < Len(current.wire)
                 /\ TakesChar(current, Position + 1)
                 /\ Holds(BufferAfter(current, Position + 1, Working), current.stored,
                          Written(current, Position + 1))
              \/ /\ Position + 1 = Len(current.wire)
                 /\ receiveState' = "IDLE"
                 /\ Deliver(BufferAfter(current, Len(current.wire), Working))
                 /\ Holds(BufferAfter(current, Len(current.wire), Working), current.stored,
                          Len(current.stored))
<1>1. /\ current \in Frames /\ WellFormed(current, MaxData)
      /\ Len(current.wire) \in Nat /\ Len(current.wire) >= 5
      /\ Position \in 0..(Len(current.wire) - 1)
      /\ EngineTakes(current.wire[Position + 1])
  BY LineOfFrame
<1>2. TypeOK /\ Working \in DataBuffers
  BY WorkingType DEF IndInv
<1>3. IF Position <= 1 THEN BeforeFrame ELSE InFrame(current, Position)
  BY DEF OnLine, LineByte
<1>4. PICK n \in Nat : n = Len(current.wire)
  BY <1>1
<1>5. PICK i \in Nat : i = Position
  BY <1>1
<1>6. i \in 0..(n - 1) /\ n >= 5
  BY <1>1, <1>4, <1>5
<1>7. CASE i = 0
  <2>1. current.wire[1] = PAD
    BY <1>1 DEF WellFormed, Framed
  <2>2. EngineTakes(PAD) /\ BeforeFrame
    BY <1>1, <1>3, <1>5, <1>7, <2>1
  <2>3. receiveState \in {OutOfSync, "IDLE"} /\ ~previousByteDLE
    BY <2>2 DEF BeforeFrame
  <2>. QED
    BY <1>5, <1>7, <2>2, <2>3, PadBetweenFrames
<1>8. CASE i >= 1
  <2>1. i + 1 \in 2..n /\ i + 1 - 1 = i
    BY <1>6, <1>8
  <2>2. Awaits(current, i + 1)
    BY <1>1, <1>2, <1>3, <1>5, <1>8, <2>1 DEF Awaits
  <2>3. Holds(Working, current.stored, Written(current, i))
    <3>1. CASE i >= 2
      BY <1>3, <1>5, <3>1 DEF InFrame
    <3>2. CASE i = 1
      <4>1. Written(current, 1) = 0
        BY <1>1, FirstPadDropped
      <4>. QED
        BY <1>3, <1>5, <3>2, <4>1, MaxDataAssumption DEF Holds, BeforeFrame
    <3>. QED
      BY <1>8, <3>1, <3>2
  <2>4. Holds(BufferAfter(current, i + 1, Working), current.stored, Written(current, i + 1))
    BY <1>1, <1>2, <1>4, <2>1, <2>3, BufferAfterHolds
  <2>5. CASE i + 1 < n
    <3>1. i + 1 \in 2..(Len(current.wire) - 1)
      BY <1>4, <1>6, <2>1, <2>5
    <3>2. TakesChar(current, i + 1)
      BY <1>1, <2>2, <3>1, CharTaken
    <3>. QED
      BY <1>4, <1>5, <1>8, <2>4, <2>5, <3>2 DEF TakesChar
  <2>6. CASE i + 1 = n
    <3>1. /\ receiveState' = "IDLE" /\ UNCHANGED mainVars
          /\ Deliver(BufferAfter(current, n, Working))
      BY <1>1, <1>4, <2>2, <2>6, LastCharTaken
    <3>2. Holds(BufferAfter(current, n, Working), current.stored, Len(current.stored))
      BY <1>1, <1>4, <2>4, <2>6, WholeFrameHeld
    <3>. QED
      BY <1>4, <1>5, <2>6, <3>1, <3>2
  <2>. QED
    BY <1>6, <2>5, <2>6
<1>. QED
  BY <1>7, <1>8

\* Storing changes the working buffer only.
LEMMA StoreEffect ==
    ASSUME TypeOK, NEW db, Store(db)
    PROVE  /\ Working' = db
           /\ \A k \in 0..1 : k # receiveDataBuffer => dataBuffers'[k] = dataBuffers[k]
           /\ UNCHANGED <<receiveDataBuffer, savedFrame, frameComplete, taken, overrun>>
BY DEF TypeOK, Store, HandOverUnchanged, historyVars, Working

\* The frame that is handed over is what was in the working buffer.
LEMMA DeliverEffect ==
    ASSUME TypeOK, NEW db, Deliver(db)
    PROVE  /\ savedFrame' = receiveDataBuffer /\ savedFrame' \in 0..1
           /\ dataBuffers'[savedFrame'] = db
           /\ Working'.len = 0
           /\ frameComplete' = TRUE
           /\ overrun' = (overrun \/ Copying)
           /\ UNCHANGED taken
<1>1. receiveDataBuffer \in 0..1 /\ dataBuffers \in [0..1 -> DataBuffers]
  BY DEF TypeOK
<1>2. PICK next \in 0..1 : next = 1 - receiveDataBuffer /\ next # receiveDataBuffer
  BY <1>1
<1>3. /\ dataBuffers' = [dataBuffers EXCEPT ![receiveDataBuffer] = db,
                                           ![next] = Clear(dataBuffers[next])]
      /\ savedFrame' = receiveDataBuffer /\ receiveDataBuffer' = next
      /\ frameComplete' = TRUE /\ overrun' = (overrun \/ Copying) /\ UNCHANGED taken
  BY <1>2 DEF Deliver
<1>4. /\ dataBuffers'[receiveDataBuffer] = db
      /\ dataBuffers'[next] = Clear(dataBuffers[next])
  BY <1>1, <1>2, <1>3
<1>5. Clear(dataBuffers[next]).len = 0
  BY <1>1, ClearGrows
<1>. QED
  BY <1>1, <1>3, <1>4, <1>5 DEF Working

\* Nothing but a mark on the line, and no frame was missed.
LEMMA MarkEffect ==
    ASSUME FrameInv, TypeOK, met, LineMark
    PROVE  /\ line = <<>> /\ turned' = TRUE
           /\ receiveState' = receiveState
           /\ ~previousByteDLE' \/ (UNCHANGED previousByteDLE /\ receiveState = OutOfSync)
           /\ UNCHANGED <<dataBuffers, receiveDataBuffer, savedFrame, frameComplete,
                          taken, overrun, pc, frame, frameLen, x, env, line, current,
                          answer, met, latest, hostOut, result>>
<1>1. receiveState \in {OutOfSync, "IDLE"} /\ line = <<>>
  BY DEF FrameInv, OffLine, LineMark
<1>2. EngineTakes(PAD)
  BY DEF LineMark
<1>3. /\ receiveState' = receiveState
      /\ IF receiveState = "IDLE" THEN previousByteDLE' = FALSE
                                  ELSE UNCHANGED previousByteDLE
      /\ StoreNothing /\ UNCHANGED mainVars
  BY <1>1, <1>2, PadBetweenFrames
<1>4. UNCHANGED <<dataBuffers, receiveDataBuffer, savedFrame, frameComplete,
                  taken, overrun, pc, frame, frameLen, x>>
  BY <1>3 DEF StoreNothing, HandOverUnchanged, historyVars, mainVars
<1>. QED
  BY <1>1, <1>3, <1>4 DEF LineMark, hostVars

\* What the engine was not ready for says nothing of the frames.
LEMMA MissedKeepsFrameInv ==
    ASSUME ~met', latest' = NoAnswer,
           (~Copying => x = 0)',
           (pc \in {"load", "clear", "hunt", "wait", "flag", "take"} => hostOut = <<>>)'
    PROVE  FrameInv'
BY DEF FrameInv, OnLine, OffLine, LatestSaved, HostSoFar

\* The line, while the engine is out of step.
LEMMA MissedLineKeepsFrameInv ==
    ASSUME FrameInv, ~met, Line
    PROVE  FrameInv' /\ ~met'
<1>1. HostSoFar /\ latest = NoAnswer
  BY DEF FrameInv, LatestSaved
<1>2. /\ ~met' /\ latest' = NoAnswer /\ UNCHANGED hostOut
      /\ UNCHANGED vars \/ EngineGarbles \/ EngineTakes(PAD)
  BY <1>1 DEF Line, LineByte, LineMark, GarbledByte, lineVars, hostVars
<1>3. UNCHANGED mainVars
  BY <1>2 DEF EngineGarbles, EngineTakes, SyncFound, ProcessByte, vars
<1>4. UNCHANGED <<pc, x>> /\ Copying' = Copying
  BY <1>3 DEF mainVars, Copying
<1>. QED
  BY <1>1, <1>2, <1>4, MissedKeepsFrameInv DEF HostSoFar

\* A character of a frame.
LEMMA LineByteKeepsFrameInv ==
    ASSUME KnownFrames, IndInv, LinkTypeOK, FrameInv, met, LineByte
    PROVE  FrameInv'
<1>. PICK f, n, i : f = current /\ n = Len(current.wire) /\ i = Position + 1
  OBVIOUS
<1>0. OnLine /\ OffLine /\ LatestSaved /\ HostSoFar
  BY DEF FrameInv
<1>1. /\ f \in Frames /\ WellFormed(f, MaxData)
      /\ n \in Nat /\ n >= 5
      /\ Position \in 0..(n - 1) /\ i \in 1..n
      /\ Len(line') = Len(line) - 1
      /\ \A j \in 1..Len(line') : line'[j] = line[j + 1]
      /\ line' = <<>> <=> i = n
      /\ line' # <<>> => Position' = i
      /\ turned' = FALSE
      /\ IF line' = <<>> THEN latest' = f ELSE UNCHANGED <<latest, current>>
      /\ met' /\ UNCHANGED <<env, hostOut, result>>
  BY <1>0, LineOfFrame
<1>2. TypeOK /\ BuffersApart /\ savedFrame \in 0..1 \union {NULL}
  BY DEF IndInv, TypeOK
<1>3. /\ UNCHANGED <<pc, frame, frameLen, x>>
      /\ Copying' = Copying /\ Preparing' = Preparing
  <2>1. UNCHANGED mainVars
    BY <1>0, LineByteEffect
  <2>. QED
    BY <2>1 DEF mainVars, Copying, Preparing
<1>4. line # <<>> /\ ~Preparing
  BY <1>0 DEF LineByte, OnLine
<1>6. line' # <<>> => \A j \in 1..Len(line') : line'[j] = f.wire[Position' + j]
  <2>1. Len(line) \in Nat /\ \A j \in 1..Len(line) : line[j] = f.wire[Position + j]
    BY <1>0, <1>4 DEF OnLine, LinkTypeOK
  <2>. QED
    BY <1>1, <2>1
<1>7. ASSUME UNCHANGED <<savedFrame, taken, overrun>>, line' # <<>>,
             savedFrame # NULL => dataBuffers'[savedFrame] = dataBuffers[savedFrame]
      PROVE  LatestSaved' /\ HostSoFar'
  <2>1. latest' = latest /\ met
    BY <1>1, <1>7
  <2>. QED
    BY <1>0, <1>1, <1>3, <1>7, <2>1 DEF LatestSaved, HostSoFar, Copying
<1>8. OffLine' \/ line' = <<>>
  BY DEF OffLine
<1>9. CASE /\ Position = 0
           /\ receiveState' = receiveState /\ ~previousByteDLE'
           /\ BeforeFrame
           /\ StoreNothing
  <2>1. /\ UNCHANGED <<dataBuffers, receiveDataBuffer, savedFrame, taken, overrun>>
        /\ Working' = Working
    BY <1>9 DEF StoreNothing, HandOverUnchanged, historyVars, Working
  <2>2. line' # <<>> /\ Position' = 1 /\ 1 \in 0..(n - 1)
    <3>1. i = 1
      BY <1>9
    <3>. QED
      BY <1>1, <3>1
  <2>3. BeforeFrame'
    BY <1>9, <2>1 DEF BeforeFrame
  <2>4. OnLine'
    BY <1>1, <1>3, <1>4, <1>6, <1>9, <2>2, <2>3 DEF OnLine
  <2>. QED
    BY <1>7, <1>8, <2>1, <2>2, <2>4 DEF FrameInv
<1>10. CASE /\ Position >= 1 /\ i < n
            /\ TakesChar(f, i)
            /\ Holds(BufferAfter(f, i, Working), f.stored, Written(f, i))
  <2>1. /\ Working' = BufferAfter(f, i, Working)
        /\ \A k \in 0..1 : k # receiveDataBuffer => dataBuffers'[k] = dataBuffers[k]
        /\ UNCHANGED <<receiveDataBuffer, savedFrame, taken, overrun>>
    BY <1>2, <1>10, StoreEffect DEF TakesChar
  <2>2. line' # <<>> /\ i \in 0..(n - 1) /\ i >= 2
    BY <1>1, <1>10
  <2>3. InFrame(f, i)'
    BY <1>10, <2>1 DEF InFrame, TakesChar
  <2>4. OnLine'
    BY <1>1, <1>3, <1>4, <1>6, <2>2, <2>3 DEF OnLine
  <2>5. savedFrame # NULL => dataBuffers'[savedFrame] = dataBuffers[savedFrame]
    BY <1>2, <2>1 DEF BuffersApart
  <2>. QED
    BY <1>7, <1>8, <2>1, <2>2, <2>4, <2>5 DEF FrameInv
<1>11. CASE /\ i = n
            /\ receiveState' = "IDLE"
            /\ Deliver(BufferAfter(f, n, Working))
            /\ Holds(BufferAfter(f, n, Working), f.stored, Len(f.stored))
  <2>1. /\ line' = <<>> /\ latest' = f /\ turned' = FALSE
    BY <1>1, <1>11
  <2>2. /\ dataBuffers'[savedFrame'] = BufferAfter(f, n, Working)
        /\ Working'.len = 0
        /\ overrun' = (overrun \/ Copying)
    BY <1>2, <1>11, DeliverEffect
  <2>3. OnLine' /\ OffLine'
    BY <1>3, <1>4, <1>11, <2>1, <2>2 DEF OnLine, OffLine, OutOfSync, Preparing
  <2>4. LatestSaved'
    <3>1. savedFrame' \in 0..1
      BY <1>2, <1>11, DeliverEffect
    <3>2. savedFrame' # NULL
      BY <3>1 DEF NULL
    <3>. QED
      BY <1>1, <1>11, <2>1, <2>2, <3>2 DEF LatestSaved
  <2>5. HostSoFar'
    <3>1. Copying' => overrun'
      BY <1>3, <2>2
    <3>. QED
      BY <1>0, <1>1, <1>3, <3>1 DEF HostSoFar
  <2>. QED
    BY <2>3, <2>4, <2>5 DEF FrameInv
<1>. QED
  BY <1>0, <1>9, <1>10, <1>11, LineByteEffect

\* A mark after a frame, or before the first one.
LEMMA MarkKeepsFrameInv ==
    ASSUME IndInv, FrameInv, met, LineMark
    PROVE  FrameInv'
<1>0. OnLine /\ OffLine /\ LatestSaved /\ HostSoFar /\ TypeOK
  BY DEF FrameInv, IndInv
<1>1. /\ line = <<>> /\ turned' = TRUE
      /\ receiveState' = receiveState
      /\ UNCHANGED <<dataBuffers, receiveDataBuffer, savedFrame, frameComplete,
                     taken, overrun, pc, frame, frameLen, x, line, met,
                     latest, hostOut>>
  BY <1>0, MarkEffect
<1>2. OnLine' /\ LatestSaved' /\ HostSoFar'
  BY <1>0, <1>1 DEF OnLine, LatestSaved, HostSoFar, Copying
<1>3. ~previousByteDLE'
  <2>1. ~previousByteDLE' \/ (UNCHANGED previousByteDLE /\ receiveState = OutOfSync)
    BY <1>0, MarkEffect
  <2>2. receiveState = OutOfSync => ~previousByteDLE
    BY <1>0, <1>1 DEF OffLine
  <2>. QED
    BY <2>1, <2>2
<1>4. OffLine'
  BY <1>0, <1>1, <1>3 DEF OffLine, Working
<1>. QED
  BY <1>2, <1>4 DEF FrameInv

\* The beginning of a frame, which the engine is ready for or not.
LEMMA TransmitKeepsFrameInv ==
    ASSUME KnownFrames, IndInv, LinkTypeOK, FrameInv, NEW f \in Frames, Transmit(f)
    PROVE  FrameInv'
<1>0. OnLine /\ OffLine /\ LatestSaved /\ HostSoFar /\ TypeOK
  BY DEF FrameInv, IndInv
<1>1. /\ line = <<>> /\ line' = f.wire /\ current' = f
      /\ latest' = IF met' THEN latest ELSE NoAnswer
      /\ met' \in BOOLEAN /\ met' => Ready
      /\ UNCHANGED <<receiveState, previousByteDLE, dataBuffers, receiveDataBuffer,
                     savedFrame, pc, frame, frameLen, x, taken, overrun, turned,
                     hostOut>>
  BY DEF Transmit, vars, engineVars, mainVars, historyVars, hostVars
<1>2. Working' = Working /\ Preparing' = Preparing /\ Copying' = Copying
  BY <1>1 DEF Working, Preparing, Copying
<1>3. CASE met'
  <2>1. BeforeFrame' /\ ~Preparing'
    BY <1>1, <1>2, <1>3 DEF Ready, BeforeFrame
  <2>2. /\ f.wire \in Seq(Byte) /\ Len(f.wire) \in Nat /\ Len(f.wire) >= 5
        /\ f.wire # <<>>
    BY KindsApart DEF KnownFrames
  <2>3. Position' = 0
    BY <1>1, <2>2 DEF Position
  <2>4. OnLine' /\ OffLine'
    BY <1>1, <2>1, <2>2, <2>3 DEF OnLine, OffLine
  <2>5. LatestSaved' /\ HostSoFar'
    BY <1>0, <1>1, <1>2, <1>3 DEF LatestSaved, HostSoFar
  <2>. QED
    BY <2>4, <2>5 DEF FrameInv
<1>4. CASE ~met'
  BY <1>0, <1>1, <1>2, <1>4, MissedKeepsFrameInv DEF HostSoFar
<1>. QED
  BY <1>1, <1>3, <1>4

\* The steps of the host and of the main loop that only look at the engine,
\* or change its flag: the line and the buffers stay as they are.
LEMMA QuietStepKeepsFrameInv ==
    ASSUME FrameInv, ~Preparing',
           UNCHANGED <<receiveState, previousByteDLE, dataBuffers, receiveDataBuffer,
                       savedFrame, lineVars>>,
           HostSoFar'
    PROVE  FrameInv'
<1>0. OnLine /\ OffLine /\ LatestSaved
  BY DEF FrameInv
<1>1. /\ UNCHANGED <<line, current, turned, met, latest>>
      /\ Working' = Working /\ Position' = Position
  BY DEF Working, Position, lineVars
<1>2. OnLine'
  BY <1>0, <1>1 DEF OnLine, BeforeFrame, InFrame
<1>3. OffLine' /\ LatestSaved'
  BY <1>0, <1>1 DEF OffLine, LatestSaved, Preparing
<1>. QED
  BY <1>2, <1>3 DEF FrameInv

\* The next command, and a read that expires.
LEMMA CommandKeepsFrameInv ==
    ASSUME FrameInv, WriteCommand \/ WriteReadCommand \/ ReadExpires
    PROVE  FrameInv'
<1>0. HostSoFar
  BY DEF FrameInv
<1>1. CASE WriteCommand \/ WriteReadCommand
  <2>1. /\ pc = "idle" /\ hostOut' = <<>> /\ pc' \in {"idle", "load"}
        /\ UNCHANGED lineVars
    BY <1>1 DEF WriteCommand, WriteReadCommand, Poll, StartRead, vars, mainVars
  <2>2. UNCHANGED <<receiveState, previousByteDLE, dataBuffers, receiveDataBuffer,
                    savedFrame, x>>
    BY <1>1 DEF WriteCommand, WriteReadCommand, StartRead, vars, mainVars, engineVars
  <2>3. HostSoFar' /\ ~Preparing'
    BY <1>0, <2>1, <2>2 DEF HostSoFar, Copying, Preparing
  <2>. QED
    BY <2>1, <2>2, <2>3, QuietStepKeepsFrameInv
<1>2. CASE ReadExpires
  <2>1. /\ pc = "wait" /\ pc' = "idle"
        /\ UNCHANGED <<receiveState, previousByteDLE, dataBuffers, receiveDataBuffer,
                       savedFrame, x, hostOut, lineVars>>
    BY <1>2 DEF ReadExpires, WaitExpires, engineVars
  <2>2. HostSoFar' /\ ~Preparing'
    BY <1>0, <2>1 DEF HostSoFar, Copying, Preparing
  <2>. QED
    BY <2>1, <2>2, QuietStepKeepsFrameInv
<1>. QED
  BY <1>1, <1>2

\* startReceiving() at rest, and in the middle of a frame.
LEMMA PrepareKeepsFrameInv ==
    ASSUME IndInv, FrameInv, PrepareStep
    PROVE  FrameInv'
<1>0. /\ OnLine /\ OffLine /\ LatestSaved /\ HostSoFar
      /\ TypeOK /\ BuffersApart
  BY DEF FrameInv, IndInv
<1>1. /\ pc \in {"load", "clear", "hunt"} /\ pc' \in {"clear", "hunt", "wait"}
      /\ UNCHANGED <<previousByteDLE, receiveDataBuffer, savedFrame, x, taken, overrun,
                     line, current, turned, hostOut>>
      /\ IF Quiet THEN UNCHANGED <<met, latest>> ELSE ~met' /\ latest' = NoAnswer
  BY DEF PrepareStep, LoadReceiveBuffer, ClearReceiveBuffer, EnterHunt, engineVars,
     historyVars, hostVars
<1>2. (~Copying => x = 0)' /\ hostOut' = <<>> /\ ~Copying'
  BY <1>0, <1>1 DEF HostSoFar, Copying
<1>3. CASE ~Quiet \/ ~met
  BY <1>0, <1>1, <1>2, <1>3, MissedKeepsFrameInv DEF LatestSaved
<1>4. CASE Quiet /\ met
  <2>1. /\ line = <<>> /\ turned /\ met' /\ latest' = latest
        /\ receiveState \in {OutOfSync, "IDLE"} /\ Working.len = 0 /\ ~previousByteDLE
    BY <1>0, <1>1, <1>4 DEF OffLine, Quiet
  <2>2. OnLine' /\ HostSoFar'
    BY <1>1, <1>2, <2>1 DEF OnLine, HostSoFar
  <2>3. CASE LoadReceiveBuffer
    <3>1. /\ frame' = receiveDataBuffer /\ UNCHANGED <<receiveState, dataBuffers>>
      BY <2>3 DEF LoadReceiveBuffer, engineVars
    <3>. QED
      BY <1>0, <1>1, <2>1, <2>2, <3>1 DEF FrameInv, OffLine, LatestSaved, Working
  <2>4. CASE ClearReceiveBuffer
    <3>1. /\ pc' = "hunt" /\ frame = receiveDataBuffer /\ receiveState' = receiveState
          /\ dataBuffers' = [dataBuffers EXCEPT ![frame] = Clear(dataBuffers[frame])]
      BY <1>0, <2>1, <1>4, <2>4 DEF ClearReceiveBuffer, OffLine
    <3>2. Working'.len = 0
      BY <1>0, <1>1, <3>1 DEF TypeOK, Working, Clear
    <3>3. savedFrame # NULL => dataBuffers'[savedFrame] = dataBuffers[savedFrame]
      BY <1>0, <3>1 DEF TypeOK, BuffersApart
    <3>. QED
      BY <1>0, <1>1, <2>1, <2>2, <3>1, <3>2, <3>3 DEF FrameInv, OffLine, LatestSaved
  <2>5. CASE EnterHunt
    <3>1. pc' = "wait" /\ receiveState' = OutOfSync /\ UNCHANGED dataBuffers
      BY <2>5 DEF EnterHunt
    <3>. QED
      BY <1>0, <1>1, <2>1, <2>2, <3>1 DEF FrameInv, OffLine, LatestSaved, Working
  <2>. QED
    BY <2>3, <2>4, <2>5 DEF PrepareStep
<1>. QED
  BY <1>3, <1>4

\* The frame is copied as it was taken while no later one completes.
LEMMA CopyOfLatest ==
    ASSUME IndInv, LinkTypeOK, KnownFrames, HostSoFar, Copying, ~overrun,
           latest # NoAnswer
    PROVE  /\ dataBuffers[frame] = taken
           /\ taken.len = Len(latest.stored)
           /\ taken.len \in 0..MaxData
           /\ \A k \in 0..(taken.len - 1) : taken.buff[k] = latest.stored[k + 1]
<1>1. dataBuffers[frame] = taken
  BY DEF IndInv, FrameIntact
<1>2. latest \in Frames /\ Holds(taken, latest.stored, Len(latest.stored))
  BY DEF HostSoFar, LinkTypeOK
<1>3. Len(latest.stored) \in Nat /\ Len(latest.stored) <= MaxData
  <2>1. IsStored(latest, MaxData)
    BY <1>2 DEF KnownFrames, WellFormed
  <2>2. latest.stored \in Seq(Byte)
    BY <2>1 DEF IsStored
  <2>3. Len(latest.stored) = IF KeptUpTo(latest, Len(latest.wire)) <= MaxData
                             THEN KeptUpTo(latest, Len(latest.wire)) ELSE MaxData
    BY <2>1 DEF IsStored
  <2>. QED
    BY <2>2, <2>3, MaxDataAssumption
<1>4. taken.len = Len(latest.stored)
  BY <1>2, <1>3 DEF Holds
<1>. QED
  BY <1>1, <1>2, <1>3, <1>4 DEF Holds

\* The main loop between the wait and the end of the response.
LEMMA MainKeepsFrameInv ==
    ASSUME KnownFrames, IndInv, LinkTypeOK, FrameInv,
           ReadStep \/ HostGetsByte \/ HostGetsEnd
    PROVE  FrameInv'
<1>0. /\ OnLine /\ OffLine /\ LatestSaved /\ HostSoFar
      /\ TypeOK /\ BuffersApart /\ FlagMeansSaved
  BY DEF FrameInv, IndInv
<1>1. CASE (FrameSeen \/ ResetFlag) /\ ReadStep
  <2>1. /\ pc \in {"wait", "flag"} /\ pc' \in {"flag", "take"}
        /\ UNCHANGED <<receiveState, previousByteDLE, dataBuffers, receiveDataBuffer,
                       savedFrame, lineVars, x, taken, overrun, frameLen, hostOut>>
    BY <1>1
    DEF FrameSeen, ResetFlag, ReadStep, engineVars, historyVars, hostVars
  <2>2. HostSoFar'
    BY <1>0, <2>1 DEF HostSoFar, Copying
  <2>3. ~Preparing'
    BY <2>1 DEF Preparing
  <2>. QED
    BY <2>1, <2>2, <2>3, QuietStepKeepsFrameInv
<1>2. CASE TakeFrame /\ ReadStep
  <2>1. /\ pc = "take" /\ pc' \in {"length", "test"}
        /\ taken' = dataBuffers[savedFrame] /\ x' = x
        /\ UNCHANGED <<receiveState, previousByteDLE, dataBuffers, receiveDataBuffer,
                       savedFrame, lineVars, hostOut>>
    BY <1>2 DEF TakeFrame, ReadStep, engineVars, hostVars
  <2>2. /\ x = 0 /\ hostOut = <<>> /\ savedFrame # NULL
        /\ latest # NoAnswer => Holds(taken', latest.stored, Len(latest.stored))
        /\ taken'.len \in 0..MaxData
    BY <1>0, <2>1
    DEF HostSoFar, Copying, FlagMeansSaved, LatestSaved, TypeOK, DataBuffers
  <2>3. HostSoFar'
    BY <2>1, <2>2, MaxDataAssumption DEF HostSoFar, Copying, lineVars
  <2>4. ~Preparing'
    BY <2>1 DEF Preparing
  <2>. QED
    BY <2>1, <2>3, <2>4, QuietStepKeepsFrameInv
<1>3. CASE (ReadLength \/ TestLength \/ GetInRange) /\ ReadStep
  <2>1. /\ pc = "length" /\ pc' = "send" /\ frameLen' = dataBuffers[frame].len
        \/ /\ \/ pc = "test" /\ pc' = "get"
              \/ pc = "get" /\ pc' = "cell"
           /\ x < dataBuffers[frame].len
           /\ frameLen' = frameLen
    BY <1>3 DEF ReadLength, TestLength, GetInRange
  <2>2. UNCHANGED <<receiveState, previousByteDLE, dataBuffers, receiveDataBuffer,
                    savedFrame, lineVars, x, taken, overrun, frame, hostOut>>
    BY <1>3 DEF ReadLength, TestLength, GetInRange, ReadStep, engineVars, historyVars,
       hostVars
  <2>3. Copying /\ Copying' /\ ~Preparing'
    BY <2>1 DEF Copying, Preparing
  <2>4. HostSoFar'
    <3>1. CASE overrun \/ latest = NoAnswer
      BY <2>1, <2>2, <2>3, <3>1 DEF HostSoFar, Copying, lineVars
    <3>2. CASE ~overrun /\ latest # NoAnswer
      <4>1. /\ dataBuffers[frame] = taken /\ taken.len \in 0..MaxData
        BY <1>0, <2>3, <3>2, CopyOfLatest
      <4>. QED
        BY <1>0, <2>1, <2>2, <3>2, <4>1, MaxDataAssumption
        DEF HostSoFar, Copying, TypeOK, lineVars
    <3>. QED
      BY <3>1, <3>2 DEF IndInv, TypeOK
  <2>. QED
    BY <2>1, <2>2, <2>3, <2>4, QuietStepKeepsFrameInv
<1>4. CASE HostGetsByte
  <2>1. /\ \/ pc = "send" /\ pc' = "send" /\ x < frameLen
           \/ pc = "get" /\ pc' = "test" /\ x >= dataBuffers[frame].len
           \/ pc = "cell" /\ pc' = "test"
        /\ x' = x + 1
    BY <1>4 DEF HostGetsByte, SendBinaryByte, GetPastEnd, SendTextByte, NextTextByte
  <2>2. /\ hostOut' = Append(hostOut, HostByte)
        /\ UNCHANGED <<receiveState, previousByteDLE, dataBuffers, receiveDataBuffer,
                       savedFrame, lineVars,
                       taken, overrun, frameLen, frame>>
    BY <1>4 DEF HostGetsByte, SendBinaryByte, GetPastEnd, SendTextByte, NextTextByte,
       engineVars, historyVars
  <2>3. Copying /\ Copying' /\ ~Preparing'
    BY <2>1 DEF Copying, Preparing
  <2>4. HostSoFar'
    <3>1. CASE overrun \/ latest = NoAnswer
      BY <2>1, <2>2, <2>3, <3>1 DEF HostSoFar, Copying, lineVars
    <3>2. CASE ~overrun /\ latest # NoAnswer
      <4>1. /\ dataBuffers[frame] = taken /\ taken.len \in 0..MaxData
            /\ \A k \in 0..(taken.len - 1) : taken.buff[k] = latest.stored[k + 1]
        BY <1>0, <2>3, <3>2, CopyOfLatest
      <4>2. x \in Nat /\ x < taken.len /\ pc # "get"
        BY <1>0, <2>1, <2>3, <3>2, <4>1, MaxDataAssumption DEF HostSoFar, TypeOK
      <4>3. HostByte = latest.stored[x + 1]
        BY <2>1, <4>1, <4>2 DEF HostByte
      <4>4. /\ hostOut \in Seq(Byte \union {-1})
            /\ Len(hostOut) = x /\ \A k \in 1..x : hostOut[k] = latest.stored[k]
            /\ Holds(taken, latest.stored, Len(latest.stored))
            /\ pc = "send" => frameLen = taken.len
        BY <1>0, <2>3, <3>2 DEF HostSoFar, LinkTypeOK
      <4>5. HostByte \in Byte \union {-1}
        BY <1>4, HostGetsBytes DEF HostGetsByte
      <4>6. Len(hostOut') = x' /\ \A k \in 1..x' : hostOut'[k] = latest.stored[k]
        BY <2>1, <2>2, <4>2, <4>3, <4>4, <4>5
      <4>. QED
        BY <2>1, <2>2, <3>2, <4>1, <4>2, <4>4, <4>6 DEF HostSoFar, Copying, lineVars
    <3>. QED
      BY <3>1, <3>2 DEF IndInv, TypeOK
  <2>. QED
    BY <2>1, <2>2, <2>3, <2>4, QuietStepKeepsFrameInv
<1>5. CASE HostGetsEnd
  <2>1. /\ pc \in {"send", "test"} /\ pc' = "idle" /\ x' = 0
        /\ UNCHANGED <<receiveState, previousByteDLE, dataBuffers, receiveDataBuffer,
                       savedFrame, lineVars>>
    BY <1>5 DEF HostGetsEnd, BinaryDone, TextDone, ResponseDone, engineVars
  <2>2. HostSoFar'
    BY <2>1 DEF HostSoFar, Copying
  <2>3. ~Preparing'
    BY <2>1 DEF Preparing
  <2>. QED
    BY <2>1, <2>2, <2>3, QuietStepKeepsFrameInv
<1>. QED
  BY <1>1, <1>2, <1>3, <1>4, <1>5 DEF ReadStep

\* What the main loop shares with the interrupt changes with the last
\* character of a frame only.
LEMMA LineByteHandsOver ==
    ASSUME KnownFrames, IndInv, LinkTypeOK, FrameInv, met, LineByte
    PROVE  /\ line # <<>> /\ current \in Frames
           /\ UNCHANGED <<env, answer, met, pc, hostOut, result>>
           /\ line' # <<>> => UNCHANGED <<frameComplete, savedFrame, overrun, latest, current>>
           /\ line' = <<>> => /\ frameComplete' = TRUE
                             /\ overrun' = (overrun \/ Copying)
                             /\ latest' = current
<1>0. OnLine /\ TypeOK
  BY DEF FrameInv, IndInv
<1>1. /\ current \in Frames /\ line # <<>>
      /\ line' = <<>> <=> Position + 1 = Len(current.wire)
      /\ Len(current.wire) \in Nat /\ Len(current.wire) >= 5
      /\ Position \in 0..(Len(current.wire) - 1)
      /\ IF line' = <<>> THEN latest' = current ELSE UNCHANGED <<latest, current>>
      /\ UNCHANGED <<env, answer, met, hostOut, result>>
  BY <1>0, LineOfFrame DEF LineByte
<1>2. UNCHANGED mainVars
  BY <1>0, LineByteEffect
<1>3. pc' = pc
  BY <1>2 DEF mainVars
<1>4. ASSUME Position = 0, StoreNothing
      PROVE  UNCHANGED <<savedFrame, frameComplete, overrun>> /\ line' # <<>>
  <2>1. PICK n \in Nat : n = Len(current.wire) /\ n >= 5
    BY <1>1
  <2>2. Position + 1 = 1
    BY <1>4
  <2>3. Position + 1 # n
    BY <2>1, <2>2
  <2>. QED
    BY <1>1, <1>4, <2>1, <2>3 DEF StoreNothing, HandOverUnchanged, historyVars
<1>5. ASSUME Position + 1 < Len(current.wire), NEW db, Store(db)
      PROVE  UNCHANGED <<savedFrame, frameComplete, overrun>> /\ line' # <<>>
  <2>1. Position + 1 # Len(current.wire)
    BY <1>1, <1>5
  <2>. QED
    BY <1>0, <1>1, <1>5, <2>1, StoreEffect
<1>6. ASSUME Position + 1 = Len(current.wire), NEW db, Deliver(db)
      PROVE  /\ frameComplete' = TRUE
             /\ overrun' = (overrun \/ Copying)
             /\ line' = <<>>
  BY <1>0, <1>1, <1>6, DeliverEffect
<1>. QED
  BY <1>0, <1>1, <1>3, <1>4, <1>5, <1>6, LineByteEffect DEF TakesChar

\* When the copy ends the host has the whole frame.
LEMMA WholeFrameCopied ==
    ASSUME KnownFrames, IndInv, LinkTypeOK, HostSoFar, HostGetsEnd, ~overrun,
           latest # NoAnswer
    PROVE  hostOut = latest.stored
<1>1. /\ \/ pc = "send" /\ x >= frameLen
         \/ pc = "test" /\ x >= dataBuffers[frame].len
      /\ Copying /\ x \in Nat
  BY MaxDataAssumption
  DEF HostGetsEnd, BinaryDone, TextDone, Copying, IndInv, TypeOK
<1>2. /\ dataBuffers[frame] = taken /\ taken.len = Len(latest.stored)
      /\ taken.len \in 0..MaxData
  BY <1>1, CopyOfLatest
<1>3. /\ Len(hostOut) = x
      /\ \A k \in 1..x : hostOut[k] = latest.stored[k]
      /\ pc = "send" => frameLen = taken.len /\ x <= frameLen
      /\ pc = "test" => x <= taken.len
  BY <1>1 DEF HostSoFar
<1>4. Len(hostOut) = Len(latest.stored)
  BY <1>1, <1>2, <1>3
<1>5. latest \in Frames
  BY DEF LinkTypeOK
<1>6. hostOut \in Seq(Byte \union {-1}) /\ latest.stored \in Seq(LineBytes)
  BY <1>5, LinkAssumption DEF LinkTypeOK
<1>. QED
  BY <1>3, <1>4, <1>6

\* startReceiving(), while the station is punctual: the line is quiet.
LEMMA PrepareKeepsPunctualInv ==
    ASSUME IndInv, FrameInv, PunctualInv, PrepareStep
    PROVE  PunctualInv'
<1>. SUFFICES ASSUME Punctual'
              PROVE  PunctualInv'
  BY DEF PunctualInv
<1>1. /\ UNCHANGED <<env, line, answer, current, turned, frameComplete, overrun,
                     hostOut, result>>
      /\ pc = "load" \/ Preparing
      /\ pc' \in {"clear", "hunt", "wait"}
      /\ pc' = "wait" => receiveState' = OutOfSync
      /\ IF Quiet THEN UNCHANGED <<met, latest>> ELSE met' = FALSE /\ latest' = NoAnswer
  BY DEF PrepareStep, LoadReceiveBuffer, ClearReceiveBuffer, EnterHunt, Preparing,
     engineVars, historyVars, hostVars
<1>2. Punctual /\ Quiet' = Quiet
  BY <1>1 DEF Punctual, Quiet
<1>3. Quiet /\ UNCHANGED <<met, latest>>
  BY <1>1, <1>2 DEF PunctualInv
<1>4. answer = NoAnswer /\ pc # "idle"
  BY <1>1, <1>2, <1>3 DEF PunctualInv, Quiet, Preparing
<1>. QED
  BY <1>1, <1>2, <1>3, <1>4 DEF PunctualInv, Preparing, Quiet

\* The steps of the main loop, and the host, while the station is punctual.
LEMMA ReadKeepsPunctualInv ==
    ASSUME KnownFrames, IndInv, LinkTypeOK, FrameInv, PunctualInv,
           ReadStep \/ ReadExpires \/ HostGetsByte \/ HostGetsEnd
    PROVE  PunctualInv'
<1>. SUFFICES ASSUME Punctual'
              PROVE  PunctualInv'
  BY DEF PunctualInv
<1>0. /\ UNCHANGED <<env, line, answer, current, turned, met, latest>>
      /\ Punctual /\ Quiet' = Quiet
  BY DEF ReadStep, ReadExpires, HostGetsByte, HostGetsEnd, lineVars, Punctual, Quiet
<1>1. /\ frameComplete \in BOOLEAN /\ overrun \in BOOLEAN
      /\ x \in Nat
  BY MaxDataAssumption DEF IndInv, TypeOK
<1>2. CASE ReadStep
  <2>1. UNCHANGED <<hostOut, result, overrun>> \/ (UNCHANGED <<hostOut, result>> /\ ~overrun')
    BY <1>2 DEF ReadStep, hostVars, FrameSeen, ResetFlag, TakeFrame, ReadLength,
       TestLength, GetInRange, engineVars, historyVars
  <2>3. CASE FrameSeen \/ ResetFlag
    <3>1. \/ pc = "wait" /\ frameComplete /\ pc' = "flag" /\ UNCHANGED frameComplete
          \/ pc = "flag" /\ pc' = "take" /\ ~frameComplete'
      BY <2>3 DEF FrameSeen, ResetFlag, engineVars
    <3>. QED
      BY <1>0, <1>1, <2>1, <3>1 DEF PunctualInv, Preparing
  <2>4. CASE TakeFrame \/ ReadLength \/ TestLength \/ GetInRange
    <3>1. /\ pc \in {"take", "length", "test", "get"}
          /\ pc' \in {"length", "test", "send", "get", "cell"}
          /\ UNCHANGED frameComplete
      BY <2>4 DEF TakeFrame, ReadLength, TestLength, GetInRange, engineVars
    <3>. QED
      BY <1>0, <1>1, <2>1, <3>1 DEF PunctualInv, Preparing
  <2>. QED
    BY <1>2, <2>3, <2>4 DEF ReadStep
<1>3. CASE ReadExpires
  <2>1. /\ pc = "wait" /\ pc' = "idle" /\ ~frameComplete /\ line = <<>>
        /\ result' = "timeout" /\ UNCHANGED <<frameComplete, overrun>>
    BY <1>0, <1>3 DEF ReadExpires, WaitExpires, Punctual, engineVars, historyVars
  <2>. QED
    BY <1>0, <1>1, <2>1 DEF PunctualInv, Preparing
<1>4. CASE HostGetsByte
  <2>1. /\ pc \in {"send", "get", "cell"} /\ pc' \in {"send", "test"}
        /\ UNCHANGED <<frameComplete, overrun, result>>
    BY <1>4 DEF HostGetsByte, SendBinaryByte, SendTextByte, GetPastEnd, NextTextByte,
       engineVars, historyVars
  <2>. QED
    BY <1>0, <1>1, <2>1 DEF PunctualInv, Preparing
<1>5. CASE HostGetsEnd
  <2>1. /\ pc \in {"send", "test"}
        /\ pc' = "idle" /\ result' = "sent" /\ overrun' = FALSE
        /\ UNCHANGED <<frameComplete, hostOut>>
    BY <1>5 DEF HostGetsEnd, BinaryDone, TextDone, ResponseDone, engineVars
  <2>2. /\ ~overrun /\ Copying /\ answer # NoAnswer /\ line = <<>>
        /\ latest = answer /\ ~frameComplete
    BY <1>0, <2>1 DEF PunctualInv, Preparing, Copying
  <2>3. hostOut = latest.stored
    BY <1>5, <2>2, WholeFrameCopied DEF FrameInv
  <2>. QED
    BY <1>0, <1>1, <2>1, <2>2, <2>3 DEF PunctualInv, Preparing
<1>. QED
  BY <1>2, <1>3, <1>4, <1>5

\* The line and the polls, while the station is punctual.
LEMMA LineKeepsPunctualInv ==
    ASSUME KnownFrames, IndInv, LinkTypeOK, FrameInv, PunctualInv,
           \/ Line \/ WriteCommand \/ WriteReadCommand
           \/ \E f \in Frames : Transmit(f)
    PROVE  PunctualInv'
<1>. SUFFICES ASSUME Punctual'
              PROVE  PunctualInv'
  BY DEF PunctualInv
<1>0. Punctual /\ met
  <2>1. env' = env
    BY DEF Line, LineByte, LineMark, GarbledByte, WriteCommand, WriteReadCommand, Poll,
       Transmit
  <2>. QED
    BY <2>1 DEF Punctual, PunctualInv
<1>1. CASE LineByte
  <2>1. line # <<>> /\ current = answer /\ answer \in Frames /\ answer # NoAnswer
    BY <1>0, <1>1, LineByteHandsOver, LinkAssumption DEF PunctualInv
  <2>2. pc = "wait" /\ ~frameComplete /\ ~overrun /\ ~Copying
    BY <1>0, <2>1 DEF PunctualInv, Copying
  <2>. QED
    BY <1>0, <1>1, <2>1, <2>2, LineByteHandsOver DEF PunctualInv, Preparing
<1>2. CASE LineMark
  <2>1. /\ UNCHANGED <<frameComplete, overrun, pc, env, line, current, answer, met,
                       receiveState, latest, hostOut, result>>
        /\ turned' = TRUE
    BY <1>0, <1>2, MarkEffect DEF IndInv
  <2>. QED
    BY <1>0, <2>1 DEF PunctualInv, Preparing, Quiet
<1>3. CASE WriteCommand \/ WriteReadCommand
  <2>1. /\ pc = "idle" /\ Quiet /\ pc' \in {"idle", "load"}
        /\ answer' = NoAnswer /\ result' = "none" /\ UNCHANGED <<line, turned, met>>
        /\ UNCHANGED <<frameComplete, overrun>>
    BY <1>0, <1>3 DEF WriteCommand, WriteReadCommand, Poll, lineVars, StartRead,
       vars, mainVars, engineVars, historyVars, Punctual
  <2>2. ~frameComplete /\ ~overrun
    BY <1>0, <2>1 DEF PunctualInv, Quiet
  <2>. QED
    BY <1>0, <2>1, <2>2 DEF PunctualInv, Preparing, Quiet
<1>4. ASSUME NEW f \in Frames, Transmit(f)
      PROVE  PunctualInv'
  <2>1. /\ line' = f.wire /\ f.wire # <<>> /\ f # NoAnswer /\ answer' = f /\ current' = f
        /\ pc \in env.answering /\ answer = NoAnswer
        /\ UNCHANGED <<frameComplete, overrun, pc, env, result, turned>>
    BY <1>4, KindsApart, LinkAssumption
    DEF Transmit, vars, engineVars, mainVars, historyVars, hostVars, KnownFrames
  <2>2. pc = "wait" /\ Quiet /\ receiveState = OutOfSync /\ ~frameComplete
    BY <1>0, <2>1 DEF Punctual, PunctualInv
  <2>3. Ready
    BY <1>0, <2>2 DEF Ready, BeforeFrame, FrameInv, OffLine, Quiet, Preparing
  <2>4. met'
    BY <1>4, <2>2, <2>3 DEF Transmit
  <2>. QED
    BY <1>0, <2>1, <2>2, <2>4 DEF PunctualInv, Preparing
<1>5. ~GarbledByte
  BY <1>0 DEF GarbledByte
<1>. QED
  BY <1>1, <1>2, <1>3, <1>4, <1>5 DEF Line

-----------------------------------------------------------------------------
(***************************************************************************)
(* Together.                                                               *)
(***************************************************************************)

\* The invariant holds at first.
LEMMA ReadAtFirst == LinkInit => ReadInv
<1>. SUFFICES ASSUME LinkInit PROVE ReadInv
  OBVIOUS
<1>1. IndInv /\ LinkTypeOK
  BY LinkAtFirst
<1>2. /\ receiveState = OutOfSync /\ previousByteDLE = FALSE /\ Working.len = 0
      /\ savedFrame = NULL /\ frameComplete = FALSE /\ pc = "idle" /\ x = 0
      /\ overrun = FALSE /\ line = <<>> /\ answer = NoAnswer /\ turned = TRUE
      /\ met = TRUE /\ hostOut = <<>> /\ result = "none" /\ latest = NoAnswer
  BY DEF LinkInit, Init, Working, NewDataBuffer
<1>3. OnLine /\ OffLine /\ LatestSaved /\ HostSoFar
  BY <1>2 DEF OnLine, OffLine, LatestSaved, HostSoFar, Preparing, Copying
<1>4. PunctualInv
  BY <1>2 DEF PunctualInv, Preparing, Quiet
<1>. QED
  BY <1>1, <1>3, <1>4 DEF ReadInv, FrameInv

\* Nothing happens.
LEMMA IdleKeepsFrameInv ==
    ASSUME FrameInv, PunctualInv, UNCHANGED linkVars
    PROVE  FrameInv' /\ PunctualInv'
<1>1. UNCHANGED <<receiveState, previousByteDLE, dataBuffers, receiveDataBuffer,
                  savedFrame, frameComplete, pc, frame, frameLen, x, taken, overrun,
                  env, line, current, answer, turned, met, hostOut, result, latest>>
  BY DEF linkVars, vars, engineVars, mainVars, historyVars, lineVars, hostVars
<1>2. /\ Working' = Working /\ Position' = Position /\ Copying' = Copying
      /\ Preparing' = Preparing /\ Quiet' = Quiet
  BY <1>1 DEF Working, Position, Copying, Preparing, Quiet
<1>3. OnLine' /\ OffLine'
  BY <1>1, <1>2 DEF FrameInv, OnLine, OffLine, BeforeFrame, InFrame
<1>4. LatestSaved' /\ HostSoFar'
  BY <1>1, <1>2 DEF FrameInv, LatestSaved, HostSoFar
<1>5. PunctualInv'
  BY <1>1, <1>2 DEF PunctualInv, Punctual
<1>. QED
  BY <1>3, <1>4, <1>5 DEF FrameInv

\* Every step of the link keeps it.
LEMMA ReadNext == ReadInv /\ [LinkNext]_linkVars => ReadInv'
<1>. SUFFICES ASSUME ReadInv, [LinkNext]_linkVars
              PROVE  ReadInv'
  OBVIOUS
<1>1. IndInv /\ LinkTypeOK /\ IndInv' /\ LinkTypeOK'
  BY LinkNextInv DEF ReadInv
<1>2. ASSUME KnownFrames
      PROVE  FrameInv' /\ PunctualInv'
  <2>0. FrameInv /\ PunctualInv /\ (Punctual => met)
    BY <1>2 DEF ReadInv, PunctualInv
  <2>1. CASE Line
    <3>1. PunctualInv'
      BY <1>1, <1>2, <2>0, <2>1, LineKeepsPunctualInv
    <3>2. CASE met
      <4>1. ~GarbledByte
        BY <3>2 DEF GarbledByte
      <4>. QED
        BY <1>1, <1>2, <2>0, <2>1, <3>1, <3>2, <4>1, LineByteKeepsFrameInv,
           MarkKeepsFrameInv DEF Line
    <3>3. CASE ~met
      BY <2>0, <2>1, <3>1, <3>3, MissedLineKeepsFrameInv
    <3>. QED
      BY <3>2, <3>3
  <2>2. CASE \E f \in Frames : Transmit(f)
    BY <1>1, <1>2, <2>0, <2>2, TransmitKeepsFrameInv, LineKeepsPunctualInv
  <2>3. CASE WriteCommand \/ WriteReadCommand
    BY <1>1, <1>2, <2>0, <2>3, CommandKeepsFrameInv, LineKeepsPunctualInv
  <2>4. CASE ReadExpires
    BY <1>1, <1>2, <2>0, <2>4, CommandKeepsFrameInv, ReadKeepsPunctualInv
  <2>5. CASE PrepareStep
    BY <1>1, <2>0, <2>5, PrepareKeepsFrameInv, PrepareKeepsPunctualInv
  <2>6. CASE ReadStep \/ HostGetsByte \/ HostGetsEnd
    BY <1>1, <1>2, <2>0, <2>6, MainKeepsFrameInv, ReadKeepsPunctualInv
  <2>7. CASE UNCHANGED linkVars
    BY <2>0, <2>7, IdleKeepsFrameInv
  <2>. QED
    BY <2>1, <2>2, <2>3, <2>4, <2>5, <2>6, <2>7 DEF LinkNext, MainLoop
<1>. QED
  BY <1>1, <1>2 DEF ReadInv, KnownFrames

\* It always holds.
LEMMA ReadInvariant == LinkSpec => []ReadInv
BY ReadAtFirst, ReadNext, PTL DEF LinkSpec

-----------------------------------------------------------------------------
(***************************************************************************)
(* The theorems.  Their hypothesis on the frames is that each of them is   *)
(* one of the five formats of StationFrames.                               *)
(***************************************************************************)

LEMMA PunctualReadsSafe ==
    ASSUME KnownFrames, ReadInv
    PROVE  ResponseExact /\ NoLostResponse
<1>1. PunctualInv
  BY DEF ReadInv
<1>2. ASSUME Punctual, result = "sent"
      PROVE  answer # NoAnswer /\ hostOut = answer.stored
  <2>1. pc = "idle" /\ answer # NoAnswer
    BY <1>1, <1>2 DEF PunctualInv
  <2>2. line = <<>>
    BY <1>1, <1>2, <2>1 DEF PunctualInv
  <2>. QED
    BY <1>1, <1>2, <2>1, <2>2 DEF PunctualInv
<1>3. NoLostResponse
  BY <1>1 DEF PunctualInv, NoLostResponse
<1>. QED
  BY <1>2, <1>3 DEF ResponseExact, ReadIsAnswer

\* A read of a punctual station gives the host that station's answer to the
\* last poll, character by character, for every set of frames of any length
\* and every buffer size, whatever was received before (processBit,
\* frameComplete, getSavedFrame, sendResponse).
THEOREM ResponsesExact ==
    ASSUME KnownFrames
    PROVE  LinkSpec => []ResponseExact
<1>1. ReadInv => ResponseExact
  BY PunctualReadsSafe
<1>. QED
  BY <1>1, ReadInvariant, PTL

\* A read of a punctual station times out only when the station was silent.
THEOREM NoResponseLost ==
    ASSUME KnownFrames
    PROVE  LinkSpec => []NoLostResponse
<1>1. ReadInv => NoLostResponse
  BY PunctualReadsSafe
<1>. QED
  BY <1>1, ReadInvariant, PTL

LEMMA QuietFollows ==
    ASSUME KnownFrames, ReadInv
    PROVE  QuietBetweenFrames
<1>1. FrameInv /\ LinkTypeOK
  BY DEF ReadInv
<1>2. CASE line = <<>>
  BY <1>1, <1>2 DEF FrameInv, OffLine, BeforeFrame, QuietBetweenFrames
<1>3. CASE line # <<>> /\ turned /\ met
  <2>1. Position \in 0..(Len(current.wire) - 1) /\ ~(Position >= 1)
    BY <1>1, <1>3 DEF FrameInv, OnLine
  <2>2. Position <= 1
    BY <2>1
  <2>. QED
    BY <1>1, <1>3, <2>2 DEF FrameInv, OnLine, QuietBetweenFrames
<1>. QED
  BY <1>2, <1>3 DEF QuietBetweenFrames

\* An engine that was ready for a frame is ready again after the turnaround,
\* in every environment: the station may answer late, between reads, while a
\* read is prepared, and what it sends then may become any characters.
THEOREM LineIsQuiet ==
    ASSUME KnownFrames
    PROVE  LinkSpec => []QuietBetweenFrames
<1>1. ReadInv => QuietBetweenFrames
  BY QuietFollows
<1>. QED
  BY <1>1, ReadInvariant, PTL

LEMMA LatestFrameStep ==
    ASSUME KnownFrames, ReadInv, [LinkNext]_linkVars,
           result' = "sent", result # "sent", ~overrun, latest # NoAnswer
    PROVE  hostOut = latest.stored
<1>1. FrameInv /\ IndInv /\ LinkTypeOK
  BY DEF ReadInv
<1>2. HostGetsEnd
  BY DEF LinkNext, Line, Transmit, LineByte, LineMark, GarbledByte, WriteCommand,
     WriteReadCommand, Poll, MainLoop, PrepareStep, ReadStep, ReadExpires,
     HostGetsByte, linkVars, hostVars
<1>. QED
  BY <1>1, <1>2, WholeFrameCopied DEF FrameInv

\* What a read gives the host is one frame, whole, and the latest one, in
\* every environment - unless another one completed meanwhile, or a frame or
\* a part of it was not met.
THEOREM LatestFrameSent ==
    ASSUME KnownFrames
    PROVE  LinkSpec => LatestFrame
<1>1. ReadInv /\ [LinkNext]_linkVars =>
        [result' = "sent" /\ result # "sent" /\ ~overrun /\ latest # NoAnswer =>
            hostOut = latest.stored]_linkVars
  BY LatestFrameStep
<1>. QED
  BY <1>1, ReadInvariant, PTL DEF LinkSpec, LatestFrame

\* No access of the main loop to a pointer or a length can be torn by the
\* interrupt while the station is punctual.
THEOREM AccessesWhole ==
    ASSUME KnownFrames
    PROVE  LinkSpec => NothingTorn
<1>. DEFINE Torn == ~(/\ pc = "take" /\ pc' = pc => UNCHANGED savedFrame
                      /\ pc = "load" /\ pc' = pc => UNCHANGED receiveDataBuffer
                      /\ pc \in {"clear", "length", "test", "get", "cell"} /\ pc' = pc =>
                          dataBuffers'[frame].len = dataBuffers[frame].len)
<1>1. ASSUME ReadInv, [LinkNext]_linkVars, Punctual
      PROVE  ~Torn
  <2>1. FrameInv /\ PunctualInv /\ IndInv /\ met
    BY <1>1 DEF ReadInv, PunctualInv
  <2>. SUFFICES ASSUME pc \in {"take", "load", "clear", "length", "test", "get", "cell"},
                       pc' = pc
                PROVE  UNCHANGED <<savedFrame, receiveDataBuffer, dataBuffers>>
    OBVIOUS
  <2>2. line = <<>>
    BY <1>1, <2>1 DEF PunctualInv
  <2>3. CASE LineMark
    BY <2>1, <2>3, MarkEffect DEF IndInv
  <2>4. CASE (\E f \in Frames : Transmit(f)) \/ WriteCommand \/ UNCHANGED linkVars
    BY <2>4 DEF Transmit, WriteCommand, linkVars, vars, engineVars
  <2>5. ~LineByte /\ ~GarbledByte
    BY <2>1, <2>2 DEF LineByte, GarbledByte
  <2>6. ~WriteReadCommand /\ ~MainLoop
    BY DEF WriteReadCommand, StartRead, MainLoop, PrepareStep, ReadStep, ReadExpires,
       HostGetsByte, HostGetsEnd, LoadReceiveBuffer, ClearReceiveBuffer, EnterHunt,
       FrameSeen, WaitExpires, ResetFlag, TakeFrame, ReadLength, SendBinaryByte,
       BinaryDone, TestLength, GetPastEnd, GetInRange, SendTextByte, NextTextByte,
       TextDone, ResponseDone
  <2>. QED
    BY <1>1, <2>3, <2>4, <2>5, <2>6 DEF LinkNext, Line
<1>. QED
  BY <1>1, ReadInvariant, PTL DEF LinkSpec, NothingTorn
=============================================================================
