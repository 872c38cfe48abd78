------------------------- MODULE DataBufferTheorems -------------------------
(***************************************************************************)
(* What the operations of DataBuffer return, preserve and bound, for every *)
(* size of the buffer.                                                     *)
(***************************************************************************)
EXTENDS DataBuffer, TLAPS

\* db is old after some characters were written: it is a buffer, what is
\* below its length was written, and so is what was written in old.
Grown(db, old) ==
    /\ db \in DataBuffers
    /\ WrittenBelow(db, db.len)
    /\ \A n \in 0..MaxData : WrittenBelow(old, n) => WrittenBelow(db, n)

\* The constructor returns an empty buffer.
LEMMA NewDataBufferType ==
    NewDataBuffer \in DataBuffers /\ WrittenBelow(NewDataBuffer, 0)
BY MaxDataAssumption
   DEF NewDataBuffer, DataBuffers, Cell, WrittenBelow, Unwritten

\* clear() empties a buffer and leaves its cells alone.
LEMMA ClearGrows ==
    ASSUME NEW db \in DataBuffers
    PROVE  /\ Grown(Clear(db), db)
           /\ Clear(db).len = 0
<1> DEFINE new == Clear(db)
<1>0. 0 \in 0..MaxData
  BY MaxDataAssumption
<1>1. /\ new.buff = db.buff
      /\ new.len = 0
      /\ new \in DataBuffers
  BY <1>0 DEF Clear, DataBuffers
<1>2. WrittenBelow(new, new.len)
  BY <1>1 DEF WrittenBelow
<1>3. \A n \in 0..MaxData : WrittenBelow(db, n) => WrittenBelow(new, n)
  BY <1>1 DEF WrittenBelow
<1> QED
  BY <1>1, <1>2, <1>3 DEF Grown

\* write() of a byte keeps a buffer a buffer, full or not, and everything
\* below its length written.
LEMMA WriteGrows ==
    ASSUME NEW db \in DataBuffers, WrittenBelow(db, db.len), NEW b \in Byte
    PROVE  Grown(Write(db, b), db)
<1>1. CASE IsFull(db)
  BY <1>1 DEF Write, Grown
<1>2. CASE ~IsFull(db)
  <2> DEFINE new == [db EXCEPT !.buff[db.len] = b, !.len = db.len + 1]
  <2>1. Write(db, b) = new
    BY <1>2 DEF Write
  <2>2. /\ db.len \in 0..(MaxData - 1)
        /\ db.buff \in [0..(MaxData - 1) -> Cell]
        /\ db.readPos \in 0..MaxData
    BY <1>2, MaxDataAssumption DEF IsFull, DataBuffers
  <2>3. /\ new.len = db.len + 1
        /\ new.readPos = db.readPos
        /\ new.buff = [db.buff EXCEPT ![db.len] = b]
    BY DEF DataBuffers
  <2>4. new \in DataBuffers
    <3>1. b \in Cell
      BY DEF Cell
    <3>2. new.buff \in [0..(MaxData - 1) -> Cell]
      BY <2>2, <2>3, <3>1
    <3>3. new.len \in 0..MaxData
      BY <2>2, <2>3, MaxDataAssumption
    <3> QED
      BY <2>2, <2>3, <3>2, <3>3 DEF DataBuffers
  <2> HIDE DEF new
  <2>5. \A i \in 0..(MaxData - 1) :
           new.buff[i] = IF i = db.len THEN b ELSE db.buff[i]
    BY <2>2, <2>3
  <2>6. WrittenBelow(new, new.len)
    <3> SUFFICES ASSUME NEW i \in 0..(new.len - 1)
                 PROVE  new.buff[i] \in Byte
      BY DEF WrittenBelow
    <3>1. i \in 0..db.len /\ i \in 0..(MaxData - 1)
      BY <2>2, <2>3, MaxDataAssumption
    <3>2. i # db.len => db.buff[i] \in Byte
      BY <2>2, <3>1 DEF WrittenBelow
    <3> QED
      BY <2>5, <3>1, <3>2
  <2>7. ASSUME NEW n \in 0..MaxData, WrittenBelow(db, n)
        PROVE  WrittenBelow(new, n)
    <3> SUFFICES ASSUME NEW i \in 0..(n - 1)
                 PROVE  new.buff[i] \in Byte
      BY DEF WrittenBelow
    <3>1. i \in 0..(MaxData - 1)
      BY MaxDataAssumption
    <3>2. db.buff[i] \in Byte
      BY <2>7 DEF WrittenBelow
    <3> QED
      BY <2>5, <3>1, <3>2
  <2> QED
    BY <2>1, <2>4, <2>6, <2>7 DEF Grown
<1> QED
  BY <1>1, <1>2

\* Two writes in a row, as for the pair DLE, c.
LEMMA WriteTwiceGrows ==
    ASSUME NEW db \in DataBuffers, WrittenBelow(db, db.len),
           NEW b \in Byte, NEW c \in Byte
    PROVE  Grown(Write(Write(db, b), c), db)
<1>1. Grown(Write(db, b), db)
  BY WriteGrows
<1>2. Grown(Write(Write(db, b), c), Write(db, b))
  BY <1>1, WriteGrows DEF Grown
<1> QED
  BY <1>1, <1>2 DEF Grown

\* What a write changes: the cell at the length, and the length, unless the
\* buffer is full.
LEMMA WriteEffect ==
    ASSUME NEW db \in DataBuffers, NEW b
    PROVE  /\ Write(db, b).readPos = db.readPos
           /\ Write(db, b).len = IF db.len < MaxData THEN db.len + 1 ELSE db.len
           /\ \A i \in 0..(MaxData - 1) :
                Write(db, b).buff[i] =
                    IF i = db.len THEN b ELSE db.buff[i]
<1>0. /\ db.len \in 0..MaxData
      /\ db.buff \in [0..(MaxData - 1) -> Cell]
  BY DEF DataBuffers
<1>1. CASE IsFull(db)
  BY <1>0, <1>1, MaxDataAssumption DEF Write, IsFull
<1>2. CASE ~IsFull(db)
  <2>1. Write(db, b) = [db EXCEPT !.buff[db.len] = b, !.len = db.len + 1]
    BY <1>2 DEF Write
  <2> QED
    BY <1>0, <1>2, <2>1, MaxDataAssumption DEF IsFull, DataBuffers
<1> QED
  BY <1>1, <1>2
=============================================================================
