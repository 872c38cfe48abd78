----------------------------- MODULE DataBuffer -----------------------------
(***************************************************************************)
(* DataBuffer: a byte array of fixed size with a write length and a read   *)
(* cursor.  The operations are pure operators on records; the engines hold *)
(* the records in their variables.                                         *)
(*                                                                         *)
(* The array comes from malloc, so its cells hold no value until written:  *)
(* such a cell is Unwritten.  clear() resets the counters and leaves the   *)
(* cells alone, and so does Clear.                                         *)
(***************************************************************************)
EXTENDS BscProtocol

CONSTANT MaxData        \* DATABUFF_MAX_DATA

ASSUME MaxDataAssumption == MaxData \in Nat \ {0}

Unwritten == 256
Cell      == Byte \union {Unwritten}

DataBuffers == [buff : [0..(MaxData - 1) -> Cell],
                len : 0..MaxData, readPos : 0..MaxData]

NewDataBuffer == [buff |-> [i \in 0..(MaxData - 1) |-> Unwritten],
                  len |-> 0, readPos |-> 0]

Clear(db) == [db EXCEPT !.len = 0, !.readPos = 0]

\* Seeded fault: the limit is tested one write too late.
IsFullLate(db) == db.len > MaxData

IsFull(db) == db.len >= MaxData

\* Seeded fault: the length is counted up before the character is stored.
WriteCountsFirst(db, data) ==
    IF IsFull(db)
    THEN db
    ELSE [db EXCEPT !.buff[db.len + 1] = data, !.len = db.len + 1]

\* A write to a full buffer fails (-1) and changes nothing.
Write(db, data) ==
    IF IsFull(db)
    THEN db
    ELSE [db EXCEPT !.buff[db.len] = data, !.len = db.len + 1]

CanRead(db)  == db.len # 0 /\ db.readPos < db.len
NextByte(db) == db.buff[db.readPos]
Advance(db)  == [db EXCEPT !.readPos = db.readPos + 1]

\* The first n cells have been written.
WrittenBelow(db, n) == \A i \in 0..(n - 1) : db.buff[i] \in Byte

\* The bytes a reader of the whole buffer sees.
Contents(db) == [i \in 1..db.len |-> db.buff[i - 1]]
=============================================================================
