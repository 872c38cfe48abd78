--------------------------- MODULE BitLinkProofs ---------------------------
(***************************************************************************)
(* BitLink gives the engine the characters of the line, for every set of   *)
(* frames that begin with PAD SYN and every environment: bit by bit it is  *)
(* the link of TributaryLink, whether the engine met the frame or not, and *)
(* what is proved there of frames holds for the bits.                      *)
(***************************************************************************)
EXTENDS BitLink, ReceiverProofs

\* The character on the line: a mark is a PAD.
Current == IF line = <<>> THEN PAD ELSE Head(line)

\* What eight bits of mark make of an empty buffer, one by one.
Marks == {0, 128, 192, 224, 240, 248, 252, 254, 255}

BitPhase ==
    /\ sampled => bitNo >= 1
    /\ ~sampled => bitNo <= 7

\* The bits of the current character that were sampled are on top.
TopBits == inputBitBuffer \div 2^(8 - bitNo) = Current % 2^bitNo

\* While the line is at mark, and in the first PAD.
AtMark ==
    turned =>
        /\ inputBitBuffer \in Marks
        /\ receiveState # OutOfSync => inputBitBuffer = PAD
        /\ line # <<>> => /\ Len(line) >= 2
                          /\ Head(line) = PAD /\ Head(Tail(line)) = SYN

\* An engine that met the frame hunts at mark and then up to the end of the
\* first SYN, which has nothing but ones behind it.
Hunting ==
    met /\ receiveState = OutOfSync =>
        \/ turned
        \/ /\ line # <<>> /\ Head(line) = SYN
           /\ inputBitBuffer % 2^(8 - bitNo) = 2^(8 - bitNo) - 1

BitSafe == IndInv /\ BitTypeOK /\ BitPhase

SyncInv == TopBits /\ AtMark /\ Hunting /\ InStep

BitInv == BitSafe /\ (FramesFound => SyncInv)

-----------------------------------------------------------------------------
(***************************************************************************)
(* Bits come in at the top of the buffer.                                  *)
(***************************************************************************)

\* The powers of two that occur.
PowersAre(k, low, next, high, half) ==
    /\ 2^k = low /\ 2^(k + 1) = next
    /\ 2^(8 - k) = high /\ 2^(8 - (k + 1)) = half

LEMMA Powers ==
    ASSUME NEW k \in 0..7
    PROVE  \/ PowersAre(k, 1, 2, 256, 128)
           \/ PowersAre(k, 2, 4, 128, 64)
           \/ PowersAre(k, 4, 8, 64, 32)
           \/ PowersAre(k, 8, 16, 32, 16)
           \/ PowersAre(k, 16, 32, 16, 8)
           \/ PowersAre(k, 32, 64, 8, 4)
           \/ PowersAre(k, 64, 128, 4, 2)
           \/ PowersAre(k, 128, 256, 2, 1)
<1>1. /\ 2^0 = 1 /\ 2^1 = 2 /\ 2^2 = 4 /\ 2^3 = 8 /\ 2^4 = 16
      /\ 2^5 = 32 /\ 2^6 = 64 /\ 2^7 = 128 /\ 2^8 = 256
  OBVIOUS
<1>2. CASE k = 0
  BY <1>1, <1>2 DEF PowersAre
<1>3. CASE k = 1
  BY <1>1, <1>3 DEF PowersAre
<1>4. CASE k = 2
  BY <1>1, <1>4 DEF PowersAre
<1>5. CASE k = 3
  BY <1>1, <1>5 DEF PowersAre
<1>6. CASE k = 4
  BY <1>1, <1>6 DEF PowersAre
<1>7. CASE k = 5
  BY <1>1, <1>7 DEF PowersAre
<1>8. CASE k = 6
  BY <1>1, <1>8 DEF PowersAre
<1>9. CASE k = 7
  BY <1>1, <1>9 DEF PowersAre
<1>. QED
  BY <1>2, <1>3, <1>4, <1>5, <1>6, <1>7, <1>8, <1>9

\* A bit of c goes on top of the buffer b, where the lower bits of c are: for
\* the powers of two that belong to the bits so far.
TopFits(b, c, low, next, high, half) ==
    b \div high = c % low =>
        /\ b \div 2 + 128 * ((c \div low) % 2) \in 0..255
        /\ (b \div 2 + 128 * ((c \div low) % 2)) \div half = c % next

LEMMA TopFitsAlways ==
    ASSUME NEW b \in 0..255, NEW c \in 0..255, NEW k \in 0..7
    PROVE  TopFits(b, c, 2^k, 2^(k + 1), 2^(8 - k), 2^(8 - (k + 1)))
<1>1. TopFits(b, c, 1, 2, 256, 128)
  BY DEF TopFits
<1>2. TopFits(b, c, 2, 4, 128, 64)
  BY DEF TopFits
<1>3. TopFits(b, c, 4, 8, 64, 32)
  BY DEF TopFits
<1>4. TopFits(b, c, 8, 16, 32, 16)
  <2>. SUFFICES ASSUME b \div 32 = c % 8
                PROVE  /\ b \div 2 + 128 * ((c \div 8) % 2) \in 0..255
                       /\ (b \div 2 + 128 * ((c \div 8) % 2)) \div 16 = c % 16
    BY DEF TopFits
  <2>1. PICK q \in 0..31, r \in 0..7 :
            c = 8 * q + r /\ q = c \div 8 /\ r = c % 8
    OBVIOUS
  <2>2. PICK l \in 0..31 : b = 32 * r + l
    BY <2>1
  <2>3. b \div 2 = 16 * r + l \div 2
    BY <2>1, <2>2
  <2>4. q % 2 \in 0..1 /\ c % 16 = 8 * (q % 2) + r
    BY <2>1
  <2>. QED
    BY <2>1, <2>2, <2>3, <2>4
<1>5. TopFits(b, c, 16, 32, 16, 8)
  <2>. SUFFICES ASSUME b \div 16 = c % 16
                PROVE  (b \div 2 + 128 * ((c \div 16) % 2)) \in 0..255 /\ (b \div 2 + 128 * ((c \div 16) % 2)) \div 8 = c % 32
    BY DEF TopFits
  <2>1. PICK q \in 0..15, r \in 0..15 :
            c = 16 * q + r /\ q = c \div 16 /\ r = c % 16
    BY <1>1
  <2>2. PICK l \in 0..15 : b = 16 * r + l
    BY <1>1, <2>1
  <2>3. b \div 2 = 8 * r + l \div 2
    BY <2>1, <2>2
  <2>4. q % 2 \in 0..1 /\ c % 32 = 16 * (q % 2) + r
    BY <2>1
  <2>. QED
    BY <2>1, <2>2, <2>3, <2>4
<1>6. TopFits(b, c, 32, 64, 8, 4)
  BY DEF TopFits
<1>7. TopFits(b, c, 64, 128, 4, 2)
  BY DEF TopFits
<1>8. TopFits(b, c, 128, 256, 2, 1)
  BY DEF TopFits
<1>11. CASE PowersAre(k, 1, 2, 256, 128)
  BY <1>1, <1>11 DEF PowersAre
<1>12. CASE PowersAre(k, 2, 4, 128, 64)
  BY <1>2, <1>12 DEF PowersAre
<1>13. CASE PowersAre(k, 4, 8, 64, 32)
  BY <1>3, <1>13 DEF PowersAre
<1>14. CASE PowersAre(k, 8, 16, 32, 16)
  BY <1>4, <1>14 DEF PowersAre
<1>15. CASE PowersAre(k, 16, 32, 16, 8)
  BY <1>5, <1>15 DEF PowersAre
<1>16. CASE PowersAre(k, 32, 64, 8, 4)
  BY <1>6, <1>16 DEF PowersAre
<1>17. CASE PowersAre(k, 64, 128, 4, 2)
  BY <1>7, <1>17 DEF PowersAre
<1>18. CASE PowersAre(k, 128, 256, 2, 1)
  BY <1>8, <1>18 DEF PowersAre
<1>. QED
  BY <1>11, <1>12, <1>13, <1>14,
     <1>15, <1>16, <1>17, <1>18, Powers

\* A bit of a byte goes on top of those before it.
LEMMA BitGoesOnTop ==
    ASSUME NEW b \in Byte, NEW c \in Byte, NEW k \in 0..7,
           b \div 2^(8 - k) = c % 2^k
    PROVE  /\ ShiftIn(b, BitOf(c, k)) \in Byte
           /\ ShiftIn(b, BitOf(c, k)) \div 2^(8 - (k + 1)) = c % 2^(k + 1)
BY TopFitsAlways DEF TopFits, ShiftIn, BitOf, Byte

\* The ones below the sampled bits move down.
OnesFit(b, bit, high, half) ==
    b % high = high - 1 => (b \div 2 + 128 * bit) % half = half - 1

LEMMA OnesFitAlways ==
    ASSUME NEW b \in 0..255, NEW bit \in 0..1, NEW k \in 0..7
    PROVE  OnesFit(b, bit, 2^(8 - k), 2^(8 - (k + 1)))
<1>1. OnesFit(b, bit, 256, 128) /\ OnesFit(b, bit, 128, 64)
  BY DEF OnesFit
<1>2. OnesFit(b, bit, 64, 32) /\ OnesFit(b, bit, 32, 16)
  BY DEF OnesFit
<1>3. OnesFit(b, bit, 16, 8) /\ OnesFit(b, bit, 8, 4)
  BY DEF OnesFit
<1>4. OnesFit(b, bit, 4, 2) /\ OnesFit(b, bit, 2, 1)
  BY DEF OnesFit
<1>11. CASE PowersAre(k, 1, 2, 256, 128)
  BY <1>1, <1>11 DEF PowersAre
<1>12. CASE PowersAre(k, 2, 4, 128, 64)
  BY <1>1, <1>12 DEF PowersAre
<1>13. CASE PowersAre(k, 4, 8, 64, 32)
  BY <1>2, <1>13 DEF PowersAre
<1>14. CASE PowersAre(k, 8, 16, 32, 16)
  BY <1>2, <1>14 DEF PowersAre
<1>15. CASE PowersAre(k, 16, 32, 16, 8)
  BY <1>3, <1>15 DEF PowersAre
<1>16. CASE PowersAre(k, 32, 64, 8, 4)
  BY <1>3, <1>16 DEF PowersAre
<1>17. CASE PowersAre(k, 64, 128, 4, 2)
  BY <1>4, <1>17 DEF PowersAre
<1>18. CASE PowersAre(k, 128, 256, 2, 1)
  BY <1>4, <1>18 DEF PowersAre
<1>. QED
  BY <1>11, <1>12, <1>13, <1>14,
     <1>15, <1>16, <1>17, <1>18, Powers

LEMMA OnesMoveDown ==
    ASSUME NEW b \in Byte, NEW bit \in Bit, NEW k \in 0..7,
           b % 2^(8 - k) = 2^(8 - k) - 1
    PROVE  ShiftIn(b, bit) % 2^(8 - (k + 1)) = 2^(8 - (k + 1)) - 1
BY OnesFitAlways DEF OnesFit, ShiftIn, Byte, Bit

\* The pattern has a zero at its end.
LEMMA OnesAreNotSyn ==
    ASSUME NEW b \in Byte, NEW k \in 0..7, b % 2^(8 - k) = 2^(8 - k) - 1
    PROVE  b # SYN
<1>1. 2^(8 - k) \in {2, 4, 8, 16, 32, 64, 128, 256}
  BY Powers DEF PowersAre
<1>. QED
  BY <1>1 DEF Byte, SYN

\* Marks stay marks, and none of them is the pattern.
LEMMA MarkGoesOn ==
    ASSUME NEW b \in Marks
    PROVE  /\ b \in Byte /\ b # SYN
           /\ ShiftIn(b, 1) \in Marks
BY DEF Marks, ShiftIn, Byte, SYN

\* The bits of a PAD are marks, and those of any byte are bits.
LEMMA LevelIsBit ==
    ASSUME NEW c \in Byte, NEW k \in 0..7
    PROVE  BitOf(PAD, k) = 1 /\ BitOf(c, k) \in Bit
<1>1. 2^k \in {1, 2, 4, 8, 16, 32, 64, 128}
  BY Powers DEF PowersAre
<1>. QED
  BY <1>1 DEF BitOf, PAD, Byte, Bit

-----------------------------------------------------------------------------
(***************************************************************************)
(* Every frame and every station.                                          *)
(***************************************************************************)

LEMMA CurrentType ==
    ASSUME LinkTypeOK
    PROVE  /\ line # <<>> => Head(line) \in LineBytes /\ Tail(line) \in Seq(LineBytes)
           /\ Current \in LineBytes /\ Current \in Byte
<1>1. line \in Seq(LineBytes)
  BY DEF LinkTypeOK
<1>. QED
  BY <1>1, LinkAssumption, LineBytesAssumption DEF Current

LEMMA ShiftInType ==
    ASSUME NEW b \in Byte, NEW bit \in Bit
    PROVE  ShiftIn(b, bit) \in Byte
BY DEF ShiftIn, Byte, Bit

LEMMA CounterBounds ==
    /\ 0 \in 0..(CounterSize - 1)
    /\ \A n \in 0..(CounterSize - 1) : (n + 1) % CounterSize \in 0..(CounterSize - 1)
BY DEF CounterSize

\* What getBit() puts on top is a bit of the current character.
LEMMA SampleOfCurrent ==
    ASSUME BitSafe, GetBit
    PROVE  /\ bitNo \in 0..7
           /\ LineLevel = BitOf(Current, bitNo) /\ LineLevel \in Bit
           /\ inputBitBuffer' = ShiftIn(inputBitBuffer, LineLevel)
           /\ inputBitBuffer' \in Byte
<1>1. bitNo \in 0..7 /\ inputBitBuffer \in Byte /\ LinkTypeOK
  BY DEF BitSafe, BitTypeOK, BitPhase, GetBit
<1>2. LineLevel = BitOf(Current, bitNo) /\ LineLevel \in Bit
  BY <1>1, CurrentType, LevelIsBit DEF LineLevel, Current
<1>3. ShiftIn(inputBitBuffer, LineLevel) \in Byte
  BY <1>1, <1>2, ShiftInType
<1>. QED
  BY <1>1, <1>2, <1>3 DEF GetBit

\* processBit() with a complete character or without one is an EngineStep, or
\* leaves the engine alone.
LEMMA BitOfEngine ==
    ASSUME BitSafe, ProcessBit
    PROVE  IndInv' /\ receiveBitCounter' \in 0..(CounterSize - 1)
<1>1. IndInv /\ BitTypeOK /\ inputBitBuffer \in Byte
  BY DEF BitSafe, BitTypeOK
<1>2. CASE SyncFound /\ receiveBitCounter' = 0
  BY <1>1, <1>2, SyncIsEngineStep, EngineStepKeepsInv, CounterBounds
<1>3. CASE ProcessByte(inputBitBuffer) /\ receiveBitCounter' = 0
  BY <1>1, <1>3, ByteIsEngineStep, EngineStepKeepsInv, CounterBounds
<1>4. CASE UNCHANGED <<vars, receiveBitCounter>>
  <2>1. IndInv'
    BY <1>1, <1>4, NextInv
  <2>. QED
    BY <1>1, <1>4, <2>1 DEF BitTypeOK
<1>. QED
  BY <1>2, <1>3, <1>4 DEF ProcessBit, ProcessBitHunting, ProcessBitInSync

LEMMA LineAdvancesType ==
    ASSUME BitSafe, ProcessBit
    PROVE  /\ line' \in Seq(LineBytes)
           /\ current' \in Frames \union {NoAnswer}
           /\ turned' \in BOOLEAN /\ met' \in BOOLEAN
           /\ latest' \in Frames \union {NoAnswer}
           /\ bitNo' \in 0..7
<1>1. LinkTypeOK /\ bitNo \in 0..8 /\ LineAdvances
  BY DEF BitSafe, BitTypeOK, ProcessBit
<1>2. /\ line \in Seq(LineBytes) /\ turned \in BOOLEAN /\ met \in BOOLEAN
      /\ current \in Frames \union {NoAnswer} /\ latest \in Frames \union {NoAnswer}
  BY <1>1 DEF LinkTypeOK
<1>3. CASE bitNo < 8
  BY <1>1, <1>2, <1>3 DEF LineAdvances, lineVars
<1>4. CASE ~(bitNo < 8)
  BY <1>1, <1>2, <1>4, CurrentType, LinkAssumption DEF LineAdvances
<1>. QED
  BY <1>3, <1>4

\* The other actions are steps of the link.
LEMMA OtherBitSteps ==
    ASSUME HostOrMain \/ (\E f \in Frames : TransmitBits(f))
    PROVE  LinkNext
BY DEF HostOrMain, TransmitBits, LinkNext

LEMMA BitSafeAtFirst == BitInit => BitSafe
<1>. SUFFICES ASSUME BitInit PROVE BitSafe
  OBVIOUS
<1>1. IndInv /\ LinkTypeOK
  BY LinkAtFirst DEF BitInit
<1>2. 0 \in Byte /\ 0 \in 0..8
  BY DEF Byte
<1>4. BitTypeOK
  BY <1>1, <1>2, CounterBounds DEF BitInit, BitTypeOK
<1>3. bitNo <= 7 /\ ~sampled
  <2>1. bitNo <= 7
    BY DEF BitInit
  <2>2. ~sampled
    BY DEF BitInit
  <2>. QED
    BY <2>1, <2>2
<1>. QED
  BY <1>1, <1>3, <1>4 DEF BitSafe, BitPhase

LEMMA BitSafeNext == BitSafe /\ [BitNext]_allBitVars => BitSafe'
<1>. SUFFICES ASSUME BitSafe, [BitNext]_allBitVars PROVE BitSafe'
  OBVIOUS
<1>1. IndInv /\ LinkTypeOK /\ BitTypeOK /\ BitPhase
  BY DEF BitSafe, BitTypeOK
<1>2. CASE GetBit
  <2>1. (IndInv /\ LinkTypeOK)'
    BY <1>1, <1>2, LinkNextInv DEF GetBit
  <2>2. inputBitBuffer' \in Byte /\ bitNo \in 0..7
    BY <1>2, SampleOfCurrent
  <2>3. receiveBitCounter' \in 0..(CounterSize - 1)
    BY <1>1, <1>2, CounterBounds DEF GetBit, BitTypeOK
  <2>. QED
    BY <1>2, <2>1, <2>2, <2>3 DEF GetBit, BitSafe, BitTypeOK, BitPhase
<1>3. CASE ProcessBit
  <2>1. IndInv' /\ receiveBitCounter' \in 0..(CounterSize - 1)
    BY <1>3, BitOfEngine
  <2>2. TypeOK'
    BY <2>1 DEF IndInv
  <2>3. LinkTypeOK'
    BY <1>1, <1>3, <2>2, LineAdvancesType
    DEF LinkTypeOK, ProcessBit, hostVars, Results
  <2>4. bitNo' \in 0..8 /\ bitNo' <= 7
    BY <1>3, LineAdvancesType
  <2>5. sampled' = FALSE /\ inputBitBuffer' = inputBitBuffer
    BY <1>3 DEF ProcessBit
  <2>6. BitTypeOK'
    BY <1>1, <2>1, <2>3, <2>4, <2>5 DEF BitTypeOK
  <2>. QED
    BY <2>1, <2>4, <2>5, <2>6, Zenon DEF BitSafe, BitPhase
<1>4. CASE HostOrMain \/ \E f \in Frames : TransmitBits(f)
  <2>1. (IndInv /\ LinkTypeOK)'
    BY <1>1, <1>4, OtherBitSteps, LinkNextInv
  <2>. QED
    BY <1>1, <1>4, <2>1
    DEF BitSafe, BitTypeOK, BitPhase, HostOrMain, TransmitBits, bitVars
<1>5. CASE UNCHANGED allBitVars
  <2>1. (IndInv /\ LinkTypeOK)'
    BY <1>1, <1>5, LinkNextInv DEF allBitVars
  <2>. QED
    BY <1>1, <1>5, <2>1 DEF BitSafe, BitTypeOK, BitPhase, allBitVars, bitVars
<1>. QED
  BY <1>2, <1>3, <1>4, <1>5 DEF BitNext

\* The bit buffer, the bit counter and all that the link has keep their types:
\* the counter wraps at 256 while the engine hunts and does no harm.
THEOREM BitTypeCorrect == BitSpec => []BitTypeOK
<1>1. BitSafe => BitTypeOK
  BY DEF BitSafe
<1>. QED
  BY <1>1, BitSafeAtFirst, BitSafeNext, PTL DEF BitSpec

-----------------------------------------------------------------------------
(***************************************************************************)
(* Frames that begin with PAD SYN.                                         *)
(***************************************************************************)

LEMMA EmptyIsShort ==
    ASSUME NEW S, NEW t \in Seq(S)
    PROVE  Len(t) = 0 <=> t = <<>>
<1>1. t = <<>> => Len(t) = 0
  OBVIOUS
<1>2. Len(t) = 0 => t = <<>>
  OBVIOUS
<1>. QED
  BY <1>1, <1>2

\* One character is left on the line, or more.
LEMMA LastCharacter ==
    ASSUME NEW S, NEW s \in Seq(S), s # <<>>
    PROVE  Len(s) = 1 <=> Tail(s) = <<>>
<1>1. PICK t \in Seq(S), n \in Nat : t = Tail(s) /\ Len(t) = n - 1 /\ n = Len(s)
  <2>1. Tail(s) \in Seq(S) /\ Len(Tail(s)) = Len(s) - 1 /\ Len(s) \in Nat
    OBVIOUS
  <2>. QED
    BY <2>1, Zenon
<1>2. Len(t) = 0 <=> t = <<>>
  BY EmptyIsShort
<1>. QED
  BY <1>1, <1>2

\* All eight bits of the buffer, or none of them, are those of a character.
LEMMA WholeOrNone ==
    ASSUME NEW b \in Byte, NEW c \in Byte
    PROVE  /\ b \div 2^(8 - 8) = c % 2^8 => b = c
           /\ b \div 2^(8 - 0) = c % 2^0
           /\ PAD % 2^(8 - 0) = 2^(8 - 0) - 1
           /\ PAD \in Marks
<1>1. /\ 2^(8 - 8) = 1 /\ 2^8 = 256 /\ 2^(8 - 0) = 256 /\ 2^0 = 1
  OBVIOUS
<1>2. /\ b \div 1 = c % 256 => b = c
      /\ b \div 256 = c % 1
      /\ PAD % 256 = 255 /\ PAD \in Marks
  BY DEF Byte, PAD, Marks
<1>. QED
  BY <1>1, <1>2

\* processBit() with a character needs character sync, and keeps it.
LEMMA ByteKeepsSync ==
    ASSUME NEW b, ProcessByte(b)
    PROVE  receiveState # OutOfSync /\ receiveState' # OutOfSync
BY DEF ProcessByte, PadByte, SynByte, DleByte, TransparentStart, BlockStart,
       AckByte, EotOrNakByte, OtherIdleByte, BlockEnd, DataByte, DoubledDle,
       TransparentAbort, TransparentEnd, SingleDle, TransparentByte, BccByte,
       InText, InTransparent, OutOfSync

\* What processBit() does with the bits it has.  At mark it finds no pattern,
\* and an engine in sync has nothing but ones.
LEMMA BitEffect ==
    ASSUME BitSafe, SyncInv, ProcessBit
    PROVE  /\ \/ UNCHANGED vars
              \/ receiveState = OutOfSync /\ ~turned /\ SyncFound
              \/ receiveState # OutOfSync /\ ProcessByte(inputBitBuffer)
           /\ receiveState' = OutOfSync => receiveState = OutOfSync
           /\ turned => (receiveState' = OutOfSync <=> receiveState = OutOfSync)
<1>1. CASE ProcessBitHunting /\ SyncPattern
  <2>1. ~turned
    BY <1>1, MarkGoesOn DEF SyncInv, AtMark, SyncPattern
  <2>. QED
    BY <1>1, <2>1 DEF ProcessBitHunting
<1>2. CASE ProcessBitHunting /\ ~SyncPattern
  BY <1>2 DEF ProcessBitHunting, vars, engineVars
<1>3. CASE ProcessBitInSync
  <2>1. CASE UNCHANGED vars
    BY <1>3, <2>1 DEF ProcessBitInSync, vars, engineVars
  <2>2. CASE ProcessByte(inputBitBuffer)
    BY <1>3, <2>2, ByteKeepsSync DEF ProcessBitInSync
  <2>. QED
    BY <1>3, <2>1, <2>2 DEF ProcessBitInSync
<1>. QED
  BY <1>1, <1>2, <1>3 DEF ProcessBit

\* If the engine met the frame, nothing happens to it between the last bit of
\* a character and the next one, and with the last bit it gets that character.
\* The pattern is found with the last bit of the first SYN: on the way there
\* the lower bits are the ones of the PAD.
LEMMA CharacterTaken ==
    ASSUME BitSafe, SyncInv, met, ProcessBit
    PROVE  \/ bitNo < 8 /\ UNCHANGED <<vars, receiveBitCounter>>
           \/ /\ bitNo = 8 /\ inputBitBuffer = Current
              /\ \/ line # <<>> /\ ~turned /\ Current = SYN
                    /\ SyncFound /\ receiveBitCounter' = 0
                 \/ receiveState = OutOfSync /\ turned /\ Current # SYN
                    /\ UNCHANGED <<vars, receiveBitCounter>>
                 \/ ProcessByte(Current) /\ receiveBitCounter' = 0
<1>1. LinkTypeOK /\ inputBitBuffer \in Byte /\ bitNo \in 1..8
  BY DEF BitSafe, BitTypeOK, BitPhase, ProcessBit
<1>2. Current \in Byte
  BY <1>1, CurrentType
<1>3. bitNo = 8 => inputBitBuffer = Current
  BY <1>1, <1>2, WholeOrNone DEF SyncInv, TopBits
<1>4. CASE ProcessBitHunting /\ SyncPattern
  <2>1. ~turned
    BY <1>4, MarkGoesOn DEF SyncInv, AtMark, SyncPattern
  <2>2. /\ line # <<>> /\ Head(line) = SYN
        /\ inputBitBuffer % 2^(8 - bitNo) = 2^(8 - bitNo) - 1
    BY <1>4, <2>1 DEF SyncInv, Hunting, ProcessBitHunting
  <2>3. ~(bitNo \in 0..7)
    BY <1>1, <1>4, <2>2, OnesAreNotSyn DEF SyncPattern
  <2>4. bitNo = 8
    BY <1>1, <2>3
  <2>. QED
    BY <1>3, <1>4, <2>1, <2>2, <2>4 DEF ProcessBitHunting, Current
<1>5. CASE ProcessBitHunting /\ ~SyncPattern
  <2>1. receiveState = OutOfSync /\ UNCHANGED <<vars, receiveBitCounter>>
    BY <1>5 DEF ProcessBitHunting
  <2>2. CASE bitNo = 8
    <3>1. Current # SYN
      BY <1>3, <1>5, <2>2 DEF SyncPattern
    <3>2. turned
      BY <2>1, <3>1 DEF SyncInv, Hunting, Current
    <3>. QED
      BY <1>3, <2>1, <2>2, <3>1, <3>2
  <2>3. bitNo = 8 \/ bitNo < 8
    BY <1>1
  <2>. QED
    BY <2>1, <2>2, <2>3
<1>6. CASE ProcessBitInSync
  <2>1. receiveBitCounter = bitNo
    BY <1>6 DEF SyncInv, InStep, ProcessBitInSync
  <2>2. bitNo = 8 \/ bitNo < 8
    BY <1>1
  <2>. QED
    BY <1>3, <1>6, <2>1, <2>2 DEF ProcessBitInSync
<1>. QED
  BY <1>4, <1>5, <1>6 DEF ProcessBit

LEMMA SampleKeepsSync ==
    ASSUME BitSafe, SyncInv, GetBit
    PROVE  SyncInv'
<1>1. /\ bitNo \in 0..7 /\ inputBitBuffer \in Byte /\ LinkTypeOK
      /\ bitNo' = bitNo + 1 /\ UNCHANGED linkVars
  BY SampleOfCurrent DEF BitSafe, BitTypeOK, GetBit
<1>2. /\ UNCHANGED <<line, met, turned, receiveState>>
      /\ Current' = Current
  BY <1>1 DEF linkVars, lineVars, vars, engineVars, Current
<1>3. Current \in Byte
  BY <1>1, CurrentType
<1>4. TopBits'
  <2>1. inputBitBuffer \div 2^(8 - bitNo) = Current % 2^bitNo
    BY DEF SyncInv, TopBits
  <2>2. inputBitBuffer' = ShiftIn(inputBitBuffer, BitOf(Current, bitNo))
    BY SampleOfCurrent
  <2>3. inputBitBuffer' \div 2^(8 - (bitNo + 1)) = Current % 2^(bitNo + 1)
    BY <1>1, <1>3, <2>1, <2>2, BitGoesOnTop
  <2>. QED
    BY <1>1, <1>2, <2>3 DEF TopBits
<1>5. AtMark'
  <2>1. CASE turned
    <3>1. inputBitBuffer \in Marks /\ Current = PAD
      BY <2>1 DEF SyncInv, AtMark, Current
    <3>2. inputBitBuffer' = ShiftIn(inputBitBuffer, 1)
      BY <1>1, <3>1, SampleOfCurrent, LevelIsBit
    <3>3. inputBitBuffer' \in Marks
      BY <3>1, <3>2, MarkGoesOn
    <3>4. inputBitBuffer = PAD => inputBitBuffer' = PAD
      BY <3>2 DEF ShiftIn, PAD
    <3>. QED
      BY <1>2, <2>1, <3>3, <3>4 DEF SyncInv, AtMark
  <2>. QED
    BY <1>2, <2>1 DEF AtMark
<1>6. Hunting'
  <2>1. CASE met /\ receiveState = OutOfSync /\ ~turned
    <3>1. /\ line # <<>> /\ Head(line) = SYN
          /\ inputBitBuffer % 2^(8 - bitNo) = 2^(8 - bitNo) - 1
      BY <2>1 DEF SyncInv, Hunting
    <3>2. inputBitBuffer' % 2^(8 - bitNo') = 2^(8 - bitNo') - 1
      BY <1>1, <3>1, SampleOfCurrent, OnesMoveDown
    <3>. QED
      BY <1>2, <3>1, <3>2 DEF Hunting
  <2>. QED
    BY <1>2, <2>1 DEF Hunting
<1>7. InStep'
  <2>1. CASE receiveState # OutOfSync /\ met
    <3>1. receiveBitCounter = bitNo
      BY <2>1 DEF SyncInv, InStep
    <3>2. receiveBitCounter' = (bitNo + 1) % 256
      BY <3>1 DEF GetBit, CounterSize
    <3>. QED
      BY <1>1, <3>2 DEF InStep
  <2>. QED
    BY <1>2, <2>1 DEF InStep
<1>. QED
  BY <1>4, <1>5, <1>6, <1>7 DEF SyncInv

\* A step of the interrupt between two characters, and one with the last bit.
LEMMA BitKeepsSync ==
    ASSUME BitSafe, SyncInv, ProcessBit
    PROVE  SyncInv'
<1>1. /\ inputBitBuffer' = inputBitBuffer
      /\ inputBitBuffer \in Byte /\ LinkTypeOK /\ LineAdvances /\ bitNo \in 1..8
  BY DEF ProcessBit, BitSafe, BitTypeOK, BitPhase
<1>2. CASE bitNo < 8
  <2>1. UNCHANGED <<line, turned, met, bitNo, inputBitBuffer>> /\ Current' = Current
    BY <1>1, <1>2 DEF LineAdvances, lineVars, Current
  <2>2. InStep'
    <3>1. CASE met
      <4>1. UNCHANGED <<receiveState, receiveBitCounter>>
        BY <1>2, <3>1, CharacterTaken DEF vars, engineVars
      <4>. QED
        BY <2>1, <4>1 DEF SyncInv, InStep
    <3>. QED
      BY <2>1, <3>1 DEF InStep
  <2>3. TopBits' /\ AtMark' /\ Hunting'
    BY <2>1, BitEffect DEF SyncInv, TopBits, AtMark, Hunting
  <2>. QED
    BY <2>2, <2>3 DEF SyncInv
<1>3. CASE bitNo = 8
  <2>1. /\ bitNo' = 0 /\ turned' = (line = <<>>) /\ met' = met
        /\ line' = IF line = <<>> THEN line ELSE Tail(line)
    BY <1>1, <1>3 DEF LineAdvances
  <2>2. line' \in Seq(LineBytes)
    BY LineAdvancesType
  <2>3. Current' \in Byte
    BY <2>2, LinkAssumption, LineBytesAssumption DEF Current
  <2>4. TopBits'
    BY <1>1, <2>1, <2>3, WholeOrNone DEF TopBits
  <2>5. inputBitBuffer = Current
    BY <1>1, <1>3, CurrentType, WholeOrNone DEF SyncInv, TopBits
  <2>6. AtMark'
    <3>1. CASE line = <<>>
      BY <1>1, <2>1, <2>5, <3>1, WholeOrNone DEF AtMark, Current
    <3>2. CASE line # <<>>
      BY <2>1, <3>2 DEF AtMark
    <3>. QED
      BY <3>1, <3>2
  <2>7. CASE ~met
    BY <2>1, <2>4, <2>6, <2>7 DEF SyncInv, Hunting, InStep
  <2>8. CASE met /\ receiveState' # OutOfSync
    <3>1. receiveBitCounter' = 0
      BY <1>3, <2>8, CharacterTaken DEF vars, engineVars
    <3>. QED
      BY <2>1, <2>4, <2>6, <2>8, <3>1 DEF SyncInv, Hunting, InStep
  <2>9. CASE met /\ receiveState' = OutOfSync
    <3>1. receiveState = OutOfSync /\ turned
      BY <1>3, <2>9, CharacterTaken, ByteKeepsSync DEF SyncFound, OutOfSync
    <3>2. CASE line = <<>>
      BY <2>1, <2>4, <2>6, <2>9, <3>2 DEF SyncInv, Hunting, InStep
    <3>3. CASE line # <<>>
      <4>1. Len(line) >= 2 /\ Head(line) = PAD /\ Head(Tail(line)) = SYN
        BY <3>1, <3>3 DEF SyncInv, AtMark
      <4>2. line' # <<>> /\ Head(line') = SYN
        <5>1. line \in Seq(LineBytes) /\ line' = Tail(line)
          BY <1>1, <2>1, <3>3 DEF LinkTypeOK
        <5>2. Tail(line) # <<>>
          BY <3>3, <4>1, <5>1, LastCharacter
        <5>. QED
          BY <4>1, <5>1, <5>2
      <4>3. inputBitBuffer' = PAD
        BY <1>1, <2>5, <3>3, <4>1 DEF Current
      <4>4. Hunting'
        BY <2>1, <4>2, <4>3, <1>1, WholeOrNone DEF Hunting
      <4>. QED
        BY <2>4, <2>6, <2>9, <4>4 DEF SyncInv, InStep
    <3>. QED
      BY <3>2, <3>3
  <2>. QED
    BY <2>7, <2>8, <2>9
<1>. QED
  BY <1>1, <1>2, <1>3

LEMMA AnswerKeepsSync ==
    ASSUME BitSafe', SyncInv, FramesFound, NEW f \in Frames, TransmitBits(f)
    PROVE  SyncInv'
<1>1. /\ line' = f.wire /\ bitNo' = 0
      /\ met' => Quiet /\ (receiveState = OutOfSync \/ receiveBitCounter = 0)
      /\ UNCHANGED <<turned, receiveState, receiveBitCounter, inputBitBuffer>>
  BY DEF TransmitBits, Transmit, Ready, vars, engineVars
<1>2. Current' \in Byte /\ inputBitBuffer' \in Byte
  <2>1. line' \in Seq(LineBytes) /\ inputBitBuffer' \in Byte
    BY DEF BitSafe, BitTypeOK, LinkTypeOK
  <2>. QED
    BY <2>1, LinkAssumption, LineBytesAssumption DEF Current
<1>3. TopBits'
  BY <1>1, <1>2, WholeOrNone DEF TopBits
<1>4. AtMark'
  <2>1. LeadIn(f) /\ f.wire \in Seq(LineBytes)
    BY LinkAssumption DEF FramesFound
  <2>2. Len(f.wire) >= 2 /\ Head(f.wire) = PAD /\ Head(Tail(f.wire)) = SYN
    BY <2>1 DEF LeadIn
  <2>. QED
    BY <1>1, <2>2 DEF SyncInv, AtMark
<1>5. Hunting' /\ InStep'
  BY <1>1 DEF Hunting, InStep, Quiet
<1>. QED
  BY <1>3, <1>4, <1>5 DEF SyncInv

\* The main loop takes the engine away from a frame it met only if that is one
\* it need not meet any more.
LEMMA HostOrMainEffect ==
    ASSUME HostOrMain
    PROVE  /\ UNCHANGED <<line, turned, inputBitBuffer, receiveBitCounter, bitNo>>
           /\ met' => met
           /\ \/ receiveState' = receiveState
              \/ receiveState' = OutOfSync /\ (met' => turned)
<1>. USE DEF engineVars
<1>1. UNCHANGED <<inputBitBuffer, receiveBitCounter, bitNo>>
  BY DEF HostOrMain, bitVars
<1>2. CASE WriteCommand \/ WriteReadCommand
  BY <1>1, <1>2 DEF WriteCommand, WriteReadCommand, Poll, StartRead, lineVars, vars
<1>3. CASE PrepareStep
  BY <1>1, <1>3 DEF PrepareStep, LoadReceiveBuffer, ClearReceiveBuffer, EnterHunt, Quiet
<1>4. CASE ReadStep \/ ReadExpires \/ HostGetsByte \/ HostGetsEnd
  <2>1. UNCHANGED lineVars
    BY <1>4 DEF ReadStep, ReadExpires, HostGetsByte, HostGetsEnd
  <2>2. receiveState' = receiveState
    BY <1>4
    DEF ReadStep, ReadExpires, HostGetsByte, HostGetsEnd, FrameSeen, ResetFlag, TakeFrame,
        ReadLength, TestLength, GetInRange, WaitExpires, SendBinaryByte, SendTextByte,
        GetPastEnd, NextTextByte, BinaryDone, TextDone, ResponseDone
  <2>. QED
    BY <1>1, <2>1, <2>2 DEF lineVars
<1>. QED
  BY <1>2, <1>3, <1>4 DEF HostOrMain, MainLoop

LEMMA HostKeepsSync ==
    ASSUME SyncInv, HostOrMain
    PROVE  SyncInv'
<1>1. Current' = Current
  BY HostOrMainEffect DEF Current
<1>. QED
  BY <1>1, HostOrMainEffect DEF SyncInv, TopBits, AtMark, Hunting, InStep

LEMMA BitInvAtFirst == BitInit => BitInv
<1>. SUFFICES ASSUME BitInit PROVE BitInv
  OBVIOUS
<1>1. /\ line = <<>> /\ receiveState = OutOfSync
      /\ bitNo = 0 /\ inputBitBuffer = 0 /\ turned
  BY DEF BitInit, LinkInit, Init
<1>2. Current = PAD /\ PAD \in Byte /\ 0 \in Byte
  BY <1>1 DEF Current, PAD, Byte
<1>3. TopBits
  BY <1>1, <1>2, WholeOrNone DEF TopBits
<1>4. 0 \in Marks
  BY DEF Marks
<1>. QED
  BY <1>1, <1>3, <1>4, BitSafeAtFirst DEF BitInv, SyncInv, AtMark, Hunting, InStep

LEMMA BitInvNext == BitInv /\ [BitNext]_allBitVars => BitInv'
<1>. SUFFICES ASSUME BitInv, [BitNext]_allBitVars PROVE BitInv'
  OBVIOUS
<1>1. BitSafe /\ BitSafe'
  BY BitSafeNext DEF BitInv
<1>2. ASSUME FramesFound PROVE SyncInv'
  <2>1. SyncInv
    BY <1>2 DEF BitInv
  <2>2. CASE UNCHANGED allBitVars
    BY <2>1, <2>2
    DEF allBitVars, linkVars, lineVars, vars, engineVars, bitVars,
        SyncInv, TopBits, AtMark, Hunting, InStep, Current
  <2>. QED
    BY <1>1, <1>2, <2>1, <2>2, SampleKeepsSync, BitKeepsSync, AnswerKeepsSync,
       HostKeepsSync
    DEF BitNext
<1>. QED
  BY <1>1, <1>2 DEF BitInv, FramesFound

LEMMA BitInvariant == BitSpec => []BitInv
BY BitInvAtFirst, BitInvNext, PTL DEF BitSpec

\* An engine in sync that met the frame has counted as many bits as the line
\* has of its character, whatever the bit at which the frame began and the
\* value the counter had then: the frame is cut into its own characters.
THEOREM EngineInStep ==
    ASSUME FramesFound
    PROVE  BitSpec => []InStep
<1>1. BitInv => InStep
  BY DEF BitInv, SyncInv
<1>. QED
  BY <1>1, BitInvariant, PTL

\* A step of the interrupt with an engine that is out of step.
LEMMA MissedBitOfLink ==
    ASSUME BitSafe, SyncInv, Byte \subseteq Garble, ~met, ProcessBit
    PROVE  [LinkNext]_linkVars
<1>1. /\ UNCHANGED <<env, answer, hostVars>> /\ LineAdvances /\ line \in Seq(LineBytes)
      /\ bitNo \in 1..8 /\ inputBitBuffer \in Byte
  BY DEF ProcessBit, BitSafe, BitTypeOK, BitPhase, LinkTypeOK
<1>2. UNCHANGED vars \/ EngineGarbles
  BY <1>1, BitEffect DEF EngineGarbles
<1>3. ASSUME Quiet
      PROVE  UNCHANGED vars \/ EngineTakes(PAD)
  BY <1>3, BitEffect DEF Quiet, EngineTakes, SyncInv, AtMark
<1>4. CASE bitNo < 8
  <2>1. UNCHANGED lineVars
    BY <1>1, <1>4 DEF LineAdvances
  <2>2. CASE UNCHANGED vars
    BY <1>1, <2>1, <2>2 DEF linkVars
  <2>3. CASE ~Quiet /\ EngineGarbles
    BY <1>1, <2>1, <2>3 DEF GarbledByte, LinkNext, Line
  <2>4. CASE Quiet /\ EngineTakes(PAD)
    <3>1. LineMark
      BY <1>1, <2>1, <2>4 DEF LineMark, Quiet, lineVars
    <3>. QED
      BY <3>1 DEF LinkNext, Line
  <2>. QED
    BY <1>2, <1>3, <2>2, <2>3, <2>4
<1>5. CASE bitNo = 8 /\ line = <<>>
  <2>1. Len(line) # 1 /\ ~(bitNo < 8)
    BY <1>5
  <2>2. line' = line /\ turned' = TRUE /\ UNCHANGED <<current, met, latest>>
    BY <1>1, <1>5, <2>1, Zenon DEF LineAdvances
  <2>3. CASE turned /\ UNCHANGED vars
    <3>1. UNCHANGED lineVars
      <4>1. turned' = turned
        BY <2>2, <2>3 DEF BitSafe, BitTypeOK, LinkTypeOK
      <4>. QED
        BY <2>2, <4>1 DEF lineVars
    <3>. QED
      BY <1>1, <2>3, <3>1 DEF linkVars
  <2>4. CASE turned /\ EngineTakes(PAD)
    <3>1. LineMark
      BY <1>1, <1>5, <2>2, <2>4 DEF LineMark
    <3>. QED
      BY <3>1 DEF LinkNext, Line
  <2>5. CASE ~turned
    <3>1. LineMark
      BY <1>1, <1>2, <1>5, <2>2, <2>5 DEF LineMark
    <3>. QED
      BY <3>1 DEF LinkNext, Line
  <2>. QED
    BY <1>3, <1>5, <2>3, <2>4, <2>5 DEF Quiet
<1>6. CASE bitNo = 8 /\ line # <<>>
  <2>1. (Len(line) = 1) <=> (Tail(line) = <<>>)
    BY <1>1, <1>6, LastCharacter
  <2>2. ~(bitNo < 8)
    BY <1>6
  <2>3. /\ line' = Tail(line) /\ turned' = FALSE /\ met' = met
        /\ IF Len(line) = 1
           THEN /\ current' = NoAnswer
                /\ latest' = IF met THEN current ELSE NoAnswer
           ELSE UNCHANGED <<current, latest>>
    BY <1>1, <1>6, <2>2, Zenon DEF LineAdvances
  <2>4. LineByte
    BY <1>1, <1>2, <1>6, <2>1, <2>3 DEF LineByte
  <2>. QED
    BY <2>4 DEF LinkNext, Line
<1>. QED
  BY <1>1, <1>4, <1>5, <1>6

\* A step of the interrupt with an engine that met the frame: it gets each
\* character of the frame whole, in order, and with the last of its bits.
LEMMA MetBitOfLink ==
    ASSUME BitSafe, SyncInv, met, ProcessBit
    PROVE  [LinkNext]_linkVars
<1>1. UNCHANGED <<env, answer, hostVars>> /\ LineAdvances /\ line \in Seq(LineBytes)
  BY DEF ProcessBit, BitSafe, BitTypeOK, LinkTypeOK
<1>2. CASE bitNo < 8 /\ UNCHANGED vars
  BY <1>1, <1>2 DEF LineAdvances, linkVars
<1>3. CASE bitNo = 8 /\ line = <<>>
  <2>1. Len(line) # 1 /\ ~(bitNo < 8)
    BY <1>3
  <2>2. line' = line /\ turned' = TRUE /\ UNCHANGED <<current, met, latest>>
    BY <1>1, <1>3, <2>1, Zenon DEF LineAdvances
  <2>3. EngineTakes(PAD)
    BY <1>3, CharacterTaken DEF Current, EngineTakes
  <2>4. LineMark
    BY <1>1, <1>3, <2>2, <2>3 DEF LineMark
  <2>. QED
    BY <2>4 DEF LinkNext, Line
<1>4. CASE bitNo = 8 /\ line # <<>>
  <2>1. (Len(line) = 1) <=> (Tail(line) = <<>>)
    BY <1>1, <1>4, LastCharacter
  <2>2. ~(bitNo < 8)
    BY <1>4
  <2>3. /\ line' = Tail(line) /\ turned' = FALSE /\ met' = met
        /\ IF Len(line) = 1
           THEN /\ current' = NoAnswer
                /\ latest' = IF met THEN current ELSE NoAnswer
           ELSE UNCHANGED <<current, latest>>
    BY <1>1, <1>4, <2>2, Zenon DEF LineAdvances
  <2>4. EngineTakes(Head(line))
    BY <1>4, CharacterTaken DEF Current, EngineTakes
  <2>5. LineByte
    BY <1>1, <1>4, <2>1, <2>3, <2>4 DEF LineByte
  <2>. QED
    BY <2>5 DEF LinkNext, Line
<1>. QED
  BY <1>2, <1>3, <1>4, CharacterTaken

\* Every step of the bits is a step of the characters or none.
LEMMA BitStepOfLink ==
    ASSUME BitSafe, SyncInv, Byte \subseteq Garble, [BitNext]_allBitVars
    PROVE  [LinkNext]_linkVars
<1>1. CASE GetBit \/ UNCHANGED allBitVars
  BY <1>1 DEF GetBit, allBitVars
<1>2. CASE HostOrMain \/ \E f \in Frames : TransmitBits(f)
  BY <1>2, OtherBitSteps
<1>3. CASE ProcessBit
  BY <1>3, MetBitOfLink, MissedBitOfLink
<1>. QED
  BY <1>1, <1>2, <1>3 DEF BitNext

\* The bits implement the characters, in every environment, if an engine out
\* of step may get any character.
THEOREM CharactersFromBits ==
    ASSUME FramesFound, Byte \subseteq Garble
    PROVE  BitSpec => CharacterSteps
<1>1. BitInit => LinkInit
  BY DEF BitInit
<1>2. BitInv /\ [BitNext]_allBitVars => [LinkNext]_linkVars
  BY BitStepOfLink DEF BitInv
<1>. QED
  BY <1>1, <1>2, BitInvariant, PTL DEF BitSpec, CharacterSteps

LEMMA ReadInvOfBits ==
    ASSUME FramesFound, Byte \subseteq Garble
    PROVE  BitSpec => []ReadInv
BY CharactersFromBits, ReadAtFirst, ReadNext, PTL DEF CharacterSteps

\* Bits in, frames out: of the station's well-formed frames, sent bit by bit
\* from any bit on, the host gets every one that answers its read, as BscFrames
\* defines it.
THEOREM BitsToResponse ==
    ASSUME FramesFound, Byte \subseteq Garble, KnownFrames
    PROVE  BitSpec => [](ResponseExact /\ NoLostResponse)
<1>1. ReadInv => ResponseExact /\ NoLostResponse
  BY PunctualReadsSafe
<1>. QED
  BY <1>1, ReadInvOfBits, PTL

\* And whenever they come, and at whatever bit: what a read gives the host is
\* the latest of them, unless an engine that was not ready broke one up.
THEOREM BitsToLatestFrame ==
    ASSUME FramesFound, Byte \subseteq Garble, KnownFrames
    PROVE  BitSpec => []QuietBetweenFrames /\ LatestFrame
<1>1. ReadInv => QuietBetweenFrames
  BY QuietFollows
<1>2. ReadInv /\ [LinkNext]_linkVars =>
        [result' = "sent" /\ result # "sent" /\ ~overrun /\ latest # NoAnswer =>
            hostOut = latest.stored]_linkVars
  BY LatestFrameStep
<1>. QED
  BY <1>1, <1>2, CharactersFromBits, ReadInvOfBits, PTL DEF CharacterSteps, LatestFrame
=============================================================================
