# Verification of the USB BSC dongle

The repository is the firmware of an Arduino Leonardo that sits between a host
program (USB serial) and IBM 3270 style tributary stations (a synchronous line
with the BSC protocol). The dongle plays the modem (it drives the clocks) and
does the framing of the BSC protocol; the host program does the rest. This
directory holds TLA+ models of it, TLC configurations that check them, and
proofs for TLAPS. `PROJECT.json` lists the components, the runs, the hazards and
the source lines each definition stands for.

All paths below are relative to the repository.

## 1. Inventory

| Component | State | Operations | Talks to |
|---|---|---|---|
| `DataBuffer` (`lib/data-buffer`) | byte array of 300 from `malloc`, length, read cursor, complete flag | `clear`, `write`, `read`, `get`, `getData`, `getLength`, ... | used by both engines and by the command processors |
| `ReceiveEngine` (`lib/send-receive-engine`) | bit buffer, bit counter, receive state, "previous byte was DLE", two data buffers, the working and the saved one, frame-complete flag | interrupt: `getBit`, `processBit`, `frameComplete`; main loop: `startReceiving`, `waitReceivedFrameComplete`, `getSavedFrame` | shared memory between interrupt and main loop |
| `SendEngine` | data buffer, bit buffer and its length, transmit state, stop-on-idle flag, RXD pin | interrupt: `sendBit`; main loop: `clearBuffer`, `addByte`, `startSending`, `stopSendingOnIdle`, `waitForSendIdle` | shared memory between interrupt and main loop |
| `SyncBitBanger`, `SyncControl` | clock phase 0..3, clock and modem lines, timer | timer interrupt (four phases per bit), `setDsrReady`, `setDsrNotReady`, `deviceReset`, `init` | calls the engines from the interrupt; shares pins with `deviceReset` |
| `CommandProcessorBinary` (`lib/command-processor`) | command code, data length, debug flag | `getCommand`, `process` (WRITE, READ, WRITE_READ, DEBUG, RESET, TEXTMODE) | host over USB, engines |
| `CommandProcessorText` | line buffer, addresses, debug flag | `readCommand`, POLL, WRITE, ADDR, DEBUG, RESET, MEM, BIN, HELP | host terminal over USB, engines |
| `CommandProcessorFrontEnd` | the current command processor | one command, then a change of mode | replaces the processor object |
| Sketch (`src/usb-bsc-dongle.cpp`) | - | `setup`, `loop` | runs one command after the other |

There are two threads of control on one core: the main loop, and the timer
interrupt that comes four times per bit and interrupts the main loop anywhere.
No code disables interrupts. A third party, the tributary station, answers the
polls of the host.

What is hard in this code, in the order of the plan:

* the interrupt parses frames into one of two buffers while the main loop reads
  the other one, clears them, and starts and ends reads, all without locks;
* the parser has seven states and a "previous DLE" flag that outlives frames;
* answers come late, early, not at all, or between two reads;
* characters have to be found in a stream of bits at an unknown offset;
* the sender is filled, started and stopped in several stores while the
  interrupt runs it;
* the main loop waits for the interrupt, in one place without a timeout, in the
  other one against a millisecond counter that wraps;
* the host protocol is a byte stream whose lengths are signed 16-bit integers;
* the line editor has a buffer of 80 characters that no line resets, and the words
  of a line are cut out of it in place.

What makes each component correct: the receive engine gives the host exactly the
answer of the station to its last poll, and never a cell that was not received;
the bit level finds the characters and no others; the send engine puts every
bit of the command's frame on the line once and in order, and says so only when
it did; a clocked data line is stable while the clock is high; the host protocol
stays in step; a line of the terminal is executed once, for what it says; a read is
given up when its time is over and not before.

## 2. Modules

| Module | Models | Its state and actions |
|---|---|---|
| `BscProtocol` | `bsc_protocol.h` | the control characters; order of the bits of a byte |
| `DataBuffer` | `DataBuffer.h/.cpp` | records `[buff, len, readPos]` and operators `Clear`, `Write`, `CanRead`, `NextByte`, `Advance`; a cell of `malloc` memory is `Unwritten` until written |
| `ReceiveEngine` | `ReceiveEngine.*`, characters, and the read of both command processors | one action per branch of `processBit()` for a complete character; one action per access of the main loop to shared state (`pc` is its next statement) |
| `TributaryLink` | the same, on a line with a station | `Transmit`, `LineByte`, `LineMark`, `GarbledByte`; `Poll`, what the host gets (`hostOut`, `result`); whether a frame found the engine ready (`met`); an environment says when the station answers (`env`, chosen at the start) |
| `BitLink` | the same, bit by bit | `GetBit`, `ProcessBit`, the bit counter (modulo 2^8) and the bit buffer; a frame begins at any bit, also of an engine in sync; implements `TributaryLink` |
| `WaitTimer` | `waitReceivedFrameComplete()` | `millis()`, deadline and result with their widths; one action per test of the loop, a tick of the counter between any two of them |
| `BscFrames` | the frames a station sends | reference: characters on the line and characters the host is to get, built from their contents |
| `StationFrames` | the same frames, as one finds them on the line | recognises a frame of any length and says which characters are for the host; the hypotheses of the link theorems are stated with it |
| `LinkInvariant` | - | the inductive invariants of `TributaryLink`: what engine and buffer hold after each character of a frame |
| `SendEngine` | `SendEngine.*` and the write sequence | `sendBit()` in four cases, `clearBuffer()` and `startSending()` store by store |
| `LineSender` | - | abstract: bits go out in order, once each; `SendEngine` implements it |
| `CommandFrames` | the frames of the commands | pads and characters the command processors give to `addByte()` |
| `ClockPhases` | `SyncBitBanger.*` | the four phases of the interrupt around `SendBit` of `SendEngine`; `pins`; `setDsrReady`, `setDsrNotReady`, `deviceReset` as scripts of pin writes, one write per action |
| `BinaryCommands` | `CommandProcessorBinary` and its host | one action per byte read, one per command that is executed; messages to the host with their two length bytes; the exchange on the line is one step |
| `CommandServer` | - | abstract: commands are answered in order, once each, with an answer of theirs; `BinaryCommands` implements it |
| `TextCommands` | `CommandProcessorText`, the change of mode, and a user who types ahead | one action per kind of character read, one for the first word, one per parameter, one per command or frame sent |
| `TextConsole` | - | abstract: lines are executed one after the other for what they mean; `TextCommands` implements it |
| `ReceiverProofs` | - | theorems on `ReceiveEngine` and `TributaryLink` |
| `BitLinkProofs` | - | theorems on `BitLink` |
| `SenderProofs` | - | theorems on `SendEngine` with `LineSender`, and on `ClockPhases` |
| `BinaryCommandsProofs`, `TextCommandsProofs`, `WaitTimerProofs` | - | theorems on the module of that name |
| `DataBufferTheorems`, `FlattenTheorems` | - | lemmas on buffers; on streams of messages and on loops |
| `MC...` | - | the instances for TLC |

`TributaryLink` extends `ReceiveEngine`, `BitLink` extends `TributaryLink`:
each one adds state and conjoins it to the actions of the one below, so there is
one definition of `processBit()` for all three. `ClockPhases` extends
`SendEngine` in the same way.

Conventions. A variable has the name of the member it stands for, without the
leading underscore. History variables (`taken`, `overrun`, `turned`, `met`, `latest`, `hostOut`, `result`,
`given`, `typed`, `session`, `seen`, `elapsed`) are in no guard that models code. `turned`
is in the guard of `Poll`, an action of the environment, and so are `typed` and `session`
in that of `UserTypes`. `met` and `turned` say on the level of characters what the
alignment of the bits decides in `BitLink`, whether the engine gets the characters of
the frame; there they are history. A comment *Seeded fault*
marks a definition that is no part of a model: a plausible mistake in the code
that the listed property has to find (`mutants` in `PROJECT.json`).

### Assumptions of the models

* One core: an interrupt is atomic for the main loop, the main loop is not for
  the interrupt. Each access of the main loop to shared state is an action.
* The compiler keeps the order of the stores; most of the shared members are
  not `volatile`, but they are accessed through pointers in other translation
  units, between calls.
* Accesses of 16 bits are atomic. On the AVR they are not
  (`_savedFrame`, `_receiveDataBuffer`, `_len`). For a station that answers in the
  wait of a read, `NothingTorn` shows that the assumption costs nothing: the
  interrupt never changes one of them while the main loop is about to access it.
* `malloc` succeeds, writes to USB end.
* The DCE clock drives both directions: a bit of the line is one run of the
  four interrupt phases, and the station neither loses nor adds bits. The code
  has no check for line errors, and the models have no noise; `ReceiveEngine`,
  where any character can come at any time, covers it for the buffer safety.

### Frames that the engine does not meet

`processBit()` looks for SYN only while the engine hunts, and only
`startReceiving()` makes it hunt. An engine in sync, from a frame that is over, keeps
its character boundary (`ReceiveEngine.cpp:116-122`) and cuts the next frame into
characters there, wherever that frame begins. FF 32 32 10 70 FF three bits off is
5F 46 06 02 ..., and 02 is an STX: the engine is in text then, and marks are data.
The same happens to the rest of a frame that a read breaks into: the engine hunts
in the middle of it.

`TributaryLink` has this as `met`. `Transmit` sets it for a frame that finds the engine
`Ready`: no bit of an earlier frame under way, no read being prepared, between two
frames with a clear buffer and no DLE remembered; and hunting, or in sync and,
by chance, at a boundary. `PrepareStep` resets it when `startReceiving()` runs on a
line that is not at mark. An engine that met the frame gets its characters
(`EngineTakes`). One that did not gets any characters of `Garble`, none or several of
them for one of the line, and may find a SYN pattern anywhere (`EngineGarbles`,
`GarbledByte`), until a character of mark is over. `BitLink` has the bits themselves:
the theorem `CharactersFromBits` says that they never do anything else, at whatever bit
a frame begins, when `Garble` is all bytes.

## 3. Runs

| Run | Module | Shows |
|---|---|---|
| `ReceiveEngine` | `MCReceiveEngine` | with any sequence of the characters of control frames, transparent frames and aborts, at any time, and a read interrupted at every statement: types, `FrameIntact`, `OnlyReceivedBytesSent`, `FrameExistsWhenTaken`, and the inductive invariant `IndInv` |
| `TributaryLink` | `MCTributaryLink` | with a station that answers polls in the wait of the read, a read gives the host exactly the frame (`ResponseExact`), no answer is missed (`NoLostResponse`), a read that was answered returns (`AnsweredReadReturns`), and no access of the main loop can be torn (`NothingTorn`) |
| `AnyStation` | `MCTributaryLink` | with a station that answers at any time, across polls and under read commands, and with frames the engine does not meet: what a read gives is one whole frame, the latest (`LatestFrame`), and no parser state leaks into the next frame (`QuietBetweenFrames`), as long as the last frame was met |
| `BitLink` | `MCBitLink` | sync is found at the right bit from any offset and is kept (`InStep`), and the bits give the characters of `TributaryLink` (`CharactersOnly`, refinement) |
| `SendEngine` | `MCSendEngine` | the sender implements `LineSender`; a write that ends has sent all (`WaitMeansSent`), of its own frame (`FrameAsGiven`); the busy wait ends (`WaitReturns`) |
| `ClockPhases` | `MCClockPhases` | one pulse of each clock per bit (`OnePulsePerBit`), data lines that do not change while their clock is high (`StableWhileClocked`), no data on a line that is not ready, with `deviceReset()` between the phases (`DataOnlyWhenReady`), and mark on a line at rest (`RestAtMark`) |
| `BinaryCommands` | `MCBinaryCommands` | a host that sends ahead: every command takes its own bytes (`RequestsInStep`, `DataAsSent`), the length bytes of the messages are right (`ResponsesInStep`), and the answers are those of `CommandServer` (`AnsweredInOrder`) |
| `TextCommands` | `MCTextCommands` | with lines typed ahead: no character of one line is taken for another one (`LinesInStep`), and every line is executed for what it means, with the frames it calls for (`LinesExecuted`, refinement of `TextConsole` with its liveness) |
| `WaitTimer` | `WaitTimer` | a wait is not given up early (`NotEarly`) or late (`NotLate`) and ends (`WaitEnds`), but for two windows at the wrap of the counter; its result is the time of the frame and never hides one (`HonestResult`) |
| `SelectWriteRead`, `OverlongWrite`, `ResetUnset` | | counterexamples, section 6 |

Every passing run ends after a full search; deadlock is checked.

### Bounds and why they are enough

* `MaxData` stands for `DATABUFF_MAX_DATA` (300). The code compares with it in
  `write()` only, so what matters is a buffer with room, one that is filled to
  the last cell, and one that is too small. In `ReceiveEngine` it is 2: most
  frames are too long; the proofs cover every size. In `TributaryLink` it
  is 8: some frames fit, some end on the last cell, some are cut, one of
  them between the two writes of a pair DLE, c. In `AnyStation` it is 2: both
  frames are cut, and a buffer full of garbage is reached soon. In `SendEngine` it is 6: the
  frames have 5, 6 and 7 characters. In `ClockPhases` it is 34, the length of
  the longest text frame, and a binary frame of 35 is cut.
* `ByteSize` stands for 256. The header has two bytes and an `int` is two bytes,
  so what matters is that the high byte is used, and where the sign begins: with
  4, an `int` ends at 7, and data of 0, 1, 2 and 7 bytes and frames of 1 and 6
  bytes cover both bytes and the last positive length.
* `MaxPending` is 3: one command being executed, one behind it, and one that
  arrives meanwhile.
* `LineBytes`. `processBit()` compares characters with constants, so one
  character of each class is enough. The run `ReceiveEngine` has those that no
  frame of `MCTributaryLink` has the engine treat in the same way: DLE ENQ, which
  aborts transparent data, and a STX, an EOT or a text character with no frame
  around it; every other branch is taken by the frames.
* `Garble` in `AnyStation` is STX and NAK: one leaves the engine in text at mark, the
  other one completes a frame that no station sent. The frames are an ACK, which
  leaves a DLE remembered, and a NAK, which does not. An answer begins before a read,
  under `startReceiving()`, in the wait or during the copy, and goes on and ends in
  every other step. In the run `TributaryLink` every frame is met and `Garble` is empty.
* `Frames`. One of each kind that `processBit()` accepts, with control
  characters where they are data. Two frames at the bit level, where the content
  only matters for false SYN patterns.
* `LineSize` stands for 80, and the letters of a command word are one character.
  With 14 the longest line of ADDR fits to the last character but one, a line of
  13 characters and its newline fills the buffer, and one is longer. `MaxAhead`
  is 2: the line being executed and one typed behind it. `MaxLines` is 3: after an
  ADDR and a DEBUG there is a line that shows their effect, and after a long line
  a short one over it; the settings of a session are gone at the next one.
* `StrayValues` is what a parameter that is not there may be read as. The code
  reads a string at address 0 then, where the AVR has its registers: nothing (0),
  no number (-1), or some digits (9).
* `TimeSize`, `IntMax` stand for 2^32 and 2^15 - 1, in the same order; `Timeout`
  for 2000 and `MaxStep` for the milliseconds a `delay(1)` takes with the interrupt
  running. 48 milliseconds hold several waits, so that a wait begins at every
  distance from the wrap; the proofs cover every size.
* Polls and reads repeat without a bound; every state variable is finite.

### Constants of the environment

`TributaryLink` takes a set `Environments` and behaves as one of them:

* `answering`: the steps of the main loop in which an answer may begin. A station
  needs some time to turn around and `startReceiving()` takes microseconds, so a
  *punctual* station answers in the wait of a read. With debug messages on, a USB
  write comes before it, so that an answer can come before the read as well
  (`AnyTime`, and `BetweenReads` in the run `SelectWriteRead`).
* `turnaround`: at least one character of mark between a frame and the next
  poll. It holds for a host that waits for the answer, because the poll alone takes
  seven characters. Without it polls and reads come whatever is on the line: a READ
  right after a READ, or one that begins in the middle of a late frame. (An ACK leaves
  its DLE remembered, `ReceiveEngine.cpp:171`, until an idle character comes.)
* `patient`: the timeout does not fire within a frame. The code does not promise
  that: 2000 ms are 75 characters at the 300 bps of `SyncBitBanger.cpp:66`, and
  a frame may have 300.

`Punctual` is: in the wait, and both of the others. `ResponseExact`,
`NoLostResponse`, `AnsweredReadReturns` and `NothingTorn` are about punctual stations;
the environment `AnyTime` of the run `AnyStation` is none of it.

What `LatestFrame` and `QuietBetweenFrames` say, and what they do not: both are about a
last frame that found the engine ready. When the last frame was not met, `latest`
is `NoAnswer` and the code promises nothing: after two WRITEs whose second answer is
off the engine's boundary, the next READ returns the first answer, or what the
engine made of the second one. And the latest frame may be the answer to an
earlier poll (`SelectWriteRead`). The next `startReceiving()` on a line at mark ends
that: the frame behind it is met again, unless the engine remembers a DLE, which
`startReceiving()` leaves as it is.

The other modules:

* `Prompt` (`SendEngine`): the two stores between `startSending()` and
  `stopSendingOnIdle()` take less time than a frame. It is FALSE in the run
  `SendEngine`, whose properties do not need it, and TRUE in `ClockPhases`: if
  the interrupt ran dry in between, the sender would begin an idle character,
  still be at it when the command is answered, and a reset could come then.
* `HostAssumption` (`BinaryCommands`): the host sends lengths an `int` can hold,
  one data byte with DEBUG and none with READ, RESET, TEXTMODE and a code
  nobody knows. The code has no way to find its place in the stream again when
  a host does otherwise.
* `LineAssumption` (`TextCommands`): a line ends in its only newline, or with the
  character that fills the buffer; an overlong line counts as two or more. Every
  stream of typed characters falls into such lines and a rest that is not
  complete, so this excludes nothing a user can type.
  A parameter that is not there (`StrayValues`) is read as any `int`.
* `LinkAssumption` (`TributaryLink`): the idle line is a character of the line (PAD),
  and frames consist of such characters.
* `FramesFound` (`BitLink`, hypothesis of theorems): frames begin with PAD SYN.
  `KnownFrames` (`LinkInvariant`), section 4.
* `WaitAssumption` (`WaitTimer`): the timeout and three steps of the main loop fit
  into an int, an int into half a turn of the counter.
* A call of `deviceReset()` through the pointer that was never set returns, and
  the lines are reset or not. What such a call does to memory is not modelled.

### Fairness

* Weak fairness of the interrupt (`SendBit`; `LineByte`; `GetBit` and
  `ProcessBit`): Timer1 is free running and nothing disables interrupts.
* Weak fairness of the counter (`Tick`): Timer0 is free running.
* Weak fairness of the main loop (`MainLoop`, `WriteStep`, `WaitStep`, `Dongle`): interrupts end, so
  the main loop gets the core between them; the USB writes it makes are assumed
  to end. `WaitExpires` is part of it: a wait without an answer ends.
* None for the host or the user (new commands) and none for the station (it may be silent).

Read liveness is `AnsweredReadReturns`, for a punctual station, and `WaitEnds`, for
a wait without a frame. Every line typed is executed some time (`LinesExecuted`). The wait of the
sender has no timeout, and `WaitReturns` needs the fairness of the interrupt
only.

## 4. Proofs

`DataBufferTheorems` has lemmas on the operators of a buffer: they preserve its
type, and the relation `Grown` (same cells up to the old length, written cells
up to the new one) which composes over the pairs of writes of DLE, c.

`ReceiverProofs` proves for every `MaxData` in `Nat \ {0}`
(`MaxDataAssumption`) and every `LineBytes` that is a set of bytes
(`LineBytesAssumption`):

* `TypeCorrect`: no length, index or buffer pointer leaves its range;
* `FrameStaysIntact`: the frame being copied to the host is untouched until a
  *later* frame completes;
* `UnwrittenNeverSent`: no cell that was not received goes to the host, not
  even when a later frame clears and refills the buffer during the copy;
* `SavedFrameExists`: after the wait saw the flag, there is a saved frame.

None of them is inductive. That the frame is intact needs `BuffersApart` (the
saved buffer is not the working one). That a saved frame exists needs the flag
to imply it (`FlagMeansSaved`) and the steps between the test of the flag and
the read of the pointer to keep it. That sent cells were written needs that
cells below the length are (`LengthIsWritten`), and, since the copy holds a
length or a tested index while the interrupt may clear the buffer, that what was
below the length stays written when the length is reset (`CopyIsWritten`): `clear()`
leaves the cells alone. `IndInv` is the conjunction, theorem
`InductiveInvariant`. The proof treats the interrupt once: the 16 branches of
`processBit()` are shown to be one of three kinds of step, one that leaves the
buffers alone, a store that lets the working buffer grow (`Store`) and a handover
(`Deliver`), and these keep the invariant.

`SenderProofs` proves for every `MaxData`, every set `Frames` of byte
sequences, and both values of `Prompt` (`SendAssumption`):

* `TypeCorrect`: the read cursor stays in the buffer, the bit counter in 0..8;
* `WaitIsHonest`: a write is answered only when every bit of the buffer is out;
* `FrameIsGiven`: what is sent is the frame of the command, cut at the size of
  the buffer, and nothing of the command before it.

The argument: the interrupt never changes a cell or the length of the buffer
(`BufferKept`), so it can only disturb what the state of the engine says about
the bits that are out. `StateMeansSent` is that: an engine in idle has fetched
everything, and one that went off by itself has no bits left. Why may the engine
be off when it is filled, although the last command may be answered while an
idle character is still going out? `StopsBeforeFilling`: from
`stopSendingOnIdle()` to `clearBuffer()` the engine is off or will stop, so an
interrupt between the stores of `clearBuffer()`, which finds an empty buffer, can
only switch it off, and it is off and empty when the first character is added.
`FrameSoFar` counts the characters that were added. `IndInv` is the conjunction
and TLC checks it in the run `SendEngine`.

`WaitTimerProofs` proves for every size of the counter and of the int, every
timeout and every duration of a step (`WaitAssumption`):

* `NoEarlyTimeout`: without the frame the wait ends after the timeout, unless the
  deadline is behind the wrap of `millis()`;
* `NoLateTimeout`: it ends three steps of the main loop after it at the latest,
  unless the deadline is just before the wrap;
* `ResultIsHonest`: the result is the time of the frame, also across the wrap, and
  negative only if there was none.

The argument: for one turn of the counter, `millis()` is the start plus the time
waited, wrapped once, so the comparison of wrapped times is the comparison of
times (lemmas `NotExpiredNotLate`, `ExpiredNotEarly`), and the difference of wrapped
times is the time waited (`SinceIsElapsed`). `Lateness` gives each step of the loop
its share of the delay: a loop that saw no timeout had none, and it has three
steps until it looks again.

`ReceiverProofs` also proves for every set of frames and every set of environments
(`LinkAssumption`) that `TributaryLink` only adds to the engine:

* `LinkIsEngine`: every behaviour of the link is one of `ReceiveEngine`, so that the
  theorems above hold on it;
* `LinkTypeCorrect`: `LinkTypeOK`, in particular that the host gets characters of the
  line or -1. It needs `IndInv` of the engine, because what the host gets is a cell
  of a buffer that the interrupt may be writing.

What the frames are matters for the rest. The hypothesis `KnownFrames` is that every
frame is one of `StationFrames`: a control frame, an ACK, a text, or transparent
data with its DLEs in pairs, of any length, and that `stored` are the characters
for the host, cut at the size of the buffer. Nothing is assumed on environments or
on `Garble`. Under `KnownFrames`:

* `ResponsesExact`: a read of a punctual station gives the host the answer to
  the last poll, character by character;
* `NoResponseLost`: it times out only if the station was silent;
* `AccessesWhole`: `NothingTorn`, no access of the main loop to a pointer or a length
  can be torn by the interrupt, when the station is punctual;

and for all stations, punctual or not,

* `LatestFrameSent`: a read gives exactly the latest frame, if that one found the
  engine ready and no other frame completes under the copy;
* `LineIsQuiet`: after a frame that found the engine ready and a character of mark,
  nothing is left over for the next frame.

The argument is in `LinkInvariant`: after the i-th character of a frame, the engine is
in `StateAfter`, it remembers a DLE or not (`DleAfter`), and the working buffer
`Holds` the kept characters up to there, but for a DLE that is stored with the
character behind it (`Announces`). Each branch of `processBit()` takes the frame from
one position to the next. `FrameInv` says the same of a line without a frame, of the
saved buffer, which holds the latest frame, and of the host, which has the first x
characters of it. All of that is under the condition `met`; a frame that was not met
takes it away, and `Ready`, which `Transmit` requires, gives it back. `PunctualInv` adds that a frame completes in the wait for it and
that the flag says so. `ReadInv` has them joined with `IndInv`. TLC evaluates
`KnownAnswers` on the frames of the runs, and on every frame that `BscFrames` builds
from short texts: those frames are of `StationFrames`, so the hypothesis is not
empty, and the two ways of saying what the host is to get agree.

`BitLinkProofs` proves of the bits:

* `BitTypeCorrect`: `BitTypeOK`, with no hypothesis; the bit counter wraps while
  the engine hunts;

under `FramesFound`, that frames begin with PAD SYN, for every environment,

* `EngineInStep`: `InStep`, an engine that met the frame counts as the line does;

with any byte in `Garble`,

* `CharactersFromBits`: the bits implement `CharacterSteps`, `TributaryLink` without its
  fairness: each step of the bits is one of the characters or a stutter, also for
  frames that meet an engine in sync at another bit;

and with `KnownFrames` as well

* `BitsToResponse`: `ResponseExact` and `NoLostResponse` hold for frames that are sent
  bit by bit;
* `BitsToLatestFrame`: so do `LatestFrame` and `QuietBetweenFrames`.

`BitInv` has two parts. `BitSafe` holds on any line. `SyncInv` says that the bits of
the current character that were sampled are on top of the bit buffer
(`TopBits`), that at mark and in the first PAD there are nothing but ones behind zeros
(`AtMark`: one of nine values, none of which is a SYN), and that an engine that hunts
in the first SYN has ones below the bits of it (`Hunting`), so that the buffer is a SYN
after its last bit and not before. Then the counter is zeroed at the end of a
character of the line.

For `LineSender`, `SenderProofs` proves the refinement `BitsInOrder`,
`Spec => SendsEveryBit`, with the assumptions above. The
mapping reads the bits that are out off the read cursor and the bit counter, so
`IndInv` has to be joined by what the bit buffer holds: `BitsLeft` says that it is the
character before the cursor (in idle, a SYN) without the bits that are out, and
that there are none when the sender is off; `WriteIsOut` says that a write that was
answered is not in transmission, so that `clearBuffer()` takes no frame away that is
still going out, and that the next frame starts from its first character. Each case
of `sendBit()` is then one step of `LineSender`; of the main loop, the four stores
that are seen on the line are one, and the others are stutters. The arithmetic of the
bits is in the lemmas `Halves` and `EmitsBit`.

Of `ClockPhases` it proves, with the assumptions of the sender, without any
on the speed of the main loop,

* `ClockTypeCorrect`: `ClockTypeOK`, pins, phase and place in `deviceReset()`;
* `PulsePerBit`: one pulse of each clock per bit, whenever a reset comes;

and, when the main loop is prompt (`Prompt`),

* `DataOnReadyLine`: data on a line that is ready only;
* `MarkAtRest`: mark on a line at rest;
* `DataStable`: no change of the data line while its clock is high.

The clock and modem lines depend on the phase and on the place in `deviceReset()`
only. `ResetPlace` says what the two functions have written up to each place: the
writes that are left are those from the k-th on (`Left`). `ClockEdges` says why an
early fall of a clock does no harm: the edge is the one that the last phase would
have made. The data line depends on the sender, and there the argument is
`SenderAtRest`: a prompt main loop has asked for the stop before the sender can
begin an idle character, so the sender is off, at mark, when the command is
answered, and a reset then writes the mark that is there (`WriteFindsMark`). So every
step is one of `SendEngine` or leaves it alone (`StepOfSender`), and its `IndInv` is
used as it is.

`FlattenTheorems` has what the proofs on streams need: `FlattenSeq` of a sequence with
one more piece, of a piece and the rest, of no piece, and its type; and that the
recursive function of a loop exists and has the type of its step. The induction
theorems of the library take an operator, which the provers cannot instantiate;
`SetInduction` is an induction on a *set* of numbers, from the well-foundedness
of `<` (`WFMin`), and is enough for facts on the values of a function.

`BinaryCommandsProofs` proves for every `ByteSize`, every set of requests and frame
lengths and every `MaxPending` (`HostAssumption`):

* `BinaryTypesCorrect`: `BinTypeOK`;
* `StreamStaysInStep`: `RequestsInStep`, every command takes its own bytes;
* `DataReachesSender`: `DataAsSent`;
* `HostStaysInStep`: `ResponsesInStep`, the length bytes are the length;
* `AnswersInOrder`: the initial states are those of `CommandServer`, and every step
  is one of its steps or a stutter.

`BinInv` says what the stream is at every place of `getCommand()`: `LeftOver`, what is
left of the command, and the commands behind it. Each read takes the first byte
of it. The two bytes of the length give the length back because it is
less than half of what an `int` has (lemma `LengthBytes`); that is where
`HostAssumption` is needed. For the refinement, the answers are the codes of the
messages without the debug messages, and one message more changes them by its code or
not at all.

`TextCommandsProofs` proves for every `LineSize`, every set of lines and both bounds
(`LineAssumption`):

* `TextTypesCorrect`: `TextTypeOK`;
* `LinesStayInStep`: `LinesInStep`, a command leaves nothing of its line in the
  stream and takes nothing of the next one.

`TextInv` says that in `readCommand()` the stream is the rest of the line and the lines
behind it, and the index is where the characters read so far lead to
(`Cursor`: a carriage return leaves it, a back space takes it back, but not below 0).
So the loop ends with the last character of the line, be it a newline or the one
that fills the buffer. `TextValues` has the types of the values that the words of a line
are turned into: a number is one that an `int` holds, whatever its digits.

TLC checks the inductive invariants of `ReceiveEngine`, `SendEngine` and `WaitTimer` in
their runs. `ReadInv`, `BitInv`, `BinInv` and `TextInv` hold on the instances of the runs
`TributaryLink`, `BitLink`, `BinaryCommands` and `TextCommands` as well; they are left out
of the runs because the properties they imply are there.

Model-checked only:

* liveness, which is out of the prover's reach: `WaitReturns`, `WaitEnds`,
  `AnsweredReadReturns`, and the fairness in `CharactersOnly` and `AnsweredInOrder`,
  whose steps are proved;
* `LinesExecuted`: that a line is executed for what it means. `means` is a value the
  instance gives to each line, so a proof needs a reference that reads the meaning off
  the characters;
* the properties of the counterexamples in section 6.


## 5. Not modelled

* Accesses of 16 bits that an interrupt splits (`ReceiveEngine.h:75`) when the
  station is not punctual: a torn length or pointer. The two buffer pointers differ in
  a heap address, so a torn one would point nowhere.
* Frames that the station aborts (DLE ENQ) in `TributaryLink`: the engine stays in
  transparent data behind them, and a PAD leads the next frame. `ReceiveEngine`
  covers what that does to the buffers.
* Stations that send DLE SYN as fill in transparent data. The engine drops that DLE
  and remembers it (`ReceiveEngine.cpp:252`), so that an ETX behind the SYN ends the
  frame; the frames the repository lists have no such fill.
* A DLE in plain text: stations that send one are not among the frames (section 6).
* The first of the two `get(x)` of the text copy (`CommandProcessor.cpp:571`): it decides on
  a leading zero in the print, which is layout. The second one is two steps, length
  test and cell.
* `stopSending()`, `readLast()`, `loadData()`, `newReadOnlyCopy()`: no caller in
  the program, or one that cannot be reached with a non-empty buffer.
* `setup()`, pin set-up and timer programming: hardware access.
* The retired code of `usb-bsc-dongle.cpp:139-401`, in a comment.
* The wording of messages.
* The buffer that messages are formatted in (`printbuff`): the message with the
  first word of a line is longer than its 80 characters when the word has more
  than 65 (`CommandProcessor.cpp:279`). It is listed as a hazard without a
  property; the lines of `MCTextCommands` stand for shorter words.
* Both engines in one command: the write and the read of a WRITE_READ are checked
  one by one, each with the interrupt.
* Letters that `toupper()` changes and no command or number has.
* Lengths above 32767 in the header of a command. They are negative to the
  code, which then copies nothing; `HostAssumption` excludes them.

## 6. Disagreements between the code and what it says of itself

| Run | Property | What happens |
|---|---|---|
| `SelectWriteRead` | `ReadIsAnswer` | `startReceiving()` leaves `_frameComplete` set: a frame that completed before the read is what the read returns. The text command WRITE reads the answer to its select (ACK0) as the answer to its data. |
| `OverlongWrite` | `NoneRemainingMeansAllSent` | a write longer than the buffer is cut off and reported complete with nothing remaining. |
| `ResetUnset` | `ResetCompleted` | the constructors of the command processors give their own unset member to the base class instead of their argument; RESET calls `deviceReset()` through it and reports completion whatever that call did. |

Read in the code while modelling, with no run of their own:

* `ReceiveEngine.cpp:148` says "if latest character STX and previous character was DLE
  then we are going into transparent mode". The data branch (lines 212-214) stores a
  character and leaves `_previousByteDLE` set, and so does a SYN (line 139): SOH DLE A
  STX or DLE SYN STX enters transparent mode as well.
* RVI and WACK are listed as answers of a station in the comment above `processBit()`
  (lines 88-89). In idle, the code drops both behind a DLE, and the read times out.
* "We must be in character sync on the line" (line 116) holds for the frame that ended
  the hunt only; see *Frames that the engine does not meet*.

## 7. Plan

Done, in this order: buffer, receive engine, link, bits, send engine, clock and
modem lines, binary host protocol, the proofs of the receive engine and of the
send engine, command line, late answers, the timed wait and its proofs, the proofs
of the clock lines and of the refinement of `LineSender`, the link as a refinement of
the engine, the proofs on the contents of frames, on the bits, on the streams of
the two command processors and of the refinement of `CommandServer`, frames that the
engine does not meet, in the models and in the proofs.

Next:

1. The steps of `LinesExecuted`: a reference for the characters that a line leaves
   behind its back spaces and for the words of a line, as functions; that `strtok()`
   sees the buffer up to its first NUL only; that `means` agrees with them as an
   assumption on lines; then the refinement of `TextConsole` step by step.
2. `Dongle`: text WRITE with both engines and a station that answers both of
   its frames; frames that the station aborts.
