--------------------------- MODULE TributaryLink ---------------------------
(***************************************************************************)
(* ReceiveEngine on a line with one tributary station.                     *)
(*                                                                         *)
(* The host polls and reads; the station answers a poll with one frame or  *)
(* stays silent.  Between frames the line is at mark.  An environment says *)
(* when an answer may come:                                                *)
(*   answering   the steps of the main loop in which one may begin;        *)
(*   turnaround  a frame is over, and followed by at least one character   *)
(*               of mark, before the next poll;                            *)
(*   patient     the read timeout is longer than a frame.                  *)
(*                                                                         *)
(* The engine looks for the SYN pattern only while it hunts.  In sync it   *)
(* goes on to cut the line into characters where it began to, and a frame  *)
(* that starts at another bit, or that a read command breaks into, becomes *)
(* other characters: any of Garble.  Module BitLink has the bits and shows *)
(* that the engine does nothing else.                                      *)
(***************************************************************************)
EXTENDS ReceiveEngine, Sequences

CONSTANTS Frames, NoAnswer, Environments, Garble

ASSUME LinkAssumption ==
    /\ PAD \in LineBytes /\ Garble \subseteq LineBytes
    /\ \A f \in Frames : f.wire \in Seq(LineBytes) /\ f.stored \in Seq(LineBytes)
    /\ NoAnswer \notin Frames
    /\ \A e \in Environments :
        /\ e.answering \subseteq MainSteps
        /\ e.turnaround \in BOOLEAN /\ e.patient \in BOOLEAN

VARIABLES
    env,            \* the environment, which does not change
    line,           \* characters still to come of the frame on the line
    current,        \* the frame on the line, or NoAnswer
    answer,         \* the answer to the last poll, or NoAnswer so far
    turned,         \* history: the line has been at mark since the last frame
    met,            \* history: the last frame found the engine ready for it,
                    \* and no read has broken into it
    hostOut,        \* history: bytes given to the host in the current read
    result,         \* history: how the last read ended
    latest          \* history: the last frame that is over on the line, or
                    \* NoAnswer when it was not met

lineVars  == <<line, current, turned, met, latest>>
hostVars  == <<hostOut, result>>
linkVars  == <<vars, env, answer, lineVars, hostVars>>

\* The station answers while the host waits for it.
Punctual == env.answering = {"wait"} /\ env.turnaround /\ env.patient

Results == {"none", "sent", "timeout"}

LinkTypeOK ==
    /\ TypeOK
    /\ env \in Environments
    /\ line \in Seq(LineBytes)
    /\ answer \in Frames \union {NoAnswer}
    /\ current \in Frames \union {NoAnswer}
    /\ turned \in BOOLEAN
    /\ met \in BOOLEAN
    /\ hostOut \in Seq(Byte \union {-1})
    /\ result \in Results
    /\ latest \in Frames \union {NoAnswer}

LinkInit ==
    /\ Init
    /\ env \in Environments
    /\ line = <<>>
    /\ answer = NoAnswer
    /\ current = NoAnswer
    /\ turned = TRUE
    /\ met = TRUE
    /\ hostOut = <<>>
    /\ result = "none"
    /\ latest = NoAnswer

-----------------------------------------------------------------------------
(***************************************************************************)
(* The station, and what the engine makes of the line.                     *)
(***************************************************************************)

\* The line is at mark, and the engine has no bit of a frame any more.
Quiet == line = <<>> /\ turned

BeforeFrame ==
    /\ receiveState \in {OutOfSync, "IDLE"}
    /\ ~previousByteDLE
    /\ Working.len = 0

Preparing == pc \in {"clear", "hunt"}

\* The engine is ready for a frame, but for the bit at which that begins.
Ready == Quiet /\ ~Preparing /\ BeforeFrame

\* A hunting engine finds the first SYN of the frame at any bit; one in sync
\* is met if the frame happens to begin where the engine begins a character.
Transmit(f) ==
    /\ pc \in env.answering
    /\ line = <<>>
    /\ answer = NoAnswer
    /\ line' = f.wire
    /\ current' = f
    /\ answer' = f
    /\ met' \in IF ~Ready THEN {FALSE}
               ELSE IF receiveState = OutOfSync THEN {TRUE} ELSE BOOLEAN
    /\ latest' = IF met' THEN latest ELSE NoAnswer
    /\ UNCHANGED <<vars, env, turned, hostVars>>

\* The interrupt gets the character b of the line.
EngineTakes(b) ==
    \/ b = SYN /\ SyncFound
    \/ receiveState = OutOfSync /\ b # SYN /\ UNCHANGED vars
    \/ ProcessByte(b)

\* It gets something else, at any bit of a character.
EngineGarbles == SyncFound \/ \E b \in Garble : ProcessByte(b)

\* The next character of the frame is over on the line.
LineByte ==
    /\ line # <<>>
    /\ line' = Tail(line)
    /\ turned' = FALSE
    /\ IF Tail(line) # <<>>
       THEN UNCHANGED <<current, latest>>
       ELSE /\ current' = NoAnswer
            /\ latest' = IF met THEN current ELSE NoAnswer
    /\ IF met THEN EngineTakes(Head(line)) ELSE UNCHANGED vars \/ EngineGarbles
    /\ UNCHANGED <<env, answer, met, hostVars>>

\* Eight bits of mark.  The first of them may fall into a character with the
\* last bits of the frame.
LineMark ==
    /\ line = <<>>
    /\ turned' = TRUE
    /\ IF met \/ turned THEN EngineTakes(PAD) ELSE UNCHANGED vars \/ EngineGarbles
    /\ UNCHANGED <<env, answer, line, current, met, latest, hostVars>>

\* A character of an engine out of step is over before one of the line.
GarbledByte ==
    /\ ~met
    /\ ~Quiet
    /\ EngineGarbles
    /\ UNCHANGED <<env, answer, lineVars, hostVars>>

-----------------------------------------------------------------------------
\* The host and the main loop.

\* The poll went out.
Poll ==
    /\ pc = "idle"
    /\ env.turnaround => Quiet
    /\ answer' = NoAnswer
    /\ hostOut' = <<>>
    /\ result' = "none"
    /\ UNCHANGED <<env, lineVars>>

WriteCommand == Poll /\ UNCHANGED vars

WriteReadCommand == Poll /\ StartRead

ReadExpires ==
    /\ WaitExpires
    /\ env.patient => line = <<>>
    /\ result' = "timeout"
    /\ UNCHANGED <<env, lineVars, answer, hostOut>>

HostGetsByte ==
    /\ SendBinaryByte \/ GetPastEnd \/ SendTextByte
    /\ hostOut' = Append(hostOut, HostByte)
    /\ UNCHANGED <<env, lineVars, answer, result>>

HostGetsEnd ==
    /\ BinaryDone \/ TextDone
    /\ result' = "sent"
    /\ UNCHANGED <<env, lineVars, answer, hostOut>>

\* startReceiving() takes the engine away from a frame it was reading.
PrepareStep ==
    /\ LoadReceiveBuffer \/ ClearReceiveBuffer \/ EnterHunt
    /\ IF Quiet THEN UNCHANGED <<met, latest>>
                ELSE met' = FALSE /\ latest' = NoAnswer
    /\ UNCHANGED <<env, answer, line, current, turned, hostVars>>

ReadStep ==
    /\ \/ FrameSeen \/ ResetFlag \/ TakeFrame
       \/ ReadLength \/ TestLength \/ GetInRange
    /\ UNCHANGED <<env, lineVars, answer, hostVars>>

MainLoop ==
    PrepareStep \/ ReadStep \/ ReadExpires \/ HostGetsByte \/ HostGetsEnd

Line == LineByte \/ LineMark \/ GarbledByte

LinkNext ==
    \/ \E f \in Frames : Transmit(f)
    \/ Line
    \/ WriteCommand \/ WriteReadCommand \/ MainLoop

\* The timer interrupt always comes again, and the main loop always gets on.
LinkSpec == LinkInit /\ [][LinkNext]_linkVars
                     /\ WF_linkVars(LineByte) /\ WF_linkVars(MainLoop)

-----------------------------------------------------------------------------
\* A read gives the host the answer of the station to its last poll.
ReadIsAnswer == result = "sent" => answer # NoAnswer /\ hostOut = answer.stored

\* What the host sees is the answer of the station to its last poll,
\* character by character as BscFrames defines it: sync and fill characters
\* removed, stuffed DLEs halved, control characters inside a BCC or
\* transparent text taken as data, nothing left over from earlier frames, cut
\* off where the buffer is full (processBit, getSavedFrame, sendResponse).
ResponseExact == Punctual => ReadIsAnswer

\* A read that times out was not answered: no frame of the station is
\* missed, whatever its kind and whatever was received before it.
NoLostResponse == Punctual /\ result = "timeout" => answer = NoAnswer

\* A read that was answered ends with the frame, not with the timeout, and
\* the wait, take and copy steps get there although marks keep arriving.
AnsweredReadReturns ==
    (Punctual /\ pc = "wait" /\ answer # NoAnswer) ~> (result = "sent")

\* Whenever answers come - late, after the read has timed out, between reads,
\* while one is prepared: what a read gives the host is one frame of the
\* station, whole, and the latest one that was over when the read took it.
\* Two things break this: a further frame that completes under the copy
\* (frameComplete, getSavedFrame), and a frame that the engine did not meet.
LatestFrame ==
    [][result' = "sent" /\ result # "sent" /\ ~overrun /\ latest # NoAnswer =>
        hostOut = latest.stored]_linkVars

\* The pointers and lengths the main loop reads are 16 bits wide and take the
\* processor two loads, and so do its stores.  When the station is punctual
\* the interrupt never changes one that the main loop is about to read or to
\* write, so that no access can be torn (startReceiving, getSavedFrame,
\* getLength, get).
NothingTorn ==
    [][Punctual =>
        /\ pc = "take" /\ pc' = pc => UNCHANGED savedFrame
        /\ pc = "load" /\ pc' = pc => UNCHANGED receiveDataBuffer
        /\ pc \in {"clear", "length", "test", "get", "cell"} /\ pc' = pc =>
            dataBuffers'[frame].len = dataBuffers[frame].len]_linkVars

\* An engine that was ready for a frame is ready again when the line has
\* turned around: it is between two frames, remembers no DLE and has a clear
\* buffer.  One that missed a frame, or a part of it, need not be before it
\* hunts again.
QuietBetweenFrames == turned /\ met => BeforeFrame
=============================================================================
