--------------------------- MODULE LinkInvariant ---------------------------
(***************************************************************************)
(* The inductive invariant of TributaryLink behind its properties of       *)
(* frames, for stations that send the frames of StationFrames: after each  *)
(* character of a frame, the state of the engine and what it has in its    *)
(* working buffer.                                                         *)
(***************************************************************************)
EXTENDS TributaryLink, StationFrames

\* The i-th character of f is a DLE for the host, stored with the next one.
Announces(f, i) ==
    \/ i = 4 /\ (IsAck(f) \/ IsTransparent(f))
    \/ i = End(f) - 1 /\ IsTransparent(f)

\* How many of the kept characters are stored after the i-th one.
Written(f, i) == IF Announces(f, i) THEN KeptUpTo(f, i) - 1 ELSE KeptUpTo(f, i)

\* The first n characters of s that fit are in the buffer.
Holds(db, s, n) ==
    /\ db.len = IF n <= MaxData THEN n ELSE MaxData
    /\ \A k \in 0..(db.len - 1) : db.buff[k] = s[k + 1]

\* The working buffer after the i-th character of f, from what it was.
BufferAfter(f, i, db) ==
    IF i \notin Kept(f) \/ Announces(f, i) THEN db
    ELSE IF Announces(f, i - 1) THEN Write(Write(db, DLE), f.wire[i])
    ELSE Write(db, f.wire[i])

\* The state of the engine after the i-th character, from the first SYN on.
StateAfter(f, i) ==
    IF i <= 3 THEN "IDLE"
    ELSE IF i = Len(f.wire) - 1 THEN "PAD"
    ELSE IF i = 4 /\ f.wire[4] = DLE THEN "IDLE"
    ELSE IF i = Len(f.wire) - 2 THEN "BCC2"
    ELSE IF i = Len(f.wire) - 3 THEN "BCC1"
    ELSE IF IsText(f) THEN "DATA" ELSE "TRANSPARENT_DATA"

\* Whether it remembers a DLE then.
DleAfter(f, i) ==
    \/ IsAck(f) /\ i >= 4
    \/ IsTransparent(f) /\ (i = 4 \/ i \in Stuffing(f) \/ i >= End(f) - 1)

InFrame(f, i) ==
    /\ receiveState = StateAfter(f, i)
    /\ previousByteDLE <=> DleAfter(f, i)
    /\ Holds(Working, f.stored, Written(f, i))

-----------------------------------------------------------------------------
\* How many characters of the frame on the line are over.
Position == Len(current.wire) - Len(line)

OnLine ==
    met /\ line # <<>> =>
        /\ current \in Frames
        /\ Position \in 0..(Len(current.wire) - 1)
        /\ \A j \in 1..Len(line) : line[j] = current.wire[Position + j]
        /\ ~Preparing
        /\ Position >= 1 => ~turned
        /\ IF Position <= 1 THEN BeforeFrame ELSE InFrame(current, Position)

OffLine ==
    met /\ line = <<>> =>
        /\ receiveState \in {OutOfSync, "IDLE"}
        /\ Working.len = 0
        /\ turned \/ receiveState = OutOfSync => ~previousByteDLE
        /\ Preparing => turned
        /\ pc = "clear" => frame = receiveDataBuffer

LatestSaved ==
    latest # NoAnswer =>
        /\ met
        /\ savedFrame # NULL
        /\ Holds(dataBuffers[savedFrame], latest.stored, Len(latest.stored))

\* While the frame that is copied is the latest one, the host has the first x
\* characters of it.
HostSoFar ==
    /\ ~Copying => x = 0
    /\ pc \in {"load", "clear", "hunt", "wait", "flag", "take"} => hostOut = <<>>
    /\ Copying /\ ~overrun /\ latest # NoAnswer =>
        /\ Holds(taken, latest.stored, Len(latest.stored))
        /\ Len(hostOut) = x
        /\ \A k \in 1..x : hostOut[k] = latest.stored[k]
        /\ pc = "length" => x = 0
        /\ pc = "send" => frameLen = taken.len /\ x <= frameLen
        /\ pc = "test" => x <= taken.len
        /\ pc \in {"get", "cell"} => x < taken.len

KnownFrames == \A f \in Frames : WellFormed(f, MaxData)

FrameInv == OnLine /\ OffLine /\ LatestSaved /\ HostSoFar

\* With a punctual station a frame completes in the wait for it, so that the
\* read has the answer to its own poll, and the flag says so.
PunctualInv ==
    Punctual =>
        /\ met
        /\ line # <<>> => pc = "wait" /\ ~frameComplete /\ current = answer
        /\ frameComplete => pc \in {"wait", "flag"}
        /\ pc = "load" \/ Preparing => Quiet
        /\ answer = NoAnswer => /\ Quiet
                                /\ pc \in {"idle", "load", "wait"} \/ Preparing
                                /\ pc = "wait" => receiveState = OutOfSync
                                /\ ~frameComplete
                                /\ result # "sent"
        /\ answer # NoAnswer /\ line = <<>> =>
              /\ latest = answer
              /\ pc # "load" /\ ~Preparing
              /\ pc = "wait" => frameComplete
              /\ pc = "idle" => result = "sent" /\ hostOut = answer.stored
        /\ answer # NoAnswer => result # "timeout"
        /\ pc # "idle" => result = "none"
        /\ ~overrun

ReadInv ==
    /\ IndInv /\ LinkTypeOK
    /\ KnownFrames => FrameInv /\ PunctualInv
=============================================================================
