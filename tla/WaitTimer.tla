------------------------------- MODULE WaitTimer -------------------------------
(***************************************************************************)
(* The clock of waitReceivedFrameComplete(), which the other modules leave *)
(* to chance (WaitExpires of ReceiveEngine).                               *)
(*                                                                         *)
(* millis() is an unsigned counter that wraps; the deadline is computed    *)
(* once and wraps too; the time waited is returned in an int that is       *)
(* narrower than the counter, where a negative value says "timeout".       *)
(***************************************************************************)
EXTENDS Integers

CONSTANTS
    TimeSize,   \* number of values of millis(): 2^32 in the program
    IntMax,     \* longest time that an int can tell: 2^15 - 1
    Timeout,    \* RECEIVE_TIMEOUT
    MaxStep     \* milliseconds that one step of the main loop may take

ASSUME WaitAssumption ==
    /\ TimeSize \in Nat /\ IntMax \in Nat /\ Timeout \in Nat /\ MaxStep \in Nat
    /\ MaxStep > 0
    /\ Timeout + 3 * MaxStep <= IntMax
    /\ 2 * IntMax < TimeSize

VARIABLES
    now,            \* millis()
    frameComplete,
    pc,             \* where the main loop is
    startTime,
    completeByTime,
    result,         \* what the wait returned
    seen,           \* history: the loop ended because of the flag
    elapsed,        \* history: milliseconds since the wait began, at most TimeSize
    pause           \* milliseconds since the last step of the main loop

waitVars == <<startTime, completeByTime, result, seen>>
vars     == <<now, frameComplete, pc, waitVars, elapsed, pause>>

Times   == 0..(TimeSize - 1)
Waiting == {"check", "time", "delay", "seen"}

WaitTypeOK ==
    /\ now \in Times /\ startTime \in Times /\ completeByTime \in Times
    /\ frameComplete \in BOOLEAN /\ seen \in BOOLEAN
    /\ pc \in Waiting \union {"idle", "returned"}
    /\ result \in (-IntMax - 1)..IntMax
    /\ elapsed \in 0..TimeSize
    /\ pause \in 0..MaxStep

-----------------------------------------------------------------------------
\* The arithmetic of the counter.  No argument is off by more than one turn.

Wrap(t) == IF t >= TimeSize THEN t - TimeSize ELSE t

\* Difference of two times, as an unsigned value.
Since(t, from) == IF t >= from THEN t - from ELSE t - from + TimeSize

\* An unsigned time as the int that the function returns.
ToInt(t) == ((t + IntMax + 1) % (2 * IntMax + 2)) - IntMax - 1

\* Seeded fault: a deadline that is kept in an int.
DeadlineInInt(from) == (from + Timeout) % (IntMax + 1)

Deadline(from) == Wrap(from + Timeout)

\* Seeded fault: the test asks for the one millisecond behind the deadline.
ExpiredOnTheDot(t, by) == t = Wrap(by + 1)

Expired(t, by) == t > by

\* Seeded fault: the loop tells how much time was left, as the other common
\* form of such a function does.
TimeLeft(t, from) == ToInt(Since(Deadline(from), t))

TimeWaited(t, from) == ToInt(Since(t, from))

-----------------------------------------------------------------------------
\* millis() starts at zero and runs while nobody waits, too.  The locals of
\* the wait have no meaning before the first one.
Init ==
    /\ now = 0
    /\ frameComplete = FALSE
    /\ pc = "idle"
    /\ startTime = 0 /\ completeByTime = Deadline(0) /\ result = 0 /\ seen = FALSE
    /\ elapsed = 0
    /\ pause = 0

\* The counter's interrupt.  A step of the main loop, the delay(1) among
\* them, takes MaxStep at most; delay(1) may end without a tick, since a
\* tick of millis() is a little longer than a millisecond.
Tick ==
    /\ pc \in Waiting => pause < MaxStep
    /\ now' = Wrap(now + 1)
    /\ IF pc \in Waiting
       THEN /\ pause' = pause + 1
            /\ elapsed' = IF elapsed = TimeSize THEN elapsed ELSE elapsed + 1
       ELSE UNCHANGED <<pause, elapsed>>
    /\ UNCHANGED <<frameComplete, pc, waitVars>>

\* frameComplete(), at any time.
FrameCompletes ==
    /\ frameComplete' = TRUE
    /\ UNCHANGED <<now, pc, waitVars, elapsed, pause>>

GoTo(label) == pc' = label /\ pause' = 0 /\ UNCHANGED now

WaitBegins ==
    /\ pc = "idle"
    /\ GoTo("check")
    /\ startTime' = now
    /\ completeByTime' = Deadline(now)
    /\ elapsed' = 0
    /\ UNCHANGED <<frameComplete, result, seen>>

CheckFlag ==
    /\ pc = "check"
    /\ GoTo(IF frameComplete THEN "seen" ELSE "time")
    /\ UNCHANGED <<frameComplete, waitVars, elapsed>>

TimeIsUp ==
    /\ pc = "time" /\ Expired(now, completeByTime)
    /\ GoTo("returned")
    /\ result' = -1 /\ seen' = FALSE
    /\ UNCHANGED <<frameComplete, startTime, completeByTime, elapsed>>

TimeLeaves ==
    /\ pc = "time" /\ ~Expired(now, completeByTime)
    /\ GoTo("delay")
    /\ UNCHANGED <<frameComplete, waitVars, elapsed>>

DelayEnds ==
    /\ pc = "delay"
    /\ GoTo("check")
    /\ UNCHANGED <<frameComplete, waitVars, elapsed>>

ReturnTime ==
    /\ pc = "seen"
    /\ GoTo("returned")
    /\ result' = TimeWaited(now, startTime) /\ seen' = TRUE
    /\ UNCHANGED <<frameComplete, startTime, completeByTime, elapsed>>

\* The caller reports a timeout when the result is negative, and takes the
\* frame otherwise (getSavedFrame() resets the flag).
TakeResult ==
    /\ pc = "returned"
    /\ GoTo("idle")
    /\ frameComplete' = (frameComplete /\ result < 0)
    /\ UNCHANGED <<waitVars, elapsed>>

WaitStep == CheckFlag \/ TimeIsUp \/ TimeLeaves \/ DelayEnds \/ ReturnTime

Next == Tick \/ FrameCompletes \/ WaitBegins \/ WaitStep \/ TakeResult

\* The counter runs, and the interrupts leave time to the main loop.
Spec == Init /\ [][Next]_vars /\ WF_vars(Tick) /\ WF_vars(WaitStep)

-----------------------------------------------------------------------------
\* The deadline is so near to the wrap of the counter that the loop can step
\* over the times behind it, and then waits for the next turn, 49 days.
NearTheWrap == completeByTime + 3 * MaxStep >= TimeSize

\* The deadline is behind the wrap: every time before it looks late, and the
\* wait may end at once.
BehindTheWrap == startTime + Timeout >= TimeSize

\* A wait ends without the frame after the timeout only, except when the
\* deadline is behind the wrap (ReceiveEngine.cpp:310-312).
NotEarly ==
    pc = "returned" /\ ~seen /\ ~BehindTheWrap => elapsed > Timeout

\* A wait ends at most three steps of the main loop after the timeout, with
\* the frame or without it and on both sides of the wrap, except when the
\* deadline is just before it.
NotLate == ~NearTheWrap => elapsed <= Timeout + 3 * MaxStep

\* The caller is told the time that the frame took, also across the wrap,
\* and a negative value only if there was no frame, as long as the time fits
\* into an int (ReceiveEngine.cpp:316).
HonestResult ==
    pc = "returned" /\ elapsed <= IntMax => result = IF seen THEN elapsed ELSE -1

\* How late each step of the loop can be.
Lateness ==
    CASE pc = "delay" -> pause
      [] pc = "check" -> MaxStep + pause
      [] pc \in {"time", "seen"} -> 2 * MaxStep + pause
      [] OTHER -> 3 * MaxStep

\* The inductive invariant of the proofs (module WaitTimerProofs): the
\* counter and the time waited go together for a whole turn, and each step
\* of the loop has its share of the lateness (ReceiveEngine.cpp:309-316).
IndInv ==
    /\ WaitTypeOK
    /\ completeByTime = Deadline(startTime)
    /\ pc \in Waiting /\ elapsed < TimeSize => now = Wrap(startTime + elapsed)
    /\ ~NearTheWrap => elapsed <= Timeout + Lateness
    /\ NotEarly
    /\ HonestResult

\* Without any frame a wait ends, except when its deadline is just before
\* the wrap (ReceiveEngine.cpp:311-315).
WaitEnds == pc \in Waiting /\ ~NearTheWrap ~> pc = "returned"
=============================================================================
