---------------------------- MODULE WaitTimerProofs ----------------------------
(***************************************************************************)
(* The safety of the timed wait, for every size of the counter and of the  *)
(* int, every timeout and every duration of a step.                        *)
(***************************************************************************)
EXTENDS WaitTimer, TLAPS

\* One turn of the counter is exact: a time is back in the range of
\* millis(), and adding to it is adding to the time waited.
LEMMA WrapInRange ==
    ASSUME NEW t \in Nat, t < 2 * TimeSize
    PROVE  Wrap(t) \in Times
  BY WaitAssumption DEF Wrap, Times

\* A tick of the counter is a tick of the time waited (millis() at
\* ReceiveEngine.cpp:309 and 316).
LEMMA WrapAdds ==
    ASSUME NEW s \in Times, NEW e \in Nat, e < TimeSize
    PROVE  Wrap(Wrap(s + e) + 1) = Wrap(s + (e + 1))
  BY WaitAssumption DEF Wrap, Times

\* An unsigned time that fits is returned unchanged, and every other one is
\* some int (the conversion at ReceiveEngine.cpp:316).
LEMMA ToIntKeepsSmall ==
    ASSUME NEW t \in 0..IntMax
    PROVE  ToInt(t) = t
<1>1. (t + IntMax + 1) % (2 * IntMax + 2) = t + IntMax + 1
  BY WaitAssumption, t + IntMax + 1 \in 0..(2 * IntMax + 1)
<1>. QED
  BY <1>1, WaitAssumption DEF ToInt

LEMMA ToIntInRange ==
    ASSUME NEW t \in Nat
    PROVE  ToInt(t) \in (-IntMax - 1)..IntMax
<1>1. (t + IntMax + 1) % (2 * IntMax + 2) \in 0..(2 * IntMax + 1)
  BY WaitAssumption
<1>. QED
  BY <1>1, WaitAssumption DEF ToInt

-----------------------------------------------------------------------------
\* The deadline is a time, and it is Timeout behind the start, or a turn less.
LEMMA DeadlineIs ==
    ASSUME NEW s \in Times
    PROVE  /\ Deadline(s) \in Times
           /\ s + Timeout < TimeSize => Deadline(s) = s + Timeout
           /\ s + Timeout >= TimeSize => Deadline(s) = s + Timeout - TimeSize
  BY WaitAssumption DEF Deadline, Wrap, Times

\* A loop that sees no timeout is not past it, unless the deadline is just
\* before the wrap (ReceiveEngine.cpp:312).
LEMMA NotExpiredNotLate ==
    ASSUME NEW s \in Times, NEW e \in Nat,
           Deadline(s) + 3 * MaxStep < TimeSize,
           e <= Timeout + 3 * MaxStep,
           Wrap(s + e) <= Deadline(s)
    PROVE  e <= Timeout
<1>1. e < TimeSize
  BY WaitAssumption
<1>2. CASE s + Timeout < TimeSize
  <2>1. s + e < TimeSize
    BY <1>2, DeadlineIs, WaitAssumption DEF Times
  <2>. QED
    BY <1>2, <2>1, DeadlineIs, WaitAssumption DEF Times, Wrap
<1>3. CASE s + Timeout >= TimeSize
  BY <1>1, <1>3, DeadlineIs, WaitAssumption DEF Times, Wrap
<1>. QED
  BY <1>2, <1>3, WaitAssumption DEF Times

\* A loop that sees a timeout is past it, unless the deadline is behind the
\* wrap (ReceiveEngine.cpp:312).
LEMMA ExpiredNotEarly ==
    ASSUME NEW s \in Times, NEW e \in 0..(TimeSize - 1),
           s + Timeout < TimeSize,
           Wrap(s + e) > Deadline(s)
    PROVE  e > Timeout
  BY DeadlineIs, WaitAssumption DEF Times, Wrap

\* The subtraction of two times survives the wrap (ReceiveEngine.cpp:316).
LEMMA SinceIsElapsed ==
    ASSUME NEW s \in Times, NEW e \in 0..(TimeSize - 1)
    PROVE  Since(Wrap(s + e), s) = e
  BY WaitAssumption DEF Times, Wrap, Since

-----------------------------------------------------------------------------
LEMMA InitEstablishes == Init => IndInv
<1>. SUFFICES ASSUME Init PROVE IndInv
  OBVIOUS
<1>1. 0 \in Times
  BY WaitAssumption DEF Times
<1>2. WaitTypeOK
  <2>1. /\ Deadline(0) \in Times /\ 0 \in (-IntMax - 1)..IntMax
        /\ 0 \in 0..MaxStep /\ 0 \in 0..TimeSize
    BY <1>1, DeadlineIs, WaitAssumption
  <2>. QED
    BY <1>1, <2>1 DEF Init, WaitTypeOK
<1>3. elapsed <= Timeout + Lateness
  BY WaitAssumption DEF Init, Lateness
<1>. QED
  BY <1>2, <1>3 DEF Init, IndInv, Waiting, NotEarly, HonestResult

\* A tick uses up time of the step that is under way, and the counter and
\* the time waited stay together.
LEMMA TickPreserves == IndInv /\ Tick => IndInv'
<1>. SUFFICES ASSUME IndInv, Tick PROVE IndInv'
  OBVIOUS
<1>1. WaitTypeOK'
  <2>1. now' \in Times
    BY WrapInRange, WaitAssumption DEF IndInv, WaitTypeOK, Tick, Times
  <2>2. pause' \in 0..MaxStep /\ elapsed' \in 0..TimeSize
    BY WaitAssumption DEF IndInv, WaitTypeOK, Tick
  <2>. QED
    BY <2>1, <2>2 DEF IndInv, WaitTypeOK, Tick, waitVars
<1>2. (completeByTime = Deadline(startTime))'
  BY DEF IndInv, Tick, waitVars, Deadline
<1>3. (pc \in Waiting /\ elapsed < TimeSize => now = Wrap(startTime + elapsed))'
  BY WrapAdds, WaitAssumption DEF IndInv, WaitTypeOK, Tick, waitVars
<1>4. (~NearTheWrap => elapsed <= Timeout + Lateness)'
  BY WaitAssumption
  DEF IndInv, WaitTypeOK, Tick, waitVars, NearTheWrap, Lateness, Waiting
<1>5. NotEarly' /\ HonestResult'
  BY DEF IndInv, Tick, waitVars, NotEarly, HonestResult, BehindTheWrap, Waiting
<1>. QED
  BY <1>1, <1>2, <1>3, <1>4, <1>5 DEF IndInv

LEMMA BeginsPreserves == IndInv /\ WaitBegins => IndInv'
<1>. SUFFICES ASSUME IndInv, WaitBegins PROVE IndInv'
  OBVIOUS
<1>1. WaitTypeOK'
  BY DeadlineIs, WaitAssumption DEF IndInv, WaitTypeOK, WaitBegins, GoTo, Waiting
<1>2. (completeByTime = Deadline(startTime))'
  BY DEF WaitBegins, Deadline
<1>3. now' = Wrap(startTime' + elapsed')
  BY WaitAssumption DEF IndInv, WaitTypeOK, WaitBegins, GoTo, Times, Wrap
<1>4. elapsed' <= Timeout + Lateness'
  BY WaitAssumption DEF WaitBegins, GoTo, Lateness
<1>. QED
  BY <1>1, <1>2, <1>3, <1>4 DEF IndInv, WaitBegins, GoTo, NotEarly, HonestResult

\* Each step of the loop passes the time that it took on to the next one.
LEMMA StepPreserves == IndInv /\ WaitStep => IndInv'
<1>. SUFFICES ASSUME IndInv, WaitStep PROVE IndInv'
  OBVIOUS
<1>. USE WaitAssumption
<1>1. CASE CheckFlag
  <2>1. WaitTypeOK' /\ pc' \in Waiting /\ UNCHANGED <<now, waitVars, elapsed>>
    BY <1>1 DEF CheckFlag, GoTo, IndInv, WaitTypeOK, waitVars, Waiting
  <2>2. (~NearTheWrap => elapsed <= Timeout + Lateness)'
    BY <1>1, <2>1
    DEF CheckFlag, GoTo, IndInv, WaitTypeOK, NearTheWrap, Lateness, waitVars
  <2>. QED
    BY <1>1, <2>1, <2>2
    DEF CheckFlag, GoTo, IndInv, waitVars, Waiting, NotEarly, HonestResult
<1>2. CASE TimeIsUp
  <2>1. WaitTypeOK'
    <3>1. -1 \in (-IntMax - 1)..IntMax /\ 0 \in 0..MaxStep
      OBVIOUS
    <3>. QED
      BY <1>2, <3>1 DEF TimeIsUp, GoTo, IndInv, WaitTypeOK
  <2>2. (~NearTheWrap => elapsed <= Timeout + Lateness)'
    BY <1>2
    DEF TimeIsUp, GoTo, IndInv, WaitTypeOK, NearTheWrap, Lateness
  <2>3. NotEarly'
    <3>. SUFFICES ASSUME startTime + Timeout < TimeSize, elapsed < TimeSize
                  PROVE  elapsed > Timeout
      BY <1>2
      DEF TimeIsUp, GoTo, IndInv, WaitTypeOK, NotEarly, BehindTheWrap, Times
    <3>1. now = Wrap(startTime + elapsed) /\ now > Deadline(startTime)
      BY <1>2 DEF TimeIsUp, IndInv, Expired, Waiting
    <3>. QED
      BY <3>1, ExpiredNotEarly DEF IndInv, WaitTypeOK
  <2>. QED
    BY <1>2, <2>1, <2>2, <2>3
    DEF TimeIsUp, GoTo, IndInv, HonestResult, Waiting, Deadline
<1>3. CASE TimeLeaves
  <2>1. WaitTypeOK' /\ pc' \in Waiting /\ UNCHANGED <<now, waitVars, elapsed>>
    BY <1>3 DEF TimeLeaves, GoTo, IndInv, WaitTypeOK, waitVars, Waiting
  <2>2. (~NearTheWrap => elapsed <= Timeout + Lateness)'
    <3>. SUFFICES ASSUME ~NearTheWrap PROVE elapsed <= Timeout
      BY <1>3, <2>1
      DEF TimeLeaves, GoTo, IndInv, WaitTypeOK, NearTheWrap, Lateness, waitVars
    <3>1. elapsed <= Timeout + 3 * MaxStep
      BY <1>3 DEF TimeLeaves, IndInv, WaitTypeOK, Lateness
    <3>2. now = Wrap(startTime + elapsed)
      BY <1>3, <3>1 DEF TimeLeaves, IndInv, WaitTypeOK, Waiting
    <3>3. /\ Wrap(startTime + elapsed) <= Deadline(startTime)
          /\ Deadline(startTime) + 3 * MaxStep < TimeSize
      BY <1>3, <3>2
      DEF TimeLeaves, Expired, IndInv, WaitTypeOK, Times, NearTheWrap
    <3>. QED
      BY <3>1, <3>3, NotExpiredNotLate DEF IndInv, WaitTypeOK
  <2>. QED
    BY <1>3, <2>1, <2>2
    DEF TimeLeaves, GoTo, IndInv, waitVars, Waiting, NotEarly, HonestResult
<1>4. CASE DelayEnds
  <2>1. WaitTypeOK' /\ pc' \in Waiting /\ UNCHANGED <<now, waitVars, elapsed>>
    BY <1>4 DEF DelayEnds, GoTo, IndInv, WaitTypeOK, waitVars, Waiting
  <2>2. (~NearTheWrap => elapsed <= Timeout + Lateness)'
    BY <1>4, <2>1
    DEF DelayEnds, GoTo, IndInv, WaitTypeOK, NearTheWrap, Lateness, waitVars
  <2>. QED
    BY <1>4, <2>1, <2>2
    DEF DelayEnds, GoTo, IndInv, waitVars, Waiting, NotEarly, HonestResult
<1>5. CASE ReturnTime
  <2>1. result' \in (-IntMax - 1)..IntMax
    <3>1. Since(now, startTime) \in Nat
      BY DEF IndInv, WaitTypeOK, Times, Since
    <3>. QED
      BY <1>5, <3>1, ToIntInRange DEF ReturnTime, TimeWaited
  <2>2. WaitTypeOK'
    BY <1>5, <2>1 DEF ReturnTime, GoTo, IndInv, WaitTypeOK
  <2>3. (~NearTheWrap => elapsed <= Timeout + Lateness)'
    BY <1>5
    DEF ReturnTime, GoTo, IndInv, WaitTypeOK, NearTheWrap, Lateness
  <2>4. HonestResult'
    <3>. SUFFICES ASSUME elapsed <= IntMax PROVE result' = elapsed
      BY <1>5 DEF ReturnTime, GoTo, HonestResult
    <3>1. elapsed \in 0..(TimeSize - 1) /\ elapsed \in 0..IntMax
      BY DEF IndInv, WaitTypeOK
    <3>2. now = Wrap(startTime + elapsed)
      BY <1>5, <3>1 DEF ReturnTime, IndInv, Waiting
    <3>3. Since(now, startTime) = elapsed
      BY <3>1, <3>2, SinceIsElapsed DEF IndInv, WaitTypeOK
    <3>. QED
      BY <1>5, <3>1, <3>3, ToIntKeepsSmall DEF ReturnTime, TimeWaited
  <2>. QED
    BY <1>5, <2>2, <2>3, <2>4
    DEF ReturnTime, GoTo, IndInv, NotEarly, Waiting, Deadline
<1>. QED
  BY <1>1, <1>2, <1>3, <1>4, <1>5 DEF WaitStep

LEMMA NextPreserves == IndInv /\ [Next]_vars => IndInv'
<1>. SUFFICES ASSUME IndInv, [Next]_vars PROVE IndInv'
  OBVIOUS
<1>1. CASE FrameCompletes
  BY <1>1
  DEF FrameCompletes, IndInv, WaitTypeOK, waitVars, NearTheWrap, Lateness,
      NotEarly, HonestResult, BehindTheWrap
<1>2. CASE TakeResult
  <2>1. WaitTypeOK'
    BY <1>2, WaitAssumption DEF TakeResult, GoTo, IndInv, WaitTypeOK, waitVars
  <2>2. (~NearTheWrap => elapsed <= Timeout + Lateness)'
    BY <1>2, WaitAssumption
    DEF TakeResult, GoTo, IndInv, WaitTypeOK, waitVars, NearTheWrap, Lateness
  <2>. QED
    BY <1>2, <2>1, <2>2
    DEF TakeResult, GoTo, IndInv, waitVars, NotEarly, HonestResult, Waiting
<1>3. CASE UNCHANGED vars
  BY <1>3
  DEF vars, IndInv, WaitTypeOK, waitVars, NearTheWrap, Lateness,
      NotEarly, HonestResult, BehindTheWrap
<1>. QED
  BY <1>1, <1>2, <1>3, TickPreserves, BeginsPreserves, StepPreserves DEF Next

-----------------------------------------------------------------------------
\* The invariant of the timed wait holds in every behaviour, for every size
\* of the counter, timeout and speed of the main loop (ReceiveEngine.cpp:308-318).
THEOREM InductiveInvariant == Spec => []IndInv
<1>. QED
  BY InitEstablishes, NextPreserves, PTL DEF Spec

\* A read is not given up before its time, unless its deadline is behind the
\* wrap of millis() (ReceiveEngine.cpp:312).
THEOREM NoEarlyTimeout == Spec => []NotEarly
<1>1. IndInv => NotEarly
  BY DEF IndInv
<1>. QED
  BY <1>1, InductiveInvariant, PTL

\* A read is given up in time, unless its deadline is just before the wrap
\* (ReceiveEngine.cpp:310-315).
THEOREM NoLateTimeout == Spec => []NotLate
<1>1. IndInv => NotLate
  BY WaitAssumption DEF IndInv, WaitTypeOK, Lateness, NotLate
<1>. QED
  BY <1>1, InductiveInvariant, PTL

\* The result of a wait that fits into an int tells the time of the frame,
\* and a frame that came is never reported as a timeout, wrap or not
\* (ReceiveEngine.cpp:316).
THEOREM ResultIsHonest == Spec => []HonestResult
<1>1. IndInv => HonestResult
  BY DEF IndInv
<1>. QED
  BY <1>1, InductiveInvariant, PTL
=============================================================================
