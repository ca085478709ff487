----------------------------- MODULE TimerProofs -----------------------------
(***************************************************************************)
(* The round timer, for all values of the timeouts and of the bounds: no   *)
(* round is given up early, and a new round starts with the timeout        *)
(* computed last.                                                          *)
(*                                                                         *)
(* Of each method there is one lemma for the three timers (StartRound,     *)
(* RoundComplete, SleepReset); the proofs about the core use nothing else. *)
(***************************************************************************)
EXTENDS MCTimers, FiniteSetTheorems, TLAPS

\* The timers of the node are those of the three files.
TimersOfTheCode ==
  /\ NewTimers = MCNewTimers
  /\ \A t : OnRoundComplete(t) = MCOnRoundComplete(t)
  /\ \A t : Reset(t) = MCReset(t)

\* Time is told apart up to the longest timeout.
TimeTold ==
  /\ initial_timeout <= MaxElapsed
  /\ fixed_timeout <= MaxElapsed
  /\ max_timeout <= MaxElapsed

Ticks == 0 .. MaxElapsed
AdaptiveTimer ==
  [estimated_rtt : Nat, dev_rtt : Nat,
   current_timeout : Ticks, elapsed : Ticks, armed : Ticks, left : Ticks]
ExponentialTimer ==
  [consecutive_timeouts : Nat,
   current_timeout : Ticks, elapsed : Ticks, armed : Ticks, left : Ticks]
FixedTimer ==
  [current_timeout : Ticks, elapsed : Ticks, armed : Ticks, left : Ticks]
Timer == AdaptiveTimer \union ExponentialTimer \union FixedTimer

-----------------------------------------------------------------------------
(* The three timers.                                                       *)

\* A power of two is a number: it counts the subsets of a finite set.
LEMMA PowerOfTwo == ASSUME NEW n \in Nat PROVE 2 ^ n \in Nat
<1>1. IsFiniteSet(1..n) /\ Cardinality(1..n) = n
  BY FS_Interval
<1>2. IsFiniteSet(SUBSET (1..n)) /\ Cardinality(SUBSET (1..n)) = 2 ^ n
  BY <1>1, FS_SUBSET
<1> QED  BY <1>2, FS_CardinalityType

\* Which kind a timer is of.
LEMMA Kinds ==
  ASSUME NEW t \in Timer
  PROVE  /\ IsAdaptive(t) <=> t \in AdaptiveTimer
         /\ IsExponential(t) <=> t \in ExponentialTimer
         /\ t \in FixedTimer <=> ~ IsAdaptive(t) /\ ~ IsExponential(t)
         /\ ~ (IsAdaptive(t) /\ IsExponential(t))
         /\ t.current_timeout \in Ticks /\ t.elapsed \in Ticks
         /\ t.armed \in Ticks /\ t.left \in Ticks
<1>1. CASE t \in AdaptiveTimer
  BY <1>1 DEF AdaptiveTimer, ExponentialTimer, FixedTimer, IsAdaptive, IsExponential
<1>2. CASE t \in ExponentialTimer
  BY <1>2 DEF AdaptiveTimer, ExponentialTimer, FixedTimer, IsAdaptive, IsExponential
<1>3. CASE t \in FixedTimer
  BY <1>3 DEF AdaptiveTimer, ExponentialTimer, FixedTimer, IsAdaptive, IsExponential
<1> QED  BY <1>1, <1>2, <1>3 DEF Timer

\* One tick of the clock and of the sleep.
ticked(t) == [t EXCEPT !.elapsed = IF @ < MaxElapsed THEN @ + 1 ELSE @,
                       !.left = IF @ > 0 THEN @ - 1 ELSE 0]

\* A tick leaves the sum of what has passed and what is left of the sleep, or
\* time is not told apart any more.
LEMMA Ticked ==
  ASSUME NEW t \in Timer
  PROVE  /\ ticked(t) \in Timer
         /\ ticked(t).armed = t.armed
         /\ t.elapsed + t.left >= t.armed
              => ticked(t).elapsed + ticked(t).left >= t.armed
<1> USE TimedCoreAssumption DEF TimedCoreAssumption
<1>1. t.elapsed \in Ticks /\ t.left \in Ticks /\ t.armed \in Ticks
  BY Kinds
<1>2. PICK e \in Ticks, l \in Ticks :
        /\ e = IF t.elapsed < MaxElapsed THEN t.elapsed + 1 ELSE t.elapsed
        /\ l = IF t.left > 0 THEN t.left - 1 ELSE 0
  BY <1>1 DEF Ticks
<1>3. t.elapsed + t.left >= t.armed => e + l >= t.armed
  BY <1>1, <1>2 DEF Ticks
<1>4. PICK u : u = ticked(t)
  OBVIOUS
<1>5. u = [t EXCEPT !.elapsed = e, !.left = l]
  BY <1>2, <1>4 DEF ticked
<1>6. CASE t \in AdaptiveTimer
  <2>1. /\ u \in AdaptiveTimer /\ u.elapsed = e /\ u.left = l /\ u.armed = t.armed
    BY <1>5, <1>6 DEF AdaptiveTimer
  <2>2. t \in Timer /\ u \in Timer
    BY <2>1 DEF Timer
  <2> QED  BY <1>3, <1>4, <2>1, <2>2
<1>7. CASE t \in ExponentialTimer
  <2>1. /\ u \in ExponentialTimer /\ u.elapsed = e /\ u.left = l /\ u.armed = t.armed
        /\ u.consecutive_timeouts = t.consecutive_timeouts
    BY <1>5, <1>7 DEF ExponentialTimer
  <2>2. t \in Timer /\ u \in Timer
    BY <2>1 DEF Timer
  <2> QED  BY <1>3, <1>4, <2>1, <2>2
<1>8. CASE t \in FixedTimer
  <2>1. /\ u \in FixedTimer /\ u.elapsed = e /\ u.left = l /\ u.armed = t.armed
    BY <1>5, <1>8 DEF FixedTimer
  <2>2. t \in Timer /\ u \in Timer
    BY <2>1 DEF Timer
  <2> QED  BY <1>3, <1>4, <2>1, <2>2
<1> QED  BY <1>4, <1>6, <1>7, <1>8 DEF Timer

\* start_round sets the clock of the round to zero.
LEMMA StartRound ==
  ASSUME NEW t \in Timer, TimedCoreAssumption
  PROVE  /\ start_round(t) \in Timer
         /\ start_round(t).elapsed = 0 /\ start_round(t).left = t.left
         /\ start_round(t).armed = t.armed
         /\ start_round(t).current_timeout = t.current_timeout
<1>1. CASE t \in AdaptiveTimer
  BY <1>1 DEF AdaptiveTimer, Timer, IsExponential, start_round, TimedCoreAssumption, Ticks
<1>2. CASE t \in ExponentialTimer
  BY <1>2 DEF ExponentialTimer, Timer, IsExponential, start_round, TimedCoreAssumption, Ticks
<1>3. CASE t \in FixedTimer
  BY <1>3 DEF FixedTimer, Timer, IsExponential, start_round, TimedCoreAssumption, Ticks
<1> QED  BY <1>1, <1>2, <1>3 DEF Timer

\* A new timer is a timer.
LEMMA NewTimer ==
  ASSUME TimeTold, NEW t \in MCNewTimers
  PROVE  t \in Timer
<1> USE TimerAssumption, TimedCoreAssumption DEF TimerAssumption, TimedCoreAssumption
<1>1. /\ initial_timeout \in Ticks /\ base_timeout \in Ticks /\ 0 \in Ticks
      /\ initial_timeout \div 4 \in Nat
  BY DEF TimeTold, Ticks
<1>2. CASE t = Adaptive!new
  BY <1>1, <1>2 DEF Adaptive!new, AdaptiveTimer, Timer, IsExponential
<1>3. CASE t = Exponential!new
  BY <1>1, <1>3 DEF Exponential!new, ExponentialTimer, Timer, IsExponential
<1>4. CASE t = Fixed!new
  BY <1>1, <1>4 DEF Fixed!new, FixedTimer, Timer, IsExponential
<1> QED  BY <1>2, <1>3, <1>4 DEF MCNewTimers

\* Another count and another timeout leave an exponential timer one.
LEMMA CountSet ==
  ASSUME NEW t \in ExponentialTimer, NEW k \in Nat, NEW x \in Ticks
  PROVE  LET u == [t EXCEPT !.consecutive_timeouts = k, !.current_timeout = x]
         IN /\ u \in ExponentialTimer /\ u.consecutive_timeouts = k
            /\ u.elapsed = t.elapsed /\ u.armed = t.armed /\ u.left = t.left
BY DEF ExponentialTimer

\* A completed round changes the timeout for the rounds to come, not the sleep
\* or the clock.
LEMMA RoundComplete ==
  ASSUME TimeTold, NEW t \in Timer
  PROVE  LET u == MCOnRoundComplete(t)
         IN /\ u \in Timer
            /\ u.elapsed = t.elapsed /\ u.armed = t.armed /\ u.left = t.left
<1> USE TimerAssumption, TimedCoreAssumption DEF TimerAssumption, TimedCoreAssumption
<1> DEFINE u == MCOnRoundComplete(t)
<1>1. CASE IsAdaptive(t)
  <2>1. t \in AdaptiveTimer /\ u = Adaptive!on_round_complete(t) /\ ~ IsExponential(t)
    BY <1>1, Kinds DEF MCOnRoundComplete
  <2> DEFINE dev == (3 * t.dev_rtt + Adaptive!Abs(t.elapsed - t.estimated_rtt)) \div 4
             est == (7 * t.estimated_rtt + t.elapsed) \div 8
  <2>2. t.elapsed \in Nat /\ t.estimated_rtt \in Nat /\ t.dev_rtt \in Nat
    BY <2>1 DEF AdaptiveTimer, Ticks
  <2>3. dev \in Nat /\ est \in Nat
    BY <2>2 DEF Adaptive!Abs
  <2>4. est + 4 * dev \in Nat
    BY <2>3
  <2> HIDE DEF dev, est
  <2>5. Adaptive!Clamp(est + 4 * dev) \in Ticks
    BY <2>4 DEF Adaptive!Clamp, Ticks, TimeTold
  <2>6. u = [t EXCEPT !.dev_rtt = dev, !.estimated_rtt = est,
                      !.current_timeout = Adaptive!Clamp(est + 4 * dev)]
    BY <2>1 DEF Adaptive!on_round_complete, dev, est
  <2> HIDE DEF u
  <2>7. u \in AdaptiveTimer
    BY <2>1, <2>3, <2>5, <2>6 DEF AdaptiveTimer
  <2>8. u.elapsed = t.elapsed /\ u.armed = t.armed /\ u.left = t.left
    BY <2>1, <2>6 DEF AdaptiveTimer
  <2>9. u \in Timer
    BY <2>7 DEF Timer
  <2> QED  BY <2>7, <2>8, <2>9, Kinds DEF u
<1>2. CASE IsExponential(t)
  <2>1. t \in ExponentialTimer /\ u = Exponential!on_round_complete(t)
    BY <1>2, Kinds DEF MCOnRoundComplete
  <2>2. base_timeout \in Ticks
    BY DEF Ticks, TimeTold
  <2>3. /\ u \in ExponentialTimer /\ u.consecutive_timeouts = 0
        /\ u.elapsed = t.elapsed /\ u.armed = t.armed /\ u.left = t.left
    <3>1. \A k \in Nat, x \in Ticks :
            LET v == [t EXCEPT !.consecutive_timeouts = k, !.current_timeout = x]
            IN /\ v \in ExponentialTimer /\ v.consecutive_timeouts = k
               /\ v.elapsed = t.elapsed /\ v.armed = t.armed /\ v.left = t.left
      BY <2>1, CountSet, Zenon
    <3>2. u = [t EXCEPT !.consecutive_timeouts = 0, !.current_timeout = base_timeout]
      BY <2>1 DEF Exponential!on_round_complete
    <3>3. 0 \in Nat
      OBVIOUS
    <3> HIDE DEF u
    <3> QED  BY <2>2, <3>1, <3>2, <3>3, Zenon
  <2>4. u \in Timer
    BY <2>3 DEF Timer
  <2> QED  BY <2>3, <2>4, Kinds DEF u
<1>3. CASE ~ IsAdaptive(t) /\ ~ IsExponential(t)
  <2>1. t \in FixedTimer /\ u = Fixed!on_round_complete(t)
    BY <1>3, Kinds DEF MCOnRoundComplete
  <2>2. fixed_timeout \in Ticks
    BY DEF Ticks, TimeTold
  <2> QED  BY <2>1, <2>2 DEF Fixed!on_round_complete, FixedTimer, Timer, IsExponential
<1> QED  BY <1>1, <1>2, <1>3

\* reset sets the sleep to the timeout computed last.
LEMMA SleepReset ==
  ASSUME TimeTold, NEW t \in Timer
  PROVE  LET u == MCReset(t)
         IN /\ u \in Timer
            /\ u.armed = u.current_timeout /\ u.left = u.current_timeout
<1> USE TimerAssumption, TimedCoreAssumption DEF TimerAssumption, TimedCoreAssumption
<1> DEFINE u == MCReset(t)
<1>0. 0 \in Ticks
  BY DEF Ticks
<1>1. CASE IsAdaptive(t)
  <2>1. t \in AdaptiveTimer /\ u = Adaptive!reset(t) /\ ~ IsExponential(t)
    BY <1>1, Kinds DEF MCReset
  <2>2. u = [t EXCEPT !.elapsed = 0, !.armed = t.current_timeout,
                      !.left = t.current_timeout]
    BY <2>1 DEF Adaptive!reset
  <2> HIDE DEF u
  <2>3. /\ u \in AdaptiveTimer
        /\ u.armed = u.current_timeout /\ u.left = u.current_timeout
    BY <1>0, <2>1, <2>2 DEF AdaptiveTimer
  <2>4. u \in Timer
    BY <2>3 DEF Timer
  <2> QED  BY <2>3, <2>4 DEF u
<1>2. CASE IsExponential(t)
  <2>1. t \in ExponentialTimer /\ u = Exponential!reset(t)
    BY <1>2, Kinds DEF MCReset
  <2> DEFINE b == Exponential!backoff(t)
             long == base_timeout * 2 ^ (t.consecutive_timeouts + 1)
  <2>2. t.consecutive_timeouts + 1 \in Nat
    BY <2>1 DEF ExponentialTimer
  <2>3. 2 ^ (t.consecutive_timeouts + 1) \in Nat
    BY <2>2, PowerOfTwo
  <2>4. \A x \in Nat : base_timeout * x \in Nat
    OBVIOUS
  <2>5. long \in Nat
    BY <2>3, <2>4
  <2> HIDE DEF long
  <2>6. Exponential!AtMost(long) \in Ticks
    BY <2>5 DEF Exponential!AtMost, Ticks, TimeTold
  <2>7. b = IF t.elapsed < t.current_timeout THEN t
            ELSE [t EXCEPT !.consecutive_timeouts = @ + 1,
                           !.current_timeout = Exponential!AtMost(long)]
    BY DEF Exponential!backoff, long
  <2> HIDE DEF b
  <2>8. b \in ExponentialTimer
    <3>1. CASE t.elapsed < t.current_timeout
      BY <2>1, <2>7, <3>1 DEF ExponentialTimer
    <3>2. CASE ~ (t.elapsed < t.current_timeout)
      <4>1. b = [t EXCEPT !.consecutive_timeouts = t.consecutive_timeouts + 1,
                          !.current_timeout = Exponential!AtMost(long)]
        BY <2>7, <3>2
      <4> QED  BY <2>1, <2>2, <2>6, <4>1, CountSet
    <3> QED  BY <3>1, <3>2
  <2>9. u = [b EXCEPT !.armed = b.current_timeout, !.left = b.current_timeout]
    BY <2>1 DEF Exponential!reset, b
  <2> HIDE DEF u
  <2>10. /\ u \in ExponentialTimer
         /\ u.armed = u.current_timeout /\ u.left = u.current_timeout
    BY <2>8, <2>9 DEF ExponentialTimer
  <2>11. u \in Timer /\ IsExponential(u)
    BY <2>10 DEF Timer, ExponentialTimer, IsExponential
  <2> QED  BY <1>2, <2>8, <2>10, <2>11 DEF u
<1>3. CASE ~ IsAdaptive(t) /\ ~ IsExponential(t)
  <2>1. t \in FixedTimer /\ u = Fixed!reset(t)
    BY <1>3, Kinds DEF MCReset
  <2>2. u = [t EXCEPT !.elapsed = 0, !.armed = t.current_timeout,
                      !.left = t.current_timeout]
    BY <2>1 DEF Fixed!reset
  <2> HIDE DEF u
  <2>3. /\ u \in FixedTimer
        /\ u.armed = u.current_timeout /\ u.left = u.current_timeout
    BY <1>0, <2>1, <2>2 DEF FixedTimer
  <2>4. u \in Timer
    BY <2>3 DEF Timer
  <2> QED  BY <2>3, <2>4 DEF u
<1> QED  BY <1>1, <1>2, <1>3

-----------------------------------------------------------------------------
(* The core and its timer.                                                 *)

CoreState == [round : Nat \ {0}, high_qc : Nat, timer : Timer]

\* What of the sleep is over has passed on the clock of the round.
Paced(c) == c \in CoreState /\ c.timer.elapsed + c.timer.left >= c.timer.armed

\* A core that leaves its round for a later one sets the sleep to the timeout
\* computed last.
Rearms(c, d) == \/ d.round = c.round
                \/ d.round > c.round /\ d.timer.armed = d.timer.current_timeout

\* What is assumed of the constants.
Setting == TimersOfTheCode /\ TimeTold

\* advance_round does nothing, or starts a later round with the clock at zero.
LEMMA AdvanceRound ==
  ASSUME Setting, NEW c, Paced(c), NEW r \in Nat
  PROVE  LET d == advance_round(c, r)
         IN \/ d = c
            \/ /\ Paced(d) /\ Rearms(c, d)
               /\ d.round > c.round
<1> USE TimedCoreAssumption
<1> DEFINE d == advance_round(c, r)
<1>1. CASE r < c.round
  BY <1>1 DEF advance_round
<1>2. CASE ~ (r < c.round)
  <2>1. PICK t \in Timer : t = MCReset(c.timer) /\ /\ t.armed = t.current_timeout
                                                 /\ t.left = t.current_timeout
    BY SleepReset DEF Setting, Paced, CoreState
  <2>2. PICK s \in Timer : /\ s = start_round(t)
                           /\ s.elapsed = 0 /\ s.left = t.left /\ s.armed = t.armed
                           /\ s.current_timeout = t.current_timeout
    BY StartRound
  <2>3. d = [c EXCEPT !.timer = s, !.round = r + 1]
    BY <1>2, <2>1, <2>2 DEF advance_round, Setting, TimersOfTheCode
  <2>4. c \in CoreState
    BY DEF Paced
  <2> HIDE DEF d
  <2>5. d \in CoreState /\ d.timer = s /\ d.round = r + 1
    <3>1. r + 1 \in Nat \ {0}
      OBVIOUS
    <3>2. PICK k \in Nat \ {0} : k = r + 1
      BY <3>1
    <3>3. d = [c EXCEPT !.timer = s, !.round = k]
      BY <2>3, <3>2
    <3>4. d \in CoreState /\ d.timer = s /\ d.round = k
      BY <2>4, <3>3 DEF CoreState
    <3> QED  BY <3>2, <3>4
  <2>6. r + 1 > c.round
    BY <1>2, <2>4 DEF CoreState
  <2>7. s.left \in Ticks /\ s.armed \in Ticks
    BY Kinds
  <2>8. 0 + s.left >= s.armed
    BY <2>1, <2>2, <2>7 DEF Ticks
  <2>9. Paced(d) /\ Rearms(c, d) /\ d.round > c.round
    BY <2>1, <2>2, <2>5, <2>6, <2>8 DEF Paced, Rearms
  <2> QED  BY <2>1, <2>2, <2>5, <2>9 DEF d
<1> QED  BY <1>1, <1>2

\* process_qc, whatever it is called with.
LEMMA ProcessQC ==
  ASSUME Setting, NEW c, Paced(c), NEW r \in Nat
  PROVE  LET d == process_qc(c, r)
         IN Paced(d) /\ Rearms(c, d)
<1> DEFINE e == [c EXCEPT !.timer = OnRoundComplete(@)]
           f == advance_round(e, r)
           d == process_qc(c, r)
<1>1. c \in CoreState
  BY DEF Paced
<1>2. PICK t \in Timer : /\ t = OnRoundComplete(c.timer)
                         /\ t.elapsed = c.timer.elapsed /\ t.armed = c.timer.armed
                         /\ t.left = c.timer.left
  BY <1>1, RoundComplete DEF Setting, TimersOfTheCode, CoreState
<1>3. e = [c EXCEPT !.timer = t]
  BY <1>2
<1> HIDE DEF e
<1>4. e \in CoreState /\ e.timer = t /\ e.round = c.round
  BY <1>1, <1>3 DEF CoreState
<1>5. Paced(e)
  BY <1>2, <1>4 DEF Paced
<1>6. \/ f = e
      \/ /\ Paced(f) /\ Rearms(e, f)
         /\ f.round > e.round
  BY <1>5, AdvanceRound
<1>7. d = update_high_qc(f, r)
  BY DEF process_qc, e
<1> HIDE DEF f
<1>8. e.round \in Nat \ {0} /\ f \in CoreState
  BY <1>4, <1>6 DEF CoreState, Paced
<1>9. Paced(f) /\ Rearms(c, f)
  <2>1. CASE f = e
    BY <1>2, <1>4, <1>5, <1>8, <2>1 DEF Rearms
  <2>2. CASE f # e
    BY <1>4, <1>6, <1>8, <2>2 DEF Rearms
  <2> QED  BY <2>1, <2>2
<1> HIDE DEF d
<1>10. d.round = f.round /\ d.timer = f.timer /\ d \in CoreState
  BY <1>7, <1>8 DEF update_high_qc, CoreState
<1>11. Paced(d) /\ Rearms(c, d)
  BY <1>9, <1>10 DEF Paced, Rearms
<1> QED  BY <1>11 DEF d

\* A certificate that is processed after a QC.
LEMMA AdvanceAfter ==
  ASSUME Setting, NEW c, NEW d, c \in CoreState,
         Paced(d), Rearms(c, d), NEW r \in Nat
  PROVE  LET e == advance_round(d, r)
         IN Paced(e) /\ Rearms(c, e)
<1> DEFINE e == advance_round(d, r)
<1>1. CASE e = d
  BY <1>1
<1>2. CASE e # d
  <2>1. /\ Paced(e) /\ Rearms(d, e)
        /\ e.round > d.round
    BY <1>2, AdvanceRound
  <2> HIDE DEF e
  <2>2. /\ e.round \in Nat /\ d.round \in Nat /\ c.round \in Nat
    BY <2>1, Kinds DEF Paced, CoreState
  <2>3. Rearms(c, e)
    BY <2>1, <2>2 DEF Rearms
  <2> QED  BY <2>1, <2>3 DEF e
<1> QED  BY <1>1, <1>2

-----------------------------------------------------------------------------
(* The steps.                                                              *)

TimerInv == Paced(core)

LEMMA TimerInit == ASSUME Setting PROVE Init => TimerInv
<1> SUFFICES ASSUME Init PROVE TimerInv
  OBVIOUS
<1> USE TimedCoreAssumption
<1>1. PICK n \in NewTimers :
        core = [round |-> 1, high_qc |-> 0, timer |-> start_round(Reset(n))]
  BY DEF Init
<1>2. n \in Timer
  BY NewTimer DEF Setting, TimersOfTheCode
<1>3. PICK t \in Timer : t = Reset(n)
  BY <1>2, SleepReset DEF Setting, TimersOfTheCode
<1>4. /\ t.armed = t.current_timeout /\ t.left = t.current_timeout
  BY <1>2, <1>3, SleepReset DEF Setting, TimersOfTheCode
<1>5. PICK s \in Timer : /\ s = start_round(t)
                         /\ s.elapsed = 0 /\ s.left = t.left /\ s.armed = t.armed
  BY StartRound
<1>6. core = [round |-> 1, high_qc |-> 0, timer |-> s]
  BY <1>1, <1>3, <1>5
<1>7. core \in CoreState /\ core.timer = s /\ core.round = 1
  BY <1>6 DEF CoreState
<1>8. s.left \in Ticks /\ 0 + s.left >= s.armed
  BY <1>4, <1>5, Kinds DEF Ticks
<1> QED  BY <1>4, <1>5, <1>7, <1>8 DEF TimerInv, Paced

\* What every step does: the invariant is kept, a new round gets its timeout.
LEMMA TimerStep ==
  ASSUME Setting, TimerInv, [Next]_core
  PROVE  TimerInv' /\ Rearms(core, core')
<1> USE TimedCoreAssumption
<1> DEFINE Good(d) == Paced(d) /\ Rearms(core, d)
<1>0. core \in CoreState /\ Paced(core) /\ Good(core)
  BY DEF TimerInv, Paced, Rearms
<1>1. SUFFICES Good(core')
  BY DEF TimerInv, Paced
<1>2. Rounds \subseteq Nat
  BY DEF Rounds
<1>3. \A qc \in Nat : Good(process_qc(core, qc))
  BY <1>0, ProcessQC
<1>4. \A d : Good(d) => \A r \in Nat : Good(advance_round(d, r))
  BY <1>0, AdvanceAfter
<1> HIDE DEF Good
<1>5. \A d, r, quorum : Good(d) /\ r \in Nat => Good(count_timeout(d, r, quorum))
  BY <1>4 DEF count_timeout
<1>6. ASSUME NEW qc \in Rounds, HandleVote(qc) PROVE Good(core')
  BY <1>2, <1>3, <1>6 DEF HandleVote
<1>7. ASSUME NEW qc \in Rounds, NEW tc \in Rounds, HandleProposal(qc, tc)
      PROVE  Good(core')
  BY <1>2, <1>3, <1>4, <1>7 DEF HandleProposal
<1>8. ASSUME NEW r \in Rounds, NEW qc \in Rounds, NEW quorum \in BOOLEAN,
             HandleTimeout(r, qc, quorum)
      PROVE  Good(core')
  BY <1>2, <1>3, <1>5, <1>8 DEF HandleTimeout
<1>9. ASSUME NEW r \in Rounds, HandleTC(r) PROVE Good(core')
  BY <1>0, <1>2, <1>4, <1>9 DEF HandleTC
<1>10. ASSUME NEW quorum \in BOOLEAN, LocalTimeout(quorum) PROVE Good(core')
  <2>1. PICK t \in Timer : /\ t = Reset(core.timer)
                           /\ t.armed = t.current_timeout /\ t.left = t.current_timeout
    BY <1>0, SleepReset DEF Setting, TimersOfTheCode, CoreState
  <2>2. PICK s \in Timer : /\ s = start_round(t)
                           /\ s.elapsed = 0 /\ s.left = t.left /\ s.armed = t.armed
    BY StartRound
  <2> DEFINE d == [core EXCEPT !.timer = s]
             e == process_qc(d, d.high_qc)
  <2>3. d \in CoreState /\ d.timer = s /\ d.round = core.round /\ d.high_qc \in Nat
    BY <1>0 DEF CoreState
  <2>4. core' = count_timeout(e, d.round, quorum)
    BY <1>10, <2>1, <2>2 DEF LocalTimeout, local_timeout_round
  <2> HIDE DEF d
  <2>5. s.left \in Ticks /\ 0 + s.left >= s.armed
    BY <2>1, <2>2, Kinds DEF Ticks
  <2>6. Paced(d)
    BY <2>2, <2>3, <2>5 DEF Paced
  <2>7. Paced(e) /\ Rearms(d, e)
    BY <2>3, <2>6, ProcessQC
  <2>8. Good(e)
    BY <2>3, <2>7 DEF Rearms, Good
  <2>9. d.round \in Nat
    BY <2>3 DEF CoreState
  <2> QED  BY <1>5, <2>4, <2>8, <2>9
<1>11. ASSUME Tick PROVE Good(core')
  <2>1. PICK t \in Timer : t = core.timer
    BY <1>0 DEF CoreState
  <2>2. PICK u \in Timer : /\ u = ticked(t)
                           /\ u.armed = t.armed
                           /\ u.elapsed + u.left >= u.armed
    BY <1>0, <2>1, Ticked DEF Paced
  <2>3. core' = [core EXCEPT !.timer = u]
    BY <1>0, <1>11, <2>1, <2>2 DEF Tick, CoreState, ticked
  <2>4. core' \in CoreState /\ core'.timer = u /\ core'.round = core.round
    BY <1>0, <2>3 DEF CoreState
  <2> QED
    BY <1>0, <2>1, <2>2, <2>4 DEF Good, Paced, Rearms
<1>12. CASE UNCHANGED core
  BY <1>0, <1>12
<1> QED
  BY <1>6, <1>7, <1>8, <1>9, <1>10, <1>11, <1>12 DEF Next

-----------------------------------------------------------------------------
(* The theorems.                                                           *)

LEMMA TimerAlways == ASSUME Setting PROVE Spec => []TimerInv
<1>1. Init => TimerInv
  BY TimerInit
<1>2. TimerInv /\ [Next]_core => TimerInv'
  BY TimerStep
<1> QED  BY <1>1, <1>2, PTL DEF Spec

\* timer*.rs, reset and poll: no round is given up early.  When the sleep is
\* over, the whole time it was set to has passed since the round, or the last
\* timeout in it, began, whatever arrived in between.
THEOREM NoRoundGivenUpEarly == ASSUME Setting PROVE Spec => []FullTimeout
<1>1. TimerInv => FullTimeout
  <2>1. SUFFICES ASSUME TimerInv, core.timer.left = 0 
                 PROVE  core.timer.elapsed >= core.timer.armed
    BY DEF FullTimeout
  <2>2. core.timer \in Timer
    BY <2>1 DEF TimerInv, Paced, CoreState
  <2>3. core.timer.elapsed \in Ticks /\ core.timer.armed \in Ticks
    BY <2>2, Kinds
  <2> QED  BY <2>1, <2>3 DEF TimerInv, Paced, Ticks
<1> QED  BY <1>1, TimerAlways, PTL

\* core.rs, process_qc and advance_round: the sleep of a new round is set to the
\* timeout computed last, what the QC that led to the round taught included.
THEOREM NewRoundsUseLatest == ASSUME Setting PROVE Spec => NewRoundUsesLatest
<1>1. TimerInv /\ [Next]_core
        => [core'.round # core.round
              => core'.timer.armed = core'.timer.current_timeout]_core
  BY TimerStep DEF Rearms
<1> QED  BY <1>1, TimerAlways, PTL DEF Spec, NewRoundUsesLatest
=============================================================================
