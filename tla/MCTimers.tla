------------------------------- MODULE MCTimers --------------------------------
(***************************************************************************)
(* The instance of TimedCore for TLC with the three timers, in ticks of    *)
(* half a second.                                                          *)
(***************************************************************************)
EXTENDS TimedCore

CONSTANTS initial_timeout, min_timeout, base_timeout, fixed_timeout, max_timeout

ASSUME TimerAssumption ==
  /\ initial_timeout \in Nat /\ min_timeout \in Nat /\ max_timeout \in Nat
  /\ base_timeout \in Nat \ {0} /\ fixed_timeout \in Nat
  /\ min_timeout <= max_timeout /\ base_timeout <= max_timeout

Adaptive == INSTANCE TimerAdaptive
Exponential == INSTANCE TimerExponential
Fixed == INSTANCE TimerFixed

IsAdaptive(t) == "estimated_rtt" \in DOMAIN t
IsExponential(t) == "consecutive_timeouts" \in DOMAIN t

MCNewTimers == {Adaptive!new, Exponential!new, Fixed!new}
MCOnRoundComplete(t) ==
  CASE IsAdaptive(t)    -> Adaptive!on_round_complete(t)
    [] IsExponential(t) -> Exponential!on_round_complete(t)
    [] OTHER            -> Fixed!on_round_complete(t)
MCReset(t) ==
  CASE IsAdaptive(t)    -> Adaptive!reset(t)
    [] IsExponential(t) -> Exponential!reset(t)
    [] OTHER            -> Fixed!reset(t)

\* README.md:56, "when a quorum certificate is formed, signalling that the round
\* completed successfully. This is where the EWMA update happens": the estimate
\* changes in no step but one in which a QC completes the current round.
SamplesCompletedRounds ==
  [][(/\ IsAdaptive(core.timer)
       /\ core'.timer.estimated_rtt # core.timer.estimated_rtt)
         => core'.high_qc >= core.round]_core

\* README.md:71, "Doubles on timeout": a timeout in a round doubles the sleep,
\* up to the maximum.
DoublesOnTimeout ==
  [][(IsExponential(core.timer) /\ LocalTimeout(FALSE))
       => core'.timer.armed = Exponential!AtMost(2 * core.timer.armed)]_core

\* README.md:71, "resets to base on success": a round that a QC completes before
\* its time is over is followed by one with the base timeout.
ResetsOnSuccess ==
  [][ (/\ IsExponential(core.timer)
       /\ core.timer.left > 0
       /\ core'.high_qc = core.round
       /\ core'.round = core.round + 1)
         => core'.timer.armed = base_timeout]_core
=============================================================================
