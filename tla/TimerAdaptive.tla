----------------------------- MODULE TimerAdaptive -----------------------------
(***************************************************************************)
(* The adaptive timer, consensus/src/timer.rs (timer_adaptive.rs is the    *)
(* same): a smoothed round time and its mean deviation, in floating point  *)
(* in the code and in whole ticks, rounded down, here.                     *)
(***************************************************************************)
EXTENDS Integers

CONSTANTS initial_timeout, min_timeout, max_timeout

Abs(x) == IF x < 0 THEN -x ELSE x
Clamp(x) == IF x < min_timeout THEN min_timeout
            ELSE IF x > max_timeout THEN max_timeout ELSE x

\* round_start_time is None until the first start_round, which run() calls
\* before anything else.
new == [estimated_rtt |-> initial_timeout, dev_rtt |-> initial_timeout \div 4,
        current_timeout |-> initial_timeout, elapsed |-> 0,
        armed |-> initial_timeout, left |-> initial_timeout]

\* alpha = 1/8, beta = 1/4; the deviation is taken from the old estimate.
on_round_complete(t) ==
  LET dev == (3 * t.dev_rtt + Abs(t.elapsed - t.estimated_rtt)) \div 4
      est == (7 * t.estimated_rtt + t.elapsed) \div 8
  IN [t EXCEPT !.dev_rtt = dev, !.estimated_rtt = est,
               !.current_timeout = Clamp(est + 4 * dev)]

reset(t) == [t EXCEPT !.elapsed = 0, !.armed = t.current_timeout,
                      !.left = t.current_timeout]
=============================================================================
