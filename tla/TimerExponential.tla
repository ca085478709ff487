---------------------------- MODULE TimerExponential ---------------------------
(***************************************************************************)
(* The timer with exponential backoff, consensus/src/timer_exponential.rs. *)
(***************************************************************************)
EXTENDS Integers

CONSTANTS base_timeout, max_timeout

AtMost(x) == IF x > max_timeout THEN max_timeout ELSE x

new == [consecutive_timeouts |-> 0, current_timeout |-> base_timeout,
        elapsed |-> 0, armed |-> base_timeout, left |-> base_timeout]

on_round_complete(t) == [t EXCEPT !.consecutive_timeouts = 0,
                                  !.current_timeout = base_timeout]

\* A timeout is told from a success by the time since the round began.
backoff(t) ==
  IF t.elapsed < t.current_timeout THEN t
  ELSE [t EXCEPT !.consecutive_timeouts = @ + 1,
                 !.current_timeout =
                    AtMost(base_timeout * 2 ^ (t.consecutive_timeouts + 1))]

\* The code's reset does not start the round anew; its callers do.
reset(t) == LET u == backoff(t)
            IN [u EXCEPT !.armed = u.current_timeout, !.left = u.current_timeout]
=============================================================================
