------------------------------- MODULE TimerFixed ------------------------------
(***************************************************************************)
(* The fixed timer, consensus/src/timer_fixed.rs: the configured timeout   *)
(* until the first QC is processed, and fixed_timeout, 5000 ms in the      *)
(* code, from then on.  Its estimates and limits are never used.           *)
(***************************************************************************)
EXTENDS Integers

CONSTANTS initial_timeout, fixed_timeout

new == [current_timeout |-> initial_timeout, elapsed |-> 0,
        armed |-> initial_timeout, left |-> initial_timeout]

on_round_complete(t) == [t EXCEPT !.current_timeout = fixed_timeout]

reset(t) == [t EXCEPT !.elapsed = 0, !.armed = t.current_timeout,
                      !.left = t.current_timeout]
=============================================================================
