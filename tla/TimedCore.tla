------------------------------- MODULE TimedCore -------------------------------
(***************************************************************************)
(* The round timer of one node and the handlers of consensus/src/core.rs   *)
(* that drive it, as far as they touch the timer: which round the core is  *)
(* in, the round of its highest QC, and the timer.                         *)
(*                                                                         *)
(* The files timer*.rs are alternatives for one type, chosen when the node *)
(* is built; OnRoundComplete and Reset stand for the methods of the chosen *)
(* one.  A timer is a record with at least the fields                      *)
(*   current_timeout  the timeout it computed last,                        *)
(*   elapsed          the time since round_start_time,                     *)
(*   armed, left      what the sleep was last set to, and what is left.    *)
(* Time is counted in ticks.                                               *)
(***************************************************************************)
EXTENDS Integers

CONSTANTS
  NewTimers,            \* what Timer::new(timeout_delay) returns, in each file
  OnRoundComplete(_),   \* Timer::on_round_complete
  Reset(_),             \* Timer::reset
  MaxRound,             \* bound: the last round
  MaxElapsed            \* bound: time beyond it is not told apart

ASSUME TimedCoreAssumption == MaxRound \in Nat \ {0} /\ MaxElapsed \in Nat

VARIABLE core

start_round(t) == [t EXCEPT !.elapsed = 0]

-----------------------------------------------------------------------------
(* The methods of the core.                                                *)

\* Mutant: the sleep is left as it was.
advance_round_without_reset(c, r) ==
  IF r < c.round THEN c
  ELSE [c EXCEPT !.timer = start_round(@), !.round = r + 1]
advance_round(c, r) ==
  IF r < c.round THEN c
  ELSE [c EXCEPT !.timer = start_round(Reset(@)), !.round = r + 1]

update_high_qc(c, r) == IF r > c.high_qc THEN [c EXCEPT !.high_qc = r] ELSE c

\* Mutant: the sleep is set anew by every QC.
process_qc_resets(c, r) ==
  update_high_qc(advance_round([c EXCEPT !.timer = Reset(OnRoundComplete(@))], r), r)
\* Mutant: the round is advanced before the timer learns from it.
process_qc_advances_first(c, r) ==
  LET d == advance_round(c, r)
  IN update_high_qc([d EXCEPT !.timer = OnRoundComplete(@)], r)
process_qc(c, r) ==
  update_high_qc(advance_round([c EXCEPT !.timer = OnRoundComplete(@)], r), r)

\* A timeout of round r is counted; `quorum': it completes a TC.
count_timeout(c, r, quorum) == IF quorum THEN advance_round(c, r) ELSE c

\* The own timeout reports high_qc, which is processed like any other QC.
local_timeout_round(c, quorum) ==
  LET d == [c EXCEPT !.timer = start_round(Reset(@))]
  IN count_timeout(process_qc(d, d.high_qc), d.round, quorum)

-----------------------------------------------------------------------------
Init ==
  \E t \in NewTimers :
    core = [round |-> 1, high_qc |-> 0, timer |-> start_round(Reset(t))]

\* The rounds a certificate can be of; 0 stands for QC::genesis() and for no TC.
Rounds == 0 .. MaxRound - 1

\* A vote completes a QC, for a round that is not over.
HandleVote(qc) == /\ qc >= core.round
                  /\ core' = process_qc(core, qc)

\* A proposal carries a QC, of any age, and maybe a TC.
HandleProposal(qc, tc) == core' = advance_round(process_qc(core, qc), tc)

HandleTimeout(r, qc, quorum) ==
  /\ r >= core.round
  /\ core' = count_timeout(process_qc(core, qc), r, quorum)

HandleTC(r) == /\ r >= core.round
               /\ core' = advance_round(core, r)

\* The sleep is over.
LocalTimeout(quorum) ==
  /\ core.timer.left = 0
  /\ core.round \in Rounds
  /\ core' = local_timeout_round(core, quorum)

Tick ==
  core' = [core EXCEPT !.timer.elapsed = IF @ < MaxElapsed THEN @ + 1 ELSE @,
                       !.timer.left = IF @ > 0 THEN @ - 1 ELSE 0]

Next ==
  \/ \E qc \in Rounds : HandleVote(qc)
  \/ \E qc, tc \in Rounds : HandleProposal(qc, tc)
  \/ \E r, qc \in Rounds, quorum \in BOOLEAN : HandleTimeout(r, qc, quorum)
  \/ \E r \in Rounds : HandleTC(r)
  \/ \E quorum \in BOOLEAN : LocalTimeout(quorum)
  \/ Tick

\* Time goes on, and the core gets to its timer when the sleep is over.
Fairness ==
  /\ WF_core(Tick)
  /\ WF_core(\E quorum \in BOOLEAN : LocalTimeout(quorum))

Spec == Init /\ [][Next]_core /\ Fairness

-----------------------------------------------------------------------------
(* Properties.                                                             *)

\* No round is given up early: when the sleep is over, the whole time it was
\* set to has passed since the round, or the last timeout in it, began.
FullTimeout == core.timer.left = 0 => core.timer.elapsed >= core.timer.armed

\* What a round taught the timer serves the next one: the sleep of a new round
\* is set to the timeout computed last: process_qc completes the round first.
NewRoundUsesLatest ==
  [][core'.round # core.round => core'.timer.armed = core'.timer.current_timeout]_core

\* Whatever arrives, old certificates without end included, a node that does
\* not leave its round comes to its timeout again and again.
KeepsTimingOut == []<>(core.timer.left = 0)
=============================================================================
