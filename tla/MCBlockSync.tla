------------------------------ MODULE MCBlockSync ------------------------------
(***************************************************************************)
(* The instance of BlockSync for TLC.                                         *)
(***************************************************************************)
EXTENDS BlockSync

CONSTANTS b1, b2, b3, c2, g

\* Two blocks on the first, and one on top of one of these.
MCFork == {b1, b2, b3, c2}
ForkParent ==
  [b \in MCFork |-> CASE b = b1 -> g [] b \in {b2, c2} -> b1 [] b = b3 -> b2]
=============================================================================
