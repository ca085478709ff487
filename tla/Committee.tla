------------------------------ MODULE Committee ------------------------------
(***************************************************************************)
(* The committee: who takes part in the protocol, with which stake, what a *)
(* quorum is and who leads a round (consensus/src/config.rs, leader.rs).   *)
(*                                                                         *)
(* The code keeps a stake per authority and adds stakes up.  Here every    *)
(* unit of stake is an element of Units and owner says whose it is, so the *)
(* stake of a set of authorities is the cardinality of a set.              *)
(***************************************************************************)
EXTENDS Integers, Sequences, FiniteSets

CONSTANTS
  Authority,   \* the public keys of the committee
  Faulty,      \* the authorities that need not follow the protocol
  Units,       \* the units of stake
  owner,       \* whose each unit of stake is
  keys         \* the authorities in the order of their public keys

ASSUME UnitsAssumption ==
  /\ IsFiniteSet(Units)
  /\ owner \in [Units -> Authority]
  /\ Faulty \subseteq Authority

\* `keys' lists every authority exactly once.
ASSUME KeysAssumption ==
  /\ keys \in Seq(Authority)
  /\ \A a \in Authority : \E i \in 1..Len(keys) : keys[i] = a
  /\ \A i, j \in 1..Len(keys) : keys[i] = keys[j] => i = j
  /\ Len(keys) > 0

\* The code adds stakes up and doubles the sum in 32 bits: the bound below
\* keeps 2 * total_votes from wrapping round.
StakeBound == 2147483647
ASSUME StakeAssumption == Cardinality(Units) <= StakeBound

Honest == Authority \ Faulty

\* The stake of the authorities in S.
Weight(S) == Cardinality({u \in Units : owner[u] \in S})
stake(a) == Weight({a})

total_votes == Cardinality(Units)
quorum_threshold == (2 * total_votes) \div 3 + 1
IsQuorum(S) == Weight(S) >= quorum_threshold

\* The number f of the comment in config.rs: N = 3f + 1 + k, 0 <= k < 3.
max_faulty == (total_votes - 1) \div 3
FaultBound == Weight(Faulty) <= max_faulty

\* The leader of a round: the keys in order, one per round.
get_leader(round) == keys[(round % Len(keys)) + 1]
=============================================================================
