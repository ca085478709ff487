----------------------------- MODULE MCConsensus -----------------------------
(***************************************************************************)
(* Instances of Consensus for TLC.                                         *)
(*                                                                         *)
(* `An honest majority': auth1 has five units of seven and is a quorum by  *)
(* itself, the faulty others have one each: within the fault bound.        *)
(*                                                                         *)
(* `Two honest nodes': auth1 has two units, auth2 one, the faulty auth3    *)
(* one, within the fault bound; every quorum holds auth1 and another.      *)
(***************************************************************************)
EXTENDS Consensus

CONSTANTS
  auth1, auth2, auth3, batch,
  MaxVotes,       \* bounds of the instance: votes and timeouts an aggregator
  MaxTimeouts,    \*   holds, blocks waiting in a node, blocks in its store
  MaxWaiting,
  MaxStore

MCAuthority == {auth1, auth2, auth3}
Majority == {auth2, auth3}
MajorityUnits == 1..7
MajorityOwner == <<auth1, auth1, auth1, auth1, auth1, auth2, auth3>>
MajorityKeys == <<auth1, auth3, auth2>>
TwoHonest == {auth3}
TwoHonestUnits == 1..4
TwoHonestOwner == <<auth1, auth1, auth2, auth3>>
TwoHonestKeys == <<auth3, auth1, auth2>>

\* The block at the end of a path of rounds, and one with a batch in it.
Path(rounds) == [i \in 1..Len(rounds) |-> [round |-> rounds[i], payload |-> {}]]
WithBatch(block) == [block EXCEPT ![Len(block)].payload = {batch}]

\* A 2-chain with head <<1>>, and blocks of round 3 that keep to it or not.
LockBlocks == {Path(s) : s \in {<<>>, <<1>>, <<1,2>>, <<1,2,3>>, <<1,3>>, <<3>>}}

\* Two blocks of round 1.
TwinBlocks == {Path(s) : s \in {<<>>, <<1>>, <<1,2>>}} \union {WithBatch(Path(<<1>>))}

\* A chain with a gap, and a block that leaves a second one.
RestartBlocks ==
  {Path(s) : s \in {<<>>, <<1>>, <<1,3>>, <<1,3,4>>, <<1,3,4,5>>}}
  \union {WithBatch(Path(<<1,3,5>>))}

\* A chain with two gaps, and a chain that forks from a committed block.
TwoGapBlocks ==
  {Path(s) : s \in {<<>>, <<1>>, <<1,3>>, <<1,3,5>>, <<1,3,5,6>>, <<1,3,5,6,7>>}}
ForkBlocks ==
  {Path(s) : s \in {<<>>, <<1>>, <<1,2>>, <<1,2,3>>, <<1,3>>, <<1,3,4>>, <<1,3,4,5>>}}

Bounded ==
  \A n \in Honest :
    /\ Cardinality(core[n].votes) <= MaxVotes
    /\ Cardinality(core[n].timeouts) <= MaxTimeouts
    /\ Cardinality(core[n].pending \union core[n].awaiting \union core[n].loopback)
         <= MaxWaiting
    /\ Cardinality(core[n].store) <= MaxStore
\* The instance of two nodes leaves out votes that faulty nodes send to a node
\* that is not the next leader, and goes no further once a node holds a timeout
\* of a faulty one: the TCs made with it come as messages, too.
BoundedNet ==
  /\ Bounded
  /\ \A n \in Honest :
       /\ \A v \in core[n].votes : get_leader(RoundOf(v.block) + 1) = n
       /\ \A t \in core[n].timeouts : t.author \in Honest
=============================================================================
