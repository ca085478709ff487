--------------------------- MODULE ConsensusProofs ---------------------------
(***************************************************************************)
(* Invariants of Consensus and the safety of the protocol, proved for      *)
(* every committee, every set of blocks and every bound.                   *)
(*                                                                         *)
(* The first part is about the operators of Core: what each handler        *)
(* returns is the state of a node again, and which parts of that state it  *)
(* leaves alone; then, a node that holds, signs and delivers only what the *)
(* certificates of a world back goes on doing so, whatever that world is.  *)
(*                                                                         *)
(* The second part lifts this to the system.  Every step of an honest node *)
(* is one operator of Core applied to its record; HonestStep says once     *)
(* what all of them guarantee: the types, the store and the votes.         *)
(* World collects what the whole committee signed, the QCs and TCs that    *)
(* verify, the votes and timeouts that are authentic; it only grows, and   *)
(* no node holds anything else.  The conclusions are drawn from that:      *)
(* those that survive restarts, then those that need the memory of a node, *)
(* safety above all.                                                       *)
(*                                                                         *)
(* The third part is about other modules: Consensus implements Ledger, and *)
(* Progress implements Consensus.                                          *)
(***************************************************************************)
EXTENDS Progress, CommitteeProofs

-----------------------------------------------------------------------------
(* Maxima.                                                                 *)

\* A finite nonempty set of naturals has a greatest element, which is its Max.
LEMMA MaxOfFinite ==
  ASSUME NEW S, S \subseteq Nat, S # {}, IsFiniteSet(S)
  PROVE  Max(S) \in S /\ \A y \in S : y <= Max(S)
<1> DEFINE Bad == {T \in SUBSET S : T # {} /\ ~ \E x \in T : \A y \in T : y <= x}
           Sizes == {Cardinality(T) : T \in Bad}
<1>1. \A T \in SUBSET S : IsFiniteSet(T) /\ Cardinality(T) \in Nat
  BY FS_Subset, FS_CardinalityType
<1>2. Bad = {}
  <2>1. SUFFICES ASSUME Bad # {} PROVE FALSE
    OBVIOUS
  <2>2. Sizes \subseteq Nat /\ Sizes # {}
    BY <2>1, <1>1
  <2> HIDE DEF Sizes
  <2>3. PICK k \in Sizes : \A j \in Sizes : k <= j
    BY <2>2, LeastNatural
  <2>4. PICK T \in Bad : k = Cardinality(T)
    BY <2>3 DEF Sizes
  <2>5. PICK x \in T : TRUE
    BY <2>4
  <2> DEFINE R == T \ {x}
  <2>6. R \in SUBSET S /\ R \notin Bad
    <3>1. R \in SUBSET S
      BY <2>4
    <3>2. Cardinality(R) = Cardinality(T) - 1
      BY <1>1, <2>4, <2>5, FS_RemoveElement
    <3>3. Cardinality(R) < Cardinality(T)
      BY <1>1, <2>4, <3>1, <3>2
    <3>4. ASSUME R \in Bad PROVE FALSE
      <4>1. Cardinality(R) \in Sizes
        BY <3>4 DEF Sizes
      <4>2. Cardinality(T) <= Cardinality(R)
        BY <4>1, <2>3, <2>4
      <4> QED  BY <4>2, <3>3, <1>1, <2>4, <3>1
    <3> QED  BY <3>1, <3>4
  <2>7. CASE R = {}
    <3>1. T = {x} /\ x \in Nat
      BY <2>7, <2>4, <2>5
    <3> QED  BY <3>1, <2>4
  <2>8. CASE R # {}
    <3>1. PICK m \in R : \A y \in R : y <= m
      BY <2>6, <2>8
    <3>2. x \in Nat /\ m \in Nat /\ T \subseteq Nat /\ T = R \union {x}
      BY <2>4, <2>5, <3>1
    <3>3. CASE m <= x
      <4>1. \A y \in T : y <= x
        BY <3>1, <3>2, <3>3
      <4> QED  BY <4>1, <2>4, <2>5
    <3>4. CASE ~ (m <= x)
      <4>1. \A y \in T : y <= m
        BY <3>1, <3>2, <3>4
      <4>2. m \in T
        BY <3>1
      <4> QED  BY <4>1, <4>2, <2>4
    <3> QED  BY <3>3, <3>4
  <2> QED  BY <2>7, <2>8
<1>3. \E x \in S : \A y \in S : y <= x
  BY <1>2
<1>4. \E x \in S : \A y \in S : x >= y
  BY <1>3
<1>5. Max(S) \in S /\ \A y \in S : Max(S) >= y
  BY <1>4 DEF Max
<1> QED  BY <1>5

-----------------------------------------------------------------------------
(* Blocks.                                                                 *)

\* Rounds, payloads and parents are what their names say.
LEMMA BlockTypes ==
  ASSUME NEW b \in Block
  PROVE  /\ RoundOf(b) \in Nat
         /\ PayloadOf(b) \subseteq Payload
         /\ Parent(b) \in Block
         /\ b \in Seq(Entry) /\ Len(b) \in Nat
         /\ \A i \in 0..Len(b) : SubSeq(b, 1, i) \in Block
         /\ b # Genesis => Parent(b) = SubSeq(b, 1, Len(b) - 1)
<1>1. b \in Seq(Entry) /\ Len(b) \in Nat
  BY BlockAssumption
<1>2. \A i \in 0..Len(b) : SubSeq(b, 1, i) \in Block
  BY BlockAssumption
<1>3. CASE b = Genesis
  BY <1>1, <1>2, <1>3 DEF RoundOf, PayloadOf, Parent
<1>4. CASE b # Genesis
  <2>1. Len(b) > 0 /\ b[Len(b)] \in Entry
    BY <1>1, <1>4 DEF Genesis
  <2>2. Parent(b) = SubSeq(b, 1, Len(b) - 1) /\ Parent(b) \in Block
    BY <1>1, <1>2, <1>4, <2>1 DEF Parent, Front
  <2> QED  BY <1>1, <1>2, <1>4, <2>1, <2>2 DEF RoundOf, PayloadOf, Last, Entry
<1> QED  BY <1>3, <1>4

\* Genesis is a block of round 0 without payload.
LEMMA GenesisBlock ==
  /\ Genesis \in Block /\ RoundOf(Genesis) = 0 /\ PayloadOf(Genesis) = {}
  /\ Parent(Genesis) = Genesis
BY BlockAssumption DEF RoundOf, PayloadOf, Parent

\* The absent timeout certificate of a proposal has the type of one.
LEMMA NoTCType == NoTC \in TC
BY DEF NoTC, TC

\* The rounds of any set of blocks have a Max.
LEMMA RoundsFinite ==
  ASSUME NEW S, S \subseteq {RoundOf(b) : b \in Block}
  PROVE  S \subseteq Nat /\ IsFiniteSet(S)
<1> DEFINE Rounds == {RoundOf(b) : b \in Block}
           f == [b \in Block |-> RoundOf(b)]
<1>1. f \in Surjection(Block, Rounds)
  BY DEF Surjection
<1>2. IsFiniteSet(Rounds)
  BY <1>1, BlockAssumption, FS_Surjection
<1>3. IsFiniteSet(S)
  BY <1>2, FS_Subset
<1> QED  BY <1>3, BlockTypes

-----------------------------------------------------------------------------
(* Rounds and certificates.                                                *)

\* What the handling of certificates, votes and timeouts leaves alone.
Kept(c, d) ==
  /\ d.last_voted_round = c.last_voted_round
  /\ d.last_committed_round = c.last_committed_round
  /\ d.store = c.store /\ d.batches = c.batches
  /\ d.pending = c.pending /\ d.awaiting = c.awaiting /\ d.loopback = c.loopback
  /\ d.delivered = c.delivered /\ d.voted = c.voted
  /\ d.timed_out = c.timed_out /\ d.proposed = c.proposed

\* Handlers that call each other leave alone what each of them does.
LEMMA KeptTransitive ==
  ASSUME NEW c, NEW d, NEW e, Kept(c, d), Kept(d, e)
  PROVE  Kept(c, e)
BY DEF Kept

\* advance_round, with the cleanup of the aggregator.
LEMMA AdvanceRound ==
  ASSUME NEW c \in CoreState, NEW r \in Nat
  PROVE  advance_round(c, r) \in CoreState /\ Kept(c, advance_round(c, r))
<1> DEFINE vs == {v \in c.votes : RoundOf(v.block) >= r + 1}
           ts == {t \in c.timeouts : t.round >= r + 1}
           next == r + 1
           d  == [c EXCEPT !.round = next, !.votes = vs, !.timeouts = ts]
<1>1. advance_round(c, r) \in {c, d}
  BY DEF advance_round, MoveTo
<1>2. vs \in SUBSET Vote /\ ts \in SUBSET Timeout
  BY DEF CoreState
<1>3. next \in Nat \ {0}
  OBVIOUS
<1> HIDE DEF vs, ts, next
<1>4. d \in CoreState
  BY <1>2, <1>3 DEF CoreState
<1>5. Kept(c, c) /\ Kept(c, d)
  BY DEF CoreState, Kept
<1> QED  BY <1>1, <1>4, <1>5

\* process_qc: the round and the highest QC, nothing else but the aggregator.
LEMMA ProcessQC ==
  ASSUME NEW c \in CoreState, NEW qc \in Block
  PROVE  process_qc(c, qc) \in CoreState /\ Kept(c, process_qc(c, qc))
<1> DEFINE d == advance_round(c, RoundOf(qc))
<1>1. d \in CoreState /\ Kept(c, d)
  BY AdvanceRound, BlockTypes
<1> HIDE DEF d
<1>2. update_high_qc(d, qc) \in CoreState /\ Kept(d, update_high_qc(d, qc))
  BY <1>1 DEF update_high_qc, CoreState, Kept
<1> QED  BY <1>1, <1>2, KeptTransitive DEF process_qc, d

\* generate_proposal queues at most a request to the proposer.
LEMMA ProposeIfLeader ==
  ASSUME NEW n, NEW c \in CoreState, NEW tc \in TC
  PROVE  /\ propose_if_leader(n, c, tc) \in CoreState
         /\ Kept(c, propose_if_leader(n, c, tc))
<1> DEFINE make == [round |-> c.round, qc |-> c.high_qc, tc |-> tc]
<1>1. make \in [round : Nat, qc : Block, tc : TC]
  BY DEF CoreState
<1> DEFINE queue == Append(c.makes, make)
<1>2. queue \in Seq([round : Nat, qc : Block, tc : TC])
  BY <1>1 DEF CoreState
<1>3. propose_if_leader(n, c, tc) \in {c, [c EXCEPT !.makes = queue]}
  BY DEF propose_if_leader
<1> HIDE DEF queue
<1>4. [c EXCEPT !.makes = queue] \in CoreState
  BY <1>2 DEF CoreState
<1>5. Kept(c, c) /\ Kept(c, [c EXCEPT !.makes = queue])
  BY DEF CoreState, Kept
<1> QED  BY <1>3, <1>4, <1>5

-----------------------------------------------------------------------------
(* Votes and timeouts.                                                     *)

\* Counting a vote, and what the QC it may complete leads to.
LEMMA CountVote ==
  ASSUME NEW n, NEW c \in CoreState, NEW vote \in Vote
  PROVE  count_vote(n, c, vote) \in CoreState /\ Kept(c, count_vote(n, c, vote))
<1> DEFINE vs    == c.votes \union {vote}
           added == [c EXCEPT !.votes = vs]
           d     == process_qc(added, vote.block)
           e     == propose_if_leader(n, d, NoTC)
<1>1. count_vote(n, c, vote) \in {c, added, e}
  BY DEF count_vote
<1>2. vs \in SUBSET Vote
  BY DEF CoreState
<1> HIDE DEF vs
<1>3. added \in CoreState
  BY <1>2 DEF CoreState
<1>4. Kept(c, c) /\ Kept(c, added)
  BY DEF CoreState, Kept
<1> HIDE DEF added
<1>5. vote.block \in Block
  BY DEF Vote
<1>6. d \in CoreState /\ Kept(added, d)
  BY <1>3, <1>5, ProcessQC
<1> HIDE DEF d
<1>7. e \in CoreState /\ Kept(d, e)
  BY <1>6, NoTCType, ProposeIfLeader
<1> HIDE DEF e
<1> QED  BY <1>1, <1>3, <1>4, <1>6, <1>7, KeptTransitive

\* handle_vote never touches blocks, votes cast or commits.
LEMMA HandleVoteKeeps ==
  ASSUME NEW n, NEW c \in CoreState, NEW vote \in Vote
  PROVE  handle_vote(n, c, vote) \in CoreState /\ Kept(c, handle_vote(n, c, vote))
<1>1. Kept(c, c)
  BY DEF Kept
<1>2. handle_vote(n, c, vote) \in {c, count_vote(n, c, vote)}
  BY DEF handle_vote
<1> QED  BY <1>1, <1>2, CountVote

\* The certificate made of a nonempty set of timeouts is one.
LEMMA MakeTCType ==
  ASSUME NEW ts, ts \subseteq Timeout, NEW r \in Nat, AuthorsAt(ts, r) # {}
  PROVE  MakeTC(ts, r) \in TC
<1> DEFINE reported == {RoundOf(t.high_qc) : t \in {u \in ts : u.round = r}}
<1>1. reported \subseteq {RoundOf(b) : b \in Block}
  BY DEF Timeout
<1>2. reported # {}
  BY DEF AuthorsAt
<1>3. MakeTC(ts, r) = [round |-> r, high |-> Max(reported)]
  BY DEF MakeTC
<1> HIDE DEF reported
<1>4. reported \subseteq Nat /\ IsFiniteSet(reported)
  BY <1>1, RoundsFinite
<1>5. Max(reported) \in Nat
  BY <1>2, <1>4, MaxOfFinite
<1> QED  BY <1>3, <1>5 DEF TC

\* Counting a timeout, and what the TC it may complete leads to.
LEMMA CountTimeout ==
  ASSUME NEW n, NEW c \in CoreState, NEW t \in Timeout
  PROVE  count_timeout(n, c, t) \in CoreState /\ Kept(c, count_timeout(n, c, t))
<1> DEFINE ts    == c.timeouts \union {t}
           added == [c EXCEPT !.timeouts = ts]
           d     == advance_round(added, t.round)
           tc    == MakeTC(ts, t.round)
           e     == propose_if_leader(n, d, tc)
<1>1. ts \in SUBSET Timeout /\ t.round \in Nat /\ t \in ts /\ added.timeouts = ts
  BY DEF CoreState, Timeout
<1>2. count_timeout(n, c, t) \in {c, added, e}
  BY <1>1 DEF count_timeout
<1>3. AuthorsAt(ts, t.round) # {}
  BY <1>1 DEF AuthorsAt
<1> HIDE DEF ts
<1>4. added \in CoreState
  BY <1>1 DEF CoreState
<1>5. Kept(c, c) /\ Kept(c, added)
  BY DEF CoreState, Kept
<1> HIDE DEF added
<1>6. tc \in TC
  BY <1>1, <1>3, MakeTCType
<1> HIDE DEF tc
<1>7. d \in CoreState /\ Kept(added, d)
  BY <1>1, <1>4, AdvanceRound
<1> HIDE DEF d
<1>8. e \in CoreState /\ Kept(d, e)
  BY <1>6, <1>7, ProposeIfLeader
<1> HIDE DEF e
<1> QED  BY <1>2, <1>4, <1>5, <1>7, <1>8, KeptTransitive

\* handle_timeout never touches blocks, votes cast or commits.
LEMMA HandleTimeoutKeeps ==
  ASSUME NEW n, NEW c \in CoreState, NEW t \in Timeout
  PROVE  handle_timeout(n, c, t) \in CoreState /\ Kept(c, handle_timeout(n, c, t))
<1> DEFINE d == process_qc(c, t.high_qc)
<1>1. Kept(c, c)
  BY DEF Kept
<1>2. handle_timeout(n, c, t) \in {c, count_timeout(n, d, t)}
  BY DEF handle_timeout
<1>3. t.high_qc \in Block
  BY DEF Timeout
<1>4. d \in CoreState /\ Kept(c, d)
  BY <1>3, ProcessQC
<1> HIDE DEF d
<1> QED  BY <1>1, <1>2, <1>4, CountTimeout, KeptTransitive

\* handle_tc never touches blocks, votes cast or commits.
LEMMA HandleTCKeeps ==
  ASSUME NEW n, NEW c \in CoreState, NEW tc \in TC
  PROVE  handle_tc(n, c, tc) \in CoreState /\ Kept(c, handle_tc(n, c, tc))
<1> DEFINE d == advance_round(c, tc.round)
<1>1. Kept(c, c)
  BY DEF Kept
<1>2. handle_tc(n, c, tc) \in {c, propose_if_leader(n, d, tc)}
  BY DEF handle_tc
<1>3. tc.round \in Nat
  BY DEF TC
<1>4. d \in CoreState /\ Kept(c, d)
  BY <1>3, AdvanceRound
<1> HIDE DEF d
<1> QED  BY <1>1, <1>2, <1>4, ProposeIfLeader, KeptTransitive

\* An expired timer signs one timeout and closes the round for votes.
LEMMA LocalTimeoutKeeps ==
  ASSUME NEW n \in Authority, NEW c \in CoreState
  PROVE  LET d == local_timeout_round(n, c)
         IN /\ d \in CoreState
            /\ d.last_voted_round >= c.last_voted_round
            /\ d.last_voted_round >= c.round
            /\ d.last_committed_round = c.last_committed_round
            /\ d.timed_out = c.timed_out \union
                               {[round |-> c.round, high_qc |-> c.high_qc]}
            /\ d.store = c.store /\ d.batches = c.batches /\ d.pending = c.pending
            /\ d.awaiting = c.awaiting /\ d.loopback = c.loopback
            /\ d.delivered = c.delivered /\ d.voted = c.voted
            /\ d.proposed = c.proposed
<1> DEFINE top == IF c.round > c.last_voted_round THEN c.round ELSE c.last_voted_round
           a   == [c EXCEPT !.last_voted_round = top]
           t   == [round |-> c.round, high_qc |-> c.high_qc]
           ts  == c.timed_out \union {t}
           b   == [a EXCEPT !.timed_out = ts]
           m   == [author |-> n, round |-> t.round, high_qc |-> t.high_qc]
           d   == handle_timeout(n, b, m)
<1>1. /\ top \in Nat /\ top >= c.round /\ top >= c.last_voted_round
      /\ ts \in SUBSET [round : Nat, high_qc : Block]
      /\ m \in Timeout
  BY DEF CoreState, Timeout
<1>2. local_timeout_round(n, c) = d
  BY DEF local_timeout_round, time_out, increase_last_voted_round, CoreState
<1> HIDE DEF top, m, ts
<1>3. a \in CoreState
  BY <1>1 DEF CoreState
<1>4. b \in CoreState
  BY <1>1, <1>3 DEF CoreState
<1>5. /\ b.last_voted_round = top /\ b.timed_out = ts
      /\ b.last_committed_round = c.last_committed_round
      /\ b.store = c.store /\ b.batches = c.batches /\ b.pending = c.pending
      /\ b.awaiting = c.awaiting /\ b.loopback = c.loopback
      /\ b.delivered = c.delivered /\ b.voted = c.voted
      /\ b.proposed = c.proposed
  BY <1>1 DEF CoreState
<1> HIDE DEF a, b
<1>6. d \in CoreState /\ Kept(b, d)
  BY <1>1, <1>4, HandleTimeoutKeeps
<1> HIDE DEF d
<1> QED  BY <1>1, <1>2, <1>5, <1>6 DEF Kept, ts

-----------------------------------------------------------------------------
(* Commits.                                                                *)

\* The walk ends on the path to the block, at the last of its ancestors whose
\* round is not above the one after the last commit.
LEMMA WalkEndType ==
  ASSUME NEW c \in CoreState, NEW b \in Block
  PROVE  /\ WalkEnd(c, b) \in 0..Len(b)
         /\ RoundOf(SubSeq(b, 1, WalkEnd(c, b))) <= c.last_committed_round + 1
         /\ \A i \in 0..Len(b) :
              RoundOf(SubSeq(b, 1, i)) <= c.last_committed_round + 1 => i <= WalkEnd(c, b)
<1> DEFINE ends == {i \in 0..Len(b) :
                      RoundOf(SubSeq(b, 1, i)) <= c.last_committed_round + 1}
<1>1. Len(b) \in Nat /\ b \in Seq(Entry)
  BY BlockTypes
<1>2. SubSeq(b, 1, 0) = Genesis
  BY <1>1 DEF Genesis
<1>3. 0 \in ends
  <2>1. c.last_committed_round \in Nat
    BY DEF CoreState
  <2>2. RoundOf(SubSeq(b, 1, 0)) = 0
    BY <1>2, GenesisBlock, Zenon
  <2> QED  BY <1>1, <2>1, <2>2
<1>4. ends \subseteq 0..Len(b)
  OBVIOUS
<1>5. WalkEnd(c, b) = Max(ends)
  BY DEF WalkEnd
<1>6. \A i : i \in ends <=> /\ i \in 0..Len(b)
                            /\ RoundOf(SubSeq(b, 1, i)) <= c.last_committed_round + 1
  OBVIOUS
<1> HIDE DEF ends
<1>7. IsFiniteSet(ends) /\ ends \subseteq Nat
  <2>1. 0..Len(b) \subseteq Nat /\ IsFiniteSet(0..Len(b))
    BY <1>1, FS_Interval
  <2> QED  BY <1>4, <2>1, FS_Subset
<1>8. Max(ends) \in ends /\ \A i \in ends : i <= Max(ends)
  BY <1>3, <1>7, MaxOfFinite
<1> QED  BY <1>5, <1>6, <1>8

\* The blocks on the path to b, genesis and b included.
PathTo(b) == {SubSeq(b, 1, i) : i \in 0..Len(b)}

\* What is delivered is on the path to the committed block.
LEMMA WalkType ==
  ASSUME NEW c \in CoreState, NEW b \in Block
  PROVE  Walk(c, b) \in Seq(Block) /\ Range(Walk(c, b)) \subseteq PathTo(b)
<1> DEFINE k == Len(b) - WalkEnd(c, b)
           ancestors == [i \in 1..k |-> SubSeq(b, 1, Len(b) - i)]
<1>1. k \in Nat /\ k <= Len(b) /\ Len(b) \in Nat /\ b \in Seq(Entry)
  <2>1. Len(b) \in Nat /\ b \in Seq(Entry)
    BY BlockTypes
  <2>2. WalkEnd(c, b) \in 0..Len(b)
    BY WalkEndType
  <2> QED  BY <2>1, <2>2
<1>2. Walk(c, b) = Append(ancestors, b)
  BY DEF Walk
<1> HIDE DEF k
<1>3. ASSUME NEW i \in 1..k
      PROVE  SubSeq(b, 1, Len(b) - i) \in Block /\ SubSeq(b, 1, Len(b) - i) \in PathTo(b)
  <2>1. Len(b) - i \in 0..Len(b)
    BY <1>1
  <2> QED  BY <2>1, BlockTypes DEF PathTo
<1>4. ancestors \in Seq(Block) /\ Len(ancestors) = k
  BY <1>1, <1>3
<1>5. \A i \in 1..k : ancestors[i] \in PathTo(b)
  BY <1>3
<1>6. b \in PathTo(b)
  <2>1. b = SubSeq(b, 1, Len(b)) /\ Len(b) \in 0..Len(b)
    BY <1>1
  <2> QED  BY <2>1 DEF PathTo
<1> HIDE DEF ancestors
<1>7. /\ Append(ancestors, b) \in Seq(Block)
      /\ DOMAIN Append(ancestors, b) = 1..(k + 1)
      /\ \A i \in 1..k : Append(ancestors, b)[i] = ancestors[i]
      /\ Append(ancestors, b)[k + 1] = b
  BY <1>1, <1>4
<1>8. Range(Append(ancestors, b)) \subseteq PathTo(b)
  <2>1. ASSUME NEW i \in 1..(k + 1) PROVE Append(ancestors, b)[i] \in PathTo(b)
    <3>1. i \in 1..k \/ i = k + 1
      BY <1>1
    <3> QED  BY <3>1, <1>5, <1>6, <1>7
  <2> QED  BY <2>1, <1>7 DEF Range
<1> QED  BY <1>2, <1>7, <1>8

\* A walk delivers the block and its ancestors down to where it ends.
LEMMA WalkRange ==
  ASSUME NEW c \in CoreState, NEW b \in Block
  PROVE  Range(Walk(c, b)) = {SubSeq(b, 1, i) : i \in WalkEnd(c, b)..Len(b)}
<1> DEFINE e == WalkEnd(c, b)
           k == Len(b) - e
           ancestors == [i \in 1..k |-> SubSeq(b, 1, Len(b) - i)]
<1>1. Len(b) \in Nat /\ b \in Seq(Entry) /\ e \in 0..Len(b)
  BY BlockTypes, WalkEndType
<1>2. Walk(c, b) = Append(ancestors, b)
  BY DEF Walk
<1> HIDE DEF e
<1>3. k \in Nat /\ k = Len(b) - e
  BY <1>1
<1> HIDE DEF k
<1>4. \A i \in 1..k : Len(b) - i \in 0..Len(b)
  BY <1>1, <1>3
<1>5. ASSUME NEW i \in 1..k PROVE SubSeq(b, 1, Len(b) - i) \in Block
  BY <1>4, BlockTypes
<1>6. ancestors \in Seq(Block) /\ Len(ancestors) = k
  <2>1. ancestors \in [1..k -> Block]
    BY <1>5
  <2> HIDE DEF ancestors
  <2> QED  BY <1>3, <2>1
<1>7. \A i \in 1..k : ancestors[i] = SubSeq(b, 1, Len(b) - i)
  OBVIOUS
<1> HIDE DEF ancestors
<1>8. /\ DOMAIN Append(ancestors, b) = 1..(k + 1)
      /\ \A i \in 1..k : Append(ancestors, b)[i] = ancestors[i]
      /\ Append(ancestors, b)[k + 1] = b
  BY <1>3, <1>6
<1>9. b = SubSeq(b, 1, Len(b))
  BY <1>1
<1>10. ASSUME NEW j \in 1..(k + 1)
       PROVE  Append(ancestors, b)[j] \in {SubSeq(b, 1, i) : i \in e..Len(b)}
  <2>1. CASE j = k + 1
    <3>1. Len(b) \in e..Len(b)
      BY <1>1
    <3> QED  BY <1>8, <1>9, <2>1, <3>1
  <2>2. CASE j # k + 1
    <3>1. j \in 1..k /\ Len(b) - j \in e..Len(b)
      BY <1>1, <1>3, <2>2
    <3> QED  BY <1>7, <1>8, <3>1
  <2> QED  BY <2>1, <2>2
<1>11. ASSUME NEW i \in e..Len(b)
       PROVE  \E j \in 1..(k + 1) : Append(ancestors, b)[j] = SubSeq(b, 1, i)
  <2>1. CASE i = Len(b)
    <3>1. k + 1 \in 1..(k + 1)
      BY <1>3
    <3> QED  BY <1>8, <1>9, <2>1, <3>1
  <2>2. CASE i # Len(b)
    <3> DEFINE j == Len(b) - i
    <3>1. j \in 1..k /\ j \in 1..(k + 1) /\ Len(b) - j = i
      BY <1>1, <1>3, <2>2
    <3> HIDE DEF j
    <3>2. Append(ancestors, b)[j] = SubSeq(b, 1, i)
      BY <1>7, <1>8, <3>1
    <3> QED  BY <3>1, <3>2
  <2> QED  BY <2>1, <2>2
<1>12. Range(Append(ancestors, b)) = {SubSeq(b, 1, i) : i \in e..Len(b)}
  BY <1>8, <1>10, <1>11 DEF Range
<1> QED  BY <1>2, <1>12 DEF e

\* What two deliveries in a row hand over.
LEMMA RangeOfConcat ==
  ASSUME NEW s \in Seq(Block), NEW t \in Seq(Block)
  PROVE  s \o t \in Seq(Block) /\ Range(s \o t) = Range(s) \union Range(t)
<1>1. Len(s) \in Nat /\ Len(t) \in Nat /\ DOMAIN s = 1..Len(s) /\ DOMAIN t = 1..Len(t)
  OBVIOUS
<1>2. s \o t \in Seq(Block) /\ DOMAIN (s \o t) = 1..(Len(s) + Len(t))
  OBVIOUS
<1>3. ASSUME NEW i \in 1..(Len(s) + Len(t))
      PROVE  (s \o t)[i] \in Range(s) \union Range(t)
  <2>1. CASE i <= Len(s)
    <3>1. (s \o t)[i] = s[i] /\ i \in DOMAIN s
      BY <1>1, <2>1
    <3> QED  BY <3>1 DEF Range
  <2>2. CASE i > Len(s)
    <3>1. (s \o t)[i] = t[i - Len(s)] /\ i - Len(s) \in DOMAIN t
      BY <1>1, <2>2
    <3> QED  BY <3>1 DEF Range
  <2> QED  BY <1>1, <2>1, <2>2
<1>4. ASSUME NEW i \in 1..Len(s) PROVE s[i] \in Range(s \o t)
  <2>1. (s \o t)[i] = s[i] /\ i \in DOMAIN (s \o t)
    BY <1>1, <1>2
  <2> QED  BY <2>1 DEF Range
<1>5. ASSUME NEW i \in 1..Len(t) PROVE t[i] \in Range(s \o t)
  <2>1. (s \o t)[Len(s) + i] = t[i] /\ Len(s) + i \in DOMAIN (s \o t)
    BY <1>1, <1>2
  <2> QED  BY <2>1 DEF Range
<1>6. Range(s) \subseteq Range(s \o t) /\ Range(t) \subseteq Range(s \o t)
  BY <1>1, <1>4, <1>5 DEF Range
<1>7. Range(s \o t) \subseteq Range(s) \union Range(t)
  BY <1>2, <1>3 DEF Range
<1> QED  BY <1>2, <1>6, <1>7

\* A commit delivers blocks on the path to the committed one, and may cancel
\* blocks that wait for payload.
LEMMA CommitTwoChain ==
  ASSUME NEW c \in CoreState, NEW b0 \in Block, NEW b1
  PROVE  LET d == commit_two_chain(c, b0, b1)
         IN /\ d \in CoreState
            /\ Range(d.delivered) \subseteq Range(c.delivered) \union PathTo(b0)
            /\ d.awaiting \subseteq c.awaiting
            /\ d.round = c.round /\ d.last_voted_round = c.last_voted_round
            /\ d.high_qc = c.high_qc /\ d.votes = c.votes
            /\ d.timeouts = c.timeouts /\ d.makes = c.makes
            /\ d.store = c.store /\ d.batches = c.batches
            /\ d.pending = c.pending /\ d.loopback = c.loopback
            /\ d.voted = c.voted /\ d.timed_out = c.timed_out
            /\ d.proposed = c.proposed
            /\ \/ /\ d.delivered = c.delivered
                  /\ d.last_committed_round = c.last_committed_round
               \/ /\ RoundOf(b0) + 1 = RoundOf(b1)
                  /\ c.last_committed_round < RoundOf(b0)
                  /\ d.last_committed_round = RoundOf(b0)
                  /\ d.delivered = c.delivered \o Walk(c, b0)
<1> DEFINE kept == {q \in c.awaiting : RoundOf(q.block) > RoundOf(b0)}
           a    == [c EXCEPT !.awaiting = kept]
           r    == RoundOf(b0)
           out  == c.delivered \o Walk(c, b0)
           e    == [a EXCEPT !.last_committed_round = r, !.delivered = out]
           d    == commit_two_chain(c, b0, b1)
<1>1. kept \in SUBSET Proposal /\ kept \subseteq c.awaiting
  BY DEF CoreState
<1>2. a.last_committed_round = c.last_committed_round /\ a.delivered = c.delivered
  BY DEF CoreState
<1>3. Walk(a, b0) = Walk(c, b0)
  BY <1>2, Zenon DEF Walk, WalkEnd
<1>4. r \in Nat /\ c.last_committed_round \in Nat
  BY BlockTypes DEF CoreState
<1>5. \/ d \in {c, a}
      \/ d = e /\ RoundOf(b0) + 1 = RoundOf(b1) /\ c.last_committed_round < r
  <2>1. commit(a, b0) = IF c.last_committed_round >= r THEN a ELSE e
    BY <1>2, <1>3 DEF commit
  <2>2. d = IF RoundOf(b0) + 1 = RoundOf(b1) THEN commit(a, b0) ELSE c
    BY DEF commit_two_chain
  <2> HIDE DEF a, e, d
  <2>3. CASE RoundOf(b0) + 1 # RoundOf(b1)
    BY <2>2, <2>3
  <2>4. CASE RoundOf(b0) + 1 = RoundOf(b1) /\ c.last_committed_round >= r
    BY <2>1, <2>2, <2>4
  <2>5. CASE RoundOf(b0) + 1 = RoundOf(b1) /\ ~ (c.last_committed_round >= r)
    BY <1>4, <2>1, <2>2, <2>5
  <2> QED  BY <2>3, <2>4, <2>5
<1> HIDE DEF kept, d
<1>6. a \in CoreState
  BY <1>1 DEF CoreState
<1>7. /\ a.awaiting = kept
      /\ a.round = c.round /\ a.last_voted_round = c.last_voted_round
      /\ a.high_qc = c.high_qc /\ a.votes = c.votes
      /\ a.timeouts = c.timeouts /\ a.makes = c.makes
      /\ a.store = c.store /\ a.batches = c.batches
      /\ a.pending = c.pending /\ a.loopback = c.loopback
      /\ a.voted = c.voted /\ a.timed_out = c.timed_out
      /\ a.proposed = c.proposed
  BY <1>1 DEF CoreState
<1> HIDE DEF a
<1>8. out \in Seq(Block) /\ Range(out) \subseteq Range(c.delivered) \union PathTo(b0)
  <2>1. c.delivered \in Seq(Block)
    BY DEF CoreState
  <2> QED  BY <2>1, WalkType, RangeOfConcat
<1> HIDE DEF out, r
<1>9. e \in CoreState
  BY <1>4, <1>6, <1>8 DEF CoreState
<1>10. /\ e.awaiting = a.awaiting /\ e.delivered = out
       /\ e.last_committed_round = r
       /\ e.round = a.round /\ e.last_voted_round = a.last_voted_round
       /\ e.high_qc = a.high_qc /\ e.votes = a.votes
       /\ e.timeouts = a.timeouts /\ e.makes = a.makes
       /\ e.store = a.store /\ e.batches = a.batches
       /\ e.pending = a.pending /\ e.loopback = a.loopback
       /\ e.voted = a.voted /\ e.timed_out = a.timed_out
       /\ e.proposed = a.proposed
  BY <1>6 DEF CoreState
<1> HIDE DEF e
<1>11. CASE d = c  BY <1>11 DEF d
<1>12. CASE d = a  BY <1>12, <1>1, <1>2, <1>6, <1>7 DEF d
<1>13. CASE d = e /\ RoundOf(b0) + 1 = RoundOf(b1) /\ c.last_committed_round < r
  BY <1>13, <1>1, <1>7, <1>8, <1>9, <1>10 DEF d, out, r
<1> QED  BY <1>5, <1>11, <1>12, <1>13

-----------------------------------------------------------------------------
(* Blocks.                                                                 *)

\* A node votes for a block at most once, above all its earlier votes.
LEMMA VoteFor ==
  ASSUME NEW n \in Authority, NEW c \in CoreState, NEW p \in Proposal
  PROVE  LET d == vote_for(n, c, p)
         IN /\ d \in CoreState
            /\ d.store = c.store /\ d.batches = c.batches /\ d.pending = c.pending
            /\ d.awaiting = c.awaiting /\ d.loopback = c.loopback
            /\ d.delivered = c.delivered /\ d.proposed = c.proposed
            /\ d.last_committed_round = c.last_committed_round
            /\ d.timed_out = c.timed_out
            /\ \/ d.voted = c.voted /\ d.last_voted_round = c.last_voted_round
               \/ /\ d.voted = c.voted \union {p.block}
                  /\ RoundOf(p.block) > c.last_voted_round
                  /\ d.last_voted_round = RoundOf(p.block)
<1> DEFINE r    == RoundOf(p.block)
           bs   == c.voted \union {p.block}
           top  == IF r > c.last_voted_round THEN r ELSE c.last_voted_round
           a    == [c EXCEPT !.last_voted_round = top]
           b    == [a EXCEPT !.voted = bs]
           vote == [author |-> n, block |-> p.block]
           d    == vote_for(n, c, p)
<1>1. p.block \in Block /\ vote \in Vote
  BY DEF Proposal, Vote
<1>2. r \in Nat /\ top \in Nat /\ bs \in SUBSET Block
  BY <1>1, BlockTypes DEF CoreState
<1>3. d \in {c, b, handle_vote(n, b, vote)}
  BY DEF vote_for, increase_last_voted_round
<1>4. d = c \/ r > c.last_voted_round
  BY DEF vote_for, SafeToVote
<1>5. r > c.last_voted_round => top = r
  OBVIOUS
<1> HIDE DEF r, bs, top, vote, d
<1>6. a \in CoreState
  BY <1>2 DEF CoreState
<1>7. b \in CoreState
  BY <1>2, <1>6 DEF CoreState
<1>8. /\ b.last_voted_round = top /\ b.voted = bs
      /\ b.store = c.store /\ b.batches = c.batches /\ b.pending = c.pending
      /\ b.awaiting = c.awaiting /\ b.loopback = c.loopback
      /\ b.delivered = c.delivered /\ b.proposed = c.proposed
      /\ b.last_committed_round = c.last_committed_round
      /\ b.timed_out = c.timed_out
  BY DEF CoreState
<1> HIDE DEF a, b
<1>9. handle_vote(n, b, vote) \in CoreState /\ Kept(b, handle_vote(n, b, vote))
  BY <1>1, <1>7, HandleVoteKeeps
<1>10. d = c \/ (d \in CoreState /\ Kept(b, d) /\ r > c.last_voted_round)
  BY <1>3, <1>4, <1>7, <1>9 DEF Kept
<1>11. CASE d = c
  BY <1>11 DEF d
<1>12. CASE d # c
  <2>1. d \in CoreState /\ Kept(b, d) /\ r > c.last_voted_round /\ top = r
    BY <1>5, <1>10, <1>12
  <2>2. /\ d.last_voted_round = r /\ d.voted = bs
        /\ d.store = c.store /\ d.batches = c.batches /\ d.pending = c.pending
        /\ d.awaiting = c.awaiting /\ d.loopback = c.loopback
        /\ d.delivered = c.delivered /\ d.proposed = c.proposed
        /\ d.last_committed_round = c.last_committed_round
        /\ d.timed_out = c.timed_out
    BY <1>8, <2>1 DEF Kept
  <2> QED  BY <2>1, <2>2 DEF d, r, bs
<1> QED  BY <1>11, <1>12

\* A set of blocks that holds the ancestors of its members.
Closed(S) == \A b \in S : \A i \in 1..Len(b) : SubSeq(b, 1, i) \in S

\* Adding a block whose parent is there keeps a set closed, and the path to its
\* grandparent, which a commit walks, is in it.
LEMMA ClosedWithChild ==
  ASSUME NEW S \in SUBSET Block, Closed(S), NEW b \in Block,
         Parent(b) \in S \union {Genesis}
  PROVE  Closed(S \union {b}) /\ PathTo(Parent(Parent(b))) \subseteq S \union {Genesis}
<1>1. b \in Seq(Entry) /\ Len(b) \in Nat
  BY BlockTypes
<1>2. ASSUME NEW i \in 1..Len(b) PROVE SubSeq(b, 1, i) \in S \union {b}
  <2>1. CASE i = Len(b)
    BY <1>1, <2>1
  <2>2. CASE i # Len(b)
    <3>1. b # Genesis /\ Parent(b) = SubSeq(b, 1, Len(b) - 1)
      BY <1>1, <2>2, BlockTypes DEF Genesis
    <3>2. Len(Parent(b)) = Len(b) - 1 /\ i \in 1..(Len(b) - 1)
      BY <1>1, <2>2, <3>1
    <3>3. SubSeq(Parent(b), 1, i) = SubSeq(b, 1, i)
      BY <1>1, <3>1, <3>2
    <3>4. Parent(b) # Genesis
      BY <3>2 DEF Genesis
    <3> QED  BY <3>2, <3>3, <3>4 DEF Closed
  <2> QED  BY <2>1, <2>2
<1>3. Closed(S \union {b})
  BY <1>2 DEF Closed
<1> DEFINE m == Parent(b)
<1>4. m \in Block /\ m \in Seq(Entry) /\ Len(m) \in Nat
  BY BlockTypes
<1>5. m \in S \union {Genesis}
  OBVIOUS
<1> HIDE DEF m
<1>6. CASE m = Genesis
  <2>1. PathTo(Parent(m)) = {SubSeq(Genesis, 1, i) : i \in 0..Len(Genesis)}
    BY <1>6, GenesisBlock DEF PathTo
  <2>2. \A i \in 0..Len(Genesis) : SubSeq(Genesis, 1, i) = Genesis
    BY DEF Genesis
  <2> QED  BY <2>1, <2>2, <1>3 DEF m
<1>7. CASE m # Genesis
  <2>1. Parent(m) = SubSeq(m, 1, Len(m) - 1) /\ Len(m) > 0
    BY <1>4, <1>7, BlockTypes DEF Genesis
  <2>2. Len(Parent(m)) = Len(m) - 1
    <3> DEFINE k == Len(m) - 1
    <3>1. k \in 0..Len(m) /\ m \in Seq(Entry)
      BY <1>4, <2>1
    <3> HIDE DEF k
    <3>2. Len(SubSeq(m, 1, k)) = k
      BY <1>4, <3>1
    <3> QED  BY <3>2, <2>1 DEF k
  <2>3. ASSUME NEW i \in 0..Len(Parent(m))
        PROVE  SubSeq(Parent(m), 1, i) \in S \union {Genesis}
    <3>1. SubSeq(Parent(m), 1, i) = SubSeq(m, 1, i) /\ i \in 0..(Len(m) - 1)
      BY <1>4, <2>1, <2>2
    <3>2. CASE i = 0
      <4>1. SubSeq(m, 1, i) = Genesis
        BY <1>4, <3>2 DEF Genesis
      <4> QED  BY <3>1, <4>1
    <3>3. CASE i # 0
      <4>1. m \in S /\ i \in 1..Len(m)
        BY <1>4, <1>5, <1>7, <3>1, <3>3
      <4>2. SubSeq(m, 1, i) \in S
        BY <4>1 DEF Closed
      <4> QED  BY <3>1, <4>2
    <3> QED  BY <3>2, <3>3
  <2> QED  BY <2>3, <1>3 DEF PathTo, m
<1> QED  BY <1>6, <1>7

\* What storing, committing and voting does to the state of a node.
LEMMA AcceptBlock ==
  ASSUME NEW n \in Authority, NEW c \in CoreState, NEW p \in Proposal
  PROVE  LET d == accept_block(n, c, p)
         IN /\ d \in CoreState
            /\ d.store = c.store \union {p.block}
            /\ Range(d.delivered) \subseteq
                 Range(c.delivered) \union PathTo(Parent(Parent(p.block)))
            /\ d.batches = c.batches /\ d.pending = c.pending
            /\ d.awaiting \subseteq c.awaiting /\ d.loopback = c.loopback
            /\ d.proposed = c.proposed /\ d.timed_out = c.timed_out
            /\ \/ d.voted = c.voted /\ d.last_voted_round = c.last_voted_round
               \/ /\ d.voted = c.voted \union {p.block}
                  /\ RoundOf(p.block) > c.last_voted_round
                  /\ d.last_voted_round = RoundOf(p.block)
<1> DEFINE bs == c.store \union {p.block}
           a  == [c EXCEPT !.store = bs]
           b1 == Parent(p.block)
           e  == commit_two_chain(a, Parent(b1), b1)
           d  == accept_block(n, c, p)
<1>1. bs \in SUBSET Block /\ b1 \in Block /\ Parent(b1) \in Block
  BY BlockTypes DEF Proposal, CoreState
<1>2. d \in {e, vote_for(n, e, p)}
  BY DEF accept_block
<1> HIDE DEF bs, b1, d
<1>3. a \in CoreState
  BY <1>1 DEF CoreState
<1>4. /\ a.store = bs /\ a.delivered = c.delivered
      /\ a.batches = c.batches /\ a.pending = c.pending
      /\ a.awaiting = c.awaiting /\ a.loopback = c.loopback
      /\ a.proposed = c.proposed /\ a.timed_out = c.timed_out
      /\ a.voted = c.voted /\ a.last_voted_round = c.last_voted_round
  BY DEF CoreState
<1> HIDE DEF a
<1>5. /\ e \in CoreState
      /\ Range(e.delivered) \subseteq Range(a.delivered) \union PathTo(Parent(b1))
      /\ e.awaiting \subseteq a.awaiting
      /\ e.last_voted_round = a.last_voted_round
      /\ e.store = a.store /\ e.batches = a.batches
      /\ e.pending = a.pending /\ e.loopback = a.loopback
      /\ e.voted = a.voted /\ e.timed_out = a.timed_out
      /\ e.proposed = a.proposed
  BY <1>1, <1>3, CommitTwoChain
<1> HIDE DEF e
<1> DEFINE v == vote_for(n, e, p)
<1>6. /\ v \in CoreState
      /\ v.store = e.store /\ v.batches = e.batches /\ v.pending = e.pending
      /\ v.awaiting = e.awaiting /\ v.loopback = e.loopback
      /\ v.delivered = e.delivered /\ v.proposed = e.proposed
      /\ v.timed_out = e.timed_out
      /\ \/ v.voted = e.voted /\ v.last_voted_round = e.last_voted_round
         \/ /\ v.voted = e.voted \union {p.block}
            /\ RoundOf(p.block) > e.last_voted_round
            /\ v.last_voted_round = RoundOf(p.block)
  BY <1>5, VoteFor
<1> HIDE DEF v
<1>7. d = e \/ d = v
  BY <1>2 DEF v
<1>8. CASE d = e  BY <1>4, <1>5, <1>8 DEF d, bs, b1
<1>9. CASE d = v  BY <1>4, <1>5, <1>6, <1>9 DEF d, bs, b1
<1> QED  BY <1>7, <1>8, <1>9

-----------------------------------------------------------------------------
(* What a node keeps of its blocks and of its votes.                       *)

\* The store holds the ancestors and the batches of its blocks, and what was
\* delivered; what is about to be processed has its batches.
StoreHolds(c) ==
  /\ Closed(c.store)
  /\ \A b \in c.store : PayloadOf(b) \subseteq c.batches
  /\ Range(c.delivered) \subseteq c.store \union {Genesis}
  /\ \A q \in c.pending \union c.loopback : PayloadOf(q.block) \subseteq c.batches

\* A step keeps the store as it should be, and delivers only what was in it.
StoreKeeps(c, d) ==
  StoreHolds(c) => /\ StoreHolds(d)
                   /\ Range(d.delivered) \subseteq c.store \union {Genesis}

\* last_voted_round is no lower than any round the node voted in or timed out
\* in, and it voted once in each.
VotesHold(c) ==
  /\ \A b \in c.voted : RoundOf(b) <= c.last_voted_round
  /\ \A t \in c.timed_out : t.round <= c.last_voted_round
  /\ \A b1, b2 \in c.voted : RoundOf(b1) = RoundOf(b2) => b1 = b2

\* A step votes for at most one block, above last_voted_round, and never
\* lowers it; a step that signs a timeout casts no vote.
VotesStep(c, d) ==
  \/ /\ d.voted = c.voted /\ d.last_voted_round >= c.last_voted_round
     /\ c.timed_out \subseteq d.timed_out
     /\ \A t \in d.timed_out \ c.timed_out : t.round <= d.last_voted_round
  \/ \E b \in Block : /\ d.voted = c.voted \union {b}
                      /\ RoundOf(b) > c.last_voted_round
                      /\ d.last_voted_round = RoundOf(b)
                      /\ d.timed_out = c.timed_out

\* A voting step keeps the votes in order, and votes above every round timed out.
LEMMA VotesStepKeeps ==
  ASSUME NEW c \in CoreState, NEW d \in CoreState, VotesHold(c), VotesStep(c, d)
  PROVE  /\ VotesHold(d)
         /\ \A b \in d.voted \ c.voted : \A t \in c.timed_out : t.round < RoundOf(b)
<1>1. /\ c.last_voted_round \in Nat /\ d.last_voted_round \in Nat
      /\ \A b \in c.voted : b \in Block /\ RoundOf(b) \in Nat
      /\ \A t \in c.timed_out \union d.timed_out : t.round \in Nat
  BY BlockTypes DEF CoreState
<1>2. CASE /\ d.voted = c.voted /\ d.last_voted_round >= c.last_voted_round
           /\ \A t \in d.timed_out \ c.timed_out : t.round <= d.last_voted_round
  <2>1. \A b \in d.voted : RoundOf(b) <= d.last_voted_round
    BY <1>1, <1>2 DEF VotesHold
  <2>2. \A t \in d.timed_out : t.round <= d.last_voted_round
    BY <1>1, <1>2 DEF VotesHold
  <2> QED  BY <1>2, <2>1, <2>2 DEF VotesHold
<1>3. CASE \E b \in Block : /\ d.voted = c.voted \union {b}
                            /\ RoundOf(b) > c.last_voted_round
                            /\ d.last_voted_round = RoundOf(b)
                            /\ d.timed_out = c.timed_out
  <2>1. PICK b \in Block : /\ d.voted = c.voted \union {b}
                           /\ RoundOf(b) > c.last_voted_round
                           /\ d.last_voted_round = RoundOf(b)
                           /\ d.timed_out = c.timed_out
    BY <1>3
  <2>2. \A x \in c.voted : RoundOf(x) < RoundOf(b)
    BY <1>1, <2>1 DEF VotesHold
  <2>3. \A t \in c.timed_out : t.round < RoundOf(b)
    BY <1>1, <2>1 DEF VotesHold
  <2>4. VotesHold(d)
    <3>1. \A x \in d.voted : RoundOf(x) <= d.last_voted_round
      BY <1>1, <2>1, <2>2
    <3>2. \A t \in d.timed_out : t.round <= d.last_voted_round
      BY <1>1, <2>1, <2>3
    <3>3. \A b1, b2 \in d.voted : RoundOf(b1) = RoundOf(b2) => b1 = b2
      <4>1. SUFFICES ASSUME NEW b1 \in c.voted \union {b}, NEW b2 \in c.voted \union {b},
                            RoundOf(b1) = RoundOf(b2)
                     PROVE  b1 = b2
        BY <2>1
      <4>2. RoundOf(b) \in Nat
        BY BlockTypes
      <4> QED  BY <1>1, <2>2, <4>1, <4>2 DEF VotesHold
    <3> QED  BY <3>1, <3>2, <3>3 DEF VotesHold
  <2> QED  BY <2>1, <2>3, <2>4
<1> QED  BY <1>2, <1>3 DEF VotesStep

\* A handler of certificates keeps blocks and votes as they should be.
LEMMA KeptHolds ==
  ASSUME NEW c, NEW d, Kept(c, d), StoreHolds(c), c.last_voted_round \in Nat
  PROVE  StoreHolds(d) /\ StoreKeeps(c, d) /\ VotesStep(c, d)
<1>1. StoreHolds(d) /\ StoreKeeps(c, d)
  BY DEF Kept, StoreHolds, StoreKeeps
<1>2. VotesStep(c, d)
  BY DEF Kept, VotesStep
<1> QED  BY <1>1, <1>2

\* Queueing a block adds that block at most.
LEMMA EnqueueOne ==
  ASSUME NEW waiting, NEW p
  PROVE  waiting \subseteq Enqueue(waiting, p) /\ Enqueue(waiting, p) \subseteq waiting \union {p}
BY DEF Enqueue

\* A block whose batches are stored is processed.
LEMMA ProcessBlock ==
  ASSUME NEW n \in Authority, NEW c \in CoreState, NEW p \in Proposal
  PROVE  LET d == process_block(n, c, p)
         IN /\ d \in CoreState
            /\ VotesStep(c, d)
            /\ PayloadOf(p.block) \subseteq c.batches => StoreKeeps(c, d)
<1> DEFINE waiting == Enqueue(c.pending, p)
           w       == [c EXCEPT !.pending = waiting]
           d       == process_block(n, c, p)
           a       == accept_block(n, c, p)
           parent  == Parent(p.block)
<1>1. p.block \in Block /\ waiting \in SUBSET Proposal /\ waiting \subseteq c.pending \union {p}
  BY EnqueueOne DEF Proposal, CoreState
<1>2. c.last_voted_round \in Nat /\ c.store \in SUBSET Block
  BY DEF CoreState
<1>3. d = w \/ (d = a /\ parent \in c.store \union {Genesis})
  BY DEF process_block, HasBlock
<1> HIDE DEF waiting, d, parent, a
<1>4. CASE d = w
  <2>1. w \in CoreState
    BY <1>1 DEF CoreState
  <2>2. /\ w.voted = c.voted /\ w.last_voted_round = c.last_voted_round
        /\ w.timed_out = c.timed_out /\ w.store = c.store /\ w.batches = c.batches
        /\ w.delivered = c.delivered /\ w.loopback = c.loopback
        /\ w.pending = waiting
    BY DEF CoreState
  <2> HIDE DEF w
  <2>3. VotesStep(c, w)
    BY <1>2, <2>2 DEF VotesStep
  <2>4. ASSUME StoreHolds(c), PayloadOf(p.block) \subseteq c.batches
        PROVE  StoreHolds(w) /\ Range(w.delivered) \subseteq c.store \union {Genesis}
    BY <1>1, <2>2, <2>4 DEF StoreHolds
  <2> QED  BY <1>4, <2>1, <2>3, <2>4 DEF d, StoreKeeps
<1>5. CASE d = a /\ parent \in c.store \union {Genesis}
  <2>1. /\ a \in CoreState
        /\ a.store = c.store \union {p.block}
        /\ Range(a.delivered) \subseteq Range(c.delivered) \union PathTo(Parent(parent))
        /\ a.batches = c.batches /\ a.pending = c.pending
        /\ a.loopback = c.loopback /\ a.timed_out = c.timed_out
        /\ \/ a.voted = c.voted /\ a.last_voted_round = c.last_voted_round
           \/ /\ a.voted = c.voted \union {p.block}
              /\ RoundOf(p.block) > c.last_voted_round
              /\ a.last_voted_round = RoundOf(p.block)
    BY AcceptBlock DEF a, parent
  <2>2. VotesStep(c, a)
    BY <1>1, <1>2, <2>1 DEF VotesStep
  <2>3. ASSUME StoreHolds(c), PayloadOf(p.block) \subseteq c.batches
        PROVE  StoreHolds(a) /\ Range(a.delivered) \subseteq c.store \union {Genesis}
    <3>1. Closed(a.store) /\ PathTo(Parent(parent)) \subseteq c.store \union {Genesis}
      BY <1>1, <1>2, <1>5, <2>1, <2>3, ClosedWithChild DEF parent, StoreHolds
    <3>2. Range(a.delivered) \subseteq c.store \union {Genesis}
      BY <2>1, <2>3, <3>1 DEF StoreHolds
    <3> QED  BY <2>1, <2>3, <3>1, <3>2 DEF StoreHolds
  <2> QED  BY <1>5, <2>1, <2>2, <2>3 DEF d, StoreKeeps
<1> QED  BY <1>3, <1>4, <1>5

\* handle_proposal, with the certificates it processes and the block it may store,
\* commit and vote for, or put off.
LEMMA HandleProposalKeeps ==
  ASSUME NEW n \in Authority, NEW c \in CoreState, NEW p \in Proposal
  PROVE  LET d == handle_proposal(n, c, p)
         IN d \in CoreState /\ VotesStep(c, d) /\ StoreKeeps(c, d)
<1> DEFINE a == process_qc(c, Parent(p.block))
           e == IF p.tc = NoTC THEN a ELSE advance_round(a, p.tc.round)
           waiting == Enqueue(e.awaiting, p)
           w == [e EXCEPT !.awaiting = waiting]
           x == process_block(n, e, p)
           d == handle_proposal(n, c, p)
<1>1. Parent(p.block) \in Block /\ p.tc.round \in Nat
  BY BlockTypes DEF Proposal, TC
<1>2. a \in CoreState /\ Kept(c, a)
  BY <1>1, ProcessQC
<1>3. d = c \/ d = w \/ (d = x /\ PayloadOf(p.block) \subseteq e.batches)
  BY DEF handle_proposal
<1> HIDE DEF a, d
<1>4. e \in CoreState /\ Kept(c, e)
  BY <1>1, <1>2, AdvanceRound, KeptTransitive
<1> HIDE DEF e, x
<1>5. c.last_voted_round \in Nat /\ e.last_voted_round \in Nat
  BY <1>4 DEF CoreState
<1>6. /\ VotesStep(c, c) /\ StoreKeeps(c, c)
      /\ \A y : VotesStep(e, y) => VotesStep(c, y)
      /\ \A y : StoreKeeps(e, y) => StoreKeeps(c, y)
  <2>1. VotesStep(c, c) /\ StoreKeeps(c, c)
    BY <1>5 DEF VotesStep, StoreKeeps, StoreHolds
  <2>2. (StoreHolds(c) => StoreHolds(e)) /\ e.store = c.store
    BY <1>4, <1>5, KeptHolds DEF Kept
  <2>3. \A y : VotesStep(e, y) => VotesStep(c, y)
    BY <1>4, <1>5 DEF VotesStep, Kept
  <2> QED  BY <2>1, <2>2, <2>3 DEF StoreKeeps
<1>7. CASE d = c
  BY <1>6, <1>7 DEF d
<1>8. CASE d = w
  <2>1. waiting \in SUBSET Proposal
    BY <1>4, EnqueueOne DEF CoreState
  <2> HIDE DEF waiting
  <2>2. w \in CoreState
    BY <1>4, <2>1 DEF CoreState
  <2>3. /\ w.voted = e.voted /\ w.last_voted_round = e.last_voted_round
        /\ w.timed_out = e.timed_out /\ w.store = e.store /\ w.batches = e.batches
        /\ w.delivered = e.delivered /\ w.loopback = e.loopback
        /\ w.pending = e.pending
    BY <1>4 DEF CoreState
  <2> HIDE DEF w
  <2>4. VotesStep(e, w)
    BY <1>5, <2>3 DEF VotesStep
  <2>5. StoreKeeps(e, w)
    BY <2>3 DEF StoreHolds, StoreKeeps
  <2> QED  BY <1>6, <1>8, <2>2, <2>4, <2>5 DEF d
<1>9. CASE d = x /\ PayloadOf(p.block) \subseteq e.batches
  <2>1. x \in CoreState /\ VotesStep(e, x) /\ StoreKeeps(e, x)
    BY <1>4, <1>9, ProcessBlock DEF x
  <2> QED  BY <1>6, <1>9, <2>1 DEF d
<1> QED  BY <1>3, <1>7, <1>8, <1>9

\* The record of what a node sent before it stopped.
SentType ==
  [ delivered : Seq(Block), voted : SUBSET Block,
    timed_out : SUBSET [round : Nat, high_qc : Block],
    proposed  : SUBSET Proposal ]

\* A node that boots finds its blocks and batches, and nothing else.
LEMMA Boot ==
  ASSUME NEW n, NEW stored \in SUBSET Block, NEW batches \in SUBSET Payload,
         NEW sent \in SentType
  PROVE  /\ boot(n, stored, batches, sent) \in CoreState
         /\ Kept(boot_fields(stored, batches, sent), boot(n, stored, batches, sent))
<1> DEFINE c == boot_fields(stored, batches, sent)
           d == propose_if_leader(n, c, NoTC)
<1>1. <<>> \in Seq([round : Nat, qc : Block, tc : TC]) /\ Genesis \in Block
  BY GenesisBlock
<1>2. c \in CoreState
  BY <1>1 DEF boot_fields, CoreState, SentType
<1>3. boot(n, stored, batches, sent) = d
  BY DEF boot
<1> HIDE DEF c
<1>4. d \in CoreState /\ Kept(c, d)
  BY <1>2, NoTCType, ProposeIfLeader
<1> QED  BY <1>3, <1>4 DEF c

-----------------------------------------------------------------------------
(* What a node holds, against what verifies.                               *)

\* Certificates and signed messages, whoever holds them.
Worlds == [qcs : SUBSET Block, tcs : SUBSET TC,
           votes : SUBSET Vote, timeouts : SUBSET Timeout]

\* QC::verify, TC::verify and Timeout::verify: a quorum of authentic votes is a
\* QC, one of authentic timeouts a TC, and an authentic timeout has a QC that
\* verifies.
Sound(w) ==
  /\ w \in Worlds
  /\ Genesis \in w.qcs
  /\ \A vs \in SUBSET w.votes, b \in Block : IsQuorum(VotersOf(vs, b)) => b \in w.qcs
  /\ \A ts \in SUBSET w.timeouts, r \in Nat :
       IsQuorum(AuthorsAt(ts, r)) => MakeTC(ts, r) \in w.tcs
  /\ \A t \in w.timeouts : t.high_qc \in w.qcs

\* A QC no higher than the highest the node knows.
Below(c, qc) == RoundOf(qc) <= RoundOf(c.high_qc)

\* The rounds a core keeps stay in order (RoundOrder).
RoundsHold(c, w) ==
  /\ c.last_voted_round <= c.round
  /\ RoundOf(c.high_qc) < c.round
  /\ c.high_qc \in w.qcs
  /\ c.last_committed_round > 0 => c.last_committed_round + 1 <= RoundOf(c.high_qc)

\* The aggregator holds authentic votes and timeouts, and a timeout's QC has
\* been processed before the timeout was counted.
CountsHold(c, w) ==
  /\ c.votes \subseteq w.votes
  /\ c.timeouts \subseteq w.timeouts
  /\ \A t \in c.timeouts : Below(c, t.high_qc)

\* What the proposer was asked to build on verifies.
MakesHold(c, w) ==
  \A i \in 1..Len(c.makes) : /\ c.makes[i].qc \in w.qcs
                             /\ Below(c, c.makes[i].qc)
                             /\ c.makes[i].tc \in w.tcs \union {NoTC}

CertsHold(c, w) == RoundsHold(c, w) /\ CountsHold(c, w) /\ MakesHold(c, w)

\* A proposal whose certificates verify.
Backed(w, p) == Parent(p.block) \in w.qcs /\ p.tc \in w.tcs \union {NoTC}

\* The certificates of a block whose processing was put off were processed.
WaitsHold(c, w) ==
  \A p \in c.pending \union c.awaiting \union c.loopback :
    Backed(w, p) /\ Below(c, Parent(p.block))

\* What make_vote's second rule leaves of a block that was voted for: its QC
\* is of the round before, or a TC of the round before reports none higher.
VoteRule(w, b) ==
  /\ Parent(b) \in w.qcs
  /\ RoundOf(Parent(b)) < RoundOf(b)
  /\ \/ RoundOf(Parent(b)) + 1 = RoundOf(b)
     \/ \E tc \in w.tcs : tc.round + 1 = RoundOf(b) /\ tc.high <= RoundOf(Parent(b))

\* The heads of the 2-chains among certified blocks.
Heads(qcs) ==
  {Parent(child) : child \in {k \in qcs \ {Genesis} :
                                RoundOf(k) = RoundOf(Parent(k)) + 1}}

\* What left the node: votes by the rule, timeouts and proposals with
\* certificates that verify, and blocks of committed chains.
SentHolds(c, w) ==
  /\ \A b \in c.voted : VoteRule(w, b)
  /\ \A t \in c.timed_out : t.high_qc \in w.qcs /\ RoundOf(t.high_qc) < t.round
  /\ \A p \in c.proposed : Backed(w, p)
  /\ \A b \in Range(c.delivered) : \E head \in Heads(w.qcs) : Extends(head, b)

NodeHolds(c, w) == CertsHold(c, w) /\ WaitsHold(c, w) /\ SentHolds(c, w)

-----------------------------------------------------------------------------
(* Certificates.                                                           *)

\* What a handler of certificates does to the round, the highest QC and the
\* queue of the proposer: at most one request, for a round above r.
Asks(c, d, r) ==
  \/ d.makes = c.makes
  \/ /\ d.round > r
     /\ \E tc \in TC :
          d.makes = Append(c.makes, [round |-> d.round, qc |-> d.high_qc, tc |-> tc])
Climbs(c, d, r) ==
  /\ d.round >= c.round
  /\ RoundOf(d.high_qc) >= RoundOf(c.high_qc)
  /\ Asks(c, d, r)

\* A request above a round is above every lower one.
LEMMA ClimbsLower ==
  ASSUME NEW c, NEW d \in CoreState, NEW r \in Nat, NEW s \in Nat, s <= r, Climbs(c, d, r)
  PROVE  Climbs(c, d, s)
<1>1. d.round \in Nat
  BY DEF CoreState
<1>2. d.round > r => d.round > s
  BY <1>1
<1> QED  BY <1>2, Zenon DEF Climbs, Asks

\* advance_round leaves every round up to r.
LEMMA AdvanceCerts ==
  ASSUME NEW c \in CoreState, NEW r \in Nat, NEW w \in Worlds, CertsHold(c, w)
  PROVE  LET d == advance_round(c, r)
         IN /\ CertsHold(d, w)
            /\ d.round > r /\ d.round >= c.round
            /\ d.high_qc = c.high_qc /\ d.makes = c.makes
<1> DEFINE vs == {v \in c.votes : RoundOf(v.block) >= r + 1}
           ts == {t \in c.timeouts : t.round >= r + 1}
           next == r + 1
           a  == [c EXCEPT !.round = next, !.votes = vs, !.timeouts = ts]
           d  == advance_round(c, r)
<1>1. /\ c.round \in Nat /\ c.last_voted_round \in Nat
      /\ c.high_qc \in Block /\ RoundOf(c.high_qc) \in Nat
  BY BlockTypes DEF CoreState
<1>2. (d = c /\ r < c.round) \/ (d = a /\ ~ (r < c.round))
  BY DEF advance_round, MoveTo
<1>3. next > r /\ next \in Nat /\ (~ (r < c.round) => next > c.round)
  BY <1>1
<1>4. vs \subseteq c.votes /\ ts \subseteq c.timeouts
  OBVIOUS
<1> HIDE DEF vs, ts, next, d
<1>5. /\ a.round = next /\ a.votes = vs /\ a.timeouts = ts
      /\ a.high_qc = c.high_qc /\ a.makes = c.makes
      /\ a.last_voted_round = c.last_voted_round
      /\ a.last_committed_round = c.last_committed_round
  BY DEF CoreState
<1> HIDE DEF a
<1>6. CASE d = c /\ r < c.round
  BY <1>1, <1>6 DEF d
<1>7. CASE d = a /\ ~ (r < c.round)
  <2>1. RoundsHold(a, w)
    BY <1>1, <1>3, <1>5, <1>7 DEF CertsHold, RoundsHold
  <2>2. CountsHold(a, w)
    BY <1>4, <1>5 DEF CertsHold, CountsHold, Below
  <2>3. MakesHold(a, w)
    BY <1>5 DEF CertsHold, MakesHold, Below
  <2> QED  BY <1>1, <1>3, <1>5, <1>7, <2>1, <2>2, <2>3 DEF CertsHold, d
<1> QED  BY <1>2, <1>6, <1>7

\* process_qc, of a QC that verifies: afterwards it is below the highest one,
\* and the round above it.
LEMMA ProcessQCCerts ==
  ASSUME NEW c \in CoreState, NEW w \in Worlds, NEW qc \in w.qcs, CertsHold(c, w)
  PROVE  LET d == process_qc(c, qc)
         IN /\ CertsHold(d, w)
            /\ d.round > RoundOf(qc) /\ d.round >= c.round
            /\ Below(d, qc) /\ RoundOf(d.high_qc) >= RoundOf(c.high_qc)
            /\ d.makes = c.makes
<1> DEFINE a == advance_round(c, RoundOf(qc))
           b == [a EXCEPT !.high_qc = qc]
           d == process_qc(c, qc)
<1>1. qc \in Block /\ RoundOf(qc) \in Nat /\ RoundOf(c.high_qc) \in Nat
  BY BlockTypes DEF Worlds, CoreState
<1>2. /\ a \in CoreState /\ CertsHold(a, w)
      /\ a.round > RoundOf(qc) /\ a.round >= c.round
      /\ a.high_qc = c.high_qc /\ a.makes = c.makes
  BY <1>1, AdvanceRound, AdvanceCerts
<1>3. d = IF RoundOf(qc) > RoundOf(a.high_qc) THEN b ELSE a
  BY DEF process_qc, update_high_qc
<1> HIDE DEF a, d
<1>4. /\ b.high_qc = qc /\ b.round = a.round /\ b.makes = a.makes
      /\ b.votes = a.votes /\ b.timeouts = a.timeouts
      /\ b.last_voted_round = a.last_voted_round
      /\ b.last_committed_round = a.last_committed_round
  BY <1>2 DEF CoreState
<1> HIDE DEF b
<1>5. CASE RoundOf(qc) > RoundOf(a.high_qc)
  <2>1. \A x \in Block : Below(a, x) => Below(b, x)
    BY <1>1, <1>2, <1>4, <1>5, BlockTypes DEF Below
  <2>2. RoundsHold(b, w)
    BY <1>1, <1>2, <1>4, <1>5, BlockTypes DEF CertsHold, RoundsHold, CoreState
  <2>3. CountsHold(b, w)
    BY <1>2, <1>4, <2>1 DEF CertsHold, CountsHold, CoreState, Timeout
  <2>4. MakesHold(b, w)
    BY <1>2, <1>4, <2>1 DEF CertsHold, MakesHold, Worlds
  <2>5. Below(b, qc)
    BY <1>1, <1>4 DEF Below
  <2> QED  BY <1>1, <1>2, <1>3, <1>4, <1>5, <2>2, <2>3, <2>4, <2>5 DEF CertsHold, d
<1>6. CASE ~ (RoundOf(qc) > RoundOf(a.high_qc))
  <2>1. Below(a, qc)
    BY <1>1, <1>2, <1>6 DEF Below
  <2> QED  BY <1>1, <1>2, <1>3, <1>6, <2>1 DEF d
<1> QED  BY <1>5, <1>6

\* generate_proposal asks for a block on the highest QC.
LEMMA ProposeCerts ==
  ASSUME NEW n, NEW c \in CoreState, NEW w \in Worlds, CertsHold(c, w),
         NEW tc \in w.tcs \union {NoTC}
  PROVE  LET d == propose_if_leader(n, c, tc)
         IN /\ CertsHold(d, w)
            /\ d.round = c.round /\ d.high_qc = c.high_qc
            /\ \/ d.makes = c.makes
               \/ d.makes = Append(c.makes, [round |-> d.round, qc |-> d.high_qc, tc |-> tc])
<1> DEFINE make  == [round |-> c.round, qc |-> c.high_qc, tc |-> tc]
           queue == Append(c.makes, make)
           a     == [c EXCEPT !.makes = queue]
           d     == propose_if_leader(n, c, tc)
<1>1. d = c \/ d = a
  BY DEF propose_if_leader
<1>2. /\ c.makes \in Seq([round : Nat, qc : Block, tc : TC])
      /\ RoundOf(c.high_qc) \in Nat /\ Len(c.makes) \in Nat
  BY BlockTypes DEF CoreState
<1>3. tc \in TC
  BY NoTCType DEF Worlds
<1>4. \A i \in 1..Len(queue) : queue[i] = make \/ (i \in 1..Len(c.makes) /\ queue[i] = c.makes[i])
  <2>1. make \in [round : Nat, qc : Block, tc : TC]
    BY <1>3 DEF CoreState
  <2> HIDE DEF make
  <2> QED  BY <1>2, <2>1
<1>5. make.qc = c.high_qc /\ make.tc = tc
  OBVIOUS
<1>6. queue = Append(c.makes, [round |-> c.round, qc |-> c.high_qc, tc |-> tc])
  OBVIOUS
<1> HIDE DEF queue, make, d
<1>7. /\ a.makes = queue /\ a.round = c.round /\ a.high_qc = c.high_qc
      /\ a.votes = c.votes /\ a.timeouts = c.timeouts
      /\ a.last_voted_round = c.last_voted_round
      /\ a.last_committed_round = c.last_committed_round
  BY DEF CoreState
<1> HIDE DEF a
<1>8. CASE d = c
  BY <1>8 DEF d
<1>9. CASE d = a
  <2>1. RoundsHold(a, w) /\ CountsHold(a, w)
    BY <1>7 DEF CertsHold, RoundsHold, CountsHold, Below
  <2>2. MakesHold(a, w)
    <3>1. Below(a, c.high_qc) /\ c.high_qc \in w.qcs
      BY <1>2, <1>7 DEF Below, CertsHold, RoundsHold
    <3> SUFFICES ASSUME NEW i \in 1..Len(queue)
                 PROVE  /\ queue[i].qc \in w.qcs
                        /\ Below(a, queue[i].qc)
                        /\ queue[i].tc \in w.tcs \union {NoTC}
      BY <1>7 DEF MakesHold
    <3>2. CASE queue[i] = make
      BY <3>1, <3>2, <1>5
    <3>3. CASE i \in 1..Len(c.makes) /\ queue[i] = c.makes[i]
      BY <3>3, <1>7 DEF CertsHold, MakesHold, Below
    <3> QED  BY <1>4, <3>2, <3>3
  <2> QED  BY <1>6, <1>7, <1>9, <2>1, <2>2 DEF CertsHold, d
<1> QED  BY <1>1, <1>8, <1>9

-----------------------------------------------------------------------------
(* Votes and timeouts.                                                     *)

\* Counting an authentic vote: a QC it completes verifies.
LEMMA CountVoteCerts ==
  ASSUME NEW n, NEW c \in CoreState, NEW w, Sound(w), CertsHold(c, w),
         NEW vote \in w.votes
  PROVE  LET d == count_vote(n, c, vote)
         IN CertsHold(d, w) /\ Climbs(c, d, RoundOf(vote.block))
<1> DEFINE vs    == c.votes \union {vote}
           added == [c EXCEPT !.votes = vs]
           a     == process_qc(added, vote.block)
           e     == propose_if_leader(n, a, NoTC)
           d     == count_vote(n, c, vote)
<1>1. w \in Worlds /\ vote \in Vote /\ vote.block \in Block
  BY DEF Sound, Worlds, Vote
<1>2. RoundOf(c.high_qc) \in Nat /\ c.round \in Nat
  BY BlockTypes DEF CoreState
<1>3. vs \in SUBSET Vote /\ vs \in SUBSET w.votes
  BY <1>1 DEF CoreState, CertsHold, CountsHold
<1>4. added.votes = vs
  BY DEF CoreState
<1>5. \/ d \in {c, added}
      \/ d = e /\ IsQuorum(VotersOf(vs, vote.block))
  BY <1>4 DEF count_vote
<1> HIDE DEF vs, d
<1>6. added \in CoreState
  BY <1>3 DEF CoreState
<1>7. /\ added.round = c.round /\ added.high_qc = c.high_qc
      /\ added.makes = c.makes /\ added.timeouts = c.timeouts
      /\ added.last_voted_round = c.last_voted_round
      /\ added.last_committed_round = c.last_committed_round
  BY DEF CoreState
<1> HIDE DEF added
<1>8. CertsHold(added, w)
  BY <1>3, <1>4, <1>7 DEF CertsHold, RoundsHold, CountsHold, MakesHold, Below
<1>9. CASE d \in {c, added}
  BY <1>2, <1>7, <1>8, <1>9 DEF Climbs, Asks, d
<1>10. CASE d = e /\ IsQuorum(VotersOf(vs, vote.block))
  <2>1. vote.block \in w.qcs
    BY <1>1, <1>3, <1>10 DEF Sound
  <2>2. a \in CoreState
    BY <1>1, <1>6, ProcessQC
  <2>3. /\ CertsHold(a, w) /\ a.round > RoundOf(vote.block) /\ a.round >= c.round
        /\ RoundOf(a.high_qc) >= RoundOf(c.high_qc) /\ a.makes = c.makes
    BY <1>1, <1>6, <1>7, <1>8, <2>1, ProcessQCCerts
  <2> HIDE DEF a
  <2>4. NoTC \in w.tcs \union {NoTC}
    OBVIOUS
  <2>5. /\ CertsHold(e, w) /\ e.round = a.round /\ e.high_qc = a.high_qc
        /\ \/ e.makes = a.makes
           \/ e.makes = Append(a.makes, [round |-> e.round, qc |-> e.high_qc, tc |-> NoTC])
    BY <1>1, <2>2, <2>3, <2>4, ProposeCerts
  <2> HIDE DEF e
  <2>6. Climbs(c, e, RoundOf(vote.block))
    BY <2>3, <2>5, NoTCType DEF Climbs, Asks
  <2> QED  BY <1>10, <2>5, <2>6 DEF d
<1> QED  BY <1>5, <1>9, <1>10

\* handle_vote asks the proposer for a block in a round it has just entered.
LEMMA HandleVoteCerts ==
  ASSUME NEW n, NEW c \in CoreState, NEW w, Sound(w), CertsHold(c, w),
         NEW vote \in w.votes
  PROVE  LET d == handle_vote(n, c, vote)
         IN CertsHold(d, w) /\ Climbs(c, d, c.round)
<1> DEFINE d == handle_vote(n, c, vote)
           e == count_vote(n, c, vote)
<1>1. vote.block \in Block /\ RoundOf(vote.block) \in Nat
  BY BlockTypes DEF Sound, Worlds, Vote
<1>2. c.round \in Nat /\ RoundOf(c.high_qc) \in Nat
  BY BlockTypes DEF CoreState
<1>3. d = c \/ (d = e /\ ~ (RoundOf(vote.block) < c.round))
  BY DEF handle_vote
<1>4. CertsHold(e, w) /\ Climbs(c, e, RoundOf(vote.block))
  BY CountVoteCerts
<1>5. e \in CoreState
  BY CountVote DEF Sound, Worlds
<1> HIDE DEF d, e
<1>6. CASE d = c
  BY <1>2, <1>6 DEF Climbs, Asks, d
<1>7. CASE d = e /\ ~ (RoundOf(vote.block) < c.round)
  <2>1. Climbs(c, e, c.round)
    BY <1>1, <1>2, <1>4, <1>5, <1>7, ClimbsLower
  <2> QED  BY <1>4, <1>7, <2>1 DEF d
<1> QED  BY <1>3, <1>6, <1>7

\* Counting an authentic timeout: a TC it completes verifies.
LEMMA CountTimeoutCerts ==
  ASSUME NEW n, NEW c \in CoreState, NEW w, Sound(w), CertsHold(c, w),
         NEW t \in w.timeouts, Below(c, t.high_qc)
  PROVE  LET d == count_timeout(n, c, t)
         IN CertsHold(d, w) /\ Climbs(c, d, t.round)
<1> DEFINE ts    == c.timeouts \union {t}
           added == [c EXCEPT !.timeouts = ts]
           a     == advance_round(added, t.round)
           tc    == MakeTC(ts, t.round)
           e     == propose_if_leader(n, a, tc)
           d     == count_timeout(n, c, t)
<1>1. w \in Worlds /\ t \in Timeout /\ t.round \in Nat
  BY DEF Sound, Worlds, Timeout
<1>2. RoundOf(c.high_qc) \in Nat /\ c.round \in Nat
  BY BlockTypes DEF CoreState
<1>3. /\ ts \in SUBSET Timeout /\ ts \in SUBSET w.timeouts
      /\ \A u \in ts : Below(c, u.high_qc)
  BY <1>1 DEF CoreState, CertsHold, CountsHold
<1>4. added.timeouts = ts
  BY DEF CoreState
<1>5. \/ d \in {c, added}
      \/ d = e /\ IsQuorum(AuthorsAt(ts, t.round))
  BY <1>4 DEF count_timeout
<1> HIDE DEF ts, d
<1>6. added \in CoreState
  BY <1>3 DEF CoreState
<1>7. /\ added.round = c.round /\ added.high_qc = c.high_qc
      /\ added.makes = c.makes /\ added.votes = c.votes
      /\ added.last_voted_round = c.last_voted_round
      /\ added.last_committed_round = c.last_committed_round
  BY DEF CoreState
<1> HIDE DEF added
<1>8. CertsHold(added, w)
  BY <1>3, <1>4, <1>7 DEF CertsHold, RoundsHold, CountsHold, MakesHold, Below
<1>9. CASE d \in {c, added}
  BY <1>2, <1>7, <1>8, <1>9 DEF Climbs, Asks, d
<1>10. CASE d = e /\ IsQuorum(AuthorsAt(ts, t.round))
  <2>1. tc \in w.tcs /\ tc \in TC /\ tc \in w.tcs \union {NoTC}
    BY <1>1, <1>3, <1>10 DEF Sound, Worlds
  <2> HIDE DEF tc
  <2>2. a \in CoreState
    BY <1>1, <1>6, AdvanceRound
  <2>3. /\ CertsHold(a, w) /\ a.round > t.round /\ a.round >= c.round
        /\ a.high_qc = c.high_qc /\ a.makes = c.makes
    BY <1>1, <1>6, <1>7, <1>8, AdvanceCerts
  <2> HIDE DEF a
  <2>4. /\ CertsHold(e, w) /\ e.round = a.round /\ e.high_qc = a.high_qc
        /\ \/ e.makes = a.makes
           \/ e.makes = Append(a.makes, [round |-> e.round, qc |-> e.high_qc, tc |-> tc])
    BY <1>1, <2>1, <2>2, <2>3, ProposeCerts
  <2> HIDE DEF e
  <2>5. Climbs(c, e, t.round)
    BY <1>2, <2>1, <2>3, <2>4 DEF Climbs, Asks
  <2> QED  BY <1>10, <2>4, <2>5 DEF d
<1> QED  BY <1>5, <1>9, <1>10

\* handle_timeout: the QC in the timeout is processed first, so when the timeout
\* is counted its QC is no higher than the node's own.
LEMMA HandleTimeoutCerts ==
  ASSUME NEW n, NEW c \in CoreState, NEW w, Sound(w), CertsHold(c, w),
         NEW t \in w.timeouts
  PROVE  LET d == handle_timeout(n, c, t)
         IN CertsHold(d, w) /\ Climbs(c, d, c.round)
<1> DEFINE a == process_qc(c, t.high_qc)
           e == count_timeout(n, a, t)
           d == handle_timeout(n, c, t)
<1>1. w \in Worlds /\ t.round \in Nat /\ t.high_qc \in w.qcs /\ t.high_qc \in Block
      /\ t \in Timeout
  BY DEF Sound, Worlds, Timeout
<1>2. c.round \in Nat /\ RoundOf(c.high_qc) \in Nat
  BY BlockTypes DEF CoreState
<1>3. d = c \/ (d = e /\ ~ (t.round < c.round))
  BY DEF handle_timeout
<1>4. a \in CoreState
  BY <1>1, ProcessQC
<1>5. /\ CertsHold(a, w) /\ a.round >= c.round /\ Below(a, t.high_qc)
      /\ RoundOf(a.high_qc) >= RoundOf(c.high_qc) /\ a.makes = c.makes
  BY <1>1, ProcessQCCerts
<1> HIDE DEF a, d
<1>6. CertsHold(e, w) /\ Climbs(a, e, t.round)
  BY <1>4, <1>5, CountTimeoutCerts
<1>7. e \in CoreState
  BY <1>1, <1>4, CountTimeout
<1> HIDE DEF e
<1>8. CASE d = c
  BY <1>2, <1>8 DEF Climbs, Asks, d
<1>9. CASE d = e /\ ~ (t.round < c.round)
  <2>1. /\ a.round \in Nat /\ e.round \in Nat
        /\ RoundOf(a.high_qc) \in Nat /\ RoundOf(e.high_qc) \in Nat
    BY <1>4, <1>7, BlockTypes DEF CoreState
  <2>2. e.round >= c.round /\ RoundOf(e.high_qc) >= RoundOf(c.high_qc)
    BY <1>2, <1>5, <1>6, <2>1 DEF Climbs
  <2>3. e.round > t.round => e.round > c.round
    BY <1>1, <1>2, <1>9, <2>1
  <2>4. Asks(c, e, c.round)
    BY <1>5, <1>6, <2>3 DEF Climbs, Asks
  <2> QED  BY <1>6, <1>9, <2>2, <2>4 DEF Climbs, d
<1> QED  BY <1>3, <1>8, <1>9

\* handle_tc, of a TC that verifies.
LEMMA HandleTCCerts ==
  ASSUME NEW n, NEW c \in CoreState, NEW w, Sound(w), CertsHold(c, w), NEW tc \in w.tcs
  PROVE  LET d == handle_tc(n, c, tc)
         IN CertsHold(d, w) /\ Climbs(c, d, c.round)
<1> DEFINE a == advance_round(c, tc.round)
           e == propose_if_leader(n, a, tc)
           d == handle_tc(n, c, tc)
<1>1. w \in Worlds /\ tc \in TC /\ tc.round \in Nat /\ tc \in w.tcs \union {NoTC}
  BY DEF Sound, Worlds, TC
<1>2. c.round \in Nat /\ RoundOf(c.high_qc) \in Nat
  BY BlockTypes DEF CoreState
<1>3. d = c \/ (d = e /\ ~ (tc.round < c.round))
  BY DEF handle_tc
<1>4. a \in CoreState /\ a.round \in Nat
  BY <1>1, AdvanceRound DEF CoreState
<1>5. /\ CertsHold(a, w) /\ a.round > tc.round /\ a.round >= c.round
      /\ a.high_qc = c.high_qc /\ a.makes = c.makes
  BY <1>1, AdvanceCerts
<1> HIDE DEF a, d
<1>6. /\ CertsHold(e, w) /\ e.round = a.round /\ e.high_qc = a.high_qc
      /\ \/ e.makes = a.makes
         \/ e.makes = Append(a.makes, [round |-> e.round, qc |-> e.high_qc, tc |-> tc])
  BY <1>1, <1>4, <1>5, ProposeCerts
<1> HIDE DEF e
<1>7. CASE d = c
  BY <1>2, <1>7 DEF Climbs, Asks, d
<1>8. CASE d = e /\ ~ (tc.round < c.round)
  <2>1. Climbs(c, e, c.round)
    BY <1>1, <1>2, <1>4, <1>5, <1>6, <1>8 DEF Climbs, Asks
  <2> QED  BY <1>6, <1>8, <2>1 DEF d
<1> QED  BY <1>3, <1>7, <1>8

-----------------------------------------------------------------------------
(* One step of a node.                                                     *)

\* What the node has signed is authentic.
Own(n, c, w) ==
  /\ \A b \in c.voted : [author |-> n, block |-> b] \in w.votes
  /\ \A t \in c.timed_out :
       t.high_qc \in w.qcs =>
         [author |-> n, round |-> t.round, high_qc |-> t.high_qc] \in w.timeouts

\* A step asks the proposer for at most one block, in a round just entered, or
\* the proposer answers its oldest request.
ProposerStep(c, d) ==
  \/ Asks(c, d, c.round) /\ d.proposed = c.proposed
  \/ /\ c.makes # <<>>
     /\ d.makes = Tail(c.makes)
     /\ \E p \in Proposal : /\ RoundOf(p.block) = Head(c.makes).round
                            /\ d.proposed = c.proposed \union {p}

\* Votes are for blocks whose QC was processed; timeouts report a QC no lower than
\* the highest one.
SignStep(c, d) ==
  /\ \A b \in d.voted \ c.voted : Below(d, Parent(b))
  /\ \A t \in d.timed_out \ c.timed_out : RoundOf(t.high_qc) >= RoundOf(c.high_qc)

\* Nothing is committed, or the head of a 2-chain above the last one.
CommitStep(c, d, w) ==
  \/ d.delivered = c.delivered /\ d.last_committed_round = c.last_committed_round
  \/ \E head \in Heads(w.qcs) :
       /\ c.last_committed_round < RoundOf(head)
       /\ d.last_committed_round = RoundOf(head)
       /\ d.delivered = c.delivered \o Walk(c, head)

NodeStep(c, d, w) ==
  /\ d.round >= c.round
  /\ RoundOf(d.high_qc) >= RoundOf(c.high_qc)
  /\ ProposerStep(c, d)
  /\ SignStep(c, d)
  /\ CommitStep(c, d, w)

\* What is below the highest QC stays there when that climbs.
LEMMA BelowGrows ==
  ASSUME NEW c \in CoreState, NEW d \in CoreState,
         RoundOf(d.high_qc) >= RoundOf(c.high_qc), NEW b \in Block, Below(c, b)
  PROVE  Below(d, b)
BY BlockTypes DEF Below, CoreState

\* A handler of certificates keeps what waits and what was sent as they were.
LEMMA KeptNode ==
  ASSUME NEW c \in CoreState, NEW d \in CoreState, NEW w \in Worlds,
         Kept(c, d), NodeHolds(c, w), CertsHold(d, w), Climbs(c, d, c.round)
  PROVE  NodeHolds(d, w) /\ NodeStep(c, d, w)
<1>1. \A b \in Block : Below(c, b) => Below(d, b)
  BY BelowGrows DEF Climbs
<1>2. WaitsHold(d, w)
  <2>1. \A p \in c.pending \union c.awaiting \union c.loopback : Parent(p.block) \in Block
    BY BlockTypes DEF CoreState, Proposal
  <2> QED  BY <1>1, <2>1 DEF Kept, NodeHolds, WaitsHold
<1>3. SentHolds(d, w)
  BY DEF Kept, NodeHolds, SentHolds
<1>4. NodeStep(c, d, w)
  BY DEF Kept, Climbs, NodeStep, ProposerStep, SignStep, CommitStep
<1> QED  BY <1>2, <1>3, <1>4 DEF NodeHolds

\* A vote is counted: the node's own or another's.
LEMMA HandleVoteNode ==
  ASSUME NEW n, NEW c \in CoreState, NEW w, Sound(w), NodeHolds(c, w), NEW vote \in w.votes
  PROVE  LET d == handle_vote(n, c, vote)
         IN NodeHolds(d, w) /\ NodeStep(c, d, w)
<1>1. vote \in Vote /\ w \in Worlds
  BY DEF Sound, Worlds
<1>2. CertsHold(c, w)
  BY DEF NodeHolds
<1> QED  BY <1>1, <1>2, HandleVoteKeeps, HandleVoteCerts, KeptNode

\* A timeout is counted.
LEMMA HandleTimeoutNode ==
  ASSUME NEW n, NEW c \in CoreState, NEW w, Sound(w), NodeHolds(c, w), NEW t \in w.timeouts
  PROVE  LET d == handle_timeout(n, c, t)
         IN NodeHolds(d, w) /\ NodeStep(c, d, w)
<1>1. t \in Timeout /\ w \in Worlds
  BY DEF Sound, Worlds
<1>2. CertsHold(c, w)
  BY DEF NodeHolds
<1> QED  BY <1>1, <1>2, HandleTimeoutKeeps, HandleTimeoutCerts, KeptNode

\* A timeout certificate is handled.
LEMMA HandleTCNode ==
  ASSUME NEW n, NEW c \in CoreState, NEW w, Sound(w), NodeHolds(c, w), NEW tc \in w.tcs
  PROVE  LET d == handle_tc(n, c, tc)
         IN NodeHolds(d, w) /\ NodeStep(c, d, w)
<1>1. tc \in TC /\ w \in Worlds
  BY DEF Sound, Worlds
<1>2. CertsHold(c, w)
  BY DEF NodeHolds
<1> QED  BY <1>1, <1>2, HandleTCKeeps, HandleTCCerts, KeptNode

\* An expired timer: the timeout reports the highest QC and is counted.
LEMMA LocalTimeoutNode ==
  ASSUME NEW n \in Authority, NEW c \in CoreState, NEW w, Sound(w), NodeHolds(c, w),
         Own(n, local_timeout_round(n, c), w)
  PROVE  LET d == local_timeout_round(n, c)
         IN NodeHolds(d, w) /\ NodeStep(c, d, w)
<1> DEFINE top == IF c.round > c.last_voted_round THEN c.round ELSE c.last_voted_round
           a   == [c EXCEPT !.last_voted_round = top]
           t   == [round |-> c.round, high_qc |-> c.high_qc]
           ts  == c.timed_out \union {t}
           b   == [a EXCEPT !.timed_out = ts]
           m   == [author |-> n, round |-> t.round, high_qc |-> t.high_qc]
           d   == local_timeout_round(n, c)
<1>1. /\ c.round \in Nat /\ c.last_voted_round \in Nat /\ c.last_voted_round <= c.round
      /\ RoundOf(c.high_qc) \in Nat /\ RoundOf(c.high_qc) < c.round /\ c.high_qc \in w.qcs
  BY BlockTypes DEF CoreState, NodeHolds, CertsHold, RoundsHold
<1>2. /\ top \in Nat /\ top = c.round
      /\ ts \in SUBSET [round : Nat, high_qc : Block]
      /\ m \in Timeout
      /\ t.round = c.round /\ t.high_qc = c.high_qc
  BY <1>1 DEF CoreState, Timeout
<1>3. d = handle_timeout(n, b, m)
  BY DEF local_timeout_round, time_out, increase_last_voted_round, CoreState
<1>4. m \in w.timeouts
  <2>1. d.timed_out = ts
    BY LocalTimeoutKeeps
  <2>2. t \in d.timed_out
    BY <2>1
  <2> QED  BY <1>1, <1>2, <2>2 DEF Own
<1> HIDE DEF top, m, d
<1>5. a \in CoreState
  BY <1>2 DEF CoreState
<1>6. b \in CoreState
  BY <1>2, <1>5 DEF CoreState
<1>7. /\ b.last_voted_round = c.round /\ b.timed_out = ts
      /\ b.round = c.round /\ b.high_qc = c.high_qc
      /\ b.votes = c.votes /\ b.timeouts = c.timeouts /\ b.makes = c.makes
      /\ b.last_committed_round = c.last_committed_round
      /\ b.pending = c.pending /\ b.awaiting = c.awaiting /\ b.loopback = c.loopback
      /\ b.delivered = c.delivered /\ b.voted = c.voted
      /\ b.proposed = c.proposed
  BY <1>2 DEF CoreState
<1> HIDE DEF a, b
<1>8. NodeHolds(b, w)
  <2>1. CertsHold(b, w)
    BY <1>1, <1>7 DEF NodeHolds, CertsHold, RoundsHold, CountsHold, MakesHold, Below
  <2>2. WaitsHold(b, w)
    BY <1>7 DEF NodeHolds, WaitsHold, Below
  <2>3. SentHolds(b, w)
    <3>1. \A u \in ts : u.high_qc \in w.qcs /\ RoundOf(u.high_qc) < u.round
      BY <1>1, <1>2 DEF NodeHolds, SentHolds
    <3> HIDE DEF ts
    <3> QED  BY <1>7, <3>1 DEF NodeHolds, SentHolds
  <2> QED  BY <2>1, <2>2, <2>3 DEF NodeHolds
<1>9. NodeHolds(d, w) /\ NodeStep(b, d, w)
  BY <1>3, <1>4, <1>6, <1>8, HandleTimeoutNode
<1>10. Kept(b, d)
  BY <1>2, <1>3, <1>6, HandleTimeoutKeeps
<1>11. NodeStep(c, d, w)
  <2>1. SignStep(c, d)
    <3>1. d.timed_out = ts /\ d.voted = c.voted
      BY <1>7, <1>10 DEF Kept
    <3>2. \A u \in ts \ c.timed_out : u.high_qc = c.high_qc
      BY <1>2
    <3> HIDE DEF ts
    <3> QED  BY <1>1, <3>1, <3>2 DEF SignStep
  <2>2. CommitStep(c, d, w)
    BY <1>7, <1>10 DEF Kept, CommitStep
  <2>3. ProposerStep(c, d)
    BY <1>7, <1>9 DEF NodeStep, ProposerStep, Asks
  <2> QED  BY <1>7, <1>9, <2>1, <2>2, <2>3 DEF NodeStep
<1> QED  BY <1>9, <1>11 DEF d

\* What is on the path to a block is a block it extends.
LEMMA PathIsPrefix ==
  ASSUME NEW b \in Block, NEW a \in PathTo(b)
  PROVE  a \in Block /\ Extends(b, a)
<1>1. b \in Seq(Entry) /\ Len(b) \in Nat
  BY BlockTypes
<1>2. PICK i \in 0..Len(b) : a = SubSeq(b, 1, i)
  BY DEF PathTo
<1>3. a \in Block
  BY <1>2, BlockTypes
<1>4. a \in Seq(Entry) /\ Len(a) = i /\ i \in Nat
  <2>1. \A k \in 0..Len(b) : Len(SubSeq(b, 1, k)) = k
    BY <1>1
  <2> QED  BY <1>2, <1>3, <2>1, BlockTypes
<1>5. SubSeq(a, 1, Len(a)) = a
  BY <1>4
<1>6. Len(a) <= Len(b) /\ SubSeq(a, 1, Len(a)) = SubSeq(b, 1, Len(a))
  BY <1>2, <1>4, <1>5
<1> QED  BY <1>3, <1>6 DEF Extends, IsPrefix

\* commit_two_chain, of a block whose QC was processed and its parent.
LEMMA CommitNode ==
  ASSUME NEW c \in CoreState, NEW w \in Worlds, NodeHolds(c, w),
         NEW b1 \in w.qcs, Below(c, b1)
  PROVE  LET d == commit_two_chain(c, Parent(b1), b1)
         IN NodeHolds(d, w) /\ CommitStep(c, d, w)
<1> DEFINE b0 == Parent(b1)
           d  == commit_two_chain(c, b0, b1)
<1>1. b1 \in Block /\ b0 \in Block
  BY BlockTypes DEF Worlds
<1>2. /\ RoundOf(b0) \in Nat /\ RoundOf(b1) \in Nat /\ RoundOf(c.high_qc) \in Nat
      /\ c.last_committed_round \in Nat
  BY <1>1, BlockTypes DEF CoreState
<1>3. /\ Range(d.delivered) \subseteq Range(c.delivered) \union PathTo(b0)
      /\ d.awaiting \subseteq c.awaiting
      /\ d.round = c.round /\ d.last_voted_round = c.last_voted_round
      /\ d.high_qc = c.high_qc /\ d.votes = c.votes
      /\ d.timeouts = c.timeouts /\ d.makes = c.makes
      /\ d.pending = c.pending /\ d.loopback = c.loopback
      /\ d.voted = c.voted /\ d.timed_out = c.timed_out
      /\ d.proposed = c.proposed
      /\ \/ /\ d.delivered = c.delivered
            /\ d.last_committed_round = c.last_committed_round
         \/ /\ RoundOf(b0) + 1 = RoundOf(b1)
            /\ c.last_committed_round < RoundOf(b0)
            /\ d.last_committed_round = RoundOf(b0)
            /\ d.delivered = c.delivered \o Walk(c, b0)
  BY <1>1, CommitTwoChain
<1>4. RoundOf(b0) + 1 = RoundOf(b1) => b0 \in Heads(w.qcs)
  <2>1. RoundOf(b0) + 1 = RoundOf(b1) => b1 # Genesis
    BY <1>2, GenesisBlock
  <2> QED  BY <1>2, <2>1 DEF Heads
<1> HIDE DEF d
<1>5. CommitStep(c, d, w)
  BY <1>3, <1>4 DEF CommitStep
<1>6. CertsHold(d, w)
  <2>1. RoundsHold(d, w)
    BY <1>2, <1>3 DEF NodeHolds, CertsHold, RoundsHold, Below
  <2> QED  BY <1>3, <2>1 DEF NodeHolds, CertsHold, CountsHold, MakesHold, Below
<1>7. WaitsHold(d, w)
  BY <1>3 DEF NodeHolds, WaitsHold, Below
<1>8. ASSUME NEW b \in Range(d.delivered)
      PROVE  \E head \in Heads(w.qcs) : Extends(head, b)
  <2>1. CASE b \in Range(c.delivered)
    BY <2>1 DEF NodeHolds, SentHolds
  <2>2. CASE b \notin Range(c.delivered)
    <3>1. b \in PathTo(b0) /\ RoundOf(b0) + 1 = RoundOf(b1)
      BY <1>3, <1>8, <2>2
    <3> QED  BY <1>1, <1>4, <3>1, PathIsPrefix
  <2> QED  BY <2>1, <2>2
<1>9. SentHolds(d, w)
  BY <1>3, <1>8 DEF NodeHolds, SentHolds
<1> QED  BY <1>5, <1>6, <1>7, <1>9 DEF NodeHolds, d

\* make_vote: a vote for a block of the node's round whose certificates verify
\* and were processed keeps to the rule.
LEMMA VoteNode ==
  ASSUME NEW n \in Authority, NEW c \in CoreState, NEW w, Sound(w), NodeHolds(c, w),
         NEW p \in Proposal, Backed(w, p), Below(c, Parent(p.block)),
         RoundOf(p.block) = c.round, Own(n, vote_for(n, c, p), w)
  PROVE  LET d == vote_for(n, c, p)
         IN NodeHolds(d, w) /\ NodeStep(c, d, w)
<1> DEFINE r    == RoundOf(p.block)
           bs   == c.voted \union {p.block}
           top  == IF r > c.last_voted_round THEN r ELSE c.last_voted_round
           a    == [c EXCEPT !.last_voted_round = top]
           b    == [a EXCEPT !.voted = bs]
           vote == [author |-> n, block |-> p.block]
           h    == handle_vote(n, b, vote)
           d    == vote_for(n, c, p)
<1>1. p.block \in Block /\ vote \in Vote /\ w \in Worlds
  BY DEF Proposal, Vote, Sound
<1>2. /\ r \in Nat /\ top \in Nat /\ bs \in SUBSET Block
      /\ RoundOf(Parent(p.block)) \in Nat /\ RoundOf(c.high_qc) \in Nat
      /\ c.round \in Nat
  BY <1>1, BlockTypes DEF CoreState
<1>3. \/ d = c
      \/ SafeToVote(c, p) /\ d \in {b, h}
  BY DEF vote_for, increase_last_voted_round
<1>4. VoteRule(w, p.block) \/ ~ SafeToVote(c, p)
  <2>1. /\ Parent(p.block) \in w.qcs
        /\ RoundOf(Parent(p.block)) < RoundOf(p.block)
    BY <1>2 DEF Backed, Below, NodeHolds, CertsHold, RoundsHold
  <2>2. SafeToVote(c, p) =>
          \/ RoundOf(Parent(p.block)) + 1 = RoundOf(p.block)
          \/ /\ p.tc \in w.tcs
             /\ p.tc.round + 1 = RoundOf(p.block) /\ RoundOf(Parent(p.block)) >= p.tc.high
    BY DEF SafeToVote, SafetyRule2, Backed
  <2>3. p.tc.high \in Nat
    BY DEF Proposal, TC
  <2>4. RoundOf(Parent(p.block)) >= p.tc.high => p.tc.high <= RoundOf(Parent(p.block))
    BY <1>2, <2>3
  <2> QED  BY <2>1, <2>2, <2>4 DEF VoteRule
<1>5. top <= c.round
  BY <1>2 DEF NodeHolds, CertsHold, RoundsHold
<1>6. \A x \in bs \ c.voted : x = p.block
  OBVIOUS
<1>7. p.block \in bs /\ c.voted \subseteq bs
  OBVIOUS
<1> HIDE DEF r, bs, top, d
<1>8. a \in CoreState
  BY <1>2 DEF CoreState
<1>9. b \in CoreState
  BY <1>2, <1>8 DEF CoreState
<1>10. /\ b.last_voted_round = top /\ b.voted = bs
       /\ b.round = c.round /\ b.high_qc = c.high_qc
       /\ b.votes = c.votes /\ b.timeouts = c.timeouts /\ b.makes = c.makes
       /\ b.last_committed_round = c.last_committed_round
       /\ b.pending = c.pending /\ b.awaiting = c.awaiting /\ b.loopback = c.loopback
       /\ b.delivered = c.delivered /\ b.proposed = c.proposed
       /\ b.timed_out = c.timed_out
  BY DEF CoreState
<1> HIDE DEF a, b, h
<1>11. CASE d = c
  <2>1. NodeStep(c, c, w)
    BY <1>2 DEF NodeStep, ProposerStep, Asks, SignStep, CommitStep
  <2> QED  BY <1>11, <2>1 DEF d
<1>12. CASE SafeToVote(c, p) /\ d \in {b, h}
  <2>1. NodeHolds(b, w)
    <3>1. CertsHold(b, w)
      BY <1>5, <1>10 DEF NodeHolds, CertsHold, RoundsHold, CountsHold, MakesHold, Below
    <3>2. WaitsHold(b, w)
      BY <1>10 DEF NodeHolds, WaitsHold, Below
    <3>3. \A x \in bs : VoteRule(w, x)
      BY <1>4, <1>6, <1>12 DEF NodeHolds, SentHolds
    <3>4. SentHolds(b, w)
      BY <1>10, <3>3 DEF NodeHolds, SentHolds
    <3> QED  BY <3>1, <3>2, <3>4 DEF NodeHolds
  <2>2. SignStep(c, b)
    BY <1>6, <1>10 DEF SignStep, Below
  <2>3. CASE d = b
    <3>1. NodeStep(c, b, w)
      BY <1>2, <1>10, <2>2 DEF NodeStep, ProposerStep, Asks, CommitStep
    <3> QED  BY <2>1, <2>3, <3>1 DEF d
  <2>4. CASE d = h
    <3>1. h \in CoreState /\ Kept(b, h)
      BY <1>1, <1>9, HandleVoteKeeps DEF h
    <3>2. vote \in w.votes
      <4>1. p.block \in d.voted
        BY <1>7, <1>10, <2>4, <3>1 DEF Kept
      <4> QED  BY <4>1 DEF Own, d
    <3>3. NodeHolds(h, w) /\ NodeStep(b, h, w)
      BY <1>9, <2>1, <3>2, HandleVoteNode DEF h
    <3>4. NodeStep(c, h, w)
      <4>1. SignStep(c, h)
        <5>1. h.voted = bs /\ h.timed_out = c.timed_out
          BY <1>10, <3>1 DEF Kept
        <5>2. Below(h, Parent(p.block))
          <6>1. Below(b, Parent(p.block)) /\ Parent(p.block) \in Block
            BY <1>1, <1>10, BlockTypes DEF Below
          <6> QED  BY <1>9, <3>1, <3>3, <6>1, BelowGrows DEF NodeStep
        <5> QED  BY <1>6, <5>1, <5>2 DEF SignStep
      <4>2. CommitStep(c, h, w)
        BY <1>10, <3>1 DEF Kept, CommitStep
      <4>3. ProposerStep(c, h)
        BY <1>10, <3>3 DEF NodeStep, ProposerStep, Asks
      <4> QED  BY <1>10, <3>3, <4>1, <4>2, <4>3 DEF NodeStep
    <3> QED  BY <2>4, <3>3, <3>4 DEF d
  <2> QED  BY <1>12, <2>3, <2>4
<1> QED  BY <1>3, <1>11, <1>12

\* accept_block: the block is stored, its grandparent may be committed, and it
\* may be voted for.
LEMMA AcceptNode ==
  ASSUME NEW n \in Authority, NEW c \in CoreState, NEW w, Sound(w), NodeHolds(c, w),
         NEW p \in Proposal, Backed(w, p), Below(c, Parent(p.block)),
         Own(n, accept_block(n, c, p), w)
  PROVE  LET d == accept_block(n, c, p)
         IN NodeHolds(d, w) /\ NodeStep(c, d, w)
<1> DEFINE bs == c.store \union {p.block}
           a  == [c EXCEPT !.store = bs]
           b1 == Parent(p.block)
           e  == commit_two_chain(a, Parent(b1), b1)
           v  == vote_for(n, e, p)
           d  == accept_block(n, c, p)
<1>1. /\ bs \in SUBSET Block /\ b1 \in Block /\ Parent(b1) \in Block
      /\ b1 \in w.qcs /\ w \in Worlds
  BY BlockTypes DEF Proposal, CoreState, Backed, Sound
<1>2. d = IF RoundOf(p.block) # e.round THEN e ELSE v
  BY DEF accept_block
<1> HIDE DEF bs, d
<1>3. a \in CoreState
  BY <1>1 DEF CoreState
<1>4. /\ a.round = c.round /\ a.high_qc = c.high_qc /\ a.last_voted_round = c.last_voted_round
      /\ a.last_committed_round = c.last_committed_round
      /\ a.votes = c.votes /\ a.timeouts = c.timeouts /\ a.makes = c.makes
      /\ a.pending = c.pending /\ a.awaiting = c.awaiting /\ a.loopback = c.loopback
      /\ a.delivered = c.delivered /\ a.proposed = c.proposed
      /\ a.timed_out = c.timed_out /\ a.voted = c.voted
  BY DEF CoreState
<1> HIDE DEF a
<1>5. NodeHolds(a, w) /\ Below(a, b1)
  BY <1>4 DEF NodeHolds, CertsHold, RoundsHold, CountsHold, MakesHold, Below,
              WaitsHold, SentHolds
<1>6. NodeHolds(e, w) /\ CommitStep(a, e, w)
  BY <1>1, <1>3, <1>5, CommitNode
<1>7. /\ e \in CoreState /\ e.round = a.round /\ e.high_qc = a.high_qc
      /\ e.makes = a.makes /\ e.proposed = a.proposed
      /\ e.voted = a.voted /\ e.timed_out = a.timed_out
  BY <1>1, <1>3, CommitTwoChain
<1>8. Walk(a, Parent(b1)) = Walk(c, Parent(b1)) /\ \A x : Walk(a, x) = Walk(c, x)
  BY <1>4, Zenon DEF Walk, WalkEnd
<1>9. CommitStep(c, e, w)
  BY <1>4, <1>6, <1>8 DEF CommitStep
<1> HIDE DEF e, v
<1>10. RoundOf(c.high_qc) \in Nat /\ c.round \in Nat
  BY BlockTypes DEF CoreState
<1>11. CASE RoundOf(p.block) # e.round
  <2>1. NodeStep(c, e, w)
    BY <1>4, <1>7, <1>9, <1>10 DEF NodeStep, ProposerStep, Asks, SignStep
  <2> QED  BY <1>2, <1>6, <1>11, <2>1 DEF d
<1>12. CASE RoundOf(p.block) = e.round
  <2>1. d = v
    BY <1>2, <1>12
  <2>2. Own(n, v, w)
    BY <2>1 DEF d
  <2>3. Below(e, b1)
    BY <1>5, <1>7 DEF Below
  <2>4. NodeHolds(v, w) /\ NodeStep(e, v, w)
    BY <1>6, <1>7, <1>12, <2>2, <2>3, VoteNode DEF v, b1
  <2>5. v.delivered = e.delivered /\ v.last_committed_round = e.last_committed_round
    BY <1>7, VoteFor DEF v
  <2>6. CommitStep(c, v, w)
    BY <1>9, <2>5 DEF CommitStep
  <2>7. SignStep(c, v)
    BY <1>4, <1>7, <2>4 DEF NodeStep, SignStep
  <2>8. ProposerStep(c, v)
    BY <1>4, <1>7, <2>4 DEF NodeStep, ProposerStep, Asks
  <2>9. NodeStep(c, v, w)
    BY <1>4, <1>7, <2>4, <2>6, <2>7, <2>8 DEF NodeStep
  <2> QED  BY <2>1, <2>4, <2>9 DEF d
<1> QED  BY <1>11, <1>12

\* process_block: the block is put off until its parent is stored, or accepted.
LEMMA ProcessNode ==
  ASSUME NEW n \in Authority, NEW c \in CoreState, NEW w, Sound(w), NodeHolds(c, w),
         NEW p \in Proposal, Backed(w, p), Below(c, Parent(p.block)),
         Own(n, process_block(n, c, p), w)
  PROVE  LET d == process_block(n, c, p)
         IN NodeHolds(d, w) /\ NodeStep(c, d, w)
<1> DEFINE waiting == Enqueue(c.pending, p)
           a == [c EXCEPT !.pending = waiting]
           e == accept_block(n, c, p)
           d == process_block(n, c, p)
<1>1. d = a \/ d = e
  BY DEF process_block
<1>2. waiting \subseteq c.pending \union {p}
  BY EnqueueOne
<1> HIDE DEF waiting, d
<1>3. /\ a.round = c.round /\ a.high_qc = c.high_qc /\ a.last_voted_round = c.last_voted_round
      /\ a.last_committed_round = c.last_committed_round
      /\ a.votes = c.votes /\ a.timeouts = c.timeouts /\ a.makes = c.makes
      /\ a.pending = waiting /\ a.awaiting = c.awaiting /\ a.loopback = c.loopback
      /\ a.delivered = c.delivered /\ a.proposed = c.proposed
      /\ a.timed_out = c.timed_out /\ a.voted = c.voted
  BY DEF CoreState
<1> HIDE DEF a, e
<1>4. CASE d = a
  <2>1. CertsHold(a, w) /\ SentHolds(a, w)
    BY <1>3 DEF NodeHolds, CertsHold, RoundsHold, CountsHold, MakesHold, Below, SentHolds
  <2>2. WaitsHold(a, w)
    BY <1>2, <1>3 DEF NodeHolds, WaitsHold, Below
  <2>3. RoundOf(c.high_qc) \in Nat /\ c.round \in Nat
    BY BlockTypes DEF CoreState
  <2>4. NodeStep(c, a, w)
    BY <1>3, <2>3 DEF NodeStep, ProposerStep, Asks, SignStep, CommitStep
  <2> QED  BY <1>4, <2>1, <2>2, <2>4 DEF NodeHolds, d
<1>5. CASE d = e
  BY <1>5, AcceptNode DEF d, e
<1> QED  BY <1>1, <1>4, <1>5

\* handle_proposal: the certificates of the proposal are processed first.
LEMMA HandleProposalNode ==
  ASSUME NEW n \in Authority, NEW c \in CoreState, NEW w, Sound(w), NodeHolds(c, w),
         NEW p \in Proposal, Backed(w, p), Own(n, handle_proposal(n, c, p), w)
  PROVE  LET d == handle_proposal(n, c, p)
         IN NodeHolds(d, w) /\ NodeStep(c, d, w)
<1> DEFINE qc == Parent(p.block)
           a == process_qc(c, qc)
           e == IF p.tc = NoTC THEN a ELSE advance_round(a, p.tc.round)
           waiting == Enqueue(e.awaiting, p)
           b == [e EXCEPT !.awaiting = waiting]
           x == process_block(n, e, p)
           d == handle_proposal(n, c, p)
<1>1. qc \in Block /\ p.tc.round \in Nat /\ qc \in w.qcs /\ w \in Worlds
  BY BlockTypes DEF Proposal, TC, Backed, Sound
<1>2. RoundOf(c.high_qc) \in Nat /\ c.round \in Nat
  BY BlockTypes DEF CoreState
<1>3. d \in {c, x, b}
  BY DEF handle_proposal
<1>4. a \in CoreState /\ Kept(c, a) /\ a.round \in Nat
  BY <1>1, ProcessQC DEF CoreState
<1>5. /\ CertsHold(a, w) /\ a.round >= c.round /\ Below(a, qc)
      /\ RoundOf(a.high_qc) >= RoundOf(c.high_qc) /\ a.makes = c.makes
  BY <1>1, ProcessQCCerts DEF NodeHolds
<1> HIDE DEF a, d
<1>6. e \in CoreState /\ Kept(c, e)
  BY <1>1, <1>4, AdvanceRound, KeptTransitive
<1>7. /\ CertsHold(e, w) /\ e.round >= a.round /\ e.high_qc = a.high_qc /\ e.makes = a.makes
  BY <1>1, <1>4, <1>5, AdvanceCerts
<1>8. e.round \in Nat /\ e.round >= c.round
  BY <1>2, <1>4, <1>5, <1>6, <1>7 DEF CoreState
<1> HIDE DEF e
<1>9. Climbs(c, e, c.round) /\ e.makes = c.makes /\ Below(e, qc)
  BY <1>5, <1>7, <1>8 DEF Climbs, Asks, Below
<1>10. NodeHolds(e, w)
  BY <1>1, <1>6, <1>7, <1>9, KeptNode
<1>11. ASSUME NEW y \in CoreState, NodeStep(e, y, w) PROVE NodeStep(c, y, w)
  <2>1. /\ y.round \in Nat /\ RoundOf(y.high_qc) \in Nat /\ RoundOf(e.high_qc) \in Nat
    BY <1>6, <1>11, BlockTypes DEF CoreState
  <2>2. y.round >= c.round /\ RoundOf(y.high_qc) >= RoundOf(c.high_qc)
    BY <1>2, <1>8, <1>9, <1>11, <2>1 DEF NodeStep, Climbs
  <2>3. y.round > e.round => y.round > c.round
    BY <1>2, <1>8, <2>1
  <2>4. ProposerStep(c, y)
    BY <1>6, <1>9, <1>11, <2>3 DEF NodeStep, ProposerStep, Asks, Kept
  <2>5. SignStep(c, y)
    <3>1. /\ e.voted = c.voted /\ e.timed_out = c.timed_out
          /\ RoundOf(e.high_qc) >= RoundOf(c.high_qc)
      BY <1>6, <1>9 DEF Kept, Climbs
    <3>2. \A t \in y.timed_out : RoundOf(t.high_qc) \in Nat
      BY <1>11, BlockTypes DEF CoreState
    <3> QED  BY <1>2, <1>11, <2>1, <3>1, <3>2 DEF NodeStep, SignStep
  <2>6. CommitStep(c, y, w)
    <3>1. e.delivered = c.delivered /\ e.last_committed_round = c.last_committed_round
      BY <1>6 DEF Kept
    <3>2. \A h : Walk(e, h) = Walk(c, h)
      BY <3>1, Zenon DEF Walk, WalkEnd
    <3> QED  BY <1>11, <3>1, <3>2 DEF NodeStep, CommitStep
  <2> QED  BY <2>2, <2>4, <2>5, <2>6 DEF NodeStep
<1>12. waiting \subseteq e.awaiting \union {p}
  BY EnqueueOne
<1>13. b \in CoreState
  <2>1. waiting \in SUBSET Proposal
    BY <1>6, <1>12 DEF CoreState
  <2> HIDE DEF waiting
  <2> QED  BY <1>6, <2>1 DEF CoreState
<1>14. CASE d = c
  <2>1. NodeStep(c, c, w)
    BY <1>2 DEF NodeStep, ProposerStep, Asks, SignStep, CommitStep
  <2> QED  BY <1>14, <2>1 DEF d
<1>15. CASE d = b
  <2> HIDE DEF waiting
  <2>1. /\ b.round = e.round /\ b.high_qc = e.high_qc /\ b.last_voted_round = e.last_voted_round
        /\ b.last_committed_round = e.last_committed_round
        /\ b.votes = e.votes /\ b.timeouts = e.timeouts /\ b.makes = e.makes
        /\ b.pending = e.pending /\ b.awaiting = waiting /\ b.loopback = e.loopback
        /\ b.delivered = e.delivered /\ b.proposed = e.proposed
        /\ b.timed_out = e.timed_out /\ b.voted = e.voted
    BY <1>6 DEF CoreState
  <2> HIDE DEF b
  <2>2. CertsHold(b, w) /\ SentHolds(b, w)
    BY <1>10, <2>1 DEF NodeHolds, CertsHold, RoundsHold, CountsHold, MakesHold, Below, SentHolds
  <2>3. WaitsHold(b, w)
    BY <1>9, <1>10, <1>12, <2>1 DEF NodeHolds, WaitsHold, Below
  <2>4. RoundOf(e.high_qc) \in Nat
    BY <1>6, BlockTypes DEF CoreState
  <2>5. NodeStep(e, b, w)
    BY <1>8, <2>1, <2>4 DEF NodeStep, ProposerStep, Asks, SignStep, CommitStep
  <2> QED  BY <1>11, <1>13, <1>15, <2>2, <2>3, <2>5 DEF NodeHolds, d
<1>16. CASE d = x
  <2>1. Own(n, x, w)
    BY <1>16 DEF d
  <2>2. x \in CoreState
    BY <1>6, ProcessBlock
  <2>3. NodeHolds(x, w) /\ NodeStep(e, x, w)
    BY <1>6, <1>9, <1>10, <2>1, ProcessNode
  <2> HIDE DEF x
  <2> QED  BY <1>11, <1>16, <2>2, <2>3 DEF d
<1> QED  BY <1>3, <1>14, <1>15, <1>16

-----------------------------------------------------------------------------
(* The system.  What may be delivered is well formed.                      *)

\* Whatever the network delivers in a well-formed state is well formed.
LEMMA MessageTypes ==
  ASSUME TypeOK
  PROVE  /\ Proposals \subseteq Proposal
         /\ \A n : VotesTo(n) \subseteq Vote
         /\ Timeouts \subseteq Timeout
         /\ VerifiedTCs \subseteq TC
         /\ \A n \in Honest : n \in Authority /\ core[n] \in CoreState
<1>1. \A n \in Honest : n \in Authority /\ core[n] \in CoreState
  BY DEF TypeOK, Honest
<1>2. \A n \in Honest : /\ core[n].proposed \subseteq Proposal
                        /\ core[n].voted \subseteq Block
                        /\ core[n].timed_out \subseteq [round : Nat, high_qc : Block]
  BY <1>1 DEF CoreState
<1>3. VerifiedTCs \subseteq TC
  <2>1. TimeoutRounds \subseteq Nat
    BY BoundsAssumption
  <2>2. {RoundOf(b) : b \in Block} \subseteq Nat
    BY BlockTypes
  <2>3. TCs \subseteq TC
    BY <2>1, <2>2 DEF TCs, TC
  <2> QED  BY <2>3 DEF VerifiedTCs
<1>4. Proposals \subseteq Proposal
  <2>1. {NoTC} \union VerifiedTCs \subseteq TC
    BY <1>3, NoTCType
  <2> DEFINE sent   == UNION {core[n].proposed : n \in Honest}
             signed == {p.block : p \in sent} \union
                       {b \in Block \ {Genesis} : /\ get_leader(RoundOf(b)) \in Faulty
                                                 /\ Certified(Parent(b))}
             tcs    == {NoTC} \union VerifiedTCs
             others == [block : signed, tc : tcs]
  <2>2. sent \subseteq Proposal
    BY <1>2
  <2>3. Proposals = sent \union others
    BY DEF Proposals
  <2> HIDE DEF sent
  <2>4. signed \subseteq Block
    BY <2>2 DEF Proposal
  <2> HIDE DEF signed, tcs
  <2>5. others \subseteq Proposal
    BY <2>1, <2>4 DEF Proposal, tcs
  <2> HIDE DEF others
  <2> QED  BY <2>2, <2>3, <2>5
<1>5. \A n : VotesTo(n) \subseteq Vote
  BY <1>1, <1>2, UnitsAssumption DEF VotesTo, Vote
<1>6. Timeouts \subseteq Timeout
  <2>1. TimeoutRounds \subseteq Nat
    BY BoundsAssumption
  <2>2. CertifiedBlocks \subseteq Block /\ Faulty \subseteq Authority
    BY UnitsAssumption DEF CertifiedBlocks
  <2>3. [author : Faulty, round : TimeoutRounds, high_qc : CertifiedBlocks] \subseteq Timeout
    BY <2>1, <2>2 DEF Timeout
  <2>4. ASSUME NEW m \in Honest, NEW t \in core[m].timed_out
        PROVE  [author |-> m, round |-> t.round, high_qc |-> t.high_qc] \in Timeout
    BY <1>1, <1>2 DEF Timeout
  <2>5. UNION { {[author |-> m, round |-> t.round, high_qc |-> t.high_qc] :
                   t \in core[m].timed_out} : m \in Honest } \subseteq Timeout
    BY <2>4
  <2> QED  BY <2>3, <2>5 DEF Timeouts
<1> QED  BY <1>1, <1>3, <1>4, <1>5, <1>6

-----------------------------------------------------------------------------
(* The steps of one node.                                                  *)

\* What a step of an honest node other than a restart guarantees.
Moves(n) ==
  \E d \in CoreState : /\ Step(n, d)
                       /\ VotesStep(core[n], d)
                       /\ StoreKeeps(core[n], d)

\* A handler that keeps blocks and votes as they should be.
LEMMA MoveOf ==
  ASSUME NEW n, NEW d \in CoreState, Step(n, d), VotesStep(core[n], d),
         StoreKeeps(core[n], d)
  PROVE  Moves(n)
BY DEF Moves

\* A handler that leaves blocks and votes alone.
LEMMA MoveOfKept ==
  ASSUME NEW n, core[n] \in CoreState, NEW d \in CoreState, Step(n, d), Kept(core[n], d)
  PROVE  Moves(n)
<1>1. core[n].last_voted_round \in Nat
  BY DEF CoreState
<1>2. VotesStep(core[n], d) /\ StoreKeeps(core[n], d)
  <2>1. VotesStep(core[n], d)
    BY <1>1 DEF Kept, VotesStep
  <2>2. StoreKeeps(core[n], d)
    BY <1>1, KeptHolds DEF StoreKeeps
  <2> QED  BY <2>1, <2>2
<1> QED  BY <1>2, MoveOf

\* The handlers of messages from the network.
LEMMA MessageStep ==
  ASSUME TypeOK, NEW n \in Honest,
         \/ \E p \in Proposals : HandleProposal(n, p)
         \/ \E vote \in VotesTo(n) : HandleVote(n, vote)
         \/ \E t \in Timeouts : HandleTimeout(n, t)
         \/ \E tc \in VerifiedTCs : HandleTC(n, tc)
  PROVE  Moves(n)
<1>1. n \in Authority /\ core[n] \in CoreState
  BY MessageTypes
<1>2. CASE \E p \in Proposals : HandleProposal(n, p)
  <2>1. PICK p \in Proposal : HandleProposal(n, p)
    BY <1>2, MessageTypes
  <2> QED  BY <1>1, <2>1, HandleProposalKeeps, MoveOf DEF HandleProposal
<1>3. CASE \E vote \in VotesTo(n) : HandleVote(n, vote)
  <2>1. PICK vote \in Vote : HandleVote(n, vote)
    BY <1>3, MessageTypes
  <2> QED  BY <1>1, <2>1, HandleVoteKeeps, MoveOfKept DEF HandleVote
<1>4. CASE \E t \in Timeouts : HandleTimeout(n, t)
  <2>1. PICK t \in Timeout : HandleTimeout(n, t)
    BY <1>4, MessageTypes
  <2> QED  BY <1>1, <2>1, HandleTimeoutKeeps, MoveOfKept DEF HandleTimeout
<1>5. CASE \E tc \in VerifiedTCs : HandleTC(n, tc)
  <2>1. PICK tc \in TC : HandleTC(n, tc)
    BY <1>5, MessageTypes
  <2> QED  BY <1>1, <2>1, HandleTCKeeps, MoveOfKept DEF HandleTC
<1> QED  BY <1>2, <1>3, <1>4, <1>5

\* A block that comes back through rx_loopback has its batches stored.
LEMMA LoopbackStep ==
  ASSUME TypeOK, NEW n \in Honest, NEW p \in core[n].loopback, HandleLoopback(n, p)
  PROVE  Moves(n)
<1> DEFINE c  == core[n]
           ps == c.loopback \ {p}
           a  == [c EXCEPT !.loopback = ps]
<1>1. n \in Authority /\ c \in CoreState
  BY MessageTypes
<1>2. p \in Proposal /\ ps \in SUBSET Proposal /\ ps \subseteq c.loopback
  BY <1>1 DEF CoreState
<1>3. HandleLoopback(n, p) <=> Step(n, process_block(n, a, p))
  BY DEF HandleLoopback
<1>4. p \in c.loopback
  OBVIOUS
<1> HIDE DEF c, ps
<1>5. a \in CoreState
  BY <1>1, <1>2 DEF CoreState
<1>6. /\ a.voted = c.voted /\ a.last_voted_round = c.last_voted_round
      /\ a.timed_out = c.timed_out /\ a.store = c.store /\ a.batches = c.batches
      /\ a.delivered = c.delivered /\ a.loopback = ps /\ a.pending = c.pending
  BY <1>1 DEF CoreState
<1> HIDE DEF a
<1> DEFINE d == process_block(n, a, p)
<1>7. /\ d \in CoreState /\ VotesStep(a, d)
      /\ PayloadOf(p.block) \subseteq a.batches => StoreKeeps(a, d)
  BY <1>1, <1>2, <1>5, ProcessBlock
<1> HIDE DEF d
<1>8. VotesStep(c, d)
  BY <1>6, <1>7 DEF VotesStep
<1>9. StoreKeeps(c, d)
  <2>1. ASSUME StoreHolds(c)
        PROVE  StoreHolds(a) /\ PayloadOf(p.block) \subseteq a.batches
    BY <1>2, <1>4, <1>6, <2>1 DEF StoreHolds
  <2> QED  BY <2>1, <1>6, <1>7 DEF StoreKeeps
<1>10. Step(n, d)
  BY <1>3 DEF d
<1> QED  BY <1>7, <1>8, <1>9, <1>10, MoveOf DEF c

\* An expired timer: the timeout signed is of a round now closed for votes.
LEMMA TimerStep ==
  ASSUME TypeOK, NEW n \in Honest, LocalTimeout(n)
  PROVE  Moves(n)
<1> DEFINE c == core[n]
           d == local_timeout_round(n, c)
<1>1. n \in Authority /\ c \in CoreState
  BY MessageTypes
<1>2. Step(n, d)
  BY DEF LocalTimeout
<1> HIDE DEF c
<1>3. /\ d \in CoreState
      /\ d.last_voted_round >= c.last_voted_round
      /\ d.last_voted_round >= c.round
      /\ d.timed_out = c.timed_out \union {[round |-> c.round, high_qc |-> c.high_qc]}
      /\ d.store = c.store /\ d.batches = c.batches /\ d.pending = c.pending
      /\ d.loopback = c.loopback /\ d.delivered = c.delivered /\ d.voted = c.voted
  BY <1>1, LocalTimeoutKeeps
<1> HIDE DEF d
<1>4. VotesStep(c, d)
  <2>1. \A t \in d.timed_out \ c.timed_out : t.round <= d.last_voted_round
    BY <1>3, <1>1 DEF CoreState
  <2> QED  BY <1>3, <2>1 DEF VotesStep
<1>5. StoreKeeps(c, d)
  BY <1>3 DEF StoreHolds, StoreKeeps
<1> QED  BY <1>2, <1>3, <1>4, <1>5, MoveOf DEF c

\* The steps of the tasks around the core move proposals and batches.
LEMMA TaskStep ==
  ASSUME TypeOK, NEW n \in Honest,
         \/ \E b \in Block : MakeBlock(n, b)
         \/ \E p \in core[n].pending : ParentStored(n, p)
         \/ \E p \in core[n].awaiting : PayloadStored(n, p)
         \/ \E x \in Payload : StoreBatch(n, x)
  PROVE  Moves(n)
<1> DEFINE c == core[n]
<1>1. n \in Authority /\ c \in CoreState
  BY MessageTypes
<1>2. c.last_voted_round \in Nat
  BY <1>1 DEF CoreState
<1>3. ASSUME NEW b \in Block, MakeBlock(n, b) PROVE Moves(n)
  <2> DEFINE make == Head(c.makes)
             p    == [block |-> b, tc |-> make.tc]
             rest == Tail(c.makes)
             out  == c.proposed \union {p}
             back == c.loopback \union {p}
             d    == [c EXCEPT !.makes = rest, !.proposed = out, !.loopback = back]
  <2>1. c.makes # <<>> /\ PayloadOf(b) \subseteq c.batches /\ Step(n, d)
    BY <1>3 DEF MakeBlock
  <2>2. /\ rest \in Seq([round : Nat, qc : Block, tc : TC])
        /\ make \in [round : Nat, qc : Block, tc : TC]
    <3> DEFINE Make == [round : Nat, qc : Block, tc : TC]
    <3>1. c.makes \in Seq(Make)
      BY <1>1 DEF CoreState
    <3> HIDE DEF Make, c
    <3>2. rest \in Seq(Make) /\ make \in Make
      BY <2>1, <3>1
    <3> QED  BY <3>2 DEF Make
  <2>3. p \in Proposal /\ p.block = b
    BY <2>2 DEF Proposal
  <2>4. out \in SUBSET Proposal /\ back \in SUBSET Proposal
    BY <1>1, <2>3 DEF CoreState
  <2> HIDE DEF rest, out, c
  <2>5. d \in CoreState
    BY <1>1, <2>2, <2>4 DEF CoreState
  <2>6. /\ d.voted = c.voted /\ d.last_voted_round = c.last_voted_round
        /\ d.timed_out = c.timed_out /\ d.store = c.store /\ d.batches = c.batches
        /\ d.delivered = c.delivered /\ d.loopback = back /\ d.pending = c.pending
    BY <1>1 DEF CoreState
  <2> HIDE DEF d, p
  <2>7. VotesStep(c, d)
    BY <1>2, <2>6 DEF VotesStep
  <2>8. StoreKeeps(c, d)
    BY <2>1, <2>3, <2>6 DEF StoreHolds, StoreKeeps
  <2> QED  BY <2>1, <2>5, <2>7, <2>8, MoveOf DEF c
<1>4. ASSUME NEW p \in c.pending, ParentStored(n, p) PROVE Moves(n)
  <2> DEFINE ps   == c.pending \ {p}
             back == c.loopback \union {p}
             d    == [c EXCEPT !.pending = ps, !.loopback = back]
  <2>1. Step(n, d)
    BY <1>4 DEF ParentStored
  <2>2. /\ ps \in SUBSET Proposal /\ back \in SUBSET Proposal
        /\ ps \union back = c.pending \union c.loopback
    BY <1>1, <1>4 DEF CoreState
  <2> HIDE DEF ps, back, c
  <2>3. d \in CoreState
    BY <1>1, <2>2 DEF CoreState
  <2>4. /\ d.voted = c.voted /\ d.last_voted_round = c.last_voted_round
        /\ d.timed_out = c.timed_out /\ d.store = c.store /\ d.batches = c.batches
        /\ d.delivered = c.delivered /\ d.loopback = back /\ d.pending = ps
    BY <1>1 DEF CoreState
  <2> HIDE DEF d
  <2>5. VotesStep(c, d)
    BY <1>2, <2>4 DEF VotesStep
  <2>6. StoreKeeps(c, d)
    BY <2>2, <2>4 DEF StoreHolds, StoreKeeps
  <2> QED  BY <2>1, <2>3, <2>5, <2>6, MoveOf DEF c
<1>5. ASSUME NEW p \in c.awaiting, PayloadStored(n, p) PROVE Moves(n)
  <2> DEFINE ps   == c.awaiting \ {p}
             back == c.loopback \union {p}
             d    == [c EXCEPT !.awaiting = ps, !.loopback = back]
  <2>1. PayloadOf(p.block) \subseteq c.batches /\ Step(n, d)
    BY <1>5 DEF PayloadStored
  <2>2. ps \in SUBSET Proposal /\ back \in SUBSET Proposal
    BY <1>1, <1>5 DEF CoreState
  <2>3. back = c.loopback \union {p}
    OBVIOUS
  <2> HIDE DEF ps, back, c
  <2>4. d \in CoreState
    BY <1>1, <2>2 DEF CoreState
  <2>5. /\ d.voted = c.voted /\ d.last_voted_round = c.last_voted_round
        /\ d.timed_out = c.timed_out /\ d.store = c.store /\ d.batches = c.batches
        /\ d.delivered = c.delivered /\ d.loopback = back /\ d.pending = c.pending
    BY <1>1 DEF CoreState
  <2> HIDE DEF d
  <2>6. VotesStep(c, d)
    BY <1>2, <2>5 DEF VotesStep
  <2>7. StoreKeeps(c, d)
    BY <2>1, <2>3, <2>5 DEF StoreHolds, StoreKeeps
  <2> QED  BY <2>1, <2>4, <2>6, <2>7, MoveOf DEF c
<1>6. ASSUME NEW x \in Payload, StoreBatch(n, x) PROVE Moves(n)
  <2> DEFINE xs == c.batches \union {x}
             d  == [c EXCEPT !.batches = xs]
  <2>1. Step(n, d)
    BY <1>6 DEF StoreBatch
  <2>2. xs \in SUBSET Payload /\ c.batches \subseteq xs
    BY <1>1 DEF CoreState
  <2> HIDE DEF xs, c
  <2>3. d \in CoreState
    BY <1>1, <2>2 DEF CoreState
  <2>4. /\ d.voted = c.voted /\ d.last_voted_round = c.last_voted_round
        /\ d.timed_out = c.timed_out /\ d.store = c.store /\ d.batches = xs
        /\ d.delivered = c.delivered /\ d.loopback = c.loopback /\ d.pending = c.pending
    BY <1>1 DEF CoreState
  <2> HIDE DEF d
  <2>5. VotesStep(c, d)
    BY <1>2, <2>4 DEF VotesStep
  <2>6. StoreKeeps(c, d)
    BY <2>2, <2>4 DEF StoreHolds, StoreKeeps
  <2> QED  BY <2>1, <2>3, <2>5, <2>6, MoveOf DEF c
<1> QED  BY <1>3, <1>4, <1>5, <1>6

\* Every step of the system but a restart is a step of one honest node that
\* keeps its state well formed and votes in order.
LEMMA HonestStep ==
  ASSUME TypeOK, Next
  PROVE  \E n \in Honest : Moves(n) \/ Restart(n)
<1>1. CASE \E p \in Proposals, n \in Honest : HandleProposal(n, p)
  BY <1>1, MessageStep
<1>2. CASE \E n \in Honest : \E vote \in VotesTo(n) : HandleVote(n, vote)
  BY <1>2, MessageStep
<1>3. CASE \E t \in Timeouts, n \in Honest : HandleTimeout(n, t)
  BY <1>3, MessageStep
<1>4. CASE \E tc \in VerifiedTCs, n \in Honest : HandleTC(n, tc)
  BY <1>4, MessageStep
<1>5. ASSUME NEW n \in Honest,
             \/ \E p \in core[n].loopback : HandleLoopback(n, p)
             \/ LocalTimeout(n)
             \/ \E b \in Block : MakeBlock(n, b)
             \/ \E p \in core[n].pending : ParentStored(n, p)
             \/ \E p \in core[n].awaiting : PayloadStored(n, p)
             \/ \E x \in Payload : StoreBatch(n, x)
             \/ Restart(n)
      PROVE  Moves(n) \/ Restart(n)
  BY <1>5, LoopbackStep, TimerStep, TaskStep
<1> QED  BY <1>1, <1>2, <1>3, <1>4, <1>5 DEF Next

\* What a database may hold.
Contents == [store : SUBSET Block, batches : SUBSET Payload]

\* The database holds the ancestors and the batches of its blocks, and what was
\* delivered.
DatabaseHolds(d, delivered) ==
  /\ Closed(d.store)
  /\ \A b \in d.store : PayloadOf(b) \subseteq d.batches
  /\ Range(delivered) \subseteq d.store \union {Genesis}

\* A node that restarts keeps what its database holds and forgets its votes.
LEMMA RestartStep ==
  ASSUME TypeOK, NEW n \in Honest, Restart(n)
  PROVE  /\ restarts' = restarts + 1 /\ restarts < MaxRestarts
         /\ \E s \in database[n] :
              LET d == boot(n, s.store, s.batches, Sent(core[n]))
              IN /\ s \in Contents
                 /\ core' = [core EXCEPT ![n] = d]
                 /\ database' = [database EXCEPT ![n] = {s}]
                 /\ d \in CoreState
                 /\ d.store = s.store /\ d.batches = s.batches
                 /\ d.delivered = core[n].delivered /\ d.voted = core[n].voted
                 /\ d.timed_out = core[n].timed_out
                 /\ d.pending = {} /\ d.loopback = {}
<1> DEFINE c == core[n]
<1>1. c \in CoreState
  BY MessageTypes
<1>2. PICK s \in database[n] :
        /\ core' = [core EXCEPT ![n] = boot(n, s.store, s.batches, Sent(c))]
        /\ database' = [database EXCEPT ![n] = {s}]
  BY DEF Restart
<1>3. s \in Contents
  BY <1>2 DEF TypeOK, Contents
<1> DEFINE d == boot(n, s.store, s.batches, Sent(c))
<1>4. core' = [core EXCEPT ![n] = d]
  BY <1>2
<1> HIDE DEF c
<1>5. /\ s.store \in SUBSET Block /\ s.batches \in SUBSET Payload
      /\ Sent(c) \in SentType
      /\ Sent(c).delivered = c.delivered /\ Sent(c).voted = c.voted
      /\ Sent(c).timed_out = c.timed_out
  BY <1>1, <1>3 DEF CoreState, Sent, SentType, Contents
<1>6. /\ d \in CoreState
      /\ d.store = s.store /\ d.batches = s.batches /\ d.delivered = c.delivered
      /\ d.voted = c.voted /\ d.timed_out = c.timed_out
      /\ d.pending = {} /\ d.loopback = {}
  <2>1. d \in CoreState /\ Kept(boot_fields(s.store, s.batches, Sent(c)), d)
    BY <1>5, Boot
  <2> QED  BY <1>5, <2>1 DEF Kept, boot_fields
<1>7. restarts' = restarts + 1 /\ restarts < MaxRestarts
  BY DEF Restart
<1> QED  BY <1>2, <1>3, <1>6, <1>7 DEF c

\* The first state of a node.
LEMMA InitNode ==
  ASSUME Init, NEW n \in Honest
  PROVE  core[n] \in CoreState /\ StoreHolds(core[n]) /\ VotesHold(core[n])
<1> DEFINE d == boot(n, {}, InitBatches, NothingSent)
<1>1. core[n] = d
  BY DEF Init
<1>2. /\ InitBatches \in SUBSET Payload
      /\ NothingSent \in SentType
      /\ NothingSent.delivered = <<>> /\ NothingSent.voted = {}
      /\ NothingSent.timed_out = {}
  BY BoundsAssumption DEF NothingSent, SentType
<1>3. /\ d \in CoreState
      /\ d.store = {} /\ d.batches = InitBatches /\ d.delivered = <<>>
      /\ d.voted = {} /\ d.timed_out = {}
      /\ d.pending = {} /\ d.loopback = {} /\ d.last_voted_round = 0
  <2>1. {} \in SUBSET Block
    OBVIOUS
  <2>2. d \in CoreState /\ Kept(boot_fields({}, InitBatches, NothingSent), d)
    BY <1>2, <2>1, Boot
  <2> QED  BY <1>2, <2>2 DEF Kept, boot_fields
<1> HIDE DEF d
<1>4. Range(d.delivered) = {}
  BY <1>3 DEF Range
<1> QED  BY <1>1, <1>3, <1>4 DEF StoreHolds, VotesHold, Closed

-----------------------------------------------------------------------------
(* Type correctness.                                                       *)

\* The booting nodes are well formed.
LEMMA TypeInit == Init => TypeOK
<1> SUFFICES ASSUME Init PROVE TypeOK
  OBVIOUS
<1>1. core \in [Honest -> CoreState]
  BY InitNode DEF Init
<1>2. \A n \in Honest : Written(core[n]) \in Contents
  BY <1>1 DEF Written, Contents, CoreState
<1>3. database \in [Honest -> SUBSET Contents]
  BY <1>2 DEF Init
<1> QED  BY <1>1, <1>3, BoundsAssumption DEF Init, TypeOK, Contents

\* Every step keeps the nodes well formed.
LEMMA TypeStep == TypeOK /\ [Next]_vars => TypeOK'
<1> SUFFICES ASSUME TypeOK, [Next]_vars PROVE TypeOK'
  OBVIOUS
<1>1. CASE Next
  <2>1. PICK n \in Honest : Moves(n) \/ Restart(n)
    BY <1>1, HonestStep
  <2>2. CASE Moves(n)
    <3>1. PICK d \in CoreState : Step(n, d)
      BY <2>2 DEF Moves
    <3>2. Written(core[n]) \in Contents /\ Written(d) \in Contents
      BY MessageTypes DEF Written, Contents, CoreState
    <3>3. database[n] \in SUBSET Contents
      BY DEF TypeOK, Contents
    <3>4. Behind(n, d) \in SUBSET Contents
      BY <3>2, <3>3 DEF Behind
    <3> QED  BY <3>1, <3>4 DEF Step, TypeOK, Contents
  <2>3. CASE Restart(n)
    BY <2>3, RestartStep, BoundsAssumption DEF TypeOK, Contents
  <2> QED  BY <2>1, <2>2, <2>3
<1>2. CASE UNCHANGED vars
  BY <1>2 DEF vars, TypeOK
<1> QED  BY <1>1, <1>2

\* The state of every node stays well formed: in particular a certificate is
\* only made of a nonempty set of timeouts, and a commit walk always ends on
\* the path to the committed block.
THEOREM TypeCorrect == Spec => []TypeOK
<1> QED  BY TypeInit, TypeStep, PTL DEF Spec

-----------------------------------------------------------------------------
(* The store.                                                              *)

\* StoreClosed says nothing of the blocks whose processing was put off, so it
\* is not inductive; StoreInv adds that those in the way back to the core have
\* their batches stored, and says the same of the store with all its writes.
StoreInv ==
  \A n \in Honest : /\ StoreHolds(core[n])
                    /\ \A s \in database[n] : DatabaseHolds(s, core[n].delivered)

\* What a step leaves in the database: with a look-up, whatever was stored before
\* is served, the blocks delivered among it; without one nothing is delivered.
LEMMA BehindHolds ==
  ASSUME NEW n \in Honest, NEW d, StoreHolds(core[n]), StoreKeeps(core[n], d),
         \A s \in database[n] : DatabaseHolds(s, core[n].delivered)
  PROVE  \A s \in Behind(n, d) : DatabaseHolds(s, d.delivered)
<1> DEFINE c == core[n]
<1>1. StoreHolds(d) /\ Range(d.delivered) \subseteq c.store \union {Genesis}
  BY DEF StoreKeeps
<1>2. DatabaseHolds(Written(d), d.delivered)
  BY <1>1 DEF StoreHolds, DatabaseHolds, Written
<1>3. DatabaseHolds(Written(c), d.delivered)
  BY <1>1 DEF StoreHolds, DatabaseHolds, Written
<1>4. ASSUME ~ LooksUp(n, d), NEW s \in database[n]
      PROVE  DatabaseHolds(s, d.delivered)
  <2>1. d.delivered = c.delivered
    BY <1>4 DEF LooksUp
  <2> QED  BY <1>4, <2>1
<1> QED  BY <1>2, <1>3, <1>4 DEF Behind

\* Every step, a restart included, keeps what the stores hold closed.
LEMMA StoreStep == TypeOK /\ StoreInv /\ [Next]_vars => StoreInv'
<1> SUFFICES ASSUME TypeOK, StoreInv, [Next]_vars PROVE StoreInv'
  OBVIOUS
<1>1. CASE Next
  <2>1. PICK n \in Honest : Moves(n) \/ Restart(n)
    BY <1>1, HonestStep
  <2>2. StoreHolds(core[n]) /\ \A s \in database[n] : DatabaseHolds(s, core[n].delivered)
    BY DEF StoreInv
  <2>3. PICK d, D : /\ core' = [core EXCEPT ![n] = d]
                    /\ database' = [database EXCEPT ![n] = D]
                    /\ StoreHolds(d)
                    /\ \A s \in D : DatabaseHolds(s, d.delivered)
    <3>1. CASE Moves(n)
      <4>1. PICK d \in CoreState : Step(n, d) /\ StoreKeeps(core[n], d)
        BY <3>1 DEF Moves
      <4>2. StoreHolds(d) /\ \A s \in Behind(n, d) : DatabaseHolds(s, d.delivered)
        BY <2>2, <4>1, BehindHolds DEF StoreKeeps
      <4> QED  BY <4>1, <4>2 DEF Step
    <3>2. CASE Restart(n)
      <4>1. PICK s \in database[n], d \in CoreState :
              /\ core' = [core EXCEPT ![n] = d]
              /\ database' = [database EXCEPT ![n] = {s}]
              /\ d.store = s.store /\ d.batches = s.batches
              /\ d.delivered = core[n].delivered
              /\ d.pending = {} /\ d.loopback = {}
        BY <3>2, RestartStep
      <4>2. DatabaseHolds(s, d.delivered)
        BY <2>2, <4>1
      <4>3. StoreHolds(d)
        BY <4>1, <4>2 DEF StoreHolds, DatabaseHolds
      <4> QED  BY <4>1, <4>2, <4>3
    <3> QED  BY <2>1, <3>1, <3>2
  <2>4. ASSUME NEW m \in Honest
        PROVE  /\ StoreHolds(core'[m])
               /\ \A s \in database'[m] : DatabaseHolds(s, core'[m].delivered)
    <3>1. /\ core'[m] = IF m = n THEN d ELSE core[m]
          /\ database'[m] = IF m = n THEN D ELSE database[m]
      BY <2>3 DEF TypeOK
    <3> QED  BY <2>3, <3>1 DEF StoreInv
  <2> QED  BY <2>4 DEF StoreInv
<1>2. CASE UNCHANGED vars
  BY <1>2 DEF vars, StoreInv
<1> QED  BY <1>1, <1>2

\* "We should have all the ancestors by now" (core.rs:131, synchronizer.rs:147):
\* whichever of its queued writes a node loses when it is killed, the panic of
\* commit and get_ancestors is never reached.
THEOREM StoreAlwaysClosed == Spec => []StoreClosed
<1>1. Init => StoreInv
  <2> SUFFICES ASSUME Init PROVE StoreInv
    OBVIOUS
  <2>1. ASSUME NEW n \in Honest
        PROVE  /\ StoreHolds(core[n]) /\ database[n] = {Written(core[n])}
               /\ DatabaseHolds(Written(core[n]), core[n].delivered)
    <3>1. StoreHolds(core[n])
      BY InitNode
    <3> QED  BY <3>1 DEF Init, StoreHolds, DatabaseHolds, Written
  <2> QED  BY <2>1 DEF StoreInv
<1>2. StoreInv => StoreClosed
  BY DEF StoreInv, DatabaseHolds, Closed, StoreClosed, Delivered
<1> QED  BY <1>1, <1>2, TypeInit, TypeStep, StoreStep, PTL DEF Spec

-----------------------------------------------------------------------------
(* Votes.                                                                  *)

\* Inductive only as long as no node is restarted: a restart sets
\* last_voted_round back to 0.
VoteInv == \A n \in Honest : VotesHold(core[n])

\* Without restarts every step keeps the votes of each node in order.
LEMMA VoteStep ==
  ASSUME MaxRestarts = 0
  PROVE  TypeOK /\ VoteInv /\ [Next]_vars =>
           /\ VoteInv'
           /\ \A n \in Honest : \A b \in core'[n].voted \ core[n].voted :
                \A t \in core[n].timed_out : t.round < RoundOf(b)
<1> SUFFICES ASSUME TypeOK, VoteInv, [Next]_vars
             PROVE  /\ VoteInv'
                    /\ \A n \in Honest : \A b \in core'[n].voted \ core[n].voted :
                         \A t \in core[n].timed_out : t.round < RoundOf(b)
  OBVIOUS
<1>1. CASE Next
  <2>1. PICK n \in Honest : Moves(n) \/ Restart(n)
    BY <1>1, HonestStep
  <2>2. ~ Restart(n)
    BY DEF Restart, TypeOK
  <2>3. PICK d \in CoreState : core' = [core EXCEPT ![n] = d] /\ VotesStep(core[n], d)
    BY <2>1, <2>2 DEF Moves, Step
  <2>4. core[n] \in CoreState /\ VotesHold(core[n])
    BY DEF VoteInv, TypeOK
  <2>5. /\ VotesHold(d)
        /\ \A b \in d.voted \ core[n].voted : \A t \in core[n].timed_out : t.round < RoundOf(b)
    BY <2>3, <2>4, VotesStepKeeps
  <2>6. ASSUME NEW m \in Honest
        PROVE  /\ VotesHold(core'[m])
               /\ \A b \in core'[m].voted \ core[m].voted :
                    \A t \in core[m].timed_out : t.round < RoundOf(b)
    <3>1. CASE m = n
      <4>1. core'[m] = d
        BY <2>3, <3>1 DEF TypeOK
      <4> QED  BY <2>5, <3>1, <4>1
    <3>2. CASE m # n
      <4>1. core'[m] = core[m]
        BY <2>3, <3>2 DEF TypeOK
      <4> QED  BY <4>1 DEF VoteInv
    <3> QED  BY <3>1, <3>2
  <2> QED  BY <2>6 DEF VoteInv
<1>2. CASE UNCHANGED vars
  BY <1>2 DEF vars, VoteInv
<1> QED  BY <1>1, <1>2

\* core.rs:112, "Ensure we won't vote for contradicting blocks": without
\* restarts no honest node votes twice in a round.
THEOREM NeverVotesTwice ==
  ASSUME MaxRestarts = 0
  PROVE  Spec => []OneVotePerRound
<1>1. Init => VoteInv
  BY InitNode DEF VoteInv
<1>2. VoteInv => OneVotePerRound
  BY DEF VoteInv, VotesHold, OneVotePerRound
<1>3. TypeOK /\ VoteInv /\ [Next]_vars => VoteInv'
  BY VoteStep
<1> QED  BY <1>1, <1>2, <1>3, TypeInit, TypeStep, PTL DEF Spec

\* local_timeout_round, increase_last_voted_round: without restarts a node that
\* timed out in a round never votes in it, or below it, afterwards.
THEOREM NeverVotesAfterTimeout ==
  ASSUME MaxRestarts = 0
  PROVE  Spec => NoVoteAfterTimeout
<1>1. Init => VoteInv
  BY InitNode DEF VoteInv
<1>2. TypeOK /\ VoteInv /\ [Next]_vars => VoteInv'
  BY VoteStep
<1>3. TypeOK /\ VoteInv /\ [Next]_vars =>
        [\A n \in Honest : \A b \in core'[n].voted \ core[n].voted :
           \A t \in core[n].timed_out : t.round < RoundOf(b)]_vars
  BY VoteStep
<1> QED  BY <1>1, <1>2, <1>3, TypeInit, TypeStep, PTL DEF Spec, NoVoteAfterTimeout

-----------------------------------------------------------------------------
(* The system.                                                             *)

\* What the honest nodes have signed, with whatever the faulty may sign: the
\* certificates that verify, without the bound on the rounds of TCs, and the
\* authentic votes and timeouts.
World ==
  [ qcs      |-> CertifiedBlocks,
    tcs      |-> {tc \in TC : IsQuorum(TimedOut(tc) \union Faulty)},
    votes    |-> {v \in Vote : v.author \in Faulty \/ v.block \in core[v.author].voted},
    timeouts |-> {t \in Timeout :
                    /\ Certified(t.high_qc)
                    /\ \/ t.author \in Faulty
                       \/ [round |-> t.round, high_qc |-> t.high_qc]
                            \in core[t.author].timed_out} ]

\* The parts of World, by name.
LEMMA WorldParts ==
  /\ World.qcs = CertifiedBlocks
  /\ World.tcs = {tc \in TC : IsQuorum(TimedOut(tc) \union Faulty)}
  /\ World.votes = {v \in Vote : v.author \in Faulty \/ v.block \in core[v.author].voted}
  /\ World.timeouts = {t \in Timeout :
                    /\ Certified(t.high_qc)
                    /\ \/ t.author \in Faulty
                       \/ [round |-> t.round, high_qc |-> t.high_qc]
                            \in core[t.author].timed_out}
  /\ World \in Worlds
BY DEF World, Worlds, CertifiedBlocks

\* Nothing is no quorum.
LEMMA EmptyIsNoQuorum == ~ IsQuorum({})
<1>1. Backing({}) = {}
  BY DEF Backing
<1>2. Weight({}) = 0
  BY <1>1, WeightType, FS_EmptySet
<1>3. total_votes \in Nat
  BY WeightType
<1> QED  BY <1>2, <1>3 DEF IsQuorum, quorum_threshold

\* QC::verify and TC::verify accept what an aggregator assembles.
LEMMA WorldSound ==
  ASSUME TypeOK
  PROVE  Sound(World)
<1> DEFINE w == World
<1>1. /\ w \in Worlds
      /\ w.qcs = CertifiedBlocks
      /\ w.tcs = {tc \in TC : IsQuorum(TimedOut(tc) \union Faulty)}
      /\ w.votes = {v \in Vote : v.author \in Faulty \/ v.block \in core[v.author].voted}
      /\ w.timeouts = {t \in Timeout :
                    /\ Certified(t.high_qc)
                    /\ \/ t.author \in Faulty
                       \/ [round |-> t.round, high_qc |-> t.high_qc]
                            \in core[t.author].timed_out}
  BY WorldParts
<1> HIDE DEF w
<1>2. Genesis \in w.qcs
  BY <1>1, GenesisBlock DEF CertifiedBlocks, Certified
<1>3. ASSUME NEW vs \in SUBSET w.votes, NEW b \in Block, IsQuorum(VotersOf(vs, b))
      PROVE  b \in w.qcs
  <2>1. VotersOf(vs, b) \subseteq Voters(b) \union Faulty
    BY <1>1 DEF VotersOf, Voters, Vote, Honest
  <2>2. IsQuorum(Voters(b) \union Faulty)
    BY <1>3, <2>1, QuorumMonotone
  <2> QED  BY <1>1, <2>2 DEF CertifiedBlocks, Certified
<1>4. ASSUME NEW ts \in SUBSET w.timeouts, NEW r \in Nat, IsQuorum(AuthorsAt(ts, r))
      PROVE  MakeTC(ts, r) \in w.tcs
  <2> DEFINE tc == MakeTC(ts, r)
             reported == {RoundOf(t.high_qc) : t \in {u \in ts : u.round = r}}
  <2>1. ts \subseteq Timeout
    BY <1>1
  <2>2. AuthorsAt(ts, r) # {}
    BY <1>4, EmptyIsNoQuorum
  <2>3. tc \in TC
    BY <2>1, <2>2, MakeTCType
  <2>4. tc.round = r /\ tc.high = Max(reported)
    BY DEF MakeTC
  <2> HIDE DEF tc
  <2>5. reported \subseteq {RoundOf(b) : b \in Block} /\ reported # {}
    BY <2>1, <2>2 DEF Timeout, AuthorsAt
  <2>6. \A y \in reported : y <= Max(reported)
    BY <2>5, RoundsFinite, MaxOfFinite
  <2>7. ASSUME NEW n \in AuthorsAt(ts, r), n \notin Faulty PROVE n \in TimedOut(tc)
    <3>1. PICK t \in ts : t.round = r /\ t.author = n
      BY DEF AuthorsAt
    <3> DEFINE u == [round |-> t.round, high_qc |-> t.high_qc]
    <3>2. n \in Honest /\ u \in core[n].timed_out
      BY <1>1, <2>7, <3>1 DEF Honest, Timeout
    <3>3. RoundOf(t.high_qc) \in reported
      BY <3>1
    <3>4. u.round = tc.round /\ RoundOf(u.high_qc) <= tc.high
      BY <2>4, <2>6, <3>1, <3>3
    <3> HIDE DEF u
    <3> QED  BY <3>2, <3>4 DEF TimedOut
  <2>8. AuthorsAt(ts, r) \subseteq TimedOut(tc) \union Faulty
    BY <2>7
  <2>9. IsQuorum(TimedOut(tc) \union Faulty)
    BY <1>4, <2>8, QuorumMonotone
  <2> QED  BY <1>1, <2>3, <2>9 DEF tc
<1>5. \A t \in w.timeouts : t.high_qc \in w.qcs
  BY <1>1 DEF CertifiedBlocks, Timeout
<1> QED  BY <1>1, <1>2, <1>3, <1>4, <1>5 DEF Sound, w

\* Every honest node's signatures are authentic.
LEMMA OwnIsAuthentic ==
  ASSUME TypeOK, NEW n \in Honest
  PROVE  Own(n, core[n], World)
<1> DEFINE w == World
<1>1. n \in Authority /\ core[n] \in CoreState
  BY MessageTypes
<1>2. /\ w.qcs = CertifiedBlocks
      /\ w.votes = {v \in Vote : v.author \in Faulty \/ v.block \in core[v.author].voted}
      /\ w.timeouts = {t \in Timeout :
                    /\ Certified(t.high_qc)
                    /\ \/ t.author \in Faulty
                       \/ [round |-> t.round, high_qc |-> t.high_qc]
                            \in core[t.author].timed_out}
  BY WorldParts
<1> HIDE DEF w
<1>3. ASSUME NEW b \in core[n].voted PROVE [author |-> n, block |-> b] \in w.votes
  BY <1>1, <1>2 DEF CoreState, Vote
<1>4. ASSUME NEW t \in core[n].timed_out, t.high_qc \in w.qcs
      PROVE  [author |-> n, round |-> t.round, high_qc |-> t.high_qc] \in w.timeouts
  <2>1. t \in [round : Nat, high_qc : Block]
    BY <1>1 DEF CoreState
  <2>2. t = [round |-> t.round, high_qc |-> t.high_qc]
    BY <2>1
  <2>3. [author |-> n, round |-> t.round, high_qc |-> t.high_qc] \in Timeout
    BY <1>1, <2>1 DEF Timeout
  <2>4. Certified(t.high_qc)
    BY <1>2, <1>4 DEF CertifiedBlocks
  <2> QED  BY <1>2, <2>2, <2>3, <2>4
<1> QED  BY <1>3, <1>4 DEF Own, w

\* The same of the state after a step.
LEMMA WorldNext ==
  TypeOK' => Sound(World)' /\ (\A n \in Honest : Own(n, core[n], World))'
<1>1. TypeOK => Sound(World) /\ \A n \in Honest : Own(n, core[n], World)
  BY WorldSound, OwnIsAuthentic
<1> QED  BY <1>1, PTL

\* More was signed: all that verified before still does.
Widens(v, w) ==
  /\ v.qcs \subseteq w.qcs /\ v.tcs \subseteq w.tcs
  /\ v.votes \subseteq w.votes /\ v.timeouts \subseteq w.timeouts

\* What a node holds is worth no less in a wider world.
LEMMA NodeWidens ==
  ASSUME NEW c, NEW v, NEW w, Widens(v, w), NodeHolds(c, v)
  PROVE  NodeHolds(c, w)
<1>1. CertsHold(c, w)
  BY DEF Widens, NodeHolds, CertsHold, RoundsHold, CountsHold, MakesHold
<1>2. WaitsHold(c, w)
  BY DEF Widens, NodeHolds, WaitsHold, Backed
<1>3. \A b \in c.voted : VoteRule(w, b)
  BY DEF Widens, NodeHolds, SentHolds, VoteRule
<1>4. Heads(v.qcs) \subseteq Heads(w.qcs)
  BY DEF Widens, Heads
<1>5. SentHolds(c, w)
  BY <1>3, <1>4 DEF Widens, NodeHolds, SentHolds, Backed
<1> QED  BY <1>1, <1>2, <1>5 DEF NodeHolds

\* No step takes back a signature.
LEMMA SignaturesStay ==
  ASSUME TypeOK, [Next]_vars, NEW n \in Honest
  PROVE  core[n].voted \subseteq core'[n].voted /\ core[n].timed_out \subseteq core'[n].timed_out
<1>1. CASE Next
  <2>1. PICK m \in Honest : Moves(m) \/ Restart(m)
    BY <1>1, HonestStep
  <2>2. CASE Moves(m)
    <3>1. PICK d \in CoreState : core' = [core EXCEPT ![m] = d] /\ VotesStep(core[m], d)
      BY <2>2 DEF Moves, Step
    <3>2. core[m].voted \subseteq d.voted /\ core[m].timed_out \subseteq d.timed_out
      BY <3>1 DEF VotesStep
    <3>3. core'[n] = IF n = m THEN d ELSE core[n]
      BY <3>1 DEF TypeOK
    <3> QED  BY <3>2, <3>3
  <2>3. CASE Restart(m)
    <3>1. PICK d \in CoreState : /\ core' = [core EXCEPT ![m] = d]
                                /\ d.voted = core[m].voted /\ d.timed_out = core[m].timed_out
      BY <2>3, RestartStep
    <3>2. core'[n] = IF n = m THEN d ELSE core[n]
      BY <3>1 DEF TypeOK
    <3> QED  BY <3>1, <3>2
  <2> QED  BY <2>1, <2>2, <2>3
<1>2. CASE UNCHANGED vars
  BY <1>2 DEF vars
<1> QED  BY <1>1, <1>2

\* So the world only widens.
LEMMA WorldWidens ==
  ASSUME TypeOK, TypeOK', [Next]_vars
  PROVE  Widens(World, World')
<1>1. \A n \in Honest : /\ core[n].voted \subseteq core'[n].voted
                        /\ core[n].timed_out \subseteq core'[n].timed_out
  BY SignaturesStay
<1>2. \A b \in Block : Certified(b) => Certified(b)'
  <2>1. TAKE b \in Block
  <2>2. Voters(b) \union Faulty \subseteq Voters(b)' \union Faulty
    BY <1>1 DEF Voters
  <2> QED  BY <2>2, QuorumMonotone DEF Certified
<1>3. CertifiedBlocks \subseteq CertifiedBlocks'
  BY <1>2 DEF CertifiedBlocks
<1>4. {tc \in TC : IsQuorum(TimedOut(tc) \union Faulty)}
        \subseteq {tc \in TC : IsQuorum(TimedOut(tc)' \union Faulty)}
  <2>1. SUFFICES ASSUME NEW tc \in TC, IsQuorum(TimedOut(tc) \union Faulty)
                 PROVE  IsQuorum(TimedOut(tc)' \union Faulty)
    OBVIOUS
  <2>2. TimedOut(tc) \union Faulty \subseteq TimedOut(tc)' \union Faulty
    BY <1>1 DEF TimedOut
  <2> QED  BY <2>1, <2>2, QuorumMonotone
<1>5. World.votes \subseteq World'.votes
  BY <1>1 DEF World, Vote, Honest
<1>6. World.timeouts \subseteq World'.timeouts
  <2>1. SUFFICES ASSUME NEW t \in Timeout, Certified(t.high_qc),
                        \/ t.author \in Faulty
                        \/ [round |-> t.round, high_qc |-> t.high_qc] \in core[t.author].timed_out
                 PROVE  /\ Certified(t.high_qc)'
                        /\ \/ t.author \in Faulty
                           \/ [round |-> t.round, high_qc |-> t.high_qc]
                                \in core'[t.author].timed_out
    BY DEF World
  <2>2. t.high_qc \in Block /\ t.author \in Authority
    BY DEF Timeout
  <2> QED  BY <1>1, <1>2, <2>1, <2>2 DEF Honest
<1> QED  BY <1>3, <1>4, <1>5, <1>6 DEF Widens, World

\* Every node holds only what verifies.
NodeInv == \A n \in Honest : NodeHolds(core[n], World)

\* Whatever the network delivers is authentic, and its certificates verify.
LEMMA MessagesAuthentic ==
  ASSUME TypeOK, NodeInv
  PROVE  /\ \A p \in Proposals : Backed(World, p)
         /\ \A n : VotesTo(n) \subseteq World.votes
         /\ Timeouts \subseteq World.timeouts
         /\ VerifiedTCs \subseteq World.tcs
<1>1. VerifiedTCs \subseteq World.tcs
  BY MessageTypes DEF VerifiedTCs, World
<1>2. ASSUME NEW p \in Proposals PROVE Backed(World, p)
  <2>1. CASE \E n \in Honest : p \in core[n].proposed
    BY <2>1 DEF NodeInv, NodeHolds, SentHolds
  <2>2. CASE ~ \E n \in Honest : p \in core[n].proposed
    <3>1. /\ p.tc \in {NoTC} \union VerifiedTCs
          /\ \/ \E n \in Honest : \E q \in core[n].proposed : p.block = q.block
             \/ p.block \in Block /\ Certified(Parent(p.block))
      BY <2>2 DEF Proposals
    <3>2. World.qcs = CertifiedBlocks
      BY WorldParts
    <3>3. Parent(p.block) \in CertifiedBlocks
      <4>1. CASE p.block \in Block /\ Certified(Parent(p.block))
        BY <4>1, BlockTypes DEF CertifiedBlocks
      <4>2. ASSUME NEW n \in Honest, NEW q \in core[n].proposed, p.block = q.block
            PROVE  Parent(p.block) \in CertifiedBlocks
        BY <3>2, <4>2 DEF NodeInv, NodeHolds, SentHolds, Backed
      <4> QED  BY <3>1, <4>1, <4>2
    <3> QED  BY <1>1, <3>1, <3>2, <3>3 DEF Backed
  <2> QED  BY <2>1, <2>2
<1>3. ASSUME NEW n PROVE VotesTo(n) \subseteq World.votes
  <2>1. VotesTo(n) \subseteq Vote
    BY MessageTypes
  <2>2. \A v \in VotesTo(n) : v.author \in Faulty \/ v.block \in core[v.author].voted
    BY DEF VotesTo
  <2> QED  BY <2>1, <2>2, WorldParts
<1>4. Timeouts \subseteq World.timeouts
  <2>1. Timeouts \subseteq Timeout
    BY MessageTypes
  <2>2. ASSUME NEW m \in Honest, NEW t \in core[m].timed_out
        PROVE  /\ Certified(t.high_qc)
               /\ [round |-> t.round, high_qc |-> t.high_qc] \in core[m].timed_out
    <3>1. Certified(t.high_qc)
      BY WorldParts DEF NodeInv, NodeHolds, SentHolds, CertifiedBlocks
    <3>2. t \in [round : Nat, high_qc : Block]
      BY MessageTypes DEF CoreState
    <3>3. t = [round |-> t.round, high_qc |-> t.high_qc]
      BY <3>2
    <3> QED  BY <3>1, <3>3
  <2>3. ASSUME NEW u \in Timeouts
        PROVE  /\ Certified(u.high_qc)
               /\ \/ u.author \in Faulty
                  \/ [round |-> u.round, high_qc |-> u.high_qc] \in core[u.author].timed_out
    <3>1. CASE u \in [author : Faulty, round : TimeoutRounds, high_qc : CertifiedBlocks]
      BY <3>1 DEF CertifiedBlocks
    <3>2. CASE \E m \in Honest : \E t \in core[m].timed_out :
                 u = [author |-> m, round |-> t.round, high_qc |-> t.high_qc]
      BY <2>2, <3>2
    <3> QED  BY <3>1, <3>2 DEF Timeouts
  <2> QED  BY <2>1, <2>3, WorldParts
<1> QED  BY <1>1, <1>2, <1>3, <1>4

\* What a step of node n other than a restart comes to, in the world after it.
Advances(n, w) ==
  \E d \in CoreState : /\ core' = [core EXCEPT ![n] = d]
                       /\ NodeHolds(d, w)
                       /\ NodeStep(core[n], d, w)

\* A step to a record that is what the node has afterwards.
LEMMA AdvancesTo ==
  ASSUME TypeOK, NEW n \in Honest, NEW w, NEW d \in CoreState, Step(n, d),
         NodeHolds(d, w), NodeStep(core[n], d, w)
  PROVE  Advances(n, w)
BY DEF Advances, Step

\* The handlers of messages from the network.
LEMMA MessageAdvances ==
  ASSUME TypeOK, NEW n \in Honest, NEW w, Sound(w), NodeHolds(core[n], w),
         Own(n, core'[n], w),
         \/ \E p \in Proposals : Backed(w, p) /\ HandleProposal(n, p)
         \/ \E vote \in VotesTo(n) : vote \in w.votes /\ HandleVote(n, vote)
         \/ \E t \in Timeouts : t \in w.timeouts /\ HandleTimeout(n, t)
         \/ \E tc \in VerifiedTCs : tc \in w.tcs /\ HandleTC(n, tc)
  PROVE  Advances(n, w)
<1>1. n \in Authority /\ core[n] \in CoreState
  BY MessageTypes
<1>2. \A d : Step(n, d) => core'[n] = d
  BY DEF Step, TypeOK
<1>3. CASE \E p \in Proposals : Backed(w, p) /\ HandleProposal(n, p)
  <2>1. PICK p \in Proposal : Backed(w, p) /\ HandleProposal(n, p)
    BY <1>3, MessageTypes
  <2> DEFINE d == handle_proposal(n, core[n], p)
  <2>2. Step(n, d)
    BY <2>1 DEF HandleProposal
  <2>3. d \in CoreState
    BY <1>1, HandleProposalKeeps
  <2>4. NodeHolds(d, w) /\ NodeStep(core[n], d, w)
    BY <1>1, <1>2, <2>1, <2>2, HandleProposalNode
  <2> QED  BY <2>2, <2>3, <2>4, AdvancesTo
<1>4. CASE \E vote \in VotesTo(n) : vote \in w.votes /\ HandleVote(n, vote)
  <2>1. PICK vote \in w.votes : HandleVote(n, vote)
    BY <1>4
  <2> DEFINE d == handle_vote(n, core[n], vote)
  <2>2. Step(n, d) /\ vote \in Vote
    BY <2>1 DEF HandleVote, Sound, Worlds
  <2>3. d \in CoreState
    BY <1>1, <2>2, HandleVoteKeeps
  <2>4. NodeHolds(d, w) /\ NodeStep(core[n], d, w)
    BY <1>1, HandleVoteNode
  <2> QED  BY <2>2, <2>3, <2>4, AdvancesTo
<1>5. CASE \E t \in Timeouts : t \in w.timeouts /\ HandleTimeout(n, t)
  <2>1. PICK t \in w.timeouts : HandleTimeout(n, t)
    BY <1>5
  <2> DEFINE d == handle_timeout(n, core[n], t)
  <2>2. Step(n, d) /\ t \in Timeout
    BY <2>1 DEF HandleTimeout, Sound, Worlds
  <2>3. d \in CoreState
    BY <1>1, <2>2, HandleTimeoutKeeps
  <2>4. NodeHolds(d, w) /\ NodeStep(core[n], d, w)
    BY <1>1, HandleTimeoutNode
  <2> QED  BY <2>2, <2>3, <2>4, AdvancesTo
<1>6. CASE \E tc \in VerifiedTCs : tc \in w.tcs /\ HandleTC(n, tc)
  <2>1. PICK tc \in w.tcs : HandleTC(n, tc)
    BY <1>6
  <2> DEFINE d == handle_tc(n, core[n], tc)
  <2>2. Step(n, d) /\ tc \in TC
    BY <2>1 DEF HandleTC, Sound, Worlds
  <2>3. d \in CoreState
    BY <1>1, <2>2, HandleTCKeeps
  <2>4. NodeHolds(d, w) /\ NodeStep(core[n], d, w)
    BY <1>1, HandleTCNode
  <2> QED  BY <2>2, <2>3, <2>4, AdvancesTo
<1> QED  BY <1>3, <1>4, <1>5, <1>6

\* A block that comes back through rx_loopback, and an expired timer.
LEMMA LoopAdvances ==
  ASSUME TypeOK, NEW n \in Honest, NEW w, Sound(w), NodeHolds(core[n], w),
         Own(n, core'[n], w),
         LocalTimeout(n) \/ \E p \in core[n].loopback : HandleLoopback(n, p)
  PROVE  Advances(n, w)
<1> DEFINE c == core[n]
<1>1. n \in Authority /\ c \in CoreState
  BY MessageTypes
<1>2. \A d : Step(n, d) => core'[n] = d
  BY DEF Step, TypeOK
<1>3. CASE LocalTimeout(n)
  <2> DEFINE d == local_timeout_round(n, c)
  <2>1. Step(n, d)
    BY <1>3 DEF LocalTimeout
  <2>2. d \in CoreState
    BY <1>1, LocalTimeoutKeeps
  <2>3. NodeHolds(d, w) /\ NodeStep(c, d, w)
    BY <1>1, <1>2, <2>1, LocalTimeoutNode
  <2> QED  BY <2>1, <2>2, <2>3, AdvancesTo
<1>4. CASE \E p \in core[n].loopback : HandleLoopback(n, p)
  <2>1. PICK p \in c.loopback : HandleLoopback(n, p)
    BY <1>4
  <2> DEFINE ps == c.loopback \ {p}
             a  == [c EXCEPT !.loopback = ps]
             d  == process_block(n, a, p)
  <2>2. Step(n, d)
    BY <2>1 DEF HandleLoopback
  <2>3. p \in Proposal /\ ps \in SUBSET Proposal /\ ps \subseteq c.loopback
    BY <1>1 DEF CoreState
  <2>4. Backed(w, p) /\ Below(c, Parent(p.block)) /\ NodeHolds(c, w) /\ Own(n, d, w)
    BY <1>2, <2>2 DEF NodeHolds, WaitsHold
  <2> HIDE DEF c, ps
  <2>5. a \in CoreState
    BY <1>1, <2>3 DEF CoreState
  <2>6. /\ a.round = c.round /\ a.high_qc = c.high_qc /\ a.last_voted_round = c.last_voted_round
        /\ a.last_committed_round = c.last_committed_round
        /\ a.votes = c.votes /\ a.timeouts = c.timeouts /\ a.makes = c.makes
        /\ a.pending = c.pending /\ a.awaiting = c.awaiting /\ a.loopback = ps
        /\ a.delivered = c.delivered /\ a.proposed = c.proposed
        /\ a.timed_out = c.timed_out /\ a.voted = c.voted
    BY <1>1 DEF CoreState
  <2> HIDE DEF a
  <2>7. NodeHolds(a, w) /\ Below(a, Parent(p.block))
    <3>1. CertsHold(a, w) /\ SentHolds(a, w)
      BY <2>4, <2>6 DEF NodeHolds, CertsHold, RoundsHold, CountsHold, MakesHold, Below, SentHolds
    <3>2. WaitsHold(a, w)
      BY <2>3, <2>4, <2>6 DEF NodeHolds, WaitsHold, Below
    <3> QED  BY <2>4, <2>6, <3>1, <3>2 DEF NodeHolds, Below
  <2>8. NodeHolds(d, w) /\ NodeStep(a, d, w) /\ d \in CoreState
    BY <1>1, <2>3, <2>4, <2>5, <2>7, ProcessNode, ProcessBlock
  <2>9. NodeStep(c, d, w)
    <3>1. \A h : Walk(a, h) = Walk(c, h)
      BY <2>6, Zenon DEF Walk, WalkEnd
    <3>2. CommitStep(c, d, w)
      BY <2>6, <2>8, <3>1 DEF NodeStep, CommitStep
    <3>3. ProposerStep(c, d) /\ SignStep(c, d)
      BY <2>6, <2>8 DEF NodeStep, ProposerStep, Asks, SignStep
    <3> QED  BY <2>6, <2>8, <3>2, <3>3 DEF NodeStep
  <2> HIDE DEF d
  <2> QED  BY <2>2, <2>8, <2>9, AdvancesTo DEF c
<1> QED  BY <1>3, <1>4

\* The proposer answers its oldest request.
LEMMA MakeAdvances ==
  ASSUME TypeOK, NEW n \in Honest, NEW w, Sound(w), NodeHolds(core[n], w),
         NEW b \in Block, MakeBlock(n, b)
  PROVE  Advances(n, w)
<1> DEFINE c    == core[n]
           make == Head(c.makes)
           p    == [block |-> b, tc |-> make.tc]
           rest == Tail(c.makes)
           out  == c.proposed \union {p}
           back == c.loopback \union {p}
           d    == [c EXCEPT !.makes = rest, !.proposed = out, !.loopback = back]
<1>1. c \in CoreState /\ c.makes \in Seq([round : Nat, qc : Block, tc : TC])
  BY MessageTypes DEF CoreState
<1>2. /\ c.makes # <<>> /\ Step(n, d)
      /\ Parent(b) = make.qc /\ RoundOf(b) = make.round
  BY DEF MakeBlock
<1>3. NodeHolds(c, w) /\ c \in CoreState
  BY <1>1
<1> HIDE DEF c
<1>4. /\ 1 \in 1..Len(c.makes) /\ make = c.makes[1]
      /\ make \in [round : Nat, qc : Block, tc : TC]
      /\ rest \in Seq([round : Nat, qc : Block, tc : TC])
      /\ \A i \in 1..Len(rest) : i + 1 \in 1..Len(c.makes) /\ rest[i] = c.makes[i + 1]
  <2> DEFINE Make == [round : Nat, qc : Block, tc : TC]
  <2>1. c.makes \in Seq(Make)
    BY <1>1
  <2> HIDE DEF Make
  <2>2. /\ 1 \in 1..Len(c.makes) /\ make = c.makes[1] /\ make \in Make /\ rest \in Seq(Make)
        /\ \A i \in 1..Len(rest) : i + 1 \in 1..Len(c.makes) /\ rest[i] = c.makes[i + 1]
    BY <1>2, <2>1
  <2> QED  BY <2>2 DEF Make
<1>5. make.qc \in w.qcs /\ Below(c, make.qc) /\ make.tc \in w.tcs \union {NoTC}
  <2>1. MakesHold(c, w)
    BY <1>3 DEF NodeHolds, CertsHold
  <2> HIDE DEF make
  <2> QED  BY <1>4, <2>1 DEF MakesHold
<1>6. p \in Proposal /\ p.block = b /\ p.tc = make.tc
  BY <1>4 DEF Proposal
<1>7. Backed(w, p) /\ Below(c, Parent(p.block)) /\ RoundOf(p.block) = make.round
  BY <1>2, <1>5, <1>6 DEF Backed
<1>8. out \in SUBSET Proposal /\ back \in SUBSET Proposal
  BY <1>3, <1>6 DEF CoreState
<1>9. rest = Tail(c.makes) /\ make = Head(c.makes)
  OBVIOUS
<1>10. out = c.proposed \union {p} /\ back = c.loopback \union {p}
  OBVIOUS
<1> HIDE DEF rest, out, back, p, make
<1>11. d \in CoreState
  BY <1>3, <1>4, <1>8 DEF CoreState
<1>12. /\ d.round = c.round /\ d.high_qc = c.high_qc /\ d.last_voted_round = c.last_voted_round
       /\ d.last_committed_round = c.last_committed_round
       /\ d.votes = c.votes /\ d.timeouts = c.timeouts /\ d.makes = rest
       /\ d.pending = c.pending /\ d.awaiting = c.awaiting /\ d.loopback = back
       /\ d.delivered = c.delivered /\ d.proposed = out
       /\ d.timed_out = c.timed_out /\ d.voted = c.voted
  BY <1>3 DEF CoreState
<1> HIDE DEF d
<1>13. NodeHolds(d, w)
  <2>1. RoundsHold(d, w) /\ CountsHold(d, w)
    BY <1>3, <1>12 DEF NodeHolds, CertsHold, RoundsHold, CountsHold, Below
  <2>2. MakesHold(d, w)
    <3>1. MakesHold(c, w)
      BY <1>3 DEF NodeHolds, CertsHold
    <3> QED  BY <1>4, <1>12, <3>1 DEF MakesHold, Below
  <2>3. WaitsHold(d, w)
    BY <1>3, <1>7, <1>10, <1>12 DEF NodeHolds, WaitsHold, Below
  <2>4. SentHolds(d, w)
    BY <1>3, <1>7, <1>10, <1>12 DEF NodeHolds, SentHolds
  <2> QED  BY <2>1, <2>2, <2>3, <2>4 DEF NodeHolds, CertsHold
<1>14. NodeStep(c, d, w)
  <2>1. RoundOf(c.high_qc) \in Nat /\ c.round \in Nat
    BY <1>3, BlockTypes DEF CoreState
  <2>2. ProposerStep(c, d)
    BY <1>2, <1>6, <1>7, <1>9, <1>10, <1>12 DEF ProposerStep
  <2> QED  BY <1>12, <2>1, <2>2 DEF NodeStep, SignStep, CommitStep
<1> QED  BY <1>2, <1>11, <1>13, <1>14, AdvancesTo DEF c

\* The tasks that bring back what waited, and the mempool.
LEMMA WaiterAdvances ==
  ASSUME TypeOK, NEW n \in Honest, NEW w, Sound(w), NodeHolds(core[n], w),
         \/ \E p \in core[n].pending : ParentStored(n, p)
         \/ \E p \in core[n].awaiting : PayloadStored(n, p)
         \/ \E x \in Payload : StoreBatch(n, x)
  PROVE  Advances(n, w)
<1> DEFINE c == core[n]
<1>1. c \in CoreState /\ NodeHolds(c, w)
  BY MessageTypes
<1>2. RoundOf(c.high_qc) \in Nat /\ c.round \in Nat
  BY <1>1, BlockTypes DEF CoreState
<1>3. \/ \E p \in c.pending : Step(n, [c EXCEPT !.pending = @ \ {p},
                                                !.loopback = @ \union {p}])
      \/ \E p \in c.awaiting : Step(n, [c EXCEPT !.awaiting = @ \ {p},
                                                 !.loopback = @ \union {p}])
      \/ \E x \in Payload : Step(n, [c EXCEPT !.batches = @ \union {x}])
  BY DEF ParentStored, PayloadStored, StoreBatch
<1>4. ASSUME NEW d \in CoreState, Step(n, d),
             d.pending \union d.awaiting \union d.loopback
               \subseteq c.pending \union c.awaiting \union c.loopback,
             d.round = c.round, d.high_qc = c.high_qc,
             d.last_voted_round = c.last_voted_round,
             d.last_committed_round = c.last_committed_round,
             d.votes = c.votes, d.timeouts = c.timeouts, d.makes = c.makes,
             d.delivered = c.delivered, d.proposed = c.proposed,
             d.timed_out = c.timed_out, d.voted = c.voted
      PROVE  Advances(n, w)
  <2> HIDE DEF c
  <2>1. CertsHold(d, w) /\ SentHolds(d, w)
    BY <1>1, <1>4 DEF NodeHolds, CertsHold, RoundsHold, CountsHold, MakesHold, Below, SentHolds
  <2>2. WaitsHold(d, w)
    BY <1>1, <1>4 DEF NodeHolds, WaitsHold, Below
  <2>3. NodeStep(c, d, w)
    BY <1>2, <1>4 DEF NodeStep, ProposerStep, Asks, SignStep, CommitStep
  <2> QED  BY <1>4, <2>1, <2>2, <2>3, AdvancesTo DEF NodeHolds, c
<1>5. ASSUME NEW p \in c.pending,
             Step(n, [c EXCEPT !.pending = @ \ {p}, !.loopback = @ \union {p}])
      PROVE  Advances(n, w)
  <2> DEFINE d == [c EXCEPT !.pending = @ \ {p}, !.loopback = @ \union {p}]
  <2> HIDE DEF c
  <2>1. c.pending \ {p} \in SUBSET Proposal /\ c.loopback \union {p} \in SUBSET Proposal
    BY <1>1, <1>5 DEF CoreState
  <2>2. d \in CoreState
    BY <1>1, <2>1 DEF CoreState
  <2>3. /\ d.pending = c.pending \ {p} /\ d.loopback = c.loopback \union {p}
        /\ d.awaiting = c.awaiting
        /\ d.round = c.round /\ d.high_qc = c.high_qc
        /\ d.last_voted_round = c.last_voted_round
        /\ d.last_committed_round = c.last_committed_round
        /\ d.votes = c.votes /\ d.timeouts = c.timeouts /\ d.makes = c.makes
        /\ d.delivered = c.delivered /\ d.proposed = c.proposed
        /\ d.timed_out = c.timed_out /\ d.voted = c.voted
    BY <1>1 DEF CoreState
  <2>4. Step(n, d)
    BY <1>5
  <2> HIDE DEF d
  <2>5. d.pending \union d.awaiting \union d.loopback
          \subseteq c.pending \union c.awaiting \union c.loopback
    BY <1>5, <2>3
  <2> QED  BY <1>4, <2>2, <2>3, <2>4, <2>5
<1>6. ASSUME NEW p \in c.awaiting,
             Step(n, [c EXCEPT !.awaiting = @ \ {p}, !.loopback = @ \union {p}])
      PROVE  Advances(n, w)
  <2> DEFINE d == [c EXCEPT !.awaiting = @ \ {p}, !.loopback = @ \union {p}]
  <2> HIDE DEF c
  <2>1. c.awaiting \ {p} \in SUBSET Proposal /\ c.loopback \union {p} \in SUBSET Proposal
    BY <1>1, <1>6 DEF CoreState
  <2>2. d \in CoreState
    BY <1>1, <2>1 DEF CoreState
  <2>3. /\ d.awaiting = c.awaiting \ {p} /\ d.loopback = c.loopback \union {p}
        /\ d.pending = c.pending
        /\ d.round = c.round /\ d.high_qc = c.high_qc
        /\ d.last_voted_round = c.last_voted_round
        /\ d.last_committed_round = c.last_committed_round
        /\ d.votes = c.votes /\ d.timeouts = c.timeouts /\ d.makes = c.makes
        /\ d.delivered = c.delivered /\ d.proposed = c.proposed
        /\ d.timed_out = c.timed_out /\ d.voted = c.voted
    BY <1>1 DEF CoreState
  <2>4. Step(n, d)
    BY <1>6
  <2> HIDE DEF d
  <2>5. d.pending \union d.awaiting \union d.loopback
          \subseteq c.pending \union c.awaiting \union c.loopback
    BY <1>6, <2>3
  <2> QED  BY <1>4, <2>2, <2>3, <2>4, <2>5
<1>7. ASSUME NEW x \in Payload, Step(n, [c EXCEPT !.batches = @ \union {x}])
      PROVE  Advances(n, w)
  <2> DEFINE d == [c EXCEPT !.batches = @ \union {x}]
  <2> HIDE DEF c
  <2>1. c.batches \union {x} \in SUBSET Payload
    BY <1>1 DEF CoreState
  <2>2. d \in CoreState
    BY <1>1, <2>1 DEF CoreState
  <2>3. /\ d.awaiting = c.awaiting /\ d.loopback = c.loopback /\ d.pending = c.pending
        /\ d.round = c.round /\ d.high_qc = c.high_qc
        /\ d.last_voted_round = c.last_voted_round
        /\ d.last_committed_round = c.last_committed_round
        /\ d.votes = c.votes /\ d.timeouts = c.timeouts /\ d.makes = c.makes
        /\ d.delivered = c.delivered /\ d.proposed = c.proposed
        /\ d.timed_out = c.timed_out /\ d.voted = c.voted
    BY <1>1 DEF CoreState
  <2>4. Step(n, d)
    BY <1>7
  <2> HIDE DEF d
  <2> QED  BY <1>4, <2>2, <2>3, <2>4
<1> QED  BY <1>3, <1>5, <1>6, <1>7

\* A node that boots holds the certificate of genesis and what it sent before.
LEMMA BootNode ==
  ASSUME NEW n, NEW stored \in SUBSET Block, NEW batches \in SUBSET Payload,
         NEW sent \in SentType, NEW w, Sound(w), SentHolds(sent, w)
  PROVE  NodeHolds(boot(n, stored, batches, sent), w)
<1> DEFINE c == boot_fields(stored, batches, sent)
           d == boot(n, stored, batches, sent)
<1>1. <<>> \in Seq([round : Nat, qc : Block, tc : TC]) /\ Genesis \in Block
  BY GenesisBlock
<1>2. c \in CoreState
  BY <1>1 DEF boot_fields, CoreState, SentType
<1>3. d = propose_if_leader(n, c, NoTC)
  BY DEF boot
<1>4. /\ c.round = 1 /\ c.last_voted_round = 0 /\ c.last_committed_round = 0
      /\ c.high_qc = Genesis /\ c.votes = {} /\ c.timeouts = {}
      /\ c.pending = {} /\ c.awaiting = {} /\ c.loopback = {} /\ c.makes = <<>>
      /\ c.delivered = sent.delivered /\ c.voted = sent.voted
      /\ c.timed_out = sent.timed_out /\ c.proposed = sent.proposed
  BY DEF boot_fields
<1>5. Kept(c, d)
  BY Boot
<1> HIDE DEF c
<1>6. w \in Worlds /\ Genesis \in w.qcs /\ NoTC \in w.tcs \union {NoTC}
  BY DEF Sound
<1>7. CertsHold(c, w)
  <2>1. RoundsHold(c, w) /\ CountsHold(c, w)
    BY <1>4, <1>6, GenesisBlock DEF RoundsHold, CountsHold
  <2>2. MakesHold(c, w)
    BY <1>4 DEF MakesHold
  <2> QED  BY <2>1, <2>2 DEF CertsHold
<1>8. CertsHold(d, w)
  BY <1>2, <1>3, <1>6, <1>7, ProposeCerts
<1> HIDE DEF d
<1>9. WaitsHold(d, w)
  BY <1>4, <1>5 DEF Kept, WaitsHold
<1>10. SentHolds(d, w)
  BY <1>4, <1>5 DEF Kept, SentHolds
<1> QED  BY <1>8, <1>9, <1>10 DEF NodeHolds, d

\* A restart.
LEMMA RestartHolds ==
  ASSUME TypeOK, NEW n \in Honest, NEW w, Sound(w), NodeHolds(core[n], w), Restart(n)
  PROVE  /\ NodeHolds(core'[n], w)
         /\ \A m \in Honest \ {n} : core'[m] = core[m]
<1> DEFINE c == core[n]
<1>1. PICK s \in Contents : core' = [core EXCEPT ![n] = boot(n, s.store, s.batches, Sent(c))]
  BY RestartStep
<1> DEFINE d == boot(n, s.store, s.batches, Sent(c))
<1>2. core'[n] = d /\ \A m \in Honest \ {n} : core'[m] = core[m]
  BY <1>1 DEF TypeOK
<1>3. NodeHolds(c, w) /\ c \in CoreState
  BY MessageTypes
<1> HIDE DEF c
<1>4. /\ s.store \in SUBSET Block /\ s.batches \in SUBSET Payload
      /\ Sent(c) \in SentType
      /\ Sent(c).timed_out = c.timed_out /\ Sent(c).voted = c.voted
      /\ Sent(c).proposed = c.proposed /\ Sent(c).delivered = c.delivered
  BY <1>3 DEF CoreState, Sent, SentType, Contents
<1>5. SentHolds(Sent(c), w)
  BY <1>3, <1>4 DEF NodeHolds, SentHolds
<1>6. NodeHolds(d, w)
  BY <1>4, <1>5, BootNode
<1> HIDE DEF d
<1> QED  BY <1>2, <1>6

\* Every step is one of an honest node that goes on holding only what verifies.
LEMMA SystemStep ==
  ASSUME TypeOK, TypeOK', NodeInv, Next
  PROVE  \E n \in Honest :
           \/ Advances(n, World')
           \/ /\ Restart(n)
              /\ NodeHolds(core'[n], World')
              /\ \A m \in Honest \ {n} : core'[m] = core[m]
<1> DEFINE w == World'
<1>1. Sound(w) /\ \A n \in Honest : Own(n, core'[n], w)
  BY WorldNext
<1>2. Widens(World, w)
  BY WorldWidens
<1>3. \A n \in Honest : NodeHolds(core[n], w)
  BY <1>2, NodeWidens DEF NodeInv
<1>4. /\ \A p \in Proposals : Backed(w, p)
      /\ \A n : VotesTo(n) \subseteq w.votes
      /\ Timeouts \subseteq w.timeouts
      /\ VerifiedTCs \subseteq w.tcs
  <2>1. /\ \A p \in Proposals : Backed(World, p)
        /\ \A n : VotesTo(n) \subseteq World.votes
        /\ Timeouts \subseteq World.timeouts
        /\ VerifiedTCs \subseteq World.tcs
    BY MessagesAuthentic
  <2> QED  BY <1>2, <2>1 DEF Widens, Backed
<1> HIDE DEF w
<1>5. CASE \E p \in Proposals, n \in Honest : HandleProposal(n, p)
  BY <1>1, <1>3, <1>4, <1>5, MessageAdvances DEF w
<1>6. CASE \E n \in Honest : \E vote \in VotesTo(n) : HandleVote(n, vote)
  BY <1>1, <1>3, <1>4, <1>6, MessageAdvances DEF w
<1>7. CASE \E t \in Timeouts, n \in Honest : HandleTimeout(n, t)
  BY <1>1, <1>3, <1>4, <1>7, MessageAdvances DEF w
<1>8. CASE \E tc \in VerifiedTCs, n \in Honest : HandleTC(n, tc)
  BY <1>1, <1>3, <1>4, <1>8, MessageAdvances DEF w
<1>9. ASSUME NEW n \in Honest,
             \/ \E p \in core[n].loopback : HandleLoopback(n, p)
             \/ LocalTimeout(n)
             \/ \E b \in Block : MakeBlock(n, b)
             \/ \E p \in core[n].pending : ParentStored(n, p)
             \/ \E p \in core[n].awaiting : PayloadStored(n, p)
             \/ \E x \in Payload : StoreBatch(n, x)
      PROVE  Advances(n, w)
  BY <1>1, <1>3, <1>9, LoopAdvances, MakeAdvances, WaiterAdvances
<1>10. ASSUME NEW n \in Honest, Restart(n)
       PROVE  NodeHolds(core'[n], w) /\ \A m \in Honest \ {n} : core'[m] = core[m]
  BY <1>1, <1>3, <1>10, RestartHolds
<1> QED  BY <1>5, <1>6, <1>7, <1>8, <1>9, <1>10 DEF Next, w

\* The first states.
LEMMA NodeInit == Init => NodeInv
<1> SUFFICES ASSUME Init, NEW n \in Honest PROVE NodeHolds(core[n], World)
  BY DEF NodeInv
<1>1. Sound(World)
  BY TypeInit, WorldSound
<1>2. core[n] = boot(n, {}, InitBatches, NothingSent)
  BY DEF Init
<1>3. /\ InitBatches \in SUBSET Payload /\ {} \in SUBSET Block
      /\ NothingSent \in SentType
      /\ NothingSent.delivered = <<>> /\ NothingSent.voted = {}
      /\ NothingSent.timed_out = {} /\ NothingSent.proposed = {}
  BY BoundsAssumption DEF NothingSent, SentType
<1>4. SentHolds(NothingSent, World)
  BY <1>3 DEF SentHolds, Range
<1> QED  BY <1>1, <1>2, <1>3, <1>4, BootNode

\* Every step keeps what every node holds.
LEMMA NodeNext == TypeOK /\ NodeInv /\ [Next]_vars => NodeInv'
<1> SUFFICES ASSUME TypeOK, NodeInv, [Next]_vars PROVE NodeInv'
  OBVIOUS
<1>1. TypeOK'
  BY TypeStep
<1>2. \A m \in Honest : NodeHolds(core[m], World')
  BY <1>1, WorldWidens, NodeWidens DEF NodeInv
<1>3. CASE Next
  <2>1. PICK n \in Honest : \/ Advances(n, World')
                            \/ /\ NodeHolds(core'[n], World')
                               /\ \A m \in Honest \ {n} : core'[m] = core[m]
    BY <1>1, <1>3, SystemStep
  <2>2. NodeHolds(core'[n], World') /\ \A m \in Honest \ {n} : core'[m] = core[m]
    BY <2>1 DEF Advances, TypeOK
  <2> QED  BY <1>2, <2>2 DEF NodeInv
<1>4. CASE UNCHANGED vars
  BY <1>2, <1>4 DEF vars, NodeInv
<1> QED  BY <1>3, <1>4

-----------------------------------------------------------------------------
(* What holds whatever the nodes do, restarts included.                    *)

\* The rounds a core keeps stay in order, and its highest QC verifies.
THEOREM RoundsInOrder == Spec => []RoundOrder
<1>1. NodeInv => RoundOrder
  BY WorldParts DEF NodeInv, NodeHolds, CertsHold, RoundsHold, RoundOrder, CertifiedBlocks
<1> QED  BY <1>1, TypeInit, TypeStep, NodeInit, NodeNext, PTL DEF Spec

\* handle_timeout processes the QC of a timeout before it counts it: no timeout
\* a node holds reports a QC above its own.
THEOREM TimeoutsAreCovered == Spec => []TimeoutsCovered
<1>1. NodeInv => TimeoutsCovered
  BY DEF NodeInv, NodeHolds, CertsHold, CountsHold, Below, TimeoutsCovered
<1> QED  BY <1>1, TypeInit, TypeStep, NodeInit, NodeNext, PTL DEF Spec

\* Whatever is handed to the application is on a committed chain, across
\* restarts.
THEOREM OnlyCommittedDelivered == Spec => []DeliveredCommitted
<1>1. NodeInv => DeliveredCommitted
  <2>1. Committed = Heads(World.qcs)
    BY WorldParts DEF Committed, Heads
  <2> QED  BY <2>1 DEF NodeInv, NodeHolds, SentHolds, DeliveredCommitted, Delivered
<1> QED  BY <1>1, TypeInit, TypeStep, NodeInit, NodeNext, PTL DEF Spec

-----------------------------------------------------------------------------
(* Blocks and their ancestors.                                             *)

\* A block extends itself, its parent and what its parent extends.
LEMMA ExtendsParent ==
  ASSUME NEW b \in Block
  PROVE  /\ Extends(b, b) /\ Extends(b, Genesis) /\ Extends(b, Parent(b))
         /\ \A a \in Block : Extends(Parent(b), a) => Extends(b, a)
<1>1. b \in Seq(Entry) /\ Len(b) \in Nat
  BY BlockTypes
<1>2. Extends(b, b) /\ Extends(b, Genesis)
  BY <1>1 DEF Extends, IsPrefix, Genesis
<1>3. CASE b = Genesis
  BY <1>2, <1>3, GenesisBlock
<1>4. CASE b # Genesis
  <2> DEFINE m == Parent(b)
  <2>1. Len(b) > 0 /\ m = SubSeq(b, 1, Len(b) - 1)
    BY <1>1, <1>4, BlockTypes DEF Genesis
  <2>2. m \in Seq(Entry) /\ Len(m) = Len(b) - 1
    <3> DEFINE k == Len(b) - 1
    <3>1. k \in 0..Len(b)
      BY <1>1, <2>1
    <3> HIDE DEF k
    <3>2. Len(SubSeq(b, 1, k)) = k /\ SubSeq(b, 1, k) \in Seq(Entry)
      BY <1>1, <3>1
    <3> QED  BY <3>2, <2>1 DEF k
  <2>3. \A i \in 1..Len(m) : m[i] = b[i]
    BY <1>1, <2>1
  <2> HIDE DEF m
  <2>4. ASSUME NEW a \in Block, Extends(m, a) PROVE Extends(b, a)
    <3>1. a \in Seq(Entry) /\ Len(a) \in Nat
      BY BlockTypes
    <3>2. Len(a) <= Len(m) /\ SubSeq(a, 1, Len(a)) = SubSeq(m, 1, Len(a))
      BY <2>4 DEF Extends, IsPrefix
    <3>3. SubSeq(m, 1, Len(a)) = SubSeq(b, 1, Len(a))
      BY <1>1, <2>2, <2>3, <3>1, <3>2
    <3> QED  BY <1>1, <2>2, <3>1, <3>2, <3>3 DEF Extends, IsPrefix
  <2>5. m \in Block
    BY BlockTypes DEF m
  <2>6. Extends(m, m)
    BY <2>2 DEF Extends, IsPrefix
  <2> QED  BY <1>2, <2>4, <2>5, <2>6 DEF m
<1> QED  BY <1>3, <1>4

\* A certified block above genesis was voted for by an honest node, so it keeps
\* to the rule.
LEMMA CertifiedByRule ==
  ASSUME TypeOK, NodeInv, FaultBound, NEW b \in Block, b # Genesis, Certified(b)
  PROVE  VoteRule(World, b)
<1>1. IsQuorum(Voters(b) \union Faulty)
  BY DEF Certified
<1>2. Voters(b) # {}
  <2>1. SUFFICES ASSUME Voters(b) = {} PROVE FALSE
    OBVIOUS
  <2>2. IsQuorum(Faulty)
    <3>1. Voters(b) \union Faulty = Faulty
      BY <2>1
    <3> QED  BY <1>1, <3>1
  <2>3. total_votes > 0
    <3>1. total_votes \in Nat /\ Weight(Faulty) \in Nat
      BY WeightType
    <3> QED  BY <3>1 DEF FaultBound, max_faulty
  <2> QED  BY <2>2, <2>3, FaultyAreNoQuorum
<1>3. PICK n \in Honest : b \in core[n].voted
  BY <1>2 DEF Voters
<1> QED  BY <1>3 DEF NodeInv, NodeHolds, SentHolds

\* Two certified blocks above genesis have a common honest voter.
LEMMA CommonVoter ==
  ASSUME FaultBound, NEW b1, NEW b2, b1 # Genesis, b2 # Genesis,
         Certified(b1), Certified(b2)
  PROVE  \E n \in Honest : b1 \in core[n].voted /\ b2 \in core[n].voted
<1>1. /\ IsQuorum(Voters(b1) \union Faulty) /\ IsQuorum(Voters(b2) \union Faulty)
      /\ Voters(b1) \union Faulty \in SUBSET Authority
      /\ Voters(b2) \union Faulty \in SUBSET Authority
  BY UnitsAssumption DEF Certified, Voters, Honest
<1>2. PICK n \in (Voters(b1) \union Faulty) \intersect (Voters(b2) \union Faulty) : n \in Honest
  BY <1>1, QuorumIntersection
<1>3. n \in Voters(b1) /\ n \in Voters(b2)
  BY <1>2 DEF Honest
<1> QED  BY <1>3 DEF Voters

\* The signers of a TC and the voters of a certified block have an honest node
\* in common: the TC reports a QC at least as high as that node's timeout does.
LEMMA CommonTimeout ==
  ASSUME FaultBound, NEW b, b # Genesis, Certified(b), NEW tc \in World.tcs
  PROVE  \E n \in Honest : /\ b \in core[n].voted
                           /\ \E t \in core[n].timed_out :
                                t.round = tc.round /\ RoundOf(t.high_qc) <= tc.high
<1>1. /\ IsQuorum(Voters(b) \union Faulty) /\ IsQuorum(TimedOut(tc) \union Faulty)
      /\ Voters(b) \union Faulty \in SUBSET Authority
      /\ TimedOut(tc) \union Faulty \in SUBSET Authority
  BY UnitsAssumption, WorldParts DEF Certified, Voters, TimedOut, Honest
<1>2. PICK n \in (Voters(b) \union Faulty) \intersect (TimedOut(tc) \union Faulty) : n \in Honest
  BY <1>1, QuorumIntersection
<1>3. n \in Voters(b) /\ n \in TimedOut(tc)
  BY <1>2 DEF Honest
<1> QED  BY <1>3 DEF Voters, TimedOut

\* Once a block is the head of a 2-chain, a block that no longer descends from
\* it can not be certified: the first such block would need a vote from a node
\* that voted for the child, either in the same round, or on a TC that reports
\* a QC below the one it had.
LEMMA LockStep ==
  ASSUME TypeOK, NodeInv, OneVotePerRound, TimeoutCoversVotes, FaultBound,
         NEW head \in Committed, NEW b \in CertifiedBlocks,
         RoundOf(b) >= RoundOf(head),
         \A a \in CertifiedBlocks :
           RoundOf(a) >= RoundOf(head) /\ RoundOf(a) < RoundOf(b) => Extends(a, head)
  PROVE  Extends(b, head)
<1>1. PICK child \in CertifiedBlocks \ {Genesis} :
             head = Parent(child) /\ RoundOf(child) = RoundOf(head) + 1
  BY DEF Committed
<1>2. /\ child \in Block /\ Certified(child) /\ b \in Block /\ Certified(b)
      /\ child # Genesis /\ head \in Block
  BY <1>1, BlockTypes DEF CertifiedBlocks
<1>3. RoundOf(head) \in Nat /\ RoundOf(child) \in Nat /\ RoundOf(b) \in Nat
  BY <1>2, BlockTypes
<1>4. World.qcs = CertifiedBlocks
  BY WorldParts
<1>5. CASE head = Genesis
  BY <1>2, <1>5, ExtendsParent
<1>6. CASE head # Genesis
  <2>1. Certified(head)
    <3>1. VoteRule(World, child)
      BY <1>2, CertifiedByRule
    <3> QED  BY <1>1, <1>4, <3>1 DEF VoteRule, CertifiedBlocks
  <2>2. RoundOf(head) > 0
    <3>1. VoteRule(World, head) /\ RoundOf(Parent(head)) \in Nat
      BY <1>2, <1>6, <2>1, CertifiedByRule, BlockTypes
    <3> QED  BY <1>3, <3>1 DEF VoteRule
  <2>3. b # Genesis
    BY <1>3, <2>2, GenesisBlock
  <2>4. CASE RoundOf(b) = RoundOf(head)
    <3>1. PICK n \in Honest : b \in core[n].voted /\ head \in core[n].voted
      BY <1>2, <1>6, <2>1, <2>3, CommonVoter
    <3>2. b = head
      BY <2>4, <3>1 DEF OneVotePerRound
    <3> QED  BY <1>2, <3>2, ExtendsParent
  <2>5. CASE RoundOf(b) = RoundOf(head) + 1
    <3>1. PICK n \in Honest : b \in core[n].voted /\ child \in core[n].voted
      BY <1>2, <2>3, CommonVoter
    <3>2. b = child
      BY <1>1, <2>5, <3>1 DEF OneVotePerRound
    <3> QED  BY <1>1, <1>2, <3>2, ExtendsParent
  <2>6. CASE RoundOf(b) > RoundOf(head) + 1
    <3> DEFINE parent == Parent(b)
    <3>1. parent \in Block /\ RoundOf(parent) \in Nat
      BY <1>2, BlockTypes
    <3>2. VoteRule(World, b)
      BY <1>2, <2>3, CertifiedByRule
    <3>3. parent \in CertifiedBlocks /\ RoundOf(parent) < RoundOf(b)
      BY <1>4, <3>2 DEF VoteRule
    <3>4. RoundOf(parent) >= RoundOf(head)
      <4>1. CASE RoundOf(parent) + 1 = RoundOf(b)
        BY <1>3, <2>6, <3>1, <4>1
      <4>2. CASE RoundOf(parent) + 1 # RoundOf(b)
        <5>1. PICK tc \in World.tcs : tc.round + 1 = RoundOf(b) /\ tc.high <= RoundOf(parent)
          BY <3>2, <4>2 DEF VoteRule
        <5>2. PICK n \in Honest :
                /\ child \in core[n].voted
                /\ \E t \in core[n].timed_out :
                     t.round = tc.round /\ RoundOf(t.high_qc) <= tc.high
          BY <1>2, <5>1, CommonTimeout
        <5>3. PICK t \in core[n].timed_out :
                t.round = tc.round /\ RoundOf(t.high_qc) <= tc.high
          BY <5>2
        <5>4. tc.round \in Nat /\ tc.high \in Nat /\ t.high_qc \in Block
          <6>1. core[n] \in CoreState
            BY MessageTypes
          <6> QED  BY <5>1, <5>3, <6>1, WorldParts DEF Worlds, TC, CoreState
        <5>5. RoundOf(child) <= t.round
          BY <1>1, <1>3, <2>6, <5>1, <5>3, <5>4
        <5>6. RoundOf(head) <= RoundOf(t.high_qc)
          BY <1>1, <5>3, <5>5, <5>2 DEF TimeoutCoversVotes
        <5>7. RoundOf(t.high_qc) \in Nat
          BY <5>4, BlockTypes
        <5> QED  BY <1>3, <3>1, <5>1, <5>3, <5>4, <5>6, <5>7
      <4> QED  BY <4>1, <4>2
    <3>5. Extends(parent, head)
      BY <3>3, <3>4
    <3> QED  BY <1>2, <3>5, ExtendsParent
  <2> QED  BY <1>3, <2>4, <2>5, <2>6
<1> QED  BY <1>5, <1>6

\* So by induction on rounds.
LEMMA Locked ==
  ASSUME TypeOK, NodeInv, OneVotePerRound, TimeoutCoversVotes, FaultBound
  PROVE  CommittedLocked
<1> SUFFICES ASSUME NEW head \in Committed,
                    ~ \A b \in CertifiedBlocks : RoundOf(b) >= RoundOf(head) => Extends(b, head)
             PROVE  FALSE
  BY DEF CommittedLocked
<1> DEFINE Bad == {b \in CertifiedBlocks : RoundOf(b) >= RoundOf(head) /\ ~ Extends(b, head)}
           Rounds == {RoundOf(b) : b \in Bad}
<1>1. Rounds \subseteq Nat /\ Rounds # {}
  BY BlockTypes DEF CertifiedBlocks
<1>2. PICK k \in Rounds : \A j \in Rounds : k <= j
  BY <1>1, LeastNatural
<1>3. PICK b \in Bad : k = RoundOf(b)
  BY <1>2
<1>4. ASSUME NEW a \in CertifiedBlocks, RoundOf(a) >= RoundOf(head), RoundOf(a) < RoundOf(b)
      PROVE  Extends(a, head)
  <2>1. RoundOf(a) \in Nat /\ RoundOf(b) \in Nat
    BY BlockTypes DEF CertifiedBlocks
  <2>2. SUFFICES ASSUME a \in Bad PROVE FALSE
    BY <1>4
  <2>3. RoundOf(b) <= RoundOf(a)
    BY <1>2, <1>3, <2>2
  <2> QED  BY <1>4, <2>1, <2>3
<1> QED  BY <1>3, <1>4, LockStep

-----------------------------------------------------------------------------
(* What a node remembers as long as it is not restarted.                   *)

\* The QC of every block voted for was processed before the vote, so a timeout
\* signed later reports one at least as high.
CoverHolds(c) ==
  /\ \A b \in c.voted : Below(c, Parent(b))
  /\ \A t \in c.timed_out, b \in c.voted :
       RoundOf(b) <= t.round => RoundOf(Parent(b)) <= RoundOf(t.high_qc)

\* The proposer is asked for rounds that climb, each just entered, and answers
\* in that order.
ProposalsHold(c) ==
  /\ \A p, q \in c.proposed : RoundOf(p.block) = RoundOf(q.block) => p = q
  /\ \A p \in c.proposed : RoundOf(p.block) <= c.round
  /\ \A i \in 1..Len(c.makes) :
       /\ c.makes[i].round <= c.round
       /\ \A p \in c.proposed : RoundOf(p.block) < c.makes[i].round
       /\ \A j \in 1..Len(c.makes) : i < j => c.makes[i].round < c.makes[j].round

\* A vote is above every earlier timeout, a timeout reports the highest QC.
LEMMA CoverStep ==
  ASSUME NEW c \in CoreState, NEW d \in CoreState, NEW w,
         CoverHolds(c), VotesHold(c), VotesStep(c, d), NodeStep(c, d, w)
  PROVE  CoverHolds(d)
<1>1. /\ RoundOf(c.high_qc) \in Nat /\ RoundOf(d.high_qc) \in Nat
      /\ RoundOf(d.high_qc) >= RoundOf(c.high_qc)
  BY BlockTypes DEF CoreState, NodeStep
<1>2. /\ \A b \in Block : Parent(b) \in Block /\ RoundOf(b) \in Nat /\ RoundOf(Parent(b)) \in Nat
      /\ c.voted \subseteq Block /\ d.voted \subseteq Block
      /\ \A t \in c.timed_out \union d.timed_out :
           t.round \in Nat /\ RoundOf(t.high_qc) \in Nat
      /\ c.last_voted_round \in Nat
  BY BlockTypes DEF CoreState
<1>3. /\ \A b \in d.voted \ c.voted : Below(d, Parent(b))
      /\ \A t \in d.timed_out \ c.timed_out : RoundOf(t.high_qc) >= RoundOf(c.high_qc)
  BY DEF NodeStep, SignStep
<1>4. ASSUME NEW b \in d.voted PROVE Below(d, Parent(b))
  <2>1. CASE b \in c.voted
    <3>1. RoundOf(Parent(b)) <= RoundOf(c.high_qc)
      BY <2>1 DEF CoverHolds, Below
    <3> QED  BY <1>1, <1>2, <3>1 DEF Below
  <2> QED  BY <1>3, <2>1
<1>5. ASSUME NEW t \in d.timed_out, NEW b \in d.voted, RoundOf(b) <= t.round
      PROVE  RoundOf(Parent(b)) <= RoundOf(t.high_qc)
  <2>1. CASE b \in c.voted /\ t \in c.timed_out
    BY <1>5, <2>1 DEF CoverHolds
  <2>2. CASE b \in c.voted /\ t \notin c.timed_out
    <3>1. RoundOf(Parent(b)) <= RoundOf(c.high_qc)
      BY <2>2 DEF CoverHolds, Below
    <3>2. RoundOf(t.high_qc) >= RoundOf(c.high_qc)
      BY <1>3, <2>2
    <3> QED  BY <1>1, <1>2, <3>1, <3>2
  <2>3. CASE b \notin c.voted
    <3>1. RoundOf(b) > c.last_voted_round /\ d.timed_out = c.timed_out
      BY <2>3 DEF VotesStep
    <3>2. t.round <= c.last_voted_round
      BY <3>1 DEF VotesHold
    <3> QED  BY <1>2, <1>5, <3>1, <3>2
  <2> QED  BY <2>1, <2>2, <2>3
<1> QED  BY <1>4, <1>5 DEF CoverHolds

\* A request is for a round just entered, above every earlier one; a block takes
\* the oldest request away.
LEMMA ProposalsStep ==
  ASSUME NEW c \in CoreState, NEW d \in CoreState, NEW w,
         ProposalsHold(c), NodeStep(c, d, w)
  PROVE  ProposalsHold(d)
<1>1. /\ c.round \in Nat /\ d.round \in Nat /\ d.round >= c.round
      /\ Len(c.makes) \in Nat /\ \A i \in 1..Len(c.makes) : c.makes[i].round \in Nat
      /\ c.makes \in Seq([round : Nat, qc : Block, tc : TC])
      /\ \A p \in c.proposed : RoundOf(p.block) \in Nat
  <2>1. c.makes \in Seq([round : Nat, qc : Block, tc : TC])
    BY DEF CoreState
  <2>2. Len(c.makes) \in Nat /\ \A i \in 1..Len(c.makes) : c.makes[i].round \in Nat
    <3> DEFINE Make == [round : Nat, qc : Block, tc : TC]
    <3>1. \A m \in Make : m.round \in Nat
      OBVIOUS
    <3>2. c.makes \in Seq(Make)
      BY <2>1
    <3> HIDE DEF Make
    <3>3. Len(c.makes) \in Nat /\ \A i \in 1..Len(c.makes) : c.makes[i] \in Make
      BY <3>2
    <3> QED  BY <3>1, <3>3
  <2>3. c.round \in Nat /\ d.round \in Nat /\ d.round >= c.round
    BY DEF CoreState, NodeStep
  <2>4. \A p \in c.proposed : RoundOf(p.block) \in Nat
    BY BlockTypes DEF CoreState, Proposal
  <2> QED  BY <2>1, <2>2, <2>3, <2>4
<1>2. CASE d.proposed = c.proposed /\ d.makes = c.makes
  BY <1>1, <1>2 DEF ProposalsHold
<1>3. CASE /\ d.proposed = c.proposed /\ d.round > c.round
           /\ \E tc \in TC :
                d.makes = Append(c.makes, [round |-> d.round, qc |-> d.high_qc, tc |-> tc])
  <2>1. PICK tc \in TC :
          d.makes = Append(c.makes, [round |-> d.round, qc |-> d.high_qc, tc |-> tc])
    BY <1>3
  <2> DEFINE k == Len(c.makes)
             make == [round |-> d.round, qc |-> d.high_qc, tc |-> tc]
  <2>2. /\ k \in Nat
        /\ Len(d.makes) = k + 1
        /\ \A i \in 1..k : d.makes[i] = c.makes[i]
        /\ d.makes[k + 1].round = d.round
    <3>1. make \in [round : Nat, qc : Block, tc : TC] /\ make.round = d.round
      BY DEF CoreState
    <3> HIDE DEF make
    <3> QED  BY <1>1, <2>1, <3>1 DEF make
  <2> HIDE DEF k, make
  <2>3. \A i \in 1..k : /\ c.makes[i].round <= c.round
                        /\ \A p \in c.proposed : RoundOf(p.block) < c.makes[i].round
                        /\ \A j \in 1..k : i < j => c.makes[i].round < c.makes[j].round
    BY DEF ProposalsHold, k
  <2>4. ASSUME NEW i \in 1..(k + 1)
        PROVE  /\ d.makes[i].round <= d.round
               /\ \A p \in d.proposed : RoundOf(p.block) < d.makes[i].round
               /\ \A j \in 1..(k + 1) : i < j => d.makes[i].round < d.makes[j].round
    <3>1. CASE i \in 1..k
      <4>1. d.makes[i].round = c.makes[i].round /\ c.makes[i].round \in Nat
        BY <1>1, <2>2, <3>1 DEF k
      <4>2. c.makes[i].round < d.round
        BY <1>1, <1>3, <2>3, <3>1, <4>1
      <4>3. ASSUME NEW j \in 1..(k + 1), i < j PROVE d.makes[i].round < d.makes[j].round
        <5>1. CASE j = k + 1
          BY <2>2, <4>1, <4>2, <5>1
        <5>2. CASE j # k + 1
          <6>1. j \in 1..k
            BY <2>2, <5>2
          <6> QED  BY <2>2, <2>3, <3>1, <4>1, <4>3, <6>1
        <5> QED  BY <5>1, <5>2
      <4>4. \A p \in d.proposed : RoundOf(p.block) < d.makes[i].round
        BY <1>3, <2>3, <3>1, <4>1
      <4>5. d.makes[i].round <= d.round
        BY <1>1, <4>1, <4>2
      <4> QED  BY <4>3, <4>4, <4>5
    <3>2. CASE i = k + 1
      <4>1. d.makes[i].round = d.round
        BY <2>2, <3>2
      <4>2. \A p \in d.proposed : RoundOf(p.block) < d.round
        BY <1>1, <1>3 DEF ProposalsHold
      <4> QED  BY <1>1, <2>2, <3>2, <4>1, <4>2
    <3>3. i \in 1..k \/ i = k + 1
      BY <2>2
    <3> QED  BY <3>1, <3>2, <3>3
  <2>5. /\ \A p, q \in d.proposed : RoundOf(p.block) = RoundOf(q.block) => p = q
        /\ \A p \in d.proposed : RoundOf(p.block) <= d.round
    BY <1>1, <1>3 DEF ProposalsHold
  <2> QED  BY <2>2, <2>4, <2>5 DEF ProposalsHold
<1>4. CASE /\ c.makes # <<>> /\ d.makes = Tail(c.makes)
           /\ \E p \in Proposal : /\ RoundOf(p.block) = Head(c.makes).round
                                  /\ d.proposed = c.proposed \union {p}
  <2>1. PICK p \in Proposal : /\ RoundOf(p.block) = Head(c.makes).round
                              /\ d.proposed = c.proposed \union {p}
    BY <1>4
  <2> DEFINE k == Len(c.makes)
  <2>2. /\ k \in Nat /\ k > 0
        /\ Head(c.makes) = c.makes[1]
        /\ Len(d.makes) = k - 1
        /\ \A i \in 1..(k - 1) : d.makes[i] = c.makes[i + 1]
    BY <1>1, <1>4
  <2> HIDE DEF k
  <2>3. \A i \in 1..k : /\ c.makes[i].round <= c.round /\ c.makes[i].round \in Nat
                        /\ \A q \in c.proposed : RoundOf(q.block) < c.makes[i].round
                        /\ \A j \in 1..k : i < j => c.makes[i].round < c.makes[j].round
    BY <1>1 DEF ProposalsHold, k
  <2>4. /\ 1 \in 1..k /\ RoundOf(p.block) = c.makes[1].round
        /\ \A q \in c.proposed : RoundOf(q.block) < RoundOf(p.block)
        /\ RoundOf(p.block) <= c.round /\ RoundOf(p.block) \in Nat
    <3>1. 1 \in 1..k
      BY <2>2
    <3> QED  BY <2>1, <2>2, <2>3, <3>1
  <2>5. ASSUME NEW q \in d.proposed PROVE RoundOf(q.block) <= d.round
    <3>1. RoundOf(q.block) <= c.round /\ RoundOf(q.block) \in Nat
      BY <1>1, <2>1, <2>4 DEF ProposalsHold
    <3> QED  BY <1>1, <3>1
  <2>6. ASSUME NEW q \in d.proposed, NEW u \in d.proposed,
               RoundOf(q.block) = RoundOf(u.block)
        PROVE  q = u
    BY <1>1, <2>1, <2>4, <2>6 DEF ProposalsHold
  <2>7. ASSUME NEW i \in 1..(k - 1)
        PROVE  /\ d.makes[i].round <= d.round
               /\ \A q \in d.proposed : RoundOf(q.block) < d.makes[i].round
               /\ \A j \in 1..(k - 1) : i < j => d.makes[i].round < d.makes[j].round
    <3>1. i + 1 \in 1..k /\ 1 < i + 1 /\ d.makes[i] = c.makes[i + 1]
      BY <2>2
    <3>2. d.makes[i].round <= d.round
      BY <1>1, <2>3, <3>1
    <3>3. ASSUME NEW q \in d.proposed PROVE RoundOf(q.block) < d.makes[i].round
      BY <2>1, <2>3, <2>4, <3>1
    <3>4. ASSUME NEW j \in 1..(k - 1), i < j PROVE d.makes[i].round < d.makes[j].round
      <4>1. j + 1 \in 1..k /\ i + 1 < j + 1 /\ d.makes[j] = c.makes[j + 1]
        BY <2>2, <3>4
      <4> QED  BY <2>3, <3>1, <4>1
    <3> QED  BY <3>2, <3>3, <3>4
  <2> QED  BY <2>2, <2>5, <2>6, <2>7 DEF ProposalsHold
<1> QED  BY <1>2, <1>3, <1>4 DEF NodeStep, ProposerStep, Asks

\* Without restarts a step is one handler of one node, and it keeps both to what
\* verifies and to what was voted for before.
LEMMA PlainStep ==
  ASSUME MaxRestarts = 0, TypeOK, TypeOK', NodeInv, Next, NEW m \in Honest
  PROVE  \/ core'[m] = core[m]
         \/ /\ NodeStep(core[m], core'[m], World')
            /\ VotesStep(core[m], core'[m])
<1>1. PICK n \in Honest : Advances(n, World')
  <2>1. \A j : ~ Restart(j)
    BY DEF Restart, TypeOK
  <2> QED  BY <2>1, SystemStep
<1>2. PICK k \in Honest : Moves(k)
  <2>1. \A j : ~ Restart(j)
    BY DEF Restart, TypeOK
  <2> QED  BY <2>1, HonestStep
<1>3. /\ NodeStep(core[n], core'[n], World')
      /\ \A j \in Honest \ {n} : core'[j] = core[j]
  BY <1>1 DEF Advances, TypeOK
<1>4. /\ VotesStep(core[k], core'[k])
      /\ \A j \in Honest \ {k} : core'[j] = core[j]
  BY <1>2 DEF Moves, Step, TypeOK
<1> QED  BY <1>3, <1>4

\* What a node remembers of its votes, timeouts and proposals.
MemoryInv ==
  /\ VoteInv
  /\ \A n \in Honest : CoverHolds(core[n]) /\ ProposalsHold(core[n])

LEMMA MemoryInit == Init => MemoryInv
<1> SUFFICES ASSUME Init, NEW n \in Honest
             PROVE  CoverHolds(core[n]) /\ ProposalsHold(core[n])
  BY InitNode DEF MemoryInv, VoteInv
<1> DEFINE c == boot_fields({}, InitBatches, NothingSent)
<1>1. core[n] = propose_if_leader(n, c, NoTC)
  BY DEF Init, boot
<1>2. /\ c.voted = {} /\ c.timed_out = {} /\ c.proposed = {}
      /\ c.makes = <<>> /\ c.round = 1
      /\ c = boot_fields({}, InitBatches, NothingSent)
  BY DEF boot_fields, NothingSent
<1> HIDE DEF c
<1>3. \/ core[n] = c
      \/ core[n] = [c EXCEPT !.makes =
                      Append(@, [round |-> c.round, qc |-> c.high_qc, tc |-> NoTC])]
  BY <1>1 DEF propose_if_leader
<1>4. /\ core[n].voted = {} /\ core[n].timed_out = {} /\ core[n].proposed = {}
      /\ core[n].round = 1
      /\ \/ core[n].makes = <<>>
         \/ core[n].makes = <<[round |-> 1, qc |-> c.high_qc, tc |-> NoTC]>>
  BY <1>2, <1>3 DEF boot_fields
<1>5. CoverHolds(core[n])
  BY <1>4 DEF CoverHolds
<1>6. ASSUME NEW i \in 1..Len(core[n].makes) PROVE i = 1 /\ core[n].makes[i].round = 1
  <2> DEFINE make == [round |-> 1, qc |-> c.high_qc, tc |-> NoTC]
  <2>1. make.round = 1
    OBVIOUS
  <2> HIDE DEF make
  <2>2. Len(<<make>>) = 1 /\ <<make>>[1] = make
    OBVIOUS
  <2>3. core[n].makes # <<>>
    OBVIOUS
  <2>4. core[n].makes = <<make>>
    BY <1>4, <2>3 DEF make
  <2> QED  BY <2>1, <2>2, <2>4
<1>7. ProposalsHold(core[n])
  BY <1>4, <1>6 DEF ProposalsHold
<1> QED  BY <1>5, <1>7

LEMMA MemoryNext ==
  ASSUME MaxRestarts = 0
  PROVE  TypeOK /\ NodeInv /\ MemoryInv /\ [Next]_vars => MemoryInv'
<1> SUFFICES ASSUME TypeOK, NodeInv, MemoryInv, [Next]_vars PROVE MemoryInv'
  OBVIOUS
<1>1. TypeOK'
  BY TypeStep
<1>2. VoteInv'
  BY VoteStep DEF MemoryInv
<1>3. ASSUME NEW m \in Honest PROVE CoverHolds(core'[m]) /\ ProposalsHold(core'[m])
  <2>1. /\ core[m] \in CoreState /\ core'[m] \in CoreState
        /\ VotesHold(core[m]) /\ CoverHolds(core[m]) /\ ProposalsHold(core[m])
    BY <1>1 DEF TypeOK, MemoryInv, VoteInv
  <2>2. \/ core'[m] = core[m]
        \/ /\ NodeStep(core[m], core'[m], World')
           /\ VotesStep(core[m], core'[m])
    BY <1>1, PlainStep DEF vars
  <2> QED  BY <2>1, <2>2, CoverStep, ProposalsStep
<1> QED  BY <1>2, <1>3 DEF MemoryInv

\* core.rs, local_timeout_round: without restarts a timeout reports a QC at least
\* as high as that of any block its signer voted for up to that round.
THEOREM TimeoutsCoverVotes ==
  ASSUME MaxRestarts = 0
  PROVE  Spec => []TimeoutCoversVotes
<1>1. MemoryInv => TimeoutCoversVotes
  BY DEF MemoryInv, CoverHolds, TimeoutCoversVotes
<1>2. TypeOK /\ NodeInv /\ MemoryInv /\ [Next]_vars => MemoryInv'
  BY MemoryNext
<1> QED  BY <1>1, <1>2, TypeInit, TypeStep, NodeInit, NodeNext, MemoryInit, PTL DEF Spec

\* Core::generate_proposal and Proposer::make_block: without restarts no honest
\* leader signs two blocks of one round.
THEOREM NeverProposesTwice ==
  ASSUME MaxRestarts = 0
  PROVE  Spec => []OneProposalPerRound
<1>1. MemoryInv => OneProposalPerRound
  BY DEF MemoryInv, ProposalsHold, OneProposalPerRound
<1>2. TypeOK /\ NodeInv /\ MemoryInv /\ [Next]_vars => MemoryInv'
  BY MemoryNext
<1> QED  BY <1>1, <1>2, TypeInit, TypeStep, NodeInit, NodeNext, MemoryInit, PTL DEF Spec

-----------------------------------------------------------------------------
(* Safety.                                                                 *)

\* commit and the safety rules of make_vote: once a block heads a 2-chain, every
\* certified block of its round or a later one descends from it, as long as
\* the faulty authorities are within the bound and no node forgets its votes.
THEOREM CommittedStaysLocked ==
  ASSUME MaxRestarts = 0, FaultBound
  PROVE  Spec => []CommittedLocked
<1>1. TypeOK /\ NodeInv /\ MemoryInv => CommittedLocked
  <2>1. MemoryInv => OneVotePerRound /\ TimeoutCoversVotes
    BY DEF MemoryInv, VoteInv, VotesHold, CoverHolds, OneVotePerRound, TimeoutCoversVotes
  <2> QED  BY <2>1, Locked
<1>2. TypeOK /\ NodeInv /\ MemoryInv /\ [Next]_vars => MemoryInv'
  BY MemoryNext
<1> QED  BY <1>1, <1>2, TypeInit, TypeStep, NodeInit, NodeNext, MemoryInit, PTL DEF Spec

-----------------------------------------------------------------------------
(* The delivered chain.                                                    *)

\* The ancestors of a block are its prefixes, each the parent of the next.
LEMMA AncestorsArePrefixes ==
  ASSUME NEW b \in Block, NEW i \in 0..Len(b)
  PROVE  /\ SubSeq(b, 1, i) \in Block
         /\ i = 0 => SubSeq(b, 1, i) = Genesis
         /\ i > 0 => /\ SubSeq(b, 1, i) # Genesis
                     /\ i - 1 \in 0..Len(b)
                     /\ Parent(SubSeq(b, 1, i)) = SubSeq(b, 1, i - 1)
<1> DEFINE a == SubSeq(b, 1, i)
<1>1. b \in Seq(Entry) /\ Len(b) \in Nat /\ a \in Block
  BY BlockTypes
<1>2. a \in Seq(Entry) /\ Len(a) = i
  BY <1>1
<1>3. i = 0 => a = Genesis
  BY <1>1 DEF Genesis
<1>4. ASSUME i > 0 PROVE a # Genesis /\ Parent(a) = SubSeq(b, 1, i - 1) /\ i - 1 \in 0..Len(b)
  <2>1. a # Genesis
    <3> HIDE DEF a
    <3> QED  BY <1>2, <1>4 DEF Genesis
  <2>2. Parent(a) = SubSeq(a, 1, i - 1)
    <3> HIDE DEF a
    <3> QED  BY <1>1, <1>2, <2>1, BlockTypes
  <2>3. SubSeq(a, 1, i - 1) = SubSeq(b, 1, i - 1) /\ i - 1 \in 0..Len(b)
    BY <1>1, <1>2, <1>4
  <2> QED  BY <2>1, <2>2, <2>3
<1> QED  BY <1>1, <1>3, <1>4

\* Certified blocks have certified parents of lower rounds, and descend from
\* every head of a 2-chain of a round that is not above theirs.
Chained(w) ==
  /\ w.qcs \subseteq Block
  /\ \A b \in w.qcs \ {Genesis} : /\ Parent(b) \in w.qcs
                                  /\ RoundOf(Parent(b)) < RoundOf(b)
  /\ \A head \in Heads(w.qcs), b \in w.qcs :
       RoundOf(b) >= RoundOf(head) => Extends(b, head)

\* So all ancestors of a certified block are certified, with lower rounds.
LEMMA ChainRounds ==
  ASSUME NEW w, Chained(w), NEW b \in w.qcs, NEW i \in 0..Len(b)
  PROVE  /\ SubSeq(b, 1, i) \in w.qcs
         /\ i < Len(b) => RoundOf(SubSeq(b, 1, i)) < RoundOf(b)
<1> DEFINE Good(k) == LET a == SubSeq(b, 1, Len(b) - k)
                      IN a \in w.qcs /\ (k > 0 => RoundOf(a) < RoundOf(b))
           Bad == {k \in 0..Len(b) : ~ Good(k)}
<1>1. b \in Block /\ Len(b) \in Nat /\ b \in Seq(Entry)
  BY BlockTypes DEF Chained
<1>2. SUFFICES ASSUME Bad # {} PROVE FALSE
  <2>1. Len(b) - i \in 0..Len(b) /\ Len(b) - (Len(b) - i) = i /\ (i < Len(b) => Len(b) - i > 0)
    BY <1>1
  <2>2. Good(Len(b) - i)
    BY <1>2, <2>1
  <2> QED  BY <2>1, <2>2
<1>3. PICK k \in Bad : \A j \in Bad : k <= j
  <2>1. Bad \subseteq Nat
    BY <1>1
  <2> HIDE DEF Bad
  <2> QED  BY <1>2, <2>1, LeastNatural
<1>4. k \in 0..Len(b) /\ ~ Good(k)
  OBVIOUS
<1>5. k # 0
  <2>1. SUFFICES ASSUME k = 0 PROVE FALSE
    OBVIOUS
  <2>2. SubSeq(b, 1, Len(b) - k) = b /\ ~ (k > 0)
    BY <1>1, <2>1
  <2>3. Good(k)
    BY <2>2
  <2> QED  BY <1>4, <2>3
<1>6. k - 1 \in 0..Len(b) /\ k - 1 \notin Bad
  <2>1. k - 1 \in 0..Len(b) /\ ~ (k <= k - 1)
    BY <1>1, <1>4, <1>5
  <2> QED  BY <1>3, <2>1
<1>7. Good(k - 1)
  BY <1>6
<1> DEFINE j == Len(b) - (k - 1)
           a == SubSeq(b, 1, j)
<1>8. j \in 0..Len(b) /\ j > 0 /\ j - 1 = Len(b) - k
  BY <1>1, <1>4, <1>5
<1>9. a \in w.qcs /\ (k - 1 > 0 => RoundOf(a) < RoundOf(b))
  BY <1>7
<1> HIDE DEF j
<1>10. a \in Block /\ a # Genesis /\ Parent(a) = SubSeq(b, 1, Len(b) - k) /\ Parent(a) \in Block
  BY <1>1, <1>8, AncestorsArePrefixes, BlockTypes
<1>11. k - 1 = 0 => a = b
  BY <1>1 DEF j
<1> HIDE DEF a
<1>12. Parent(a) \in w.qcs /\ RoundOf(Parent(a)) < RoundOf(a)
  BY <1>9, <1>10 DEF Chained
<1>13. RoundOf(a) <= RoundOf(b) /\ RoundOf(a) \in Nat /\ RoundOf(b) \in Nat /\ RoundOf(Parent(a)) \in Nat
  <2>1. RoundOf(a) \in Nat /\ RoundOf(b) \in Nat /\ RoundOf(Parent(a)) \in Nat
    BY <1>1, <1>10, BlockTypes
  <2>2. k - 1 = 0 \/ k - 1 > 0
    BY <1>4, <1>5
  <2> QED  BY <1>9, <1>11, <2>1, <2>2
<1>14. Good(k)
  BY <1>10, <1>12, <1>13
<1> QED  BY <1>4, <1>14

\* In a safe state the certified blocks are so chained.
LEMMA WorldChained ==
  ASSUME FaultBound
  PROVE  TypeOK /\ NodeInv /\ MemoryInv => Chained(World)
<1> SUFFICES ASSUME TypeOK, NodeInv, MemoryInv PROVE Chained(World)
  OBVIOUS
<1>1. World.qcs = CertifiedBlocks /\ Committed = Heads(World.qcs)
  BY WorldParts DEF Committed, Heads
<1>2. CommittedLocked
  BY Locked DEF MemoryInv, VoteInv, VotesHold, CoverHolds, OneVotePerRound, TimeoutCoversVotes
<1>3. \A b \in CertifiedBlocks \ {Genesis} : VoteRule(World, b)
  BY CertifiedByRule DEF CertifiedBlocks
<1> QED  BY <1>1, <1>2, <1>3 DEF Chained, CommittedLocked, VoteRule, CertifiedBlocks

\* The block committed last is there, and with a block its parent.
ChainHolds(c, w) ==
  /\ c.last_committed_round > 0 =>
       \E head \in Heads(w.qcs) \intersect Range(c.delivered) :
         RoundOf(head) = c.last_committed_round
  /\ \A b \in Range(c.delivered) : Parent(b) = Genesis \/ Parent(b) \in Range(c.delivered)

\* Where a commit walk stops, the chain delivered before begins: the parent of
\* the block it stops at is genesis or was delivered.
LEMMA WalkMeetsChain ==
  ASSUME NEW c \in CoreState, NEW w, Chained(w), ChainHolds(c, w),
         NEW head \in w.qcs, c.last_committed_round < RoundOf(head),
         WalkEnd(c, head) > 0
  PROVE  SubSeq(head, 1, WalkEnd(c, head) - 1) \in Range(c.delivered) \union {Genesis}
<1> DEFINE e == WalkEnd(c, head)
           Prefix(i) == SubSeq(head, 1, i)
           lcr == c.last_committed_round
<1>1. head \in Block /\ Len(head) \in Nat /\ RoundOf(head) \in Nat /\ lcr \in Nat
  BY BlockTypes DEF Chained, CoreState
<1>2. /\ e \in 1..Len(head) /\ e - 1 \in 0..Len(head) /\ RoundOf(Prefix(e)) <= lcr + 1
      /\ \A i \in 0..Len(head) : RoundOf(Prefix(i)) <= lcr + 1 => i <= e
  BY <1>1, WalkEndType
<1>3. /\ \A i \in 0..Len(head) : Prefix(i) \in w.qcs /\ Prefix(i) \in Block /\ RoundOf(Prefix(i)) \in Nat
      /\ Prefix(0) = Genesis
      /\ \A i \in 0..Len(head) : i > 0 => Prefix(i) # Genesis /\ Parent(Prefix(i)) = Prefix(i - 1)
  <2>1. 0 \in 0..Len(head)
    BY <1>1
  <2> QED  BY <1>1, <2>1, ChainRounds, AncestorsArePrefixes, BlockTypes
<1>4. ASSUME NEW i \in 0..Len(head), NEW j \in 0..Len(head), i < j
      PROVE  RoundOf(Prefix(i)) < RoundOf(Prefix(j))
  <2>1. head \in Seq(Entry)
    BY <1>1, BlockTypes
  <2>2. Len(Prefix(j)) = j /\ SubSeq(Prefix(j), 1, i) = Prefix(i) /\ i \in 0..j
    BY <1>1, <1>4, <2>1
  <2>3. Prefix(j) \in w.qcs
    BY <1>3
  <2> HIDE DEF Prefix
  <2> QED  BY <1>4, <2>2, <2>3, ChainRounds
<1> HIDE DEF e, Prefix
<1>5. CASE lcr = 0
  <2>1. RoundOf(Prefix(e - 1)) < RoundOf(Prefix(e)) /\ e \in 0..Len(head)
    <3>1. e - 1 < e /\ e \in 0..Len(head)
      BY <1>1, <1>2
    <3> QED  BY <1>2, <1>4, <3>1
  <2>2. RoundOf(Prefix(e - 1)) = 0
    BY <1>2, <1>3, <1>5, <2>1
  <2>3. e - 1 = 0
    <3>1. SUFFICES ASSUME e - 1 # 0 PROVE FALSE
      OBVIOUS
    <3>2. 0 \in 0..Len(head) /\ 0 < e - 1
      BY <1>1, <1>2, <3>1
    <3>3. RoundOf(Prefix(0)) < RoundOf(Prefix(e - 1)) /\ RoundOf(Prefix(0)) \in Nat
      BY <1>2, <1>3, <1>4, <3>2
    <3> QED  BY <2>2, <3>3
  <2> QED  BY <1>3, <2>3 DEF Prefix, e
<1>6. CASE lcr > 0
  <2>1. PICK last \in Heads(w.qcs) \intersect Range(c.delivered) : RoundOf(last) = lcr
    BY <1>6 DEF ChainHolds
  <2>2. Extends(head, last)
    BY <1>1, <2>1 DEF Chained
  <2>3. last \in Block
    BY <2>1, BlockTypes DEF Heads, Chained
  <2> DEFINE l == Len(last)
  <2>4. l \in 0..Len(head) /\ last = Prefix(l)
    <3>1. last \in Seq(Entry) /\ l \in Nat /\ head \in Seq(Entry)
      BY <1>1, <2>3, BlockTypes
    <3>2. l <= Len(head) /\ SubSeq(last, 1, l) = SubSeq(head, 1, l)
      BY <2>2 DEF Extends, IsPrefix
    <3>3. SubSeq(last, 1, l) = last
      BY <3>1
    <3> QED  BY <1>1, <3>1, <3>2, <3>3 DEF Prefix
  <2> HIDE DEF l
  <2>5. l <= e /\ e \in 0..Len(head)
    BY <1>1, <1>2, <2>1, <2>4
  <2>6. CASE l = e
    <3>1. Parent(last) = Genesis \/ Parent(last) \in Range(c.delivered)
      BY <2>1 DEF ChainHolds
    <3>2. Parent(last) = Prefix(e - 1)
      BY <1>2, <1>3, <2>4, <2>5, <2>6
    <3> QED  BY <3>1, <3>2 DEF Prefix, e
  <2>7. CASE l # e
    <3>1. e - 1 < e /\ RoundOf(Prefix(e - 1)) < RoundOf(Prefix(e))
      BY <1>2, <1>4, <2>5
    <3>2. RoundOf(Prefix(e - 1)) <= lcr
      BY <1>1, <1>2, <1>3, <2>5, <3>1
    <3>3. ~ (l < e - 1)
      <4>1. SUFFICES ASSUME l < e - 1 PROVE FALSE
        OBVIOUS
      <4>2. RoundOf(Prefix(l)) < RoundOf(Prefix(e - 1))
        BY <1>2, <1>4, <2>4, <4>1
      <4>3. RoundOf(Prefix(l)) = lcr
        BY <2>1, <2>4
      <4>4. RoundOf(Prefix(e - 1)) \in Nat
        BY <1>2, <1>3
      <4> QED  BY <1>1, <3>2, <4>2, <4>3, <4>4
    <3>4. l = e - 1
      BY <1>1, <1>2, <2>4, <2>5, <2>7, <3>3
    <3> QED  BY <2>1, <2>4, <3>4 DEF Prefix, e
  <2> QED  BY <2>6, <2>7
<1> QED  BY <1>1, <1>5, <1>6

\* A step that commits a chain joins it to the one delivered before.
LEMMA ChainStep ==
  ASSUME NEW c \in CoreState, NEW d \in CoreState, NEW w, Chained(w), ChainHolds(c, w),
         CommitStep(c, d, w)
  PROVE  ChainHolds(d, w)
<1>1. CASE d.delivered = c.delivered /\ d.last_committed_round = c.last_committed_round
  BY <1>1 DEF ChainHolds
<1>2. CASE \E head \in Heads(w.qcs) :
             /\ c.last_committed_round < RoundOf(head)
             /\ d.last_committed_round = RoundOf(head)
             /\ d.delivered = c.delivered \o Walk(c, head)
  <2>1. PICK head \in Heads(w.qcs) :
          /\ c.last_committed_round < RoundOf(head)
          /\ d.last_committed_round = RoundOf(head)
          /\ d.delivered = c.delivered \o Walk(c, head)
    BY <1>2
  <2>2. head \in w.qcs /\ head \in Block
    BY <2>1 DEF Heads, Chained
  <2> DEFINE e == WalkEnd(c, head)
             walked == {SubSeq(head, 1, i) : i \in e..Len(head)}
  <2>3. Range(d.delivered) = Range(c.delivered) \union walked
    <3>1. Walk(c, head) \in Seq(Block) /\ c.delivered \in Seq(Block)
      BY <2>2, WalkType DEF CoreState
    <3>2. Range(Walk(c, head)) = walked
      BY <2>2, WalkRange
    <3> HIDE DEF walked
    <3> QED  BY <2>1, <3>1, <3>2, RangeOfConcat
  <2>4. e \in 0..Len(head) /\ Len(head) \in Nat /\ head \in Seq(Entry)
    BY <2>2, WalkEndType, BlockTypes
  <2>5. e > 0 => SubSeq(head, 1, e - 1) \in Range(c.delivered) \union {Genesis}
    BY <2>1, <2>2, WalkMeetsChain
  <2> HIDE DEF e
  <2>6. head \in walked
    <3>1. head = SubSeq(head, 1, Len(head)) /\ Len(head) \in e..Len(head)
      BY <2>4
    <3> QED  BY <3>1
  <2>7. ASSUME NEW i \in e..Len(head)
        PROVE  Parent(SubSeq(head, 1, i)) = Genesis \/ Parent(SubSeq(head, 1, i)) \in Range(d.delivered)
    <3>1. i \in 0..Len(head)
      BY <2>4
    <3>2. CASE i = 0
      BY <2>2, <3>1, <3>2, AncestorsArePrefixes, GenesisBlock
    <3>3. CASE i > 0 /\ i = e
      <4>1. Parent(SubSeq(head, 1, i)) = SubSeq(head, 1, i - 1)
        BY <2>2, <3>1, <3>3, AncestorsArePrefixes
      <4> QED  BY <2>3, <2>5, <3>3, <4>1
    <3>4. CASE i > 0 /\ i # e
      <4>1. Parent(SubSeq(head, 1, i)) = SubSeq(head, 1, i - 1)
        BY <2>2, <3>1, <3>4, AncestorsArePrefixes
      <4>2. i - 1 \in e..Len(head)
        BY <2>4, <3>4
      <4>3. SubSeq(head, 1, i - 1) \in walked
        BY <4>2
      <4> QED  BY <2>3, <4>1, <4>3
    <3> QED  BY <3>1, <3>2, <3>3, <3>4
  <2>8. ASSUME NEW b \in Range(d.delivered)
        PROVE  Parent(b) = Genesis \/ Parent(b) \in Range(d.delivered)
    <3>1. CASE b \in Range(c.delivered)
      BY <2>3, <3>1 DEF ChainHolds
    <3>2. CASE b \in walked
      BY <2>7, <3>2
    <3> QED  BY <2>3, <3>1, <3>2
  <2>9. head \in Heads(w.qcs) \intersect Range(d.delivered)
    BY <2>1, <2>3, <2>6
  <2> HIDE DEF walked
  <2> QED  BY <2>1, <2>8, <2>9 DEF ChainHolds
<1> QED  BY <1>1, <1>2 DEF CommitStep

\* Every node delivers one unbroken chain.
ChainInv == \A n \in Honest : ChainHolds(core[n], World)

LEMMA ChainInit == Init => ChainInv
<1> SUFFICES ASSUME Init, NEW n \in Honest PROVE ChainHolds(core[n], World)
  BY DEF ChainInv
<1> DEFINE c == boot_fields({}, InitBatches, NothingSent)
<1>1. core[n] = boot(n, {}, InitBatches, NothingSent)
  BY DEF Init
<1>2. /\ InitBatches \in SUBSET Payload /\ {} \in SUBSET Block /\ NothingSent \in SentType
  BY BoundsAssumption DEF NothingSent, SentType
<1>3. Kept(c, core[n])
  BY <1>1, <1>2, Boot
<1>4. c.delivered = <<>> /\ c.last_committed_round = 0
  BY DEF boot_fields, NothingSent
<1>5. core[n].delivered = <<>> /\ core[n].last_committed_round = 0
  BY <1>3, <1>4 DEF Kept
<1> QED  BY <1>5 DEF ChainHolds, Range

LEMMA ChainNext ==
  ASSUME MaxRestarts = 0, FaultBound
  PROVE  TypeOK /\ NodeInv /\ MemoryInv /\ ChainInv /\ [Next]_vars => ChainInv'
<1>1. TypeOK' /\ NodeInv' /\ MemoryInv' => Chained(World')
  <2>1. TypeOK /\ NodeInv /\ MemoryInv => Chained(World)
    BY WorldChained
  <2>2. TypeOK' /\ NodeInv' /\ MemoryInv' => Chained(World)'
    BY <2>1, PTL
  <2> QED  BY <2>2
<1> SUFFICES ASSUME TypeOK, NodeInv, MemoryInv, ChainInv, [Next]_vars PROVE ChainInv'
  OBVIOUS
<1>2. TypeOK' /\ NodeInv' /\ MemoryInv'
  BY TypeStep, NodeNext, MemoryNext
<1>3. Widens(World, World')
  BY <1>2, WorldWidens
<1>4. ASSUME NEW m \in Honest PROVE ChainHolds(core'[m], World')
  <2>1. core[m] \in CoreState /\ core'[m] \in CoreState /\ ChainHolds(core[m], World)
    BY <1>2 DEF TypeOK, ChainInv
  <2>2. Heads(World.qcs) \subseteq Heads(World'.qcs)
    BY <1>3 DEF Widens, Heads
  <2>3. ChainHolds(core[m], World')
    BY <2>1, <2>2 DEF ChainHolds
  <2>4. \/ core'[m] = core[m]
        \/ NodeStep(core[m], core'[m], World')
    BY <1>2, PlainStep DEF vars
  <2> QED  BY <1>1, <1>2, <2>1, <2>3, <2>4, ChainStep DEF NodeStep
<1> QED  BY <1>4 DEF ChainInv

\* core.rs:123, "Ensure we commit the entire chain": without restarts and
\* within the fault bound, the application gets every ancestor of a block it
\* gets.
THEOREM EntireChainAlwaysDelivered ==
  ASSUME MaxRestarts = 0, FaultBound
  PROVE  Spec => []EntireChainDelivered
<1>1. ChainInv => EntireChainDelivered
  BY DEF ChainInv, ChainHolds, EntireChainDelivered, Delivered
<1>2. TypeOK /\ NodeInv /\ MemoryInv /\ [Next]_vars => MemoryInv'
  BY MemoryNext
<1>3. TypeOK /\ NodeInv /\ MemoryInv /\ ChainInv /\ [Next]_vars => ChainInv'
  BY ChainNext
<1> QED  BY <1>1, <1>2, <1>3, TypeInit, TypeStep, NodeInit, NodeNext, MemoryInit, ChainInit,
            PTL DEF Spec

-----------------------------------------------------------------------------
(* Agreement.                                                              *)

\* Two ancestors of one block lie on one branch.
LEMMA AncestorsOnOneBranch ==
  ASSUME NEW b \in Block, NEW a1 \in Block, NEW a2 \in Block, Extends(b, a1), Extends(b, a2)
  PROVE  Extends(a1, a2) \/ Extends(a2, a1)
<1>1. /\ a1 \in Seq(Entry) /\ Len(a1) \in Nat /\ a2 \in Seq(Entry) /\ Len(a2) \in Nat
      /\ b \in Seq(Entry) /\ Len(b) \in Nat
  BY BlockTypes
<1>2. /\ Len(a1) <= Len(b) /\ \A i \in 1..Len(a1) : a1[i] = b[i]
      /\ Len(a2) <= Len(b) /\ \A i \in 1..Len(a2) : a2[i] = b[i]
  <2>1. ASSUME NEW a \in Seq(Entry), Extends(b, a)
        PROVE  Len(a) <= Len(b) /\ \A i \in 1..Len(a) : a[i] = b[i]
    <3>1. Len(a) <= Len(b) /\ SubSeq(a, 1, Len(a)) = SubSeq(b, 1, Len(a))
      BY <2>1 DEF Extends, IsPrefix
    <3>2. ASSUME NEW i \in 1..Len(a) PROVE a[i] = b[i]
      <4>1. SubSeq(a, 1, Len(a))[i] = a[i] /\ SubSeq(b, 1, Len(a))[i] = b[i]
        BY <1>1, <3>1
      <4> QED  BY <3>1, <4>1
    <3> QED  BY <3>1, <3>2
  <2> QED  BY <1>1, <2>1
<1>3. ASSUME NEW a \in Seq(Entry), NEW h \in Seq(Entry), Len(a) <= Len(h),
             \A i \in 1..Len(a) : a[i] = h[i]
      PROVE  Extends(h, a)
  <2>1. SubSeq(a, 1, Len(a)) = SubSeq(h, 1, Len(a))
    BY <1>3
  <2> QED  BY <1>3, <2>1 DEF Extends, IsPrefix
<1>4. CASE Len(a1) <= Len(a2)
  <2>1. \A i \in 1..Len(a1) : a1[i] = a2[i]
    BY <1>1, <1>2, <1>4
  <2> QED  BY <1>1, <1>3, <1>4, <2>1
<1>5. CASE Len(a2) <= Len(a1)
  <2>1. \A i \in 1..Len(a2) : a2[i] = a1[i]
    BY <1>1, <1>2, <1>5
  <2> QED  BY <1>1, <1>3, <1>5, <2>1
<1> QED  BY <1>1, <1>4, <1>5

\* What descends from a block descends from its ancestors.
LEMMA ExtendsTransitive ==
  ASSUME NEW a \in Block, NEW b \in Block, NEW h \in Block, Extends(h, b), Extends(b, a)
  PROVE  Extends(h, a)
<1>1. /\ a \in Seq(Entry) /\ Len(a) \in Nat /\ b \in Seq(Entry) /\ Len(b) \in Nat
      /\ h \in Seq(Entry) /\ Len(h) \in Nat
  BY BlockTypes
<1>2. /\ Len(a) <= Len(b) /\ SubSeq(a, 1, Len(a)) = SubSeq(b, 1, Len(a))
      /\ Len(b) <= Len(h) /\ SubSeq(b, 1, Len(b)) = SubSeq(h, 1, Len(b))
  BY DEF Extends, IsPrefix
<1>3. ASSUME NEW i \in 1..Len(a) PROVE b[i] = h[i]
  <2>1. SubSeq(b, 1, Len(b))[i] = b[i] /\ SubSeq(h, 1, Len(b))[i] = h[i]
    BY <1>1, <1>2
  <2> QED  BY <1>2, <2>1
<1>4. SubSeq(b, 1, Len(a)) = SubSeq(h, 1, Len(a))
  BY <1>1, <1>2, <1>3
<1> QED  BY <1>1, <1>2, <1>4 DEF Extends, IsPrefix

\* What NodesAgree and the refinement below rest on.
LEMMA OneBranch ==
  ASSUME FaultBound
  PROVE  TypeOK /\ NodeInv /\ MemoryInv => Agreement
<1> SUFFICES ASSUME TypeOK, NodeInv, MemoryInv, NEW n \in Honest, NEW m \in Honest,
                    NEW b1 \in Delivered(n), NEW b2 \in Delivered(m)
             PROVE  Extends(b1, b2) \/ Extends(b2, b1)
  BY DEF Agreement
<1>1. Chained(World)
  BY WorldChained
<1>2. ASSUME NEW k \in Honest, NEW b \in Delivered(k)
      PROVE  b \in Block /\ \E head \in Heads(World.qcs) : Extends(head, b)
  <2>1. core[k].delivered \in Seq(Block)
    BY DEF TypeOK, CoreState
  <2>2. b \in Block
    BY <2>1 DEF Delivered, Range
  <2> QED  BY <2>2 DEF NodeInv, NodeHolds, SentHolds, Delivered
<1>3. PICK h1 \in Heads(World.qcs) : Extends(h1, b1)
  BY <1>2
<1>4. PICK h2 \in Heads(World.qcs) : Extends(h2, b2)
  BY <1>2
<1>5. /\ h1 \in World.qcs /\ h2 \in World.qcs /\ h1 \in Block /\ h2 \in Block
      /\ RoundOf(h1) \in Nat /\ RoundOf(h2) \in Nat
  BY <1>1, BlockTypes DEF Heads, Chained
<1>6. b1 \in Block /\ b2 \in Block
  BY <1>2
<1>7. CASE RoundOf(h1) <= RoundOf(h2)
  <2>1. Extends(h2, h1)
    BY <1>1, <1>5, <1>7 DEF Chained
  <2>2. Extends(h2, b1)
    BY <1>3, <1>5, <1>6, <2>1, ExtendsTransitive
  <2> QED  BY <1>4, <1>5, <1>6, <2>2, AncestorsOnOneBranch
<1>8. CASE RoundOf(h2) <= RoundOf(h1)
  <2>1. Extends(h1, h2)
    BY <1>1, <1>5, <1>8 DEF Chained
  <2>2. Extends(h1, b2)
    BY <1>4, <1>5, <1>6, <2>1, ExtendsTransitive
  <2> QED  BY <1>3, <1>5, <1>6, <2>2, AncestorsOnOneBranch
<1> QED  BY <1>5, <1>7, <1>8

\* The promise of the protocol: without restarts and within the fault bound no
\* two honest nodes, and no node twice, deliver blocks of different branches.
THEOREM NodesAgree ==
  ASSUME MaxRestarts = 0, FaultBound
  PROVE  Spec => []Agreement
<1>1. TypeOK /\ NodeInv /\ MemoryInv => Agreement
  BY OneBranch
<1>2. TypeOK /\ NodeInv /\ MemoryInv /\ [Next]_vars => MemoryInv'
  BY MemoryNext
<1> QED  BY <1>1, <1>2, TypeInit, TypeStep, NodeInit, NodeNext, MemoryInit, PTL DEF Spec

-----------------------------------------------------------------------------
(* The consensus implements the ledger.                                    *)

\* The blocks of the chain that leads to b, as in Ledger.
ChainTo(b) == {SubSeq(b, 1, i) : i \in 1..Len(b)}

\* They are the ancestors of b and b itself, genesis left out.
LEMMA ChainToAncestors ==
  ASSUME NEW b \in Block, NEW a \in Block
  PROVE  a \in ChainTo(b) <=> a # Genesis /\ Extends(b, a)
<1>1. /\ a \in Seq(Entry) /\ Len(a) \in Nat /\ b \in Seq(Entry) /\ Len(b) \in Nat
  BY BlockTypes
<1>2. ASSUME a \in ChainTo(b) PROVE a # Genesis /\ Extends(b, a)
  <2>1. PICK i \in 1..Len(b) : a = SubSeq(b, 1, i)
    BY <1>2 DEF ChainTo
  <2>2. i \in 0..Len(b) /\ i > 0 /\ i <= Len(b)
    BY <1>1, <2>1
  <2>3. a # Genesis
    BY <2>1, <2>2, AncestorsArePrefixes
  <2>4. Len(a) = i
    BY <1>1, <2>1
  <2>5. SubSeq(a, 1, Len(a)) = a
    BY <1>1
  <2> QED  BY <2>1, <2>2, <2>3, <2>4, <2>5 DEF Extends, IsPrefix
<1>3. ASSUME a # Genesis, Extends(b, a) PROVE a \in ChainTo(b)
  <2>1. Len(a) <= Len(b) /\ SubSeq(a, 1, Len(a)) = SubSeq(b, 1, Len(a))
    BY <1>3 DEF Extends, IsPrefix
  <2>2. SubSeq(a, 1, Len(a)) = a
    BY <1>1
  <2>3. Len(a) # 0
    BY <1>1, <1>3 DEF Genesis
  <2>4. Len(a) \in 1..Len(b)
    BY <1>1, <2>1, <2>3
  <2> QED  BY <2>1, <2>2, <2>4 DEF ChainTo
<1> QED  BY <1>2, <1>3

\* The blocks of a chain are blocks.
LEMMA ChainToBlocks ==
  ASSUME NEW b \in Block
  PROVE  ChainTo(b) \subseteq Block
<1>1. ASSUME NEW i \in 1..Len(b) PROVE SubSeq(b, 1, i) \in Block
  <2>1. i \in 0..Len(b)
    BY <1>1, BlockTypes
  <2> QED  BY <2>1, AncestorsArePrefixes
<1> QED  BY <1>1 DEF ChainTo

\* A chain begins with the chains of its blocks.
LEMMA ChainToGrows ==
  ASSUME NEW b \in Block, NEW a \in Block, Extends(b, a)
  PROVE  ChainTo(a) \subseteq ChainTo(b)
<1>1. ASSUME NEW x \in ChainTo(a) PROVE x \in ChainTo(b)
  <2>1. x \in Block
    BY ChainToBlocks
  <2>2. x # Genesis /\ Extends(a, x)
    BY <2>1, ChainToAncestors
  <2>3. Extends(b, x)
    BY <2>1, <2>2, ExtendsTransitive
  <2> QED  BY <2>1, <2>2, <2>3, ChainToAncestors
<1> QED  BY <1>1

\* A node has delivered the chain to the block it committed last.
LedgerHolds(c, w) ==
  \E head \in Heads(w.qcs) \union {Genesis} :
    /\ RoundOf(head) = c.last_committed_round
    /\ Range(c.delivered) \ {Genesis} = ChainTo(head)

\* A commit delivers the chain to its head.
LEMMA LedgerStep ==
  ASSUME NEW c \in CoreState, NEW d \in CoreState, NEW w, Chained(w),
         ChainHolds(c, w), LedgerHolds(c, w), CommitStep(c, d, w)
  PROVE  /\ LedgerHolds(d, w)
         /\ \/ d.delivered = c.delivered
            \/ \E head \in Block \ {Genesis} :
                 /\ Range(d.delivered) \ {Genesis} = ChainTo(head)
                 /\ Range(c.delivered) \ {Genesis} \subseteq ChainTo(head)
<1>1. CASE d.delivered = c.delivered /\ d.last_committed_round = c.last_committed_round
  BY <1>1 DEF LedgerHolds
<1>2. CASE \E head \in Heads(w.qcs) :
             /\ c.last_committed_round < RoundOf(head)
             /\ d.last_committed_round = RoundOf(head)
             /\ d.delivered = c.delivered \o Walk(c, head)
  <2>1. PICK head \in Heads(w.qcs) :
          /\ c.last_committed_round < RoundOf(head)
          /\ d.last_committed_round = RoundOf(head)
          /\ d.delivered = c.delivered \o Walk(c, head)
    BY <1>2
  <2>2. PICK last \in Heads(w.qcs) \union {Genesis} :
          /\ RoundOf(last) = c.last_committed_round
          /\ Range(c.delivered) \ {Genesis} = ChainTo(last)
    BY DEF LedgerHolds
  <2>3. /\ head \in w.qcs /\ head \in Block /\ last \in Block
        /\ RoundOf(head) \in Nat /\ RoundOf(last) \in Nat
        /\ Len(head) \in Nat /\ head \in Seq(Entry)
    BY <2>1, <2>2, GenesisBlock, BlockTypes DEF Heads, Chained
  <2>4. Extends(head, last)
    <3>1. CASE last \in Heads(w.qcs)
      BY <2>1, <2>2, <2>3, <3>1 DEF Chained
    <3>2. CASE last = Genesis
      BY <2>3, <3>2 DEF Genesis, Extends, IsPrefix
    <3> QED  BY <2>2, <3>1, <3>2
  <2>5. head # Genesis
    <3>1. c.last_committed_round \in Nat
      BY DEF CoreState
    <3> QED  BY <2>1, <2>3, <3>1 DEF RoundOf
  <2> DEFINE e == WalkEnd(c, head)
             walked == {SubSeq(head, 1, i) : i \in e..Len(head)}
  <2>6. Range(d.delivered) = Range(c.delivered) \union walked
    <3>1. Walk(c, head) \in Seq(Block) /\ c.delivered \in Seq(Block)
      BY <2>3, WalkType DEF CoreState
    <3>2. Range(Walk(c, head)) = walked
      BY <2>3, WalkRange
    <3> HIDE DEF walked
    <3> QED  BY <2>1, <3>1, <3>2, RangeOfConcat
  <2>7. e \in 0..Len(head)
    BY <2>3, WalkEndType
  <2>8. e > 0 => SubSeq(head, 1, e - 1) \in Range(c.delivered) \union {Genesis}
    BY <2>1, <2>3, WalkMeetsChain
  <2> HIDE DEF e
  <2>9. ChainTo(last) \subseteq ChainTo(head)
    BY <2>3, <2>4, ChainToGrows
  <2>10. walked \ {Genesis} \subseteq ChainTo(head)
    <3>1. ASSUME NEW i \in e..Len(head), SubSeq(head, 1, i) # Genesis
          PROVE  SubSeq(head, 1, i) \in ChainTo(head)
      <4>1. i \in 0..Len(head)
        BY <2>3, <2>7
      <4>2. i # 0
        BY <2>3, <3>1, <4>1, AncestorsArePrefixes
      <4>3. i \in 1..Len(head)
        BY <2>3, <4>1, <4>2
      <4> QED  BY <4>3 DEF ChainTo
    <3> QED  BY <3>1
  <2>11. ChainTo(head) \subseteq walked \union ChainTo(last)
    <3>1. ASSUME NEW i \in 1..Len(head), i < e
          PROVE  SubSeq(head, 1, i) \in ChainTo(last)
      <4>1. PICK k : k = e - 1
        OBVIOUS
      <4>2. k \in 0..Len(head) /\ i \in 0..Len(head) /\ k \in 1..Len(head) /\ i <= k
        BY <2>3, <2>7, <3>1, <4>1
      <4>3. PICK a \in Block : a = SubSeq(head, 1, k)
        BY <2>3, <4>2, AncestorsArePrefixes
      <4>4. a # Genesis
        BY <2>3, <4>2, <4>3, AncestorsArePrefixes
      <4>5. a \in ChainTo(last)
        <5>1. e > 0
          BY <2>3, <2>7, <3>1
        <5>2. SubSeq(head, 1, e - 1) = a
          BY <4>1, <4>3
        <5>3. a \in Range(c.delivered) \union {Genesis}
          BY <2>8, <5>1, <5>2
        <5> QED  BY <2>2, <4>4, <5>3
      <4>6. Len(a) = k /\ SubSeq(a, 1, i) = SubSeq(head, 1, i)
        BY <2>3, <4>2, <4>3
      <4>7. i \in 1..Len(a)
        BY <3>1, <4>2, <4>6
      <4>8. SubSeq(a, 1, i) \in ChainTo(a)
        BY <4>7 DEF ChainTo
      <4>9. Extends(last, a)
        BY <2>3, <4>5, ChainToAncestors
      <4> QED  BY <2>3, <4>6, <4>8, <4>9, ChainToGrows
    <3>2. ASSUME NEW i \in 1..Len(head), ~ (i < e)
          PROVE  SubSeq(head, 1, i) \in walked
      <4>1. i \in e..Len(head)
        BY <2>3, <2>7, <3>2
      <4> QED  BY <4>1
    <3> HIDE DEF walked
    <3> QED  BY <3>1, <3>2 DEF ChainTo
  <2> HIDE DEF walked
  <2>12. Range(d.delivered) \ {Genesis} = ChainTo(head)
    <3>1. Genesis \notin ChainTo(head)
      BY <2>3, GenesisBlock, ChainToAncestors
    <3> QED  BY <2>2, <2>6, <2>9, <2>10, <2>11, <3>1
  <2>13. LedgerHolds(d, w)
    BY <2>1, <2>12 DEF LedgerHolds
  <2> QED  BY <2>2, <2>3, <2>5, <2>9, <2>12, <2>13
<1> QED  BY <1>1, <1>2 DEF CommitStep

\* Every node has delivered such a chain.
LedgerInv == \A n \in Honest : LedgerHolds(core[n], World)

LEMMA LedgerInit == Init => LedgerInv
<1> SUFFICES ASSUME Init, NEW n \in Honest PROVE LedgerHolds(core[n], World)
  BY DEF LedgerInv
<1> DEFINE c == boot_fields({}, InitBatches, NothingSent)
<1>1. core[n] = boot(n, {}, InitBatches, NothingSent)
  BY DEF Init
<1>2. /\ InitBatches \in SUBSET Payload /\ {} \in SUBSET Block /\ NothingSent \in SentType
  BY BoundsAssumption DEF NothingSent, SentType
<1>3. Kept(c, core[n])
  BY <1>1, <1>2, Boot
<1>4. c.delivered = <<>> /\ c.last_committed_round = 0
  BY DEF boot_fields, NothingSent
<1>5. core[n].delivered = <<>> /\ core[n].last_committed_round = 0
  BY <1>3, <1>4 DEF Kept
<1>6. Range(core[n].delivered) \ {Genesis} = {}
  BY <1>5 DEF Range
<1>7. ChainTo(Genesis) = {}
  BY DEF ChainTo, Genesis
<1> QED  BY <1>5, <1>6, <1>7, GenesisBlock DEF LedgerHolds

\* What a step of the system does to the blocks a node has delivered: nothing,
\* or it completes them to the chain that leads to some head.
Completes(c, d) ==
  \/ d.delivered = c.delivered
  \/ \E head \in Block \ {Genesis} :
       /\ Range(d.delivered) \ {Genesis} = ChainTo(head)
       /\ Range(c.delivered) \ {Genesis} \subseteq ChainTo(head)

LEMMA LedgerNext ==
  ASSUME MaxRestarts = 0, FaultBound
  PROVE  TypeOK /\ NodeInv /\ MemoryInv /\ ChainInv /\ LedgerInv /\ [Next]_vars
           => LedgerInv' /\ \A m \in Honest : Completes(core[m], core'[m])
<1>1. TypeOK' /\ NodeInv' /\ MemoryInv' => Chained(World')
  <2>1. TypeOK /\ NodeInv /\ MemoryInv => Chained(World)
    BY WorldChained
  <2>2. TypeOK' /\ NodeInv' /\ MemoryInv' => Chained(World)'
    BY <2>1, PTL
  <2> QED  BY <2>2
<1> SUFFICES ASSUME TypeOK, NodeInv, MemoryInv, ChainInv, LedgerInv, [Next]_vars
             PROVE  LedgerInv' /\ \A m \in Honest : Completes(core[m], core'[m])
  OBVIOUS
<1>2. TypeOK' /\ NodeInv' /\ MemoryInv'
  BY TypeStep, NodeNext, MemoryNext
<1>3. Widens(World, World')
  BY <1>2, WorldWidens
<1>4. ASSUME NEW m \in Honest
      PROVE  LedgerHolds(core'[m], World') /\ Completes(core[m], core'[m])
  <2>1. /\ core[m] \in CoreState /\ core'[m] \in CoreState
        /\ ChainHolds(core[m], World) /\ LedgerHolds(core[m], World)
    BY <1>2 DEF TypeOK, ChainInv, LedgerInv
  <2>2. Heads(World.qcs) \subseteq Heads(World'.qcs)
    BY <1>3 DEF Widens, Heads
  <2>3. ChainHolds(core[m], World')
    BY <2>1, <2>2 DEF ChainHolds
  <2>4. LedgerHolds(core[m], World')
    BY <2>1, <2>2 DEF LedgerHolds
  <2>5. \/ core'[m] = core[m]
        \/ NodeStep(core[m], core'[m], World')
    BY <1>2, PlainStep DEF vars
  <2> QED  BY <1>1, <1>2, <2>1, <2>3, <2>4, <2>5, LedgerStep DEF NodeStep, Completes
<1> QED  BY <1>4 DEF LedgerInv

\* Without restarts a step is one of a single node.
LEMMA OneNodeSteps ==
  ASSUME MaxRestarts = 0, TypeOK, TypeOK', NodeInv, [Next]_vars,
         NEW n \in Honest, core'[n] # core[n]
  PROVE  \A m \in Honest \ {n} : core'[m] = core[m]
<1>1. Next
  BY DEF vars
<1>2. PICK k \in Honest : Advances(k, World')
  <2>1. \A j : ~ Restart(j)
    BY DEF Restart, TypeOK
  <2> QED  BY <1>1, <2>1, SystemStep
<1>3. \A j \in Honest \ {k} : core'[j] = core[j]
  BY <1>2 DEF Advances, TypeOK
<1> QED  BY <1>3

\* Of the blocks delivered one is the longest.
Longest(S) == CHOOSE b \in S : \A a \in S : Len(a) <= Len(b)

LEMMA LongestOf ==
  ASSUME NEW S, S \subseteq Block, S # {}
  PROVE  Longest(S) \in S /\ \A a \in S : Len(a) <= Len(Longest(S))
<1> DEFINE lengths == {Len(b) : b \in S}
           f == [b \in S |-> Len(b)]
<1>1. IsFiniteSet(S)
  BY BlockAssumption, FS_Subset
<1>2. IsFiniteSet(lengths)
  <2>1. f \in Surjection(S, lengths)
    BY DEF Surjection
  <2> QED  BY <1>1, <2>1, FS_Surjection
<1>3. lengths \subseteq Nat /\ lengths # {}
  BY BlockTypes
<1> HIDE DEF lengths
<1>4. Max(lengths) \in lengths /\ \A k \in lengths : k <= Max(lengths)
  BY <1>2, <1>3, MaxOfFinite
<1>5. \E b \in S : \A a \in S : Len(a) <= Len(b)
  BY <1>4 DEF lengths
<1> QED  BY <1>5 DEF Longest

\* The blocks of all applications, and genesis.
Deliveries(states) == {Genesis} \union UNION {Range(states[n].delivered) : n \in Honest}

\* What the ledger shows of the states of the nodes.
LedgerOf(states) == [n \in Honest |-> Range(states[n].delivered) \ {Genesis}]

\* A step of the nodes is a step of the ledger, or none.
LEMMA LedgerRefined ==
  ASSUME MaxRestarts = 0, FaultBound
  PROVE  TypeOK /\ NodeInv /\ MemoryInv /\ ChainInv /\ LedgerInv /\ [Next]_vars
           => [Chain!Next]_<<DeliveredChain, [n \in Honest |-> Delivered(n) \ {Genesis}]>>
<1>1. TypeOK' /\ NodeInv' /\ MemoryInv' => Agreement'
  <2>1. TypeOK /\ NodeInv /\ MemoryInv => Agreement
    BY OneBranch
  <2> QED  BY <2>1, PTL
<1> SUFFICES ASSUME TypeOK, NodeInv, MemoryInv, ChainInv, LedgerInv, [Next]_vars
             PROVE  [Chain!Next]_<<DeliveredChain, [n \in Honest |-> Delivered(n) \ {Genesis}]>>
  OBVIOUS
<1>2. TypeOK' /\ NodeInv' /\ MemoryInv' /\ Agreement'
  BY <1>1, TypeStep, NodeNext, MemoryNext
<1>3. /\ \A n \in Honest : Range(core[n].delivered) \subseteq Block
      /\ \A n \in Honest : Range(core'[n].delivered) \subseteq Block
  <2>1. \A n \in Honest : core[n].delivered \in Seq(Block) /\ core'[n].delivered \in Seq(Block)
    BY <1>2 DEF TypeOK, CoreState
  <2> QED  BY <2>1 DEF Range
<1> DEFINE last == Longest(Deliveries(core))
           new  == Longest(Deliveries(core'))
           told == LedgerOf(core)
           tells == LedgerOf(core')
<1>4. /\ DeliveredChain = last /\ DeliveredChain' = new
      /\ [n \in Honest |-> Delivered(n) \ {Genesis}] = told
      /\ [n \in Honest |-> Delivered(n) \ {Genesis}]' = tells
  BY DEF DeliveredChain, Delivered, Deliveries, Longest, LedgerOf
<1>5. /\ Deliveries(core) \subseteq Block /\ Deliveries(core') \subseteq Block
      /\ Genesis \in Deliveries(core) /\ Genesis \in Deliveries(core')
  BY <1>3, GenesisBlock DEF Deliveries
<1>6. /\ last \in Deliveries(core)
      /\ new \in Deliveries(core') /\ \A a \in Deliveries(core') : Len(a) <= Len(new)
  BY <1>5, LongestOf
<1> HIDE DEF last, new
<1>7. last \in Block /\ new \in Block /\ new \in Seq(Entry) /\ Len(new) \in Nat
  BY <1>5, <1>6, BlockTypes
<1>8. ASSUME NEW b \in Deliveries(core'), b # Genesis
      PROVE  b \in ChainTo(new)
  <2>1. b \in Block /\ Len(b) <= Len(new) /\ Len(b) \in Nat /\ b \in Seq(Entry)
    BY <1>5, <1>6, <1>8, BlockTypes
  <2>2. new # Genesis
    BY <1>7, <1>8, <2>1 DEF Genesis
  <2>3. PICK n \in Honest, m \in Honest : b \in Range(core'[n].delivered)
                                          /\ new \in Range(core'[m].delivered)
    BY <1>6, <1>8, <2>2 DEF Deliveries
  <2>4. Extends(b, new) \/ Extends(new, b)
    BY <1>2, <2>3 DEF Agreement, Delivered
  <2>5. CASE Extends(b, new)
    <3>1. Len(new) <= Len(b) /\ SubSeq(new, 1, Len(new)) = SubSeq(b, 1, Len(new))
      BY <2>5 DEF Extends, IsPrefix
    <3>2. Len(new) = Len(b)
      BY <1>7, <2>1, <3>1
    <3>3. SubSeq(new, 1, Len(new)) = new /\ SubSeq(b, 1, Len(b)) = b
      BY <1>7, <2>1
    <3>4. b = new
      BY <3>1, <3>2, <3>3
    <3> QED  BY <2>5, <1>7, <1>8, <3>4, ChainToAncestors
  <2> QED  BY <1>7, <1>8, <2>1, <2>4, <2>5, ChainToAncestors
<1>9. CASE \A m \in Honest : core'[m].delivered = core[m].delivered
  <2>1. Deliveries(core') = Deliveries(core) /\ tells = told
    BY <1>9 DEF Deliveries, LedgerOf
  <2>2. new = last
    BY <2>1 DEF new, last
  <2> QED  BY <1>4, <2>1, <2>2
<1>10. ASSUME NEW n \in Honest, core'[n].delivered # core[n].delivered
       PROVE  Chain!Next
  <2>1. PICK head \in Block \ {Genesis} :
          /\ Range(core'[n].delivered) \ {Genesis} = ChainTo(head)
          /\ Range(core[n].delivered) \ {Genesis} \subseteq ChainTo(head)
    BY <1>10, LedgerNext DEF Completes
  <2>2. \A m \in Honest \ {n} : core'[m] = core[m]
    BY <1>2, <1>10, OneNodeSteps
  <2>3. head \in ChainTo(head)
    <3>1. head \in Seq(Entry) /\ Len(head) \in Nat
      BY BlockTypes
    <3>2. Extends(head, head)
      BY <3>1 DEF Extends, IsPrefix
    <3> QED  BY <2>1, <3>2, ChainToAncestors
  <2>4. head \in Deliveries(core')
    BY <2>1, <2>3 DEF Deliveries
  <2>5. head \in ChainTo(new)
    BY <1>8, <2>1, <2>4
  <2>6. last = Genesis \/ last \in Deliveries(core')
    <3>1. CASE last # Genesis
      <4>1. PICK m \in Honest : last \in Range(core[m].delivered)
        BY <1>6, <3>1 DEF Deliveries
      <4>2. last \in Range(core'[m].delivered)
        BY <2>1, <2>2, <3>1, <4>1
      <4> QED  BY <4>2 DEF Deliveries
    <3> QED  BY <3>1
  <2>7. last = <<>> \/ last \in ChainTo(new)
    BY <1>8, <2>6 DEF Genesis
  <2>8. Chain!Grow
    BY <1>4, <1>7, <2>7 DEF Chain!Grow, Chain!BlocksOf, ChainTo
  <2>9. /\ told[n] \subseteq ChainTo(head)
        /\ tells = [told EXCEPT ![n] = ChainTo(head)]
    BY <2>1, <2>2 DEF LedgerOf
  <2> HIDE DEF told, tells
  <2>10. Chain!Deliver(n, head)
    BY <1>4, <2>8, <2>9 DEF Chain!Deliver, Chain!BlocksOf, ChainTo
  <2>11. head \in Chain!BlocksOf(DeliveredChain')
    BY <1>4, <2>5 DEF Chain!BlocksOf, ChainTo
  <2> QED  BY <2>10, <2>11 DEF Chain!Next
<1> QED  BY <1>9, <1>10

\* Core::commit and what leads to it, against Ledger: without restarts and
\* within the fault bound one chain grows, and each application is handed the
\* blocks of a beginning of it, more and more of them, and nothing else.
THEOREM ImplementsLedger ==
  ASSUME MaxRestarts = 0, FaultBound
  PROVE  Spec => IsLedger
<1>1. Init => Chain!Init
  <2> SUFFICES ASSUME Init PROVE Chain!Init
    OBVIOUS
  <2>1. ASSUME NEW n \in Honest PROVE Delivered(n) = {}
    <3>1. /\ core[n] = boot(n, {}, InitBatches, NothingSent)
          /\ InitBatches \in SUBSET Payload /\ {} \in SUBSET Block /\ NothingSent \in SentType
      BY BoundsAssumption DEF Init, NothingSent, SentType
    <3>2. Kept(boot_fields({}, InitBatches, NothingSent), core[n])
      BY <3>1, Boot
    <3>3. core[n].delivered = <<>>
      BY <3>2 DEF Kept, boot_fields, NothingSent
    <3> QED  BY <3>3 DEF Delivered, Range
  <2>2. DeliveredChain = Longest({Genesis})
    BY <2>1 DEF DeliveredChain, Longest
  <2>3. DeliveredChain = <<>>
    BY <2>2, GenesisBlock, LongestOf DEF Genesis
  <2> QED  BY <2>1, <2>3 DEF Chain!Init
<1>2. TypeOK /\ NodeInv /\ MemoryInv /\ [Next]_vars => MemoryInv'
  BY MemoryNext
<1>3. TypeOK /\ NodeInv /\ MemoryInv /\ ChainInv /\ [Next]_vars => ChainInv'
  BY ChainNext
<1>4. TypeOK /\ NodeInv /\ MemoryInv /\ ChainInv /\ LedgerInv /\ [Next]_vars => LedgerInv'
  BY LedgerNext
<1>5. TypeOK /\ NodeInv /\ MemoryInv /\ ChainInv /\ LedgerInv /\ [Next]_vars
        => [Chain!Next]_<<DeliveredChain, [n \in Honest |-> Delivered(n) \ {Genesis}]>>
  BY LedgerRefined
<1> QED  BY <1>1, <1>2, <1>3, <1>4, <1>5, TypeInit, TypeStep, NodeInit, NodeNext, MemoryInit,
            ChainInit, LedgerInit, PTL DEF Spec, IsLedger, Chain!Spec

-----------------------------------------------------------------------------
(* Progress implements Consensus: what its links carry was signed.         *)

\* Blocks do not make a node time out.
LEMMA ProcessSignsNoTimeout ==
  ASSUME NEW n \in Authority, NEW c \in CoreState, NEW p \in Proposal
  PROVE  process_block(n, c, p).timed_out = c.timed_out
<1> DEFINE w == [c EXCEPT !.pending = Enqueue(@, p)]
           a == accept_block(n, c, p)
<1>1. w.timed_out = c.timed_out
  BY DEF CoreState
<1>2. a.timed_out = c.timed_out
  BY AcceptBlock
<1>3. process_block(n, c, p) \in {w, a}
  BY DEF process_block
<1> HIDE DEF w, a
<1> QED  BY <1>1, <1>2, <1>3

LEMMA ProposalSignsNoTimeout ==
  ASSUME NEW n \in Authority, NEW c \in CoreState, NEW p \in Proposal
  PROVE  handle_proposal(n, c, p).timed_out = c.timed_out
<1> DEFINE a == process_qc(c, Parent(p.block))
           e == IF p.tc = NoTC THEN a ELSE advance_round(a, p.tc.round)
           w == [e EXCEPT !.awaiting = Enqueue(@, p)]
           x == process_block(n, e, p)
           d == handle_proposal(n, c, p)
<1>1. Parent(p.block) \in Block /\ p.tc.round \in Nat
  BY BlockTypes DEF Proposal, TC
<1>2. a \in CoreState /\ Kept(c, a)
  BY <1>1, ProcessQC
<1>3. d \in {c, w, x}
  BY DEF handle_proposal
<1> HIDE DEF a, d
<1>4. e \in CoreState /\ Kept(c, e)
  BY <1>1, <1>2, AdvanceRound, KeptTransitive
<1> HIDE DEF e
<1>5. w.timed_out = e.timed_out
  BY <1>4 DEF CoreState
<1>6. x.timed_out = e.timed_out
  BY <1>4, ProcessSignsNoTimeout
<1> HIDE DEF w, x
<1> QED  BY <1>3, <1>4, <1>5, <1>6 DEF Kept, d

\* What is left of a sequence of members of S, and what is added to it.
LEMMA SequenceParts ==
  ASSUME NEW S, NEW f \in Seq(S)
  PROVE  /\ f # <<>> => Head(f) \in S /\ Tail(f) \in Seq(S)
         /\ \A k \in 0..Len(f) : SubSeq(f, 1, k) \in Seq(S)
         /\ \A x \in S : Append(f, x) \in Seq(S)
<1>1. f # <<>> => Head(f) \in S /\ Tail(f) \in Seq(S)
  OBVIOUS
<1>2. \A k \in 0..Len(f) : SubSeq(f, 1, k) \in Seq(S)
  OBVIOUS
<1>3. \A x \in S : Append(f, x) \in Seq(S)
  OBVIOUS
<1> QED  BY <1>1, <1>2, <1>3

\* The links carry frames of F[m] to m.
Linked(links, F) ==
  /\ links = [n \in Honest |-> [m \in Peers(n) |-> links[n][m]]]
  /\ \A n \in Honest : \A m \in Peers(n) : links[n][m] \in Seq(F[m])

\* The next frame of a link is one of them, and the rest remain so.
LEMMA LinkedTail ==
  ASSUME NEW links, NEW F, Linked(links, F), NEW n \in Honest, NEW m \in Peers(n),
         links[n][m] # <<>>
  PROVE  /\ Head(links[n][m]) \in F[m]
         /\ Linked([links EXCEPT ![n][m] = Tail(@)], F)
<1> DEFINE f    == links[n][m]
           rest == [links EXCEPT ![n][m] = Tail(@)]
<1>1. f \in Seq(F[m]) /\ f # <<>>
  BY DEF Linked
<1>2. Head(f) \in F[m] /\ Tail(f) \in Seq(F[m])
  BY <1>1, SequenceParts
<1>3. ASSUME NEW k \in Honest, NEW j \in Peers(k)
      PROVE  rest[k][j] = IF k = n /\ j = m THEN Tail(f) ELSE links[k][j]
  BY DEF Linked
<1>4. rest = [k \in Honest |-> [j \in Peers(k) |-> rest[k][j]]]
  BY DEF Linked
<1>5. \A k \in Honest : \A j \in Peers(k) : rest[k][j] \in Seq(F[j])
  BY <1>2, <1>3 DEF Linked
<1> HIDE DEF rest
<1> QED  BY <1>2, <1>4, <1>5 DEF Linked, rest

\* What a break leaves of a link.
LEMMA LinkedPart ==
  ASSUME NEW links, NEW F, Linked(links, F), NEW n \in Honest, NEW m \in Peers(n),
         NEW k \in 0..(Len(links[n][m]) - 1)
  PROVE  Linked([links EXCEPT ![n][m] = SubSeq(@, 1, k)], F)
<1> DEFINE f    == links[n][m]
           part == SubSeq(f, 1, k)
           rest == [links EXCEPT ![n][m] = SubSeq(@, 1, k)]
<1>1. f \in Seq(F[m])
  BY DEF Linked
<1>2. part \in Seq(F[m])
  <2>1. Len(f) \in Nat
    BY <1>1
  <2>2. k \in 0..Len(f)
    BY <2>1
  <2> QED  BY <1>1, <2>2, SequenceParts
<1> HIDE DEF part
<1>3. rest = [links EXCEPT ![n][m] = part]
  BY DEF part
<1> HIDE DEF rest
<1>4. ASSUME NEW i \in Honest, NEW j \in Peers(i)
      PROVE  rest[i][j] = IF i = n /\ j = m THEN part ELSE links[i][j]
  BY <1>3 DEF Linked
<1>5. rest = [i \in Honest |-> [j \in Peers(i) |-> rest[i][j]]]
  BY <1>3 DEF Linked
<1>6. \A i \in Honest : \A j \in Peers(i) : rest[i][j] \in Seq(F[j])
  BY <1>2, <1>4 DEF Linked
<1> QED  BY <1>5, <1>6 DEF Linked, rest

\* A message sent to one node, or to all.
LEMMA LinkedSend ==
  ASSUME NEW links, NEW F, Linked(links, F), NEW n \in Honest, NEW m, NEW msg,
         m \in Peers(n) => msg \in F[m]
  PROVE  Linked(send(links, n, m, msg), F)
<1>1. CASE m \notin Peers(n)
  BY <1>1 DEF send
<1>2. CASE m \in Peers(n)
  <2> DEFINE f    == Append(links[n][m], msg)
             next == [links EXCEPT ![n][m] = f]
  <2>1. f \in Seq(F[m])
    BY <1>2, SequenceParts DEF Linked
  <2>2. send(links, n, m, msg) = next
    BY <1>2 DEF send
  <2> HIDE DEF f
  <2>3. ASSUME NEW i \in Honest, NEW j \in Peers(i)
        PROVE  next[i][j] = IF i = n /\ j = m THEN f ELSE links[i][j]
    BY DEF Linked
  <2>4. next = [i \in Honest |-> [j \in Peers(i) |-> next[i][j]]]
    BY DEF Linked
  <2>5. \A i \in Honest : \A j \in Peers(i) : next[i][j] \in Seq(F[j])
    BY <2>1, <2>3 DEF Linked
  <2> HIDE DEF next
  <2> QED  BY <2>2, <2>4, <2>5 DEF Linked
<1> QED  BY <1>1, <1>2

LEMMA LinkedBroadcast ==
  ASSUME NEW links, NEW F, Linked(links, F), NEW n \in Honest, NEW msg,
         \A m \in Peers(n) : msg \in F[m]
  PROVE  Linked(broadcast(links, n, msg), F)
<1> DEFINE all  == [m \in Peers(n) |-> Append(links[n][m], msg)]
           next == [links EXCEPT ![n] = all]
<1>1. \A m \in Peers(n) : all[m] \in Seq(F[m])
  BY SequenceParts DEF Linked
<1>2. broadcast(links, n, msg) = next /\ all = [m \in Peers(n) |-> all[m]]
  BY DEF broadcast
<1> HIDE DEF all
<1>3. \A i \in Honest : next[i] = IF i = n THEN all ELSE links[i]
  BY DEF Linked
<1>4. next = [i \in Honest |-> [j \in Peers(i) |-> next[i][j]]]
  BY <1>2, <1>3 DEF Linked
<1>5. \A i \in Honest : \A j \in Peers(i) : next[i][j] \in Seq(F[j])
  BY <1>1, <1>3 DEF Linked
<1> HIDE DEF next
<1> QED  BY <1>2, <1>4, <1>5 DEF Linked

\* With more frames allowed, the links are as good as before.
LEMMA LinkedGrows ==
  ASSUME NEW links, NEW F, NEW G, Linked(links, F), \A m \in Honest : F[m] \subseteq G[m]
  PROVE  Linked(links, G)
<1>1. ASSUME NEW n \in Honest, NEW m \in Peers(n) PROVE links[n][m] \in Seq(G[m])
  <2>1. links[n][m] \in Seq(F[m]) /\ F[m] \subseteq G[m]
    BY DEF Linked, Peers
  <2> QED  BY <2>1
<1> QED  BY <1>1 DEF Linked

\* All that a handler sends.
LEMMA LinkedSends ==
  ASSUME NEW links, NEW F, Linked(links, F), NEW n \in Honest, NEW c, NEW d, NEW tcs,
         \A tc \in tcs, m \in Peers(n) : TCMsg(tc) \in F[m],
         \A b \in d.voted \ c.voted :
           LET m == get_leader(RoundOf(b) + 1)
           IN m \in Peers(n) => VoteMsg(n, b) \in F[m]
  PROVE  Linked(sends(links, n, c, d, tcs), F)
<1> DEFINE tc    == CHOOSE x \in tcs : TRUE
           told  == IF tcs = {} THEN links ELSE broadcast(links, n, TCMsg(tc))
           voted == d.voted \ c.voted
           b     == CHOOSE v \in voted : TRUE
           m     == get_leader(RoundOf(b) + 1)
<1>1. Linked(told, F)
  <2>1. CASE tcs = {}
    BY <2>1
  <2>2. CASE tcs # {}
    <3>1. tc \in tcs
      BY <2>2
    <3> HIDE DEF tc
    <3>2. \A k \in Peers(n) : TCMsg(tc) \in F[k]
      BY <3>1
    <3> QED  BY <2>2, <3>2, LinkedBroadcast
  <2> QED  BY <2>1, <2>2
<1>2. sends(links, n, c, d, tcs) = send_vote(told, n, c, d)
  BY DEF sends
<1> HIDE DEF told
<1>3. CASE voted = {}
  BY <1>1, <1>2, <1>3 DEF send_vote
<1>4. CASE voted # {}
  <2>1. b \in voted
    BY <1>4
  <2>2. m \in Peers(n) => VoteMsg(n, b) \in F[m]
    BY <2>1
  <2>3. send_vote(told, n, c, d) = send(told, n, m, VoteMsg(n, b))
    BY <1>4 DEF send_vote
  <2> HIDE DEF m, b
  <2> QED  BY <1>1, <1>2, <2>2, <2>3, LinkedSend
<1> QED  BY <1>3, <1>4

\* What the honest nodes have signed while the faulty authorities are silent:
\* World without the timeouts that were not signed by a node of Progress.
Quiet ==
  [ qcs |-> World.qcs, tcs |-> World.tcs, votes |-> World.votes,
    timeouts |-> {t \in World.timeouts : /\ t.author \in Honest
                                         /\ t.round \in TimeoutRounds
                                         /\ RoundOf(t.high_qc) < t.round} ]

\* The parts of Quiet, by name.
LEMMA QuietParts ==
  /\ Quiet.qcs = World.qcs /\ Quiet.tcs = World.tcs /\ Quiet.votes = World.votes
  /\ Quiet.timeouts = {t \in World.timeouts : /\ t.author \in Honest
                                              /\ t.round \in TimeoutRounds
                                              /\ RoundOf(t.high_qc) < t.round}
  /\ Widens(Quiet, World)
<1>1. /\ Quiet.qcs = World.qcs /\ Quiet.tcs = World.tcs /\ Quiet.votes = World.votes
      /\ Quiet.timeouts = {t \in World.timeouts : /\ t.author \in Honest
                                                  /\ t.round \in TimeoutRounds
                                                  /\ RoundOf(t.high_qc) < t.round}
  BY DEF Quiet
<1> QED  BY <1>1 DEF Widens

\* What is assembled of it verifies.
LEMMA QuietSound ==
  ASSUME TypeOK
  PROVE  Sound(Quiet)
<1>1. Sound(World) /\ World \in Worlds
  BY WorldSound, WorldParts
<1>2. /\ Quiet.qcs = World.qcs /\ Quiet.tcs = World.tcs /\ Quiet.votes = World.votes
      /\ Quiet.timeouts \subseteq World.timeouts
  BY QuietParts
<1>3. Quiet \in Worlds
  <2> DEFINE some == {t \in World.timeouts : /\ t.author \in Honest
                                             /\ t.round \in TimeoutRounds
                                             /\ RoundOf(t.high_qc) < t.round}
  <2>1. /\ World.qcs \in SUBSET Block /\ World.tcs \in SUBSET TC
        /\ World.votes \in SUBSET Vote /\ World.timeouts \in SUBSET Timeout
    BY <1>1 DEF Worlds
  <2>2. some \in SUBSET Timeout
    BY <2>1
  <2>3. Quiet = [qcs |-> World.qcs, tcs |-> World.tcs, votes |-> World.votes,
                 timeouts |-> some]
    BY DEF Quiet
  <2> HIDE DEF some
  <2> QED  BY <2>1, <2>2, <2>3 DEF Worlds
<1>4. SUBSET Quiet.timeouts \subseteq SUBSET World.timeouts
  BY <1>2
<1> QED  BY <1>1, <1>2, <1>3, <1>4 DEF Sound

\* The rounds a node has timed out in are those whose timers expire.
TimersHold(c) == \A t \in c.timed_out : t.round \in TimeoutRounds

\* Every node's signatures are among it.
LEMMA OwnIsQuiet ==
  ASSUME TypeOK, NodeInv, NEW n \in Honest, TimersHold(core[n])
  PROVE  Own(n, core[n], Quiet)
<1>1. Own(n, core[n], World)
  BY OwnIsAuthentic
<1>2. \A t \in core[n].timed_out : RoundOf(t.high_qc) < t.round
  BY DEF NodeInv, NodeHolds, SentHolds
<1>3. ASSUME NEW t \in core[n].timed_out, t.high_qc \in Quiet.qcs
      PROVE  [author |-> n, round |-> t.round, high_qc |-> t.high_qc] \in Quiet.timeouts
  <2> DEFINE u == [author |-> n, round |-> t.round, high_qc |-> t.high_qc]
  <2>1. u \in World.timeouts
    BY <1>1, <1>3, QuietParts DEF Own
  <2>2. u.author \in Honest /\ u.round \in TimeoutRounds /\ RoundOf(u.high_qc) < u.round
    BY <1>2 DEF TimersHold
  <2> HIDE DEF u
  <2> QED  BY <2>1, <2>2, QuietParts DEF u
<1> QED  BY <1>1, <1>3, QuietParts DEF Own

\* The same of the state after a step.
LEMMA QuietNext ==
  TypeOK' /\ NodeInv' /\ (\A n \in Honest : TimersHold(core[n]))'
    => Sound(Quiet)' /\ (\A n \in Honest : Own(n, core[n], Quiet))'
<1>1. TypeOK /\ NodeInv /\ (\A n \in Honest : TimersHold(core[n]))
        => Sound(Quiet) /\ \A n \in Honest : Own(n, core[n], Quiet)
  BY QuietSound, OwnIsQuiet
<1> QED  BY <1>1, PTL

\* Like the world, it only widens.
LEMMA QuietWidens ==
  ASSUME TypeOK, TypeOK', [Next]_vars
  PROVE  Widens(Quiet, Quiet')
<1>1. Widens(World, World')
  BY WorldWidens
<1> QED  BY <1>1 DEF Widens, Quiet

\* A TC that a node makes of such timeouts is one that the model's bounds admit.
LEMMA AssembledVerifies ==
  ASSUME NEW c \in CoreState, NEW w, Sound(w), CertsHold(c, w), NEW t \in w.timeouts,
         \A u \in w.timeouts : u.round \in TimeoutRounds /\ RoundOf(u.high_qc) < u.round
  PROVE  Assembled(c, t) \subseteq w.tcs \intersect TCs
<1> DEFINE d  == process_qc(c, t.high_qc)
           ts == d.timeouts \union {t}
           tc == MakeTC(ts, t.round)
           reported == {RoundOf(u.high_qc) : u \in {v \in ts : v.round = t.round}}
<1> SUFFICES ASSUME IsQuorum(AuthorsAt(ts, t.round)) PROVE tc \in w.tcs \intersect TCs
  BY DEF Assembled
<1>1. w \in Worlds /\ t \in Timeout /\ t.round \in Nat /\ t.high_qc \in w.qcs
  BY DEF Sound, Worlds, Timeout
<1>2. CertsHold(d, w)
  BY <1>1, ProcessQCCerts
<1>3. ts \in SUBSET w.timeouts /\ ts \subseteq Timeout
  BY <1>1, <1>2 DEF CertsHold, CountsHold, Worlds
<1> HIDE DEF d, ts
<1>4. tc \in w.tcs
  BY <1>1, <1>3 DEF Sound
<1>5. AuthorsAt(ts, t.round) # {}
  BY EmptyIsNoQuorum
<1>6. reported \subseteq {RoundOf(b) : b \in Block} /\ reported # {}
  BY <1>3, <1>5 DEF Timeout, AuthorsAt
<1>7. \A r \in reported : r < t.round
  BY <1>3
<1>8. tc = [round |-> t.round, high |-> Max(reported)]
  BY DEF MakeTC
<1>9. reported \subseteq Nat /\ IsFiniteSet(reported)
  BY <1>6, RoundsFinite
<1> HIDE DEF reported, tc
<1>10. Max(reported) \in reported
  BY <1>6, <1>9, MaxOfFinite
<1>11. /\ t.round \in TimeoutRounds /\ Max(reported) < t.round
       /\ Max(reported) \in {RoundOf(b) : b \in Block} /\ Max(reported) \in Nat
  BY <1>6, <1>7, <1>9, <1>10
<1>12. tc \in TCs
  BY <1>1, <1>8, <1>11 DEF TCs
<1> QED  BY <1>4, <1>12 DEF tc, ts

\* The TCs that verify in Progress, now and after a step.
LEMMA VerifiedByQuiet == VerifiedTCs = Quiet.tcs \intersect TCs
<1>1. {RoundOf(b) : b \in Block} \subseteq Nat /\ TimeoutRounds \subseteq Nat
  BY BlockTypes, BoundsAssumption
<1>2. TCs \subseteq TC
  BY <1>1 DEF TCs, TC
<1> QED  BY <1>2, QuietParts, WorldParts DEF VerifiedTCs

LEMMA VerifiedNext == VerifiedTCs' = Quiet'.tcs \intersect TCs
<1>1. (VerifiedTCs = Quiet.tcs \intersect TCs)'
  BY VerifiedByQuiet, PTL
<1> QED  BY <1>1 DEF TCs

\* The frames that go to m: votes for blocks it collects them for, timeouts, and
\* TCs that verify.
Frames ==
  [m \in Honest |-> {[kind |-> "vote", vote |-> v] : v \in VotesTo(m)} \union
                    {TimeoutMsg(t) : t \in Quiet.timeouts} \union
                    {TCMsg(tc) : tc \in VerifiedTCs}]

\* The blocks that honest nodes have proposed, whoever they go to.
Broadcasts == [m \in Honest |-> UNION {core[n].proposed : n \in Honest}]

\* The inductive invariant of Progress: nodes as in NodeInv, but with silent
\* faulty authorities, and links that carry what was signed.
NetInv ==
  /\ TypeOK
  /\ \A n \in Honest : NodeHolds(core[n], Quiet) /\ TimersHold(core[n])
  /\ Linked(link, Frames)
  /\ Linked(blocks, Broadcasts)

\* What a step of Progress makes of a node: a step of Consensus, of messages
\* that were signed.
QuietStep(n) ==
  \/ \E p \in Broadcasts[n] : HandleProposal(n, p)
  \/ \E vote \in VotesTo(n) : HandleVote(n, vote)
  \/ \E t \in Quiet.timeouts : HandleTimeout(n, t)
  \/ \E tc \in VerifiedTCs : HandleTC(n, tc)
  \/ \E p \in core[n].loopback : HandleLoopback(n, p)
  \/ LocalTimeout(n)
  \/ \E b \in Block : MakeBlock(n, b)

\* What is signed may be delivered, in Consensus.
LEMMA QuietMessages ==
  ASSUME NetInv
  PROVE  /\ NodeInv
         /\ \A n \in Honest : Broadcasts[n] \subseteq Proposals
         /\ Quiet.timeouts \subseteq Timeouts
         /\ \A p \in Proposals : Backed(Quiet, p)
         /\ \A n : VotesTo(n) \subseteq Quiet.votes
         /\ VerifiedTCs = Quiet.tcs \intersect TCs
<1>1. NodeInv
  BY QuietParts, NodeWidens DEF NetInv, NodeInv
<1>2. TypeOK
  BY DEF NetInv
<1>3. \A n \in Honest : Broadcasts[n] \subseteq Proposals
  BY DEF Broadcasts, Proposals
<1>4. ASSUME NEW t \in Quiet.timeouts PROVE t \in Timeouts
  <2>1. t \in World.timeouts /\ t.author \in Honest
    BY QuietParts
  <2>2. /\ t \in Timeout
        /\ [round |-> t.round, high_qc |-> t.high_qc] \in core[t.author].timed_out
    BY <2>1, WorldParts DEF Honest
  <2> DEFINE u == [round |-> t.round, high_qc |-> t.high_qc]
  <2>3. t = [author |-> t.author, round |-> u.round, high_qc |-> u.high_qc]
    BY <2>2 DEF Timeout
  <2>4. u \in core[t.author].timed_out
    BY <2>2
  <2> HIDE DEF u
  <2> QED  BY <2>1, <2>3, <2>4 DEF Timeouts
<1>5. /\ \A p \in Proposals : Backed(World, p)
      /\ \A n : VotesTo(n) \subseteq World.votes
  BY <1>1, <1>2, MessagesAuthentic
<1>6. /\ \A p \in Proposals : Backed(Quiet, p)
      /\ \A n : VotesTo(n) \subseteq Quiet.votes
  BY <1>5, QuietParts DEF Backed
<1> QED  BY <1>1, <1>3, <1>4, <1>6, VerifiedByQuiet

\* Such a step is one of Consensus.
LEMMA QuietStepIsStep ==
  ASSUME NetInv, NEW n \in Honest, QuietStep(n)
  PROVE  Next
<1>1. Broadcasts[n] \subseteq Proposals /\ Quiet.timeouts \subseteq Timeouts
  BY QuietMessages
<1>2. CASE \E p \in Broadcasts[n] : HandleProposal(n, p)
  BY <1>1, <1>2 DEF Next
<1>3. CASE \E vote \in VotesTo(n) : HandleVote(n, vote)
  BY <1>3 DEF Next
<1>4. CASE \E t \in Quiet.timeouts : HandleTimeout(n, t)
  BY <1>1, <1>4 DEF Next
<1>5. CASE \E tc \in VerifiedTCs : HandleTC(n, tc)
  BY <1>5 DEF Next
<1>6. CASE \/ \E p \in core[n].loopback : HandleLoopback(n, p)
           \/ LocalTimeout(n)
           \/ \E b \in Block : MakeBlock(n, b)
  BY <1>6 DEF Next
<1> QED  BY <1>2, <1>3, <1>4, <1>5, <1>6 DEF QuietStep

\* A node times out in rounds whose timers expire.
LEMMA QuietTimers ==
  ASSUME NetInv, NEW n \in Honest, QuietStep(n)
  PROVE  \A m \in Honest : TimersHold(core'[m])
<1> DEFINE c == core[n]
<1>1. TypeOK /\ n \in Authority /\ c \in CoreState /\ \A m \in Honest : TimersHold(core[m])
  BY MessageTypes DEF NetInv
<1>2. ASSUME NEW d, core' = [core EXCEPT ![n] = d], TimersHold(d)
      PROVE  \A m \in Honest : TimersHold(core'[m])
  BY <1>1, <1>2 DEF TypeOK
<1>3. TimersHold(c)
  BY <1>1
<1>4. CASE \E p \in Broadcasts[n] : HandleProposal(n, p)
  <2>1. PICK p \in Proposal : HandleProposal(n, p)
    BY <1>1, <1>4, QuietMessages, MessageTypes
  <2> DEFINE d == handle_proposal(n, c, p)
  <2>2. core' = [core EXCEPT ![n] = d]
    BY <2>1 DEF HandleProposal, Step
  <2>3. d.timed_out = c.timed_out
    BY <1>1, ProposalSignsNoTimeout
  <2> HIDE DEF d
  <2> QED  BY <1>2, <1>3, <2>2, <2>3 DEF TimersHold
<1>5. CASE \E vote \in VotesTo(n) : HandleVote(n, vote)
  <2>1. PICK vote \in Vote : HandleVote(n, vote)
    BY <1>1, <1>5, MessageTypes
  <2> DEFINE d == handle_vote(n, c, vote)
  <2>2. core' = [core EXCEPT ![n] = d]
    BY <2>1 DEF HandleVote, Step
  <2>3. d.timed_out = c.timed_out
    BY <1>1, HandleVoteKeeps DEF Kept
  <2> HIDE DEF d
  <2> QED  BY <1>2, <1>3, <2>2, <2>3 DEF TimersHold
<1>6. CASE \E t \in Quiet.timeouts : HandleTimeout(n, t)
  <2>1. PICK t \in Timeout : HandleTimeout(n, t)
    BY <1>1, <1>6, QuietMessages, MessageTypes
  <2> DEFINE d == handle_timeout(n, c, t)
  <2>2. core' = [core EXCEPT ![n] = d]
    BY <2>1 DEF HandleTimeout, Step
  <2>3. d.timed_out = c.timed_out
    BY <1>1, HandleTimeoutKeeps DEF Kept
  <2> HIDE DEF d
  <2> QED  BY <1>2, <1>3, <2>2, <2>3 DEF TimersHold
<1>7. CASE \E tc \in VerifiedTCs : HandleTC(n, tc)
  <2>1. PICK tc \in TC : HandleTC(n, tc)
    BY <1>1, <1>7, MessageTypes
  <2> DEFINE d == handle_tc(n, c, tc)
  <2>2. core' = [core EXCEPT ![n] = d]
    BY <2>1 DEF HandleTC, Step
  <2>3. d.timed_out = c.timed_out
    BY <1>1, HandleTCKeeps DEF Kept
  <2> HIDE DEF d
  <2> QED  BY <1>2, <1>3, <2>2, <2>3 DEF TimersHold
<1>8. CASE \E p \in core[n].loopback : HandleLoopback(n, p)
  <2>1. PICK p \in c.loopback : HandleLoopback(n, p)
    BY <1>8
  <2> DEFINE ps == c.loopback \ {p}
             a  == [c EXCEPT !.loopback = ps]
             d  == process_block(n, a, p)
  <2>2. core' = [core EXCEPT ![n] = d]
    BY <2>1 DEF HandleLoopback, Step
  <2>3. p \in Proposal /\ ps \in SUBSET Proposal
    BY <1>1 DEF CoreState
  <2> HIDE DEF c, ps
  <2>4. a \in CoreState /\ a.timed_out = c.timed_out
    BY <1>1, <2>3 DEF CoreState
  <2> HIDE DEF a
  <2>5. d.timed_out = c.timed_out
    BY <1>1, <2>3, <2>4, ProcessSignsNoTimeout
  <2> HIDE DEF d
  <2> QED  BY <1>2, <1>3, <2>2, <2>5 DEF TimersHold
<1>9. CASE LocalTimeout(n)
  <2> DEFINE d == local_timeout_round(n, c)
  <2>1. core' = [core EXCEPT ![n] = d] /\ c.round \in TimeoutRounds
    BY <1>9 DEF LocalTimeout, Step
  <2>2. d.timed_out = c.timed_out \union {[round |-> c.round, high_qc |-> c.high_qc]}
    BY <1>1, LocalTimeoutKeeps
  <2> HIDE DEF d
  <2>3. TimersHold(d)
    BY <1>3, <2>1, <2>2 DEF TimersHold
  <2> QED  BY <1>2, <2>1, <2>3
<1>10. CASE \E b \in Block : MakeBlock(n, b)
  <2>1. PICK b \in Block : MakeBlock(n, b)
    BY <1>10
  <2> DEFINE p == [block |-> b, tc |-> Head(c.makes).tc]
             ms == Tail(c.makes)
             ps == c.proposed \union {p}
             ls == c.loopback \union {p}
             d == [c EXCEPT !.makes = ms, !.proposed = ps, !.loopback = ls]
  <2>2. core' = [core EXCEPT ![n] = d]
    BY <2>1 DEF MakeBlock, Step
  <2> HIDE DEF ms, ps, ls
  <2>3. d.timed_out = c.timed_out
    BY <1>1 DEF CoreState
  <2> HIDE DEF d
  <2> QED  BY <1>2, <1>3, <2>2, <2>3 DEF TimersHold
<1> QED  BY <1>4, <1>5, <1>6, <1>7, <1>8, <1>9, <1>10 DEF QuietStep

\* After it every node again holds only what was signed.
LEMMA QuietStepHolds ==
  ASSUME NetInv, NEW n \in Honest, QuietStep(n)
  PROVE  /\ TypeOK'
         /\ \A m \in Honest : (NodeHolds(core[m], Quiet) /\ TimersHold(core[m]))'
         /\ Sound(Quiet') /\ Widens(Quiet, Quiet')
         /\ Own(n, core'[n], Quiet')
         /\ Advances(n, Quiet')
<1>1. TypeOK /\ NodeInv /\ Next
  BY QuietMessages, QuietStepIsStep DEF NetInv
<1>2. TypeOK' /\ NodeInv'
  BY <1>1, TypeStep, NodeNext
<1>3. \A m \in Honest : TimersHold(core'[m])
  BY QuietTimers
<1>4. Sound(Quiet)' /\ (\A m \in Honest : Own(m, core[m], Quiet))'
  BY <1>2, <1>3, QuietNext
<1> DEFINE w == Quiet'
<1>5. Sound(w) /\ \A m \in Honest : Own(m, core'[m], w)
  BY <1>4
<1>6. Widens(Quiet, w)
  BY <1>1, <1>2, QuietWidens
<1>7. \A m \in Honest : NodeHolds(core[m], w)
  BY <1>6, NodeWidens DEF NetInv
<1>8. /\ \A p \in Broadcasts[n] : p \in Proposals /\ Backed(w, p)
      /\ VotesTo(n) \subseteq w.votes
      /\ \A t \in Quiet.timeouts : t \in Timeouts /\ t \in w.timeouts
      /\ VerifiedTCs \subseteq w.tcs
  <2>1. /\ Broadcasts[n] \subseteq Proposals /\ Quiet.timeouts \subseteq Timeouts
        /\ \A p \in Proposals : Backed(Quiet, p)
        /\ VotesTo(n) \subseteq Quiet.votes
        /\ VerifiedTCs \subseteq Quiet.tcs
    BY QuietMessages
  <2> QED  BY <1>6, <2>1 DEF Widens, Backed
<1> HIDE DEF w
<1>9. Advances(n, w)
  <2>1. CASE \/ \E p \in Broadcasts[n] : HandleProposal(n, p)
             \/ \E vote \in VotesTo(n) : HandleVote(n, vote)
             \/ \E t \in Quiet.timeouts : HandleTimeout(n, t)
             \/ \E tc \in VerifiedTCs : HandleTC(n, tc)
    <3>1. \/ \E p \in Proposals : Backed(w, p) /\ HandleProposal(n, p)
          \/ \E vote \in VotesTo(n) : vote \in w.votes /\ HandleVote(n, vote)
          \/ \E t \in Timeouts : t \in w.timeouts /\ HandleTimeout(n, t)
          \/ \E tc \in VerifiedTCs : tc \in w.tcs /\ HandleTC(n, tc)
      BY <1>8, <2>1
    <3> QED  BY <1>1, <1>5, <1>7, <3>1, MessageAdvances
  <2>2. CASE LocalTimeout(n) \/ \E p \in core[n].loopback : HandleLoopback(n, p)
    BY <1>1, <1>5, <1>7, <2>2, LoopAdvances
  <2>3. CASE \E b \in Block : MakeBlock(n, b)
    BY <1>1, <1>5, <1>7, <2>3, MakeAdvances
  <2> QED  BY <2>1, <2>2, <2>3 DEF QuietStep
<1>10. \A m \in Honest : NodeHolds(core'[m], w)
  <2>1. PICK d \in CoreState : core' = [core EXCEPT ![n] = d] /\ NodeHolds(d, w)
    BY <1>9 DEF Advances
  <2>2. \A m \in Honest : core'[m] = IF m = n THEN d ELSE core[m]
    BY <1>1, <2>1 DEF TypeOK
  <2> QED  BY <1>7, <2>1, <2>2
<1> QED  BY <1>2, <1>3, <1>5, <1>6, <1>9, <1>10 DEF w

\* What may be on a link stays admissible.
LEMMA FramesGrow ==
  ASSUME NetInv, NEW n \in Honest, QuietStep(n)
  PROVE  \A m \in Honest : Frames[m] \subseteq Frames'[m] /\ Broadcasts[m] \subseteq Broadcasts'[m]
<1>1. TypeOK /\ Next /\ Advances(n, Quiet') /\ Widens(Quiet, Quiet')
  BY QuietStepIsStep, QuietStepHolds DEF NetInv
<1>2. \A k \in Honest : core[k].voted \subseteq core'[k].voted
  BY <1>1, SignaturesStay
<1>3. \A k \in Honest : core[k].proposed \subseteq core'[k].proposed
  <2>1. PICK d \in CoreState : core' = [core EXCEPT ![n] = d] /\ ProposerStep(core[n], d)
    BY <1>1 DEF Advances, NodeStep
  <2>2. core[n].proposed \subseteq d.proposed
    BY <2>1 DEF ProposerStep
  <2>3. \A k \in Honest : core'[k] = IF k = n THEN d ELSE core[k]
    BY <1>1, <2>1 DEF TypeOK
  <2> QED  BY <2>2, <2>3
<1>4. ASSUME NEW m \in Honest PROVE VotesTo(m) \subseteq VotesTo(m)'
  BY <1>2 DEF VotesTo
<1>5. VerifiedTCs \subseteq VerifiedTCs'
  <2>1. VerifiedTCs' = Quiet'.tcs \intersect TCs
    BY VerifiedNext
  <2>2. VerifiedTCs = Quiet.tcs \intersect TCs
    BY VerifiedByQuiet
  <2> QED  BY <1>1, <2>1, <2>2 DEF Widens
<1>6. ASSUME NEW m \in Honest PROVE Frames[m] \subseteq Frames'[m]
  BY <1>1, <1>4, <1>5 DEF Frames, Widens
<1>7. ASSUME NEW m \in Honest PROVE Broadcasts[m] \subseteq Broadcasts'[m]
  BY <1>3 DEF Broadcasts
<1> QED  BY <1>6, <1>7

\* What a node sends in a step may be delivered after it.
LEMMA SendsHold ==
  ASSUME NetInv, NEW n \in Honest, QuietStep(n), NEW sent, Linked(sent, Frames'),
         NEW tcs, tcs \subseteq VerifiedTCs'
  PROVE  Linked(sends(sent, n, core[n], core'[n], tcs), Frames')
<1> DEFINE F == Frames'
           c == core[n]
           d == core'[n]
<1>1. \A m \in Honest : F[m] = {[kind |-> "vote", vote |-> v] : v \in VotesTo(m)'} \union
                               {TimeoutMsg(t) : t \in Quiet'.timeouts} \union
                               {TCMsg(tc) : tc \in VerifiedTCs'}
  BY DEF Frames
<1>2. \A m \in Peers(n) : m \in Honest
  BY DEF Peers
<1>3. \A tc \in tcs, m \in Peers(n) : TCMsg(tc) \in F[m]
  BY <1>1, <1>2
<1>4. ASSUME NEW b \in d.voted \ c.voted, get_leader(RoundOf(b) + 1) \in Peers(n)
      PROVE  VoteMsg(n, b) \in F[get_leader(RoundOf(b) + 1)]
  <2> DEFINE m == get_leader(RoundOf(b) + 1)
             v == [author |-> n, block |-> b]
  <2>1. m \in Honest
    BY <1>2, <1>4
  <2>2. v \in VotesTo(m)'
    BY DEF VotesTo
  <2>3. VoteMsg(n, b) = [kind |-> "vote", vote |-> v]
    BY DEF VoteMsg
  <2> HIDE DEF m, v
  <2> QED  BY <1>1, <2>1, <2>2, <2>3 DEF m
<1>5. Linked(sent, F)
  OBVIOUS
<1> HIDE DEF F, c, d
<1>6. \A b \in d.voted \ c.voted :
        LET m == get_leader(RoundOf(b) + 1)
        IN m \in Peers(n) => VoteMsg(n, b) \in F[m]
  BY <1>4
<1>7. Linked(sends(sent, n, c, d, tcs), F)
  BY <1>3, <1>5, <1>6, LinkedSends
<1> QED  BY <1>7 DEF F, c, d

\* A TC assembled of what was signed is one of those.
LEMMA AssembledIsVerified ==
  ASSUME NetInv, NEW n \in Honest, QuietStep(n), NEW t \in Quiet'.timeouts
  PROVE  Assembled(core[n], t) \subseteq VerifiedTCs'
<1> DEFINE w == Quiet'
<1>1. Sound(w) /\ Widens(Quiet, w)
  BY QuietStepHolds
<1>2. core[n] \in CoreState /\ NodeHolds(core[n], w)
  BY <1>1, MessageTypes, NodeWidens DEF NetInv
<1>3. w.timeouts = {u \in World'.timeouts : /\ u.author \in Honest
                                            /\ u.round \in TimeoutRounds
                                            /\ RoundOf(u.high_qc) < u.round}
  BY DEF Quiet
<1>4. VerifiedTCs' = w.tcs \intersect TCs
  BY VerifiedNext
<1> HIDE DEF w
<1>5. \A u \in w.timeouts : u.round \in TimeoutRounds /\ RoundOf(u.high_qc) < u.round
  BY <1>3
<1>6. t \in w.timeouts /\ CertsHold(core[n], w)
  BY <1>2 DEF NodeHolds, w
<1> QED  BY <1>1, <1>2, <1>4, <1>5, <1>6, AssembledVerifies

\* A step of a node that leaves its links in order.
LEMMA NetKept ==
  ASSUME NetInv, NEW n \in Honest, QuietStep(n),
         Linked(link', Frames'), Linked(blocks', Broadcasts')
  PROVE  NetInv' /\ Next
BY QuietStepIsStep, QuietStepHolds DEF NetInv

\* Its old links are, in the state after it.
LEMMA LinksStay ==
  ASSUME NetInv, NEW n \in Honest, QuietStep(n)
  PROVE  /\ Linked(blocks, Broadcasts')
         /\ \A links : Linked(links, Frames) => Linked(links, Frames')
<1> DEFINE F == Frames'
           B == Broadcasts'
<1>1. \A m \in Honest : Frames[m] \subseteq F[m] /\ Broadcasts[m] \subseteq B[m]
  BY FramesGrow
<1>2. Linked(blocks, Broadcasts)
  BY DEF NetInv
<1> HIDE DEF F, B
<1>3. Linked(blocks, B)
  BY <1>1, <1>2, LinkedGrows
<1>4. \A links : Linked(links, Frames) => Linked(links, F)
  BY <1>1, LinkedGrows
<1> QED  BY <1>3, <1>4 DEF F, B

\* A node takes the next block of a peer.
LEMMA ReceiveProposalNet ==
  ASSUME NetInv, NEW n \in Honest, NEW m \in Peers(n), ReceiveProposal(m, n)
  PROVE  NetInv' /\ Next
<1> DEFINE rest == [blocks EXCEPT ![m][n] = Tail(@)]
<1>1. m \in Honest /\ n \in Peers(m)
  BY DEF Peers
<1>2. Head(blocks[m][n]) \in Broadcasts[n] /\ Linked(rest, Broadcasts)
  BY <1>1, LinkedTail DEF NetInv, ReceiveProposal
<1>3. QuietStep(n)
  BY <1>2 DEF ReceiveProposal, QuietStep
<1>4. Linked(link, Frames') /\ Linked(rest, Broadcasts')
  <2> DEFINE B == Broadcasts'
  <2>1. \A k \in Honest : Broadcasts[k] \subseteq B[k]
    BY <1>3, FramesGrow
  <2> HIDE DEF rest, B
  <2>2. Linked(rest, B)
    BY <1>2, <2>1, LinkedGrows
  <2> QED  BY <1>3, <2>2, LinksStay DEF NetInv, B
<1>5. Linked(sends(link, n, core[n], core'[n], {}), Frames')
  BY <1>3, <1>4, SendsHold
<1>6. link' = sends(link, n, core[n], core'[n], {}) /\ blocks' = rest
  BY DEF ReceiveProposal, Sends
<1> QED  BY <1>3, <1>4, <1>5, <1>6, NetKept

\* A node takes the next message of a peer.
LEMMA ReceiveMessageNet ==
  ASSUME NetInv, NEW n \in Honest, NEW m \in Peers(n), ReceiveMessage(m, n)
  PROVE  NetInv' /\ Next
<1> DEFINE msg  == Head(link[m][n])
           rest == [link EXCEPT ![m][n] = Tail(@)]
<1>1. m \in Honest /\ n \in Peers(m)
  BY DEF Peers
<1>2. msg \in Frames[n] /\ Linked(rest, Frames)
  BY <1>1, LinkedTail DEF NetInv, ReceiveMessage
<1>3. CASE \E v \in VotesTo(n) : msg = [kind |-> "vote", vote |-> v]
  <2>1. msg.kind = "vote" /\ msg.vote \in VotesTo(n)
    BY <1>3
  <2>2. HandleVote(n, msg.vote) /\ Sends(n, rest, {}) /\ blocks' = blocks
    BY <2>1 DEF ReceiveMessage
  <2>3. QuietStep(n)
    BY <2>1, <2>2 DEF QuietStep
  <2>4. Linked(rest, Frames') /\ Linked(blocks, Broadcasts')
    BY <1>2, <2>3, LinksStay
  <2>5. Linked(sends(rest, n, core[n], core'[n], {}), Frames')
    BY <2>3, <2>4, SendsHold
  <2> QED  BY <2>2, <2>3, <2>4, <2>5, NetKept DEF Sends
<1>4. CASE \E t \in Quiet.timeouts : msg = TimeoutMsg(t)
  <2> DEFINE t   == msg.timeout
             tcs == Assembled(core[n], t)
  <2>1. msg.kind = "timeout" /\ t \in Quiet.timeouts
    BY <1>4 DEF TimeoutMsg
  <2>2. HandleTimeout(n, t) /\ Sends(n, rest, tcs) /\ blocks' = blocks
    BY <2>1 DEF ReceiveMessage
  <2>3. QuietStep(n)
    BY <2>1, <2>2 DEF QuietStep
  <2>4. Linked(rest, Frames') /\ Linked(blocks, Broadcasts')
    BY <1>2, <2>3, LinksStay
  <2>5. t \in Quiet'.timeouts
    BY <2>1, <2>3, QuietStepHolds DEF Widens
  <2>6. tcs \subseteq VerifiedTCs'
    BY <2>3, <2>5, AssembledIsVerified
  <2> HIDE DEF tcs
  <2>7. Linked(sends(rest, n, core[n], core'[n], tcs), Frames')
    BY <2>3, <2>4, <2>6, SendsHold
  <2> QED  BY <2>2, <2>3, <2>4, <2>7, NetKept DEF Sends
<1>5. CASE \E tc \in VerifiedTCs : msg = TCMsg(tc)
  <2>1. msg.kind = "tc" /\ msg.tc \in VerifiedTCs
    BY <1>5 DEF TCMsg
  <2>2. HandleTC(n, msg.tc) /\ Sends(n, rest, {}) /\ blocks' = blocks
    BY <2>1 DEF ReceiveMessage
  <2>3. QuietStep(n)
    BY <2>1, <2>2 DEF QuietStep
  <2>4. Linked(rest, Frames') /\ Linked(blocks, Broadcasts')
    BY <1>2, <2>3, LinksStay
  <2>5. Linked(sends(rest, n, core[n], core'[n], {}), Frames')
    BY <2>3, <2>4, SendsHold
  <2> QED  BY <2>2, <2>3, <2>4, <2>5, NetKept DEF Sends
<1> QED  BY <1>2, <1>3, <1>4, <1>5 DEF Frames

\* A node processes a block from its loopback channel.
LEMMA ReceiveLoopbackNet ==
  ASSUME NetInv, NEW n \in Honest, ReceiveLoopback(n)
  PROVE  NetInv' /\ Next
<1>1. QuietStep(n) /\ Sends(n, link, {}) /\ blocks' = blocks
  BY DEF ReceiveLoopback, QuietStep
<1>2. Linked(link, Frames') /\ Linked(blocks, Broadcasts')
  BY <1>1, LinksStay DEF NetInv
<1>3. Linked(sends(link, n, core[n], core'[n], {}), Frames')
  BY <1>1, <1>2, SendsHold
<1> QED  BY <1>1, <1>2, <1>3, NetKept DEF Sends

\* A node makes the next block and broadcasts it.
LEMMA ProposeNet ==
  ASSUME NetInv, NEW n \in Honest, Propose(n)
  PROVE  NetInv' /\ Next
<1> DEFINE make == Head(core[n].makes)
           p == [block |-> Append(make.qc, [round |-> make.round, payload |-> {}]),
                 tc |-> make.tc]
           B == Broadcasts'
<1>1. /\ p.block \in Block /\ MakeBlock(n, p.block)
      /\ blocks' = broadcast(blocks, n, p) /\ link' = link
  BY DEF Propose
<1>2. QuietStep(n)
  BY <1>1 DEF QuietStep
<1>3. p \in core'[n].proposed
  <2>1. p = [block |-> p.block, tc |-> make.tc]
    OBVIOUS
  <2> DEFINE c == core[n]
             ms == Tail(c.makes)
             ps == c.proposed \union {p}
             ls == c.loopback \union {p}
             d == [c EXCEPT !.makes = ms, !.proposed = ps, !.loopback = ls]
  <2>2. core' = [core EXCEPT ![n] = d]
    BY <1>1, <2>1 DEF MakeBlock, Step
  <2>3. core'[n] = d
    BY <2>2 DEF NetInv, TypeOK
  <2>4. c \in CoreState
    BY MessageTypes DEF NetInv
  <2> HIDE DEF c, ms, ls, p
  <2>5. d.proposed = ps
    BY <2>4 DEF CoreState
  <2> HIDE DEF d
  <2> QED  BY <2>3, <2>5
<1>4. \A m \in Peers(n) : p \in B[m]
  BY <1>3 DEF Broadcasts, Peers
<1>5. Linked(link, Frames') /\ Linked(blocks, B)
  BY <1>2, LinksStay DEF NetInv
<1> HIDE DEF p, B
<1>6. Linked(broadcast(blocks, n, p), B)
  BY <1>4, <1>5, LinkedBroadcast
<1> QED  BY <1>1, <1>2, <1>5, <1>6, NetKept DEF p, B

\* A timer expires: the timeout, and the TC it may complete, are broadcast.
LEMMA ExpireNet ==
  ASSUME NetInv, NEW n \in Honest, Expire(n)
  PROVE  NetInv' /\ Next
<1> DEFINE c == core[n]
           u == [round |-> c.round, high_qc |-> c.high_qc]
           t == [author |-> n, round |-> c.round, high_qc |-> c.high_qc]
           tcs  == Assembled(c, t)
           sent == broadcast(link, n, TimeoutMsg(t))
<1>1. LocalTimeout(n) /\ Sends(n, sent, tcs) /\ blocks' = blocks
  BY DEF Expire
<1>2. QuietStep(n)
  BY <1>1 DEF QuietStep
<1>3. /\ Widens(Quiet, Quiet') /\ Own(n, core'[n], Quiet')
      /\ n \in Authority /\ c \in CoreState /\ NodeHolds(c, Quiet)
  BY <1>2, QuietStepHolds, MessageTypes DEF NetInv
<1>4. u \in core'[n].timed_out
  <2> DEFINE d == local_timeout_round(n, c)
  <2>1. core' = [core EXCEPT ![n] = d]
    BY <1>1 DEF LocalTimeout, Step
  <2>2. core'[n] = d
    BY <2>1 DEF NetInv, TypeOK
  <2>3. u \in d.timed_out
    BY <1>3, LocalTimeoutKeeps
  <2> HIDE DEF d
  <2> QED  BY <2>2, <2>3
<1>5. u.high_qc \in Quiet'.qcs
  BY <1>3 DEF Widens, NodeHolds, CertsHold, RoundsHold
<1>6. t \in Quiet'.timeouts
  <2>1. [author |-> n, round |-> u.round, high_qc |-> u.high_qc] \in Quiet'.timeouts
    BY <1>3, <1>4, <1>5 DEF Own
  <2> QED  BY <2>1
<1>7. tcs \subseteq VerifiedTCs'
  BY <1>2, <1>6, AssembledIsVerified
<1>8. Linked(link, Frames') /\ Linked(blocks, Broadcasts')
  BY <1>2, LinksStay DEF NetInv
<1>9. \A m \in Peers(n) : TimeoutMsg(t) \in Frames'[m]
  BY <1>6 DEF Frames, Peers
<1> DEFINE F == Frames'
<1> HIDE DEF t, F, tcs
<1>10. Linked(sent, F)
  BY <1>8, <1>9, LinkedBroadcast DEF F
<1> HIDE DEF sent
<1>11. Linked(sends(sent, n, core[n], core'[n], tcs), Frames')
  BY <1>2, <1>7, <1>10, SendsHold DEF F
<1> QED  BY <1>1, <1>2, <1>8, <1>11, NetKept DEF Sends

\* While the nodes stand still, links may lose frames.
LEMMA StandStill ==
  ASSUME NetInv, UNCHANGED vars, blocks' = blocks, Linked(link', Frames)
  PROVE  NetInv' /\ UNCHANGED vars
<1>1. UNCHANGED <<core, restarts, database>>
  BY DEF vars
<1>2. TypeOK /\ TypeOK'
  BY <1>1 DEF NetInv, TypeOK
<1>3. Widens(Quiet, Quiet')
  BY <1>1, <1>2, QuietWidens
<1>4. \A k \in Honest : (NodeHolds(core[k], Quiet) /\ TimersHold(core[k]))'
  BY <1>1, <1>3, NodeWidens DEF NetInv
<1> DEFINE F == Frames'
           B == Broadcasts'
<1>5. \A j \in Honest : Broadcasts[j] \subseteq B[j]
  BY <1>1 DEF Broadcasts
<1>6. \A j \in Honest : Frames[j] \subseteq F[j]
  <2>1. \A j : VotesTo(j)' = VotesTo(j)
    BY <1>1 DEF VotesTo
  <2>2. VerifiedTCs \subseteq VerifiedTCs'
    BY <1>3, VerifiedByQuiet, VerifiedNext DEF Widens
  <2> QED  BY <1>3, <2>1, <2>2 DEF Frames, Widens
<1> HIDE DEF F, B
<1>7. Linked(link', F) /\ Linked(blocks', B)
  <2>1. Linked(link', F)
    BY <1>6, LinkedGrows
  <2>2. Linked(blocks, B)
    BY <1>5, LinkedGrows DEF NetInv
  <2> QED  BY <2>1, <2>2
<1> QED  BY <1>1, <1>2, <1>4, <1>7 DEF NetInv, F, B

\* A connection breaks.
LEMMA BreakNet ==
  ASSUME NetInv, NEW n \in Honest, NEW m \in Peers(n), Break(n, m)
  PROVE  NetInv' /\ UNCHANGED vars
<1>1. UNCHANGED vars /\ blocks' = blocks
  BY DEF Break, vars
<1>2. PICK k \in 0..(Len(link[n][m]) - 1) : link' = [link EXCEPT ![n][m] = SubSeq(@, 1, k)]
  BY DEF Break
<1>3. Linked(link', Frames)
  BY <1>2, LinkedPart DEF NetInv
<1> QED  BY <1>1, <1>3, StandStill

\* Every step of Progress is one of Consensus, and keeps the invariant.
LEMMA NetStep == NetInv /\ [NetNext]_netvars => NetInv' /\ [Next]_vars
<1> SUFFICES ASSUME NetInv, [NetNext]_netvars PROVE NetInv' /\ [Next]_vars
  OBVIOUS
<1>1. CASE NetNext
  <2>1. PICK n \in Honest : Work(n) \/ Expire(n) \/ \E m \in Peers(n) : Break(n, m)
    BY <1>1 DEF NetNext
  <2>2. CASE Work(n)
    BY <2>2, ReceiveProposalNet, ReceiveMessageNet, ReceiveLoopbackNet, ProposeNet DEF Work
  <2>3. CASE Expire(n)
    BY <2>3, ExpireNet
  <2>4. CASE \E m \in Peers(n) : Break(n, m)
    BY <2>4, BreakNet
  <2> QED  BY <2>1, <2>2, <2>3, <2>4
<1>2. CASE UNCHANGED netvars
  BY <1>2, StandStill DEF netvars, vars, NetInv
<1> QED  BY <1>1, <1>2

\* The first states: nothing was signed, and the links are empty.
LEMMA NetInitHolds == NetInit => NetInv
<1> SUFFICES ASSUME NetInit PROVE NetInv
  OBVIOUS
<1>1. Init /\ TypeOK
  BY TypeInit DEF NetInit
<1>2. Sound(Quiet)
  BY <1>1, QuietSound
<1>3. ASSUME NEW n \in Honest PROVE NodeHolds(core[n], Quiet) /\ TimersHold(core[n])
  <2>1. core[n] = boot(n, {}, InitBatches, NothingSent)
    BY <1>1 DEF Init
  <2>2. /\ InitBatches \in SUBSET Payload /\ {} \in SUBSET Block
        /\ NothingSent \in SentType
        /\ NothingSent.delivered = <<>> /\ NothingSent.voted = {}
        /\ NothingSent.timed_out = {} /\ NothingSent.proposed = {}
    BY BoundsAssumption DEF NothingSent, SentType
  <2>3. SentHolds(NothingSent, Quiet)
    BY <2>2 DEF SentHolds, Range
  <2>4. Kept(boot_fields({}, InitBatches, NothingSent), core[n])
    BY <2>1, <2>2, Boot
  <2>5. core[n].timed_out = {}
    BY <2>2, <2>4 DEF Kept, boot_fields
  <2> QED  BY <1>2, <2>1, <2>2, <2>3, <2>5, BootNode DEF TimersHold
<1>4. \A F : Linked(link, F)
  BY DEF NetInit, Linked
<1> QED  BY <1>1, <1>3, <1>4 DEF NetInit, NetInv

\* What the core sends over connections that break and lose frames, and assembles
\* of what arrives, is what Consensus lets the network deliver: its safety is that
\* of Progress.
THEOREM ProgressIsConsensus == NetSpec => Spec
<1>1. NetInit => Init
  BY DEF NetInit
<1> QED  BY <1>1, NetInitHolds, NetStep, PTL DEF NetSpec, Spec

\* So the connections and the senders keep to the ledger, too: within the fault
\* bound each application is handed the blocks of one growing chain, and nothing
\* else, whatever is lost on the way.
THEOREM ProgressIsLedger ==
  ASSUME MaxRestarts = 0, FaultBound
  PROVE  NetSpec => IsLedger
BY ProgressIsConsensus, ImplementsLedger, PTL
=============================================================================
