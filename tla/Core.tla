--------------------------------- MODULE Core ---------------------------------
(***************************************************************************)
(* The consensus core of one node (consensus/src/core.rs) with its         *)
(* aggregator (aggregator.rs) and the three tasks that feed rx_loopback:   *)
(* proposer, synchronizer and payload waiter.                              *)
(*                                                                         *)
(* The core is one task: it takes one message, block or timer tick and     *)
(* runs the whole handler before it takes the next.  A handler is an       *)
(* operator from the record `c' of the node's state to the next one; the   *)
(* operators call each other as the methods of the code do.  A block's QC  *)
(* is represented by the block it certifies: Parent(block), Genesis for    *)
(* QC::genesis().                                                          *)
(***************************************************************************)
EXTENDS Blocks

CoreState ==
  [ round                : Nat \ {0},
    last_voted_round     : Nat,
    last_committed_round : Nat,
    high_qc              : Block,
    votes                : SUBSET Vote,       \* aggregator.votes_aggregators
    timeouts             : SUBSET Timeout,    \* aggregator.timeouts_aggregators
    store                : SUBSET Block,      \* blocks in the store
    batches              : SUBSET Payload,    \* batches in the store
    pending              : SUBSET Proposal,   \* synchronizer: parent missing
    awaiting             : SUBSET Proposal,   \* payload waiter: batch missing
    loopback             : SUBSET Proposal,   \* rx_loopback
    makes                : Seq([round : Nat, qc : Block, tc : TC]),
                                              \* ProposerMessage::Make, queued
    delivered            : Seq(Block),        \* tx_commit
    voted                : SUBSET Block,      \* votes signed and sent
    timed_out            : SUBSET [round : Nat, high_qc : Block],
    proposed             : SUBSET Proposal ]  \* blocks signed and broadcast

-----------------------------------------------------------------------------
(* Rounds and certificates.                                                *)

increase_last_voted_round(c, target) ==
  [c EXCEPT !.last_voted_round = IF target > @ THEN target ELSE @]

\* A round is left for good: its votes and timeouts are dropped with it.
MoveTo(c, round) ==
  [c EXCEPT !.round = round,
            !.votes = {v \in @ : RoundOf(v.block) >= round},
            !.timeouts = {t \in @ : t.round >= round}]

\* Mutant: the test that the round is not an old one is dropped.
advance_round_unguarded(c, round) == MoveTo(c, round + 1)
advance_round(c, round) == IF round < c.round THEN c ELSE MoveTo(c, round + 1)

update_high_qc(c, qc) ==
  IF RoundOf(qc) > RoundOf(c.high_qc) THEN [c EXCEPT !.high_qc = qc] ELSE c

process_qc(c, qc) == update_high_qc(advance_round(c, RoundOf(qc)), qc)

\* generate_proposal, under the test that the node leads its new round.
propose_if_leader(n, c, tc) ==
  IF n = get_leader(c.round)
  THEN [c EXCEPT !.makes =
          Append(@, [round |-> c.round, qc |-> c.high_qc, tc |-> tc])]
  ELSE c

-----------------------------------------------------------------------------
(* Votes and timeouts.                                                     *)

VotersOf(votes, b) == {v.author : v \in {w \in votes : w.block = b}}
AuthorsAt(timeouts, r) == {t.author : t \in {u \in timeouts : u.round = r}}

\* add_vote, and what follows when it returns a QC.  An authority that voted
\* for the block before is an error (AuthorityReuse) that changes nothing.
count_vote(n, c, vote) ==
  LET added == [c EXCEPT !.votes = @ \union {vote}]
  IN IF vote.author \in VotersOf(c.votes, vote.block) THEN c
     ELSE IF IsQuorum(VotersOf(added.votes, vote.block))
          THEN propose_if_leader(n, process_qc(added, vote.block), NoTC)
          ELSE added

handle_vote(n, c, vote) ==
  IF RoundOf(vote.block) < c.round \/ stake(vote.author) = 0 THEN c
  ELSE count_vote(n, c, vote)

\* The certificate TCMaker makes of the timeouts of round r.
MakeTC(timeouts, r) ==
  [round |-> r,
   high  |-> Max({RoundOf(t.high_qc) : t \in {u \in timeouts : u.round = r}})]

\* add_timeout, and what follows when it returns a TC.
count_timeout(n, c, timeout) ==
  LET r     == timeout.round
      added == [c EXCEPT !.timeouts = @ \union {timeout}]
  IN IF timeout.author \in AuthorsAt(c.timeouts, r) THEN c
     ELSE IF IsQuorum(AuthorsAt(added.timeouts, r))
          THEN propose_if_leader(n, advance_round(added, r), MakeTC(added.timeouts, r))
          ELSE added

\* Mutant: the QC in the timeout is not processed.
handle_timeout_ignores_qc(n, c, timeout) ==
  IF timeout.round < c.round \/ stake(timeout.author) = 0 THEN c
  ELSE count_timeout(n, c, timeout)

\* The timeout's QC is processed first: it may advance the round, and drop
\* what was collected, before the timeout is counted.
handle_timeout(n, c, timeout) ==
  IF timeout.round < c.round \/ stake(timeout.author) = 0 THEN c
  ELSE count_timeout(n, process_qc(c, timeout.high_qc), timeout)

\* Mutant: an old TC is not turned away.
handle_tc_any_round(n, c, tc) == propose_if_leader(n, advance_round(c, tc.round), tc)
handle_tc(n, c, tc) ==
  IF tc.round < c.round THEN c
  ELSE propose_if_leader(n, advance_round(c, tc.round), tc)

\* The timeout is signed and sent (its record joins timed_out), then handled
\* like one received.
time_out(n, c) ==
  LET t == [round |-> c.round, high_qc |-> c.high_qc]
  IN handle_timeout(n, [c EXCEPT !.timed_out = @ \union {t}],
                    [author |-> n, round |-> t.round, high_qc |-> t.high_qc])

local_timeout_round(n, c) == time_out(n, increase_last_voted_round(c, c.round))

-----------------------------------------------------------------------------
(* Commits.                                                                *)

\* How many blocks of the path to b the commit walk leaves behind: it goes
\* up the parents while last_committed_round + 1 < parent.round.
WalkEnd(c, b) ==
  Max({i \in 0..Len(b) : RoundOf(SubSeq(b, 1, i)) <= c.last_committed_round + 1})

\* What a commit of b sends to the application: pushed at the front, popped
\* at the back, the newest ancestor first and b itself last.
\* Mutant: the round tested is that of the ancestor instead of the block whose
\* parent it is.
Walk_tests_ancestor(c, b) ==
  Append([i \in 1..(Len(b) - WalkEnd(c, b) - 1) |-> SubSeq(b, 1, Len(b) - i)], b)
Walk(c, b) ==
  LET end == WalkEnd(c, b)
  IN Append([i \in 1..(Len(b) - end) |-> SubSeq(b, 1, Len(b) - i)], b)

\* Mutant: the ancestors are not walked.
commit_head_only(c, b) ==
  IF c.last_committed_round >= RoundOf(b) THEN c
  ELSE [c EXCEPT !.last_committed_round = RoundOf(b), !.delivered = Append(@, b)]
commit(c, b) ==
  IF c.last_committed_round >= RoundOf(b) THEN c
  ELSE [c EXCEPT !.last_committed_round = RoundOf(b),
                 !.delivered = @ \o Walk(c, b)]

\* Mutant: the rounds of the two blocks need not be consecutive.
commit_two_chain_any_gap(c, b0, b1) ==
  commit([c EXCEPT !.awaiting = {q \in @ : RoundOf(q.block) > RoundOf(b0)}], b0)

\* The head of a 2-chain is committed; what waits for payload up to its
\* round is cancelled (mempool_driver.cleanup) even if nothing is delivered.
commit_two_chain(c, b0, b1) ==
  IF RoundOf(b0) + 1 = RoundOf(b1)
  THEN commit([c EXCEPT !.awaiting = {q \in @ : RoundOf(q.block) > RoundOf(b0)}], b0)
  ELSE c

-----------------------------------------------------------------------------
(* Blocks.                                                                 *)

\* The two safety rules of make_vote.
SafetyRule2(p) ==
  LET round    == RoundOf(p.block)
      qc_round == RoundOf(Parent(p.block))
  IN \/ qc_round + 1 = round
     \/ p.tc # NoTC /\ p.tc.round + 1 = round /\ qc_round >= p.tc.high

\* Mutants: a second vote in the same round; no bar at all; the QCs reported
\* in the TC are not looked at.
SafeToVote_same_round(c, p) == RoundOf(p.block) >= c.last_voted_round /\ SafetyRule2(p)
SafeToVote_any_round(c, p) == SafetyRule2(p)
SafeToVote_any_qc(c, p) ==
  /\ RoundOf(p.block) > c.last_voted_round
  /\ SafetyRule2(p) \/ p.tc.round + 1 = RoundOf(p.block)
SafeToVote(c, p) == RoundOf(p.block) > c.last_voted_round /\ SafetyRule2(p)

\* make_vote and the sending of the vote to the next leader.
vote_for(n, c, p) ==
  LET d == [increase_last_voted_round(c, RoundOf(p.block))
              EXCEPT !.voted = @ \union {p.block}]
  IN IF ~SafeToVote(c, p) THEN c
     ELSE IF get_leader(c.round + 1) = n
          THEN handle_vote(n, d, [author |-> n, block |-> p.block])
          ELSE d

\* A block already waiting is not queued a second time, whatever its TC.
Enqueue(waiting, p) ==
  IF \E q \in waiting : q.block = p.block THEN waiting ELSE waiting \union {p}

HasBlock(c, b) == b = Genesis \/ b \in c.store

\* store_block, the commit and the vote: process_block once get_ancestors has
\* found the parent.
accept_block(n, c, p) ==
  LET b1 == Parent(p.block)
      d  == commit_two_chain([c EXCEPT !.store = @ \union {p.block}], Parent(b1), b1)
  IN IF RoundOf(p.block) # d.round THEN d ELSE vote_for(n, d, p)

\* Mutant: the block is stored before its parent is looked up.
process_block_stores_first(n, c, p) ==
  IF HasBlock(c, Parent(p.block)) THEN accept_block(n, c, p)
  ELSE [c EXCEPT !.pending = Enqueue(@, p), !.store = @ \union {p.block}]
process_block(n, c, p) ==
  IF HasBlock(c, Parent(p.block)) THEN accept_block(n, c, p)
  ELSE [c EXCEPT !.pending = Enqueue(@, p)]

\* Mutant: the block's QC is used to advance the round only, and not kept.
handle_proposal_round_only(n, c, p) ==
  LET d == advance_round(advance_round(c, RoundOf(Parent(p.block))), p.tc.round)
  IN IF PayloadOf(p.block) \subseteq d.batches THEN process_block(n, d, p)
     ELSE [d EXCEPT !.awaiting = Enqueue(@, p)]

\* The author is the leader of the block's round; verify asks that it have stake.
handle_proposal(n, c, p) ==
  LET d == process_qc(c, Parent(p.block))
      e == IF p.tc = NoTC THEN d ELSE advance_round(d, p.tc.round)
  IN IF stake(get_leader(RoundOf(p.block))) = 0 THEN c
     ELSE IF PayloadOf(p.block) \subseteq e.batches
     THEN process_block(n, e, p)
     ELSE [e EXCEPT !.awaiting = Enqueue(@, p)]

-----------------------------------------------------------------------------
(* Booting.  Blocks and batches survive in the store; the rest of the core *)
(* starts afresh.  The last four fields record what left the node.         *)

boot_fields(stored, batches, sent) ==
  [ round                |-> 1,
    last_voted_round     |-> 0,
    last_committed_round |-> 0,
    high_qc              |-> Genesis,
    votes                |-> {},
    timeouts             |-> {},
    store                |-> stored,
    batches              |-> batches,
    pending              |-> {},
    awaiting             |-> {},
    loopback             |-> {},
    makes                |-> <<>>,
    delivered            |-> sent.delivered,
    voted                |-> sent.voted,
    timed_out            |-> sent.timed_out,
    proposed             |-> sent.proposed ]

\* Mutants: the core starts in the round of genesis; the blocks are not found
\* again.
boot_in_round_zero(n, stored, batches, sent) ==
  propose_if_leader(n, [boot_fields(stored, batches, sent) EXCEPT !.round = 0], NoTC)
boot_without_blocks(n, stored, batches, sent) ==
  propose_if_leader(n, boot_fields({}, batches, sent), NoTC)

\* run() proposes at once if the node leads round 1.
boot(n, stored, batches, sent) ==
  propose_if_leader(n, boot_fields(stored, batches, sent), NoTC)
=============================================================================
