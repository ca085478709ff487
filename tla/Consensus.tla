------------------------------ MODULE Consensus ------------------------------
(***************************************************************************)
(* The honest nodes of the committee, each running the core, joined by a   *)
(* network that may lose, duplicate, delay and reorder what is sent, with  *)
(* the faulty authorities as part of the environment.                      *)
(*                                                                         *)
(* What an honest node signed and sent stays in its record (`voted',       *)
(* `timed_out', `proposed') and may be delivered any number of times or    *)
(* never.  A faulty authority signs anything, and any certificate that     *)
(* verifies may turn up in a message of its own or be relayed.  Helper's   *)
(* answers to sync requests repeat proposals already sent, so they are     *)
(* deliveries of the same message.                                         *)
(*                                                                         *)
(* What a handler writes to the store is queued for the task that owns the *)
(* database (store/src/lib.rs), and no handler waits until it is served:   *)
(* a node that is killed may find that its last writes are missing.        *)
(***************************************************************************)
EXTENDS Core

CONSTANTS
  TimeoutRounds,  \* bound: the rounds whose timers may expire
  MaxRestarts,    \* bound: how many times nodes are restarted
  InitBatches     \* the batches every store holds at the start

ASSUME BoundsAssumption ==
  /\ TimeoutRounds \subseteq Nat \ {0}
  /\ MaxRestarts \in Nat
  /\ InitBatches \subseteq Payload

VARIABLES
  core,           \* the state of each honest node
  restarts,       \* how many restarts there were
  database        \* what the database of each may hold at this moment

vars == <<core, restarts, database>>

\* The certificates of those rounds.  A faulty signer may claim any round for
\* its QC: a claim above the TC's own round has the effect of one equal to it.
TCs == {tc \in [round : TimeoutRounds, high : {RoundOf(b) : b \in Block}
                                                  \union TimeoutRounds] :
          tc.high <= tc.round}

-----------------------------------------------------------------------------
(* What verifies.                                                          *)

\* The honest authorities that signed a vote for b.
Voters(b) == {n \in Honest : b \in core[n].voted}

\* The blocks for which a QC verifies, or QC::genesis() for genesis.
Certified(b) == b = Genesis \/ IsQuorum(Voters(b) \union Faulty)
CertifiedBlocks == {b \in Block : Certified(b)}

\* The honest authorities whose timeout of tc.round a TC with this maximum
\* may hold, and the TCs that verify.
TimedOut(tc) ==
  {n \in Honest : \E t \in core[n].timed_out :
                    t.round = tc.round /\ RoundOf(t.high_qc) <= tc.high}
VerifiedTCs == {tc \in TCs : IsQuorum(TimedOut(tc) \union Faulty)}

-----------------------------------------------------------------------------
(* What may be delivered.                                                  *)

\* A block's digest does not cover its TC: a block signed by an honest node may
\* turn up with another one, or with none.
Proposals ==
  LET sent   == UNION {core[n].proposed : n \in Honest}
      signed == {p.block : p \in sent} \union
                {b \in Block \ {Genesis} : /\ get_leader(RoundOf(b)) \in Faulty
                                          /\ Certified(Parent(b))}
  IN sent \union [block : signed, tc : {NoTC} \union VerifiedTCs]

\* A vote goes to the next leader only; a faulty leader may pass it on.
VotesTo(n) ==
  [author : Faulty, block : Block \ {Genesis}] \union
  UNION { {[author |-> m, block |-> b] :
             b \in {v \in core[m].voted :
                      get_leader(RoundOf(v) + 1) \in {n} \union Faulty}} :
          m \in Honest }

Timeouts ==
  [author : Faulty, round : TimeoutRounds, high_qc : CertifiedBlocks] \union
  UNION { {[author |-> m, round |-> t.round, high_qc |-> t.high_qc] :
             t \in core[m].timed_out} : m \in Honest }

-----------------------------------------------------------------------------
Sent(c) == [delivered |-> c.delivered, voted |-> c.voted,
            timed_out |-> c.timed_out, proposed |-> c.proposed]
NothingSent == [delivered |-> <<>>, voted |-> {}, timed_out |-> {}, proposed |-> {}]

\* What the database holds when all writes are served: a read is queued behind
\* them, so this is what a handler finds in it.
Written(c) == [store |-> c.store, batches |-> c.batches]

Init ==
  /\ core = [n \in Honest |-> boot(n, {}, InitBatches, NothingSent)]
  /\ restarts = 0
  /\ database = [n \in Honest |-> {Written(core[n])}]

\* Whether the step of node n to c is one that looks up the parent of what it
\* stores, or the ancestors of what it delivers: whatever was queued before it
\* has been served by then.
LooksUp(n, c) ==
  \/ \E b \in c.store \ core[n].store : Parent(b) # Genesis
  \/ c.delivered # core[n].delivered

\* The database has got all writes, or only a beginning of those queued since
\* the last look-up.  (After the last restart nobody asks any more.)
Behind(n, c) ==
  IF restarts = MaxRestarts THEN {Written(c)}
  ELSE {Written(c)} \union
       (IF LooksUp(n, c) THEN {Written(core[n])} ELSE database[n])

\* One iteration of the main loop of node n: its record becomes c.
Step(n, c) ==
  /\ core' = [core EXCEPT ![n] = c]
  /\ database' = [database EXCEPT ![n] = Behind(n, c)]
  /\ UNCHANGED restarts

HandleProposal(n, p) == Step(n, handle_proposal(n, core[n], p))
HandleVote(n, vote)  == Step(n, handle_vote(n, core[n], vote))
HandleTimeout(n, t)  == Step(n, handle_timeout(n, core[n], t))
HandleTC(n, tc)      == Step(n, handle_tc(n, core[n], tc))

\* rx_loopback: a block of the proposer or one whose wait is over.
HandleLoopback(n, p) ==
  Step(n, process_block(n, [core[n] EXCEPT !.loopback = @ \ {p}], p))

LocalTimeout(n) ==
  /\ core[n].round \in TimeoutRounds
  /\ Step(n, local_timeout_round(n, core[n]))

\* The proposer takes the next Make: the batches it has buffered are among
\* those in the store.
MakeBlock(n, b) ==
  LET c    == core[n]
      make == Head(c.makes)
      p    == [block |-> b, tc |-> make.tc]
  IN /\ c.makes # <<>>
     /\ b # Genesis /\ Parent(b) = make.qc /\ RoundOf(b) = make.round
     /\ PayloadOf(b) \subseteq c.batches
     /\ Step(n, [c EXCEPT !.makes = Tail(@), !.proposed = @ \union {p},
                          !.loopback = @ \union {p}])

\* The synchronizer's waiter: the parent has reached the store.
ParentStored(n, p) ==
  /\ Parent(p.block) \in core[n].store
  /\ Step(n, [core[n] EXCEPT !.pending = @ \ {p}, !.loopback = @ \union {p}])

\* The payload waiter: every batch of the block has reached the store.
PayloadStored(n, p) ==
  /\ PayloadOf(p.block) \subseteq core[n].batches
  /\ Step(n, [core[n] EXCEPT !.awaiting = @ \ {p}, !.loopback = @ \union {p}])

\* The mempool's processor stores a batch, its own or one it received.
StoreBatch(n, x) ==
  /\ x \notin core[n].batches
  /\ Step(n, [core[n] EXCEPT !.batches = @ \union {x}])

\* The node is killed at some point between two handlers and boots again, with
\* what its database holds by then.
Restart(n) ==
  /\ restarts < MaxRestarts
  /\ restarts' = restarts + 1
  /\ \E d \in database[n] :
       /\ core' = [core EXCEPT ![n] = boot(n, d.store, d.batches, Sent(@))]
       /\ database' = [database EXCEPT ![n] = {d}]

Next ==
  \/ \E p \in Proposals, n \in Honest : HandleProposal(n, p)
  \/ \E n \in Honest : \E vote \in VotesTo(n) : HandleVote(n, vote)
  \/ \E t \in Timeouts, n \in Honest : HandleTimeout(n, t)
  \/ \E tc \in VerifiedTCs, n \in Honest : HandleTC(n, tc)
  \/ \E n \in Honest :
       \/ \E p \in core[n].loopback : HandleLoopback(n, p)
       \/ LocalTimeout(n)
       \/ \E b \in Block : MakeBlock(n, b)
       \/ \E p \in core[n].pending : ParentStored(n, p)
       \/ \E p \in core[n].awaiting : PayloadStored(n, p)
       \/ \E x \in Payload : StoreBatch(n, x)
       \/ Restart(n)

Spec == Init /\ [][Next]_vars

-----------------------------------------------------------------------------
(* Properties.                                                             *)

\* What a node has handed to the application.
Delivered(n) == Range(core[n].delivered)

\* The state of every node stays well formed.
TypeOK ==
  /\ core \in [Honest -> CoreState]
  /\ restarts \in 0..MaxRestarts
  /\ database \in [Honest -> SUBSET [store : SUBSET Block, batches : SUBSET Payload]]

\* The rounds a core keeps stay in order: it has not voted above its round,
\* its round is above that of its highest QC, that QC verifies, and what it
\* committed has a certified child no higher than that QC.
RoundOrder ==
  \A n \in Honest :
    LET c == core[n]
    IN /\ c.last_voted_round <= c.round
       /\ RoundOf(c.high_qc) < c.round
       /\ Certified(c.high_qc)
       /\ c.last_committed_round > 0 =>
            c.last_committed_round + 1 <= RoundOf(c.high_qc)

\* core.rs:112, "Ensure we won't vote for contradicting blocks": a node signs
\* at most one vote per round.
OneVotePerRound ==
  \A n \in Honest : \A b1, b2 \in core[n].voted :
    RoundOf(b1) = RoundOf(b2) => b1 = b2

\* A timeout reports a QC at least as high as the one in every block its
\* signer voted for up to that round: what make_vote's second rule relies on
\* when it compares a block's QC with those of the TC.
TimeoutCoversVotes ==
  \A n \in Honest : \A t \in core[n].timed_out, b \in core[n].voted :
    RoundOf(b) <= t.round => RoundOf(Parent(b)) <= RoundOf(t.high_qc)

\* The timeouts a node holds for its round are no higher than its own QC, so
\* the block it proposes with the TC it makes of them can be voted for.
TimeoutsCovered ==
  \A n \in Honest : \A t \in core[n].timeouts :
    t.round >= core[n].round => RoundOf(t.high_qc) <= RoundOf(core[n].high_qc)

\* "We should have all the ancestors by now" (core.rs:131, synchronizer.rs:147):
\* whatever writes the database of a node has served when the node is killed, a
\* block in it has all its ancestors and its batches there, and what the node
\* delivered is there.  (A block it voted for may be missing.)
StoreClosed ==
  \A n \in Honest : \A d \in database[n] :
    /\ \A b \in d.store : /\ \A i \in 1..Len(b) : SubSeq(b, 1, i) \in d.store
                           /\ PayloadOf(b) \subseteq d.batches
    /\ Delivered(n) \subseteq d.store \union {Genesis}

\* A node that is not restarted signs at most one block per round, and no
\* Make waits for a round it already proposed in.
OneProposalPerRound ==
  \A n \in Honest :
    LET c == core[n]
    IN /\ \A p, q \in c.proposed : RoundOf(p.block) = RoundOf(q.block) => p = q
       /\ \A i \in 1..Len(c.makes) :
            /\ \A p \in c.proposed : RoundOf(p.block) < c.makes[i].round
            /\ \A j \in 1..Len(c.makes) :
                 i < j => c.makes[i].round < c.makes[j].round

\* The heads of the 2-chains among the certified blocks: those with a certified
\* child in the next round.
Committed ==
  {Parent(child) : child \in {k \in CertifiedBlocks \ {Genesis} :
                                RoundOf(k) = RoundOf(Parent(k)) + 1}}

\* Whatever a node hands to the application is the head of a 2-chain or an
\* ancestor of one.
DeliveredCommitted ==
  LET heads == Committed
  IN \A n \in Honest : \A b \in Delivered(n) : \E head \in heads : Extends(head, b)

\* core.rs:123, "Ensure we commit the entire chain": once a block has been
\* delivered, so has every ancestor of it above genesis.
EntireChainDelivered ==
  \A n \in Honest : \A b \in Delivered(n) :
    Parent(b) = Genesis \/ Parent(b) \in Delivered(n)

\* Once a block is the head of a 2-chain, every certified block of its round
\* or a later one descends from it.
CommittedLocked ==
  LET certified == CertifiedBlocks
  IN \A head \in Committed : \A b \in certified :
       RoundOf(b) >= RoundOf(head) => Extends(b, head)

\* No two honest nodes deliver blocks of different branches.
Agreement ==
  \A n, m \in Honest : \A b1 \in Delivered(n), b2 \in Delivered(m) :
    Extends(b1, b2) \/ Extends(b2, b1)

\* The longest chain any application has got.
DeliveredChain ==
  LET blocks == {Genesis} \union UNION {Delivered(n) : n \in Honest}
  IN CHOOSE b \in blocks : \A a \in blocks : Len(a) <= Len(b)

\* What the protocol is for: one chain grows, and the application of every
\* honest node has been handed all blocks of a beginning of it, and nothing
\* else (core.rs:120-150).  Genesis, which comes with the first commit if no
\* block of round 1 is on the chain, is not counted.
Chain == INSTANCE Ledger WITH
  Node <- Honest, chain <- DeliveredChain,
  delivered <- [n \in Honest |-> Delivered(n) \ {Genesis}]
IsLedger == Chain!Spec

\* After its timer expired in a round a node votes for no block of that round
\* or an earlier one.
NoVoteAfterTimeout ==
  [][\A n \in Honest : \A b \in core'[n].voted \ core[n].voted :
       \A t \in core[n].timed_out : t.round < RoundOf(b)]_vars

\* A block proposed on a TC can be voted for: its QC is no lower than those the
\* TC reports (core.rs:408; make_vote's second rule, core.rs:105).
TCProposalsVotable ==
  \A n \in Honest : \A p \in core[n].proposed :
    RoundOf(Parent(p.block)) >= p.tc.high

\* "newly committed blocks" (core.rs:140): no block is delivered twice.
NoRedelivery ==
  \A n \in Honest : \A i, j \in 1..Len(core[n].delivered) :
    core[n].delivered[i] = core[n].delivered[j] => i = j

\* The application gets the chain in order: a block after its ancestors, and not
\* a second time.
DeliveredInOrder ==
  \A n \in Honest : \A i, j \in 1..Len(core[n].delivered) :
    i < j => ~ Extends(core[n].delivered[i], core[n].delivered[j])
=============================================================================
