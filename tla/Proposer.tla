------------------------------- MODULE Proposer -------------------------------
(***************************************************************************)
(* The proposer of one node (consensus/src/proposer.rs) between the        *)
(* mempool, the core and the network.                                      *)
(*                                                                         *)
(* The mempool announces digests; the core asks for blocks (Make), and for *)
(* the removal of digests it met in a block (Cleanup), in the order of its *)
(* handlers; the proposer broadcasts a block by the reliable sender        *)
(* (ReliableLink), hands it to the core, and does nothing else until a     *)
(* quorum has acknowledged it.  Three bounded channels join the tasks.     *)
(*                                                                         *)
(* Of the core its traffic with the proposer is kept: when it asks for a   *)
(* block is left open, and the ancestors of a block it processes are any   *)
(* it processed before.  A batch may reach the mempool several times, and  *)
(* is announced each time.                                                 *)
(***************************************************************************)
EXTENDS Committee, SequencesExt

CONSTANTS
  self,             \* this authority
  Digest,           \* the digests of batches
  Capacity,         \* of the channel to the proposer, 1000 in the code
  LoopbackCapacity, \* of rx_loopback, likewise
  MempoolCapacity,  \* of the channel from the mempool, likewise
  MaxCopies,        \* bound: how often a batch arrives
  MaxMakes,         \* bound: the blocks the core asks for
  MaxForeign        \* bound: the blocks of others

Peer == Authority \ {self}
Own == 1..MaxMakes              \* the blocks of this node, in their order

ASSUME ProposerAssumption ==
  /\ self \in Honest /\ total_votes > 0
  /\ Capacity \in Nat \ {0} /\ LoopbackCapacity \in Nat \ {0}
  /\ MempoolCapacity \in Nat \ {0}
  /\ MaxCopies \in Nat /\ MaxMakes \in Nat /\ MaxForeign \in Nat

VARIABLES
  rx_mempool,     \* digests on their way to the proposer
  buffer,
  rx_message,     \* from the core to the proposer
  blocks,         \* the blocks the proposer made
  at,             \* what the proposer waits for: a message, room, or a quorum
  acks,           \* whose acknowledgements of the last block were counted
  handles, got,   \* by peer: its cancel handlers, the blocks it received
  loopback,
  outbox,         \* what the handler of the core that runs has still to send
  processed,      \* the blocks the core processed, in their order
  makes, foreign, \* how many blocks the core asked for, and others sent
  taken, seen     \* history: how often each digest reached the buffer, now and
                  \* when the core last processed a block that names it

proposer == <<buffer, blocks, at, acks, handles>>
node == <<outbox, processed, makes, foreign, seen>>
vars == <<rx_mempool, proposer, rx_message, got, loopback, node, taken>>

Init ==
  /\ rx_mempool = <<>> /\ buffer = {} /\ rx_message = <<>>
  /\ blocks = <<>> /\ at = "message" /\ acks = {}
  /\ handles = [p \in Peer |-> <<>>]
  /\ got = [p \in Peer |-> {}]
  /\ loopback = <<>> /\ outbox = <<>> /\ processed = <<>>
  /\ makes = 0 /\ foreign = 0
  /\ taken = [d \in Digest |-> 0] /\ seen = taken

-----------------------------------------------------------------------------
(* The mempool.                                                            *)

Announce(d) ==
  /\ taken[d] + Len(SelectSeq(rx_mempool, LAMBDA x : x = d)) < MaxCopies
  /\ Len(rx_mempool) < MempoolCapacity
  /\ rx_mempool' = Append(rx_mempool, d)
  /\ UNCHANGED <<proposer, rx_message, got, loopback, node, taken>>

-----------------------------------------------------------------------------
(* The core.                                                               *)

\* The number of a block in `processed' stands for it; 0 is genesis.
PayloadAt(i) == IF i = 0 THEN {} ELSE processed[i].payload
QCAt(i) == IF i = 0 THEN 0 ELSE processed[i].qc

\* The digests of a block and of its two ancestors.
cleaned(b) == b.payload \union PayloadAt(b.qc) \union PayloadAt(QCAt(b.qc))

\* A handler asks for a block on top of one processed, or it does not.
Ask(now) ==
  {<<>>} \union
  {<<[kind |-> "make", qc |-> qc, seen |-> now]>> :
     qc \in {i \in 0..Len(processed) : makes < MaxMakes}}

\* Mutant: the Make of a handler goes first.
in_order_make_first(cleanup, make) == make \o cleanup
in_order(cleanup, make) == cleanup \o make

\* process_block from cleanup_proposer on: the vote for b may complete a QC.
process_block(b) ==
  LET now == [d \in Digest |-> IF d \in cleaned(b) THEN taken[d] ELSE seen[d]]
  IN /\ processed' = Append(processed, b)
     /\ seen' = now
     /\ \E make \in Ask(now) :
          /\ outbox' = in_order(<<[kind |-> "cleanup", digests |-> cleaned(b)]>>, make)
          /\ makes' = makes + Len(make)

\* A block of another node, with any payload, over any block known.
Foreign == [payload : SUBSET Digest, qc : 0..Len(processed), own : {0}]

HandleProposal(b) ==
  /\ outbox = <<>> /\ foreign < MaxForeign
  /\ process_block(b)
  /\ foreign' = foreign + 1
  /\ UNCHANGED <<rx_mempool, proposer, rx_message, got, loopback, taken>>

HandleLoopback ==
  /\ outbox = <<>> /\ loopback # <<>>
  /\ process_block(Head(loopback))
  /\ loopback' = Tail(loopback)
  /\ UNCHANGED <<rx_mempool, proposer, rx_message, got, foreign, taken>>

\* The handlers of votes, timeouts and TCs, and booting.
generate_proposal ==
  /\ outbox = <<>>
  /\ \E make \in Ask(seen) \ {<<>>} : outbox' = make
  /\ makes' = makes + 1
  /\ UNCHANGED <<rx_mempool, proposer, rx_message, got, loopback, processed, foreign,
                 seen, taken>>

\* The handler goes on once there is room for its message.
CoreSends ==
  /\ outbox # <<>> /\ Len(rx_message) < Capacity
  /\ rx_message' = Append(rx_message, Head(outbox))
  /\ outbox' = Tail(outbox)
  /\ UNCHANGED <<rx_mempool, proposer, got, loopback, processed, makes, foreign,
                 seen, taken>>

\* The synchronizer or the payload waiter hands a block back to the core.
Resume(b) ==
  /\ foreign < MaxForeign /\ Len(loopback) < LoopbackCapacity
  /\ loopback' = Append(loopback, b)
  /\ foreign' = foreign + 1
  /\ UNCHANGED <<rx_mempool, proposer, rx_message, got, outbox, processed, makes,
                 seen, taken>>

-----------------------------------------------------------------------------
(* The proposer.                                                           *)

TakeDigest ==
  /\ at = "message" /\ rx_mempool # <<>>
  /\ buffer' = buffer \union {Head(rx_mempool)}
  /\ taken' = [taken EXCEPT ![Head(rx_mempool)] = @ + 1]
  /\ rx_mempool' = Tail(rx_mempool)
  /\ UNCHANGED <<rx_message, blocks, at, acks, handles, got, loopback, node>>

\* What a Cleanup leaves in the buffer.  Mutant: nothing.
remaining_none(digests) == {}
remaining(digests) == buffer \ digests

Cleanup ==
  /\ at = "message" /\ rx_message # <<>> /\ Head(rx_message).kind = "cleanup"
  /\ buffer' = remaining(Head(rx_message).digests)
  /\ rx_message' = Tail(rx_message)
  /\ UNCHANGED <<rx_mempool, blocks, at, acks, handles, got, loopback, node, taken>>

\* The block takes all that is in the buffer, and is broadcast.
MakeBlock ==
  /\ at = "message" /\ rx_message # <<>> /\ Head(rx_message).kind = "make"
  /\ blocks' = Append(blocks,
       [payload |-> buffer, qc |-> Head(rx_message).qc, own |-> Len(blocks) + 1])
  /\ handles' = [p \in Peer |-> Append(handles[p], "waiting")]
  /\ buffer' = {}
  /\ at' = "room"
  /\ rx_message' = Tail(rx_message)
  /\ UNCHANGED <<rx_mempool, acks, got, loopback, node, taken>>

\* tx_loopback.  Without peers there is nothing to wait for.
SendBlock ==
  /\ at = "room" /\ Len(loopback) < LoopbackCapacity
  /\ loopback' = Append(loopback, Last(blocks))
  /\ at' = IF Peer = {} THEN "message" ELSE "quorum"
  /\ acks' = {}
  /\ UNCHANGED <<rx_mempool, rx_message, buffer, blocks, handles, got, node, taken>>

\* The node's own stake counts.
\* Mutants: it does not; one acknowledgement will do.
enough_without_own(peers) == IsQuorum(peers)
enough_with_any(peers) == peers # {}
enough(peers) == IsQuorum(peers \union {self})

\* The next acknowledgement; after the last one that is needed the handles of
\* the other peers are dropped.
CountAck(p) ==
  /\ at = "quorum" /\ p \notin acks /\ handles[p][Len(blocks)] = "acked"
  /\ LET counted == acks \union {p}
     IN /\ acks' = counted
        /\ IF enough(counted) \/ counted = Peer
           THEN /\ at' = "message"
                /\ handles' = [q \in Peer |-> [handles[q] EXCEPT ![Len(blocks)] =
                                 IF @ = "waiting" THEN "cancelled" ELSE @]]
           ELSE UNCHANGED <<at, handles>>
  /\ UNCHANGED <<rx_mempool, rx_message, buffer, blocks, got, loopback, node, taken>>

-----------------------------------------------------------------------------
(* The links: what ReliableLink allows.  A peer acknowledges a block before *)
(* it passes it to its core, a faulty one whatever it likes.               *)

Arrive(p, k) ==
  /\ k \in DOMAIN handles[p] \ got[p]
  /\ \A j \in 1..(k - 1) : j \in got[p] \/ handles[p][j] = "cancelled"
  /\ got' = [got EXCEPT ![p] = @ \union {k}]
  /\ UNCHANGED <<rx_mempool, proposer, rx_message, loopback, node, taken>>

Acknowledge(p, k) ==
  /\ k \in DOMAIN handles[p] /\ handles[p][k] = "waiting"
  /\ (k \in got[p] \/ p \in Faulty)
  /\ handles' = [handles EXCEPT ![p][k] = "acked"]
  /\ UNCHANGED <<rx_mempool, rx_message, buffer, blocks, at, acks, got, loopback,
                 node, taken>>

Link(p, k) == Arrive(p, k) \/ Acknowledge(p, k)

Next ==
  \/ \E d \in Digest : Announce(d)
  \/ \E b \in Foreign : HandleProposal(b) \/ Resume(b)
  \/ HandleLoopback \/ generate_proposal \/ CoreSends
  \/ TakeDigest \/ Cleanup \/ MakeBlock \/ SendBlock
  \/ \E p \in Peer : CountAck(p) \/ \E k \in Own : Link(p, k)

Spec == Init /\ [][Next]_vars

\* Core and proposer are scheduled, and the links to honest peers deliver;
\* select! is fair to messages while digests come.
Fairness ==
  /\ WF_vars(HandleLoopback) /\ WF_vars(CoreSends)
  /\ SF_vars(Cleanup \/ MakeBlock) /\ WF_vars(SendBlock)
  /\ \A p \in Peer : WF_vars(CountAck(p))
  /\ \A p \in Peer \ Faulty, k \in Own : WF_vars(Link(p, k))

FairSpec == Spec /\ Fairness

-----------------------------------------------------------------------------
(* Properties.                                                             *)

\* No digest disappears: what reached the proposer is in its buffer, in a block
\* it made, or in a block that the core processed and had it removed.
DigestsAccounted ==
  \A d \in Digest : taken[d] > 0 =>
    \/ d \in buffer
    \/ \E k \in 1..Len(blocks) : d \in blocks[k].payload
    \/ \E i \in 1..Len(processed) : d \in processed[i].payload

\* A block repeats no digest that this node met in another block, or that block's
\* ancestors, before it asked for this one - unless the digest came to the buffer
\* once more, or only, after that.
OnlyLateRepeated ==
  [][\A d \in Digest :
       (Len(blocks') > Len(blocks) /\ d \in Last(blocks').payload)
         => taken[d] > Head(rx_message).seen[d]]_vars

\* "Wait for 2f+1 nodes to acknowledge our block before continuing"
\* (proposer.rs:105): before the proposer does anything else a quorum holds all
\* its blocks, this node and the faulty ones counted in.
PreviousAtQuorum ==
  at = "message" => \A k \in 1..Len(blocks) :
    IsQuorum({p \in Peer : k \in got[p]} \union Faulty \union {self})

\* Every block the core asks for comes back to it and is processed, with the
\* faulty nodes silent: core and proposer never wait for each other for good.
EveryMakeComesBack ==
  \A k \in Own : (makes >= k) ~> (\E i \in 1..Len(processed) : processed[i].own = k)
=============================================================================
