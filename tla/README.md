# A verification development for the consensus node

This directory models the BFT consensus protocol implemented under
`src/consensus` (a two-chain HotStuff with quorum and timeout certificates, a
mempool that disseminates batches, and an adaptive round timer), checks the
models with TLC and proves theorems about them with TLAPS. Paths below are
relative to the root of the repository's sources; a bare `core.rs` is
`consensus/src/core.rs`.

## 1. Inventory

| Component | Source | State | Operations | Interacts with |
|---|---|---|---|---|
| Core | `core.rs` | `round`, `last_voted_round`, `last_committed_round`, `high_qc`, the aggregator, the timer | `handle_proposal`, `handle_vote`, `handle_timeout`, `handle_tc`, `local_timeout_round`, `process_block`, `commit`, `generate_proposal` | one task: reads `rx_message`, `rx_loopback` and the timer; writes to proposer, network, application |
| Aggregator | `aggregator.rs` | vote makers per round and digest, timeout makers per round | `add_vote`, `add_timeout`, `cleanup` | called by the core |
| Messages | `messages.rs`, `error.rs` | - | `verify` of blocks, votes, QCs, timeouts, TCs | called by the core |
| Committee, leader | `config.rs`, `leader.rs` | stakes, keys | `stake`, `quorum_threshold`, `get_leader` | everyone |
| Proposer | `proposer.rs` | buffer of batch digests | `make_block`, `Cleanup`, wait for acknowledgements | Make/Cleanup from the core, digests from the mempool; blocks to the network and to `rx_loopback` |
| Synchronizer, Helper | `synchronizer.rs`, `helper.rs` | blocks waiting for a parent, request table | `get_parent_block`, `get_ancestors`, retries, answers to other nodes | reads the store, `notify_read`, `rx_loopback` |
| Mempool driver, payload waiter | `consensus/src/mempool.rs` | blocks waiting for batches | `verify`, `Wait`, `Cleanup` | the core, the mempool synchronizer, `rx_loopback` |
| Timers | `timer.rs`, `timer_adaptive.rs`, `timer_exponential.rs`, `timer_fixed.rs` | smoothed round time, variance, timeouts in a row | `on_round_complete`, `reset` | the core |
| Store | `store/src/lib.rs` | key-value map, waiting readers | `write`, `read`, `notify_read` | nearly all tasks |
| Reliable sender | `network/src/reliable_sender.rs` | per peer: queue, messages without an answer | send, reconnect, retransmit | proposer, batch maker |
| Simple senders, receiver | `network/src` | connections | best-effort send, dispatch | core, helpers, synchronizers |
| Batch maker, quorum waiter, processor | `mempool/src` | current batch, pending acknowledgements | seal on size or timer, wait for a quorum, store and announce | client, peers, consensus |
| Mempool synchronizer, helper | `mempool/src/synchronizer.rs`, `helper.rs` | requested digests, round | `Synchronize`, `Cleanup`, retries | consensus, peers, store |
| Crypto, node, client, configuration, scripts | `crypto`, `node`, `benchmark` | - | signatures, start-up, load | - |

How they interact: messages from peers reach the core through a channel; the
core answers through best-effort senders. It hands requests to the proposer over
a channel, and three tasks (proposer, synchronizer, payload waiter) hand blocks
back over `rx_loopback`. The store is shared: it is the only state that outlives
the process, and `notify_read` is how the waiting tasks learn that a parent or a
batch arrived.

What is hard here:

* **Ordering.** Proposals, votes, timeouts, TCs and resumed blocks meet a core in
  any order and from any round, and a handler changes the round in the middle of
  its work (a QC inside a timeout is processed before the timeout is counted).
* **Timers.** The round timer expires while the round's proposal is on its way or
  waits for payload.
* **Crashes.** Only the store survives; `last_voted_round`, `high_qc` and
  `last_committed_round` start from nothing. `benchmark/failure_injection.py`
  kills and restarts nodes on their databases.
* **Commits with gaps.** After a view change the chain skips rounds, and a commit
  has to walk over ancestors it has not delivered.
* **Adversaries.** Within the fault bound anything may be signed by faulty nodes.
* **Queues.** Bounded channels run in both directions between core, proposer,
  synchronizer and payload waiter.

What makes each part correct: the core votes once per round and never after its
own timeout, its timeouts report QCs that cover its votes, committed blocks stay
on one chain, whole chains are delivered; the synchronizer and the payload waiter
resume every block they suspend, once its parent or batches are there, and the
core never meets a stored block without its ancestors; the proposer signs one
block per round; the committee's quorums intersect in an honest node; the timer
keeps its timeout within its bounds; the store answers every waiting reader; the
reliable sender matches answers to messages; the mempool announces batches only
once a quorum holds them. `PROJECT.json` lists the hazards line by line.

## 2. The modules

| Module | What it is |
|---|---|
| `Committee` | authorities, stake as sets of units, quorum threshold, leader (`config.rs`, `leader.rs`) |
| `Blocks` | blocks, certificates and messages (`messages.rs`) |
| `Core` | the handlers of one node as operators on its state (`core.rs`, `aggregator.rs`, and the three tasks behind `rx_loopback`) |
| `Consensus` | the honest nodes, the network and the faulty authorities; one action per message, timer, task and restart; the properties |
| `MCConsensus` | instances for TLC |
| `Ledger` | abstract: what the consensus promises the applications, one chain that grows |
| `TimedCore` | the core's handlers as far as they drive the round timer; time in ticks |
| `TimerAdaptive`, `TimerExponential`, `TimerFixed` | the methods of the three timers |
| `MCTimers` | the instance of `TimedCore` with each timer, and what the README says of each |
| `Progress`, `MCProgress` | the steps of `Consensus` on connections that must deliver, with timers and silent nodes: what gets the nodes ahead |
| `Proposer`, `MCProposer` | buffer, `Make` and `Cleanup`, the hand-over to the core and the wait for acknowledgements |
| `ReliableLink` | abstract: what a reliable sender promises about the messages to one peer |
| `ReliableSender` | the connection task that is to keep this promise (`network/src/reliable_sender.rs`) |
| `Mempool`, `MCMempool` | batch maker, quorum waiter and processor, joined by bounded channels (`mempool/src`) |
| `Payload`, `MCPayload` | mempool driver, payload waiter and mempool synchronizer: how a node gets the batches of a block |
| `BlockSync`, `MCBlockSync` | core, consensus synchronizer and store: how a node gets the ancestors of a block |
| `BlockSyncProofs` | the invariant behind the core's panic on a missing ancestor; wake-ups, requests and blocks under way |
| `ProposerProofs` | what the proposer guarantees for every committee and every capacity |
| `CommitteeProofs` | theorems about stakes and quorums |
| `ConsensusProofs` | what each handler returns and leaves alone, invariants of `Consensus`, what the nodes' certificates are worth, the safety of the protocol; `Consensus` implements `Ledger`, `Progress` implements `Consensus` |
| `TimerProofs` | the three timers in the hands of the core, for all timeouts |
| `MempoolProofs` | transactions and batches on their way to the consensus |
| `PayloadProofs` | blocks and batches that wait have a task, and batches stay requested until the garbage collection |
| `ReliableSenderProofs` | the connection task is a reliable link, as far as safety goes |

### How the models correspond to the code

*One handler, one step.* The core is a single task; while a handler runs nothing
else changes its fields. `Core` has an operator for each method, taking the
record `c` of the node's fields to the next one, and the operators call each other
where the methods do. An action of `Consensus` is one iteration of `Core::run` or
of one of the tasks around it.

*Blocks.* A digest covers author, round, payload and the parent's digest, so it
stands for the whole chain. A block is that chain: the sequence of its
`[round, payload]` entries from genesis, and `Genesis` is the empty sequence. The
QC of a block is represented by the block it certifies. The TC a block carries is
not covered by its digest, so it travels beside the block (`Proposal`), and two
proposals may differ in it alone. `NoTC` (round 0) is Rust's `None`: no node times
out in round 0. The author is the leader of the round, as `handle_proposal`
demands.

*Signatures.* What an honest node signed stays in its record (`voted`,
`timed_out`, `proposed`). A QC verifies if the honest voters and the faulty
authorities have the stake of a quorum; a TC likewise, by the QC rounds its
honest signers reported. Faulty authorities sign anything, QCs and TCs that
verify may appear in any message, and no more than that. An honest block may turn up
with the TC it was sent with, with any other TC that verifies, or with none, since
its signature does not cover the TC. This allows more deliveries than the code has (a
certificate nobody assembled).

*Network.* The records of what was sent never shrink, and a message in them may be
delivered any number of times, in any order, or never: loss, duplication, delay
and reordering. The Helper answers a sync request with a block stored before,
which is such a second delivery. Votes go to the next leader only; a faulty
leader may pass them on. A vote for a digest with another round than the block's
is not modelled: a quorum of signatures on it would be needed for any effect.

*The tasks behind `rx_loopback`.* `pending`, `awaiting` and `loopback` are the
blocks held by the synchronizer, by the payload waiter, and on the way back. The
channels to these tasks are merged with the tasks: a delay between the core's
request and the task's taking it up has the same effect as a later resumption.
`makes` is the queue of `ProposerMessage::Make`.

*Restarts.* `Store::write` only queues the value for the task that owns the database
(`store/src/lib.rs:64-68`), and nobody waits until it is served. A handler finds what
was queued before it, because its reads are queued behind the writes, so `store`
and `batches` of `Core` are what the node sees. A kill may lose writes that have not been
served while the messages sent after them are out: `database[n]` is the set of what
the database may hold at this moment, and `Restart` boots the node on any member of it.
The queue is first in, first out, so a look-up (of a parent other than genesis, or of
the ancestors of a block that is delivered, `LooksUp`) shows that all earlier writes
are served; until the next one, the database may have got any beginning of the later ones (`Behind`).
So a node may boot without a block it voted for. After the last restart nobody asks
any more what a kill would leave, and `database` has the full store only. A stop inside a handler leaves what some
handler completed earlier has left, or this one with its last writes and
sends lost, which is allowed as well.

*Two views of a task.* `Core` takes suspension and resumption of a block as one
step each; `BlockSync` and `Payload` open these steps up. `BlockSync` keeps of a
block only its parent, `Payload` only its round and its batches, and each keeps
of the core only the calls it makes to that component. They are separate models,
not proved to refine `Core`.

*`TimedCore` and the timers.* The record `core` has the round, the round of
`high_qc`, and the timer. The handlers call `on_round_complete`, `reset` and
`start_round` where `core.rs` does; certificates of any round may come at any
time. Time is counted in whole ticks: the floating point of the adaptive timer
becomes integer division, so the two differ by rounding only, and no property
depends on the last digit. `left` is what remains of the sleep, `armed` what it
was last set to. `elapsed` is cut off at `MaxElapsed`.

*`ReliableSender`.* One connection task, its caller (`Send`, `Cancel`) and its
peer. The peer acknowledges every frame, as every `MessageHandler` behind
`network/src/receiver.rs` does first of all. Acknowledgements are matched by
position, as in the code; the model writes which message each one answers only to
state what should hold. A broken connection loses a suffix of the
acknowledgements; its frames may still be dispatched late by the runner the peer
spawned for it, independently of the frames of newer connections. A write on a
connection that is already lost may fail or go unnoticed. The delay before a
reconnection takes any time.

*`Mempool`.* Transactions and batches are numbers in the order of arrival and of
sealing; a batch is the sequence of its transactions. The reliable sender is used
by what `ReliableLink` promises. A faulty peer acknowledges what it likes.
`outbox` is the point inside `seal` where the batch is broadcast and waits for
room in the channel to the quorum waiter. `Process` stores the batch and sends its
digest in one step, and the channel to the consensus is never full. This hides back-pressure,
not a stuck state of these tasks: the proposer reads that channel whatever its buffer holds,
and where the proposer itself gets stuck is the subject of `Proposer`.

*`Payload`.* A waiting task has the field `open`, true until its cancel channel
is used or its sender is dropped with the entry. When a batch and a cancellation
are both there, `select!` may take either branch. The senders on a full channel are
in its queue too, behind the first `Capacity` messages. The core that has a message there does
nothing else (`CoreFree`), and neither does the waiter that has a block there
(`WaiterFree`, `consensus/src/mempool.rs:161`). The two sends of `MempoolDriver::verify` and `cleanup` are one step,
taken when there is room in the channel to the mempool synchronizer; that task waits for
nobody, so the core gets past the first send in any case. `Other` are blocks that
other tasks send on `rx_loopback`. `asked` are the batches for which a
request or an answer is under way, and `Lose` drops one. `collected` is history: the
requests that a cleanup removed, with its round.

*`BlockSync`.* `task` merges `pending` and the futures in `waiting`: none, new,
reading (its command is in the store's channel or its sender in `obligations`),
ready. `core.at` says which read of `get_ancestors` the core waits for. The
store never waits for anyone, so the bound of its channel is left out. A block
may come from another node at any time and any number of times, asked for or not
(an over-approximation); the retries of requests appear as the assumption that a
block which stays in `requests` comes. A restart empties everything but `db`; the
writes the store has not served are lost.

*`Progress`.* It extends `Consensus` and takes its actions, but what a node sends is put
on a connection, `link[n][m]` for the simple sender and `blocks[n][m]` for the reliable
one, and is taken off in order, once (`ReceiveProposal`, `ReceiveMessage`). A handler and the sends it makes are one step:
the core writes to the senders' queues and does not wait for the network.
`sends` reads off the records before and after the handler what it sent: the TC it
assembled and its vote, in the order of the code. A broken connection loses a suffix
of what is on it; the frames before that still arrive, ahead of those of the new
connection; `tc_lost` records whether a TC was among the lost. The faulty nodes are silent, and in the instance every quorum needs all honest nodes
(`EveryoneNeeded`), so that no certified block is unknown to an honest node and none waits
for a parent. A
timer is set to longer than a message takes: it expires when nothing else is under
way (`Due`), and `MaxFaults` times too early.

*`Proposer`.* `at` is the point `make_block` has come to: reading messages, waiting
for room in `rx_loopback`, or for a quorum. Of the core only its traffic with this task
is there: a handler processes a block of another node or one that comes back,
sends the `Cleanup`, and may ask for a block; `outbox` is what it has still to send.
The parent of a block is any block processed before (by its number), which is more than
the protocol allows. The links are those of `ReliableLink`, one per peer. `taken` and
`seen` are history: how often a digest reached the buffer, and how often it had when the
core last processed a block that names it.

*Mutants.* An operator such as `handle_timeout_ignores_qc`, just above `handle_timeout`, is
the same operator with a plausible mistake in it. No specification uses them; they
serve to see that a property notices the mistake.

## 3. The runs

### The voting protocol

These runs use `MCConsensus`. Instances differ in who is honest:

* *an honest majority* (`Majority*`): one honest node with five units of seven is
  a quorum by itself; within the fault bound. Certificates exist only for what it
  signed.
* *two honest nodes* (`TwoHonest*`): two and one units of four against one faulty
  unit, within the fault bound.

| Run | Instance, blocks | Checks | Outcome |
|---|---|---|---|
| `net` (`Net.cfg`) | two honest; a 2-chain, a third block after it and two beside it | `TypeOK`, `RoundOrder`, `OneVotePerRound`, `TimeoutCoversVotes`, `TimeoutsCovered`, `OneProposalPerRound`, `NoVoteAfterTimeout`, `CommittedLocked` | hold |
| `restarts` (`Restarts.cfg`) | majority; a chain with a gap, a second block after it, two restarts | `StoreClosed`, `DeliveredCommitted` | hold |
| `vote_twice` (`VoteTwice.cfg`) | majority; two blocks of round 1, one restart | `OneVotePerRound` | violated |
| `delivery_order` (`DeliveryOrder.cfg`) | majority; a chain with two gaps | `DeliveredInOrder` (ancestors first, and no block twice) | violated |

Bounds, each named in the `.cfg`: `Block` is the universe of blocks (paths of
rounds up to 7, so the round numbers are bounded too); `TimeoutRounds` are the
rounds whose timers may expire; `MaxRestarts`; and, as a state constraint,
`MaxVotes`, `MaxTimeouts`, `MaxWaiting` and `MaxStore` bound what an aggregator,
the waiting tasks and the store hold. They leave the cases that matter. In `net` the
committed block and its rivals are one and two rounds apart: three blocks compete for round
3, the timer of round 2 expires before or after that round's vote, and with the TC between
them the second voting rule decides alone. In `restarts` a batch is missing, so blocks wait for
it; a node loses a block that it voted for, boots, gets on with what others send it, and is
killed once more. A quorum in the instance of two nodes needs a vote of the heavier honest
node and one other, so `MaxVotes` of one per node plus the completing one suffices.
`BoundedNet` leaves out votes that faulty nodes send to a node that is not the next
leader, and a state in which a node holds a timeout of a faulty one is checked but not followed
further, since the TCs made with such timeouts come as messages, too. The theorems of section 4
know none of these bounds.

TLC's deadlock check is on in these runs, but says little: messages stay
deliverable forever, so some step is always possible. None of them assumes
fairness; their properties are safety properties.

### The tasks around the core

| Run | Instance | Checks | Outcome |
|---|---|---|---|
| `timers` (`Timers.cfg`) | each of the three timers, in ticks of half a second: first timeout 4 and limits 3 and 12 for the adaptive one, base 2 and limit 12 for the exponential one, 10 for the fixed one; 3 rounds | `FullTimeout`, `NewRoundUsesLatest`, `KeepsTimingOut` | hold |
| `doubling` (`Doubling.cfg`) | as `timers` | `DoublesOnTimeout` | violated |
| `reliable_sender` (`ReliableSender.cfg`) | 3 messages, channel of 2, 2 broken connections or failed attempts | `AckedArrived`, `Aligned`, `NothingLost`, `IsReliableLink` | hold |
| `mempool` (`Mempool.cfg`) | 4 nodes, one faulty, possibly silent; transactions of sizes 1, 1, 3, batches of size 2, channels of 1 | `TypeOK`, `AnnouncedAtQuorum`, `TransactionsOnce`, `BatchesOnce`, `SizeCounted`, `EveryTransactionAnnounced` | hold |
| `payload` (`Payload.cfg`) | two blocks that share a batch, cleanups of rounds up to 1, `gc_depth` 1, channels of 1, 4 messages and blocks between core and waiter | `EntriesHaveTasks`, `RequestedUntilCollected`, `DroppedOnlyIfOutdated`, `EveryBlockResumed` | hold |
| `block_sync` (`BlockSync.cfg`) | a fork of 4 blocks, channels of 1, 4 blocks under way, one restart | `HasAllAncestors`, `NoLostWakeup`, `MissingRequested`, `NoneForgotten`, `EverySuspendedStored` | hold |
| `proposer` (`Proposer.cfg`) | this node, an honest peer of two units of stake and a faulty one; one digest that arrives twice, two blocks asked for, one of another node, channels of 1 | `DigestsAccounted`, `PreviousAtQuorum`, `OnlyLateRepeated`, `EveryMakeComesBack` | hold |
| `progress` (`Progress.cfg`) | three honest nodes and a silent one, rounds up to 6, one broken connection or early timer before round 4 | `EntireChainDelivered`, `EveryNodeCommits`, `IsLedger` | hold |

*Bounds.* `MaxRound` and `MaxElapsed` for the timers: three rounds let a round be
completed, timed out and followed by another, and no timeout exceeds the 12 ticks
up to which time is told apart. `MaxMessage`, `MaxBreaks` and the capacities: with
three messages and two breaks a message can be in each of the three queues while
frames of an older connection are still under way. `TxSize` and `batch_size`: one
batch filled by two transactions, one by a single one, or any of them sealed by the
timer. `MaxRound` and the two blocks of `Payload`, of rounds 1 and 2: the batch is needed by
blocks of different rounds, so that the cleanup of one leaves the other waiting, and with
`gc_depth` 1 a request may be collected while a block still waits. `Load` is 4, that is
`2 * Capacity + 2`, which fills both channels and has both senders wait: the deadlock of
section 3 is reached. (Two batches, one of them needed by one block only,
multiply the states forty times and take liveness out of reach.) `Load`,
`Capacity` and `MaxRestarts` of `BlockSync`: all four blocks of the fork are under
way at once, two of them wait for one parent, a channel fills up and its sender has to
wait for room, both do, which is again the deadlock, and the restart comes at any of these points.
`MaxCopies`,
`MaxMakes` and `MaxForeign` of `Proposer`: the digest arrives again after it was
proposed, once before and once after a `Cleanup`; the second block is asked for while
the first waits for its quorum and the core waits for room in the channel. Digests do not
influence each other, so one is enough. With a second foreign block both channels between
core and proposer fill up (see below). `StableRound` and `LastRound` of `Progress`: the
fault hits one of the first three rounds, the leader of round 3 is silent, and rounds 4 to
6 with live leaders are left to commit; the timers of all these rounds may expire. Round 3
is skipped on the chain, so blocks are committed before and after the gap, and the second
walk of `commit` has to go over it and end at the first commit. What breaks may have a TC on it.

*Fairness.* Tasks of the runtime are scheduled, hence weak fairness of each task's
steps. `tokio::select!` picks among its ready branches at random, hence strong
fairness of a branch that others may overtake (`TakeLoopback`; in `BlockSync` the branch that
polls the waiting futures, `PollWaiter` and `TakeReady`; in `Payload` both branches of the
waiter, `TakeWait \/ TakeCleanup` and `Resume` or `Cancelled`). Time goes on (`Tick`), and
the core comes to an expired timer.
The connection task and the peer's runner go on, and only finitely many
connections break (`MaxBreaks`). Retries go on forever, so not every answer to a
request repeated forever is lost: strong fairness of `Answer` in `Payload`, and in
`BlockSync` of the arrival of a block that stays in `requests`. In `Mempool` the
honest peers' links are reliable; nothing is assumed of the faulty peer's. In
`Proposer` likewise, and `Cleanup \/ MakeBlock`, the branch of `select!` that reads the
core's messages, has strong fairness against the one that reads digests. In `Progress`
each task, each connection and each timer has weak fairness. Where a handler is
involved it is written out as "infinitely often not ready, or infinitely often
taken", which is what `WF` says, without `ENABLED` of the handler.

*Deadlock.* `reliable_sender`, `mempool`, `proposer` and `progress` switch the check off:
the bounded number of messages, transactions, blocks or rounds is used up and the system
rightly stops. That it does not stop before is what their liveness properties say. `payload` and
`block_sync` switch it off because the code does deadlock there, with both channels between core
and task full. `Deadlocked` in either module says what that state is, and the
liveness properties of the two runs say that nothing else stops a block for good. In
all others the check is on.

*Refinement.* `IsReliableLink` is `ReliableLink`'s fair specification with
`received` mapped to the set of frames that arrived: nothing is acknowledged that
was not received, nothing overtakes an earlier message that is not cancelled, and
what is not cancelled is acknowledged in the end. `Mempool` is built on that
abstract link. `IsLedger` is `Ledger`, with `chain` mapped to the longest chain any
application has got, and `delivered` to the sets of blocks that they were handed. So one
chain grows, no application gets a block beside it, and each gets all blocks up to the one
it got last. `Ledger` promises neither an order within one commit nor that a block comes
once, which the code does not keep (see `delivery_order` and `NoRedelivery` below), and
does not count genesis, which comes with the first commit when round 1 is
not on the chain. It is checked on `progress`, where blocks are made, voted for and
committed by all three honest nodes.

### What the violations show

* `vote_twice`: `last_voted_round` lives in memory only, so a node that voted,
  stopped and booted on the same store votes for another block of that round
  (`core.rs:112-114`; the TODO there names the missing write).
* `delivery_order`: `commit` pushes ancestors at the front of its queue and pops
  from the back, so with two or more ancestors to deliver the newer goes first and
  the head last of all (`core.rs:120-150`).
* `doubling`: "Doubles on timeout, resets to base on success" (`README.md:71`) is
  what the exponential timer is to do. But `process_qc` calls `on_round_complete` for every QC it is given, the
  `high_qc` inside the node's own timeout included (`core.rs:307`), so a timeout resets the
  count right after `reset` raised it, and timeouts in a row never sleep longer
  than twice the base.

### What the passing runs allow for

Four times a property that passes has to name a case in which the code does not get on.

* *Three deadlocks of one shape.* Payload
  waiter, synchronizer and proposer send on the bounded `rx_loopback` from the loop that
  reads the channel the core writes to (`consensus/src/mempool.rs:161`, `synchronizer.rs:78`,
  `proposer.rs:100`), and the core waits for room in that channel from the loop
  that reads `rx_loopback`. With both channels full and both senders waiting, `2 * Capacity + 2`
  entries, neither goes on. The code's capacity is 1000, so this takes some 2002 blocks under
  way. `EveryBlockResumed` and `EverySuspendedStored` have the disjunct `Deadlocked`: without it TLC
  refutes both. For the proposer it takes two foreign blocks: `EveryMakeComesBack` is refuted in
  `Proposer.cfg` with `MaxForeign = 2` and `MaxCopies = 0`, and holds with `MaxForeign = 1`.
* *A lost TC.* A TC, and a timeout behind it, are lost to one node. It stays in its round;
  the others have left it, and their next leader is silent. All time out in their own
  rounds for good: a timeout is broadcast again with each expiry, but those of lower rounds
  are ignored (`core.rs:230`), and no TC is sent again (`core.rs:257`). A QC that reaches the
  node in a proposal or in a timeout would help it, and the others can make none without
  its vote. `EveryNodeCommits` has the disjunct `<>tc_lost /\ <>[]Apart`, without which it is
  refuted.

### One change of a configuration away

The modules state more that does not hold. The runs are kept to a dozen, so each of these
is to be added to the configuration named; TLC then refutes it.

* `NoRedelivery`, an invariant of `Net.cfg` with `Block <- ForkBlocks` and `MaxStore = 8`: the
  walk of `commit` ends at a parent whose round is at most
  `last_committed_round + 1`. When that round was skipped on the chain, the last committed
  block itself is delivered once more (`core.rs:126`).
* `ResetsOnSuccess`, a property of `Timers.cfg`: `reset` tells a timeout from a success by
  comparing the time in the round
  with the current timeout, which `on_round_complete` has just set to the base. A round
  completed between the base and its own longer timeout counts as timed out
  (`timer_exponential.rs:57`), against `README.md:71` again.
* `SamplesCompletedRounds`, a property of `Timers.cfg`: `README.md:56` has `on_round_complete`
  called when "the round completed
  successfully". It is called for old QCs and for the node's own timeout too, and takes the age of
  the current round as a sample each time (`timer.rs:46`).
* `HandlesOutliveDelivery`, a property of `Mempool.cfg`: the quorum waiter is to give slower nodes
  "a bit of extra time"
  (`quorum_waiter.rs:104`). It keeps their handles only if a counter that starts at 0, and grows
  only in that branch, has reached its limit, so it drops them at once
  (`quorum_waiter.rs:107`).
* `WantedRequested`, an invariant of `Payload.cfg`: "Keeps the digests (of batches) that are
  waiting to be processed by the consensus" (`mempool/src/synchronizer.rs:43`). The synchronizer
  collects a request `gc_depth` rounds after the
  round of the last cleanup before it was registered, not after that of the block that
  needs it (`mempool/src/synchronizer.rs:158`). A block further ahead loses its request, and
  comes back only if the batch arrives by itself. `RequestedUntilCollected` in `payload` shows
  that nothing but this collection takes a request away, and never sooner.
* `TCProposalsVotable`, an invariant of `Restarts.cfg`: the leader that handles a TC
  proposes with its own `high_qc`, which may be below the QCs the TC reports, and then nobody can
  vote for the block (`core.rs:408`, against the rule at `core.rs:105`). No line of the
  repository promises otherwise.

And one holds: `Spec` (of `Consensus`) as a property in `Progress.cfg` with `MaxFaults = 0`. The
nodes do nothing that `Consensus` does not allow. `ProgressIsConsensus` proves this for every
instance; with faults TLC needs too long for it.

## 4. The theorems

`tlapm` checks `CommitteeProofs`, `ConsensusProofs`, `TimerProofs`,
`BlockSyncProofs`, `ProposerProofs`, `MempoolProofs`, `PayloadProofs` and
`ReliableSenderProofs`. The theorems hold for every committee, block universe and bound that satisfies the
named assumptions: finitely many units of stake (`UnitsAssumption`), each
authority once in `keys` (`KeysAssumption`), a total stake whose double fits the
32 bits of the sum (`StakeAssumption`), some stake at all and channels with room for an
entry (`ProposerAssumption`), a finite universe of blocks closed under
ancestors (`BlockAssumption`), and well-formed bounds (`BoundsAssumption`,
`ProgressAssumption`, `MempoolAssumption`, `PayloadAssumption`, `SyncAssumption`,
`LinkAssumption`, `TimedCoreAssumption`, `TimerAssumption`). Some theorems assume more, and
say so in their statement:

* `MaxRestarts = 0`: nobody forgets its last vote. The code keeps it in memory only, and
  `vote_twice` shows that the theorems about votes fail without this.
* `FaultBound`: the faulty stake is at most `f`, the premise of the protocol.
* `Peer # {}`: the committee has more than one member. A committee of one never gets an
  acknowledgement, and its batches stay in the quorum waiter (`quorum_waiter.rs:93`).
* `Setting`: the timer that `TimedCore` is given is one of the three of the code, and time is
  told apart at least up to the longest timeout (`MaxElapsed` is a bound of the model).

### The consensus

* `ThresholdIsAllButF`: `2N/3 + 1` is `N - f` for `N = 3f + 1 + k`, the comment at
  `config.rs:68`.
* `QuorumIntersection`: two quorums share an honest authority if the faulty stake
  is at most `f`. Argument: stakes are cardinalities, so two sets weigh what their
  union and intersection weigh together.
* `TypeCorrect` (`TypeOK`). Not only bookkeeping: it needs that a TC is made of a
  nonempty finite set of timeouts (its maximum exists) and that the commit walk
  ends on the path to the committed block. The maximum of a finite set is had from
  a smallest counterexample (`LeastNatural`, `MaxOfFinite`).
* `StoreAlwaysClosed` (`StoreClosed`), with any number of restarts, whichever of the
  writes under way each of them loses: "We should have all the ancestors by now" at
  `core.rs:131` and `synchronizer.rs:147`. It says nothing of the blocks the node
  voted for, which may be among the lost ones, only that what is left holds together.
  `StoreClosed` is not inductive: a block that comes back through `rx_loopback`
  goes to the store without its payload being looked at again. `StoreInv` adds
  that the batches of every block in `pending` and `loopback` are stored.
* `NeverVotesTwice` (`OneVotePerRound`) and `NeverVotesAfterTimeout`
  (`NoVoteAfterTimeout`), for `MaxRestarts = 0`. The inductive invariant `VoteInv`
  says that `last_voted_round` is no lower than any round the node voted or timed
  out in. The hypothesis cannot be dropped: `vote_twice` refutes the first without
  it.
* `RoundsInOrder` (`RoundOrder`) and `TimeoutsAreCovered` (`TimeoutsCovered`), with any
  number of restarts. What a node holds is worth what the committee signed. `World`
  collects the QCs and TCs that verify and the votes and timeouts that are authentic;
  `NodeInv` says that every node holds nothing else, in its rounds, its aggregator, its
  waiting blocks, the requests to its proposer and the messages it sent, and that each of
  its timeouts reports a QC it has seen. A step of one node changes the world of all:
  `World` only grows (`Widens`), and what `NodeHolds` asks for is kept by a larger world.
* `OnlyCommittedDelivered` (`DeliveredCommitted`), with any number of restarts: also part
  of `NodeInv`.
* `TimeoutsCoverVotes` (`TimeoutCoversVotes`) and `NeverProposesTwice`
  (`OneProposalPerRound`), for `MaxRestarts = 0`. `MemoryInv` adds to `VoteInv` what a
  node remembers: the QC of each block it voted for is no higher than its `high_qc`
  (`CoverHolds`), and the requests in the proposer's channel are for rounds that climb and
  are above every block it made (`ProposalsHold`).
* `CommittedStaysLocked` (`CommittedLocked`), for `MaxRestarts = 0` and `FaultBound`. The
  argument of the protocol: take a certified block of the lowest round that is not below
  the committed head and does not descend from it. Its quorum and that of the head's child
  share an honest node (`QuorumIntersection`), which voted for the head's child before, so
  by the voting rule the block either extends a QC of that round or a later one, or
  carries a TC whose quorum again shares an honest node; by `TimeoutCoversVotes` this one
  reported the head's QC or a higher one. Either way the parent is certified, of a lower
  round and not below the head, so it descends from the head.
* `EntireChainAlwaysDelivered` (`EntireChainDelivered`), same assumptions. `ChainInv` says
  that a node has delivered the head of the round in `last_committed_round` and with every
  block its parent; a new commit descends from that head by `CommittedStaysLocked`, so the
  walk of `commit` stops where the delivered chain begins (`WalkMeetsChain`).
* `NodesAgree` (`Agreement` in `Consensus`), same assumptions: of any two blocks delivered,
  by whomever, one descends from the other. It follows from `DeliveredCommitted` and
  `CommittedLocked`, which runs check; no run checks `Agreement` itself.

* `ImplementsLedger` (`IsLedger`), same assumptions: what the protocol is for, in one
  statement. `LedgerInv` says that what a node has delivered is exactly the chain to the head
  of the round in `last_committed_round`. A step that delivers delivers the chain to another
  head, of a higher round, which descends from the old one (`LedgerStep`, from
  `CommittedStaysLocked` and `WalkMeetsChain`); by `OneBranch` it descends from the longest
  chain any node has got, or the other way round. In the first case the chain of `Ledger`
  grows and in the second it stays, and in both the node is handed a beginning of it.
* `ProgressIsConsensus` (`Spec`, as a property of `NetSpec`): the safety of `Consensus` is
  that of the core on its connections, for every committee, any number of broken connections
  and timers that expire early. `Consensus` lets the network deliver whatever was signed
  and verifies; what has to be shown is that nothing else gets onto a connection. `NetInv`
  says that the frames to a node are votes it collects, timeouts and TCs that verify, and
  proposals honest nodes made. A TC is the hard case: it is put together by a node out of the
  timeouts it holds, after it processed a QC that may have dropped some of them
  (`Assembled`). It verifies because the node holds only authentic timeouts, and it is one of
  those that `Consensus` admits because all of them are from honest nodes, of rounds whose
  timers expire, and report QCs of lower rounds. So the inductive invariant is about the
  smaller world `Quiet`, without the timeouts that faulty authorities might sign. The
  lemmas about one node hold in every world that is `Sound`, this one included.
* `ProgressIsLedger` (`IsLedger`), for `MaxRestarts = 0` and `FaultBound`: the two together.

The proofs about `Consensus` go through one lemma per handler (the record is well
formed again, and `Kept`, `VotesStep` or `NodeStep` say what else it guarantees), one lemma,
`HonestStep`, that reduces every action of `Next` to `Moves(n)` or
`Restart(n)`, and a short inductive argument per theorem.

### The timers

* `NoRoundGivenUpEarly` (`FullTimeout`) and `NewRoundsUseLatest` (`NewRoundUsesLatest`), under `Setting`: for all three timers, all
  values of the timeouts, any number of rounds, and certificates of any age at any time.
  `FullTimeout` speaks of the moment when the sleep is over; its invariant `Paced` of all others:
  what is over of the sleep has passed on the round's clock. It is kept because wherever the
  code sets the sleep anew it also starts the clock, and because `on_round_complete`, which
  any old QC calls, touches neither. `RoundComplete` and
  `SleepReset` say this of each timer; the arithmetic of the estimates needs no more than that the
  timeouts stay within their limits (`Ticks`).

### The tasks around the core

* `AncestorsAlwaysFound` (`HasAllAncestors`), from `SyncAssumption` alone: any set
  of blocks with any parents, any capacity, load and number of restarts. The
  property speaks of one answer; the inductive invariant `IInv` follows a block
  from the first read to the write: the database holds the parent of every block in
  it, at most one read is under way and it is the one the core waits for
  (`OneRead`), a write in the store's channel is of a block whose parent is stored
  (`WritesClosed`), and the core has seen the parent before it asks for the
  grandparent (`CoreKnows`). A restart loses commands, never the closure. This is
  the same panic as in `StoreAlwaysClosed`, now with the reads, the queue of the
  store and the writes that are on their way.
* `WakeupNeverLost` (`NoLostWakeup`) and `MissingStaysRequested` (`MissingRequested`), for
  any tree, capacity and number of restarts. `WaitInv` follows a waiter: its
  `notify_read` is in the store's channel or its sender among the obligations; an
  obligation is for a key that is not written; a task that is ready has its parent. A
  write and a `notify_read` may come to the store in either order, and in both the
  waiter is told.
* `NoBlockForgotten` (`NoneForgotten`), a step property: a block leaves the hands of a
  task only into those of another or into the database. It takes `IInv` before and after
  the step, for the core to be given what it reads.
* `QuorumHoldsBlocks` (`PreviousAtQuorum`): "Wait for 2f+1 nodes to acknowledge our block"
  (`proposer.rs:105`). `QuorumInv` says that what an honest peer acknowledged it received,
  that only acknowledged blocks are counted, and that every block but the one the
  proposer works on is held by a quorum; a set that grows stays a quorum
  (`QuorumMonotone`), and when all peers have answered, all authorities together are one.
* `NoDigestLost` (`DigestsAccounted`): only digests of blocks that the core processed are in
  a `Cleanup` on its way (`AccountInv`).
* `OnlyLateDigestsRepeated` (`OnlyLateRepeated`): a step property, from an invariant about
  order. `queue` is the channel followed by what the running handler has still to send.
  `LateInv` says that a digest in the buffer that the core met since it got there is
  removed by a message in `queue`, and that this message is ahead of every request for
  a block that was made after that. The lemmas `Queue*` say what each kind of step does
  to `queue`.

* `MempoolTypes` (`TypeOK`), `EveryTransactionInOneBatch` (`TransactionsOnce`) and
  `SizeAlwaysCounted` (`SizeCounted`): for any transactions, any `batch_size` and any
  capacity. `MempoolTypes` is inductive alone, the other two with it (`MakerInv`). `Size` and the flattening of the batches are recursive
  functions; the lemmas about them (`SizeIsSum`, `SumsOfPrefix` and those after them)
  reason about the smallest prefix for which they could fail.
* `EveryBatchAnnouncedOnce` (`BatchesOnce`, for `Peer # {}`): the batches announced,
  those in the processor's channel, the one the quorum waiter waits for, those in its
  channel and the one in `outbox` are, in this order, 1 to `Len(sealed)`. The property is inductive as it is.
* `AnnouncedHeldByQuorum` (`AnnouncedAtQuorum`): `QuorumInv` says that an honest peer
  acknowledged only what it got, and that the quorum waiter counts only acknowledgements
  of the batch it waits for.
* `EntriesAlwaysHaveTasks` (`EntriesHaveTasks`) and `OnlyOutdatedDropped`
  (`DroppedOnlyIfOutdated`), for any blocks, batches and cleanups, old ones included. The
  tasks of a block that was cancelled and sent again are told apart by `open`: closing is
  by block, so it must not reach the new task. In the synchronizer a batch is
  requested once (`OneRequest`), else the collection of one request would close the task
  of the other. `RoundsPast` says that only rounds the core has cleaned up are under way.
* `WantedStaysRequested` (`RequestedUntilCollected`), for any blocks, any `gc_depth` and
  cleanups in any order: only the collection takes back the request for a batch some block
  waits for, and not before a cleanup `gc_depth` rounds past its round. The batch may be
  shared, requested for a block that was cancelled since, and its round is that of the
  first block that asked. That the request stays as long as the block waits is false, as TLC shows
  (`WantedRequested` in section 3). The invariant `WaitsRequested` includes blocks still in the channel to the waiter, which
  is not the one to the synchronizer.
* `NothingEverLost` (`NothingLost`), `AcksLineUp` (`Aligned`), `AckedHasArrived`
  (`AckedArrived`) and `IsSafeLink` (`Link!Spec`, the safety part of `IsReliableLink`),
  for any number of messages and lost connections and any capacity. `Aligned` alone does
  not show that the acknowledged message arrived, nor that none overtakes. `LinkInv` adds
  that the three queues are in the order of sending and hold exactly what was
  sent and waits (`QueuesOrdered`, `QueuesHold`), that there are no waiting
  messages without a connection, that the acknowledgements under way are
  true (`AcksTrue`), and that on every connection, the lost ones included, each
  frame's predecessors arrived, were cancelled or are ahead of it (`FramesFollow`).
  `SentInOrder` and `QueuesOrdered` give the last for a frame that is sent; `retain` is a
  recursive function, and `Retained` says what it keeps.

### Model-checked only

Every invariant and step property of the passing runs has a theorem. Out of the prover's reach and left to
TLC: liveness under fairness (`IsReliableLink` beyond `Link!Spec`,
`EveryTransactionAnnounced`, `EverySuspendedStored`, `EveryMakeComesBack`,
`EveryBlockResumed`, `KeepsTimingOut`, `EveryNodeCommits`) and `ENABLED`; and what a recursive definition
computes for every input, as far as no smallest counterexample helps. No module has RECURSIVE
operators.

## 5. What is not modelled

The bounds of the senders' queues (1000 messages per connection: a peer that accepts a
connection and does not read stops its sender in the end), the random choice of
addresses in `lucky_broadcast` (any of them, in `Payload`), the random delays before the
sends of the core (any delay), accepting connections in the receiver, errors of the
database, the overflow of the backoff's power of two (the exponent stays small, since each
timeout in a round is counted as the first), the wrap-around of a committee's stake from 2^31 on
(`StakeAssumption`), and the wiring of the tasks, which is in the modules of the tasks it
joins. Faulty nodes that act are in `Consensus`, `Mempool` and `Proposer`; in
`Progress` they are silent. Left out for good: the
cryptography of libraries, serialisation, start-up, command line, load generation
and measurement, which keep no state the protocol depends on.

## 6. Plan

Done: the voting protocol, the timers, the reliable sender, the mempool, payload and
block synchronisation, the proposer, progress after the last fault, the ledger, with the theorems
above. What is left, in the order of importance:

1. An abstract voting protocol (votes, timeouts with the highest QC seen, certified
   blocks) with `Consensus` shown to implement it.
2. Progress with faulty nodes that act and with nodes that lack blocks: it takes
   `BlockSync` in the place of the stores, which is beyond what TLC can do at once.

Runs stay at two to four nodes, one to three batches and queues of one or two
entries.
