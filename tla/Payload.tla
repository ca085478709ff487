-------------------------------- MODULE Payload --------------------------------
(***************************************************************************)
(* How one node comes by the batches of a block it has been sent: the      *)
(* mempool driver and the payload waiter (consensus/src/mempool.rs), and   *)
(* the synchronizer of the mempool (mempool/src/synchronizer.rs).          *)
(*                                                                         *)
(* The core asks the driver to verify blocks and to clean up; the driver   *)
(* writes to two bounded channels.  The waiter keeps blocks until their    *)
(* batches are stored and then sends them to the core, by a bounded        *)
(* channel too; the synchronizer asks other nodes for batches, once at     *)
(* first and again by a timer; requests and answers may be lost.           *)
(*                                                                         *)
(* The senders of a full channel wait their turn: their messages are the   *)
(* ones behind the first Capacity of the queue, and a task whose message   *)
(* is there does nothing else.  The task at the other end of tx_mempool    *)
(* waits for nobody, so the core waits for room there before it calls.     *)
(*                                                                         *)
(* A waiting task is a record with the field `open', which is true until   *)
(* its cancel channel gets a message or loses its sender.  When a task     *)
(* that is no longer open also finds its batches stored, select! may take  *)
(* either branch.                                                          *)
(***************************************************************************)
EXTENDS Integers, Sequences, FiniteSets

CONSTANTS
  Digest,       \* the batches
  Block,        \* records with a round and the payload, a set of batches
  MaxRound,     \* bound: the rounds of cleanups
  gc_depth,     \* how many rounds behind the last one requests are kept
  Capacity,     \* of the channels, 1000 in the code
  Load,         \* bound: messages and blocks between the core and the waiter
  Other         \* a block another task sends to the core on rx_loopback

Round == 0..MaxRound

ASSUME PayloadAssumption ==
  /\ MaxRound \in Nat /\ gc_depth \in Nat /\ Capacity \in Nat \ {0} /\ Load \in Nat
  /\ Other \notin Block /\ Block \subseteq [round : Nat \ {0}, payload : SUBSET Digest]

VARIABLES
  store,        \* the batches in the store
  to_mempool,   \* tx_mempool: [digests] or [round]
  to_waiter,    \* tx_payload_waiter: [missing, block] or [round]
  pending,      \* PayloadWaiter::run: the blocks with an entry in pending
  waiting,      \*   and its tasks: [block, missing, open]
  loopback,     \* tx_loopback: the blocks on their way to the core
  resumed,      \* the blocks the core has taken from it
  cleaned,      \* the highest round the core has cleaned up to
  requests,     \* Synchronizer::pending: [digest, round]
  fetching,     \*   and its tasks: [digest, open]
  sync_round,   \* Synchronizer::round
  asked,        \* the batches a request or answer is under way for
  collected     \* history: [digest, round, at], the requests of `round' that a
                \* cleanup of the round `at' removed, until the next request

queues == <<to_mempool, to_waiter>>
waiter == <<pending, waiting, loopback>>
core == <<resumed, cleaned>>
synchronizer == <<requests, fetching, sync_round, asked, collected>>
vars == <<store, queues, waiter, core, synchronizer>>

Init ==
  /\ store = {} /\ to_mempool = <<>> /\ to_waiter = <<>>
  /\ pending = {} /\ waiting = {} /\ loopback = <<>> /\ resumed = {} /\ cleaned = 0
  /\ requests = {} /\ fetching = {} /\ sync_round = 0 /\ asked = {} /\ collected = {}

UnderWay == Len(to_waiter) + Cardinality(waiting) + Len(loopback)

-----------------------------------------------------------------------------
(* The driver, called by the core.                                         *)

\* The core's last message to the waiter is in the channel.
CoreFree == Len(to_waiter) <= Capacity

MayCall == CoreFree /\ Len(to_mempool) < Capacity /\ UnderWay < Load

\* A block with all its batches in the store goes on at once.
Verify(b) ==
  LET missing == b.payload \ store
  IN /\ missing # {} /\ MayCall
     /\ to_mempool' = Append(to_mempool, [digests |-> missing])
     /\ to_waiter' = Append(to_waiter, [missing |-> missing, block |-> b])
     /\ UNCHANGED <<store, waiter, core, synchronizer>>

\* The core cleans up for every 2-chain it meets, an old one included.
Cleanup(r) ==
  /\ MayCall
  /\ to_mempool' = Append(to_mempool, [round |-> r])
  /\ to_waiter' = Append(to_waiter, [round |-> r])
  /\ cleaned' = IF r > cleaned THEN r ELSE cleaned
  /\ UNCHANGED <<store, waiter, resumed, synchronizer>>

-----------------------------------------------------------------------------
(* rx_loopback: the core takes blocks from it when it is not in a call, and *)
(* the proposer and the other synchronizer send on it as well.             *)

TakeLoopback ==
  /\ CoreFree /\ loopback # <<>>
  /\ resumed' = resumed \union ({Head(loopback)} \ {Other})
  /\ loopback' = Tail(loopback)
  /\ UNCHANGED <<store, queues, pending, waiting, cleaned, synchronizer>>

SendOther ==
  /\ UnderWay < Load
  /\ loopback' = Append(loopback, Other)
  /\ UNCHANGED <<store, queues, pending, waiting, core, synchronizer>>

-----------------------------------------------------------------------------
(* The payload waiter: nothing happens in it while it sends to the core.   *)

WaiterFree == \A i \in 1..Len(loopback) : i > Capacity => loopback[i] = Other

\* Of these tasks, those of the blocks in bs are no longer open.
Close(tasks, bs) == {[t EXCEPT !.open = @ /\ t.block \notin bs] : t \in tasks}

TakeWait ==
  /\ WaiterFree /\ to_waiter # <<>> /\ "block" \in DOMAIN Head(to_waiter)
  /\ LET wait == Head(to_waiter)
     IN IF wait.block \in pending THEN UNCHANGED <<pending, waiting>>
        ELSE /\ pending' = pending \union {wait.block}
             /\ waiting' = waiting \union
                  {[block |-> wait.block, missing |-> wait.missing, open |-> TRUE]}
  /\ to_waiter' = Tail(to_waiter)
  /\ UNCHANGED <<store, to_mempool, loopback, core, synchronizer>>

\* Mutant: blocks of later rounds go too.
Outdated_next(r) == {b \in pending : b.round <= r + 1}
Outdated(r) == {b \in pending : b.round <= r}

TakeCleanup ==
  /\ WaiterFree /\ to_waiter # <<>> /\ "round" \in DOMAIN Head(to_waiter)
  /\ LET outdated == Outdated(Head(to_waiter).round)
     IN /\ pending' = pending \ outdated
        /\ waiting' = Close(waiting, outdated)
  /\ to_waiter' = Tail(to_waiter)
  /\ UNCHANGED <<store, to_mempool, loopback, core, synchronizer>>

\* The block goes to the core, and its entry goes, with the sender in it.
\* Mutant: the entry stays.
Resume_keeps_entry(t) ==
  /\ WaiterFree /\ t.missing \subseteq store
  /\ waiting' = waiting \ {t}
  /\ loopback' = Append(loopback, t.block)
  /\ UNCHANGED <<store, queues, pending, core, synchronizer>>
Resume(t) ==
  /\ WaiterFree /\ t.missing \subseteq store
  /\ pending' = pending \ {t.block}
  /\ waiting' = Close(waiting \ {t}, {t.block})
  /\ loopback' = Append(loopback, t.block)
  /\ UNCHANGED <<store, queues, core, synchronizer>>

Cancelled(t) ==
  /\ WaiterFree /\ ~ t.open
  /\ waiting' = waiting \ {t}
  /\ UNCHANGED <<store, queues, pending, loopback, core, synchronizer>>

-----------------------------------------------------------------------------
(* The synchronizer of the mempool.                                        *)

Requested == {q.digest : q \in requests}
CloseFetching(tasks, ds) == {[f EXCEPT !.open = @ /\ f.digest \notin ds] : f \in tasks}

\* What is not requested yet is asked of the author of the block.
Synchronize ==
  /\ to_mempool # <<>> /\ "digests" \in DOMAIN Head(to_mempool)
  /\ LET missing == Head(to_mempool).digests \ Requested
     IN /\ requests' = requests \union [digest : missing, round : {sync_round}]
        /\ fetching' = fetching \union [digest : missing, open : {TRUE}]
        /\ asked' = asked \union missing
        /\ collected' = {c \in collected : c.digest \notin missing}
  /\ to_mempool' = Tail(to_mempool)
  /\ UNCHANGED <<store, to_waiter, waiter, core, sync_round>>

\* Mutant: the depth is not subtracted.
Expired_now(r) == {q \in requests : q.round <= r}
Expired(r) == IF r < gc_depth THEN {} ELSE {q \in requests : q.round <= r - gc_depth}

CollectGarbage ==
  /\ to_mempool # <<>> /\ "round" \in DOMAIN Head(to_mempool)
  /\ LET expired == Expired(Head(to_mempool).round)
     IN /\ requests' = requests \ expired
        /\ fetching' = CloseFetching(fetching, {q.digest : q \in expired})
        /\ collected' = collected \union
             {[digest |-> q.digest, round |-> q.round, at |-> Head(to_mempool).round] : q \in expired}
  /\ sync_round' = Head(to_mempool).round
  /\ to_mempool' = Tail(to_mempool)
  /\ UNCHANGED <<store, to_waiter, waiter, core, asked>>

\* The batch is there, and its entry goes.
Fetched(f) ==
  /\ f.digest \in store
  /\ requests' = {q \in requests : q.digest # f.digest}
  /\ fetching' = CloseFetching(fetching \ {f}, {f.digest})
  /\ UNCHANGED <<store, queues, waiter, core, sync_round, asked, collected>>

FetchCancelled(f) ==
  /\ ~ f.open
  /\ fetching' = fetching \ {f}
  /\ UNCHANGED <<store, queues, waiter, core, requests, sync_round, asked, collected>>

\* The timer: the requests `old', those older than sync_retry_delay, are sent to
\* other nodes.
\* Mutant: a request is repeated only if it came after a cleanup.
Retry_fresh(old) ==
  /\ old # {} /\ \A d \in old : [digest |-> d, round |-> sync_round] \in requests
  /\ sync_round > 0
  /\ asked' = asked \union old
  /\ UNCHANGED <<store, queues, waiter, core, requests, fetching, sync_round, collected>>
Retry(old) ==
  /\ old # {} /\ old \subseteq Requested
  /\ asked' = asked \union old
  /\ UNCHANGED <<store, queues, waiter, core, requests, fetching, sync_round, collected>>

-----------------------------------------------------------------------------
(* Other nodes, and the processor that stores what they send.              *)

Lose(d) ==
  /\ d \in asked
  /\ asked' = asked \ {d}
  /\ UNCHANGED <<store, queues, waiter, core, requests, fetching, sync_round, collected>>

Answer(d) ==
  /\ d \in asked
  /\ asked' = asked \ {d}
  /\ store' = store \union {d}
  /\ UNCHANGED <<queues, waiter, core, requests, fetching, sync_round, collected>>

\* The broadcast of the batch gets here.
Receive(d) ==
  /\ d \notin store
  /\ store' = store \union {d}
  /\ UNCHANGED <<queues, waiter, core, synchronizer>>

Next ==
  \/ \E b \in Block : Verify(b)
  \/ \E r \in Round : Cleanup(r)
  \/ TakeLoopback \/ SendOther
  \/ TakeWait \/ TakeCleanup \/ Synchronize \/ CollectGarbage
  \/ \E t \in waiting : Resume(t) \/ Cancelled(t)
  \/ \E f \in fetching : Fetched(f) \/ FetchCancelled(f)
  \/ \E old \in SUBSET Digest : Retry(old)
  \/ \E d \in Digest : Lose(d) \/ Answer(d) \/ Receive(d)

Spec == Init /\ [][Next]_vars

\* The tasks are scheduled, select! is fair to its branches, the timer goes on,
\* and of the answers to a request that is repeated forever not all are lost.
Fairness ==
  /\ SF_vars(TakeLoopback) /\ SF_vars(TakeWait \/ TakeCleanup)
  /\ WF_vars(Synchronize \/ CollectGarbage)
  /\ SF_vars(\E t \in waiting : Resume(t) \/ Cancelled(t))
  /\ WF_vars(\E f \in fetching : Fetched(f) \/ FetchCancelled(f))
  /\ \A d \in Digest : /\ WF_vars(\E old \in SUBSET Digest : d \in old /\ Retry(old))
                       /\ SF_vars(Answer(d))

FairSpec == Spec /\ Fairness

-----------------------------------------------------------------------------
(* Properties.                                                             *)

\* The batches that some block above the committed round still waits for.
Wanted ==
  (UNION {t.missing : t \in {u \in waiting : u.open /\ u.block.round > cleaned}}) \ store

\* An entry in pending always has its task: without one the block would be
\* turned away ("contains_key", mempool.rs:138) and never come back.  A batch
\* that is requested has its task as well.
EntriesHaveTasks ==
  /\ \A b \in pending : \E t \in waiting : t.block = b /\ t.open
  /\ \A q \in requests : \E f \in fetching : f.digest = q.digest /\ f.open

\* A block that stops waiting goes to the core, or its round was cleaned up.
DroppedOnlyIfOutdated ==
  [][\A b \in pending \ pending' :
       (\E i \in 1..Len(loopback') : loopback'[i] = b) \/ b.round <= cleaned]_vars

\* Core and waiter wait for room in each other's channel: 2 * Capacity + 2
\* messages and blocks.
Deadlocked == ~ CoreFree /\ ~ WaiterFree

\* The batch was collected gc_depth rounds or more after it was registered.
Collected(d) == \E c \in collected : c.digest = d /\ c.round + gc_depth <= c.at

\* core.rs:392, "the mempool will get it and then make us resume processing this
\* block": every block that is verified with batches missing comes back to the
\* core, unless its round is cleaned up or a batch of it is collected: also when
\* it is sent again, cancelled and sent again.  Otherwise only the deadlock of the
\* two full channels can prevent it (mempool.rs:161).
EveryBlockResumed ==
  \A b \in Block : (b \in pending) ~>
    \/ b \in resumed \/ b.round <= cleaned \/ Deadlocked
    \/ \E d \in b.payload : Collected(d)

\* The synchronizer is about to be asked for the batch.
Queued(d) == \E i \in 1..Len(to_mempool) :
               "digests" \in DOMAIN to_mempool[i] /\ d \in to_mempool[i].digests

\* mempool/src/synchronizer.rs:43, "Keeps the digests (of batches) that are
\* waiting to be processed by the consensus": a batch a block waits for is
\* requested, or about to be.  It fails when the garbage collection comes early.
WantedRequested == \A d \in Wanted : d \in Requested \/ Queued(d)

\* Only the garbage collection takes back a request some block depends on, whether
\* it is the block it was made for or one that shares the batch, and never before
\* the cleanups are gc_depth rounds past the one it was registered with.
RequestedUntilCollected ==
  \A d \in Wanted : d \in Requested \/ Queued(d) \/ Collected(d)
=============================================================================
