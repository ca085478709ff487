------------------------------- MODULE BlockSync -------------------------------
(***************************************************************************)
(* How one node comes by the ancestors of a block: the core's way through  *)
(* get_ancestors and store_block, the synchronizer of the consensus        *)
(* (consensus/src/synchronizer.rs) and the store (store/src/lib.rs), three *)
(* tasks joined by channels, with the answers of other nodes.              *)
(*                                                                         *)
(* The store answers its commands one after the other; it never waits for  *)
(* anyone, so the bound of its own channel is left out.  The synchronizer  *)
(* keeps one waiting future for every block of `pending': both are `task'. *)
(* Errors of the database are left out.                                    *)
(***************************************************************************)
EXTENDS Integers, Sequences, FiniteSets

CONSTANTS
  Block, Genesis,
  parent,         \* the block the QC of each block is for
  Capacity,       \* of the channels of core and synchronizer, 1000 in the code
  Load,           \* bound: how many blocks are under way at once
  MaxRestarts     \* bound: how many times the node is restarted

ASSUME SyncAssumption ==
  /\ Genesis \notin Block /\ parent \in [Block -> Block \union {Genesis}]
  /\ Capacity \in Nat \ {0} /\ Load \in Nat /\ MaxRestarts \in Nat

VARIABLES
  db,             \* the blocks in the database
  commands,       \* the channel of the store: [do, block]
  obligations,    \* the blocks whose waiter is in `obligations' for their parent
  core,           \* [at, block, reply]: what process_block waits for
  inner,          \* the channel from the core to the synchronizer
  task,           \* the waiting future of each block in `pending'
  requests,       \* Synchronizer: the parents asked for
  handing,        \* the block the synchronizer is sending to the core, or Genesis
  loopback,       \* the channel from the synchronizer to the core
  restarts

database == <<db, commands, obligations>>
synchronizer == <<task, requests, handing>>
vars == <<database, core, inner, synchronizer, loopback, restarts>>

Idle == [at |-> "idle", block |-> Genesis, reply |-> "none"]

Init ==
  /\ db = {} /\ restarts = 0
  /\ commands = <<>> /\ obligations = {} /\ core = Idle /\ inner = <<>>
  /\ task = [b \in Block |-> "none"] /\ requests = {} /\ handing = Genesis
  /\ loopback = <<>>

pending == {b \in Block : task[b] # "none"}

\* The blocks between rx_message and the database.
UnderWay == Len(inner) + Len(loopback) + Cardinality(pending)
              + Len(SelectSeq(commands, LAMBDA c : c.do = "write"))
              + Len(SelectSeq(<<handing, core.block>>, LAMBDA b : b # Genesis))

-----------------------------------------------------------------------------
(* The store.                                                              *)

Command(do, b) == commands' = Append(commands, [do |-> do, block |-> b])
Serves(do) == commands # <<>> /\ Head(commands).do = do /\ commands' = Tail(commands)

\* A write answers everyone who waits for the key.
\* Mutant: only the first of them.
woken_first(b) ==
  LET all == {w \in obligations : parent[w] = b}
  IN IF all = {} THEN {} ELSE {CHOOSE w \in all : TRUE}
woken(b) == {w \in obligations : parent[w] = b}

Write ==
  /\ Serves("write")
  /\ LET b == Head(commands).block
     IN /\ db' = db \union {b}
        /\ obligations' = {w \in obligations : parent[w] # b}
        /\ task' = [w \in Block |-> IF w \in woken(b) THEN "ready" ELSE task[w]]
  /\ UNCHANGED <<core, inner, requests, handing, loopback, restarts>>

Read ==
  /\ Serves("read")
  /\ core' = [core EXCEPT !.reply =
                IF Head(commands).block \in db THEN "some" ELSE "missing"]
  /\ UNCHANGED <<db, obligations, inner, synchronizer, loopback, restarts>>

\* The waiter of a block asks for the parent.
NotifyRead ==
  /\ Serves("notify_read")
  /\ LET w == Head(commands).block
     IN IF parent[w] \in db
        THEN task' = [task EXCEPT ![w] = "ready"] /\ UNCHANGED obligations
        ELSE obligations' = obligations \union {w} /\ UNCHANGED task
  /\ UNCHANGED <<db, core, inner, requests, handing, loopback, restarts>>

-----------------------------------------------------------------------------
(* The core.                                                               *)

Reading(at, b, of) ==
  /\ core' = [at |-> at, block |-> b, reply |-> "none"]
  /\ Command("read", of)

\* store_block, once the ancestors are known.
StoreBlock(b) == core' = Idle /\ Command("write", b)

process_block(b) ==
  IF parent[b] = Genesis THEN StoreBlock(b) ELSE Reading("parent", b, parent[b])

\* A message with a block, from its leader or from a helper, in answer to a
\* request: at any time and any number of times.
HandleProposal(b) ==
  /\ core = Idle /\ UnderWay < Load
  /\ process_block(b)
  /\ UNCHANGED <<db, obligations, inner, synchronizer, loopback, restarts>>

TakeLoopback ==
  /\ core = Idle /\ loopback # <<>>
  /\ process_block(Head(loopback))
  /\ loopback' = Tail(loopback)
  /\ UNCHANGED <<db, obligations, inner, synchronizer, restarts>>

\* The parent is known, and its parent must be.
ParentFound ==
  /\ core.at = "parent" /\ core.reply = "some"
  /\ LET found == parent[core.block]
     IN IF parent[found] = Genesis THEN StoreBlock(core.block)
        ELSE Reading("grandparent", core.block, parent[found])
  /\ UNCHANGED <<db, obligations, inner, synchronizer, loopback, restarts>>

\* Processing is suspended: the block goes to the synchronizer, and the core
\* waits while the channel is full.
\* Mutants: the block is stored all the same; it is dropped when the channel is full.
ParentMissing_stores ==
  /\ core.at = "parent" /\ core.reply = "missing" /\ Len(inner) < Capacity
  /\ inner' = Append(inner, core.block)
  /\ StoreBlock(core.block)
  /\ UNCHANGED <<db, obligations, synchronizer, loopback, restarts>>
ParentMissing_try_send ==
  /\ core.at = "parent" /\ core.reply = "missing"
  /\ inner' = IF Len(inner) < Capacity THEN Append(inner, core.block) ELSE inner
  /\ core' = Idle
  /\ UNCHANGED <<database, synchronizer, loopback, restarts>>
ParentMissing ==
  /\ core.at = "parent" /\ core.reply = "missing" /\ Len(inner) < Capacity
  /\ inner' = Append(inner, core.block)
  /\ core' = Idle
  /\ UNCHANGED <<database, synchronizer, loopback, restarts>>

\* Without an answer the core panics.
AncestorsFound ==
  /\ core.at = "grandparent" /\ core.reply = "some"
  /\ StoreBlock(core.block)
  /\ UNCHANGED <<db, obligations, inner, synchronizer, loopback, restarts>>

-----------------------------------------------------------------------------
(* The synchronizer: nothing happens in it while it sends to the core.     *)

\* Mutant: the block itself is requested.
to_request_itself(b) == {b}
to_request(b) == {parent[b]}

\* A block already pending is dropped.  A parent not yet in `requests' is asked
\* of the author; the timer asks everyone for what stays in it.
TakeInner ==
  /\ handing = Genesis /\ inner # <<>>
  /\ LET b == Head(inner)
     IN IF b \in pending THEN UNCHANGED <<task, requests>>
        ELSE /\ task' = [task EXCEPT ![b] = "new"]
             /\ requests' = requests \union to_request(b)
  /\ inner' = Tail(inner)
  /\ UNCHANGED <<database, core, handing, loopback, restarts>>

\* A new future is polled and sends its command to the store.
PollWaiter(b) ==
  /\ handing = Genesis /\ task[b] = "new"
  /\ task' = [task EXCEPT ![b] = "reading"]
  /\ Command("notify_read", b)
  /\ UNCHANGED <<db, obligations, core, inner, requests, handing, loopback, restarts>>

\* Mutant: every request goes.
answered_all(b) == requests
answered(b) == {parent[b]}

TakeReady(b) ==
  /\ handing = Genesis /\ task[b] = "ready"
  /\ task' = [task EXCEPT ![b] = "none"]
  /\ requests' = requests \ answered(b)
  /\ handing' = b
  /\ UNCHANGED <<database, core, inner, loopback, restarts>>

HandOver ==
  /\ handing # Genesis /\ Len(loopback) < Capacity
  /\ loopback' = Append(loopback, handing)
  /\ handing' = Genesis
  /\ UNCHANGED <<database, core, inner, task, requests, restarts>>

-----------------------------------------------------------------------------
(* Restarts.                                                               *)

\* Writes not served are lost, those served are kept.
Restart ==
  /\ restarts < MaxRestarts
  /\ restarts' = restarts + 1
  /\ commands' = <<>> /\ obligations' = {} /\ core' = Idle /\ inner' = <<>>
  /\ task' = [b \in Block |-> "none"] /\ requests' = {} /\ handing' = Genesis
  /\ loopback' = <<>>
  /\ UNCHANGED db

StoreStep == Write \/ Read \/ NotifyRead
CoreStep == TakeLoopback \/ ParentFound \/ ParentMissing \/ AncestorsFound

Next ==
  \/ StoreStep \/ CoreStep
  \/ TakeInner \/ HandOver \/ Restart
  \/ \E b \in Block : HandleProposal(b) \/ PollWaiter(b) \/ TakeReady(b)

Spec == Init /\ [][Next]_vars

\* The tasks are scheduled, select! is fair to its branches, and a block the timer
\* keeps asking for comes in the end: the requests and answers may be lost any
\* number of times, so only what stays in `requests' is sure to come.
Fairness ==
  /\ WF_vars(StoreStep) /\ WF_vars(TakeInner \/ HandOver)
  /\ WF_vars(ParentFound \/ ParentMissing \/ AncestorsFound)
  /\ SF_vars(TakeLoopback)
  /\ SF_vars(\E b \in Block : PollWaiter(b) \/ TakeReady(b))
  /\ \A b \in {parent[c] : c \in Block} \ {Genesis} :
       SF_vars(b \in requests /\ HandleProposal(b))

FairSpec == Spec /\ Fairness

-----------------------------------------------------------------------------
(* Properties.                                                             *)

\* synchronizer.rs:147, "We should have all ancestors of delivered blocks": the
\* answer to get_ancestors' second read is never empty, after a restart too, so
\* the core does not panic.
HasAllAncestors == ~ (core.at = "grandparent" /\ core.reply = "missing")

\* No wake-up is lost: a waiter is on the list only for a parent that is not
\* written, and one that reads has its command or its place on the list.
NoLostWakeup ==
  /\ \A w \in obligations : parent[w] \notin db
  /\ \A b \in Block : task[b] = "reading" =>
       \/ b \in obligations
       \/ \E i \in 1..Len(commands) : commands[i] = [do |-> "notify_read", block |-> b]

\* A parent some pending block still lacks stays in `requests', so that the timer
\* asks for it again, although the waiters of several blocks share the entry.
MissingRequested == \A b \in pending : parent[b] \in db \/ parent[b] \in requests

\* The blocks a node holds on their way from rx_message to the database.
Held ==
  (pending \union {core.block, handing}
     \union {inner[i] : i \in 1..Len(inner)} \union {loopback[i] : i \in 1..Len(loopback)}
     \union {commands[i].block : i \in {k \in 1..Len(commands) : commands[k].do = "write"}})
  \ {Genesis}

\* A block the core has begun to process is not forgotten: until it is stored it
\* is in the hands of some task or channel, unless the node restarts.
NoneForgotten == [][restarts' = restarts => Held \subseteq Held' \union db']_vars

\* Core and synchronizer wait for room in each other's channel, with a block in
\* hand that each cannot send: 2 * Capacity + 2 blocks.
Deadlocked ==
  /\ core.at = "parent" /\ core.reply = "missing" /\ Len(inner) = Capacity
  /\ handing # Genesis /\ Len(loopback) = Capacity

\* core.rs:318, "the synchronizer asks for them to other nodes. It will then
\* ensure we process both ancestors in the correct order, and finally make us
\* resume processing this block": once the node is not restarted any more, all it
\* held at some time is stored again and again; with NoneForgotten, each block
\* that is suspended gets into the store.  Only the deadlock of the two full
\* channels can prevent it (synchronizer.rs:78, :128).
EverySuspendedStored ==
  []<>(restarts = MaxRestarts => Held \subseteq db \/ Deadlocked)
=============================================================================
