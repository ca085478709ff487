-------------------------------- MODULE Mempool --------------------------------
(***************************************************************************)
(* The way of a node's own batches through mempool/src: the batch maker    *)
(* seals the transactions of clients into batches and broadcasts them, the *)
(* quorum waiter holds each batch until a quorum acknowledged it, and the  *)
(* processor stores it and announces its digest to the consensus.  Bounded *)
(* channels join the three tasks.                                          *)
(*                                                                         *)
(* Transactions are the numbers 1, 2, ... in the order of their arrival,   *)
(* batches the numbers of their places in `sealed'.  The reliable sender   *)
(* is used by what it promises, ReliableLink, one link to every peer.  A   *)
(* faulty peer may acknowledge what it did not get, or nothing.            *)
(***************************************************************************)
EXTENDS Committee, SequencesExt

CONSTANTS
  self,             \* this authority
  TxSize,           \* the size of each transaction, by its number
  batch_size,       \* a batch that reaches this size is sealed
  Capacity          \* of the channels, 1000 in the code

MaxTx == Len(TxSize)
Peer == Authority \ {self}
Batch == 1..MaxTx               \* a batch holds at least one transaction

ASSUME MempoolAssumption ==
  /\ self \in Honest
  /\ TxSize \in Seq(Nat \ {0})
  /\ batch_size \in Nat /\ Capacity \in Nat \ {0}

VARIABLES
  arrived,              \* how many transactions came
  rx_transaction,
  current_batch, current_batch_size,
  sealed,               \* every batch sealed, a sequence of transactions each
  outbox,               \* the batch the maker broadcast and has to hand on, or 0
  rx_message,           \* from the batch maker to the quorum waiter
  waiting_for,          \* the batch the quorum waiter waits for, or 0
  acks,                 \* whose acknowledgements of it were counted
  rx_batch,             \* from the quorum waiter to the processor
  store, announced,     \* batches stored, digests sent to the consensus
  handles, got          \* by peer: cancel handlers, batches received

maker  == <<arrived, rx_transaction, current_batch, current_batch_size, sealed, outbox>>
waiter == <<waiting_for, acks>>
links  == <<handles, got>>
vars == <<maker, rx_message, waiter, rx_batch, store, announced, links>>

\* The bytes of some transactions.
Size(txs) ==
  LET sum[i \in 0..Len(txs)] == IF i = 0 THEN 0 ELSE sum[i - 1] + TxSize[txs[i]]
  IN sum[Len(txs)]

Init ==
  /\ arrived = 0 /\ rx_transaction = <<>>
  /\ current_batch = <<>> /\ current_batch_size = 0
  /\ sealed = <<>> /\ outbox = 0 /\ rx_message = <<>>
  /\ waiting_for = 0 /\ acks = {} /\ rx_batch = <<>>
  /\ store = {} /\ announced = <<>>
  /\ handles = [p \in Peer |-> [b \in Batch |-> "none"]]
  /\ got = [p \in Peer |-> {}]

-----------------------------------------------------------------------------
(* The batch maker.                                                        *)

Transaction ==
  /\ arrived < MaxTx /\ Len(rx_transaction) < Capacity
  /\ arrived' = arrived + 1
  /\ rx_transaction' = Append(rx_transaction, arrived + 1)
  /\ UNCHANGED <<current_batch, current_batch_size, sealed, outbox,
                 rx_message, waiter, rx_batch, store, announced, links>>

\* The size is counted from nothing again.  Mutant: it is not.
size_kept(size) == size
size_reset(size) == 0

\* Mutant: the batch is copied and not drained.
seal_copies(txs, size) ==
  /\ sealed' = Append(sealed, txs)
  /\ outbox' = Len(sealed) + 1
  /\ handles' = [p \in Peer |-> [handles[p] EXCEPT ![Len(sealed) + 1] = "waiting"]]
  /\ current_batch' = txs /\ current_batch_size' = 0

\* seal(): the batch is drained and broadcast; handing it to the quorum waiter
\* comes next and may have to wait.
seal(txs, size) ==
  /\ sealed' = Append(sealed, txs)
  /\ outbox' = Len(sealed) + 1
  /\ handles' = [p \in Peer |-> [handles[p] EXCEPT ![Len(sealed) + 1] = "waiting"]]
  /\ current_batch' = <<>> /\ current_batch_size' = size_reset(size)

Collect ==
  /\ outbox = 0 /\ rx_transaction # <<>>
  /\ LET txs  == Append(current_batch, Head(rx_transaction))
         size == current_batch_size + TxSize[Head(rx_transaction)]
     IN IF size >= batch_size THEN seal(txs, size)
        ELSE /\ current_batch' = txs /\ current_batch_size' = size
             /\ UNCHANGED <<sealed, outbox, handles>>
  /\ rx_transaction' = Tail(rx_transaction)
  /\ UNCHANGED <<arrived, rx_message, waiter, rx_batch, store, announced, got>>

\* The timer seals what there is.  Mutants: only what is large enough; even
\* nothing.
due_if_full == current_batch_size >= batch_size
due_always == TRUE
due == current_batch # <<>>
SealOnTimer ==
  /\ outbox = 0 /\ due
  /\ seal(current_batch, current_batch_size)
  /\ UNCHANGED <<arrived, rx_transaction, rx_message, waiter, rx_batch,
                 store, announced, got>>

HandOn ==
  /\ outbox # 0 /\ Len(rx_message) < Capacity
  /\ rx_message' = Append(rx_message, outbox)
  /\ outbox' = 0
  /\ UNCHANGED <<arrived, rx_transaction, current_batch, current_batch_size, sealed,
                 waiter, rx_batch, store, announced, links>>

-----------------------------------------------------------------------------
(* The quorum waiter.                                                      *)

\* Mutant: the next batch is taken while one waits.
TakeBatch_any_time ==
  /\ rx_message # <<>>
  /\ waiting_for' = Head(rx_message)
  /\ acks' = {}
  /\ rx_message' = Tail(rx_message)
  /\ UNCHANGED <<maker, rx_batch, store, announced, links>>

\* Without peers there is no handle to wait for, and the batch is dropped.
TakeBatch ==
  /\ waiting_for = 0 /\ rx_message # <<>>
  /\ waiting_for' = IF Peer = {} THEN 0 ELSE Head(rx_message)
  /\ acks' = {}
  /\ rx_message' = Tail(rx_message)
  /\ UNCHANGED <<maker, rx_batch, store, announced, links>>

\* The node's own stake counts.  Mutant: the first acknowledgement will do.
enough_with_any(peers) == peers # {}
enough(peers) == IsQuorum(peers \union {self})

\* The next handle that completes is counted; it does when the peer has
\* acknowledged the batch.  Once there are enough the batch goes to the
\* processor and the handles of the others are dropped: they would be kept only
\* if pending_counter were at DISSEMINATION_QUEUE_MAX, but it is never
\* increased below that, so it stays at 0.
CountAck(p) ==
  /\ waiting_for # 0 /\ handles[p][waiting_for] = "acked" /\ p \notin acks
  /\ LET b == waiting_for
     IN IF ~ enough(acks \union {p})
        THEN /\ acks' = acks \union {p}
             /\ UNCHANGED <<waiting_for, rx_batch, handles>>
        ELSE /\ Len(rx_batch) < Capacity
             /\ rx_batch' = Append(rx_batch, b)
             /\ waiting_for' = 0 /\ acks' = {}
             /\ handles' = [q \in Peer |->
                  [handles[q] EXCEPT ![b] = IF @ = "waiting" THEN "cancelled" ELSE @]]
  /\ UNCHANGED <<maker, rx_message, store, announced, got>>

-----------------------------------------------------------------------------
(* The processor and the links.                                            *)

Process ==
  /\ rx_batch # <<>>
  /\ store' = store \union {Head(rx_batch)}
  /\ announced' = Append(announced, Head(rx_batch))
  /\ rx_batch' = Tail(rx_batch)
  /\ UNCHANGED <<maker, rx_message, waiter, links>>

\* ReliableLink: a batch arrives, after those before it that are not cancelled.
Arrive(p, b) ==
  /\ handles[p][b] # "none" /\ b \notin got[p]
  /\ \A k \in 1..(b - 1) : k \in got[p] \/ handles[p][k] = "cancelled"
  /\ got' = [got EXCEPT ![p] = @ \union {b}]
  /\ UNCHANGED <<maker, rx_message, waiter, rx_batch, store, announced, handles>>

Acknowledge(p, b) ==
  /\ handles[p][b] = "waiting" /\ (b \in got[p] \/ p \in Faulty)
  /\ handles' = [handles EXCEPT ![p][b] = "acked"]
  /\ UNCHANGED <<maker, rx_message, waiter, rx_batch, store, announced, got>>

Link(p, b) == Arrive(p, b) \/ Acknowledge(p, b)

Next ==
  \/ Transaction \/ Collect \/ SealOnTimer \/ HandOn
  \/ TakeBatch \/ Process
  \/ \E p \in Peer : CountAck(p) \/ \E b \in Batch : Link(p, b)

Spec == Init /\ [][Next]_vars

\* The tasks are scheduled, the timer of the batch maker expires, and the links
\* to the honest peers deliver; faulty peers owe nothing.
Fairness ==
  /\ WF_vars(Collect) /\ WF_vars(SealOnTimer) /\ WF_vars(HandOn)
  /\ WF_vars(TakeBatch) /\ WF_vars(Process)
  /\ \A p \in Peer : WF_vars(CountAck(p))
  /\ \A p \in Peer \ Faulty, b \in Batch : WF_vars(Link(p, b))

FairSpec == Spec /\ Fairness

-----------------------------------------------------------------------------
(* Properties.                                                             *)

Tx == 1..MaxTx
Handle == {"none", "waiting", "acked", "cancelled"}

\* Every batch sealed holds a transaction, so there are no more batches than
\* transactions, and the tasks handle batches that were sealed.
TypeOK ==
  /\ arrived \in 0..MaxTx
  /\ rx_transaction \in Seq(Tx) /\ current_batch \in Seq(Tx)
  /\ current_batch_size \in Nat
  /\ sealed \in Seq(Seq(Tx))
  /\ Len(sealed) + Len(current_batch) + Len(rx_transaction) <= arrived
  /\ outbox \in 0..Len(sealed) /\ waiting_for \in 0..Len(sealed)
  /\ rx_message \in Seq(1..Len(sealed))
  /\ rx_batch \in Seq(1..Len(sealed)) /\ announced \in Seq(1..Len(sealed))
  /\ store \subseteq 1..Len(sealed) /\ acks \subseteq Peer
  /\ handles \in [Peer -> [Batch -> Handle]]
  /\ got \in [Peer -> SUBSET Batch]

\* "Wait for the first 2f nodes to send back an Ack" (quorum_waiter.rs:84): a
\* batch reaches the store and the consensus only when a quorum holds it, this
\* node and the faulty ones counted in.
AnnouncedAtQuorum ==
  \A b \in ToSet(rx_batch \o announced) :
    IsQuorum({p \in Peer : b \in got[p]} \union Faulty \union {self})

\* From the client to the batches no transaction is lost, doubled or reordered.
TransactionsOnce ==
  FlattenSeq(sealed) \o current_batch \o rx_transaction = [i \in 1..arrived |-> i]

\* No batch is lost, doubled or reordered between its sealing and its
\* announcement: the tasks hold the batches sealed, the oldest in front.
BatchesOnce ==
  LET held(b) == IF b = 0 THEN <<>> ELSE <<b>>
  IN announced \o rx_batch \o held(waiting_for) \o rx_message \o held(outbox)
     = [i \in 1..Len(sealed) |-> i]

\* The size kept with a batch is its size, and stays below the limit: the batch
\* is sealed by the transaction that reaches it.
SizeCounted ==
  /\ current_batch_size = Size(current_batch)
  /\ current_batch # <<>> => current_batch_size < batch_size

\* Every transaction that arrives gets to the consensus in some batch, with the
\* faulty nodes silent.
EveryTransactionAnnounced ==
  \A tx \in 1..MaxTx :
    (arrived >= tx) ~> (\E b \in ToSet(announced) : tx \in ToSet(sealed[b]))

\* quorum_waiter.rs:104, "Give a bit of extra time to disseminate the batch to
\* slower nodes rather than immediately dropping the handles": the step that
\* delivers a batch drops no handle.
HandlesOutliveDelivery ==
  [][Len(rx_batch') > Len(rx_batch) => handles' = handles]_vars
=============================================================================
