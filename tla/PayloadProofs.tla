----------------------------- MODULE PayloadProofs -----------------------------
(***************************************************************************)
(* A block that waits for its batches is not forgotten, for any blocks and *)
(* batches, any depth of the garbage collection and any capacity of the    *)
(* channels: its entry has a task, it leaves only for the core or because  *)
(* it is outdated, and its batches stay requested until the garbage        *)
(* collection comes to the round they were registered with.                *)
(***************************************************************************)
EXTENDS Payload, SequenceTheorems, TLAPS

\* The messages of the two channels.
SyncMessage  == [digests : SUBSET Digest]
WaitMessage  == [missing : SUBSET Digest, block : Block]
RoundMessage == [round : Round]

TypeOK ==
  /\ store \subseteq Digest /\ asked \subseteq Digest
  /\ to_mempool \in Seq(SyncMessage \union RoundMessage)
  /\ to_waiter \in Seq(WaitMessage \union RoundMessage)
  /\ pending \subseteq Block /\ resumed \subseteq Block
  /\ loopback \in Seq(Block \union {Other})
  /\ collected \subseteq [digest : Digest, round : Round, at : Round]
  /\ waiting \subseteq [block : Block, missing : SUBSET Digest, open : BOOLEAN]
  /\ requests \subseteq [digest : Digest, round : Round]
  /\ fetching \subseteq [digest : Digest, open : BOOLEAN]
  /\ cleaned \in Round /\ sync_round \in Round

\* The rounds under way were cleaned up by the core.
RoundsIn(q, r) == \A i \in 1..Len(q) : "round" \in DOMAIN q[i] => q[i].round <= r
RoundsPast == RoundsIn(to_waiter, cleaned) /\ RoundsIn(to_mempool, cleaned)

\* A batch is requested once.
OneRequest == \A p, q \in requests : p.digest = q.digest => p = q

PayloadInv == TypeOK /\ RoundsPast /\ OneRequest /\ EntriesHaveTasks

-----------------------------------------------------------------------------
(* Types.                                                                  *)

\* Which message it is shows in its fields.
LEMMA MessageKinds ==
  /\ \A m \in WaitMessage \union RoundMessage :
       /\ "block" \in DOMAIN m <=> m \in WaitMessage
       /\ "round" \in DOMAIN m <=> m \in RoundMessage
  /\ \A m \in SyncMessage \union RoundMessage :
       /\ "digests" \in DOMAIN m <=> m \in SyncMessage
       /\ "round" \in DOMAIN m <=> m \in RoundMessage
<1>1. /\ \A m \in WaitMessage : DOMAIN m = {"missing", "block"}
      /\ \A m \in SyncMessage : DOMAIN m = {"digests"}
      /\ \A m \in RoundMessage : DOMAIN m = {"round"}
  BY DEF WaitMessage, SyncMessage, RoundMessage
<1> QED  BY <1>1

\* Closing tasks leaves them what they are.
LEMMA ClosedTasks ==
  ASSUME NEW ts \in SUBSET [block : Block, missing : SUBSET Digest, open : BOOLEAN], NEW bs
  PROVE  /\ Close(ts, bs) \subseteq [block : Block, missing : SUBSET Digest, open : BOOLEAN]
         /\ \A t \in ts : t.block \notin bs => t \in Close(ts, bs)
         /\ \A u \in Close(ts, bs) : u.open => u \in ts /\ u.block \notin bs
<1>1. ASSUME NEW t \in ts
      PROVE  /\ [t EXCEPT !.open = @ /\ t.block \notin bs]
                  \in [block : Block, missing : SUBSET Digest, open : BOOLEAN]
             /\ t.block \notin bs => [t EXCEPT !.open = @ /\ t.block \notin bs] = t
             /\ [t EXCEPT !.open = @ /\ t.block \notin bs].open => t.open /\ t.block \notin bs
  <2>1. /\ t \in [block : Block, missing : SUBSET Digest, open : BOOLEAN]
        /\ t.open \in BOOLEAN /\ (t.block \notin bs) \in BOOLEAN
    OBVIOUS
  <2>2. t.block \notin bs => (t.open /\ t.block \notin bs) = t.open
    BY <2>1
  <2>3. [t EXCEPT !.open = t.open] = t
    BY <2>1
  <2> QED  BY <2>1, <2>2, <2>3
<1>2. Close(ts, bs) = {[t EXCEPT !.open = @ /\ t.block \notin bs] : t \in ts}
  BY DEF Close
<1>3. ASSUME NEW t \in ts, t.block \notin bs PROVE t \in Close(ts, bs)
  BY <1>1, <1>2, <1>3
<1>4. ASSUME NEW u \in Close(ts, bs), u.open PROVE u \in ts /\ u.block \notin bs
  BY <1>1, <1>2, <1>4
<1> QED  BY <1>1, <1>2, <1>3, <1>4

LEMMA ClosedFetching ==
  ASSUME NEW fs \in SUBSET [digest : Digest, open : BOOLEAN], NEW ds
  PROVE  /\ CloseFetching(fs, ds) \subseteq [digest : Digest, open : BOOLEAN]
         /\ \A f \in fs : f.digest \notin ds => f \in CloseFetching(fs, ds)
<1>1. ASSUME NEW f \in fs
      PROVE  /\ [f EXCEPT !.open = @ /\ f.digest \notin ds] \in [digest : Digest, open : BOOLEAN]
             /\ f.digest \notin ds => [f EXCEPT !.open = @ /\ f.digest \notin ds] = f
  <2>1. /\ f \in [digest : Digest, open : BOOLEAN]
        /\ f.open \in BOOLEAN /\ (f.digest \notin ds) \in BOOLEAN
    OBVIOUS
  <2>2. f.digest \notin ds => (f.open /\ f.digest \notin ds) = f.open
    BY <2>1
  <2>3. [f EXCEPT !.open = f.open] = f
    BY <2>1
  <2> QED  BY <2>1, <2>2, <2>3
<1>2. CloseFetching(fs, ds) = {[f EXCEPT !.open = @ /\ f.digest \notin ds] : f \in fs}
  BY DEF CloseFetching
<1>3. ASSUME NEW f \in fs, f.digest \notin ds PROVE f \in CloseFetching(fs, ds)
  BY <1>1, <1>2, <1>3
<1> QED  BY <1>1, <1>2, <1>3

\* A message is put behind the others and taken from the front.
LEMMA Queues ==
  ASSUME NEW S, NEW q \in Seq(S)
  PROVE  /\ Len(q) \in Nat /\ \A i \in 1..Len(q) : q[i] \in S
         /\ \A m \in S : /\ Append(q, m) \in Seq(S) /\ Len(Append(q, m)) = Len(q) + 1
                         /\ Append(q, m)[Len(q) + 1] = m
                         /\ \A i \in 1..Len(q) : Append(q, m)[i] = q[i]
         /\ q # <<>> =>
              /\ 1 \in 1..Len(q) /\ Head(q) = q[1] /\ Head(q) \in S
              /\ Tail(q) \in Seq(S) /\ Len(Tail(q)) = Len(q) - 1
              /\ \A i \in 1..Len(Tail(q)) : i + 1 \in 1..Len(q) /\ Tail(q)[i] = q[i + 1]
  OBVIOUS

LEMMA InitPayload == Init => PayloadInv
<1> SUFFICES ASSUME Init PROVE PayloadInv
  OBVIOUS
<1>1. 0 \in Round
  BY PayloadAssumption DEF Round
<1>2. \A S : <<>> \in Seq(S)
  BY EmptySeq
<1>3. TypeOK
  BY <1>1, <1>2 DEF Init, TypeOK
<1>4. RoundsPast /\ OneRequest /\ EntriesHaveTasks
  BY DEF Init, RoundsPast, RoundsIn, OneRequest, EntriesHaveTasks
<1> QED  BY <1>3, <1>4 DEF PayloadInv

LEMMA TypeStep == TypeOK /\ [Next]_vars => TypeOK'
<1> SUFFICES ASSUME TypeOK, [Next]_vars PROVE TypeOK'
  OBVIOUS
<1> DEFINE Waiting  == [block : Block, missing : SUBSET Digest, open : BOOLEAN]
           Fetching == [digest : Digest, open : BOOLEAN]
           Request  == [digest : Digest, round : Round]
           ToMempool == SyncMessage \union RoundMessage
           ToWaiter  == WaitMessage \union RoundMessage
           Loopback  == Block \union {Other}
           Collection == [digest : Digest, round : Round, at : Round]
<1>1. /\ store \subseteq Digest /\ asked \subseteq Digest
      /\ to_mempool \in Seq(ToMempool) /\ to_waiter \in Seq(ToWaiter)
      /\ pending \subseteq Block /\ resumed \subseteq Block
      /\ loopback \in Seq(Loopback) /\ collected \subseteq Collection
      /\ waiting \in SUBSET Waiting /\ fetching \in SUBSET Fetching
      /\ requests \subseteq Request
      /\ cleaned \in Round /\ sync_round \in Round
  BY DEF TypeOK
<1>2. \A b \in Block : b.payload \subseteq Digest
  BY PayloadAssumption
<1>3. SUFFICES /\ store' \subseteq Digest /\ asked' \subseteq Digest
               /\ to_mempool' \in Seq(ToMempool) /\ to_waiter' \in Seq(ToWaiter)
               /\ pending' \subseteq Block /\ resumed' \subseteq Block
               /\ loopback' \in Seq(Loopback) /\ collected' \subseteq Collection
               /\ waiting' \subseteq Waiting /\ fetching' \subseteq Fetching
               /\ requests' \subseteq Request
               /\ cleaned' \in Round /\ sync_round' \in Round
  BY DEF TypeOK
<1> HIDE DEF Waiting, Fetching, Request, ToMempool, ToWaiter, Loopback, Collection
<1>4. ASSUME NEW b \in Block, Verify(b)
      PROVE  to_mempool' \in Seq(ToMempool) /\ to_waiter' \in Seq(ToWaiter)
  <2> DEFINE missing == b.payload \ store
  <2>1. missing \in SUBSET Digest
    BY <1>2
  <2> HIDE DEF missing
  <2>2. /\ [digests |-> missing] \in ToMempool
        /\ [missing |-> missing, block |-> b] \in ToWaiter
    BY <2>1 DEF ToMempool, ToWaiter, SyncMessage, WaitMessage
  <2>3. /\ to_mempool' = Append(to_mempool, [digests |-> missing])
        /\ to_waiter' = Append(to_waiter, [missing |-> missing, block |-> b])
    BY <1>4 DEF Verify, missing
  <2> QED  BY <1>1, <2>2, <2>3, Queues
<1>5. ASSUME NEW r \in Round, Cleanup(r)
      PROVE  /\ to_mempool' \in Seq(ToMempool) /\ to_waiter' \in Seq(ToWaiter)
             /\ cleaned' \in Round
  <2>1. [round |-> r] \in ToMempool /\ [round |-> r] \in ToWaiter
    BY DEF ToMempool, ToWaiter, RoundMessage
  <2> QED  BY <1>1, <1>5, <2>1, Queues DEF Cleanup
<1>6. CASE \E b \in Block : Verify(b)
  BY <1>1, <1>4, <1>6 DEF Verify, waiter, core, synchronizer
<1>7. CASE \E r \in Round : Cleanup(r)
  BY <1>1, <1>5, <1>7 DEF Cleanup, waiter, synchronizer
<1>8. CASE TakeWait
  <2> DEFINE wait == Head(to_waiter)
  <2>1. /\ wait \in ToWaiter /\ to_waiter' = Tail(to_waiter) /\ "block" \in DOMAIN wait
        /\ Tail(to_waiter) \in Seq(ToWaiter)
    BY <1>1, <1>8, Queues DEF TakeWait
  <2>2. wait \in WaitMessage
    BY <2>1, MessageKinds DEF ToWaiter
  <2>3. wait.block \in Block /\ wait.missing \in SUBSET Digest
    BY <2>2 DEF WaitMessage
  <2>4. /\ pending' \subseteq pending \union {wait.block}
        /\ waiting' \subseteq waiting \union
             {[block |-> wait.block, missing |-> wait.missing, open |-> TRUE]}
    BY <1>8 DEF TakeWait
  <2> HIDE DEF wait
  <2>5. [block |-> wait.block, missing |-> wait.missing, open |-> TRUE] \in Waiting
    BY <2>3 DEF Waiting
  <2>6. waiting' \subseteq Waiting /\ pending' \subseteq Block
    BY <1>1, <2>3, <2>4, <2>5
  <2> QED  BY <1>1, <1>8, <2>1, <2>6 DEF TakeWait, core, synchronizer
<1>9. CASE TakeCleanup
  <2>1. to_waiter' \in Seq(ToWaiter) /\ pending' \subseteq pending
    BY <1>1, <1>9, Queues DEF TakeCleanup
  <2>2. \A bs : Close(waiting, bs) \subseteq Waiting
    BY <1>1, ClosedTasks DEF Waiting
  <2>3. waiting' = Close(waiting, Outdated(Head(to_waiter).round))
    BY <1>9 DEF TakeCleanup
  <2>4. waiting' \subseteq Waiting
    BY <2>2, <2>3
  <2> QED  BY <1>1, <1>9, <2>1, <2>4 DEF TakeCleanup, core, synchronizer
<1>10. CASE Synchronize
  <2> DEFINE missing == Head(to_mempool).digests \ Requested
  <2>1. /\ Head(to_mempool) \in ToMempool /\ "digests" \in DOMAIN Head(to_mempool)
        /\ to_mempool' \in Seq(ToMempool)
    BY <1>1, <1>10, Queues DEF Synchronize
  <2>2. Head(to_mempool) \in SyncMessage
    BY <2>1, MessageKinds DEF ToMempool
  <2>3. missing \subseteq Digest
    BY <2>2 DEF SyncMessage
  <2>4. /\ requests' = requests \union [digest : missing, round : {sync_round}]
        /\ fetching' = fetching \union [digest : missing, open : {TRUE}]
        /\ asked' = asked \union missing /\ collected' \subseteq collected
    BY <1>10 DEF Synchronize
  <2> HIDE DEF missing
  <2>5. requests' \subseteq Request /\ fetching' \subseteq Fetching
    BY <1>1, <2>3, <2>4 DEF Request, Fetching
  <2> QED  BY <1>1, <1>10, <2>1, <2>3, <2>4, <2>5 DEF Synchronize, waiter, core
<1>11. CASE CollectGarbage
  <2>1. /\ Head(to_mempool) \in ToMempool /\ "round" \in DOMAIN Head(to_mempool)
        /\ to_mempool' \in Seq(ToMempool)
    BY <1>1, <1>11, Queues DEF CollectGarbage
  <2>2. Head(to_mempool) \in RoundMessage
    BY <2>1, MessageKinds DEF ToMempool
  <2>3. sync_round' \in Round
    BY <1>11, <2>2 DEF CollectGarbage, RoundMessage
  <2>4. fetching' \subseteq Fetching /\ requests' \subseteq requests
    BY <1>1, <1>11, ClosedFetching DEF CollectGarbage, Fetching
  <2> DEFINE r == Head(to_mempool).round
             new(q) == [digest |-> q.digest, round |-> q.round, at |-> r]
  <2>5. r \in Round
    BY <1>11, <2>3 DEF CollectGarbage
  <2>6. collected' = collected \union {new(q) : q \in Expired(r)}
    BY <1>11 DEF CollectGarbage
  <2>7. Expired(r) \subseteq requests
    BY DEF Expired
  <2> HIDE DEF r
  <2>8. \A q \in requests : new(q) \in Collection
    BY <1>1, <2>5 DEF Request, Collection
  <2> HIDE DEF new
  <2>9. collected' \subseteq Collection
    BY <1>1, <2>6, <2>7, <2>8
  <2> QED  BY <1>1, <1>11, <2>1, <2>3, <2>4, <2>9 DEF CollectGarbage, waiter, core
<1>12. ASSUME NEW t \in waiting, Resume(t)
       PROVE  waiting' \subseteq Waiting /\ pending' \subseteq Block /\ loopback' \in Seq(Loopback)
  <2> DEFINE others == waiting \ {t}
  <2>1. others \in SUBSET Waiting
    BY <1>1
  <2>2. waiting' \subseteq Waiting
    <3>1. waiting' = Close(others, {t.block})
      BY <1>12 DEF Resume
    <3> HIDE DEF others
    <3> QED  BY <2>1, <3>1, ClosedTasks DEF Waiting
  <2>3. t.block \in Block
    BY <1>1 DEF Waiting
  <2>4. loopback' \in Seq(Loopback)
    BY <1>1, <1>12, <2>3, Queues DEF Resume, Loopback
  <2> QED  BY <1>1, <1>12, <2>2, <2>4 DEF Resume
<1>13. CASE \E t \in waiting : Resume(t)
  BY <1>1, <1>12, <1>13 DEF Resume, queues, core, synchronizer
<1>14. CASE \E t \in waiting : Cancelled(t)
  BY <1>1, <1>14 DEF Cancelled, queues, core, synchronizer
<1>15. CASE \E f \in fetching : Fetched(f)
  <2> PICK f \in fetching : Fetched(f)
    BY <1>15
  <2>1. fetching \ {f} \in SUBSET Fetching
    BY <1>1
  <2>2. fetching' \subseteq Fetching /\ requests' \subseteq requests
    BY <2>1, ClosedFetching DEF Fetched, Fetching
  <2> QED  BY <1>1, <2>2 DEF Fetched, queues, waiter, core
<1>16. CASE \E f \in fetching : FetchCancelled(f)
  BY <1>1, <1>16 DEF FetchCancelled, queues, waiter, core
<1>17. CASE \/ \E old \in SUBSET Digest : Retry(old)
            \/ \E d \in Digest : Lose(d) \/ Answer(d) \/ Receive(d)
  <2>1. store' \subseteq Digest /\ asked' \subseteq Digest
    BY <1>1, <1>17 DEF Retry, Lose, Answer, Receive, synchronizer
  <2>2. UNCHANGED <<queues, waiter, core, requests, fetching, sync_round, collected>>
    BY <1>17 DEF Retry, Lose, Answer, Receive, synchronizer
  <2> QED  BY <1>1, <2>1, <2>2 DEF queues, waiter, core
<1>18. CASE UNCHANGED vars
  BY <1>1, <1>18 DEF vars, queues, waiter, core, synchronizer
<1>19. CASE TakeLoopback
  <2>1. /\ Head(loopback) \in Loopback /\ loopback' \in Seq(Loopback)
        /\ resumed' = resumed \union ({Head(loopback)} \ {Other})
    BY <1>1, <1>19, Queues DEF TakeLoopback
  <2>2. resumed' \subseteq Block
    BY <1>1, <2>1 DEF Loopback
  <2> QED  BY <1>1, <1>19, <2>1, <2>2 DEF TakeLoopback, queues, synchronizer
<1>20. CASE SendOther
  <2>1. Other \in Loopback
    BY DEF Loopback
  <2>2. loopback' \in Seq(Loopback)
    BY <1>1, <1>20, <2>1, Queues DEF SendOther
  <2> QED  BY <1>1, <1>20, <2>2 DEF SendOther, queues, core, synchronizer
<1> QED  BY <1>6, <1>7, <1>8, <1>9, <1>10, <1>11, <1>13, <1>14, <1>15, <1>16, <1>17, <1>18,
            <1>19, <1>20
         DEF Next

-----------------------------------------------------------------------------
(* Entries and their tasks.                                                *)

LEMMA RoundsKept ==
  ASSUME NEW S, NEW q \in Seq(S), NEW c \in Nat, NEW r \in Nat, c <= r, RoundsIn(q, c),
         \A m \in S : "round" \in DOMAIN m => m.round \in Nat
  PROVE  /\ RoundsIn(q, r)
         /\ q # <<>> => RoundsIn(Tail(q), r)
         /\ \A m \in S : ("round" \in DOMAIN m => m.round <= r) => RoundsIn(Append(q, m), r)
<1>1. Len(q) \in Nat /\ \A i \in 1..Len(q) : q[i] \in S
  BY Queues
<1>2. RoundsIn(q, r)
  BY <1>1 DEF RoundsIn
<1>3. ASSUME q # <<>> PROVE RoundsIn(Tail(q), r)
  <2>1. \A i \in 1..Len(Tail(q)) : i + 1 \in 1..Len(q) /\ Tail(q)[i] = q[i + 1]
    BY <1>3, Queues
  <2> QED  BY <1>2, <2>1 DEF RoundsIn
<1>4. ASSUME NEW m \in S, "round" \in DOMAIN m => m.round <= r PROVE RoundsIn(Append(q, m), r)
  <2>1. /\ Len(Append(q, m)) = Len(q) + 1 /\ Append(q, m)[Len(q) + 1] = m
        /\ \A i \in 1..Len(q) : Append(q, m)[i] = q[i]
    BY Queues
  <2>2. \A i \in 1..Len(Append(q, m)) : i \in 1..Len(q) \/ i = Len(q) + 1
    BY <1>1, <2>1
  <2> QED  BY <1>2, <1>4, <2>1, <2>2 DEF RoundsIn
<1> QED  BY <1>2, <1>3, <1>4

LEMMA RoundsStep == TypeOK /\ RoundsPast /\ [Next]_vars => RoundsPast'
<1> SUFFICES ASSUME TypeOK, RoundsPast, [Next]_vars PROVE RoundsPast'
  OBVIOUS
<1> DEFINE ToMempool == SyncMessage \union RoundMessage
           ToWaiter  == WaitMessage \union RoundMessage
<1>1. /\ to_mempool \in Seq(ToMempool) /\ to_waiter \in Seq(ToWaiter)
      /\ cleaned \in Nat /\ Round \subseteq Nat
      /\ \A m \in ToMempool \union ToWaiter : "round" \in DOMAIN m => m.round \in Nat
  <2>1. Round \subseteq Nat
    BY PayloadAssumption DEF Round
  <2>2. \A m \in ToMempool \union ToWaiter : "round" \in DOMAIN m => m \in RoundMessage
    BY MessageKinds
  <2> QED  BY <2>1, <2>2 DEF TypeOK, RoundMessage
<1>2. /\ RoundsIn(to_waiter, cleaned) /\ RoundsIn(to_mempool, cleaned)
      /\ cleaned <= cleaned
  BY <1>1 DEF RoundsPast
<1>3. SUFFICES RoundsIn(to_waiter', cleaned') /\ RoundsIn(to_mempool', cleaned')
  BY DEF RoundsPast
<1>4. CASE \E b \in Block : Verify(b)
  <2> PICK b \in Block : Verify(b)
    BY <1>4
  <2> DEFINE missing == b.payload \ store
             sync == [digests |-> missing]
             wait == [missing |-> missing, block |-> b]
  <2>1. /\ to_mempool' = Append(to_mempool, sync) /\ to_waiter' = Append(to_waiter, wait)
        /\ cleaned' = cleaned
    BY DEF Verify, core
  <2>2. missing \in SUBSET Digest
    BY PayloadAssumption
  <2> HIDE DEF missing
  <2>3. /\ sync \in ToMempool /\ ~ ("round" \in DOMAIN sync)
        /\ wait \in ToWaiter /\ ~ ("round" \in DOMAIN wait)
    BY <2>2 DEF SyncMessage, WaitMessage
  <2> HIDE DEF sync, wait, ToMempool, ToWaiter
  <2> QED  BY <1>1, <1>2, <2>1, <2>3, RoundsKept
<1>5. CASE \E r \in Round : Cleanup(r)
  <2> PICK r \in Round : Cleanup(r)
    BY <1>5
  <2> DEFINE m == [round |-> r]
  <2>1. /\ to_mempool' = Append(to_mempool, m) /\ to_waiter' = Append(to_waiter, m)
        /\ cleaned' \in Nat /\ cleaned <= cleaned' /\ r <= cleaned'
    BY <1>1 DEF Cleanup
  <2>2. m \in ToMempool /\ m \in ToWaiter /\ m.round = r
    BY DEF RoundMessage
  <2> HIDE DEF m, ToMempool, ToWaiter
  <2> DEFINE c == cleaned'
  <2>3. RoundsIn(Append(to_waiter, m), c) /\ RoundsIn(Append(to_mempool, m), c)
    <3> HIDE DEF c
    <3>1. c \in Nat /\ cleaned <= c /\ r <= c
      BY <2>1 DEF c
    <3> QED  BY <1>1, <1>2, <2>2, <3>1, RoundsKept
  <2> QED  BY <2>1, <2>3
<1> HIDE DEF ToMempool, ToWaiter
<1>6. CASE TakeWait \/ TakeCleanup
  <2>1. /\ to_waiter # <<>> /\ to_waiter' = Tail(to_waiter)
        /\ to_mempool' = to_mempool /\ cleaned' = cleaned
    BY <1>6 DEF TakeWait, TakeCleanup, core
  <2> QED  BY <1>1, <1>2, <2>1, RoundsKept
<1>7. CASE Synchronize \/ CollectGarbage
  <2>1. /\ to_mempool # <<>> /\ to_mempool' = Tail(to_mempool)
        /\ to_waiter' = to_waiter /\ cleaned' = cleaned
    BY <1>7 DEF Synchronize, CollectGarbage, core
  <2> QED  BY <1>1, <1>2, <2>1, RoundsKept
<1>8. CASE \/ \E t \in waiting : Resume(t) \/ Cancelled(t)
           \/ \E f \in fetching : Fetched(f) \/ FetchCancelled(f)
           \/ \E old \in SUBSET Digest : Retry(old)
           \/ \E d \in Digest : Lose(d) \/ Answer(d) \/ Receive(d)
           \/ TakeLoopback \/ SendOther
           \/ UNCHANGED vars
  <2>1. UNCHANGED <<queues, cleaned>>
    BY <1>8 DEF Resume, Cancelled, Fetched, FetchCancelled, Retry, Lose, Answer, Receive,
                TakeLoopback, SendOther, core, vars
  <2> QED  BY <1>2, <2>1 DEF queues
<1> QED  BY <1>4, <1>5, <1>6, <1>7, <1>8 DEF Next

\* The two halves of EntriesHaveTasks.
BlocksHaveTasks  == \A b \in pending : \E t \in waiting : t.block = b /\ t.open
BatchesHaveTasks == \A q \in requests : \E f \in fetching : f.digest = q.digest /\ f.open

LEMMA BlocksStep == TypeOK /\ BlocksHaveTasks /\ [Next]_vars => BlocksHaveTasks'
<1> SUFFICES ASSUME TypeOK, BlocksHaveTasks, [Next]_vars PROVE BlocksHaveTasks'
  OBVIOUS
<1>1. waiting \in SUBSET [block : Block, missing : SUBSET Digest, open : BOOLEAN]
  BY DEF TypeOK
<1>2. \A b \in pending : \E t \in waiting : t.block = b /\ t.open
  BY DEF BlocksHaveTasks
<1>3. SUFFICES \A b \in pending' : \E t \in waiting' : t.block = b /\ t.open
  BY DEF BlocksHaveTasks
<1>4. CASE TakeWait
  <2> DEFINE wait == Head(to_waiter)
             new  == [block |-> wait.block, missing |-> wait.missing, open |-> TRUE]
  <2>1. \/ pending' = pending /\ waiting' = waiting
        \/ pending' = pending \union {wait.block} /\ waiting' = waiting \union {new}
    BY <1>4 DEF TakeWait
  <2>2. new.block = wait.block /\ new.open
    OBVIOUS
  <2> HIDE DEF new, wait
  <2> QED  BY <1>2, <2>1, <2>2
<1>5. CASE TakeCleanup
  <2> PICK outdated : pending' = pending \ outdated /\ waiting' = Close(waiting, outdated)
    BY <1>5 DEF TakeCleanup
  <2>1. \A t \in waiting : t.block \notin outdated => t \in waiting'
    BY <1>1, ClosedTasks
  <2> QED  BY <1>2, <2>1
<1>6. CASE \E t \in waiting : Resume(t)
  <2> PICK t \in waiting : Resume(t)
    BY <1>6
  <2>1. pending' = pending \ {t.block} /\ waiting' = Close(waiting \ {t}, {t.block})
    BY DEF Resume
  <2>2. \A u \in waiting \ {t} : u.block \notin {t.block} => u \in waiting'
    BY <1>1, <2>1, ClosedTasks
  <2> QED  BY <1>2, <2>1, <2>2
<1>7. CASE \E t \in waiting : Cancelled(t)
  BY <1>2, <1>7 DEF Cancelled
<1>8. CASE \/ \E b \in Block : Verify(b)
           \/ \E r \in Round : Cleanup(r)
           \/ Synchronize \/ CollectGarbage
           \/ \E f \in fetching : Fetched(f) \/ FetchCancelled(f)
           \/ \E old \in SUBSET Digest : Retry(old)
           \/ \E d \in Digest : Lose(d) \/ Answer(d) \/ Receive(d)
           \/ TakeLoopback \/ SendOther
           \/ UNCHANGED vars
  <2>1. UNCHANGED <<pending, waiting>>
    BY <1>8 DEF Verify, Cleanup, Synchronize, CollectGarbage, Fetched, FetchCancelled,
                Retry, Lose, Answer, Receive, TakeLoopback, SendOther, waiter, vars
  <2> QED  BY <1>2, <2>1
<1> QED  BY <1>4, <1>5, <1>6, <1>7, <1>8 DEF Next

LEMMA BatchesStep ==
  TypeOK /\ OneRequest /\ BatchesHaveTasks /\ [Next]_vars => OneRequest' /\ BatchesHaveTasks'
<1> SUFFICES ASSUME TypeOK, OneRequest, BatchesHaveTasks, [Next]_vars
             PROVE  OneRequest' /\ BatchesHaveTasks'
  OBVIOUS
<1>1. fetching \in SUBSET [digest : Digest, open : BOOLEAN]
  BY DEF TypeOK
<1>2. /\ \A p, q \in requests : p.digest = q.digest => p = q
      /\ \A q \in requests : \E f \in fetching : f.digest = q.digest /\ f.open
  BY DEF OneRequest, BatchesHaveTasks
<1>3. SUFFICES /\ \A p, q \in requests' : p.digest = q.digest => p = q
               /\ \A q \in requests' : \E f \in fetching' : f.digest = q.digest /\ f.open
  BY DEF OneRequest, BatchesHaveTasks
<1>4. CASE Synchronize
  <2> DEFINE missing == Head(to_mempool).digests \ Requested
  <2>1. /\ requests' = requests \union [digest : missing, round : {sync_round}]
        /\ fetching' = fetching \union [digest : missing, open : {TRUE}]
    BY <1>4 DEF Synchronize
  <2>2. \A d \in missing : \A q \in requests : q.digest # d
    BY DEF Requested
  <2> HIDE DEF missing
  <2>3. ASSUME NEW q \in [digest : missing, round : {sync_round}]
        PROVE  /\ q.digest \in missing /\ q.round = sync_round
               /\ \E f \in fetching' : f.digest = q.digest /\ f.open
    <3>1. q.digest \in missing /\ q.round = sync_round
      OBVIOUS
    <3> DEFINE f == [digest |-> q.digest, open |-> TRUE]
    <3>2. f \in fetching' /\ f.digest = q.digest /\ f.open
      BY <2>1, <3>1
    <3> QED  BY <3>1, <3>2
  <2>4. \A p, q \in [digest : missing, round : {sync_round}] : p.digest = q.digest => p = q
    OBVIOUS
  <2> QED  BY <1>2, <2>1, <2>2, <2>3, <2>4
<1>5. ASSUME NEW fs \in SUBSET fetching, NEW ds,
             fetching' = CloseFetching(fs, ds),
             \A f \in fetching : f.digest \notin ds => f \in fs,
             requests' \subseteq requests, \A q \in requests' : q.digest \notin ds
      PROVE  /\ \A p, q \in requests' : p.digest = q.digest => p = q
             /\ \A q \in requests' : \E f \in fetching' : f.digest = q.digest /\ f.open
  <2>1. \A f \in fs : f.digest \notin ds => f \in fetching'
    BY <1>1, <1>5, ClosedFetching
  <2> QED  BY <1>2, <1>5, <2>1
<1>6. CASE CollectGarbage
  <2> PICK expired \in SUBSET requests :
        /\ requests' = requests \ expired
        /\ fetching' = CloseFetching(fetching, {q.digest : q \in expired})
    BY <1>6 DEF CollectGarbage, Expired
  <2> DEFINE ds == {q.digest : q \in expired}
  <2>1. \A q \in requests' : q.digest \notin ds
    BY <1>2
  <2> QED  BY <1>5, <2>1
<1>7. CASE \E f \in fetching : Fetched(f)
  <2> PICK f \in fetching : Fetched(f)
    BY <1>7
  <2>1. /\ requests' = {q \in requests : q.digest # f.digest}
        /\ fetching' = CloseFetching(fetching \ {f}, {f.digest})
    BY DEF Fetched
  <2> QED  BY <1>5, <2>1
<1>8. CASE \E f \in fetching : FetchCancelled(f)
  BY <1>2, <1>8 DEF FetchCancelled
<1>9. CASE \/ \E b \in Block : Verify(b)
           \/ \E r \in Round : Cleanup(r)
           \/ TakeWait \/ TakeCleanup
           \/ \E t \in waiting : Resume(t) \/ Cancelled(t)
           \/ \E old \in SUBSET Digest : Retry(old)
           \/ \E d \in Digest : Lose(d) \/ Answer(d) \/ Receive(d)
           \/ TakeLoopback \/ SendOther
           \/ UNCHANGED vars
  <2>1. UNCHANGED <<requests, fetching>>
    BY <1>9 DEF Verify, Cleanup, TakeWait, TakeCleanup, Resume, Cancelled, Retry, Lose,
                Answer, Receive, TakeLoopback, SendOther, vars, synchronizer
  <2> QED  BY <1>2, <2>1
<1> QED  BY <1>4, <1>6, <1>7, <1>8, <1>9 DEF Next

LEMMA PayloadInvariant == Spec => []PayloadInv
<1>1. PayloadInv /\ [Next]_vars => PayloadInv'
  <2> SUFFICES ASSUME PayloadInv, [Next]_vars PROVE PayloadInv'
    OBVIOUS
  <2>1. /\ TypeOK /\ RoundsPast /\ OneRequest
        /\ BlocksHaveTasks /\ BatchesHaveTasks
    BY DEF PayloadInv, EntriesHaveTasks, BlocksHaveTasks, BatchesHaveTasks
  <2>2. TypeOK' /\ RoundsPast' /\ OneRequest' /\ BlocksHaveTasks' /\ BatchesHaveTasks'
    BY <2>1, TypeStep, RoundsStep, BlocksStep, BatchesStep
  <2> QED  BY <2>2 DEF PayloadInv, EntriesHaveTasks, BlocksHaveTasks, BatchesHaveTasks
<1> QED  BY InitPayload, <1>1, PTL DEF Spec

\* "contains_key" (PayloadWaiter::run and the synchronizer of the mempool):
\* a block or a batch with an entry has a task that is not cancelled, so that
\* nothing that is turned away for its entry is lost.
THEOREM EntriesAlwaysHaveTasks == Spec => []EntriesHaveTasks
<1>1. PayloadInv => EntriesHaveTasks
  BY DEF PayloadInv
<1> QED  BY PayloadInvariant, <1>1, PTL

\* PayloadWaiter::run: a block that stops waiting is sent to the core, or a cleanup
\* of its round or a later one has come.
THEOREM OnlyOutdatedDropped == Spec => DroppedOnlyIfOutdated
<1>1. PayloadInv /\ [Next]_vars
        => [\A b \in pending \ pending' :
              (\E i \in 1..Len(loopback') : loopback'[i] = b) \/ b.round <= cleaned]_vars
  <2> SUFFICES ASSUME PayloadInv, Next, NEW b \in pending, b \notin pending'
               PROVE  (\E i \in 1..Len(loopback') : loopback'[i] = b) \/ b.round <= cleaned
    OBVIOUS
  <2>1. CASE TakeCleanup
    <3> DEFINE r == Head(to_waiter).round
    <3>1. /\ to_waiter \in Seq(WaitMessage \union RoundMessage)
          /\ RoundsIn(to_waiter, cleaned) /\ b \in Block /\ cleaned \in Nat
      BY PayloadAssumption DEF PayloadInv, TypeOK, RoundsPast, Round
    <3>2. /\ to_waiter # <<>> /\ "round" \in DOMAIN Head(to_waiter)
          /\ b \in Outdated(r)
      BY <2>1 DEF TakeCleanup
    <3>3. /\ 1 \in 1..Len(to_waiter) /\ Head(to_waiter) = to_waiter[1]
          /\ Head(to_waiter) \in WaitMessage \union RoundMessage
      BY <3>1, <3>2, Queues
    <3>4. r <= cleaned
      BY <3>1, <3>2, <3>3 DEF RoundsIn
    <3>5. r \in Nat /\ b.round \in Nat /\ b.round <= r
      <4>1. Head(to_waiter) \in RoundMessage
        BY <3>2, <3>3, MessageKinds
      <4> QED  BY <3>1, <3>2, <4>1, PayloadAssumption DEF RoundMessage, Round, Outdated
    <3> QED  BY <3>1, <3>4, <3>5
  <2>2. CASE \E t \in waiting : Resume(t)
    <3> PICK t \in waiting : Resume(t)
      BY <2>2
    <3>1. loopback' = Append(loopback, t.block) /\ t.block = b
      BY DEF Resume
    <3>2. loopback \in Seq(Block \union {Other}) /\ b \in Block
      BY DEF PayloadInv, TypeOK
    <3>3. Len(loopback) + 1 \in 1..Len(loopback') /\ loopback'[Len(loopback) + 1] = b
      BY <3>1, <3>2, Queues
    <3> QED  BY <3>3
  <2>3. CASE ~ TakeCleanup /\ ~ \E t \in waiting : Resume(t)
    <3>1. pending \subseteq pending'
      BY <2>3 DEF Next, Verify, Cleanup, TakeWait, Synchronize, CollectGarbage, Cancelled,
                  Fetched, FetchCancelled, Retry, Lose, Answer, Receive, TakeLoopback,
                  SendOther, waiter
    <3> QED  BY <3>1
  <2> QED  BY <2>1, <2>2, <2>3
<1> QED  BY PayloadInvariant, <1>1, PTL DEF Spec, DroppedOnlyIfOutdated

-----------------------------------------------------------------------------
(* What is waited for is requested.                                        *)

\* A block waits for batches: in a task, or in a message to the waiter.
Waits(b, ds) ==
  \/ \E t \in waiting : t.open /\ t.block = b /\ t.missing = ds
  \/ \E i \in 1..Len(to_waiter) : to_waiter[i] = [missing |-> ds, block |-> b]

WaitsRequested ==
  \A b \in Block, ds \in SUBSET Digest :
    Waits(b, ds) =>
      \A d \in ds : d \in store \/ d \in Requested \/ Queued(d) \/ Collected(d)

\* A block waits from the moment it is verified.
LEMMA WaitsSince ==
  ASSUME TypeOK, [Next]_vars, NEW b \in Block, NEW ds \in SUBSET Digest, Waits(b, ds)'
  PROVE  Waits(b, ds) \/ (Verify(b) /\ ds = b.payload \ store)
<1> DEFINE ToWaiter == WaitMessage \union RoundMessage
           wait == [missing |-> ds, block |-> b]
           InTask(ts) == \E t \in ts : t.open /\ t.block = b /\ t.missing = ds
           InQueue(q) == \E i \in 1..Len(q) : q[i] = wait
<1>1. /\ waiting \in SUBSET [block : Block, missing : SUBSET Digest, open : BOOLEAN]
      /\ to_waiter \in Seq(ToWaiter)
  BY DEF TypeOK
<1>2. Waits(b, ds) <=> InTask(waiting) \/ InQueue(to_waiter)
  BY DEF Waits
<1>3. InTask(waiting') \/ InQueue(to_waiter')
  BY DEF Waits
<1>4. ~ ("round" \in DOMAIN wait)
  OBVIOUS
<1> HIDE DEF wait, ToWaiter
<1>5. ASSUME NEW m \in ToWaiter, to_waiter' = Append(to_waiter, m)
      PROVE  InQueue(to_waiter') => InQueue(to_waiter) \/ m = wait
  <2>1. /\ Len(to_waiter) \in Nat /\ Len(to_waiter') = Len(to_waiter) + 1
        /\ to_waiter'[Len(to_waiter) + 1] = m
        /\ \A i \in 1..Len(to_waiter) : to_waiter'[i] = to_waiter[i]
    BY <1>1, <1>5, Queues
  <2>2. \A i \in 1..Len(to_waiter') : i \in 1..Len(to_waiter) \/ i = Len(to_waiter) + 1
    BY <2>1
  <2> QED  BY <2>1, <2>2
<1>6. ASSUME to_waiter # <<>>, to_waiter' = Tail(to_waiter)
      PROVE  InQueue(to_waiter') => InQueue(to_waiter)
  <2>1. \A i \in 1..Len(to_waiter') : i + 1 \in 1..Len(to_waiter) /\ to_waiter'[i] = to_waiter[i + 1]
    BY <1>1, <1>6, Queues
  <2> QED  BY <2>1
<1>7. CASE \E c \in Block : Verify(c)
  <2> PICK c \in Block : Verify(c)
    BY <1>7
  <2> DEFINE missing == c.payload \ store
             m == [missing |-> missing, block |-> c]
  <2>1. to_waiter' = Append(to_waiter, m) /\ waiting' = waiting
    BY DEF Verify, waiter
  <2>2. missing \in SUBSET Digest
    BY PayloadAssumption
  <2> HIDE DEF missing
  <2>3. m \in ToWaiter
    BY <2>2 DEF ToWaiter, WaitMessage
  <2>4. m = wait => c = b /\ missing = ds
    BY DEF wait
  <2> HIDE DEF m
  <2>5. Waits(b, ds) \/ m = wait
    BY <1>2, <1>3, <1>5, <2>1, <2>3
  <2> QED  BY <2>4, <2>5 DEF missing
<1>8. CASE \E r \in Round : Cleanup(r)
  <2> PICK r \in Round : Cleanup(r)
    BY <1>8
  <2> DEFINE m == [round |-> r]
  <2>1. to_waiter' = Append(to_waiter, m) /\ waiting' = waiting
    BY DEF Cleanup, waiter
  <2>2. m \in ToWaiter /\ m # wait
    BY <1>4 DEF ToWaiter, RoundMessage
  <2> HIDE DEF m
  <2> QED  BY <1>2, <1>3, <1>5, <2>1, <2>2
<1>9. CASE TakeWait
  <2> DEFINE h == Head(to_waiter)
             new == [block |-> h.block, missing |-> h.missing, open |-> TRUE]
  <2>1. /\ to_waiter # <<>> /\ to_waiter' = Tail(to_waiter) /\ "block" \in DOMAIN h
        /\ waiting' \subseteq waiting \union {new}
    BY <1>9 DEF TakeWait
  <2>2. h \in ToWaiter /\ h = to_waiter[1] /\ 1 \in 1..Len(to_waiter)
    BY <1>1, <2>1, Queues
  <2>3. h \in WaitMessage
    BY <2>1, <2>2, MessageKinds DEF ToWaiter
  <2>4. h.block = b /\ h.missing = ds => h = wait
    BY <2>3 DEF WaitMessage, wait
  <2>5. new.block = h.block /\ new.missing = h.missing
    OBVIOUS
  <2> HIDE DEF h, new
  <2> QED  BY <1>2, <1>3, <1>6, <2>1, <2>2, <2>4, <2>5
<1>10. CASE TakeCleanup
  <2> PICK outdated : waiting' = Close(waiting, outdated)
    BY <1>10 DEF TakeCleanup
  <2>1. \A t \in waiting' : t.open => t \in waiting
    BY <1>1, ClosedTasks
  <2>2. to_waiter # <<>> /\ to_waiter' = Tail(to_waiter)
    BY <1>10 DEF TakeCleanup
  <2> QED  BY <1>2, <1>3, <1>6, <2>1, <2>2
<1>11. CASE \E t \in waiting : Resume(t)
  <2> PICK t \in waiting : Resume(t)
    BY <1>11
  <2>1. waiting' = Close(waiting \ {t}, {t.block}) /\ to_waiter' = to_waiter
    BY DEF Resume, queues
  <2>2. waiting \ {t} \in SUBSET [block : Block, missing : SUBSET Digest, open : BOOLEAN]
    BY <1>1
  <2>3. \A u \in Close(waiting \ {t}, {t.block}) : u.open => u \in waiting
    BY <2>2, ClosedTasks
  <2> QED  BY <1>2, <1>3, <2>1, <2>3
<1>12. CASE \E t \in waiting : Cancelled(t)
  BY <1>2, <1>3, <1>12 DEF Cancelled, queues
<1>13. CASE \/ TakeLoopback \/ SendOther
            \/ Synchronize \/ CollectGarbage
            \/ \E f \in fetching : Fetched(f) \/ FetchCancelled(f)
            \/ \E old \in SUBSET Digest : Retry(old)
            \/ \E d \in Digest : Lose(d) \/ Answer(d) \/ Receive(d)
            \/ UNCHANGED vars
  <2>1. UNCHANGED <<to_waiter, waiting>>
    BY <1>13 DEF Synchronize, CollectGarbage, Fetched, FetchCancelled, Retry, Lose, Answer,
                 Receive, TakeLoopback, SendOther, vars, queues, waiter
  <2> QED  BY <1>2, <1>3, <2>1
<1> QED  BY <1>7, <1>8, <1>9, <1>10, <1>11, <1>12, <1>13 DEF Next

LEMMA WaitsStep ==
  TypeOK /\ WaitsRequested /\ [Next]_vars => WaitsRequested'
<1> SUFFICES ASSUME TypeOK, WaitsRequested, [Next]_vars,
                    NEW b \in Block, NEW ds \in SUBSET Digest, Waits(b, ds)',
                    NEW d \in ds, d \notin store'
             PROVE  d \in Requested' \/ Queued(d)' \/ Collected(d)'
  BY DEF WaitsRequested
<1> DEFINE ToMempool == SyncMessage \union RoundMessage
<1>1. /\ to_mempool \in Seq(ToMempool) /\ requests \subseteq [digest : Digest, round : Round]
      /\ Round \subseteq Nat /\ gc_depth \in Nat
  BY PayloadAssumption DEF TypeOK, Round
<1>2. \A e : e \in Requested <=> \E q \in requests : q.digest = e
  BY DEF Requested
<1>3. (d \in Requested)' <=> \E q \in requests' : q.digest = d
  BY DEF Requested
<1>4. store \subseteq store'
  BY DEF Next, Verify, Cleanup, TakeWait, TakeCleanup, Resume, Cancelled, Synchronize,
         CollectGarbage, Fetched, FetchCancelled, Retry, Lose, Answer, Receive,
         TakeLoopback, SendOther, vars
<1> HIDE DEF ToMempool
<1>5. ASSUME NEW m \in ToMempool, to_mempool' = Append(to_mempool, m)
      PROVE  /\ Queued(d) => Queued(d)'
             /\ ("digests" \in DOMAIN m /\ d \in m.digests) => Queued(d)'
  <2>1. /\ Len(to_mempool) \in Nat /\ Len(to_mempool') = Len(to_mempool) + 1
        /\ to_mempool'[Len(to_mempool) + 1] = m
        /\ \A i \in 1..Len(to_mempool) : to_mempool'[i] = to_mempool[i]
    BY <1>1, <1>5, Queues
  <2>2. Len(to_mempool) + 1 \in 1..Len(to_mempool') /\ 1..Len(to_mempool) \subseteq 1..Len(to_mempool')
    BY <2>1
  <2> QED  BY <2>1, <2>2 DEF Queued
<1>6. ASSUME to_mempool # <<>>, to_mempool' = Tail(to_mempool), Queued(d)
      PROVE  Queued(d)' \/ (/\ "digests" \in DOMAIN Head(to_mempool)
                            /\ d \in Head(to_mempool).digests)
  <2>1. PICK i \in 1..Len(to_mempool) :
          "digests" \in DOMAIN to_mempool[i] /\ d \in to_mempool[i].digests
    BY <1>6 DEF Queued
  <2>2. /\ Len(to_mempool) \in Nat /\ Head(to_mempool) = to_mempool[1]
        /\ Len(to_mempool') = Len(to_mempool) - 1
        /\ \A j \in 1..Len(to_mempool') : to_mempool'[j] = to_mempool[j + 1]
    BY <1>1, <1>6, Queues
  <2>3. CASE i = 1
    BY <2>1, <2>2, <2>3
  <2>4. CASE i # 1
    <3>1. i - 1 \in 1..Len(to_mempool') /\ i - 1 + 1 = i
      BY <2>2, <2>4
    <3>2. to_mempool'[i - 1] = to_mempool[i]
      BY <2>2, <3>1
    <3> QED  BY <2>1, <3>1, <3>2 DEF Queued
  <2> QED  BY <2>3, <2>4
<1>7. CASE Verify(b) /\ ds = b.payload \ store
  <2> DEFINE m == [digests |-> ds]
  <2>1. to_mempool' = Append(to_mempool, m)
    BY <1>7 DEF Verify
  <2>2. m \in ToMempool /\ "digests" \in DOMAIN m /\ d \in m.digests
    BY DEF ToMempool, SyncMessage
  <2> HIDE DEF m
  <2> QED  BY <1>5, <2>1, <2>2
<1>8. CASE Waits(b, ds)
  <2>1. d \in Requested \/ Queued(d) \/ Collected(d)
    BY <1>4, <1>8 DEF WaitsRequested
  <2>2. CASE \E c \in Block : Verify(c)
    <3> PICK c \in Block : Verify(c)
      BY <2>2
    <3> DEFINE missing == c.payload \ store
               m == [digests |-> missing]
    <3>1. to_mempool' = Append(to_mempool, m) /\ UNCHANGED <<requests, collected>>
      BY DEF Verify, synchronizer
    <3>2. missing \in SUBSET Digest
      BY PayloadAssumption
    <3> HIDE DEF missing
    <3>3. m \in ToMempool
      BY <3>2 DEF ToMempool, SyncMessage
    <3> HIDE DEF m
    <3> QED  BY <1>2, <1>3, <1>5, <2>1, <3>1, <3>3 DEF Collected
  <2>3. CASE \E r \in Round : Cleanup(r)
    <3> PICK r \in Round : Cleanup(r)
      BY <2>3
    <3> DEFINE m == [round |-> r]
    <3>1. to_mempool' = Append(to_mempool, m) /\ UNCHANGED <<requests, collected>>
      BY DEF Cleanup, synchronizer
    <3>2. m \in ToMempool
      BY DEF ToMempool, RoundMessage
    <3> HIDE DEF m
    <3> QED  BY <1>2, <1>3, <1>5, <2>1, <3>1, <3>2 DEF Collected
  <2>4. CASE Synchronize
    <3> DEFINE missing == Head(to_mempool).digests \ Requested
    <3>1. /\ to_mempool # <<>> /\ to_mempool' = Tail(to_mempool)
          /\ requests' = requests \union [digest : missing, round : {sync_round}]
          /\ collected' = {c \in collected : c.digest \notin missing}
      BY <2>4 DEF Synchronize
    <3>2. ASSUME d \in missing PROVE \E q \in requests' : q.digest = d
      <4> DEFINE q == [digest |-> d, round |-> sync_round]
      <4>1. q \in [digest : missing, round : {sync_round}] /\ q.digest = d
        BY <3>2
      <4> QED  BY <3>1, <4>1
    <3>3. d \in Requested => \E q \in requests' : q.digest = d
      BY <1>2, <3>1
    <3>4. Collected(d) => d \in missing \/ Collected(d)'
      BY <3>1 DEF Collected
    <3> QED  BY <1>3, <1>6, <2>1, <3>1, <3>2, <3>3, <3>4
  <2>5. CASE CollectGarbage
    <3> DEFINE r == Head(to_mempool).round
               gone(q) == [digest |-> q.digest, round |-> q.round, at |-> r]
    <3>1. /\ to_mempool # <<>> /\ to_mempool' = Tail(to_mempool)
          /\ "round" \in DOMAIN Head(to_mempool)
          /\ requests' = requests \ Expired(r)
          /\ collected' = collected \union {gone(q) : q \in Expired(r)}
      BY <2>5 DEF CollectGarbage
    <3>2. Head(to_mempool) \in ToMempool
      BY <1>1, <3>1, Queues
    <3>3. Head(to_mempool) \in RoundMessage
      BY <3>1, <3>2, MessageKinds DEF ToMempool
    <3>4. ~ ("digests" \in DOMAIN Head(to_mempool)) /\ r \in Nat
      BY <1>1, <3>3 DEF RoundMessage
    <3>5. CASE Queued(d)
      BY <1>6, <3>1, <3>4, <3>5
    <3>6. CASE Collected(d)
      BY <3>1, <3>6 DEF Collected
    <3>7. CASE d \in Requested
      <4>1. PICK q \in requests : q.digest = d
        BY <1>2, <3>7
      <4>2. CASE q \in Expired(r)
        <5>1. q.round \in Nat /\ q.round <= r - gc_depth
          BY <1>1, <4>2 DEF Expired
        <5>2. q.round + gc_depth <= r
          BY <1>1, <3>4, <5>1
        <5>3. gone(q).digest = d /\ gone(q).round = q.round /\ gone(q).at = r
          BY <4>1
        <5>4. gone(q) \in collected'
          BY <3>1, <4>2
        <5> HIDE DEF gone, r
        <5> QED  BY <5>2, <5>3, <5>4 DEF Collected
      <4>3. CASE q \notin Expired(r)
        BY <1>3, <3>1, <4>1, <4>3
      <4> QED  BY <4>2, <4>3
    <3> QED  BY <2>1, <3>5, <3>6, <3>7
  <2>6. CASE \E f \in fetching : Fetched(f)
    <3> PICK f \in fetching : Fetched(f)
      BY <2>6
    <3>1. /\ f.digest \in store /\ requests' = {q \in requests : q.digest # f.digest}
          /\ to_mempool' = to_mempool /\ collected' = collected
      BY DEF Fetched, queues
    <3>2. d # f.digest
      BY <1>4, <3>1
    <3> QED  BY <1>2, <1>3, <2>1, <3>1, <3>2 DEF Queued, Collected
  <2>7. CASE \/ TakeWait \/ TakeCleanup \/ TakeLoopback \/ SendOther
             \/ \E t \in waiting : Resume(t) \/ Cancelled(t)
             \/ \E f \in fetching : FetchCancelled(f)
             \/ \E old \in SUBSET Digest : Retry(old)
             \/ \E e \in Digest : Lose(e) \/ Answer(e) \/ Receive(e)
             \/ UNCHANGED vars
    <3>1. UNCHANGED <<requests, to_mempool, collected>>
      BY <2>7 DEF TakeWait, TakeCleanup, Resume, Cancelled, FetchCancelled, Retry, Lose,
                  Answer, Receive, TakeLoopback, SendOther, vars, queues, synchronizer
    <3> QED  BY <1>2, <1>3, <2>1, <3>1 DEF Queued, Collected
  <2> QED  BY <2>2, <2>3, <2>4, <2>5, <2>6, <2>7 DEF Next
<1> QED  BY <1>7, <1>8, WaitsSince

\* mempool/src/synchronizer.rs, the garbage collection of `pending': a batch that a
\* block waits for stays requested until a cleanup comes that is gc_depth rounds
\* past the one it was registered with, whatever happens to the other blocks and
\* tasks that share the request.
THEOREM WantedStaysRequested == Spec => []RequestedUntilCollected
<1>1. Init => WaitsRequested
  BY DEF Init, WaitsRequested, Waits
<1>2. PayloadInv /\ WaitsRequested => RequestedUntilCollected
  <2> SUFFICES ASSUME PayloadInv, WaitsRequested, NEW d \in Wanted
               PROVE  d \in Requested \/ Queued(d) \/ Collected(d)
    BY DEF RequestedUntilCollected
  <2>1. PICK t \in waiting : /\ t.open /\ t.block.round > cleaned
                             /\ d \in t.missing /\ d \notin store
    <3> DEFINE open == {u \in waiting : u.open /\ u.block.round > cleaned}
               needs == {t.missing : t \in open}
    <3>1. Wanted = (UNION needs) \ store
      BY Zenon DEF Wanted
    <3> HIDE DEF needs
    <3>2. d \notin store /\ \E ds \in needs : d \in ds
      BY <3>1
    <3>3. PICK ds \in needs : d \in ds
      BY <3>2
    <3>4. PICK t \in open : ds = t.missing
      BY <3>3 DEF needs
    <3> QED  BY <3>2, <3>3, <3>4
  <2>2. t.block \in Block /\ t.missing \in SUBSET Digest
    BY DEF PayloadInv, TypeOK
  <2>3. Waits(t.block, t.missing)
    BY <2>1 DEF Waits
  <2> QED  BY <2>1, <2>2, <2>3 DEF WaitsRequested
<1>3. PayloadInv => TypeOK
  BY DEF PayloadInv
<1> QED  BY PayloadInvariant, WaitsStep, <1>1, <1>2, <1>3, PTL DEF Spec
=============================================================================
