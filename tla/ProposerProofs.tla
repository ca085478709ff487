---------------------------- MODULE ProposerProofs ----------------------------
(***************************************************************************)
(* What the proposer guarantees for every committee, every capacity of its *)
(* channels and any number of batches and blocks: a quorum holds all its   *)
(* blocks before it goes on, no digest disappears, and none is proposed    *)
(* that the core had it forget.                                            *)
(***************************************************************************)
EXTENDS Proposer, CommitteeProofs, SequenceTheorems

\* Blocks over the first n that the core processed, and messages about them.
BlockOver(n) == [payload : SUBSET Digest, qc : 0..n, own : Nat]
MakeOver(n) == [kind : {"make"}, qc : 0..n, seen : [Digest -> Nat]]
CleanupMessage == [kind : {"cleanup"}, digests : SUBSET Digest]
MessageOver(n) == MakeOver(n) \union CleanupMessage

Handle == {"waiting", "acked", "cancelled"}
Known == Len(processed)

TypeOK ==
  /\ rx_mempool \in Seq(Digest) /\ buffer \subseteq Digest
  /\ processed \in Seq(BlockOver(Known)) /\ blocks \in Seq(BlockOver(Known))
  /\ loopback \in Seq(BlockOver(Known))
  /\ rx_message \in Seq(MessageOver(Known)) /\ outbox \in Seq(MessageOver(Known))
  /\ at \in {"message", "room", "quorum"}
  /\ at # "message" => blocks # <<>>
  /\ acks \subseteq Peer
  /\ handles \in [Peer -> Seq(Handle)]
  /\ \A p \in Peer : Len(handles[p]) = Len(blocks)
  /\ got \in [Peer -> SUBSET Nat]
  /\ taken \in [Digest -> Nat] /\ seen \in [Digest -> Nat]

-----------------------------------------------------------------------------
(* The types.                                                              *)

\* What is known stays known as more is processed.
LEMMA OverLarger ==
  ASSUME NEW n \in Nat, NEW m \in Nat, n <= m
  PROVE  BlockOver(n) \subseteq BlockOver(m) /\ MessageOver(n) \subseteq MessageOver(m)
BY DEF BlockOver, MessageOver, MakeOver

\* The digests to clean up are digests.
LEMMA CleanedType ==
  ASSUME TypeOK, NEW b \in BlockOver(Known)
  PROVE  /\ cleaned(b) \subseteq Digest
         /\ \A d \in cleaned(b) :
              \/ d \in b.payload
              \/ \E i \in 1..Known : d \in processed[i].payload
<1>1. /\ Known \in Nat /\ b.qc \in 0..Known /\ b.payload \subseteq Digest
      /\ \A i \in 1..Known : processed[i] \in BlockOver(Known)
  <2>1. processed \in Seq(BlockOver(Known))  BY DEF TypeOK
  <2>2. Known \in Nat /\ \A i \in 1..Known : processed[i] \in BlockOver(Known)
    BY <2>1, LenProperties, ElementOfSeq DEF Known
  <2> QED  BY <2>2 DEF BlockOver
<1>2. \A i \in 0..Known :
        /\ QCAt(i) \in 0..Known
        /\ PayloadAt(i) \subseteq Digest
        /\ \A d \in PayloadAt(i) : \E j \in 1..Known : d \in processed[j].payload
  <2> TAKE i \in 0..Known
  <2>1. CASE i = 0  BY <1>1, <2>1 DEF QCAt, PayloadAt
  <2>2. CASE i # 0
    <3>1. i \in 1..Known  BY <1>1, <2>2
    <3>2. processed[i].qc \in 0..Known /\ processed[i].payload \subseteq Digest
      BY <1>1, <3>1 DEF BlockOver
    <3> QED  BY <2>2, <3>1, <3>2 DEF QCAt, PayloadAt
  <2> QED  BY <2>1, <2>2
<1> QED  BY <1>1, <1>2 DEF cleaned

\* A request for a block is about blocks processed.
LEMMA AskType ==
  ASSUME NEW now \in [Digest -> Nat], NEW make \in Ask(now), Known \in Nat
  PROVE  /\ \/ make = <<>>
            \/ \E m \in MakeOver(Known) :
                 make = <<m>> /\ m.kind = "make" /\ m.seen = now
         /\ make \in Seq(MakeOver(Known))
<1>1. CASE make = <<>>  BY <1>1
<1>2. CASE make # <<>>
  <2>1. PICK qc \in 0..Known : make = <<[kind |-> "make", qc |-> qc, seen |-> now]>>
    BY <1>2 DEF Ask, Known
  <2>2. [kind |-> "make", qc |-> qc, seen |-> now] \in MakeOver(Known)
    BY DEF MakeOver
  <2> QED  BY <2>1, <2>2
<1> QED  BY <1>1, <1>2

\* Booting, nothing has happened.
LEMMA InitType == Init => TypeOK
BY DEF Init, TypeOK, Known, Handle

\* process_block: more is known, and the core has messages to send.
LEMMA ProcessType ==
  ASSUME TypeOK, NEW b \in BlockOver(Known), process_block(b)
  PROVE  /\ processed' \in Seq(BlockOver(Known)') /\ blocks \in Seq(BlockOver(Known)')
         /\ loopback \in Seq(BlockOver(Known)')
         /\ rx_message \in Seq(MessageOver(Known)')
         /\ outbox' \in Seq(MessageOver(Known)')
         /\ seen' \in [Digest -> Nat]
         /\ Known' = Known + 1 /\ Known \in Nat
<1>1. /\ Known \in Nat /\ Known' = Known + 1
      /\ processed' = Append(processed, b)
      /\ processed' \in Seq(BlockOver(Known))
  BY AppendProperties DEF TypeOK, process_block, Known
<1>2. /\ BlockOver(Known) \subseteq BlockOver(Known)'
      /\ MessageOver(Known) \subseteq MessageOver(Known)'
  BY <1>1, OverLarger DEF BlockOver, MessageOver, MakeOver
<1>3. seen' \in [Digest -> Nat]  BY DEF process_block, TypeOK
<1>4. outbox' \in Seq(MessageOver(Known)')
  <2> DEFINE now == [d \in Digest |-> IF d \in cleaned(b) THEN taken[d] ELSE seen[d]]
             cl  == [kind |-> "cleanup", digests |-> cleaned(b)]
  <2>1. now \in [Digest -> Nat]  BY DEF TypeOK
  <2>2. PICK make \in Ask(now) : outbox' = in_order(<<cl>>, make)
    BY DEF process_block
  <2>3. make \in Seq(MessageOver(Known)')
    BY <2>1, <2>2, AskType, <1>1, <1>2, SeqMonotonic DEF MessageOver
  <2>4. cl \in MessageOver(Known)'  BY CleanedType DEF MessageOver, CleanupMessage
  <2> QED  BY <2>2, <2>3, <2>4, ConcatProperties DEF in_order
<1> QED  BY <1>1, <1>2, <1>3, <1>4, SeqMonotonic DEF TypeOK

LEMMA TypeStep == TypeOK /\ [Next]_vars => TypeOK'
<1> SUFFICES ASSUME TypeOK, [Next]_vars PROVE TypeOK'
  OBVIOUS
<1> USE DEF TypeOK
<1>0. Known \in Nat  BY LenProperties DEF Known
<1>1. CASE \E d \in Digest : Announce(d)
  <2>1. rx_mempool' \in Seq(Digest)  BY <1>1, AppendProperties DEF Announce
  <2> QED  BY <1>1, <2>1 DEF Announce, Known, proposer, node
<1>2. ASSUME NEW b \in Foreign, HandleProposal(b) PROVE TypeOK'
  <2>1. b \in BlockOver(Known) /\ process_block(b)
    BY <1>2 DEF HandleProposal, Foreign, BlockOver, Known
  <2> QED  BY <1>2, <2>1, ProcessType DEF HandleProposal, proposer
<1>3. ASSUME NEW b \in Foreign, Resume(b) PROVE TypeOK'
  <2>1. b \in BlockOver(Known)  BY DEF Foreign, BlockOver, Known
  <2>2. loopback' \in Seq(BlockOver(Known))  BY <1>3, <2>1, AppendProperties DEF Resume
  <2> QED  BY <1>3, <2>2 DEF Resume, Known, proposer
<1>4. CASE HandleLoopback
  <2>1. Head(loopback) \in BlockOver(Known) /\ Tail(loopback) \in Seq(BlockOver(Known))
    BY <1>4, HeadTailProperties DEF HandleLoopback
  <2>2. process_block(Head(loopback))  BY <1>4 DEF HandleLoopback
  <2>3. /\ Known' = Known + 1 /\ processed' \in Seq(BlockOver(Known)')
        /\ blocks \in Seq(BlockOver(Known)') /\ rx_message \in Seq(MessageOver(Known)')
        /\ outbox' \in Seq(MessageOver(Known)') /\ seen' \in [Digest -> Nat]
    BY <2>1, <2>2, ProcessType
  <2>4. BlockOver(Known) \subseteq BlockOver(Known)'
    BY <1>0, <2>3 DEF BlockOver
  <2>5. loopback' \in Seq(BlockOver(Known)')
    BY <1>4, <2>1, <2>4, SeqMonotonic DEF HandleLoopback
  <2> QED  BY <1>4, <2>3, <2>5 DEF HandleLoopback, proposer
<1>5. CASE generate_proposal
  <2>1. PICK make \in Ask(seen) \ {<<>>} : outbox' = make
    BY <1>5 DEF generate_proposal
  <2>2. outbox' \in Seq(MessageOver(Known))
    BY <1>0, <2>1, AskType, SeqMonotonic DEF MessageOver
  <2> QED  BY <1>5, <2>2 DEF generate_proposal, Known, proposer
<1>6. CASE CoreSends
  <2>1. Head(outbox) \in MessageOver(Known) /\ Tail(outbox) \in Seq(MessageOver(Known))
    BY <1>6, HeadTailProperties DEF CoreSends
  <2>2. rx_message' \in Seq(MessageOver(Known))
    BY <1>6, <2>1, AppendProperties DEF CoreSends
  <2> QED  BY <1>6, <2>1, <2>2 DEF CoreSends, Known, proposer
<1>7. CASE TakeDigest
  <2>1. Head(rx_mempool) \in Digest /\ Tail(rx_mempool) \in Seq(Digest)
    BY <1>7, HeadTailProperties DEF TakeDigest
  <2>2. taken' \in [Digest -> Nat]  BY <1>7, <2>1 DEF TakeDigest
  <2> QED  BY <1>7, <2>1, <2>2 DEF TakeDigest, Known, node
<1>8. CASE Cleanup
  <2>1. Tail(rx_message) \in Seq(MessageOver(Known))
    BY <1>8, HeadTailProperties DEF Cleanup
  <2> QED  BY <1>8, <2>1 DEF Cleanup, remaining, Known, node
<1>9. CASE MakeBlock
  <2> DEFINE b == [payload |-> buffer, qc |-> Head(rx_message).qc, own |-> Len(blocks) + 1]
  <2>1. /\ Head(rx_message) \in MakeOver(Known)
        /\ Tail(rx_message) \in Seq(MessageOver(Known))
    <3>1. /\ Head(rx_message) \in MessageOver(Known)
          /\ Tail(rx_message) \in Seq(MessageOver(Known))
      BY <1>9, HeadTailProperties DEF MakeBlock
    <3>2. Head(rx_message).kind = "make"  BY <1>9 DEF MakeBlock
    <3> QED  BY <3>1, <3>2 DEF MessageOver, CleanupMessage
  <2>2. Len(blocks) \in Nat  BY LenProperties
  <2>3. b \in BlockOver(Known)
    <3>1. Head(rx_message).qc \in 0..Known  BY <2>1 DEF MakeOver
    <3> QED  BY <2>2, <3>1 DEF BlockOver
  <2>4. /\ blocks' \in Seq(BlockOver(Known)) /\ blocks' # <<>>
        /\ Len(blocks') = Len(blocks) + 1
    <3>1. blocks' = Append(blocks, b)  BY <1>9 DEF MakeBlock
    <3>2. blocks \in Seq(BlockOver(Known))  OBVIOUS
    <3> HIDE DEF TypeOK, b
    <3> QED  BY <2>3, <3>1, <3>2, AppendProperties
  <2>5. /\ handles' \in [Peer -> Seq(Handle)]
        /\ \A p \in Peer : Len(handles'[p]) = Len(blocks) + 1
    <3>1. handles' = [p \in Peer |-> Append(handles[p], "waiting")]
      BY <1>9 DEF MakeBlock
    <3>2. \A p \in Peer : handles[p] \in Seq(Handle) /\ Len(handles[p]) = Len(blocks)
      OBVIOUS
    <3>3. "waiting" \in Handle  BY DEF Handle
    <3> HIDE DEF TypeOK
    <3> QED  BY <3>1, <3>2, <3>3, AppendProperties
  <2> QED  BY <1>9, <2>1, <2>4, <2>5 DEF MakeBlock, Known, node
<1>10. CASE SendBlock
  <2>1. Last(blocks) \in BlockOver(Known)
    BY <1>10, EmptySeq, ElementOfSeq DEF SendBlock, Last
  <2>2. loopback' \in Seq(BlockOver(Known))
    BY <1>10, <2>1, AppendProperties DEF SendBlock
  <2> QED  BY <1>10, <2>2 DEF SendBlock, Known, node
<1>11. ASSUME NEW p \in Peer, CountAck(p) PROVE TypeOK'
  <2>1. /\ handles' \in [Peer -> Seq(Handle)]
        /\ \A q \in Peer : Len(handles'[q]) = Len(handles[q])
    <3> DEFINE k == Len(blocks)
               of(q) == [handles[q] EXCEPT ![k] = IF @ = "waiting" THEN "cancelled" ELSE @]
    <3>1. blocks # <<>> /\ k \in Nat \ {0}  BY <1>11, EmptySeq DEF CountAck
    <3>2. \A q \in Peer : of(q) \in Seq(Handle) /\ Len(of(q)) = Len(handles[q])
      <4> TAKE q \in Peer
      <4>1. k \in 1..Len(handles[q])  BY <3>1
      <4>2. handles[q][k] \in Handle  BY <4>1, ElementOfSeq
      <4> QED  BY <4>1, <4>2, ExceptSeq DEF Handle
    <3>3. handles' = handles \/ handles' = [q \in Peer |-> of(q)]
      BY <1>11 DEF CountAck
    <3> QED  BY <3>2, <3>3
  <2> QED  BY <1>11, <2>1 DEF CountAck, Known, node
<1>12. ASSUME NEW p \in Peer, NEW k \in Own, Link(p, k) PROVE TypeOK'
  <2>1. CASE Arrive(p, k)
    BY <2>1 DEF Arrive, Known, proposer, node, Own
  <2>2. CASE Acknowledge(p, k)
    <3>1. k \in 1..Len(handles[p])  BY <2>2, LenProperties DEF Acknowledge
    <3>2. [handles[p] EXCEPT ![k] = "acked"] \in Seq(Handle)
          /\ Len([handles[p] EXCEPT ![k] = "acked"]) = Len(handles[p])
      BY <3>1, ExceptSeq DEF Handle
    <3>3. handles' = [handles EXCEPT ![p] = [handles[p] EXCEPT ![k] = "acked"]]
      BY <2>2 DEF Acknowledge
    <3> QED  BY <2>2, <3>2, <3>3 DEF Acknowledge, Known, node
  <2> QED  BY <1>12, <2>1, <2>2 DEF Link
<1>13. CASE UNCHANGED vars  BY <1>13 DEF vars, proposer, node, Known
<1> QED
  BY <1>1, <1>2, <1>3, <1>4, <1>5, <1>6, <1>7, <1>8, <1>9, <1>10, <1>11, <1>12, <1>13
  DEF Next

-----------------------------------------------------------------------------
(* The quorum behind each block.                                           *)

Held(k) == IsQuorum({p \in Peer : k \in got[p]} \union Faulty \union {self})

\* Acknowledged is what was received; what was counted is acknowledged; all
\* blocks but the one the proposer works on are held by a quorum.
QuorumInv ==
  /\ TypeOK
  /\ \A p \in Peer \ Faulty : \A k \in 1..Len(blocks) :
       handles[p][k] = "acked" => k \in got[p]
  /\ at = "quorum" => \A p \in acks : handles[p][Len(blocks)] = "acked"
  /\ \A k \in 1..Len(blocks) : k < Len(blocks) \/ at = "message" => Held(k)

\* All authorities together are a quorum.
LEMMA AllAreQuorum == IsQuorum(Authority)
<1>1. Backing(Authority) = Units  BY UnitsAssumption DEF Backing
<1>2. Weight(Authority) = total_votes /\ total_votes \in Nat
  BY <1>1, WeightType DEF total_votes
<1> QED  BY <1>2, ProposerAssumption DEF IsQuorum, quorum_threshold

LEMMA InitQuorum == Init => QuorumInv
<1> SUFFICES ASSUME Init PROVE QuorumInv
  OBVIOUS
<1>1. blocks = <<>> /\ Len(blocks) = 0 /\ at = "message"  BY DEF Init
<1> QED  BY <1>1, InitType DEF QuorumInv

\* As long as peers only receive more, what a quorum holds it goes on holding.
LEMMA HeldOn ==
  ASSUME NEW k, Held(k), \A p \in Peer : got[p] \subseteq got'[p]
  PROVE  Held(k)'
<1> DEFINE S == {p \in Peer : k \in got[p]} \union Faulty \union {self}
           T == {p \in Peer : k \in got'[p]} \union Faulty \union {self}
<1>1. S \subseteq T /\ IsQuorum(S)  BY DEF Held
<1>2. IsQuorum(T)
  <2> HIDE DEF S, T
  <2> QED  BY <1>1, QuorumMonotone
<1> QED  BY <1>2 DEF Held

LEMMA QuorumStep == QuorumInv /\ [Next]_vars => QuorumInv'
<1> SUFFICES ASSUME QuorumInv, [Next]_vars PROVE QuorumInv'
  OBVIOUS
<1> USE DEF QuorumInv
<1>1. TypeOK'  BY TypeStep
<1>2. Len(blocks) \in Nat /\ \A p \in Peer : Len(handles[p]) = Len(blocks)
  BY LenProperties DEF TypeOK
<1>3. CASE UNCHANGED <<blocks, handles, acks, at, got>>
  BY <1>1, <1>3, HeldOn
<1>4. CASE MakeBlock
  <2>1. /\ Len(blocks') = Len(blocks) + 1 /\ blocks' # <<>>
        /\ \A p \in Peer : \A k \in 1..Len(blocks) : handles'[p][k] = handles[p][k]
        /\ \A p \in Peer : handles'[p][Len(blocks) + 1] = "waiting"
    <3>1. /\ Len(blocks') = Len(blocks) + 1
          /\ handles' = [p \in Peer |-> Append(handles[p], "waiting")]
      BY <1>1, <1>2, <1>4 DEF MakeBlock, TypeOK
    <3>2. \A p \in Peer : handles[p] \in Seq(Handle)  BY DEF TypeOK
    <3>3. "waiting" \in Handle  BY DEF Handle
    <3>4. \A p \in Peer : /\ \A k \in 1..Len(blocks) :
                             Append(handles[p], "waiting")[k] = handles[p][k]
                         /\ Append(handles[p], "waiting")[Len(blocks) + 1] = "waiting"
      BY <1>2, <3>2, <3>3, AppendProperties
    <3> QED  BY <1>1, <1>4, <3>1, <3>4 DEF MakeBlock, TypeOK
  <2>2. at = "message" /\ at' = "room" /\ got' = got  BY <1>4 DEF MakeBlock
  <2>3. \A k \in 1..Len(blocks) : Held(k)'  BY <2>2, HeldOn
  <2>4. \A p \in Peer \ Faulty : \A k \in 1..Len(blocks') :
          handles'[p][k] = "acked" => k \in got'[p]
    BY <1>2, <2>1, <2>2
  <2> QED  BY <1>1, <1>2, <2>1, <2>2, <2>3, <2>4
<1>5. CASE SendBlock
  <2>1. UNCHANGED <<blocks, handles, got>> /\ acks' = {}  BY <1>5 DEF SendBlock, node
  <2>2. CASE Peer = {}
    <3>1. Authority \subseteq {self}  BY <2>2 DEF Peer
    <3>2. \A k : Held(k)'
      BY <3>1, AllAreQuorum, QuorumMonotone DEF Held
    <3> QED  BY <1>1, <2>1, <2>2, <3>2
  <2>3. CASE Peer # {}
    <3>1. at' = "quorum" /\ at = "room"  BY <1>5, <2>3 DEF SendBlock
    <3> QED  BY <1>1, <2>1, <3>1, HeldOn
  <2> QED  BY <2>2, <2>3
<1>6. ASSUME NEW p \in Peer, CountAck(p) PROVE QuorumInv'
  <2> DEFINE n == Len(blocks)
             counted == acks \union {p}
  <2>1. /\ UNCHANGED <<blocks, got>> /\ acks' = counted /\ at = "quorum"
        /\ handles[p][n] = "acked" /\ blocks # <<>>
    BY <1>6 DEF CountAck, node, TypeOK
  <2>2. n \in Nat \ {0}  BY <2>1, EmptySeq DEF TypeOK
  <2>3. \A q \in counted : handles[q][n] = "acked"  BY <2>1
  <2>4. counted \subseteq Peer  BY DEF TypeOK
  <2>5. \A q \in Peer : \A k \in 1..n :
          handles'[q][k] = "acked" <=> handles[q][k] = "acked"
    <3>1. CASE handles' = handles  BY <3>1
    <3>2. CASE handles' = [q \in Peer |-> [handles[q] EXCEPT ![n] =
                             IF @ = "waiting" THEN "cancelled" ELSE @]]
      <4> TAKE q \in Peer
      <4> TAKE k \in 1..n
      <4>1. handles[q] \in Seq(Handle) /\ k \in DOMAIN handles[q]
        BY <1>2, LenProperties DEF TypeOK
      <4> QED  BY <3>2, <4>1
    <3> QED  BY <1>6, <3>1, <3>2 DEF CountAck
  <2>6. CASE at' = "message"
    <3>1. enough(counted) \/ counted = Peer  BY <1>6, <2>1, <2>6 DEF CountAck
    <3>2. counted \subseteq {q \in Peer : n \in got[q]} \union Faulty
      BY <2>2, <2>3, <2>4
    <3>3. IsQuorum(counted \union {self})
      <4>1. CASE enough(counted)  BY <4>1 DEF enough
      <4>2. CASE counted = Peer
        <5>1. Authority \subseteq counted \union {self}  BY <4>2 DEF Peer
        <5> QED  BY <5>1, AllAreQuorum, QuorumMonotone
      <4> QED  BY <3>1, <4>1, <4>2
    <3>4. Held(n)
      <4> DEFINE S == counted \union {self}
                 T == {q \in Peer : n \in got[q]} \union Faulty \union {self}
      <4>1. S \subseteq T /\ IsQuorum(S)  BY <3>2, <3>3
      <4>2. IsQuorum(T)
        <5> HIDE DEF S, T
        <5> QED  BY <4>1, QuorumMonotone
      <4> QED  BY <4>2 DEF Held
    <3>5. \A k \in 1..n : Held(k)  BY <2>2, <3>4
    <3>6. \A k \in 1..n : Held(k)'  BY <2>1, <3>5, HeldOn
    <3> QED  BY <1>1, <2>1, <2>5, <2>6, <3>6
  <2>7. CASE at' # "message"
    <3>1. UNCHANGED <<at, handles>>  BY <1>6, <2>7 DEF CountAck
    <3> QED  BY <1>1, <2>1, <2>3, <2>7, <3>1, HeldOn
  <2> QED  BY <2>6, <2>7
<1>7. ASSUME NEW p \in Peer, NEW k \in Own, Link(p, k) PROVE QuorumInv'
  <2>1. CASE Arrive(p, k)
    <3>1. UNCHANGED <<blocks, at, acks, handles>>
          /\ \A q \in Peer : got[q] \subseteq got'[q]
      BY <2>1 DEF Arrive, proposer, TypeOK
    <3> QED  BY <1>1, <3>1, HeldOn
  <2>2. CASE Acknowledge(p, k)
    <3>1. /\ UNCHANGED <<blocks, at, acks, got>>
          /\ k \in got[p] \/ p \in Faulty
          /\ \A q \in Peer : \A j \in 1..Len(blocks) :
               handles'[q][j] = IF q = p /\ j = k THEN "acked" ELSE handles[q][j]
      BY <1>2, <2>2, LenProperties DEF Acknowledge, node, TypeOK
    <3>2. \A q \in Peer \ Faulty : \A j \in 1..Len(blocks) :
            handles'[q][j] = "acked" => j \in got[q]
      BY <3>1
    <3>3. at = "quorum" => \A q \in acks : handles'[q][Len(blocks)] = "acked"
      <4> SUFFICES ASSUME at = "quorum", NEW q \in acks
                   PROVE  handles'[q][Len(blocks)] = "acked"
        OBVIOUS
      <4>1. Len(blocks) \in Nat \ {0} /\ q \in Peer  BY EmptySeq DEF TypeOK
      <4> QED  BY <3>1, <4>1
    <3>4. \A j : Held(j) => Held(j)'  BY <3>1, HeldOn
    <3> QED  BY <1>1, <3>1, <3>2, <3>3, <3>4
  <2> QED  BY <1>7, <2>1, <2>2 DEF Link
<1>8. CASE UNCHANGED vars  BY <1>3, <1>8 DEF vars, proposer
<1> QED
  BY <1>3, <1>4, <1>5, <1>6, <1>7, <1>8
  DEF Next, Announce, HandleProposal, Resume, HandleLoopback, generate_proposal,
      CoreSends, TakeDigest, Cleanup, proposer

\* The proposer goes on only when a quorum holds all its blocks (proposer.rs:105):
\* what is acknowledged was received, and the links keep to it.
THEOREM QuorumHoldsBlocks == Spec => []PreviousAtQuorum
<1>1. QuorumInv => PreviousAtQuorum  BY DEF QuorumInv, PreviousAtQuorum, Held
<1> QED  BY <1>1, InitQuorum, QuorumStep, PTL DEF Spec

-----------------------------------------------------------------------------
(* What the core told the proposer and the proposer has not read yet: the  *)
(* channel, and what the handler that runs has still to send.              *)

queue == rx_message \o outbox

LEMMA QueueType ==
  ASSUME TypeOK
  PROVE  /\ queue \in Seq(MessageOver(Known)) /\ Len(queue) \in Nat
         /\ \A i \in 1..Len(queue) : queue[i] \in MessageOver(Known)
<1>1. queue \in Seq(MessageOver(Known))  BY ConcatProperties DEF TypeOK, queue
<1> QED  BY <1>1, LenProperties, ElementOfSeq

\* A handler adds its messages at the end.
LEMMA QueueGrows ==
  ASSUME TypeOK, TypeOK', outbox = <<>>, rx_message' = rx_message
  PROVE  /\ Len(queue') = Len(queue) + Len(outbox') /\ Len(outbox') \in Nat
         /\ \A i \in 1..Len(queue) : queue'[i] = queue[i]
         /\ \A i \in 1..Len(outbox') : queue'[Len(queue) + i] = outbox'[i]
<1>1. queue = rx_message  BY ConcatEmptySeq DEF TypeOK, queue
<1>2. queue' = rx_message \o outbox'  BY DEF queue
<1>3. rx_message \in Seq(MessageOver(Known)') /\ outbox' \in Seq(MessageOver(Known)')
  BY DEF TypeOK
<1>4. /\ Len(rx_message) \in Nat /\ Len(outbox') \in Nat
      /\ Len(queue') = Len(rx_message) + Len(outbox')
      /\ \A i \in 1..(Len(rx_message) + Len(outbox')) :
           queue'[i] = IF i <= Len(rx_message) THEN rx_message[i]
                       ELSE outbox'[i - Len(rx_message)]
  BY <1>2, <1>3, ConcatProperties, LenProperties
<1> HIDE DEF queue
<1>5. \A i \in 1..Len(rx_message) : queue'[i] = rx_message[i]  BY <1>4
<1>6. \A i \in 1..Len(outbox') : queue'[Len(rx_message) + i] = outbox'[i]
  <2> TAKE i \in 1..Len(outbox')
  <2>1. /\ Len(rx_message) + i \in 1..(Len(rx_message) + Len(outbox'))
        /\ ~ (Len(rx_message) + i <= Len(rx_message))
        /\ Len(rx_message) + i - Len(rx_message) = i
    BY <1>4
  <2> QED  BY <1>4, <2>1
<1> QED  BY <1>1, <1>4, <1>5, <1>6

\* The proposer reads the first message.
LEMMA QueueRead ==
  ASSUME TypeOK, rx_message # <<>>, rx_message' = Tail(rx_message), outbox' = outbox
  PROVE  /\ Len(queue) > 0 /\ queue[1] = Head(rx_message)
         /\ Len(queue') = Len(queue) - 1
         /\ \A i \in 1..Len(queue') : queue'[i] = queue[i + 1]
<1> DEFINE M == MessageOver(Known)
<1>1. rx_message \in Seq(M) /\ outbox \in Seq(M)  BY DEF TypeOK
<1>2. /\ Len(rx_message) \in Nat \ {0} /\ Len(outbox) \in Nat
      /\ Tail(rx_message) \in Seq(M) /\ Len(Tail(rx_message)) = Len(rx_message) - 1
      /\ \A i \in 1..Len(Tail(rx_message)) : Tail(rx_message)[i] = rx_message[i + 1]
      /\ Head(rx_message) = rx_message[1]
  BY <1>1, HeadTailProperties, EmptySeq, LenProperties
<1>3. /\ Len(queue) = Len(rx_message) + Len(outbox)
      /\ \A i \in 1..(Len(rx_message) + Len(outbox)) :
           queue[i] = IF i <= Len(rx_message) THEN rx_message[i]
                      ELSE outbox[i - Len(rx_message)]
  BY <1>1, ConcatProperties DEF queue
<1>4. queue' = Tail(rx_message) \o outbox  BY DEF queue
<1>5. /\ Len(queue') = Len(Tail(rx_message)) + Len(outbox)
      /\ \A i \in 1..(Len(Tail(rx_message)) + Len(outbox)) :
           queue'[i] = IF i <= Len(Tail(rx_message)) THEN Tail(rx_message)[i]
                       ELSE outbox[i - Len(Tail(rx_message))]
  BY <1>1, <1>2, <1>4, ConcatProperties
<1> HIDE DEF queue, M
<1>6. \A i \in 1..Len(queue') : queue'[i] = queue[i + 1]
  <2> TAKE i \in 1..Len(queue')
  <2>1. i + 1 \in 1..(Len(rx_message) + Len(outbox))  BY <1>2, <1>5
  <2>2. CASE i <= Len(Tail(rx_message))  BY <1>2, <1>3, <1>5, <2>1, <2>2
  <2>3. CASE ~ (i <= Len(Tail(rx_message)))
    <3>1. i - Len(Tail(rx_message)) = (i + 1) - Len(rx_message)
          /\ ~ (i + 1 <= Len(rx_message))
      BY <1>2, <1>5, <2>3
    <3> QED  BY <1>2, <1>3, <1>5, <2>1, <2>3, <3>1
  <2> QED  BY <2>2, <2>3
<1> QED  BY <1>2, <1>3, <1>5, <1>6

\* Sending leaves it as it is.
LEMMA QueueSent ==
  ASSUME TypeOK, CoreSends
  PROVE  queue' = queue
<1> DEFINE M == MessageOver(Known)
           m == Head(outbox)
<1>1. /\ rx_message \in Seq(M) /\ m \in M /\ Tail(outbox) \in Seq(M)
      /\ outbox \in Seq(M) /\ outbox # <<>>
  BY HeadTailProperties DEF TypeOK, CoreSends
<1>2. queue' = Append(rx_message, m) \o Tail(outbox)  BY DEF queue, CoreSends
<1> HIDE DEF M, m
<1>3. Append(rx_message, m) = rx_message \o <<m>>  BY <1>1, AppendIsConcat
<1>4. <<m>> \in Seq(M)  BY <1>1
<1>5. (rx_message \o <<m>>) \o Tail(outbox) = rx_message \o (<<m>> \o Tail(outbox))
  BY <1>1, <1>4, ConcatAssociative
<1>6. <<m>> \o Tail(outbox) = outbox
  <2>1. /\ <<m>> \o Tail(outbox) \in Seq(M)
        /\ Len(<<m>> \o Tail(outbox)) = Len(outbox)
        /\ \A i \in 1..Len(outbox) : (<<m>> \o Tail(outbox))[i] = outbox[i]
    <3>1. /\ Len(outbox) \in Nat \ {0} /\ Len(Tail(outbox)) = Len(outbox) - 1
          /\ \A i \in 1..Len(Tail(outbox)) : Tail(outbox)[i] = outbox[i + 1]
          /\ m = outbox[1] /\ Len(<<m>>) = 1 /\ <<m>>[1] = m
      BY <1>1, HeadTailProperties, EmptySeq DEF m
    <3>2. /\ <<m>> \o Tail(outbox) \in Seq(M)
          /\ Len(<<m>> \o Tail(outbox)) = 1 + Len(Tail(outbox))
          /\ \A i \in 1..(1 + Len(Tail(outbox))) : (<<m>> \o Tail(outbox))[i] =
               IF i <= 1 THEN <<m>>[i] ELSE Tail(outbox)[i - 1]
      BY <1>1, <1>4, <3>1, ConcatProperties
    <3> QED  BY <3>1, <3>2
  <2> QED  BY <1>1, <2>1, SeqEqual
<1> QED  BY <1>2, <1>3, <1>5, <1>6 DEF queue

\* A block processed adds a Cleanup, and after it what the core asks for.
LEMMA QueueProcess ==
  ASSUME TypeOK, TypeOK', outbox = <<>>, rx_message' = rx_message,
         NEW b \in BlockOver(Known), process_block(b)
  PROVE  LET n == Len(queue)
         IN /\ n + 1 \in 1..Len(queue')
            /\ \A i \in 1..n : queue'[i] = queue[i]
            /\ queue'[n + 1] = [kind |-> "cleanup", digests |-> cleaned(b)]
            /\ \A i \in (n + 2)..Len(queue') :
                 queue'[i].kind = "make" /\ queue'[i].seen = seen'
<1> DEFINE cl == [kind |-> "cleanup", digests |-> cleaned(b)]
<1>1. seen' \in [Digest -> Nat] /\ Known \in Nat
  BY LenProperties DEF TypeOK, Known
<1>2. PICK make \in Ask(seen') : outbox' = in_order(<<cl>>, make)
  BY DEF process_block
<1>3. \/ make = <<>>
      \/ \E m \in MakeOver(Known) : make = <<m>> /\ m.kind = "make" /\ m.seen = seen'
  BY <1>1, <1>2, AskType
<1>4. outbox' = <<cl>> \o make  BY <1>2 DEF in_order
<1>5. /\ Len(outbox') \in {1, 2} /\ outbox'[1] = cl
      /\ Len(outbox') = 2 => outbox'[2].kind = "make" /\ outbox'[2].seen = seen'
  <2> HIDE DEF cl
  <2>1. CASE make = <<>>
    <3>1. outbox' = <<cl>>  BY <1>4, <2>1
    <3> QED  BY <3>1
  <2>2. CASE make # <<>>
    <3>1. PICK m \in MakeOver(Known) : make = <<m>> /\ m.kind = "make" /\ m.seen = seen'
      BY <1>3, <2>2
    <3>2. <<cl>> \in Seq({cl, m}) /\ <<m>> \in Seq({cl, m}) /\ outbox' = <<cl>> \o <<m>>
      BY <1>4, <3>1
    <3>3. Len(outbox') = 2 /\ outbox'[1] = cl /\ outbox'[2] = m
      BY <3>2, ConcatProperties
    <3> QED  BY <3>1, <3>3
  <2> QED  BY <2>1, <2>2
<1>6. /\ Len(queue') = Len(queue) + Len(outbox') /\ Len(queue) \in Nat
      /\ \A i \in 1..Len(queue) : queue'[i] = queue[i]
      /\ \A i \in 1..Len(outbox') : queue'[Len(queue) + i] = outbox'[i]
  BY QueueGrows, QueueType
<1> HIDE DEF cl
<1>7. queue'[Len(queue) + 1] = cl  BY <1>5, <1>6
<1>8. \A i \in (Len(queue) + 2)..Len(queue') :
        queue'[i].kind = "make" /\ queue'[i].seen = seen'
  <2> TAKE i \in (Len(queue) + 2)..Len(queue')
  <2>1. i = Len(queue) + 2 /\ Len(outbox') = 2  BY <1>5, <1>6
  <2>2. queue'[Len(queue) + 2] = outbox'[2]  BY <1>6, <2>1
  <2> QED  BY <1>5, <2>1, <2>2
<1> QED  BY <1>5, <1>6, <1>7, <1>8 DEF cl

\* The other handlers add what they ask for.
LEMMA QueueAsk ==
  ASSUME TypeOK, TypeOK', generate_proposal
  PROVE  /\ Len(queue') = Len(queue) + 1
         /\ \A i \in 1..Len(queue) : queue'[i] = queue[i]
         /\ queue'[Len(queue) + 1].kind = "make"
         /\ queue'[Len(queue) + 1].seen = seen
<1>1. seen \in [Digest -> Nat] /\ Known \in Nat
  BY LenProperties DEF TypeOK, Known
<1>2. PICK make \in Ask(seen) \ {<<>>} : outbox' = make
  BY DEF generate_proposal
<1>3. PICK m \in MakeOver(Known) : outbox' = <<m>> /\ m.kind = "make" /\ m.seen = seen
  BY <1>1, <1>2, AskType
<1>4. Len(outbox') = 1 /\ outbox'[1] = m  BY <1>3
<1>5. outbox = <<>> /\ rx_message' = rx_message  BY DEF generate_proposal
<1>6. /\ Len(queue') = Len(queue) + 1
      /\ \A i \in 1..Len(queue) : queue'[i] = queue[i]
      /\ queue'[Len(queue) + 1] = outbox'[1]
  BY <1>4, <1>5, QueueGrows
<1> QED  BY <1>3, <1>4, <1>6

\* The steps that the remaining theorems are about.
Processes ==
  /\ outbox = <<>> /\ rx_message' = rx_message
  /\ \E b \in BlockOver(Known) : process_block(b)
  /\ UNCHANGED <<buffer, taken, blocks>>

LEMMA StepKinds ==
  ASSUME TypeOK, [Next]_vars
  PROVE  \/ Processes \/ generate_proposal \/ TakeDigest \/ Cleanup \/ MakeBlock
         \/ UNCHANGED <<queue, buffer, taken, seen, processed, blocks>>
<1>1. ASSUME NEW b \in Foreign, HandleProposal(b) PROVE Processes
  BY <1>1 DEF HandleProposal, Processes, Foreign, BlockOver, Known, proposer
<1>2. CASE HandleLoopback
  <2>1. Head(loopback) \in BlockOver(Known)
    BY <1>2, HeadTailProperties DEF HandleLoopback, TypeOK
  <2> QED  BY <1>2, <2>1 DEF HandleLoopback, Processes, proposer
<1>3. CASE CoreSends  BY <1>3, QueueSent DEF CoreSends, proposer
<1>4. CASE UNCHANGED <<rx_message, outbox, buffer, taken, seen, processed, blocks>>
  BY <1>4 DEF queue
<1> QED
  BY <1>1, <1>2, <1>3, <1>4
  DEF Next, vars, proposer, node, Announce, Resume, SendBlock, CountAck, Link, Arrive,
      Acknowledge

-----------------------------------------------------------------------------
(* No digest disappears.                                                   *)

Processed(d) == \E i \in 1..Known : d \in processed[i].payload
InBlock(d) == \E k \in 1..Len(blocks) : d \in blocks[k].payload

\* Only what the core processed is cleaned up.
AccountInv ==
  /\ TypeOK
  /\ \A d \in Digest : taken[d] > 0 => d \in buffer \/ InBlock(d) \/ Processed(d)
  /\ \A i \in 1..Len(queue) : queue[i].kind = "cleanup" =>
       \A d \in queue[i].digests : Processed(d)

LEMMA InitAccount == Init => AccountInv
<1> SUFFICES ASSUME Init PROVE AccountInv
  OBVIOUS
<1>1. TypeOK  BY InitType
<1>2. rx_message = <<>> /\ outbox = <<>> /\ \A d \in Digest : taken[d] = 0  BY DEF Init
<1>3. Len(queue) = 0  BY <1>2 DEF queue
<1> QED  BY <1>1, <1>2, <1>3 DEF AccountInv

\* What is processed, and what is in a block, stays so.
LEMMA ProcessedOn ==
  ASSUME TypeOK, [Next]_vars, NEW d
  PROVE  /\ Processed(d) => Processed(d)'
         /\ InBlock(d) => InBlock(d)'
<1>1. processed' = processed \/ \E b : b \in BlockOver(Known) /\ processed' = Append(processed, b)
  <2>1. CASE \E b \in Foreign : HandleProposal(b)
    BY <2>1 DEF HandleProposal, process_block, Foreign, BlockOver, Known
  <2>2. CASE HandleLoopback
    <3>1. Head(loopback) \in BlockOver(Known)
      BY <2>2, HeadTailProperties DEF HandleLoopback, TypeOK
    <3> QED  BY <2>2, <3>1 DEF HandleLoopback, process_block
  <2> QED  BY <2>1, <2>2 DEF Next, vars, node, Announce, Resume, generate_proposal,
             CoreSends, TakeDigest, Cleanup, MakeBlock, SendBlock, CountAck, Link,
             Arrive, Acknowledge
<1>2. blocks' = blocks \/ \E b : b \in BlockOver(Known) /\ blocks' = Append(blocks, b)
  <2>1. CASE MakeBlock
    <3> DEFINE b == [payload |-> buffer, qc |-> Head(rx_message).qc, own |-> Len(blocks) + 1]
    <3>1. Head(rx_message) \in MessageOver(Known) /\ Head(rx_message).kind = "make"
      BY <2>1, HeadTailProperties DEF MakeBlock, TypeOK
    <3>2. Head(rx_message).qc \in 0..Known
      BY <3>1 DEF MessageOver, MakeOver, CleanupMessage
    <3>3. b \in BlockOver(Known)
      BY <3>2, LenProperties DEF BlockOver, TypeOK
    <3> QED  BY <2>1, <3>3 DEF MakeBlock
  <2> QED  BY <2>1 DEF Next, vars, proposer, Announce, HandleProposal, HandleLoopback,
             Resume, generate_proposal, CoreSends, TakeDigest, Cleanup, SendBlock,
             CountAck, Link, Arrive, Acknowledge
<1>3. processed \in Seq(BlockOver(Known)) /\ blocks \in Seq(BlockOver(Known))
  BY DEF TypeOK
<1>4. \A s \in Seq(BlockOver(Known)), b \in BlockOver(Known) :
        \A i \in 1..Len(s) : i \in 1..Len(Append(s, b)) /\ Append(s, b)[i] = s[i]
  BY AppendProperties, LenProperties
<1>5. \A i \in 1..Len(processed) : i \in 1..Len(processed') /\ processed'[i] = processed[i]
  <2>1. CASE processed' = processed  BY <2>1
  <2>2. CASE processed' # processed  BY <1>1, <1>3, <1>4, <2>2
  <2> QED  BY <2>1, <2>2
<1>6. \A k \in 1..Len(blocks) : k \in 1..Len(blocks') /\ blocks'[k] = blocks[k]
  <2>1. CASE blocks' = blocks  BY <2>1
  <2>2. CASE blocks' # blocks  BY <1>2, <1>3, <1>4, <2>2
  <2> QED  BY <2>1, <2>2
<1> QED  BY <1>5, <1>6 DEF Processed, InBlock, Known

LEMMA AccountStep == AccountInv /\ [Next]_vars => AccountInv'
<1> SUFFICES ASSUME AccountInv, [Next]_vars PROVE AccountInv'
  OBVIOUS
<1>1. TypeOK /\ TypeOK'  BY TypeStep DEF AccountInv
<1>2. \A d : (Processed(d) => Processed(d)') /\ (InBlock(d) => InBlock(d)')
  BY <1>1, ProcessedOn
<1>3. /\ \A d \in Digest : taken[d] > 0 => d \in buffer \/ InBlock(d) \/ Processed(d)
      /\ \A i \in 1..Len(queue) : queue[i].kind = "cleanup" =>
           \A d \in queue[i].digests : Processed(d)
  BY DEF AccountInv
<1>4. SUFFICES
        /\ \A d \in Digest : taken'[d] > 0 => d \in buffer' \/ InBlock(d)' \/ Processed(d)'
        /\ \A i \in 1..Len(queue') : queue'[i].kind = "cleanup" =>
             \A d \in queue'[i].digests : Processed(d)'
  BY <1>1 DEF AccountInv
<1>5. Len(queue) \in Nat /\ Len(queue') \in Nat  BY <1>1, QueueType
<1>6. CASE Processes
  <2>1. PICK b \in BlockOver(Known) : process_block(b)  BY <1>6 DEF Processes
  <2> DEFINE n == Len(queue)
  <2>2. /\ \A i \in 1..n : queue'[i] = queue[i]
        /\ queue'[n + 1] = [kind |-> "cleanup", digests |-> cleaned(b)]
        /\ \A i \in (n + 2)..Len(queue') : queue'[i].kind = "make"
    BY <1>1, <1>6, <2>1, QueueProcess DEF Processes
  <2>3. \A d \in cleaned(b) : Processed(d)'
    <3> TAKE d \in cleaned(b)
    <3>1. CASE d \in b.payload
      <4>1. Known' \in 1..Known' /\ processed'[Known'] = b
        BY <1>1, <2>1, AppendProperties, LenProperties DEF process_block, Known, TypeOK
      <4> QED  BY <3>1, <4>1 DEF Processed
    <3>2. CASE d \notin b.payload
      BY <1>1, <1>2, <3>2, CleanedType DEF Processed
    <3> QED  BY <3>1, <3>2
  <2>4. \A i \in 1..Len(queue') : i \in 1..n \/ i = n + 1 \/ i \in (n + 2)..Len(queue')
    BY <1>5
  <2>5. \A i \in 1..Len(queue') : queue'[i].kind = "cleanup" =>
          \A d \in queue'[i].digests : Processed(d)'
    BY <1>2, <1>3, <2>2, <2>3, <2>4
  <2> QED  BY <1>2, <1>3, <1>6, <2>5 DEF Processes
<1>7. CASE generate_proposal
  <2>1. /\ Len(queue') = Len(queue) + 1
        /\ \A i \in 1..Len(queue) : queue'[i] = queue[i]
        /\ queue'[Len(queue) + 1].kind = "make"
    BY <1>1, <1>7, QueueAsk
  <2>2. \A i \in 1..Len(queue') : i \in 1..Len(queue) \/ i = Len(queue) + 1
    BY <1>5, <2>1
  <2>3. UNCHANGED <<taken, buffer>>  BY <1>7 DEF generate_proposal, proposer
  <2> QED  BY <1>2, <1>3, <2>1, <2>2, <2>3
<1>8. CASE TakeDigest
  <2>1. Head(rx_mempool) \in Digest
    BY <1>1, <1>8, HeadTailProperties DEF TakeDigest, TypeOK
  <2>2. /\ queue' = queue
        /\ \A d \in Digest : taken'[d] > 0 => taken[d] > 0 \/ d \in buffer'
        /\ buffer \subseteq buffer'
    BY <1>1, <1>8, <2>1 DEF TakeDigest, queue, node, TypeOK
  <2> QED  BY <1>2, <1>3, <2>2
<1>9. CASE Cleanup
  <2>1. /\ Len(queue) > 0 /\ queue[1] = Head(rx_message)
        /\ Len(queue') = Len(queue) - 1
        /\ \A i \in 1..Len(queue') : queue'[i] = queue[i + 1]
    BY <1>1, <1>9, QueueRead DEF Cleanup, node
  <2>2. /\ buffer' = buffer \ queue[1].digests /\ taken' = taken
        /\ queue[1].kind = "cleanup"
    BY <1>9, <2>1 DEF Cleanup, remaining
  <2>3. \A d \in queue[1].digests : Processed(d)'  BY <1>2, <1>3, <1>5, <2>1, <2>2
  <2>4. \A i \in 1..Len(queue') : i + 1 \in 1..Len(queue)  BY <1>5, <2>1
  <2> QED  BY <1>2, <1>3, <2>1, <2>2, <2>3, <2>4
<1>10. CASE MakeBlock
  <2>1. /\ Len(queue') = Len(queue) - 1
        /\ \A i \in 1..Len(queue') : queue'[i] = queue[i + 1]
    BY <1>1, <1>10, QueueRead DEF MakeBlock, node
  <2>2. \A d \in buffer : InBlock(d)'
    <3> DEFINE b == [payload |-> buffer, qc |-> Head(rx_message).qc,
                     own |-> Len(blocks) + 1]
    <3>1. blocks' = Append(blocks, b) /\ b.payload = buffer  BY <1>10 DEF MakeBlock
    <3>2. blocks \in Seq(BlockOver(Known) \union {b})
      BY <1>1, SeqMonotonic DEF TypeOK
    <3> HIDE DEF b
    <3>3. Len(blocks') \in 1..Len(blocks') /\ blocks'[Len(blocks')] = b
      BY <3>1, <3>2, AppendProperties, LenProperties
    <3> QED  BY <3>1, <3>3 DEF InBlock
  <2>3. taken' = taken  BY <1>10 DEF MakeBlock
  <2>4. \A i \in 1..Len(queue') : i + 1 \in 1..Len(queue)  BY <1>5, <2>1
  <2> QED  BY <1>2, <1>3, <2>1, <2>2, <2>3, <2>4
<1>11. CASE UNCHANGED <<queue, buffer, taken, seen, processed, blocks>>
  BY <1>2, <1>3, <1>11
<1> QED  BY <1>1, <1>6, <1>7, <1>8, <1>9, <1>10, <1>11, StepKinds

\* What the mempool announced is not lost on its way into a block (proposer.rs:127):
\* only what the core processed is removed from the buffer.
THEOREM NoDigestLost == Spec => []DigestsAccounted
<1>1. AccountInv => DigestsAccounted
  BY DEF AccountInv, DigestsAccounted, InBlock, Processed, Known
<1> QED  BY <1>1, InitAccount, AccountStep, PTL DEF Spec

-----------------------------------------------------------------------------
(* No digest is proposed again that the core met in a block.               *)

Removes(m, d) == m.kind = "cleanup" /\ d \in m.digests

\* A digest in the buffer that the core has met since it got there is about to be
\* removed, and before a block is made that was asked for after that.
LateInv ==
  /\ TypeOK
  /\ \A d \in Digest : seen[d] <= taken[d]
  /\ \A i \in 1..Len(queue) : queue[i].kind = "make" =>
       \A d \in Digest : queue[i].seen[d] <= seen[d]
  /\ \A d \in buffer : taken[d] <= seen[d] =>
       \E j \in 1..Len(queue) : Removes(queue[j], d)
  /\ \A i \in 1..Len(queue) : queue[i].kind = "make" =>
       \A d \in buffer : taken[d] <= queue[i].seen[d] =>
         \E j \in 1..(i - 1) : Removes(queue[j], d)

LEMMA InitLate == Init => LateInv
<1> SUFFICES ASSUME Init PROVE LateInv
  OBVIOUS
<1>1. TypeOK  BY InitType
<1>2. /\ rx_message = <<>> /\ outbox = <<>> /\ buffer = {}
      /\ \A d \in Digest : seen[d] <= taken[d]
  BY DEF Init
<1>3. Len(queue) = 0  BY <1>2 DEF queue
<1> QED  BY <1>1, <1>2, <1>3 DEF LateInv

\* The times of the requests in the queue are numbers.
LEMMA TimesType ==
  ASSUME TypeOK
  PROVE  /\ \A d \in Digest : taken[d] \in Nat /\ seen[d] \in Nat
         /\ \A i \in 1..Len(queue) : queue[i].kind = "make" =>
              \A d \in Digest : queue[i].seen[d] \in Nat
<1>1. \A i \in 1..Len(queue) : queue[i].kind = "make" => queue[i] \in MakeOver(Known)
  BY QueueType DEF MessageOver, CleanupMessage
<1> QED  BY <1>1 DEF MakeOver, TypeOK

LEMMA LateStep == LateInv /\ [Next]_vars => LateInv'
<1> SUFFICES ASSUME LateInv, [Next]_vars PROVE LateInv'
  OBVIOUS
<1> DEFINE n == Len(queue)
<1>1. TypeOK /\ TypeOK'  BY TypeStep DEF LateInv
<1>2. n \in Nat /\ buffer \subseteq Digest  BY <1>1, QueueType DEF TypeOK
<1>3. /\ \A d \in Digest : taken[d] \in Nat /\ seen[d] \in Nat
      /\ \A i \in 1..n : queue[i].kind = "make" =>
           \A d \in Digest : queue[i].seen[d] \in Nat
  BY <1>1, TimesType
<1>4. /\ \A d \in Digest : seen[d] <= taken[d]
      /\ \A i \in 1..n : queue[i].kind = "make" =>
           \A d \in Digest : queue[i].seen[d] <= seen[d]
      /\ \A d \in buffer : taken[d] <= seen[d] => \E j \in 1..n : Removes(queue[j], d)
      /\ \A i \in 1..n : queue[i].kind = "make" =>
           \A d \in buffer : taken[d] <= queue[i].seen[d] =>
             \E j \in 1..(i - 1) : Removes(queue[j], d)
  BY DEF LateInv
<1>5. CASE Processes
  <2>1. PICK b \in BlockOver(Known) : process_block(b)  BY <1>5 DEF Processes
  <2>2. /\ n + 1 \in 1..Len(queue')
        /\ \A i \in 1..n : queue'[i] = queue[i]
        /\ queue'[n + 1] = [kind |-> "cleanup", digests |-> cleaned(b)]
        /\ \A i \in (n + 2)..Len(queue') : queue'[i].seen = seen'
    BY <1>1, <1>5, <2>1, QueueProcess DEF Processes
  <2>3. UNCHANGED <<taken, buffer>>  BY <1>5 DEF Processes
  <2>4. \A d \in Digest : seen'[d] = IF d \in cleaned(b) THEN taken[d] ELSE seen[d]
    BY <2>1 DEF process_block
  <2>5. \A d \in Digest : seen'[d] <= taken[d] /\ seen[d] <= seen'[d] /\ seen'[d] \in Nat
    BY <1>3, <1>4, <2>4
  <2>6. \A i \in 1..Len(queue') : i \in 1..n \/ i = n + 1 \/ i \in (n + 2)..Len(queue')
    BY <1>2
  <2>7. queue'[n + 1].kind # "make"  BY <2>2
  <2>8. \A i \in 1..Len(queue') : queue'[i].kind = "make" =>
          \A d \in Digest : queue'[i].seen[d] <= seen'[d]
    <3> SUFFICES ASSUME NEW i \in 1..Len(queue'), queue'[i].kind = "make",
                        NEW d \in Digest
                 PROVE  queue'[i].seen[d] <= seen'[d]
      OBVIOUS
    <3>1. CASE i \in 1..n  BY <1>3, <1>4, <2>2, <2>5, <3>1
    <3>2. CASE i \in (n + 2)..Len(queue')  BY <2>2, <2>5, <3>2
    <3> QED  BY <2>6, <2>7, <3>1, <3>2
  <2>9. \A d \in buffer : taken[d] <= seen'[d] => \E j \in 1..(n + 1) : Removes(queue'[j], d)
    <3> SUFFICES ASSUME NEW d \in buffer, taken[d] <= seen'[d]
                 PROVE  \E j \in 1..(n + 1) : Removes(queue'[j], d)
      OBVIOUS
    <3>1. CASE d \in cleaned(b)
      <4>1. Removes(queue'[n + 1], d) /\ n + 1 \in 1..(n + 1)
        BY <1>2, <2>2, <3>1 DEF Removes
      <4> QED  BY <4>1
    <3>2. CASE d \notin cleaned(b)
      <4>1. PICK j \in 1..n : Removes(queue[j], d)  BY <1>2, <1>4, <2>4, <3>2
      <4>2. Removes(queue'[j], d) /\ j \in 1..(n + 1)  BY <1>2, <2>2, <4>1
      <4> QED  BY <4>2
    <3> QED  BY <3>1, <3>2
  <2>10. \A i \in 1..Len(queue') : queue'[i].kind = "make" =>
           \A d \in buffer : taken[d] <= queue'[i].seen[d] =>
             \E j \in 1..(i - 1) : Removes(queue'[j], d)
    <3> SUFFICES ASSUME NEW i \in 1..Len(queue'), queue'[i].kind = "make",
                        NEW d \in buffer, taken[d] <= queue'[i].seen[d]
                 PROVE  \E j \in 1..(i - 1) : Removes(queue'[j], d)
      OBVIOUS
    <3>1. CASE i \in 1..n
      <4>1. PICK j \in 1..(i - 1) : Removes(queue[j], d)  BY <1>4, <2>2, <3>1
      <4>2. j \in 1..n  BY <1>2, <3>1
      <4> QED  BY <2>2, <4>1, <4>2
    <3>2. CASE i \in (n + 2)..Len(queue')
      <4>1. PICK j \in 1..(n + 1) : Removes(queue'[j], d)  BY <2>2, <2>9, <3>2
      <4>2. j \in 1..(i - 1)  BY <1>2, <3>2
      <4> QED  BY <4>1, <4>2
    <3> QED  BY <2>6, <2>7, <3>1, <3>2
  <2>11. \A d \in buffer : taken[d] <= seen'[d] =>
           \E j \in 1..Len(queue') : Removes(queue'[j], d)
    <3>1. 1..(n + 1) \subseteq 1..Len(queue')  BY <1>2, <2>2
    <3> QED  BY <2>9, <3>1
  <2> QED  BY <1>1, <2>3, <2>5, <2>8, <2>10, <2>11 DEF LateInv
<1>6. CASE generate_proposal
  <2>1. /\ Len(queue') = n + 1
        /\ \A i \in 1..n : queue'[i] = queue[i]
        /\ queue'[n + 1].kind = "make" /\ queue'[n + 1].seen = seen
    BY <1>1, <1>6, QueueAsk
  <2>2. \A i \in 1..Len(queue') : i \in 1..n \/ i = n + 1  BY <1>2, <2>1
  <2>3. UNCHANGED <<taken, buffer, seen>>  BY <1>6 DEF generate_proposal, proposer
  <2>4. \A i \in 1..Len(queue') : queue'[i].kind = "make" =>
          \A d \in Digest : queue'[i].seen[d] <= seen[d]
    BY <1>3, <1>4, <2>1, <2>2
  <2>5. \A d \in buffer : taken[d] <= seen[d] => \E j \in 1..n : Removes(queue'[j], d)
    BY <1>4, <2>1
  <2>6. \A i \in 1..Len(queue') : queue'[i].kind = "make" =>
          \A d \in buffer : taken[d] <= queue'[i].seen[d] =>
            \E j \in 1..(i - 1) : Removes(queue'[j], d)
    <3> SUFFICES ASSUME NEW i \in 1..Len(queue'), queue'[i].kind = "make",
                        NEW d \in buffer, taken[d] <= queue'[i].seen[d]
                 PROVE  \E j \in 1..(i - 1) : Removes(queue'[j], d)
      OBVIOUS
    <3>1. CASE i \in 1..n
      <4>1. PICK j \in 1..(i - 1) : Removes(queue[j], d)  BY <1>4, <2>1, <3>1
      <4>2. j \in 1..n  BY <1>2, <3>1
      <4> QED  BY <2>1, <4>1, <4>2
    <3>2. CASE i = n + 1
      <4>1. (n + 1) - 1 = n  BY <1>2
      <4> QED  BY <2>1, <2>5, <3>2, <4>1
    <3> QED  BY <2>2, <3>1, <3>2
  <2>7. 1..n \subseteq 1..Len(queue')  BY <1>2, <2>1
  <2> QED  BY <1>1, <1>4, <2>3, <2>4, <2>5, <2>6, <2>7 DEF LateInv
<1>7. CASE TakeDigest
  <2> DEFINE x == Head(rx_mempool)
  <2>1. x \in Digest  BY <1>1, <1>7, HeadTailProperties DEF TakeDigest, TypeOK
  <2>2. UNCHANGED <<queue, seen>> /\ buffer' = buffer \union {x}
    BY <1>7 DEF TakeDigest, queue, node
  <2>3. \A d \in Digest : taken'[d] = IF d = x THEN taken[d] + 1 ELSE taken[d]
    BY <1>1, <1>7, <2>1 DEF TakeDigest, TypeOK
  <2> HIDE DEF x
  <2>4. \A d \in Digest : seen[d] <= taken'[d]  BY <1>3, <1>4, <2>3
  <2>5. \A d \in buffer' : (d \in buffer /\ taken'[d] = taken[d]) \/ taken'[d] > seen[d]
    BY <1>2, <1>3, <1>4, <2>1, <2>2, <2>3
  <2>6. \A d \in buffer' : taken'[d] <= seen[d] => \E j \in 1..n : Removes(queue[j], d)
    <3> SUFFICES ASSUME NEW d \in buffer', taken'[d] <= seen[d]
                 PROVE  d \in buffer /\ taken[d] <= seen[d]
      BY <1>4
    <3>1. d \in Digest /\ taken'[d] \in Nat  BY <1>1 DEF TypeOK
    <3> QED  BY <1>3, <2>5, <3>1
  <2>7. \A i \in 1..n : queue[i].kind = "make" =>
          \A d \in buffer' : taken'[d] <= queue[i].seen[d] =>
            \E j \in 1..(i - 1) : Removes(queue[j], d)
    <3> SUFFICES ASSUME NEW i \in 1..n, queue[i].kind = "make",
                        NEW d \in buffer', taken'[d] <= queue[i].seen[d]
                 PROVE  d \in buffer /\ taken[d] <= queue[i].seen[d]
      BY <1>4
    <3>1. d \in Digest /\ taken'[d] \in Nat  BY <1>1 DEF TypeOK
    <3>2. queue[i].seen[d] \in Nat /\ queue[i].seen[d] <= seen[d] /\ seen[d] \in Nat
      BY <1>3, <1>4, <3>1
    <3> QED  BY <2>5, <3>1, <3>2
  <2> QED  BY <1>1, <1>4, <2>2, <2>4, <2>6, <2>7 DEF LateInv
<1>8. CASE Cleanup \/ MakeBlock
  <2>1. /\ n > 0 /\ queue[1] = Head(rx_message) /\ Len(queue') = n - 1
        /\ \A i \in 1..Len(queue') : queue'[i] = queue[i + 1]
    BY <1>1, <1>8, QueueRead DEF Cleanup, MakeBlock, node
  <2>2. /\ UNCHANGED <<taken, seen>> /\ buffer' \subseteq buffer
        /\ \A d \in buffer' : ~ Removes(queue[1], d)
    BY <1>8, <2>1 DEF Cleanup, MakeBlock, remaining, Removes, node
  <2>3. \A i \in 1..Len(queue') : i + 1 \in 1..n  BY <1>2, <2>1
  <2>4. \A d \in buffer', k \in 1..n : \A j \in 1..k : Removes(queue[j], d) =>
          \E l \in 1..(k - 1) : l \in 1..Len(queue') /\ Removes(queue'[l], d)
    <3> SUFFICES ASSUME NEW d \in buffer', NEW k \in 1..n, NEW j \in 1..k,
                        Removes(queue[j], d)
                 PROVE  \E l \in 1..(k - 1) : l \in 1..Len(queue') /\ Removes(queue'[l], d)
      OBVIOUS
    <3>1. j # 1  BY <2>2
    <3>2. j - 1 \in 1..(k - 1) /\ j - 1 \in 1..Len(queue') /\ (j - 1) + 1 = j
      BY <1>2, <2>1, <3>1
    <3> QED  BY <2>1, <3>2
  <2>5. \A d \in buffer' : taken[d] <= seen[d] =>
          \E j \in 1..Len(queue') : Removes(queue'[j], d)
    <3> SUFFICES ASSUME NEW d \in buffer', taken[d] <= seen[d]
                 PROVE  \E j \in 1..Len(queue') : Removes(queue'[j], d)
      OBVIOUS
    <3>1. PICK j \in 1..n : Removes(queue[j], d)  BY <1>4, <2>2
    <3>2. n \in 1..n  BY <1>2, <2>1
    <3> QED  BY <2>4, <3>1, <3>2
  <2>6. \A i \in 1..Len(queue') : queue'[i].kind = "make" =>
          \A d \in buffer' : taken[d] <= queue'[i].seen[d] =>
            \E j \in 1..(i - 1) : Removes(queue'[j], d)
    <3> SUFFICES ASSUME NEW i \in 1..Len(queue'), queue'[i].kind = "make",
                        NEW d \in buffer', taken[d] <= queue'[i].seen[d]
                 PROVE  \E j \in 1..(i - 1) : Removes(queue'[j], d)
      OBVIOUS
    <3>1. i + 1 \in 1..n /\ queue'[i] = queue[i + 1] /\ (i + 1) - 1 = i
      BY <2>1, <2>3
    <3>2. PICK j \in 1..i : Removes(queue[j], d)  BY <1>4, <2>2, <3>1
    <3>3. i \in 1..n  BY <1>2, <3>1
    <3> QED  BY <2>4, <3>2, <3>3
  <2>7. \A i \in 1..Len(queue') : queue'[i].kind = "make" =>
          \A d \in Digest : queue'[i].seen[d] <= seen[d]
    BY <1>4, <2>1, <2>3
  <2> QED  BY <1>1, <1>4, <2>2, <2>5, <2>6, <2>7 DEF LateInv
<1>9. CASE UNCHANGED <<queue, buffer, taken, seen, processed, blocks>>
  BY <1>1, <1>4, <1>9 DEF LateInv
<1> QED  BY <1>1, <1>5, <1>6, <1>7, <1>8, <1>9, StepKinds

\* A block repeats no digest that the core met before it asked for the block, unless
\* the digest came late or again (core.rs:332): the Cleanup of a handler is ahead
\* of its Make in the channel.
THEOREM OnlyLateDigestsRepeated == Spec => OnlyLateRepeated
<1>1. ASSUME LateInv, [Next]_vars, Len(blocks') > Len(blocks),
             NEW d \in Digest, d \in Last(blocks').payload
      PROVE  taken[d] > Head(rx_message).seen[d]
  <2>1. TypeOK  BY <1>1 DEF LateInv
  <2>2. CASE MakeBlock
    <3> DEFINE b == [payload |-> buffer, qc |-> Head(rx_message).qc,
                     own |-> Len(blocks) + 1]
    <3>1. blocks' = Append(blocks, b) /\ b.payload = buffer  BY <2>2 DEF MakeBlock
    <3>2. blocks \in Seq(BlockOver(Known) \union {b})
      BY <2>1, SeqMonotonic DEF TypeOK
    <3> HIDE DEF b
    <3>3. Last(blocks') = b  BY <3>1, <3>2, AppendProperties, LenProperties DEF Last
    <3>4. d \in buffer  BY <1>1, <3>1, <3>3
    <3>5. Len(queue) > 0 /\ queue[1] = Head(rx_message) /\ queue[1].kind = "make"
      BY <2>1, <2>2, QueueRead DEF MakeBlock, node
    <3>6. 1 \in 1..Len(queue) /\ 1..(1 - 1) = {}  BY <2>1, <3>5, QueueType
    <3>7. ~ (taken[d] <= queue[1].seen[d])  BY <1>1, <3>4, <3>5, <3>6 DEF LateInv
    <3>8. taken[d] \in Nat /\ queue[1].seen[d] \in Nat  BY <2>1, <3>5, <3>6, TimesType
    <3> QED  BY <3>5, <3>7, <3>8
  <2>3. CASE blocks' = blocks
    BY <1>1, <2>1, <2>3, LenProperties DEF TypeOK
  <2> QED
    BY <1>1, <2>1, <2>2, <2>3, StepKinds
    DEF Processes, generate_proposal, TakeDigest, Cleanup, proposer
<1>2. LateInv /\ [Next]_vars =>
        [\A d \in Digest :
           (Len(blocks') > Len(blocks) /\ d \in Last(blocks').payload)
             => taken[d] > Head(rx_message).seen[d]]_vars
  BY <1>1
<1> QED  BY <1>2, InitLate, LateStep, PTL DEF Spec, OnlyLateRepeated
===============================================================================
