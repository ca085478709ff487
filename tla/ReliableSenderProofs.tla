-------------------------- MODULE ReliableSenderProofs --------------------------
(***************************************************************************)
(* The connection task is a reliable link, for any number of messages, any *)
(* capacity of the channel and any number of lost connections: its queues  *)
(* hold every message that waits, in the order of sending, and each        *)
(* acknowledgement is taken for the message it answers.                    *)
(*                                                                         *)
(* The invariant follows the messages through the queues of the sender     *)
(* and the frames through the connections, the lost ones included.         *)
(***************************************************************************)
EXTENDS ReliableSender, SequenceTheorems, WellFoundedInduction, TLAPS

\* Sequences of messages in the order of sending, alone and one before another.
Ordered(s) == \A i, j \in 1..Len(s) : i < j => s[i] < s[j]
Before(s, t) == \A x \in ToSet(s), y \in ToSet(t) : x < y

\* Messages are sent one after the other.
SentInOrder ==
  \A k, m \in Message : k < m /\ handler[m] # "none" => handler[k] # "none"

\* What the task holds, from the oldest to the newest.
Held == ToSet(pending_replies) \union ToSet(buffer) \union ToSet(channel)

QueuesOrdered ==
  /\ Ordered(pending_replies) /\ Ordered(buffer) /\ Ordered(channel)
  /\ Before(pending_replies, buffer) /\ Before(pending_replies, channel)
  /\ Before(buffer, channel)

QueuesHold ==
  /\ \A m \in Held : handler[m] # "none"
  /\ \A m \in Message : handler[m] = "waiting" => m \in Held

\* What is acknowledged arrived, and the acknowledgements under way are true.
AcksTrue == AckedArrived /\ ToSet(acks) \subseteq ToSet(arrived)

\* Before the message of a frame there is nothing that the peer has not got, unless
\* it was cancelled or is in a frame further on.
InTurn(frames, h, got) ==
  \A j \in 1..Len(frames) :
    /\ h[frames[j]] # "none"
    /\ \A k \in 1..(frames[j] - 1) :
         \/ k \in got \/ h[k] = "cancelled"
         \/ \E i \in 1..(j - 1) : frames[i] = k

Follows(frames) == InTurn(frames, handler, ToSet(arrived))

FramesFollow == Follows(wire) /\ \A i \in 1..Len(old) : Follows(old[i])

LinkInv ==
  /\ TypeOK /\ SentInOrder
  /\ QueuesOrdered /\ QueuesHold
  /\ conn # "up" => pending_replies = <<>>
  /\ broken => wire = <<>>
  /\ Aligned /\ AcksTrue /\ FramesFollow

-----------------------------------------------------------------------------
(* Sequences.                                                              *)

\* "Less than" on the naturals, as a relation.
LessThan == {ss \in Nat \X Nat : ss[1] < ss[2]}

\* A nonempty set of naturals has a least element.
LEMMA LeastNatural ==
  ASSUME NEW T, T \subseteq Nat, T # {}
  PROVE  \E x \in T : \A y \in T : x <= y
<1>1. IsWellFoundedOn(LessThan, Nat)
  BY NatLessThanWellFounded DEF OpToRel, LessThan
<1>2. PICK x \in T : \A y \in T : ~ (<<y, x>> \in LessThan)
  BY <1>1, WFMin
<1>3. ASSUME NEW y \in T, ~ (x <= y) PROVE FALSE
  <2>1. <<y, x>> \in Nat \X Nat /\ <<y, x>>[1] < <<y, x>>[2]
    BY <1>3
  <2>2. <<y, x>> \in LessThan
    BY <2>1, Zenon DEF LessThan
  <2> QED  BY <2>2, <1>2
<1> QED  BY <1>3

LEMMA Members ==
  ASSUME NEW S, NEW s \in Seq(S)
  PROVE  /\ ToSet(s) \subseteq S
         /\ \A i \in 1..Len(s) : s[i] \in ToSet(s)
         /\ \A x \in ToSet(s) : \E i \in 1..Len(s) : x = s[i]
<1>1. DOMAIN s = 1..Len(s) /\ \A i \in 1..Len(s) : s[i] \in S
  OBVIOUS
<1> QED  BY <1>1 DEF ToSet

LEMMA NoMembers == ToSet(<<>>) = {} /\ Ordered(<<>>)
BY DEF ToSet, Ordered

LEMMA OrderedConcat ==
  ASSUME NEW s \in Seq(Message), NEW t \in Seq(Message)
  PROVE  /\ s \o t \in Seq(Message)
         /\ ToSet(s \o t) = ToSet(s) \union ToSet(t)
         /\ Ordered(s \o t) <=> Ordered(s) /\ Ordered(t) /\ Before(s, t)
<1> DEFINE c == s \o t
           k == Len(s)
           n == Len(t)
<1>1. /\ k \in Nat /\ n \in Nat /\ c \in Seq(Message) /\ Len(c) = k + n
      /\ \A i \in 1..k : c[i] = s[i]
      /\ \A i \in 1..n : c[k + i] = t[i]
      /\ \A i \in 1..k : s[i] \in Nat
      /\ \A i \in 1..n : t[i] \in Nat
  <2>1. \A i \in 1..k : s[i] \in Message
    OBVIOUS
  <2>2. \A i \in 1..n : t[i] \in Message
    OBVIOUS
  <2>3. k \in Nat /\ n \in Nat /\ c \in Seq(Message) /\ Len(c) = k + n
    OBVIOUS
  <2>4. /\ \A i \in 1..k : c[i] = s[i]
        /\ \A i \in 1..n : c[k + i] = t[i]
    OBVIOUS
  <2>5. Message \subseteq Nat
    BY DEF Message
  <2> HIDE DEF c, k, n
  <2> QED  BY <2>1, <2>2, <2>3, <2>4, <2>5
<1> HIDE DEF c, k, n
<1>2. \A i \in 1..(k + n) : i \in 1..k \/ (i - k \in 1..n /\ i = k + (i - k))
  BY <1>1
<1>3. \A i \in 1..n : k + i \in 1..(k + n)
  BY <1>1
<1>4. 1..k \subseteq 1..(k + n)
  BY <1>1
<1>5. ToSet(c) = ToSet(s) \union ToSet(t)
  <2>1. \A x : x \in ToSet(c) => x \in ToSet(s) \/ x \in ToSet(t)
    <3>1. SUFFICES ASSUME NEW i \in 1..(k + n) PROVE c[i] \in ToSet(s) \/ c[i] \in ToSet(t)
      BY <1>1, Members
    <3>2. CASE i \in 1..k
      BY <1>1, <3>2, Members DEF k
    <3>3. CASE i - k \in 1..n /\ i = k + (i - k)
      BY <1>1, <3>3, Members DEF n
    <3> QED  BY <1>2, <3>2, <3>3
  <2>2. ToSet(s) \subseteq ToSet(c)
    BY <1>1, <1>4, Members DEF k
  <2>3. ToSet(t) \subseteq ToSet(c)
    BY <1>1, <1>3, Members DEF n
  <2> QED  BY <2>1, <2>2, <2>3
<1>6. ASSUME Ordered(c) PROVE Ordered(s) /\ Ordered(t) /\ Before(s, t)
  <2>1. \A i, j \in 1..(k + n) : i < j => c[i] < c[j]
    BY <1>1, <1>6 DEF Ordered
  <2>2. Ordered(s)
    BY <1>1, <1>4, <2>1 DEF Ordered, k
  <2>3. Ordered(t)
    <3> SUFFICES ASSUME NEW i \in 1..n, NEW j \in 1..n, i < j PROVE t[i] < t[j]
      BY DEF Ordered, n
    <3>1. k + i \in 1..(k + n) /\ k + j \in 1..(k + n) /\ k + i < k + j
      BY <1>1, <1>3
    <3> QED  BY <1>1, <2>1, <3>1
  <2>4. Before(s, t)
    <3> SUFFICES ASSUME NEW i \in 1..k, NEW j \in 1..n PROVE s[i] < t[j]
      BY Members DEF Before, k, n
    <3>1. i \in 1..(k + n) /\ k + j \in 1..(k + n) /\ i < k + j
      BY <1>1, <1>3, <1>4
    <3> QED  BY <1>1, <2>1, <3>1
  <2> QED  BY <2>2, <2>3, <2>4
<1>7. ASSUME Ordered(s), Ordered(t), Before(s, t) PROVE Ordered(c)
  <2>1. /\ \A i, j \in 1..k : i < j => s[i] < s[j]
        /\ \A i, j \in 1..n : i < j => t[i] < t[j]
        /\ \A i \in 1..k, j \in 1..n : s[i] < t[j]
    BY <1>7, Members DEF Ordered, Before, k, n
  <2> SUFFICES ASSUME NEW i \in 1..(k + n), NEW j \in 1..(k + n), i < j PROVE c[i] < c[j]
    BY <1>1 DEF Ordered
  <2>2. CASE j \in 1..k
    <3>1. i \in 1..k
      BY <1>1, <2>2
    <3> QED  BY <1>1, <2>1, <2>2, <3>1
  <2>3. CASE j - k \in 1..n /\ j = k + (j - k) /\ i \in 1..k
    BY <1>1, <2>1, <2>3
  <2>4. CASE j - k \in 1..n /\ j = k + (j - k) /\ i - k \in 1..n /\ i = k + (i - k)
    <3>1. i - k < j - k
      BY <1>1
    <3> QED  BY <1>1, <2>1, <2>4, <3>1
  <2> QED  BY <1>2, <2>2, <2>3, <2>4
<1> QED  BY <1>1, <1>5, <1>6, <1>7 DEF c

LEMMA OrderedAppend ==
  ASSUME NEW s \in Seq(Message), NEW m \in Message
  PROVE  /\ Append(s, m) \in Seq(Message)
         /\ ToSet(Append(s, m)) = ToSet(s) \union {m}
         /\ Ordered(Append(s, m)) <=> Ordered(s) /\ \A x \in ToSet(s) : x < m
<1> DEFINE t == <<m>>
<1>1. /\ t \in Seq(Message) /\ ToSet(t) = {m} /\ Ordered(t)
      /\ Append(s, m) = s \o t
  BY AppendIsConcat DEF ToSet, Ordered
<1> HIDE DEF t
<1> QED  BY <1>1, OrderedConcat DEF Before

LEMMA OrderedTail ==
  ASSUME NEW s \in Seq(Message), s # <<>>
  PROVE  /\ Head(s) \in Message /\ Tail(s) \in Seq(Message)
         /\ ToSet(s) = {Head(s)} \union ToSet(Tail(s))
         /\ Ordered(s) => Ordered(Tail(s)) /\ \A x \in ToSet(Tail(s)) : Head(s) < x
<1> DEFINE h == <<Head(s)>>
           t == Tail(s)
<1>1. Head(s) \in Message /\ t \in Seq(Message)
  OBVIOUS
<1>2. h \in Seq(Message) /\ ToSet(h) = {Head(s)} /\ Ordered(h)
  BY <1>1 DEF ToSet, Ordered
<1>3. s = h \o t
  OBVIOUS
<1> HIDE DEF h, t
<1>4. /\ ToSet(h \o t) = ToSet(h) \union ToSet(t)
      /\ Ordered(h \o t) <=> Ordered(h) /\ Ordered(t) /\ Before(h, t)
  BY <1>1, <1>2, OrderedConcat
<1> QED  BY <1>1, <1>2, <1>3, <1>4 DEF t, Before

-----------------------------------------------------------------------------
(* What `retain' leaves.                                                   *)

\* The first n values of the function whose last one is retain(s).
Keeps(f, s, n) ==
  \A i \in 0..n :
    f[i] = IF i = 0 THEN <<>>
           ELSE IF is_closed(s[i]) THEN f[i - 1] ELSE Append(f[i - 1], s[i])

LEMMA KeepsExists ==
  ASSUME NEW s \in Seq(Message), NEW n \in 0..Len(s)
  PROVE  \E f \in [0..n -> Seq(Message)] : Keeps(f, s, n)
<1> DEFINE Bad == {k \in 0..Len(s) : ~ \E f \in [0..k -> Seq(Message)] : Keeps(f, s, k)}
<1>1. Len(s) \in Nat /\ \A i \in 1..Len(s) : s[i] \in Message
  OBVIOUS
<1>2. SUFFICES ASSUME Bad # {} PROVE FALSE
  OBVIOUS
<1>3. PICK k \in Bad : \A j \in Bad : k <= j
  <2>1. Bad \subseteq Nat
    BY <1>1
  <2> HIDE DEF Bad
  <2> QED  BY <1>2, <2>1, LeastNatural
<1>4. k \in 0..Len(s) /\ ~ \E f \in [0..k -> Seq(Message)] : Keeps(f, s, k)
  OBVIOUS
<1>5. k # 0
  <2>1. SUFFICES ASSUME k = 0 PROVE FALSE
    OBVIOUS
  <2> DEFINE f == [i \in 0..0 |-> <<>>]
  <2>2. f \in [0..0 -> Seq(Message)]
    BY EmptySeq
  <2>3. Keeps(f, s, 0)
    BY DEF Keeps
  <2> QED  BY <1>4, <2>1, <2>2, <2>3
<1>6. k - 1 \in 0..Len(s) /\ k - 1 \notin Bad
  <2>1. k - 1 \in 0..Len(s) /\ ~ (k <= k - 1)
    BY <1>1, <1>4, <1>5
  <2> QED  BY <1>3, <2>1
<1>7. PICK f \in [0..(k - 1) -> Seq(Message)] : Keeps(f, s, k - 1)
  BY <1>6
<1>8. k \in 1..Len(s) /\ k - 1 \in 0..(k - 1) /\ f[k - 1] \in Seq(Message)
  BY <1>1, <1>4, <1>5
<1> DEFINE last == IF is_closed(s[k]) THEN f[k - 1] ELSE Append(f[k - 1], s[k])
           g == [i \in 0..k |-> IF i = k THEN last ELSE f[i]]
<1>9. g \in [0..k -> Seq(Message)]
  <2>1. last \in Seq(Message)
    BY <1>1, <1>8
  <2>2. \A i \in 0..k : i # k => f[i] \in Seq(Message)
    BY <1>8
  <2> HIDE DEF last
  <2> QED  BY <2>1, <2>2
<1>10. Keeps(g, s, k)
  <2> SUFFICES ASSUME NEW i \in 0..k
               PROVE  g[i] = IF i = 0 THEN <<>>
                             ELSE IF is_closed(s[i]) THEN g[i - 1] ELSE Append(g[i - 1], s[i])
    BY Zenon DEF Keeps
  <2> HIDE DEF last
  <2>1. CASE i # k
    <3>1. i \in 0..(k - 1) /\ (i # 0 => i - 1 \in 0..k /\ i - 1 # k)
      BY <1>8, <2>1
    <3>2. g[i] = f[i] /\ (i # 0 => g[i - 1] = f[i - 1])
      BY <2>1, <3>1
    <3>3. f[i] = IF i = 0 THEN <<>>
                 ELSE IF is_closed(s[i]) THEN f[i - 1] ELSE Append(f[i - 1], s[i])
      BY <1>7, <3>1 DEF Keeps
    <3> HIDE DEF g
    <3> QED  BY <3>2, <3>3
  <2>2. CASE i = k
    <3>1. k - 1 \in 0..k /\ k - 1 # k /\ k \in 0..k
      BY <1>8
    <3>2. g[k - 1] = f[k - 1] /\ g[k] = last
      BY <3>1
    <3> HIDE DEF g
    <3> QED  BY <1>5, <2>2, <3>2 DEF last
  <2> QED  BY <2>1, <2>2
<1> HIDE DEF g, last
<1> QED  BY <1>4, <1>9, <1>10

\* The messages left are those not cancelled, in the order they were in.
LEMMA Retained ==
  ASSUME NEW s \in Seq(Message)
  PROVE  /\ retain(s) \in Seq(Message)
         /\ ToSet(retain(s)) = {m \in ToSet(s) : ~ is_closed(m)}
         /\ Ordered(s) => Ordered(retain(s))
<1> DEFINE n == Len(s)
           IsKept(f) == f = [i \in 0..n |->
                          IF i = 0 THEN <<>>
                          ELSE IF is_closed(s[i]) THEN f[i - 1] ELSE Append(f[i - 1], s[i])]
           h == CHOOSE f : IsKept(f)
<1>1. n \in Nat /\ \A i \in 1..n : s[i] \in Message
  OBVIOUS
<1>2. retain(s) = h[n]
  BY Zenon DEF retain
<1>3. Keeps(h, s, n)
  <2>1. PICK f \in [0..n -> Seq(Message)] : Keeps(f, s, n)
    <3>1. n \in 0..Len(s)
      BY <1>1
    <3> QED  BY <3>1, KeepsExists
  <2>2. IsKept(f)
    BY <2>1 DEF Keeps
  <2>3. IsKept(h)
    BY <2>2, Zenon
  <2> HIDE DEF h
  <2> QED  BY <2>3, Zenon DEF Keeps
<1> HIDE DEF h
<1> DEFINE Good(k) == /\ h[k] \in Seq(Message)
                      /\ \A m : m \in ToSet(h[k])
                                  <=> \E i \in 1..k : s[i] = m /\ ~ is_closed(m)
                      /\ Ordered(s) => Ordered(h[k])
           Bad == {k \in 0..n : ~ Good(k)}
<1>4. Bad = {}
  <2>1. SUFFICES ASSUME Bad # {} PROVE FALSE
    OBVIOUS
  <2>2. PICK k \in Bad : \A j \in Bad : k <= j
    <3>1. Bad \subseteq Nat
      BY <1>1
    <3> HIDE DEF Bad
    <3> QED  BY <2>1, <3>1, LeastNatural
  <2>3. k \in 0..n /\ ~ Good(k)
    OBVIOUS
  <2>4. k # 0
    <3>1. 0 \in 0..n /\ h[0] = <<>>
      BY <1>1, <1>3 DEF Keeps
    <3>2. h[0] \in Seq(Message) /\ ToSet(h[0]) = {} /\ Ordered(h[0])
      BY <3>1, NoMembers, EmptySeq
    <3>3. Good(0)
      BY <3>2
    <3> QED  BY <2>3, <3>3
  <2>5. k - 1 \in 0..n /\ k \in 1..n /\ Good(k - 1)
    <3>1. k - 1 \in 0..n /\ k \in 1..n /\ ~ (k <= k - 1)
      BY <1>1, <2>3, <2>4
    <3>2. k - 1 \notin Bad
      BY <2>2, <3>1
    <3> QED  BY <3>1, <3>2
  <2>6. /\ h[k] = IF is_closed(s[k]) THEN h[k - 1] ELSE Append(h[k - 1], s[k])
        /\ s[k] \in Message
    BY <1>1, <1>3, <2>3, <2>4, <2>5 DEF Keeps
  <2>7. \A i : i \in 1..k <=> i \in 1..(k - 1) \/ i = k
    BY <2>5
  <2>8. CASE is_closed(s[k])
    <3>1. h[k] = h[k - 1]
      BY <2>6, <2>8
    <3>2. \A m : m \in ToSet(h[k]) <=> \E i \in 1..k : s[i] = m /\ ~ is_closed(m)
      BY <2>5, <2>7, <2>8, <3>1
    <3> QED  BY <2>3, <2>5, <3>1, <3>2
  <2>9. CASE ~ is_closed(s[k])
    <3>1. /\ h[k] = Append(h[k - 1], s[k]) /\ h[k - 1] \in Seq(Message)
      BY <2>5, <2>6, <2>9
    <3>2. /\ h[k] \in Seq(Message)
          /\ ToSet(h[k]) = ToSet(h[k - 1]) \union {s[k]}
          /\ Ordered(h[k]) <=> Ordered(h[k - 1]) /\ \A x \in ToSet(h[k - 1]) : x < s[k]
      BY <2>6, <3>1, OrderedAppend
    <3>3. \A m : m \in ToSet(h[k]) <=> \E i \in 1..k : s[i] = m /\ ~ is_closed(m)
      BY <2>5, <2>7, <2>9, <3>2
    <3>4. ASSUME Ordered(s), NEW x \in ToSet(h[k - 1]) PROVE x < s[k]
      <4>1. PICK i \in 1..(k - 1) : s[i] = x
        BY <2>5
      <4>2. i \in 1..n /\ k \in 1..n /\ i < k
        BY <1>1, <2>5, <4>1
      <4> QED  BY <3>4, <4>1, <4>2 DEF Ordered
    <3> QED  BY <2>3, <2>5, <3>2, <3>3, <3>4
  <2> QED  BY <2>8, <2>9
<1>5. Good(n)
  <2>1. n \in 0..n
    BY <1>1
  <2> QED  BY <1>4, <2>1
<1>6. \A m : m \in ToSet(s) <=> \E i \in 1..n : s[i] = m
  BY Members
<1> QED  BY <1>2, <1>5, <1>6

-----------------------------------------------------------------------------
(* The types.                                                              *)

LEMMA InitLink == Init => LinkInv
<1> SUFFICES ASSUME Init PROVE LinkInv
  OBVIOUS
<1>1. /\ handler = [m \in Message |-> "none"]
      /\ channel = <<>> /\ buffer = <<>> /\ pending_replies = <<>>
      /\ conn = "connect" /\ wire = <<>> /\ acks = <<>> /\ old = <<>> /\ arrived = <<>>
      /\ broken = FALSE /\ breaks = 0
  BY DEF Init
<1>2. TypeOK
  <2>1. 0 \in 0..MaxBreaks
    BY LinkAssumption
  <2> QED  BY <1>1, <2>1, EmptySeq DEF TypeOK, Status
<1>3. SentInOrder /\ QueuesOrdered /\ QueuesHold
  BY <1>1, NoMembers DEF SentInOrder, QueuesOrdered, QueuesHold, Held, Before
<1>4. Aligned /\ AcksTrue
  BY <1>1, NoMembers DEF Aligned, AcksTrue, AckedArrived
<1>5. FramesFollow
  BY <1>1 DEF FramesFollow, Follows, InTurn
<1> QED  BY <1>1, <1>2, <1>3, <1>4, <1>5 DEF LinkInv

LEMMA TypeStep == TypeOK /\ [Next]_vars => TypeOK'
<1> SUFFICES ASSUME TypeOK, [Next]_vars PROVE TypeOK'
  OBVIOUS
<1>1. /\ handler \in [Message -> Status]
      /\ channel \in Seq(Message) /\ buffer \in Seq(Message)
      /\ pending_replies \in Seq(Message)
      /\ conn \in {"connect", "wait", "up"}
      /\ wire \in Seq(Message) /\ acks \in Seq(Message) /\ arrived \in Seq(Message)
      /\ old \in Seq(Seq(Message))
      /\ broken \in BOOLEAN /\ breaks \in 0..MaxBreaks
      /\ MaxBreaks \in Nat
      /\ {"none", "waiting", "acked", "cancelled"} = Status
      /\ <<>> \in Seq(Message)
  BY LinkAssumption, EmptySeq DEF TypeOK, Status
<1>2. CASE \E m \in Message : Send(m)
  BY <1>1, <1>2 DEF Send, task, net, TypeOK
<1>3. CASE \E m \in Message : Cancel(m)
  BY <1>1, <1>3 DEF Cancel, task, net, TypeOK
<1>4. CASE Connect \/ ConnectFails \/ RetryTimer
  <2>1. breaks' \in 0..MaxBreaks
    BY <1>1, <1>4 DEF Connect, ConnectFails, RetryTimer, net
  <2>2. /\ conn' \in {"connect", "wait", "up"} /\ broken' \in BOOLEAN
        /\ wire' \in Seq(Message) /\ acks' \in Seq(Message)
    BY <1>1, <1>4 DEF Connect, ConnectFails, RetryTimer, net
  <2>3. UNCHANGED <<handler, channel, buffer, pending_replies, old, arrived>>
    BY <1>4 DEF Connect, ConnectFails, RetryTimer, net
  <2> QED  BY <1>1, <2>1, <2>2, <2>3 DEF TypeOK
<1>5. CASE Drain
  <2>1. Append(buffer, Head(channel)) \in Seq(Message) /\ Tail(channel) \in Seq(Message)
    BY <1>1, <1>5 DEF Drain
  <2>2. buffer' \in Seq(Message)
    BY <1>5, <2>1, Retained DEF Drain
  <2> QED  BY <1>1, <1>5, <2>1, <2>2 DEF Drain, net, TypeOK
<1>6. ASSUME NEW replies \in Seq(Message), NEW b \in Seq(Message), Fail(replies, b)
      PROVE  /\ buffer' \in Seq(Message) /\ pending_replies' \in Seq(Message)
             /\ conn' \in {"connect", "wait", "up"}
  <2>1. replies \o b \in Seq(Message)
    BY ConcatProperties
  <2> QED  BY <1>1, <1>6, <2>1 DEF Fail, put_back
<1>7. CASE Transmit
  <2>1. /\ Head(buffer) \in Message /\ Tail(buffer) \in Seq(Message)
        /\ Append(pending_replies, Head(buffer)) \in Seq(Message)
        /\ Append(wire, Head(buffer)) \in Seq(Message)
    BY <1>1, <1>7 DEF Transmit
  <2>2. /\ buffer' \in Seq(Message) /\ pending_replies' \in Seq(Message)
        /\ conn' \in {"connect", "wait", "up"} /\ wire' \in Seq(Message)
    BY <1>1, <1>6, <1>7, <2>1 DEF Transmit
  <2> QED  BY <1>1, <1>7, <2>2 DEF Transmit, TypeOK
<1>8. CASE TakeMessage
  <2>1. <<Head(channel)>> \in Seq(Message) /\ Tail(channel) \in Seq(Message)
    BY <1>1, <1>8 DEF TakeMessage
  <2> QED  BY <1>1, <1>8, <2>1 DEF TakeMessage, net, TypeOK
<1>9. CASE ReadAck
  <2>1. Tail(acks) \in Seq(Message) /\ conn \in {"connect", "wait", "up"}
    BY <1>1, <1>9 DEF ReadAck
  <2>2. /\ buffer' \in Seq(Message) /\ pending_replies' \in Seq(Message)
        /\ conn' \in {"connect", "wait", "up"} /\ handler' \in [Message -> Status]
    <3>1. CASE Fail(<<>>, buffer) /\ handler' = handler
      BY <1>1, <1>6, <3>1
    <3>2. CASE /\ pending_replies # <<>>
               /\ handler' = [handler EXCEPT ![Head(pending_replies)] =
                                IF @ = "waiting" THEN "acked" ELSE @]
               /\ pending_replies' = Tail(pending_replies)
               /\ UNCHANGED <<buffer, conn>>
      <4>1. Head(pending_replies) \in Message /\ Tail(pending_replies) \in Seq(Message)
        BY <1>1, <3>2
      <4> QED  BY <1>1, <3>2, <4>1
    <3> QED  BY <1>9, <3>1, <3>2 DEF ReadAck, pop_front
  <2> QED  BY <1>1, <1>9, <2>1, <2>2 DEF ReadAck, TypeOK
<1>10. CASE ReadError
  BY <1>1, <1>6, <1>10 DEF ReadError, net, TypeOK
<1>11. CASE Dispatch
  <2>1. /\ Head(wire) \in Message /\ Tail(wire) \in Seq(Message)
        /\ Append(arrived, Head(wire)) \in Seq(Message)
        /\ Append(acks, Head(wire)) \in Seq(Message)
    BY <1>1, <1>11 DEF Dispatch
  <2> QED  BY <1>1, <1>11, <2>1 DEF Dispatch, task, TypeOK
<1>12. CASE DispatchLate
  <2> PICK i \in 1..Len(old) :
        /\ old[i] # <<>>
        /\ arrived' = Append(arrived, Head(old[i]))
        /\ old' = [old EXCEPT ![i] = Tail(@)]
        /\ UNCHANGED <<handler, channel, task, wire, acks, broken, breaks>>
    BY <1>12 DEF DispatchLate
  <2>1. old[i] \in Seq(Message)
    BY <1>1
  <2>2. Head(old[i]) \in Message /\ Tail(old[i]) \in Seq(Message)
    BY <2>1
  <2>3. old' \in Seq(Seq(Message)) /\ arrived' \in Seq(Message)
    BY <1>1, <2>2, ExceptSeq
  <2> QED  BY <1>1, <2>3 DEF task, TypeOK
<1>13. CASE Break
  <2>1. PICK n \in 0..Len(acks) : acks' = SubSeq(acks, 1, n)
    BY <1>13 DEF Break
  <2>2. acks' \in Seq(Message)
    BY <1>1, <2>1
  <2>3. Append(old, wire) \in Seq(Seq(Message))
    BY <1>1
  <2> QED  BY <1>1, <1>13, <2>2, <2>3 DEF Break, task, TypeOK
<1>14. CASE UNCHANGED vars
  BY <1>14 DEF vars, task, net, TypeOK
<1> QED  BY <1>2, <1>3, <1>4, <1>5, <1>7, <1>8, <1>9, <1>10, <1>11, <1>12, <1>13, <1>14
         DEF Next, TaskStep

-----------------------------------------------------------------------------
(* The queues of the task.                                                 *)

\* Nobody waits while there is no connection.
Disconnected == conn # "up" => pending_replies = <<>>

QueueInv == SentInOrder /\ QueuesOrdered /\ QueuesHold /\ Disconnected

LEMMA QueueStep == TypeOK /\ QueueInv /\ [Next]_vars => QueueInv'
<1> SUFFICES ASSUME TypeOK, QueueInv, [Next]_vars PROVE QueueInv'
  OBVIOUS
<1> DEFINE P == pending_replies
           B == buffer
           C == channel
<1>1. /\ handler \in [Message -> Status]
      /\ P \in Seq(Message) /\ B \in Seq(Message) /\ C \in Seq(Message)
      /\ ToSet(P) \subseteq Message /\ ToSet(B) \subseteq Message /\ ToSet(C) \subseteq Message
      /\ Message \subseteq Nat
  <2>1. /\ handler \in [Message -> Status]
        /\ P \in Seq(Message) /\ B \in Seq(Message) /\ C \in Seq(Message)
    BY DEF TypeOK
  <2>2. Message \subseteq Nat
    BY DEF Message
  <2> QED  BY <2>1, <2>2, Members
<1>2. /\ Ordered(P) /\ Ordered(B) /\ Ordered(C)
      /\ Before(P, B) /\ Before(P, C) /\ Before(B, C)
      /\ \A m \in ToSet(P) \union ToSet(B) \union ToSet(C) : handler[m] # "none"
      /\ \A m \in Message : handler[m] = "waiting" => m \in ToSet(P) \union ToSet(B) \union ToSet(C)
      /\ \A k, m \in Message : k < m /\ handler[m] # "none" => handler[k] # "none"
      /\ conn # "up" => P = <<>>
  BY DEF QueueInv, QueuesOrdered, QueuesHold, Held, SentInOrder, Disconnected
<1> DEFINE Kept ==
       /\ Ordered(P') /\ Ordered(B') /\ Ordered(C')
       /\ Before(P', B') /\ Before(P', C') /\ Before(B', C')
       /\ \A m \in ToSet(P') \union ToSet(B') \union ToSet(C') : handler'[m] # "none"
       /\ \A m \in Message :
                  handler'[m] = "waiting" => m \in ToSet(P') \union ToSet(B') \union ToSet(C')
       /\ \A k, m \in Message : k < m /\ handler'[m] # "none" => handler'[k] # "none"
       /\ conn' # "up" => P' = <<>>
<1>3. SUFFICES Kept
  BY DEF QueueInv, QueuesOrdered, QueuesHold, Held, SentInOrder, Disconnected
<1> HIDE DEF P, B, C
<1>4. CASE \E m \in Message : Send(m)
  <2> PICK m \in Message : Send(m)
    BY <1>4
  <2>1. /\ handler[m] = "none" /\ \A k \in 1..(m - 1) : handler[k] # "none"
        /\ handler' = [handler EXCEPT ![m] = "waiting"]
        /\ C' = Append(C, m) /\ P' = P /\ B' = B /\ conn' = conn
    BY DEF Send, task, P, B, C
  <2>2. ASSUME NEW x \in Message, handler[x] # "none" PROVE x < m
    <3>1. ~ (m < x) /\ x # m
      BY <1>2, <2>1, <2>2
    <3> QED  BY <1>1, <3>1
  <2>3. ToSet(C') = ToSet(C) \union {m} /\ Ordered(C')
    <3>1. \A x \in ToSet(C) : x < m
      BY <1>1, <1>2, <2>2
    <3> QED  BY <1>1, <1>2, <2>1, <3>1, OrderedAppend
  <2>4. Before(P, C') /\ Before(B, C')
    BY <1>1, <1>2, <2>2, <2>3 DEF Before
  <2>5. \A k \in Message : k < m => handler[k] # "none"
    <3>1. \A k \in Message : k < m => k \in 1..(m - 1)
      BY DEF Message
    <3> QED  BY <2>1, <3>1
  <2> QED  BY <1>1, <1>2, <2>1, <2>2, <2>3, <2>4, <2>5
<1>5. CASE \E m \in Message : Cancel(m)
  <2> PICK m \in Message : Cancel(m)
    BY <1>5
  <2>1. /\ handler[m] = "waiting" /\ handler' = [handler EXCEPT ![m] = "cancelled"]
        /\ C' = C /\ P' = P /\ B' = B /\ conn' = conn
    BY DEF Cancel, task, P, B, C
  <2> QED  BY <1>1, <1>2, <2>1
<1>6. CASE \/ Connect \/ ConnectFails \/ RetryTimer \/ Dispatch \/ DispatchLate \/ Break
           \/ UNCHANGED vars
  <2>1. handler' = handler /\ C' = C /\ P' = P /\ B' = B
    BY <1>6 DEF Connect, ConnectFails, RetryTimer, Dispatch, DispatchLate, Break,
                vars, task, P, B, C
  <2>2. conn' # "up" => conn # "up"
    BY <1>6 DEF Connect, ConnectFails, RetryTimer, Dispatch, DispatchLate, Break, vars, task
  <2> QED  BY <1>2, <2>1, <2>2
<1>7. CASE Drain
  <2> DEFINE more == Append(B, Head(C))
  <2>1. /\ C # <<>> /\ C' = Tail(C) /\ B' = retain(more)
        /\ P' = P /\ handler' = handler /\ conn' = conn
    BY <1>7 DEF Drain, P, B, C
  <2>2. /\ Head(C) \in Message /\ ToSet(C) = {Head(C)} \union ToSet(C')
        /\ Ordered(C') /\ \A x \in ToSet(C') : Head(C) < x
    BY <1>1, <1>2, <2>1, OrderedTail
  <2>3. more \in Seq(Message) /\ ToSet(more) = ToSet(B) \union {Head(C)} /\ Ordered(more)
    <3>1. \A x \in ToSet(B) : x < Head(C)
      BY <1>2, <2>2 DEF Before
    <3> QED  BY <1>1, <1>2, <2>2, <3>1, OrderedAppend
  <2> HIDE DEF more
  <2>4. ToSet(B') = {m \in ToSet(more) : ~ is_closed(m)} /\ Ordered(B')
    BY <2>1, <2>3, Retained
  <2>5. Before(P, B') /\ Before(P, C') /\ Before(B', C')
    BY <1>2, <2>2, <2>3, <2>4 DEF Before
  <2>6. ASSUME NEW m \in Message, handler[m] = "waiting"
        PROVE  m \in ToSet(P) \union ToSet(B') \union ToSet(C')
    <3>1. m \in ToSet(P) \union ToSet(more) \union ToSet(C')
      BY <1>2, <2>2, <2>3, <2>6
    <3> QED  BY <2>4, <2>6, <3>1 DEF is_closed
  <2> QED  BY <1>2, <2>1, <2>2, <2>3, <2>4, <2>5, <2>6
<1>8. ASSUME Fail(P, B), C' = C, handler' = handler
      PROVE  Kept
  <2>1. B' = P \o B /\ P' = <<>> /\ conn' = "connect"
    BY <1>8 DEF Fail, put_back, P, B
  <2>2. ToSet(B') = ToSet(P) \union ToSet(B) /\ Ordered(B')
    BY <1>1, <1>2, <2>1, OrderedConcat
  <2>3. ToSet(P') = {} /\ Ordered(P')
    BY <2>1, NoMembers
  <2>4. Before(P', B') /\ Before(P', C') /\ Before(B', C')
    BY <1>2, <1>8, <2>2, <2>3 DEF Before
  <2> QED  BY <1>2, <1>8, <2>1, <2>2, <2>3, <2>4
<1>9. CASE Transmit
  <2>1. /\ conn = "up" /\ B # <<>> /\ C' = C /\ handler' = handler
        /\ \/ is_closed(Head(B)) /\ B' = Tail(B) /\ P' = P /\ conn' = conn
           \/ B' = Tail(B) /\ P' = Append(P, Head(B)) /\ conn' = conn
           \/ Fail(P, B)
    BY <1>9 DEF Transmit, P, B, C
  <2> DEFINE h == Head(B)
             T == Tail(B)
  <2>2. /\ h \in Message /\ ToSet(B) = {h} \union ToSet(T)
        /\ Ordered(T) /\ \A x \in ToSet(T) : h < x
    BY <1>1, <1>2, <2>1, OrderedTail
  <2> HIDE DEF h, T
  <2>3. CASE is_closed(h) /\ B' = T /\ P' = P /\ conn' = conn
    <3>1. handler[h] # "waiting"
      BY <2>3 DEF is_closed
    <3>2. Before(P, B') /\ Before(B', C)
      BY <1>2, <2>2, <2>3 DEF Before
    <3> QED  BY <1>2, <2>1, <2>2, <2>3, <3>1, <3>2
  <2>4. CASE B' = T /\ P' = Append(P, h) /\ conn' = conn
    <3>1. ToSet(P') = ToSet(P) \union {h} /\ Ordered(P')
      <4>1. \A x \in ToSet(P) : x < h
        BY <1>2, <2>2 DEF Before
      <4> QED  BY <1>1, <1>2, <2>2, <2>4, <4>1, OrderedAppend
    <3>2. Before(P', B') /\ Before(P', C) /\ Before(B', C)
      BY <1>2, <2>2, <2>4, <3>1 DEF Before
    <3> QED  BY <1>2, <2>1, <2>2, <2>4, <3>1, <3>2
  <2>5. CASE Fail(P, B)
    BY <1>8, <2>1, <2>5
  <2> QED  BY <2>1, <2>3, <2>4, <2>5 DEF h, T
<1>10. CASE TakeMessage
  <2>1. /\ B = <<>> /\ C # <<>> /\ B' = <<Head(C)>> /\ C' = Tail(C)
        /\ P' = P /\ handler' = handler /\ conn' = conn
    BY <1>10 DEF TakeMessage, P, B, C
  <2>2. /\ Head(C) \in Message /\ ToSet(C) = {Head(C)} \union ToSet(C')
        /\ Ordered(C') /\ \A x \in ToSet(C') : Head(C) < x
    BY <1>1, <1>2, <2>1, OrderedTail
  <2>3. ToSet(B) = {} /\ ToSet(B') = {Head(C)} /\ Ordered(B')
    BY <2>1, NoMembers DEF ToSet, Ordered
  <2>4. Before(P, B') /\ Before(P, C') /\ Before(B', C')
    BY <1>2, <2>2, <2>3 DEF Before
  <2> QED  BY <1>2, <2>1, <2>2, <2>3, <2>4
<1>11. CASE ReadAck
  <2>1. /\ C' = C
        /\ \/ P = <<>> /\ Fail(<<>>, B) /\ handler' = handler
           \/ /\ P # <<>> /\ P' = Tail(P) /\ B' = B /\ conn' = conn
              /\ handler' = [handler EXCEPT ![Head(P)] = IF @ = "waiting" THEN "acked" ELSE @]
    BY <1>11 DEF ReadAck, pop_front, P, B, C
  <2>2. CASE P = <<>> /\ Fail(<<>>, B) /\ handler' = handler
    <3>1. Fail(P, B)
      BY <2>2
    <3> QED  BY <1>8, <2>1, <2>2, <3>1
  <2>3. CASE /\ P # <<>> /\ P' = Tail(P) /\ B' = B /\ conn' = conn
             /\ handler' = [handler EXCEPT ![Head(P)] = IF @ = "waiting" THEN "acked" ELSE @]
    <3>1. /\ Head(P) \in Message /\ ToSet(P) = {Head(P)} \union ToSet(P')
          /\ Ordered(P')
      BY <1>1, <1>2, <2>3, OrderedTail
    <3>2. Before(P', B) /\ Before(P', C)
      BY <1>2, <3>1 DEF Before
    <3>3. /\ \A m \in Message : handler'[m] = "waiting" => handler[m] = "waiting" /\ m # Head(P)
          /\ \A m \in Message : handler'[m] = "none" <=> handler[m] = "none"
      BY <1>1, <2>3, <3>1
    <3>4. conn' # "up" => P' = <<>>
      BY <1>11, <2>3 DEF ReadAck
    <3> QED  BY <1>1, <1>2, <2>1, <2>3, <3>1, <3>2, <3>3, <3>4
  <2> QED  BY <2>1, <2>2, <2>3
<1>12. CASE ReadError
  <2>1. Fail(P, B) /\ C' = C /\ handler' = handler
    BY <1>12 DEF ReadError, P, B, C
  <2> QED  BY <1>8, <2>1
<1> QED  BY <1>4, <1>5, <1>6, <1>7, <1>9, <1>10, <1>11, <1>12 DEF Next, TaskStep

-----------------------------------------------------------------------------
(* Acknowledgements.                                                       *)

LEMMA PrefixMeans ==
  ASSUME NEW S, NEW s \in Seq(S), NEW t \in Seq(S)
  PROVE  IsPrefix(s, t) <=> Len(s) <= Len(t) /\ \A i \in 1..Len(s) : s[i] = t[i]
<1>1. Len(s) \in Nat /\ Len(t) \in Nat
  OBVIOUS
<1>2. CASE ~ (Len(s) <= Len(t))
  BY <1>2 DEF IsPrefix
<1>3. CASE Len(s) <= Len(t)
  <2> DEFINE k == Len(s)
             u == SubSeq(s, 1, k)
             v == SubSeq(t, 1, k)
  <2>1. /\ k \in 0..Len(t)
        /\ \A i \in 1..k : s[i] \in S
        /\ \A i \in 1..k : t[i] \in S
    BY <1>1, <1>3
  <2>2. /\ u \in Seq(S) /\ Len(u) = k /\ \A i \in 1..k : u[i] = s[i]
        /\ v \in Seq(S) /\ Len(v) = k /\ \A i \in 1..k : v[i] = t[i]
    <3>1. 1 \in Int /\ k \in Int /\ k - 1 + 1 = k /\ \A i \in 1..k : 1 + i - 1 = i
      BY <2>1
    <3> HIDE DEF k
    <3> QED  BY <2>1, <3>1, SubSeqProperties
  <2>3. IsPrefix(s, t) <=> u = v
    BY <1>3 DEF IsPrefix
  <2> HIDE DEF k, u, v
  <2>4. u = v <=> \A i \in 1..k : s[i] = t[i]
    <3>1. ASSUME \A i \in 1..k : s[i] = t[i] PROVE u = v
      BY <2>2, <3>1, SeqEqual
    <3>2. ASSUME u = v PROVE \A i \in 1..k : s[i] = t[i]
      BY <2>2, <3>2
    <3> QED  BY <3>1, <3>2
  <2> QED  BY <1>3, <2>3, <2>4 DEF k
<1> QED  BY <1>2, <1>3

\* A prefix stays one when the sequence grows, or when both lose their head.
LEMMA PrefixAppend ==
  ASSUME NEW S, NEW s \in Seq(S), NEW t \in Seq(S), NEW m \in S, IsPrefix(s, t)
  PROVE  IsPrefix(s, Append(t, m))
<1> DEFINE u == Append(t, m)
<1>1. /\ u \in Seq(S) /\ Len(u) = Len(t) + 1 /\ \A i \in 1..Len(t) : u[i] = t[i]
      /\ Len(s) \in Nat /\ Len(t) \in Nat
  OBVIOUS
<1> HIDE DEF u
<1>2. Len(s) <= Len(t) /\ \A i \in 1..Len(s) : s[i] = t[i]
  BY PrefixMeans
<1>3. IsPrefix(s, u)
  BY <1>1, <1>2, PrefixMeans
<1> QED  BY <1>3 DEF u

LEMMA PrefixTail ==
  ASSUME NEW S, NEW s \in Seq(S), NEW t \in Seq(S), s # <<>>, IsPrefix(s, t)
  PROVE  t # <<>> /\ Head(t) = Head(s) /\ IsPrefix(Tail(s), Tail(t))
<1>1. Len(s) \in Nat \ {0} /\ Len(s) <= Len(t) /\ \A i \in 1..Len(s) : s[i] = t[i]
  BY PrefixMeans
<1>2. t # <<>> /\ Head(t) = Head(s)
  BY <1>1
<1> DEFINE u == Tail(s)
           v == Tail(t)
<1>3. /\ u \in Seq(S) /\ Len(u) = Len(s) - 1 /\ \A i \in 1..Len(u) : u[i] = s[i + 1]
      /\ v \in Seq(S) /\ Len(v) = Len(t) - 1 /\ \A i \in 1..Len(v) : v[i] = t[i + 1]
  BY <1>2
<1>4. Len(t) \in Nat
  OBVIOUS
<1> HIDE DEF u, v
<1>5. Len(u) <= Len(v) /\ \A i \in 1..Len(u) : u[i] = v[i]
  <2>1. Len(u) <= Len(v) /\ \A i \in 1..Len(u) : i \in 1..Len(v) /\ i + 1 \in 1..Len(s)
    BY <1>1, <1>3, <1>4
  <2> QED  BY <1>1, <1>3, <2>1
<1>6. IsPrefix(u, v)
  BY <1>3, <1>5, PrefixMeans
<1> QED  BY <1>2, <1>6 DEF u, v

LEMMA PrefixConcat ==
  ASSUME NEW S, NEW s \in Seq(S), NEW t \in Seq(S)
  PROVE  s \o t \in Seq(S) /\ IsPrefix(s, s \o t)
<1> DEFINE u == s \o t
<1>1. u \in Seq(S) /\ Len(u) = Len(s) + Len(t) /\ \A i \in 1..Len(s) : u[i] = s[i]
  OBVIOUS
<1>2. Len(s) \in Nat /\ Len(t) \in Nat
  OBVIOUS
<1> HIDE DEF u
<1>3. IsPrefix(s, u)
  BY <1>1, <1>2, PrefixMeans
<1> QED  BY <1>1, <1>3 DEF u

LEMMA PrefixCut ==
  ASSUME NEW S, NEW s \in Seq(S), NEW t \in Seq(S), NEW n \in 0..Len(s), IsPrefix(s, t)
  PROVE  /\ SubSeq(s, 1, n) \in Seq(S) /\ IsPrefix(SubSeq(s, 1, n), t)
         /\ ToSet(SubSeq(s, 1, n)) \subseteq ToSet(s)
<1> DEFINE u == SubSeq(s, 1, n)
<1>1. Len(s) \in Nat /\ Len(t) \in Nat /\ n \in Nat /\ n <= Len(s)
  OBVIOUS
<1>2. u \in Seq(S) /\ Len(u) = n /\ \A i \in 1..n : u[i] = s[i]
  <2>1. /\ 1 \in Int /\ n \in Int /\ n - 1 + 1 = n
        /\ \A i \in 1..n : 1 + i - 1 = i /\ s[i] \in S
    BY <1>1
  <2> QED  BY <1>1, <2>1, SubSeqProperties
<1> HIDE DEF u
<1>3. Len(s) <= Len(t) /\ \A i \in 1..Len(s) : s[i] = t[i]
  BY PrefixMeans
<1>4. \A i \in 1..n : i \in 1..Len(s)
  BY <1>1
<1>5. IsPrefix(u, t)
  BY <1>1, <1>2, <1>3, <1>4, PrefixMeans
<1>6. ToSet(u) \subseteq ToSet(s)
  BY <1>2, <1>4, Members
<1> QED  BY <1>2, <1>5, <1>6 DEF u

\* Two queues one behind the other.
LEMMA Relay ==
  ASSUME NEW S, NEW s \in Seq(S), NEW t \in Seq(S)
  PROVE  /\ \A m \in S : Append(s \o t, m) = s \o Append(t, m)
         /\ s # <<>> => Tail(s \o t) = Tail(s) \o t
         /\ t # <<>> => Append(s, Head(t)) \o Tail(t) = s \o t
<1>1. ASSUME NEW m \in S PROVE Append(s \o t, m) = s \o Append(t, m)
  OBVIOUS
<1>2. ASSUME s # <<>> PROVE Tail(s \o t) = Tail(s) \o t
  BY <1>2
<1>3. ASSUME t # <<>> PROVE Append(s, Head(t)) \o Tail(t) = s \o t
  BY <1>3
<1> QED  BY <1>1, <1>2, <1>3

\* A lost connection carries no more frames, and its answers line up.
WireInv == Aligned /\ (broken => wire = <<>>)

LEMMA WireStep == TypeOK /\ Disconnected /\ WireInv /\ [Next]_vars => WireInv'
<1> SUFFICES ASSUME TypeOK, Disconnected, WireInv, [Next]_vars PROVE WireInv'
  OBVIOUS
<1> DEFINE P == pending_replies
<1>1. /\ P \in Seq(Message) /\ wire \in Seq(Message) /\ acks \in Seq(Message)
      /\ buffer \in Seq(Message) /\ <<>> \in Seq(Message)
  BY EmptySeq DEF TypeOK
<1>2. /\ conn = "up" => IsPrefix(acks, P) /\ (~ broken => P = acks \o wire)
      /\ broken => wire = <<>>
      /\ conn # "up" => P = <<>>
  BY DEF WireInv, Aligned, Disconnected
<1> DEFINE Kept == /\ conn' = "up" => IsPrefix(acks', P') /\ (~ broken' => P' = acks' \o wire')
                   /\ broken' => wire' = <<>>
<1>3. SUFFICES Kept
  BY DEF WireInv, Aligned
<1> HIDE DEF P
<1>4. CASE Connect
  <2>1. conn' = "up" /\ wire' = <<>> /\ acks' = <<>> /\ ~ broken' /\ P' = <<>>
    BY <1>2, <1>4 DEF Connect, P
  <2>2. <<>> \o <<>> = <<>>
    OBVIOUS
  <2>3. IsPrefix(<<>>, <<>>)
    BY <1>1, <2>2, PrefixConcat
  <2> QED  BY <2>1, <2>2, <2>3
<1>5. CASE conn' # "up" /\ wire' = wire /\ broken' = broken
  BY <1>2, <1>5
<1>6. CASE conn' = conn /\ P' = P /\ wire' = wire /\ acks' = acks /\ broken' = broken
  BY <1>2, <1>6
<1>7. CASE Transmit
  <2>1. /\ conn = "up" /\ acks' = acks /\ broken' = broken /\ Head(buffer) \in Message
        /\ \/ P' = P /\ conn' = conn /\ wire' = wire
           \/ /\ P' = Append(P, Head(buffer)) /\ conn' = conn
              /\ wire' = IF broken THEN wire ELSE Append(wire, Head(buffer))
           \/ conn' = "connect" /\ wire' = wire
    BY <1>1, <1>7 DEF Transmit, Fail, P
  <2>2. CASE /\ P' = Append(P, Head(buffer)) /\ conn' = conn
             /\ wire' = IF broken THEN wire ELSE Append(wire, Head(buffer))
    <3>1. IsPrefix(acks', P')
      BY <1>1, <1>2, <2>1, <2>2, PrefixAppend
    <3>2. ~ broken => P' = acks' \o wire'
      BY <1>1, <1>2, <2>1, <2>2, Relay
    <3> QED  BY <1>2, <2>1, <2>2, <3>1, <3>2
  <2> QED  BY <1>5, <1>6, <2>1, <2>2
<1>8. CASE ReadAck
  <2>1. /\ conn = "up" /\ acks # <<>> /\ acks' = Tail(acks) /\ wire' = wire /\ broken' = broken
        /\ \/ conn' = "connect"
           \/ P # <<>> /\ P' = Tail(P) /\ conn' = conn
    BY <1>8 DEF ReadAck, pop_front, Fail, P
  <2>2. CASE P' = Tail(P) /\ conn' = conn
    <3>1. IsPrefix(acks', P')
      BY <1>1, <1>2, <2>1, <2>2, PrefixTail
    <3>2. ~ broken => P' = acks' \o wire'
      BY <1>1, <1>2, <2>1, <2>2, Relay
    <3> QED  BY <1>2, <2>1, <3>1, <3>2
  <2> QED  BY <1>5, <2>1, <2>2
<1>9. CASE Dispatch
  <2>1. /\ wire # <<>> /\ wire' = Tail(wire) /\ acks' = Append(acks, Head(wire))
        /\ conn' = conn /\ P' = P /\ broken' = broken
    BY <1>9 DEF Dispatch, task, P
  <2>2. ~ broken
    BY <1>2, <2>1
  <2>3. CASE conn = "up"
    <3>1. P' = acks' \o wire'
      BY <1>1, <1>2, <2>1, <2>2, <2>3, Relay
    <3>2. acks' \in Seq(Message) /\ wire' \in Seq(Message)
      BY <1>1, <2>1
    <3>3. IsPrefix(acks', acks' \o wire')
      BY <3>2, PrefixConcat
    <3> QED  BY <2>1, <2>2, <3>1, <3>3
  <2> QED  BY <2>1, <2>2, <2>3
<1>10. CASE Break
  <2>1. /\ conn = "up" /\ ~ broken /\ broken' /\ wire' = <<>> /\ P' = P
        /\ \E n \in 0..Len(acks) : acks' = SubSeq(acks, 1, n)
    BY <1>10 DEF Break, task, P
  <2>2. IsPrefix(acks', P')
    BY <1>1, <1>2, <2>1, PrefixCut
  <2> QED  BY <2>1, <2>2
<1>11. CASE (\E m \in Message : Send(m) \/ Cancel(m)) \/ Drain \/ TakeMessage
              \/ DispatchLate \/ UNCHANGED vars
  <2>1. conn' = conn /\ P' = P /\ wire' = wire /\ acks' = acks /\ broken' = broken
    BY <1>11 DEF Send, Cancel, Drain, TakeMessage, DispatchLate, vars, task, net, P
  <2> QED  BY <1>6, <2>1
<1>12. CASE ConnectFails \/ RetryTimer \/ ReadError
  <2>1. conn' # "up" /\ wire' = wire /\ broken' = broken
    BY <1>12 DEF ConnectFails, RetryTimer, ReadError, Fail, net
  <2> QED  BY <1>5, <2>1
<1> QED  BY <1>4, <1>7, <1>8, <1>9, <1>10, <1>11, <1>12 DEF Next, TaskStep

LEMMA AckStep == TypeOK /\ WireInv /\ AcksTrue /\ [Next]_vars => AcksTrue'
<1> SUFFICES ASSUME TypeOK, WireInv, AcksTrue, [Next]_vars PROVE AcksTrue'
  OBVIOUS
<1>1. /\ pending_replies \in Seq(Message) /\ wire \in Seq(Message) /\ acks \in Seq(Message)
      /\ arrived \in Seq(Message) /\ old \in Seq(Seq(Message))
      /\ handler \in [Message -> Status]
  BY DEF TypeOK
<1>2. /\ \A m \in Message : handler[m] = "acked" => m \in ToSet(arrived)
      /\ ToSet(acks) \subseteq ToSet(arrived)
      /\ conn = "up" => IsPrefix(acks, pending_replies)
  BY DEF AcksTrue, AckedArrived, WireInv, Aligned
<1> DEFINE Kept == /\ \A m \in Message : handler'[m] = "acked" => m \in ToSet(arrived')
                   /\ ToSet(acks') \subseteq ToSet(arrived')
<1>3. SUFFICES Kept
  BY DEF AcksTrue, AckedArrived
<1>4. CASE Connect
  <2>1. handler' = handler /\ arrived' = arrived /\ acks' = <<>>
    BY <1>4 DEF Connect
  <2> QED  BY <1>2, <2>1, NoMembers
<1>5. CASE \E m \in Message : Send(m) \/ Cancel(m)
  <2>1. /\ \A m \in Message : handler'[m] = "acked" => handler[m] = "acked"
        /\ arrived' = arrived /\ acks' = acks
    BY <1>1, <1>5 DEF Send, Cancel, net
  <2> QED  BY <1>2, <2>1
<1>6. CASE ReadAck
  <2>1. /\ conn = "up" /\ acks # <<>> /\ acks' = Tail(acks) /\ arrived' = arrived
        /\ \/ handler' = handler
           \/ handler' = [handler EXCEPT ![Head(pending_replies)] =
                            IF @ = "waiting" THEN "acked" ELSE @]
    BY <1>6 DEF ReadAck, pop_front
  <2>2. /\ Head(acks) \in ToSet(acks) /\ ToSet(acks') \subseteq ToSet(acks)
        /\ Head(acks) = Head(pending_replies)
    BY <1>1, <1>2, <2>1, PrefixTail, OrderedTail
  <2> QED  BY <1>1, <1>2, <2>1, <2>2
<1>7. CASE Dispatch
  <2>1. /\ handler' = handler /\ Head(wire) \in Message
        /\ arrived' = Append(arrived, Head(wire)) /\ acks' = Append(acks, Head(wire))
    BY <1>1, <1>7 DEF Dispatch
  <2>2. /\ ToSet(arrived') = ToSet(arrived) \union {Head(wire)}
        /\ ToSet(acks') = ToSet(acks) \union {Head(wire)}
    BY <1>1, <2>1, OrderedAppend
  <2> QED  BY <1>2, <2>1, <2>2
<1>8. CASE DispatchLate
  <2> PICK i \in 1..Len(old) : old[i] # <<>> /\ arrived' = Append(arrived, Head(old[i]))
    BY <1>8 DEF DispatchLate
  <2>1. old[i] \in Seq(Message)
    BY <1>1
  <2>2. Head(old[i]) \in Message
    BY <2>1
  <2>3. ToSet(arrived') = ToSet(arrived) \union {Head(old[i])}
    BY <1>1, <2>2, OrderedAppend
  <2>4. handler' = handler /\ acks' = acks
    BY <1>8 DEF DispatchLate
  <2> QED  BY <1>2, <2>3, <2>4
<1>9. CASE Break
  <2>1. /\ conn = "up" /\ handler' = handler /\ arrived' = arrived
        /\ \E n \in 0..Len(acks) : acks' = SubSeq(acks, 1, n)
    BY <1>9 DEF Break
  <2>2. ToSet(acks') \subseteq ToSet(acks)
    BY <1>1, <1>2, <2>1, PrefixCut
  <2> QED  BY <1>2, <2>1, <2>2
<1>10. CASE ConnectFails \/ RetryTimer \/ Drain \/ Transmit \/ TakeMessage \/ ReadError
              \/ UNCHANGED vars
  <2>1. handler' = handler /\ arrived' = arrived /\ acks' = acks
    BY <1>10 DEF ConnectFails, RetryTimer, Drain, Transmit, TakeMessage, ReadError, vars, net
  <2> QED  BY <1>2, <2>1
<1> QED  BY <1>4, <1>5, <1>6, <1>7, <1>8, <1>9, <1>10 DEF Next, TaskStep

-----------------------------------------------------------------------------
(* Frames.                                                                 *)

\* What is in turn stays so: what arrived has, and handlers only move on.
LEMMA TurnMore ==
  ASSUME NEW f \in Seq(Message), NEW h, NEW h2, NEW got, NEW got2,
         InTurn(f, h, got), got \subseteq got2,
         \A m \in Message : /\ h[m] # "none" => h2[m] # "none"
                            /\ h[m] = "cancelled" => h2[m] = "cancelled"
  PROVE  InTurn(f, h2, got2)
<1> SUFFICES ASSUME NEW j \in 1..Len(f)
             PROVE  /\ h2[f[j]] # "none"
                    /\ \A k \in 1..(f[j] - 1) :
                         \/ k \in got2 \/ h2[k] = "cancelled"
                         \/ \E i \in 1..(j - 1) : f[i] = k
  BY DEF InTurn
<1>1. f[j] \in Message /\ \A k \in 1..(f[j] - 1) : k \in Message
  <2>1. f[j] \in Message
    OBVIOUS
  <2>2. f[j] \in Nat /\ f[j] <= MaxMessage
    BY <2>1, LinkAssumption DEF Message
  <2> QED  BY <2>1, <2>2, LinkAssumption DEF Message
<1> QED  BY <1>1 DEF InTurn

\* The first frame's message is next, and once it arrived the others follow.
LEMMA TurnTail ==
  ASSUME NEW f \in Seq(Message), f # <<>>, NEW h, NEW got, InTurn(f, h, got)
  PROVE  /\ Head(f) \in Message /\ Tail(f) \in Seq(Message)
         /\ h[Head(f)] # "none"
         /\ \A k \in 1..(Head(f) - 1) : k \in got \/ h[k] = "cancelled"
         /\ InTurn(Tail(f), h, got \union {Head(f)})
<1> DEFINE t == Tail(f)
<1>1. /\ 1 \in 1..Len(f) /\ Head(f) = f[1] /\ Head(f) \in Message
      /\ t \in Seq(Message) /\ Len(t) = Len(f) - 1 /\ Len(f) \in Nat
      /\ \A j \in 1..Len(t) : t[j] = f[j + 1]
  OBVIOUS
<1>2. h[Head(f)] # "none" /\ \A k \in 1..(Head(f) - 1) : k \in got \/ h[k] = "cancelled"
  BY <1>1 DEF InTurn
<1>3. t \in Seq(Message)
  BY <1>1
<1> HIDE DEF t
<1>4. ASSUME NEW j \in 1..Len(t)
      PROVE  /\ h[t[j]] # "none"
             /\ \A k \in 1..(t[j] - 1) :
                  \/ k \in got \union {Head(f)} \/ h[k] = "cancelled"
                  \/ \E i \in 1..(j - 1) : t[i] = k
  <2>1. j + 1 \in 1..Len(f) /\ t[j] = f[j + 1]
    BY <1>1
  <2>2. /\ h[t[j]] # "none"
        /\ \A k \in 1..(t[j] - 1) :
             \/ k \in got \/ h[k] = "cancelled"
             \/ \E i \in 1..j : f[i] = k
    BY <2>1 DEF InTurn
  <2>3. ASSUME NEW k, NEW i \in 1..j, f[i] = k
        PROVE  k = Head(f) \/ \E n \in 1..(j - 1) : t[n] = k
    <3>1. CASE i = 1
      BY <1>1, <2>3, <3>1
    <3>2. CASE i # 1
      <4>1. i - 1 \in 1..(j - 1) /\ i - 1 \in 1..Len(t) /\ i - 1 + 1 = i
        BY <1>1, <3>2
      <4>2. t[i - 1] = f[i]
        BY <1>1, <4>1
      <4> QED  BY <2>3, <4>1, <4>2
    <3> QED  BY <3>1, <3>2
  <2> QED  BY <2>2, <2>3
<1>5. InTurn(t, h, got \union {Head(f)})
  BY <1>4 DEF InTurn
<1> QED  BY <1>1, <1>2, <1>3, <1>5 DEF t

\* A frame is added in turn.
LEMMA TurnAppend ==
  ASSUME NEW f \in Seq(Message), NEW m \in Message, NEW h, NEW got, InTurn(f, h, got),
         h[m] # "none",
         \A k \in 1..(m - 1) : k \in got \/ h[k] = "cancelled" \/ k \in ToSet(f)
  PROVE  InTurn(Append(f, m), h, got)
<1> DEFINE a == Append(f, m)
<1>1. /\ Len(a) = Len(f) + 1 /\ a[Len(f) + 1] = m /\ Len(f) \in Nat
      /\ \A j \in 1..Len(f) : a[j] = f[j]
  OBVIOUS
<1> HIDE DEF a
<1>2. ASSUME NEW j \in 1..Len(a)
      PROVE  /\ h[a[j]] # "none"
             /\ \A k \in 1..(a[j] - 1) :
                  \/ k \in got \/ h[k] = "cancelled"
                  \/ \E i \in 1..(j - 1) : a[i] = k
  <2>1. CASE j \in 1..Len(f)
    <3>1. a[j] = f[j] /\ \A i \in 1..(j - 1) : a[i] = f[i]
      BY <1>1, <2>1
    <3>2. /\ h[f[j]] # "none"
          /\ \A k \in 1..(f[j] - 1) :
               \/ k \in got \/ h[k] = "cancelled"
               \/ \E i \in 1..(j - 1) : f[i] = k
      BY <2>1 DEF InTurn
    <3> QED  BY <3>1, <3>2
  <2>2. CASE j = Len(f) + 1
    <3>1. a[j] = m /\ 1..(j - 1) = 1..Len(f)
      BY <1>1, <2>2
    <3>2. \A k \in ToSet(f) : \E i \in 1..Len(f) : a[i] = k
      BY <1>1, Members
    <3> QED  BY <3>1, <3>2
  <2> QED  BY <1>1, <2>1, <2>2
<1>3. InTurn(a, h, got)
  BY <1>2 DEF InTurn
<1> QED  BY <1>3 DEF a

\* The next message of the buffer is in turn behind the frames under way.
LEMMA NextInTurn ==
  ASSUME TypeOK, QueueInv, WireInv, AcksTrue, conn = "up", ~ broken, buffer # <<>>
  PROVE  /\ Head(buffer) \in Message /\ handler[Head(buffer)] # "none"
         /\ \A k \in 1..(Head(buffer) - 1) :
              \/ k \in ToSet(arrived) \/ handler[k] = "cancelled" \/ k \in ToSet(wire)
<1> DEFINE P == pending_replies
           m == Head(buffer)
<1>1. /\ P \in Seq(Message) /\ buffer \in Seq(Message) /\ channel \in Seq(Message)
      /\ wire \in Seq(Message) /\ acks \in Seq(Message)
      /\ handler \in [Message -> Status]
  BY DEF TypeOK
<1>2. /\ m \in Message /\ ToSet(buffer) = {m} \union ToSet(Tail(buffer))
      /\ \A x \in ToSet(Tail(buffer)) : m < x
  BY <1>1, OrderedTail DEF QueueInv, QueuesOrdered
<1>3. \A x \in ToSet(channel) : m < x
  BY <1>2 DEF QueueInv, QueuesOrdered, Before
<1>4. handler[m] # "none"
  BY <1>2 DEF QueueInv, QueuesHold, Held
<1> HIDE DEF m
<1>5. ASSUME NEW k \in 1..(m - 1)
      PROVE  k \in ToSet(arrived) \/ handler[k] = "cancelled" \/ k \in ToSet(wire)
  <2>1. k \in Message /\ k < m /\ k \in Nat /\ m \in Nat
    BY <1>2, LinkAssumption DEF Message
  <2>2. handler[k] # "none"
    BY <1>2, <1>4, <2>1 DEF QueueInv, SentInOrder
  <2>3. CASE handler[k] = "acked"
    BY <2>1, <2>3 DEF AcksTrue, AckedArrived
  <2>4. CASE handler[k] = "waiting"
    <3>1. k \in ToSet(P) \union ToSet(buffer) \union ToSet(channel)
      BY <2>1, <2>4 DEF QueueInv, QueuesHold, Held
    <3>2. \A x \in Message : m < x => k # x
      BY <2>1 DEF Message
    <3>3. ToSet(Tail(buffer)) \subseteq Message /\ ToSet(channel) \subseteq Message
      BY <1>1, Members, <1>2, OrderedTail
    <3>4. k \in ToSet(P)
      BY <1>2, <1>3, <2>1, <3>1, <3>2, <3>3
    <3>5. P = acks \o wire
      BY DEF WireInv, Aligned
    <3>6. k \in ToSet(acks) \union ToSet(wire)
      BY <1>1, <3>4, <3>5, OrderedConcat
    <3> QED  BY <3>6 DEF AcksTrue
  <2>5. handler[k] \in {"none", "waiting", "acked", "cancelled"}
    BY <1>1, <2>1 DEF Status
  <2> QED  BY <2>2, <2>3, <2>4, <2>5
<1> QED  BY <1>2, <1>4, <1>5 DEF m

LEMMA FollowStep ==
  TypeOK /\ QueueInv /\ WireInv /\ AcksTrue /\ FramesFollow /\ [Next]_vars => FramesFollow'
<1> SUFFICES ASSUME TypeOK, QueueInv, WireInv, AcksTrue, FramesFollow, [Next]_vars
             PROVE  FramesFollow'
  OBVIOUS
<1> DEFINE got == ToSet(arrived)
<1>1. /\ wire \in Seq(Message) /\ arrived \in Seq(Message)
      /\ old \in Seq(Seq(Message)) /\ Len(old) \in Nat
      /\ \A i \in 1..Len(old) : old[i] \in Seq(Message)
      /\ handler \in [Message -> Status]
      /\ <<>> \in Seq(Message)
  BY EmptySeq DEF TypeOK
<1>2. InTurn(wire, handler, got) /\ \A i \in 1..Len(old) : InTurn(old[i], handler, got)
  BY DEF FramesFollow, Follows
<1> DEFINE Kept == /\ InTurn(wire', handler', got')
                   /\ \A i \in 1..Len(old') : InTurn(old'[i], handler', got')
<1>3. SUFFICES Kept
  BY DEF FramesFollow, Follows
<1>4. \A h, g : InTurn(<<>>, h, g)
  BY DEF InTurn
<1> HIDE DEF got
<1>5. ASSUME wire' = wire, old' = old, got' = got,
             \A m \in Message : /\ handler[m] # "none" => handler'[m] # "none"
                                /\ handler[m] = "cancelled" => handler'[m] = "cancelled"
      PROVE  Kept
  <2>1. \A f \in Seq(Message) : InTurn(f, handler, got) => InTurn(f, handler', got')
    BY <1>5, TurnMore
  <2> QED  BY <1>1, <1>2, <1>5, <2>1
<1>6. CASE (\E m \in Message : Send(m) \/ Cancel(m)) \/ ReadAck
  <2>1. wire' = wire /\ old' = old /\ got' = got
    BY <1>6 DEF Send, Cancel, ReadAck, net, got
  <2>2. \A m \in Message : /\ handler[m] # "none" => handler'[m] # "none"
                           /\ handler[m] = "cancelled" => handler'[m] = "cancelled"
    BY <1>1, <1>6 DEF Send, Cancel, ReadAck
  <2> QED  BY <1>5, <2>1, <2>2
<1>7. CASE Connect
  <2>1. wire' = <<>> /\ old' = old /\ got' = got /\ handler' = handler
    BY <1>7 DEF Connect, got
  <2> QED  BY <1>2, <1>4, <2>1
<1>8. CASE ConnectFails \/ RetryTimer \/ Drain \/ TakeMessage \/ ReadError \/ UNCHANGED vars
  <2>1. wire' = wire /\ old' = old /\ got' = got /\ handler' = handler
    BY <1>8 DEF ConnectFails, RetryTimer, Drain, TakeMessage, ReadError, vars, net, got
  <2> QED  BY <1>2, <2>1
<1>9. CASE Transmit
  <2>1. /\ conn = "up" /\ buffer # <<>> /\ old' = old /\ got' = got /\ handler' = handler
        /\ wire' = wire \/ (~ broken /\ wire' = Append(wire, Head(buffer)))
    BY <1>9 DEF Transmit, got
  <2>2. CASE wire' = wire
    BY <1>2, <2>1, <2>2
  <2>3. CASE ~ broken /\ wire' = Append(wire, Head(buffer))
    <3>1. /\ Head(buffer) \in Message /\ handler[Head(buffer)] # "none"
          /\ \A k \in 1..(Head(buffer) - 1) :
               k \in got \/ handler[k] = "cancelled" \/ k \in ToSet(wire)
      BY <2>1, <2>3, NextInTurn DEF got
    <3>2. InTurn(wire', handler, got)
      BY <1>1, <1>2, <2>3, <3>1, TurnAppend
    <3> QED  BY <1>2, <2>1, <3>2
  <2> QED  BY <2>1, <2>2, <2>3
<1>10. CASE Dispatch
  <2>1. /\ wire # <<>> /\ wire' = Tail(wire) /\ old' = old /\ handler' = handler
        /\ arrived' = Append(arrived, Head(wire))
    BY <1>10 DEF Dispatch
  <2>2. Head(wire) \in Message /\ InTurn(wire', handler, got \union {Head(wire)})
    BY <1>1, <1>2, <2>1, TurnTail
  <2>3. got' = got \union {Head(wire)}
    BY <1>1, <2>1, <2>2, OrderedAppend DEF got
  <2>4. \A i \in 1..Len(old) : InTurn(old[i], handler, got')
    BY <1>1, <1>2, <2>3, TurnMore
  <2> QED  BY <2>1, <2>2, <2>3, <2>4
<1>11. CASE DispatchLate
  <2> PICK i \in 1..Len(old) :
        /\ old[i] # <<>>
        /\ arrived' = Append(arrived, Head(old[i]))
        /\ old' = [old EXCEPT ![i] = Tail(@)]
        /\ UNCHANGED <<handler, wire>>
    BY <1>11 DEF DispatchLate
  <2>1. /\ Head(old[i]) \in Message
        /\ InTurn(Tail(old[i]), handler, got \union {Head(old[i])})
    BY <1>1, <1>2, TurnTail
  <2>2. got' = got \union {Head(old[i])}
    BY <1>1, <2>1, OrderedAppend DEF got
  <2>3. \A f \in Seq(Message) : InTurn(f, handler, got) => InTurn(f, handler, got')
    BY <2>2, TurnMore
  <2>4. /\ Len(old') = Len(old)
        /\ \A n \in 1..Len(old) : old'[n] = IF n = i THEN Tail(old[i]) ELSE old[n]
    BY <1>1
  <2>5. \A n \in 1..Len(old') : InTurn(old'[n], handler, got')
    BY <1>1, <1>2, <2>1, <2>2, <2>3, <2>4
  <2> QED  BY <1>1, <1>2, <2>3, <2>5
<1>12. CASE Break
  <2>1. /\ wire' = <<>> /\ old' = Append(old, wire) /\ got' = got /\ handler' = handler
    BY <1>12 DEF Break, got
  <2>2. /\ Len(old') = Len(old) + 1 /\ old'[Len(old) + 1] = wire
        /\ \A n \in 1..Len(old) : old'[n] = old[n]
    BY <1>1, <2>1
  <2>3. \A n \in 1..Len(old') : n = Len(old) + 1 \/ n \in 1..Len(old)
    BY <1>1, <2>2
  <2> QED  BY <1>2, <1>4, <2>1, <2>2, <2>3
<1> QED  BY <1>6, <1>7, <1>8, <1>9, <1>10, <1>11, <1>12 DEF Next, TaskStep

-----------------------------------------------------------------------------
(* The results.                                                            *)

LEMMA LinkStep == LinkInv /\ [Next]_vars => LinkInv'
<1> SUFFICES ASSUME LinkInv, [Next]_vars PROVE LinkInv'
  OBVIOUS
<1>1. TypeOK /\ QueueInv /\ WireInv /\ AcksTrue /\ FramesFollow
  BY DEF LinkInv, QueueInv, Disconnected, WireInv
<1>2. TypeOK' /\ QueueInv' /\ AcksTrue' /\ FramesFollow'
  BY <1>1, TypeStep, QueueStep, AckStep, FollowStep
<1>3. WireInv'
  BY <1>1, WireStep DEF QueueInv
<1> QED  BY <1>2, <1>3 DEF LinkInv, QueueInv, Disconnected, WireInv

LEMMA LinkInvariant == Spec => []LinkInv
<1>1. LinkInv /\ [Next]_vars => LinkInv'
  BY LinkStep
<1> QED  BY InitLink, <1>1, PTL DEF Spec

\* A message that waits is in the queues, held once, and the queues keep the
\* order of sending: over any number of lost connections none is forgotten, held
\* twice or overtaken (the requeueing of keep_alive and the retain of run).
THEOREM NothingEverLost == Spec => []NothingLost
<1>1. LinkInv => NothingLost
  <2> SUFFICES ASSUME LinkInv PROVE NothingLost
    OBVIOUS
  <2> DEFINE P == pending_replies
             held == P \o buffer \o channel
  <2>1. /\ P \in Seq(Message) /\ buffer \in Seq(Message) /\ channel \in Seq(Message)
        /\ QueuesOrdered /\ QueuesHold
    BY DEF LinkInv, TypeOK
  <2>2. /\ P \o buffer \in Seq(Message)
        /\ ToSet(P \o buffer) = ToSet(P) \union ToSet(buffer)
        /\ Ordered(P \o buffer)
    BY <2>1, OrderedConcat DEF QueuesOrdered
  <2>3. Before(P \o buffer, channel)
    BY <2>1, <2>2 DEF QueuesOrdered, Before
  <2>4. /\ ToSet(held) = ToSet(P) \union ToSet(buffer) \union ToSet(channel)
        /\ Ordered(held)
    BY <2>1, <2>2, <2>3, OrderedConcat DEF QueuesOrdered
  <2>5. \A m \in Message : handler[m] = "waiting" => m \in ToSet(held)
    BY <2>1, <2>4 DEF QueuesHold, Held
  <2>6. \A i, j \in 1..Len(held) : i < j => held[i] < held[j]
    BY <2>4 DEF Ordered
  <2> QED  BY <2>5, <2>6 DEF NothingLost
<1> QED  BY LinkInvariant, <1>1, PTL

\* Acknowledgements carry no name, and keep_alive matches them by position: the
\* ones under way always are those of the oldest messages without an answer.
THEOREM AcksLineUp == Spec => []Aligned
<1>1. LinkInv => Aligned
  BY DEF LinkInv
<1> QED  BY LinkInvariant, <1>1, PTL

\* The cancel handler reports a success only for a message that its peer has got.
THEOREM AckedHasArrived == Spec => []AckedArrived
<1>1. LinkInv => AckedArrived
  BY DEF LinkInv, AcksTrue
<1> QED  BY LinkInvariant, <1>1, PTL

\* Each step of the task, of the peer and of the connection is a step of the
\* reliable link, or none: no message reaches the peer before an earlier one that
\* is not cancelled, and none is acknowledged before it is received.
THEOREM IsSafeLink == Spec => Link!Spec
<1>1. Init => Link!Init
  <2> SUFFICES ASSUME Init PROVE Link!Init
    OBVIOUS
  <2>1. handler = [m \in Message |-> "none"] /\ ToSet(arrived) = {}
    BY NoMembers DEF Init
  <2> QED  BY <2>1 DEF Link!Init, Link!Message, Message
<1>2. LinkInv /\ [Next]_vars => [Link!Next]_<<handler, ToSet(arrived)>>
  <2> SUFFICES ASSUME LinkInv, [Next]_vars,
                      ~ (handler' = handler /\ ToSet(arrived)' = ToSet(arrived))
               PROVE  Link!Next
    OBVIOUS
  <2> DEFINE got == ToSet(arrived)
  <2>1. /\ handler \in [Message -> Status] /\ arrived \in Seq(Message)
        /\ pending_replies \in Seq(Message) /\ acks \in Seq(Message)
        /\ wire \in Seq(Message) /\ old \in Seq(Seq(Message))
        /\ \A i \in 1..Len(old) : old[i] \in Seq(Message)
        /\ Link!Message = Message
    BY DEF LinkInv, TypeOK, Link!Message, Message
  <2>2. /\ InTurn(wire, handler, got) /\ \A i \in 1..Len(old) : InTurn(old[i], handler, got)
        /\ ToSet(acks) \subseteq got
        /\ conn = "up" => IsPrefix(acks, pending_replies)
    BY DEF LinkInv, FramesFollow, Follows, AcksTrue, Aligned
  <2>3. ASSUME NEW m \in Message, Send(m) PROVE Link!Next
    <3>1. Link!Send(m)
      BY <2>3 DEF Send, net, Link!Send
    <3> QED  BY <2>1, <3>1 DEF Link!Next
  <2>4. ASSUME NEW m \in Message, Cancel(m) PROVE Link!Next
    <3>1. Link!Cancel(m)
      BY <2>4 DEF Cancel, net, Link!Cancel
    <3> QED  BY <2>1, <3>1 DEF Link!Next
  <2>5. ASSUME NEW f \in Seq(Message), f # <<>>, InTurn(f, handler, got),
               arrived' = Append(arrived, Head(f)), handler' = handler
        PROVE  Link!Next
    <3>1. /\ Head(f) \in Message /\ handler[Head(f)] # "none"
          /\ \A k \in 1..(Head(f) - 1) : k \in got \/ handler[k] = "cancelled"
      BY <2>5, TurnTail
    <3>2. got' = got \union {Head(f)}
      BY <2>1, <2>5, <3>1, OrderedAppend
    <3>3. Link!Receive(Head(f))
      BY <2>5, <3>1, <3>2 DEF Link!Receive
    <3> QED  BY <2>1, <3>1, <3>3 DEF Link!Next
  <2>6. CASE Dispatch
    <3>1. wire # <<>> /\ arrived' = Append(arrived, Head(wire)) /\ handler' = handler
      BY <2>6 DEF Dispatch
    <3>2. PICK f : f = wire
      OBVIOUS
    <3> QED  BY <2>1, <2>2, <2>5, <3>1, <3>2
  <2>7. CASE DispatchLate
    <3>1. PICK i \in 1..Len(old) :
            old[i] # <<>> /\ arrived' = Append(arrived, Head(old[i])) /\ handler' = handler
      BY <2>7 DEF DispatchLate
    <3>2. PICK f : f = old[i]
      OBVIOUS
    <3> QED  BY <2>1, <2>2, <2>5, <3>1, <3>2
  <2>8. CASE ReadAck
    <3>1. PICK m : m = Head(pending_replies)
      OBVIOUS
    <3>2. /\ conn = "up" /\ acks # <<>> /\ arrived' = arrived
          /\ handler' = [handler EXCEPT ![m] = IF @ = "waiting" THEN "acked" ELSE @]
      BY <2>8, <3>1 DEF ReadAck, pop_front
    <3>3. m \in Message /\ m \in got
      BY <2>1, <2>2, <3>1, <3>2, PrefixTail, OrderedTail
    <3>4. handler[m] = "waiting" /\ handler' = [handler EXCEPT ![m] = "acked"]
      BY <2>1, <3>2, <3>3
    <3>5. Link!Ack(m)
      BY <3>2, <3>3, <3>4 DEF Link!Ack
    <3> QED  BY <2>1, <3>3, <3>5 DEF Link!Next
  <2>9. CASE \/ Connect \/ ConnectFails \/ RetryTimer \/ Drain \/ Transmit \/ TakeMessage
             \/ ReadError \/ Break \/ UNCHANGED vars
    BY <2>9 DEF Connect, ConnectFails, RetryTimer, Drain, Transmit, TakeMessage,
                ReadError, Break, vars, net
  <2> QED  BY <2>3, <2>4, <2>6, <2>7, <2>8, <2>9 DEF Next, TaskStep
<1> QED  BY LinkInvariant, <1>1, <1>2, PTL DEF Spec, Link!Spec
=============================================================================
