---------------------------- MODULE MempoolProofs ----------------------------
(***************************************************************************)
(* What the way of a batch through the mempool guarantees, for every       *)
(* committee, every limit on the size of a batch, every capacity of the    *)
(* channels and any transactions: none of them is lost or doubled, and     *)
(* nothing is announced that a quorum does not hold.                       *)
(***************************************************************************)
EXTENDS Mempool, CommitteeProofs, SequenceTheorems

-----------------------------------------------------------------------------
(* Sums.                                                                   *)

\* The partial sums whose last one is Size.
Sums(f, txs) ==
  f = [i \in 0..Len(txs) |-> IF i = 0 THEN 0 ELSE f[i - 1] + TxSize[txs[i]]]

LEMMA SizeIsSum ==
  ASSUME NEW txs
  PROVE  Size(txs) = (CHOOSE f : Sums(f, txs))[Len(txs)]
BY DEF Size, Sums

\* There is one such function for all sizes that are numbers.
LEMMA SumsOfPrefix ==
  ASSUME NEW txs \in Seq(1..MaxTx), NEW n \in 0..Len(txs)
  PROVE  \E f \in [0..n -> Nat] :
           \A i \in 0..n : f[i] = IF i = 0 THEN 0 ELSE f[i - 1] + TxSize[txs[i]]
<1> DEFINE Summed(k, f) ==
             \A i \in 0..k : f[i] = IF i = 0 THEN 0 ELSE f[i - 1] + TxSize[txs[i]]
           Bad == {k \in 0..Len(txs) : ~ \E f \in [0..k -> Nat] : Summed(k, f)}
<1>1. Len(txs) \in Nat /\ \A i \in 1..Len(txs) : TxSize[txs[i]] \in Nat
  BY MempoolAssumption DEF MaxTx
<1>2. SUFFICES ASSUME Bad # {} PROVE FALSE
  OBVIOUS
<1>3. PICK k \in Bad : \A j \in Bad : k <= j
  <2>1. Bad \subseteq Nat
    BY <1>1
  <2> HIDE DEF Bad
  <2> QED  BY <1>2, <2>1, LeastNatural
<1>4. k \in 0..Len(txs) /\ ~ \E f \in [0..k -> Nat] : Summed(k, f)
  OBVIOUS
<1>5. k # 0
  <2>1. SUFFICES ASSUME k = 0 PROVE FALSE
    OBVIOUS
  <2> DEFINE f == [i \in 0..0 |-> 0]
  <2>2. f \in [0..0 -> Nat] /\ Summed(0, f)
    OBVIOUS
  <2> QED  BY <1>4, <2>1, <2>2
<1>6. k - 1 \in 0..Len(txs) /\ k - 1 \notin Bad
  <2>1. k - 1 \in 0..Len(txs) /\ ~ (k <= k - 1)
    BY <1>1, <1>4, <1>5
  <2> QED  BY <1>3, <2>1
<1>7. PICK f \in [0..(k - 1) -> Nat] : Summed(k - 1, f)
  BY <1>6
<1> DEFINE g == [i \in 0..k |-> IF i = k THEN f[k - 1] + TxSize[txs[k]] ELSE f[i]]
<1>8. k \in 1..Len(txs) /\ k - 1 \in 0..(k - 1)
  BY <1>1, <1>4, <1>5
<1>9. g \in [0..k -> Nat]
  BY <1>1, <1>7, <1>8
<1>10. Summed(k, g)
  <2> TAKE i \in 0..k
  <2>1. CASE i = 0
    BY <1>7, <1>8, <2>1
  <2>2. CASE i # 0 /\ i # k
    <3>1. i \in 0..(k - 1) /\ i - 1 \in 0..(k - 1) /\ i - 1 \in 0..k /\ i - 1 # k
      BY <1>8, <2>2
    <3>2. g[i] = f[i] /\ g[i - 1] = f[i - 1]
      BY <2>2, <3>1
    <3>3. f[i] = f[i - 1] + TxSize[txs[i]]
      BY <1>7, <2>2, <3>1
    <3> QED  BY <2>2, <3>2, <3>3
  <2>3. CASE i # 0 /\ i = k
    <3>1. k - 1 \in 0..k /\ k - 1 # k
      BY <1>8
    <3>2. g[k - 1] = f[k - 1] /\ g[k] = f[k - 1] + TxSize[txs[k]]
      BY <1>8, <3>1
    <3> QED  BY <2>3, <3>2
  <2> QED  BY <2>1, <2>2, <2>3
<1> HIDE DEF g
<1> QED  BY <1>4, <1>9, <1>10

\* Two functions of partial sums of one sequence agree.
LEMMA SumsUnique ==
  ASSUME NEW txs \in Seq(1..MaxTx), NEW f, NEW g, Sums(f, txs), Sums(g, txs),
         NEW n \in 0..Len(txs)
  PROVE  f[n] = g[n]
<1> DEFINE Bad == {k \in 0..Len(txs) : f[k] # g[k]}
<1>1. Len(txs) \in Nat
  OBVIOUS
<1>2. /\ \A i \in 0..Len(txs) : f[i] = IF i = 0 THEN 0 ELSE f[i - 1] + TxSize[txs[i]]
      /\ \A i \in 0..Len(txs) : g[i] = IF i = 0 THEN 0 ELSE g[i - 1] + TxSize[txs[i]]
  BY Zenon DEF Sums
<1>3. SUFFICES ASSUME Bad # {} PROVE FALSE
  OBVIOUS
<1>4. PICK k \in Bad : \A j \in Bad : k <= j
  <2>1. Bad \subseteq Nat
    BY <1>1
  <2> HIDE DEF Bad
  <2> QED  BY <1>3, <2>1, LeastNatural
<1>5. k \in 0..Len(txs) /\ f[k] # g[k]
  OBVIOUS
<1>6. k # 0
  BY <1>2, <1>5
<1>7. k - 1 \in 0..Len(txs) /\ k - 1 \notin Bad
  <2>1. k - 1 \in 0..Len(txs) /\ ~ (k <= k - 1)
    BY <1>1, <1>5, <1>6
  <2> QED  BY <1>4, <2>1
<1>8. f[k - 1] = g[k - 1]
  BY <1>7
<1> QED  BY <1>2, <1>5, <1>6, <1>8

\* No transactions have no bytes.
LEMMA SizeOfNothing == Size(<<>>) = 0
<1>1. Sums([i \in 0..0 |-> 0], <<>>)
  BY DEF Sums
<1>2. Sums(CHOOSE f : Sums(f, <<>>), <<>>)
  BY <1>1
<1>3. 0 \in 0..Len(<<>>) /\ Len(<<>>) = 0 /\ <<>> \in Seq(1..MaxTx)
  OBVIOUS
<1>4. (CHOOSE f : Sums(f, <<>>))[0] = [i \in 0..0 |-> 0][0]
  BY <1>1, <1>2, <1>3, SumsUnique
<1> QED  BY <1>3, <1>4, SizeIsSum

\* One more transaction adds its bytes.
LEMMA SizeOfAppend ==
  ASSUME NEW txs \in Seq(1..MaxTx), NEW tx \in 1..MaxTx
  PROVE  /\ Size(txs) \in Nat
         /\ Size(Append(txs, tx)) = Size(txs) + TxSize[tx]
<1>1. ASSUME NEW s \in Seq(1..MaxTx), NEW f \in [0..Len(s) -> Nat],
             \A i \in 0..Len(s) : f[i] = IF i = 0 THEN 0 ELSE f[i - 1] + TxSize[s[i]]
      PROVE  Size(s) = f[Len(s)]
  <2>1. Sums(f, s)
    BY <1>1 DEF Sums
  <2>2. Sums(CHOOSE h : Sums(h, s), s)
    BY <2>1
  <2>3. Len(s) \in 0..Len(s)
    OBVIOUS
  <2>4. (CHOOSE h : Sums(h, s))[Len(s)] = f[Len(s)]
    BY <2>1, <2>2, <2>3, SumsUnique
  <2> QED  BY <2>4, SizeIsSum
<1>2. ASSUME NEW s \in Seq(1..MaxTx)
      PROVE  \E f \in [0..Len(s) -> Nat] :
               /\ \A i \in 0..Len(s) : f[i] = IF i = 0 THEN 0 ELSE f[i - 1] + TxSize[s[i]]
               /\ Size(s) = f[Len(s)]
  <2>1. Len(s) \in 0..Len(s)
    OBVIOUS
  <2>2. PICK f \in [0..Len(s) -> Nat] :
          \A i \in 0..Len(s) : f[i] = IF i = 0 THEN 0 ELSE f[i - 1] + TxSize[s[i]]
    BY <2>1, SumsOfPrefix
  <2> QED  BY <1>1, <2>2
<1> DEFINE k == Len(txs)
           more == Append(txs, tx)
<1>3. /\ k \in Nat /\ more \in Seq(1..MaxTx) /\ Len(more) = k + 1
      /\ \A i \in 1..k : more[i] = txs[i]
      /\ more[k + 1] = tx
  OBVIOUS
<1>4. PICK g \in [0..Len(more) -> Nat] :
        /\ \A i \in 0..Len(more) : g[i] = IF i = 0 THEN 0 ELSE g[i - 1] + TxSize[more[i]]
        /\ Size(more) = g[Len(more)]
  <2> HIDE DEF more
  <2> QED  BY <1>2, <1>3
<1> HIDE DEF k, more
<1>5. g[k + 1] = g[k] + TxSize[tx]
  <2>1. k + 1 \in 0..(k + 1) /\ k + 1 # 0 /\ (k + 1) - 1 = k
    BY <1>3
  <2> QED  BY <1>3, <1>4, <2>1
<1> DEFINE f == [i \in 0..k |-> g[i]]
<1>6. Size(txs) = f[k] /\ f[k] = g[k] /\ g[k] \in Nat
  <2>1. k \in 0..k /\ 0..k \subseteq 0..(k + 1)
    BY <1>3
  <2>2. f \in [0..k -> Nat] /\ f[k] = g[k] /\ g[k] \in Nat
    BY <1>3, <1>4, <2>1
  <2>3. ASSUME NEW i \in 0..k
        PROVE  f[i] = IF i = 0 THEN 0 ELSE f[i - 1] + TxSize[txs[i]]
    <3>1. i \in 0..(k + 1) /\ (i # 0 => i - 1 \in 0..k /\ i \in 1..k)
      BY <1>3
    <3>2. g[i] = IF i = 0 THEN 0 ELSE g[i - 1] + TxSize[more[i]]
      BY <1>3, <1>4, <3>1
    <3> QED  BY <1>3, <3>1, <3>2
  <2> HIDE DEF f
  <2> QED  BY <1>1, <2>2, <2>3 DEF k
<1> QED  BY <1>3, <1>4, <1>5, <1>6 DEF more

-----------------------------------------------------------------------------
(* Flat sequences.                                                         *)

\* The function whose last value is FlattenSeq.
Flattens(f, ss) ==
  f = [i \in 1..Len(ss) |-> IF i = 1 THEN ss[i] ELSE f[i - 1] \o ss[i]]

\* Its first n values.
FlattensTo(n, f, ss) ==
  \A i \in 1..n : f[i] = IF i = 1 THEN ss[i] ELSE f[i - 1] \o ss[i]

LEMMA FlattenIsLast ==
  ASSUME NEW ss, Len(ss) # 0
  PROVE  FlattenSeq(ss) = (CHOOSE f : Flattens(f, ss))[Len(ss)]
BY DEF FlattenSeq, Flattens

\* There is one such function for all sequences of sequences.
LEMMA FlattensPrefix ==
  ASSUME NEW S, NEW ss \in Seq(Seq(S)), NEW n \in 0..Len(ss)
  PROVE  \E f \in [1..n -> Seq(S)] : FlattensTo(n, f, ss)
<1> DEFINE Flat(k, f) == FlattensTo(k, f, ss)
           Bad == {k \in 0..Len(ss) : ~ \E f \in [1..k -> Seq(S)] : Flat(k, f)}
<1>1. Len(ss) \in Nat /\ \A i \in 1..Len(ss) : ss[i] \in Seq(S)
  OBVIOUS
<1>2. SUFFICES ASSUME Bad # {} PROVE FALSE
  OBVIOUS
<1>3. PICK k \in Bad : \A j \in Bad : k <= j
  <2>1. Bad \subseteq Nat
    BY <1>1
  <2> HIDE DEF Bad
  <2> QED  BY <1>2, <2>1, LeastNatural
<1>4. k \in 0..Len(ss) /\ ~ \E f \in [1..k -> Seq(S)] : Flat(k, f)
  OBVIOUS
<1>5. k # 0
  <2>1. SUFFICES ASSUME k = 0 PROVE FALSE
    OBVIOUS
  <2> DEFINE f == [i \in 1..0 |-> <<>>]
  <2>2. f \in [1..0 -> Seq(S)] /\ Flat(0, f)
    BY DEF FlattensTo
  <2> QED  BY <1>4, <2>1, <2>2
<1>6. k - 1 \in 0..Len(ss) /\ k - 1 \notin Bad
  <2>1. k - 1 \in 0..Len(ss) /\ ~ (k <= k - 1)
    BY <1>1, <1>4, <1>5
  <2> QED  BY <1>3, <2>1
<1>7. PICK f \in [1..(k - 1) -> Seq(S)] : Flat(k - 1, f)
  BY <1>6
<1> DEFINE last == IF k = 1 THEN ss[k] ELSE f[k - 1] \o ss[k]
           g == [i \in 1..k |-> IF i = k THEN last ELSE f[i]]
<1>8. k \in 1..Len(ss) /\ (k # 1 => k - 1 \in 1..(k - 1))
  BY <1>1, <1>4, <1>5
<1>9. last \in Seq(S)
  <2>1. k # 1 => f[k - 1] \in Seq(S)
    BY <1>7, <1>8
  <2>2. k # 1 => f[k - 1] \o ss[k] \in Seq(S)
    BY <1>1, <1>8, <2>1, ConcatProperties
  <2> QED  BY <1>1, <1>8, <2>2
<1>10. g \in [1..k -> Seq(S)]
  <2> HIDE DEF last
  <2>1. ASSUME NEW i \in 1..k PROVE i # k => i \in 1..(k - 1)
    BY <1>8
  <2> QED  BY <1>7, <1>9, <2>1
<1>11. Flat(k, g)
  <2> SUFFICES ASSUME NEW i \in 1..k
               PROVE  g[i] = IF i = 1 THEN ss[i] ELSE g[i - 1] \o ss[i]
    BY DEF FlattensTo
  <2>1. CASE i = k
    <3>1. k # 1 => k - 1 \in 1..k /\ k - 1 # k
      BY <1>8
    <3>2. k # 1 => g[k - 1] = f[k - 1]
      BY <3>1
    <3> QED  BY <2>1, <3>2
  <2>2. CASE i # k
    <3>1. i \in 1..(k - 1) /\ (i # 1 => i - 1 \in 1..k /\ i - 1 # k)
      BY <1>8, <2>2
    <3>2. g[i] = f[i] /\ (i # 1 => g[i - 1] = f[i - 1])
      BY <2>2, <3>1
    <3>3. f[i] = IF i = 1 THEN ss[i] ELSE f[i - 1] \o ss[i]
      BY <1>7, <3>1 DEF FlattensTo
    <3> QED  BY <3>2, <3>3
  <2> QED  BY <2>1, <2>2
<1> HIDE DEF g
<1> QED  BY <1>4, <1>10, <1>11

\* Two such functions of one sequence agree.
LEMMA FlattensUnique ==
  ASSUME NEW S, NEW ss \in Seq(Seq(S)), NEW f, NEW g, Flattens(f, ss), Flattens(g, ss),
         NEW n \in 1..Len(ss)
  PROVE  f[n] = g[n]
<1> DEFINE Bad == {k \in 1..Len(ss) : f[k] # g[k]}
<1>1. Len(ss) \in Nat
  OBVIOUS
<1>2. /\ \A i \in 1..Len(ss) : f[i] = IF i = 1 THEN ss[i] ELSE f[i - 1] \o ss[i]
      /\ \A i \in 1..Len(ss) : g[i] = IF i = 1 THEN ss[i] ELSE g[i - 1] \o ss[i]
  BY Zenon DEF Flattens
<1>3. SUFFICES ASSUME Bad # {} PROVE FALSE
  OBVIOUS
<1>4. PICK k \in Bad : \A j \in Bad : k <= j
  <2>1. Bad \subseteq Nat
    BY <1>1
  <2> HIDE DEF Bad
  <2> QED  BY <1>3, <2>1, LeastNatural
<1>5. k \in 1..Len(ss) /\ f[k] # g[k]
  OBVIOUS
<1>6. k # 1
  BY <1>2, <1>5
<1>7. k - 1 \in 1..Len(ss) /\ k - 1 \notin Bad
  <2>1. k - 1 \in 1..Len(ss) /\ ~ (k <= k - 1)
    BY <1>1, <1>5, <1>6
  <2> QED  BY <1>4, <2>1
<1>8. f[k - 1] = g[k - 1]
  BY <1>7
<1> QED  BY <1>2, <1>5, <1>6, <1>8, Zenon

\* One more sequence comes behind what the others make.
LEMMA FlattenOfAppend ==
  ASSUME NEW S, NEW ss \in Seq(Seq(S)), NEW s \in Seq(S)
  PROVE  /\ FlattenSeq(ss) \in Seq(S)
         /\ FlattenSeq(Append(ss, s)) = FlattenSeq(ss) \o s
<1>1. ASSUME NEW tt \in Seq(Seq(S)), Len(tt) # 0, NEW f \in [1..Len(tt) -> Seq(S)],
             FlattensTo(Len(tt), f, tt)
      PROVE  FlattenSeq(tt) = f[Len(tt)]
  <2>1. Flattens(f, tt)
    BY <1>1, Zenon DEF Flattens, FlattensTo
  <2>2. Flattens(CHOOSE h : Flattens(h, tt), tt)
    BY <2>1
  <2>3. Len(tt) \in 1..Len(tt)
    BY <1>1
  <2>4. (CHOOSE h : Flattens(h, tt))[Len(tt)] = f[Len(tt)]
    BY <2>1, <2>2, <2>3, FlattensUnique
  <2> QED  BY <1>1, <2>4, FlattenIsLast
<1> DEFINE k == Len(ss)
           more == Append(ss, s)
<1>2. /\ k \in Nat /\ more \in Seq(Seq(S)) /\ Len(more) = k + 1
      /\ \A i \in 1..k : more[i] = ss[i]
      /\ more[k + 1] = s
  BY AppendProperties, LenProperties
<1>3. PICK g \in [1..(k + 1) -> Seq(S)] : FlattensTo(k + 1, g, more)
  <2>1. k + 1 \in 0..Len(more)
    BY <1>2
  <2> HIDE DEF more, k
  <2> QED  BY <1>2, <2>1, FlattensPrefix
<1>4. FlattenSeq(more) = g[k + 1]
  <2> HIDE DEF more, k
  <2>1. Len(more) # 0
    BY <1>2
  <2> QED  BY <1>1, <1>2, <1>3, <2>1
<1>5. CASE k = 0
  <2>1. ss = <<>> /\ FlattenSeq(ss) = <<>>
    <3>1. ss = <<>>
      BY <1>5, EmptySeq
    <3> QED  BY <1>5, <3>1 DEF FlattenSeq
  <2>2. <<>> \in Seq(S) /\ <<>> \o s = s
    BY ConcatEmptySeq, EmptySeq
  <2>3. g[k + 1] = s
    <3> HIDE DEF more, k
    <3>1. k + 1 = 1 /\ 1 \in 1..(k + 1)
      BY <1>5
    <3> QED  BY <1>2, <1>3, <3>1 DEF FlattensTo
  <2> QED  BY <1>4, <2>1, <2>2, <2>3
<1>6. CASE k # 0
  <2> DEFINE f == [i \in 1..k |-> g[i]]
  <2> HIDE DEF more, k
  <2>1. k \in 1..k /\ k \in 1..(k + 1) /\ k + 1 \in 1..(k + 1) /\ k + 1 # 1 /\ (k + 1) - 1 = k
    BY <1>2, <1>6
  <2>2. g[k + 1] = g[k] \o s /\ g[k] \in Seq(S)
    BY <1>2, <1>3, <2>1 DEF FlattensTo
  <2>3. f \in [1..k -> Seq(S)] /\ f[k] = g[k]
    <3>1. \A i \in 1..k : i \in 1..(k + 1)
      BY <1>2
    <3> QED  BY <1>3, <2>1, <3>1
  <2>4. FlattensTo(k, f, ss)
    <3> SUFFICES ASSUME NEW i \in 1..k
                 PROVE  f[i] = IF i = 1 THEN ss[i] ELSE f[i - 1] \o ss[i]
      BY DEF FlattensTo
    <3>1. i \in 1..(k + 1) /\ (i # 1 => i - 1 \in 1..k)
      BY <1>2
    <3>2. g[i] = IF i = 1 THEN more[i] ELSE g[i - 1] \o more[i]
      BY <1>3, <3>1 DEF FlattensTo
    <3> QED  BY <1>2, <3>1, <3>2
  <2> HIDE DEF f
  <2>5. FlattenSeq(ss) = f[k]
    BY <1>1, <1>6, <2>3, <2>4 DEF k
  <2> QED  BY <1>4, <2>2, <2>3, <2>5 DEF more
<1> QED  BY <1>5, <1>6

-----------------------------------------------------------------------------
(* Sequences.                                                              *)

\* Taking the first of one queue to the end of another moves no element.
LEMMA MoveFirst ==
  ASSUME NEW S, NEW s \in Seq(S), NEW t \in Seq(S), t # <<>>
  PROVE  /\ Head(t) \in S /\ Tail(t) \in Seq(S) /\ Len(Tail(t)) = Len(t) - 1
         /\ Append(s, Head(t)) \in Seq(S) /\ Len(Append(s, Head(t))) = Len(s) + 1
         /\ Append(s, Head(t)) \o Tail(t) = s \o t
<1> DEFINE h == Head(t)
           r == Tail(t)
<1>1. /\ h \in S /\ r \in Seq(S) /\ Len(r) = Len(t) - 1
      /\ Append(s, h) \in Seq(S) /\ Len(Append(s, h)) = Len(s) + 1
  BY HeadTailProperties, AppendProperties
<1>2. t = <<h>> \o r
  <2>1. Len(t) \in Nat /\ 1 \in 1..Len(t) /\ Len(t) \in 1..Len(t)
    BY EmptySeq
  <2>2. SubSeq(t, 1, Len(t)) = t
    BY SubSeqFull
  <2>3. h = t[1] /\ r = SubSeq(t, 2, Len(t))
    BY TailIsSubSeq
  <2>4. SubSeq(t, 1, Len(t)) = <<t[1]>> \o SubSeq(t, 1 + 1, Len(t))
    BY <2>1, SubSeqRecursiveFirst
  <2>5. 1 + 1 = 2
    OBVIOUS
  <2> HIDE DEF h, r
  <2> QED  BY <2>2, <2>3, <2>4, <2>5
<1>3. <<h>> \in Seq(S) /\ Append(s, h) = s \o <<h>>
  BY <1>1, AppendIsConcat
<1> HIDE DEF h, r
<1>4. (s \o <<h>>) \o r = s \o (<<h>> \o r)
  BY <1>1, <1>3, ConcatAssociative
<1> QED  BY <1>1, <1>2, <1>3, <1>4 DEF h, r

\* An element behind the second of two queues is behind both.
LEMMA AppendBehind ==
  ASSUME NEW S, NEW s \in Seq(S), NEW t \in Seq(S), NEW e \in S
  PROVE  s \o Append(t, e) = Append(s \o t, e)
<1>1. Append(t, e) = t \o <<e>> /\ <<e>> \in Seq(S) /\ s \o t \in Seq(S)
  BY AppendIsConcat, ConcatProperties
<1>2. Append(s \o t, e) = (s \o t) \o <<e>>
  BY <1>1, AppendIsConcat
<1> QED  BY <1>1, <1>2, ConcatAssociative

\* The first n + 1 numbers.
LEMMA CountOneMore ==
  ASSUME NEW n \in Nat
  PROVE  [i \in 1..(n + 1) |-> i] = Append([i \in 1..n |-> i], n + 1)
<1> DEFINE c == [i \in 1..n |-> i]
           d == [i \in 1..(n + 1) |-> i]
<1>1. c \in Seq(Nat) /\ d \in Seq(Nat) /\ Len(c) = n /\ Len(d) = n + 1 /\ n + 1 \in Nat
  OBVIOUS
<1>2. \A i \in 1..(n + 1) : d[i] = IF i = n + 1 THEN n + 1 ELSE c[i]
  OBVIOUS
<1> HIDE DEF c, d
<1>3. Append(c, n + 1) \in Seq(Nat) /\ Len(Append(c, n + 1)) = n + 1
  BY <1>1, AppendProperties
<1>4. \A i \in 1..(n + 1) : Append(c, n + 1)[i] = d[i]
  BY <1>1, <1>2, AppendProperties
<1> QED  BY <1>1, <1>3, <1>4, SeqEqual DEF c, d

-----------------------------------------------------------------------------
(* The types.                                                              *)

\* The numbers the types are about.
LEMMA Lengths ==
  ASSUME TypeOK
  PROVE  /\ MaxTx \in Nat /\ arrived \in Nat
         /\ Len(sealed) \in Nat /\ Len(current_batch) \in Nat /\ Len(rx_transaction) \in Nat
         /\ Len(sealed) <= MaxTx /\ 1..Len(sealed) \subseteq Batch
         /\ \A tx \in Tx : TxSize[tx] \in Nat \ {0}
<1>1. MaxTx \in Nat /\ \A tx \in Tx : TxSize[tx] \in Nat \ {0}
  <2>1. TxSize \in Seq(Nat \ {0})
    BY MempoolAssumption
  <2> QED  BY <2>1, LenProperties, ElementOfSeq DEF MaxTx, Tx
<1>2. Len(sealed) \in Nat /\ Len(current_batch) \in Nat /\ Len(rx_transaction) \in Nat
  BY LenProperties DEF TypeOK
<1>3. arrived \in Nat /\ arrived <= MaxTx
  BY <1>1 DEF TypeOK
<1>4. Len(sealed) <= MaxTx
  BY <1>1, <1>2, <1>3 DEF TypeOK
<1> QED  BY <1>1, <1>2, <1>3, <1>4 DEF Batch

LEMMA InitType == Init => TypeOK
<1> SUFFICES ASSUME Init PROVE TypeOK
  OBVIOUS
<1>1. MaxTx \in Nat
  BY MempoolAssumption DEF MaxTx
<1>2. \A S : <<>> \in Seq(S)
  BY EmptySeq
<1>3. Len(<<>>) = 0 /\ \A S : <<>> \in Seq(S)
  BY <1>2, EmptySeq
<1>4. handles \in [Peer -> [Batch -> Handle]] /\ got \in [Peer -> SUBSET Batch]
  BY DEF Init, Handle
<1> QED  BY <1>1, <1>3, <1>4 DEF Init, TypeOK

\* What sealing some transactions leaves.
LEMMA SealType ==
  ASSUME TypeOK, NEW txs \in Seq(Tx), NEW size, seal(txs, size)
  PROVE  /\ sealed' = Append(sealed, txs)
         /\ sealed' \in Seq(Seq(Tx)) /\ Len(sealed') = Len(sealed) + 1
         /\ outbox' = Len(sealed) + 1
         /\ current_batch' = <<>> /\ current_batch_size' = 0
         /\ current_batch' \in Seq(Tx) /\ Len(current_batch') = 0
         /\ handles' \in [Peer -> [Batch -> Handle]]
         /\ \A p \in Peer, b \in Batch :
              handles'[p][b] = IF b = Len(sealed) + 1 THEN "waiting" ELSE handles[p][b]
<1>1. sealed' = Append(sealed, txs) /\ sealed' \in Seq(Seq(Tx)) /\ Len(sealed') = Len(sealed) + 1
  BY AppendProperties DEF seal, TypeOK
<1>2. /\ outbox' = Len(sealed) + 1
      /\ current_batch' = <<>> /\ current_batch_size' = 0
      /\ current_batch' \in Seq(Tx) /\ Len(current_batch') = 0
  BY EmptySeq DEF seal, size_reset
<1>3. handles' = [p \in Peer |-> [handles[p] EXCEPT ![Len(sealed) + 1] = "waiting"]]
  BY DEF seal
<1>4. handles \in [Peer -> [Batch -> Handle]] /\ "waiting" \in Handle
  BY DEF TypeOK, Handle
<1> QED  BY <1>1, <1>2, <1>3, <1>4

\* Sequences of batches stay so when more is sealed.
LEMMA MoreBatches ==
  ASSUME NEW k \in Nat, NEW s \in Seq(1..k)
  PROVE  s \in Seq(1..(k + 1))
<1>1. 1..k \subseteq 1..(k + 1)
  OBVIOUS
<1> QED  BY <1>1, SeqMonotonic

\* A peer's handles change one at a time, or for one batch.
LEMMA TypeStep == TypeOK /\ [Next]_vars => TypeOK'
<1> SUFFICES ASSUME TypeOK, [Next]_vars PROVE TypeOK'
  OBVIOUS
<1> DEFINE k == Len(sealed)
<1>1. /\ MaxTx \in Nat /\ arrived \in Nat /\ arrived <= MaxTx
      /\ k \in Nat /\ Len(current_batch) \in Nat /\ Len(rx_transaction) \in Nat
      /\ k + Len(current_batch) + Len(rx_transaction) <= arrived
      /\ \A tx \in Tx : TxSize[tx] \in Nat
  BY Lengths DEF TypeOK
<1> HIDE DEF k
<1>2. /\ rx_message \in Seq(1..k) /\ rx_batch \in Seq(1..k) /\ announced \in Seq(1..k)
      /\ outbox \in 0..k /\ waiting_for \in 0..k /\ store \subseteq 1..k
  BY DEF TypeOK, k
<1>3. CASE Transaction
  <2>1. arrived' = arrived + 1 /\ arrived' \in 0..MaxTx /\ arrived + 1 \in Tx
    BY <1>1, <1>3 DEF Transaction, Tx
  <2>2. rx_transaction' \in Seq(Tx) /\ Len(rx_transaction') = Len(rx_transaction) + 1
    BY <1>3, <2>1, AppendProperties DEF Transaction, TypeOK
  <2>3. Len(sealed) + Len(current_batch) + Len(rx_transaction') <= arrived'
    BY <1>1, <2>1, <2>2 DEF k
  <2> QED  BY <1>3, <2>1, <2>2, <2>3 DEF Transaction, waiter, links, TypeOK
<1>4. ASSUME NEW txs \in Seq(Tx), NEW size, seal(txs, size),
             Len(rx_transaction') + 1 <= Len(rx_transaction) + Len(current_batch),
             rx_transaction' \in Seq(Tx),
             UNCHANGED <<arrived, rx_message, waiter, rx_batch, store, announced, got>>
      PROVE  TypeOK'
  <2>1. /\ sealed' \in Seq(Seq(Tx)) /\ Len(sealed') = k + 1 /\ outbox' = k + 1
        /\ current_batch' \in Seq(Tx) /\ Len(current_batch') = 0 /\ current_batch_size' = 0
        /\ handles' \in [Peer -> [Batch -> Handle]]
    BY <1>4, SealType DEF k
  <2>2. /\ rx_message \in Seq(1..(k + 1)) /\ rx_batch \in Seq(1..(k + 1))
        /\ announced \in Seq(1..(k + 1))
    BY <1>1, <1>2, MoreBatches
  <2>3. outbox' \in 0..(k + 1) /\ waiting_for \in 0..(k + 1) /\ store \subseteq 1..(k + 1)
    BY <1>1, <1>2, <2>1
  <2>4. Len(rx_transaction') \in Nat
    BY <1>4, LenProperties
  <2>5. Len(sealed') + Len(current_batch') + Len(rx_transaction') <= arrived
    BY <1>1, <1>4, <2>1, <2>4
  <2> QED  BY <1>4, <2>1, <2>2, <2>3, <2>5 DEF TypeOK, waiter
<1>5. CASE Collect
  <2> DEFINE txs  == Append(current_batch, Head(rx_transaction))
             size == current_batch_size + TxSize[Head(rx_transaction)]
  <2>1. /\ rx_transaction' = Tail(rx_transaction)
        /\ Head(rx_transaction) \in Tx
        /\ rx_transaction' \in Seq(Tx) /\ Len(rx_transaction') = Len(rx_transaction) - 1
        /\ txs \in Seq(Tx) /\ Len(txs) = Len(current_batch) + 1
    BY <1>5, MoveFirst DEF Collect, TypeOK
  <2>2. size \in Nat
    BY <1>1, <2>1 DEF TypeOK
  <2>3. UNCHANGED <<arrived, rx_message, waiter, rx_batch, store, announced, got>>
    BY <1>5 DEF Collect
  <2>4. CASE seal(txs, size)
    <3>1. Len(rx_transaction') + 1 <= Len(rx_transaction) + Len(current_batch)
      BY <1>1, <2>1
    <3> HIDE DEF txs, size
    <3> QED  BY <1>4, <2>1, <2>3, <2>4, <3>1
  <2>5. CASE /\ current_batch' = txs /\ current_batch_size' = size
             /\ UNCHANGED <<sealed, outbox, handles>>
    <3>1. Len(sealed) + Len(txs) + Len(rx_transaction') <= arrived
      BY <1>1, <2>1 DEF k
    <3> HIDE DEF txs, size
    <3> QED  BY <2>1, <2>2, <2>3, <2>5, <3>1 DEF TypeOK, waiter
  <2> QED  BY <1>5, <2>4, <2>5 DEF Collect
<1>6. CASE SealOnTimer
  <2>1. current_batch \in Seq(Tx) /\ Len(current_batch) >= 1
    <3>1. current_batch \in Seq(Tx) /\ current_batch # <<>>
      BY <1>6 DEF SealOnTimer, due, TypeOK
    <3> QED  BY <1>1, <3>1, EmptySeq
  <2>2. /\ seal(current_batch, current_batch_size)
        /\ UNCHANGED <<arrived, rx_transaction, rx_message, waiter, rx_batch,
                       store, announced, got>>
    BY <1>6 DEF SealOnTimer
  <2>3. Len(rx_transaction') + 1 <= Len(rx_transaction) + Len(current_batch)
    BY <1>1, <2>1, <2>2
  <2>4. rx_transaction' \in Seq(Tx)
    BY <2>2 DEF TypeOK
  <2> QED  BY <1>4, <2>1, <2>2, <2>3, <2>4
<1>7. CASE HandOn
  <2>1. outbox \in 1..k
    BY <1>1, <1>2, <1>7 DEF HandOn
  <2>2. rx_message' \in Seq(1..k)
    BY <1>2, <1>7, <2>1, AppendProperties DEF HandOn
  <2>3. outbox' \in 0..k
    BY <1>1, <1>7 DEF HandOn
  <2> QED  BY <1>7, <2>2, <2>3 DEF HandOn, waiter, links, TypeOK, k
<1>8. CASE TakeBatch
  <2>1. Head(rx_message) \in 1..k /\ rx_message' \in Seq(1..k)
    BY <1>2, <1>8, HeadTailProperties DEF TakeBatch
  <2>2. waiting_for' \in 0..k /\ acks' \subseteq Peer
    BY <1>1, <1>8, <2>1 DEF TakeBatch
  <2> QED  BY <1>8, <2>1, <2>2 DEF TakeBatch, maker, links, TypeOK, k
<1>9. ASSUME NEW p \in Peer, CountAck(p) PROVE TypeOK'
  <2>1. waiting_for \in 1..k
    BY <1>1, <1>2, <1>9 DEF CountAck
  <2>2. CASE acks' = acks \union {p} /\ UNCHANGED <<waiting_for, rx_batch, handles>>
    BY <1>9, <2>2 DEF CountAck, maker, TypeOK
  <2>3. CASE /\ rx_batch' = Append(rx_batch, waiting_for)
             /\ waiting_for' = 0 /\ acks' = {}
             /\ handles' = [q \in Peer |->
                  [handles[q] EXCEPT ![waiting_for] = IF @ = "waiting" THEN "cancelled" ELSE @]]
    <3>1. rx_batch' \in Seq(1..k)
      BY <1>2, <2>1, <2>3, AppendProperties
    <3>2. waiting_for' \in 0..k /\ acks' \subseteq Peer
      BY <1>1, <2>3
    <3>3. handles' \in [Peer -> [Batch -> Handle]]
      <4>1. handles \in [Peer -> [Batch -> Handle]] /\ "cancelled" \in Handle
        BY DEF TypeOK, Handle
      <4> QED  BY <2>3, <4>1
    <3> QED  BY <1>9, <3>1, <3>2, <3>3 DEF CountAck, maker, TypeOK, k
  <2> QED  BY <1>9, <2>2, <2>3 DEF CountAck
<1>10. CASE Process
  <2>1. Head(rx_batch) \in 1..k /\ rx_batch' \in Seq(1..k)
    BY <1>2, <1>10, HeadTailProperties DEF Process
  <2>2. announced' \in Seq(1..k) /\ store' \subseteq 1..k
    BY <1>2, <1>10, <2>1, AppendProperties DEF Process
  <2> QED  BY <1>10, <2>1, <2>2 DEF Process, maker, waiter, links, TypeOK, k
<1>11. ASSUME NEW p \in Peer, NEW b \in Batch, Link(p, b) PROVE TypeOK'
  <2>1. got' \in [Peer -> SUBSET Batch] /\ handles' \in [Peer -> [Batch -> Handle]]
    <3>1. handles \in [Peer -> [Batch -> Handle]] /\ got \in [Peer -> SUBSET Batch]
          /\ "acked" \in Handle
      BY DEF TypeOK, Handle
    <3> QED  BY <1>11, <3>1 DEF Link, Arrive, Acknowledge
  <2>2. UNCHANGED <<maker, rx_message, waiter, rx_batch, store, announced>>
    BY <1>11 DEF Link, Arrive, Acknowledge
  <2> QED  BY <2>1, <2>2 DEF maker, waiter, TypeOK
<1>12. CASE UNCHANGED vars
  BY <1>12 DEF vars, maker, waiter, links, TypeOK
<1> QED  BY <1>3, <1>5, <1>6, <1>7, <1>8, <1>9, <1>10, <1>11, <1>12 DEF Next

\* The state keeps its types; in particular there is a slot of every link for
\* every batch, and the tasks hold only batches that were sealed.
THEOREM MempoolTypes == Spec => []TypeOK
BY InitType, TypeStep, PTL DEF Spec

-----------------------------------------------------------------------------
(* From the client to the batches.                                         *)

Count(n) == [i \in 1..n |-> i]

\* The transactions of the batches, then those collected, then those that
\* wait are all that arrived; the size kept is that of those collected.
MakerInv == TypeOK /\ TransactionsOnce /\ SizeCounted

LEMMA InitMaker == Init => MakerInv
<1> SUFFICES ASSUME Init PROVE MakerInv
  OBVIOUS
<1>1. /\ sealed = <<>> /\ current_batch = <<>> /\ rx_transaction = <<>>
      /\ arrived = 0 /\ current_batch_size = 0
  BY DEF Init
<1>2. <<>> \o <<>> = <<>> /\ FlattenSeq(<<>>) = <<>>
  BY ConcatEmptySeq, EmptySeq DEF FlattenSeq
<1>3. [i \in 1..0 |-> i] = <<>>
  OBVIOUS
<1> QED  BY <1>1, <1>2, <1>3, SizeOfNothing, InitType DEF MakerInv, TransactionsOnce, SizeCounted

\* Sealing the transactions collected, the next one included or not.
LEMMA SealMaker ==
  ASSUME MakerInv, NEW txs \in Seq(Tx), NEW size, seal(txs, size)
  PROVE  /\ FlattenSeq(sealed') \o current_batch' = FlattenSeq(sealed) \o txs
         /\ SizeCounted'
<1>1. TypeOK /\ sealed \in Seq(Seq(Tx)) /\ <<>> \in Seq(Tx)
  BY EmptySeq DEF MakerInv, TypeOK
<1>2. /\ sealed' = Append(sealed, txs)
      /\ current_batch' = <<>> /\ current_batch_size' = 0
  BY <1>1, SealType
<1>3. FlattenSeq(sealed) \in Seq(Tx) /\ FlattenSeq(sealed') = FlattenSeq(sealed) \o txs
  BY <1>1, <1>2, FlattenOfAppend
<1>4. FlattenSeq(sealed) \o txs \in Seq(Tx)
  BY <1>3, ConcatProperties
<1>5. (FlattenSeq(sealed) \o txs) \o <<>> = FlattenSeq(sealed) \o txs
  BY <1>4, ConcatEmptySeq
<1> QED  BY <1>2, <1>3, <1>5, SizeOfNothing DEF SizeCounted

LEMMA MakerStep == MakerInv /\ [Next]_vars => MakerInv'
<1> SUFFICES ASSUME MakerInv, [Next]_vars PROVE MakerInv'
  OBVIOUS
<1> DEFINE flat == FlattenSeq(sealed)
<1>1. /\ TypeOK /\ TypeOK'
      /\ current_batch \in Seq(Tx) /\ rx_transaction \in Seq(Tx)
      /\ sealed \in Seq(Seq(Tx)) /\ arrived \in Nat
      /\ current_batch_size = Size(current_batch)
  BY TypeStep, Lengths DEF MakerInv, TypeOK, SizeCounted
<1>2. flat \in Seq(Tx) /\ flat \o current_batch \in Seq(Tx)
  BY <1>1, FlattenOfAppend, ConcatProperties
<1>3. (flat \o current_batch) \o rx_transaction = Count(arrived)
  BY DEF MakerInv, TransactionsOnce, Count
<1> HIDE DEF flat
<1>4. CASE UNCHANGED <<arrived, rx_transaction, current_batch, current_batch_size, sealed>>
  BY <1>1, <1>4 DEF MakerInv, TransactionsOnce, SizeCounted
<1>5. CASE Transaction
  <2>1. /\ arrived' = arrived + 1 /\ rx_transaction' = Append(rx_transaction, arrived + 1)
        /\ UNCHANGED <<current_batch, current_batch_size, sealed>>
        /\ arrived + 1 \in Tx
    BY <1>1, <1>5 DEF Transaction, Tx, TypeOK
  <2>2. (flat \o current_batch) \o Append(rx_transaction, arrived + 1)
          = Append((flat \o current_batch) \o rx_transaction, arrived + 1)
    BY <1>1, <1>2, <2>1, AppendBehind
  <2>3. Count(arrived + 1) = Append(Count(arrived), arrived + 1)
    BY <1>1, CountOneMore DEF Count
  <2>4. TransactionsOnce'
    BY <1>3, <2>1, <2>2, <2>3 DEF TransactionsOnce, Count, flat
  <2>5. SizeCounted'
    BY <2>1 DEF MakerInv, SizeCounted
  <2> QED  BY <1>1, <2>4, <2>5 DEF MakerInv
<1>6. CASE Collect
  <2> DEFINE h    == Head(rx_transaction)
             txs  == Append(current_batch, h)
             size == current_batch_size + TxSize[h]
  <2>1. /\ rx_transaction # <<>> /\ rx_transaction' = Tail(rx_transaction)
        /\ arrived' = arrived
    BY <1>6 DEF Collect
  <2>2. h \in Tx /\ txs \in Seq(Tx) /\ flat \o txs = Append(flat \o current_batch, h)
    BY <1>1, <1>2, <2>1, MoveFirst, AppendBehind
  <2>3. (flat \o txs) \o Tail(rx_transaction) = (flat \o current_batch) \o rx_transaction
    <3> DEFINE both == flat \o current_batch
    <3>1. both \in Seq(Tx) /\ rx_transaction \in Seq(Tx) /\ rx_transaction # <<>>
      BY <1>1, <1>2, <2>1
    <3>2. flat \o txs = Append(both, h)
      BY <2>2
    <3> HIDE DEF both, txs, h
    <3>3. Append(both, Head(rx_transaction)) \o Tail(rx_transaction) = both \o rx_transaction
      BY <3>1, MoveFirst
    <3> QED  BY <3>2, <3>3 DEF both, h
  <2>4. CASE seal(txs, size)
    <3> HIDE DEF txs, size
    <3>1. FlattenSeq(sealed') \o current_batch' = flat \o txs /\ SizeCounted'
      BY <2>2, <2>4, SealMaker DEF flat
    <3>2. TransactionsOnce'
      BY <1>3, <2>1, <2>3, <3>1 DEF TransactionsOnce, Count
    <3> QED  BY <1>1, <3>1, <3>2 DEF MakerInv
  <2>5. CASE /\ ~ (size >= batch_size)
             /\ current_batch' = txs /\ current_batch_size' = size
             /\ UNCHANGED sealed
    <3>1. TransactionsOnce'
      BY <1>3, <2>1, <2>3, <2>5 DEF TransactionsOnce, Count, flat
    <3>2. Size(txs) = size
      BY <1>1, <2>2, SizeOfAppend DEF Tx
    <3>3. size \in Nat /\ batch_size \in Nat
      <4>1. TxSize[h] \in Nat /\ current_batch_size \in Nat
        <5>1. h \in Tx /\ \A tx \in Tx : TxSize[tx] \in Nat \ {0}
          BY <1>1, <2>2, Lengths
        <5> QED  BY <1>1, <5>1 DEF TypeOK
      <4> QED  BY <4>1, MempoolAssumption
    <3> HIDE DEF txs, size
    <3>4. SizeCounted'
      BY <2>5, <3>2, <3>3 DEF SizeCounted
    <3> QED  BY <1>1, <3>1, <3>4 DEF MakerInv
  <2> QED  BY <1>6, <2>4, <2>5 DEF Collect
<1>7. CASE SealOnTimer
  <2>1. /\ seal(current_batch, current_batch_size)
        /\ rx_transaction' = rx_transaction /\ arrived' = arrived
    BY <1>7 DEF SealOnTimer
  <2>2. FlattenSeq(sealed') \o current_batch' = flat \o current_batch /\ SizeCounted'
    BY <1>1, <2>1, SealMaker DEF flat
  <2>3. TransactionsOnce'
    BY <1>3, <2>1, <2>2 DEF TransactionsOnce, Count
  <2> QED  BY <1>1, <2>2, <2>3 DEF MakerInv
<1>8. CASE HandOn
  BY <1>4, <1>8 DEF HandOn
<1>9. CASE \/ TakeBatch \/ Process \/ \E p \in Peer : CountAck(p) \/ \E b \in Batch : Link(p, b)
  <2>1. UNCHANGED maker
    BY <1>9 DEF TakeBatch, Process, CountAck, Link, Arrive, Acknowledge
  <2> QED  BY <1>4, <2>1 DEF maker
<1>10. CASE UNCHANGED vars
  BY <1>4, <1>10 DEF vars, maker
<1> QED  BY <1>5, <1>6, <1>7, <1>8, <1>9, <1>10 DEF Next

\* BatchMaker::run and seal: no transaction of a client is lost, doubled or
\* reordered on its way into the batches.
THEOREM EveryTransactionInOneBatch == Spec => []TransactionsOnce
<1>1. MakerInv => TransactionsOnce
  BY DEF MakerInv
<1> QED  BY <1>1, InitMaker, MakerStep, PTL DEF Spec

\* BatchMaker::run: the size kept is that of the transactions collected, and a
\* batch is sealed as soon as it reaches batch_size.
THEOREM SizeAlwaysCounted == Spec => []SizeCounted
<1>1. MakerInv => SizeCounted
  BY DEF MakerInv
<1> QED  BY <1>1, InitMaker, MakerStep, PTL DEF Spec

-----------------------------------------------------------------------------
(* From the batch maker to the consensus.                                  *)

\* What the place of one batch holds.
Slot(b) == IF b = 0 THEN <<>> ELSE <<b>>

\* The batches announced, then those in the hands of the processor, the quorum
\* waiter and the batch maker, are those sealed.
LEMMA BatchesInOrder ==
  BatchesOnce <=>
    (((announced \o rx_batch) \o Slot(waiting_for)) \o rx_message) \o Slot(outbox)
      = Count(Len(sealed))
BY DEF BatchesOnce, Slot, Count

LEMMA SlotType ==
  ASSUME NEW b \in Nat
  PROVE  Slot(b) \in Seq(Nat)
BY DEF Slot

LEMMA BatchesStep ==
  ASSUME Peer # {}
  PROVE  TypeOK /\ BatchesOnce /\ [Next]_vars => BatchesOnce'
<1> SUFFICES ASSUME TypeOK, BatchesOnce, [Next]_vars PROVE BatchesOnce'
  OBVIOUS
<1> DEFINE k == Len(sealed)
           A == announced
           B == rx_batch
           W == Slot(waiting_for)
           M == rx_message
           O == Slot(outbox)
<1>1. k \in Nat /\ outbox \in Nat /\ waiting_for \in Nat
  BY Lengths DEF TypeOK
<1>2. /\ A \in Seq(Nat) /\ B \in Seq(Nat) /\ M \in Seq(Nat)
      /\ W \in Seq(Nat) /\ O \in Seq(Nat) /\ <<>> \in Seq(Nat)
  <2>1. A \in Seq(1..k) /\ B \in Seq(1..k) /\ M \in Seq(1..k)
    BY DEF TypeOK
  <2>2. 1..k \subseteq Nat
    OBVIOUS
  <2> QED  BY <1>1, <2>1, <2>2, SeqMonotonic, SlotType, EmptySeq
<1>3. /\ A \o B \in Seq(Nat) /\ (A \o B) \o W \in Seq(Nat)
      /\ ((A \o B) \o W) \o M \in Seq(Nat)
  <2> HIDE DEF A, B, W, M
  <2>1. A \o B \in Seq(Nat)
    BY <1>2, ConcatProperties
  <2>2. (A \o B) \o W \in Seq(Nat)
    BY <1>2, <2>1, ConcatProperties
  <2> QED  BY <1>2, <2>1, <2>2, ConcatProperties
<1>4. (((A \o B) \o W) \o M) \o O = Count(k)
  BY BatchesInOrder
<1>5. SUFFICES (((A' \o B') \o W') \o M') \o O' = Count(k')
  <2>1. BatchesOnce' <=>
          ((((announced \o rx_batch) \o Slot(waiting_for)) \o rx_message) \o Slot(outbox)
            = Count(Len(sealed)))'
    BY BatchesInOrder, PTL
  <2> QED  BY <1>5, <2>1
<1>6. CASE UNCHANGED <<announced, rx_batch, waiting_for, rx_message, outbox, sealed>>
  BY <1>4, <1>6
<1>7. ASSUME NEW txs \in Seq(Tx), NEW size, seal(txs, size), outbox = 0,
             UNCHANGED <<announced, rx_batch, waiting_for, rx_message>>
      PROVE  (((A' \o B') \o W') \o M') \o O' = Count(k')
  <2> DEFINE X == ((A \o B) \o W) \o M
  <2>1. k' = k + 1 /\ outbox' = k + 1
    BY <1>7, SealType
  <2>2. X = Count(k) /\ X \in Seq(Nat)
    <3>1. O = <<>>
      BY <1>7 DEF Slot
    <3>2. X \o O = Count(k) /\ X \in Seq(Nat)
      BY <1>3, <1>4
    <3> HIDE DEF X, O
    <3> QED  BY <3>1, <3>2, ConcatEmptySeq
  <2>3. ((A' \o B') \o W') \o M' = X
    BY <1>7
  <2>4. O' = <<k + 1>> /\ k + 1 \in Nat
    BY <1>1, <2>1 DEF Slot
  <2>5. Append(X, k + 1) = X \o <<k + 1>>
    <3> HIDE DEF X
    <3> QED  BY <2>2, <2>4, AppendIsConcat
  <2>6. Count(k + 1) = Append(Count(k), k + 1)
    <3> HIDE DEF k
    <3> QED  BY <1>1, CountOneMore DEF Count
  <2> HIDE DEF X, A, B, W, M, O, k
  <2> QED  BY <2>1, <2>2, <2>3, <2>4, <2>5, <2>6
<1>8. CASE Collect
  <2> DEFINE txs  == Append(current_batch, Head(rx_transaction))
             size == current_batch_size + TxSize[Head(rx_transaction)]
  <2>1. txs \in Seq(Tx)
    BY <1>8, MoveFirst DEF Collect, TypeOK
  <2>2. /\ outbox = 0 /\ UNCHANGED <<announced, rx_batch, waiting_for, rx_message>>
        /\ seal(txs, size) \/ UNCHANGED <<sealed, outbox>>
    BY <1>8 DEF Collect, waiter
  <2> HIDE DEF txs, size
  <2> QED  BY <1>6, <1>7, <2>1, <2>2
<1>9. CASE SealOnTimer
  <2>1. /\ seal(current_batch, current_batch_size) /\ outbox = 0
        /\ UNCHANGED <<announced, rx_batch, waiting_for, rx_message>>
    BY <1>9 DEF SealOnTimer, waiter
  <2>2. current_batch \in Seq(Tx)
    BY DEF TypeOK
  <2> QED  BY <1>7, <2>1, <2>2
<1>10. CASE HandOn
  <2> DEFINE Y == (A \o B) \o W
  <2>1. /\ outbox # 0 /\ rx_message' = Append(rx_message, outbox) /\ outbox' = 0
        /\ UNCHANGED <<announced, rx_batch, waiting_for, sealed>>
    BY <1>10 DEF HandOn, waiter
  <2>2. O = <<outbox>> /\ O' = <<>> /\ M' = Append(M, outbox) /\ k' = k
        /\ (A' \o B') \o W' = Y
    BY <2>1 DEF Slot
  <2>3. Y \in Seq(Nat)
    BY <1>3
  <2>4. (Y \o M) \o O = Count(k)
    BY <1>4
  <2> HIDE DEF Y, A, B, W, M, O, k
  <2>5. Y \o Append(M, outbox) = Append(Y \o M, outbox) /\ Y \o M \in Seq(Nat)
    BY <1>1, <1>2, <2>3, AppendBehind, ConcatProperties
  <2>6. Append(Y \o M, outbox) = (Y \o M) \o <<outbox>> /\ Append(Y \o M, outbox) \in Seq(Nat)
    BY <1>1, <2>5, AppendIsConcat, AppendProperties
  <2>7. Append(Y \o M, outbox) \o <<>> = Append(Y \o M, outbox)
    BY <2>6, ConcatEmptySeq
  <2> QED  BY <2>2, <2>4, <2>5, <2>6, <2>7
<1>11. CASE TakeBatch
  <2> DEFINE Z == A \o B
             h == Head(M)
  <2>1. /\ waiting_for = 0 /\ rx_message # <<>>
        /\ waiting_for' = Head(rx_message) /\ rx_message' = Tail(rx_message)
        /\ UNCHANGED <<announced, rx_batch, outbox, sealed>>
    BY <1>11 DEF TakeBatch, maker
  <2>2. Head(rx_message) \in 1..k
    BY <2>1, HeadTailProperties DEF TypeOK
  <2>3. /\ W = <<>> /\ W' = <<h>> /\ M' = Tail(M) /\ O' = O /\ k' = k
        /\ A' \o B' = Z /\ h \in Nat /\ M # <<>>
    BY <2>1, <2>2 DEF Slot
  <2>4. Z \in Seq(Nat)
    BY <1>3
  <2>5. ((Z \o W) \o M) \o O = Count(k)
    BY <1>4
  <2> HIDE DEF Z, A, B, W, M, O, k
  <2>6. Append(Z, h) \o Tail(M) = Z \o M
    <3>1. M \in Seq(Nat) /\ M # <<>>
      BY <1>2, <2>3
    <3> QED  BY <2>4, <3>1, MoveFirst
  <2>7. Z \o <<h>> = Append(Z, h) /\ Z \o <<>> = Z
    BY <2>3, <2>4, AppendIsConcat, ConcatEmptySeq
  <2> HIDE DEF h
  <2> QED  BY <2>3, <2>5, <2>6, <2>7
<1>12. ASSUME NEW p \in Peer, CountAck(p)
       PROVE  (((A' \o B') \o W') \o M') \o O' = Count(k')
  <2>1. waiting_for # 0 /\ UNCHANGED <<announced, rx_message, outbox, sealed>>
    BY <1>12 DEF CountAck, maker
  <2>2. CASE UNCHANGED <<waiting_for, rx_batch>>
    BY <1>6, <2>1, <2>2
  <2>3. CASE rx_batch' = Append(rx_batch, waiting_for) /\ waiting_for' = 0
    <3> DEFINE w == waiting_for
    <3>1. /\ W = <<w>> /\ W' = <<>> /\ B' = Append(B, w)
          /\ A' = A /\ M' = M /\ O' = O /\ k' = k /\ w \in Nat
      BY <1>1, <2>1, <2>3 DEF Slot
    <3>2. (((A \o B) \o W) \o M) \o O = Count(k)
      BY <1>4
    <3> HIDE DEF A, B, W, M, O, k, w
    <3>3. A \o Append(B, w) = Append(A \o B, w) /\ A \o B \in Seq(Nat)
      BY <1>2, <1>3, <3>1, AppendBehind
    <3>4. Append(A \o B, w) = (A \o B) \o <<w>> /\ Append(A \o B, w) \in Seq(Nat)
      BY <3>1, <3>3, AppendIsConcat, AppendProperties
    <3>5. Append(A \o B, w) \o <<>> = Append(A \o B, w)
      BY <3>4, ConcatEmptySeq
    <3> QED  BY <3>1, <3>2, <3>3, <3>4, <3>5
  <2> QED  BY <1>12, <2>2, <2>3 DEF CountAck
<1>13. CASE Process
  <2>1. /\ rx_batch # <<>> /\ announced' = Append(announced, Head(rx_batch))
        /\ rx_batch' = Tail(rx_batch)
        /\ UNCHANGED <<waiting_for, rx_message, outbox, sealed>>
    BY <1>13 DEF Process, maker, waiter
  <2>2. A' = Append(A, Head(B)) /\ B' = Tail(B) /\ B # <<>>
        /\ W' = W /\ M' = M /\ O' = O /\ k' = k
    BY <2>1
  <2>3. (((A \o B) \o W) \o M) \o O = Count(k)
    BY <1>4
  <2> HIDE DEF A, B, W, M, O, k
  <2>4. Append(A, Head(B)) \o Tail(B) = A \o B
    BY <1>2, <2>2, MoveFirst
  <2> QED  BY <2>2, <2>3, <2>4
<1>14. CASE \E p \in Peer : \E b \in Batch : Link(p, b)
  BY <1>6, <1>14 DEF Link, Arrive, Acknowledge, maker, waiter
<1>15. CASE Transaction
  BY <1>6, <1>15 DEF Transaction, waiter
<1>16. CASE UNCHANGED vars
  BY <1>6, <1>16 DEF vars, maker, waiter
<1> QED  BY <1>8, <1>9, <1>10, <1>11, <1>12, <1>13, <1>14, <1>15, <1>16 DEF Next

\* BatchMaker::seal, QuorumWaiter::run and Processor: in a committee of more
\* than one no batch is lost, doubled or reordered before it is announced.
THEOREM EveryBatchAnnouncedOnce ==
  ASSUME Peer # {}
  PROVE  Spec => []BatchesOnce
<1>1. Init => BatchesOnce
  <2> SUFFICES ASSUME Init PROVE BatchesOnce
    OBVIOUS
  <2>1. /\ announced = <<>> /\ rx_batch = <<>> /\ rx_message = <<>>
        /\ Slot(waiting_for) = <<>> /\ Slot(outbox) = <<>> /\ Len(sealed) = 0
    BY DEF Init, Slot
  <2>2. <<>> \o <<>> = <<>> /\ Count(0) = <<>>
    BY ConcatEmptySeq, EmptySeq DEF Count
  <2> QED  BY <2>1, <2>2, BatchesInOrder
<1>2. TypeOK /\ BatchesOnce /\ [Next]_vars => BatchesOnce'
  BY BatchesStep
<1> QED  BY <1>1, <1>2, InitType, TypeStep, PTL DEF Spec

-----------------------------------------------------------------------------
(* Nothing is announced that a quorum does not hold.                       *)

LEMMA MembersOfConcat ==
  ASSUME NEW S, NEW s \in Seq(S), NEW t \in Seq(S)
  PROVE  ToSet(s \o t) = ToSet(s) \union ToSet(t)
<1>1. \A f : ToSet(f) = Range(f)
  BY DEF Range, ToSet
<1>2. Range(s \o t) = Range(s) \union Range(t)
  BY RangeConcatenation
<1> QED  BY <1>1, <1>2

LEMMA MembersOfAppend ==
  ASSUME NEW S, NEW s \in Seq(S), NEW e \in S
  PROVE  ToSet(Append(s, e)) = ToSet(s) \union {e}
<1>1. <<e>> \in Seq(S) /\ ToSet(<<e>>) = {e}
  BY DEF ToSet
<1>2. Append(s, e) = s \o <<e>>
  BY AppendIsConcat
<1> DEFINE t == <<e>>
<1>3. t \in Seq(S) /\ ToSet(t) = {e} /\ Append(s, e) = s \o t
  BY <1>1, <1>2
<1> HIDE DEF t
<1>4. ToSet(s \o t) = ToSet(s) \union ToSet(t)
  BY <1>3, MembersOfConcat
<1> QED  BY <1>3, <1>4

LEMMA MembersOfTail ==
  ASSUME NEW S, NEW s \in Seq(S), s # <<>>
  PROVE  Head(s) \in ToSet(s) /\ ToSet(Tail(s)) \subseteq ToSet(s)
<1>1. Len(s) \in Nat \ {0} /\ DOMAIN s = 1..Len(s)
  BY EmptySeq
<1>2. Head(s) = s[1] /\ 1 \in DOMAIN s
  BY <1>1, HeadTailProperties
<1>3. ASSUME NEW i \in DOMAIN Tail(s) PROVE Tail(s)[i] = s[i + 1] /\ i + 1 \in DOMAIN s
  BY <1>1, HeadTailProperties
<1> QED  BY <1>2, <1>3 DEF ToSet

\* Who holds a batch, as far as the faulty may be believed.
Holders(b) == {p \in Peer : b \in got[p]} \union Faulty \union {self}

\* An honest peer acknowledges only what it got, and the quorum waiter counts
\* only the acknowledgements of the batch it waits for.
AcksAreTrue ==
  /\ \A p \in Peer \ Faulty, b \in Batch : handles[p][b] = "acked" => b \in got[p]
  /\ waiting_for # 0 => \A p \in acks : handles[p][waiting_for] = "acked"

QuorumInv == TypeOK /\ AcksAreTrue /\ AnnouncedAtQuorum

\* The batches on their way from the quorum waiter to the consensus.
LEMMA ReleasedMembers ==
  ASSUME TypeOK
  PROVE  AnnouncedAtQuorum <=>
           \A b \in ToSet(rx_batch) \union ToSet(announced) : IsQuorum(Holders(b))
<1>1. rx_batch \in Seq(1..Len(sealed)) /\ announced \in Seq(1..Len(sealed))
  BY DEF TypeOK
<1>2. ToSet(rx_batch \o announced) = ToSet(rx_batch) \union ToSet(announced)
  BY <1>1, MembersOfConcat
<1> QED  BY <1>2 DEF AnnouncedAtQuorum, Holders

LEMMA AcksStep == TypeOK /\ AcksAreTrue /\ [Next]_vars => AcksAreTrue'
<1> SUFFICES ASSUME TypeOK, AcksAreTrue, [Next]_vars PROVE AcksAreTrue'
  OBVIOUS
<1>1. /\ handles \in [Peer -> [Batch -> Handle]] /\ got \in [Peer -> SUBSET Batch]
      /\ acks \subseteq Peer
      /\ Len(sealed) \in Nat /\ waiting_for \in 0..Len(sealed)
      /\ waiting_for # 0 => waiting_for \in Batch
  <2>1. Len(sealed) \in Nat /\ 1..Len(sealed) \subseteq Batch
    BY Lengths
  <2>2. /\ handles \in [Peer -> [Batch -> Handle]] /\ got \in [Peer -> SUBSET Batch]
        /\ acks \subseteq Peer /\ waiting_for \in 0..Len(sealed)
    BY DEF TypeOK
  <2> QED  BY <2>1, <2>2
<1>2. CASE UNCHANGED <<handles, got, waiting_for, acks>>
  <2>1. handles' = handles /\ got' = got /\ waiting_for' = waiting_for /\ acks' = acks
    BY <1>2
  <2> QED  BY <2>1 DEF AcksAreTrue
<1>3. ASSUME NEW txs \in Seq(Tx), NEW size, seal(txs, size), UNCHANGED <<got, waiting_for, acks>>
      PROVE  AcksAreTrue'
  <2>1. \A p \in Peer, b \in Batch :
          handles'[p][b] = IF b = Len(sealed) + 1 THEN "waiting" ELSE handles[p][b]
    BY <1>3, SealType
  <2>2. waiting_for # 0 => \A p \in acks : handles'[p][waiting_for] = handles[p][waiting_for]
    BY <1>1, <2>1
  <2> QED  BY <1>1, <1>3, <2>1, <2>2 DEF AcksAreTrue
<1>4. CASE Collect
  <2> DEFINE txs  == Append(current_batch, Head(rx_transaction))
             size == current_batch_size + TxSize[Head(rx_transaction)]
  <2>1. txs \in Seq(Tx)
    BY <1>4, MoveFirst DEF Collect, TypeOK
  <2>2. UNCHANGED <<got, waiting_for, acks>> /\ (seal(txs, size) \/ handles' = handles)
    BY <1>4 DEF Collect, waiter
  <2> HIDE DEF txs, size
  <2> QED  BY <1>2, <1>3, <2>1, <2>2
<1>5. CASE SealOnTimer
  BY <1>3, <1>5 DEF SealOnTimer, waiter, TypeOK
<1>6. CASE Transaction \/ HandOn \/ Process \/ UNCHANGED vars
  BY <1>2, <1>6 DEF Transaction, HandOn, Process, vars, waiter, links
<1>7. CASE TakeBatch
  BY <1>7 DEF TakeBatch, AcksAreTrue, links
<1>8. ASSUME NEW p \in Peer, CountAck(p) PROVE AcksAreTrue'
  <2>1. /\ waiting_for # 0 /\ handles[p][waiting_for] = "acked" /\ got' = got
    BY <1>8 DEF CountAck
  <2>2. CASE acks' = acks \union {p} /\ UNCHANGED <<waiting_for, handles>>
    BY <2>1, <2>2 DEF AcksAreTrue
  <2>3. CASE /\ waiting_for' = 0
             /\ handles' = [q \in Peer |->
                  [handles[q] EXCEPT ![waiting_for] = IF @ = "waiting" THEN "cancelled" ELSE @]]
    <3>1. ASSUME NEW q \in Peer, NEW b \in Batch, handles'[q][b] = "acked"
          PROVE  handles[q][b] = "acked"
      BY <1>1, <2>3, <3>1
    <3> QED  BY <2>1, <2>3, <3>1 DEF AcksAreTrue
  <2> QED  BY <1>8, <2>2, <2>3 DEF CountAck
<1>9. ASSUME NEW p \in Peer, NEW b \in Batch, Link(p, b) PROVE AcksAreTrue'
  <2>1. CASE Arrive(p, b)
    <3>1. /\ UNCHANGED <<handles, waiting_for, acks>>
          /\ \A q \in Peer : got[q] \subseteq got'[q]
      BY <1>1, <2>1 DEF Arrive, waiter
    <3> QED  BY <3>1 DEF AcksAreTrue
  <2>2. CASE Acknowledge(p, b)
    <3>1. /\ UNCHANGED <<got, waiting_for, acks>>
          /\ b \in got[p] \/ p \in Faulty
          /\ \A q \in Peer, c \in Batch :
               handles'[q][c] = IF q = p /\ c = b THEN "acked" ELSE handles[q][c]
      BY <1>1, <2>2 DEF Acknowledge, waiter
    <3> QED  BY <1>1, <3>1 DEF AcksAreTrue
  <2> QED  BY <1>9, <2>1, <2>2 DEF Link
<1> QED  BY <1>4, <1>5, <1>6, <1>7, <1>8, <1>9 DEF Next

LEMMA QuorumStep == QuorumInv /\ [Next]_vars => QuorumInv'
<1> SUFFICES ASSUME QuorumInv, [Next]_vars PROVE QuorumInv'
  OBVIOUS
<1>1. /\ TypeOK /\ TypeOK' /\ AcksAreTrue /\ AcksAreTrue'
      /\ rx_batch \in Seq(1..Len(sealed)) /\ announced \in Seq(1..Len(sealed))
      /\ got \in [Peer -> SUBSET Batch]
  BY TypeStep, AcksStep DEF QuorumInv, TypeOK
<1> DEFINE released == ToSet(rx_batch) \union ToSet(announced)
<1>2. \A b \in released : IsQuorum(Holders(b))
  BY <1>1, ReleasedMembers DEF QuorumInv
<1>3. SUFFICES \A b \in released' : IsQuorum(Holders(b)')
  <2>1. (AnnouncedAtQuorum <=>
           \A b \in ToSet(rx_batch) \union ToSet(announced) : IsQuorum(Holders(b)))'
    BY <1>1, ReleasedMembers, PTL
  <2> QED  BY <1>1, <1>3, <2>1 DEF QuorumInv
<1>4. \A p \in Peer : got[p] \subseteq got'[p]
  BY <1>1 DEF Next, Transaction, Collect, SealOnTimer, HandOn, TakeBatch, CountAck, Process,
              Link, Arrive, Acknowledge, vars, links
<1>5. \A b : Holders(b) \subseteq Holders(b)'
  BY <1>4 DEF Holders
<1>6. \A b : IsQuorum(Holders(b)) => IsQuorum(Holders(b)')
  BY <1>5, QuorumMonotone
<1>7. CASE released' \subseteq released
  BY <1>2, <1>6, <1>7
<1>8. ASSUME NEW p \in Peer, CountAck(p) PROVE \A b \in released' : IsQuorum(Holders(b)')
  <2>1. waiting_for # 0 /\ handles[p][waiting_for] = "acked" /\ announced' = announced
    BY <1>8 DEF CountAck
  <2>2. CASE UNCHANGED rx_batch
    BY <1>7, <2>1, <2>2
  <2>3. CASE rx_batch' = Append(rx_batch, waiting_for) /\ enough(acks \union {p})
    <3>1. waiting_for \in 1..Len(sealed) /\ waiting_for \in Batch /\ acks \subseteq Peer
      <4>1. waiting_for \in 0..Len(sealed) /\ acks \subseteq Peer
        BY <1>1 DEF TypeOK
      <4>2. Len(sealed) \in Nat /\ 1..Len(sealed) \subseteq Batch
        BY <1>1, Lengths
      <4> QED  BY <2>1, <4>1, <4>2
    <3>2. released' = released \union {waiting_for}
      <4>1. ToSet(Append(rx_batch, waiting_for)) = ToSet(rx_batch) \union {waiting_for}
        BY <1>1, <3>1, MembersOfAppend
      <4> QED  BY <2>1, <2>3, <4>1
    <3>3. \A q \in acks \union {p} : q \in Faulty \/ waiting_for \in got[q]
      BY <1>1, <2>1, <3>1 DEF AcksAreTrue
    <3>4. acks \union {p} \union {self} \subseteq Holders(waiting_for)
      BY <3>1, <3>3 DEF Holders
    <3>5. IsQuorum(Holders(waiting_for))
      BY <2>3, <3>4, QuorumMonotone DEF enough
    <3> QED  BY <1>2, <1>6, <3>2, <3>5
  <2> QED  BY <1>8, <2>2, <2>3 DEF CountAck
<1>9. CASE Process
  <2>1. /\ rx_batch # <<>> /\ announced' = Append(announced, Head(rx_batch))
        /\ rx_batch' = Tail(rx_batch)
    BY <1>9 DEF Process
  <2>2. /\ Head(rx_batch) \in 1..Len(sealed) /\ Head(rx_batch) \in ToSet(rx_batch)
        /\ ToSet(rx_batch') \subseteq ToSet(rx_batch)
    BY <1>1, <2>1, HeadTailProperties, MembersOfTail
  <2>3. ToSet(announced') = ToSet(announced) \union {Head(rx_batch)}
    BY <1>1, <2>1, <2>2, MembersOfAppend
  <2> QED  BY <1>7, <2>2, <2>3
<1>10. CASE UNCHANGED <<rx_batch, announced>>
  BY <1>7, <1>10
<1>11. CASE \/ Transaction \/ Collect \/ SealOnTimer \/ HandOn \/ TakeBatch
            \/ \E p \in Peer : \E b \in Batch : Link(p, b)
            \/ UNCHANGED vars
  BY <1>10, <1>11 DEF Transaction, Collect, SealOnTimer, HandOn, TakeBatch,
                      Link, Arrive, Acknowledge, vars
<1> QED  BY <1>8, <1>9, <1>11 DEF Next

\* QuorumWaiter::run and Processor: what is announced to the consensus is held
\* by a quorum, this node and the faulty ones counted in.
THEOREM AnnouncedHeldByQuorum == Spec => []AnnouncedAtQuorum
<1>1. Init => QuorumInv
  <2> SUFFICES ASSUME Init PROVE QuorumInv
    OBVIOUS
  <2>1. TypeOK
    BY InitType
  <2>2. ToSet(rx_batch) = {} /\ ToSet(announced) = {}
    BY DEF Init, ToSet
  <2>3. AnnouncedAtQuorum
    BY <2>1, <2>2, ReleasedMembers
  <2>4. AcksAreTrue
    BY DEF Init, AcksAreTrue
  <2> QED  BY <2>1, <2>3, <2>4 DEF QuorumInv
<1>2. QuorumInv => AnnouncedAtQuorum
  BY DEF QuorumInv
<1> QED  BY <1>1, <1>2, QuorumStep, PTL DEF Spec
=============================================================================
