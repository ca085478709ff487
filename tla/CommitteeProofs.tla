--------------------------- MODULE CommitteeProofs ---------------------------
(***************************************************************************)
(* What the stakes and the quorum threshold of a committee guarantee, for  *)
(* every committee, after the principle that stands in for induction on    *)
(* the naturals in all proofs: a nonempty set of them has a least element. *)
(***************************************************************************)
EXTENDS Committee, FiniteSetTheorems, WellFoundedInduction, TLAPS

\* "Less than" on the naturals, as a relation.
LessThan == {ss \in Nat \X Nat : ss[1] < ss[2]}

\* A nonempty set of naturals has a least element.
LEMMA LeastNatural ==
  ASSUME NEW T, T \subseteq Nat, T # {}
  PROVE  \E x \in T : \A y \in T : x <= y
<1>1. IsWellFoundedOn(LessThan, Nat)
  BY NatLessThanWellFounded DEF OpToRel, LessThan
<1>2. PICK x \in T : \A y \in T : ~ (<<y, x>> \in LessThan)
  BY <1>1, WFMin
<1>3. ASSUME NEW y \in T, ~ (x <= y) PROVE FALSE
  <2>1. <<y, x>> \in Nat \X Nat /\ <<y, x>>[1] < <<y, x>>[2]
    BY <1>3
  <2>2. <<y, x>> \in LessThan
    BY <2>1, Zenon DEF LessThan
  <2> QED  BY <2>2, <1>2
<1> QED  BY <1>3

\* The units behind a set of authorities.
Backing(S) == {u \in Units : owner[u] \in S}

\* The weight of a set of authorities is a number no larger than the total.
LEMMA WeightType ==
  ASSUME NEW S
  PROVE  /\ IsFiniteSet(Backing(S))
         /\ Weight(S) = Cardinality(Backing(S))
         /\ Weight(S) \in Nat
         /\ Weight(S) <= total_votes
         /\ total_votes \in Nat
<1>1. Backing(S) \subseteq Units  BY DEF Backing
<1>2. IsFiniteSet(Units)  BY UnitsAssumption
<1>3. IsFiniteSet(Backing(S)) /\ Cardinality(Backing(S)) <= Cardinality(Units)
  BY <1>1, <1>2, FS_Subset
<1>4. Cardinality(Backing(S)) \in Nat /\ Cardinality(Units) \in Nat
  BY <1>2, <1>3, FS_CardinalityType
<1> QED  BY <1>3, <1>4 DEF Weight, Backing, total_votes

\* A larger set weighs no less.
LEMMA WeightMonotone ==
  ASSUME NEW S, NEW T, S \subseteq T
  PROVE  Weight(S) <= Weight(T)
<1>1. Backing(S) \subseteq Backing(T)  BY DEF Backing
<1> QED  BY <1>1, WeightType, FS_Subset

\* Stakes add up: two sets weigh together what their union and their
\* intersection weigh.
LEMMA WeightUnion ==
  ASSUME NEW S, NEW T
  PROVE  Weight(S \union T) + Weight(S \intersect T) = Weight(S) + Weight(T)
<1> DEFINE U == S \union T
           I == S \intersect T
<1>1. Backing(U) = Backing(S) \union Backing(T)  BY DEF Backing
<1>2. Backing(I) = Backing(S) \intersect Backing(T)  BY DEF Backing
<1>3. Cardinality(Backing(S) \union Backing(T)) =
        Cardinality(Backing(S)) + Cardinality(Backing(T))
          - Cardinality(Backing(S) \intersect Backing(T))
  BY WeightType, FS_Union
<1>4. Cardinality(Backing(U)) =
        Cardinality(Backing(S)) + Cardinality(Backing(T)) - Cardinality(Backing(I))
  BY <1>1, <1>2, <1>3, Zenon
<1> HIDE DEF U, I
<1>5. Weight(U) + Weight(I) = Weight(S) + Weight(T)
  BY <1>4, WeightType
<1> QED  BY <1>5 DEF U, I

\* The comment of quorum_threshold (config.rs:68): with N = 3f + 1 + k stakes,
\* 0 <= k < 3, the threshold is N - f.
THEOREM ThresholdIsAllButF ==
  ASSUME total_votes > 0
  PROVE  /\ quorum_threshold = total_votes - max_faulty
         /\ total_votes \in {3 * max_faulty + 1 + k : k \in 0..2}
<1>1. total_votes \in Nat  BY WeightType
<1> QED  BY <1>1 DEF quorum_threshold, max_faulty

\* Two quorums have an honest authority in common (QC::verify and TC::verify
\* rely on it): what the faulty may weigh is less than any two quorums share.
THEOREM QuorumIntersection ==
  ASSUME NEW P \in SUBSET Authority, NEW Q \in SUBSET Authority,
         IsQuorum(P), IsQuorum(Q), FaultBound
  PROVE  \E a \in P \intersect Q : a \in Honest
<1> DEFINE I == P \intersect Q
<1>1. /\ Weight(P) \in Nat /\ Weight(Q) \in Nat /\ Weight(I) \in Nat
      /\ Weight(P \union Q) <= total_votes /\ Weight(P \union Q) \in Nat
      /\ Weight(P) <= total_votes /\ total_votes \in Nat
      /\ Weight(Faulty) \in Nat
  BY WeightType
<1>2. Weight(P \union Q) + Weight(I) = Weight(P) + Weight(Q)
  BY WeightUnion
<1>3. Weight(I) > max_faulty
  BY <1>1, <1>2 DEF IsQuorum, quorum_threshold, max_faulty
<1>4. SUFFICES ASSUME \A a \in I : a \in Faulty PROVE FALSE
  BY DEF Honest
<1>5. Weight(I) <= Weight(Faulty)
  BY <1>4, WeightMonotone
<1> QED  BY <1>1, <1>3, <1>5 DEF FaultBound, max_faulty

\* A set that holds a quorum is one.
LEMMA QuorumMonotone ==
  ASSUME NEW P, NEW Q, P \subseteq Q, IsQuorum(P)
  PROVE  IsQuorum(Q)
<1>1. total_votes \in Nat /\ Weight(P) \in Nat /\ Weight(Q) \in Nat  BY WeightType
<1> QED  BY <1>1, WeightMonotone DEF IsQuorum, quorum_threshold

\* The faulty authorities alone are no quorum.
LEMMA FaultyAreNoQuorum ==
  ASSUME FaultBound, total_votes > 0
  PROVE  ~IsQuorum(Faulty)
<1>1. total_votes \in Nat /\ Weight(Faulty) \in Nat  BY WeightType
<1> QED  BY <1>1 DEF IsQuorum, quorum_threshold, max_faulty, FaultBound
=============================================================================
