------------------------------ MODULE QueryProofs ------------------------------
(***************************************************************************)
(* Proofs about what answers a question is given: the retrieval of the     *)
(* context, the block of evidence, and the agent that refines it.          *)
(*                                                                         *)
(* Evidence: for any number of context items and turns, any scores and     *)
(* configurations, and any behaviour of the search and of the reranker,    *)
(* nothing is cited twice, the slots go to the best, what the reranker     *)
(* picks is shown, and narrowing only drops.                               *)
(*                                                                         *)
(* AgentFilter: for any conversation, replies, limits and failures, the    *)
(* agent is given up for the reasons its code names and no other, and the  *)
(* context that is handed back is sound.                                   *)
(*                                                                         *)
(* Retrieval: for any graph, stores, weights, scores, settings and         *)
(* failures, the graph walk and the ranking leave what they were to find,  *)
(* and trace, rows and verdicts say what happened.                         *)
(***************************************************************************)
EXTENDS Evidence, AgentFilter, Retrieval, SequenceTheorems, FiniteSetTheorems, WellFoundedInduction, TLAPS

-------------------------------------------------------------------------------
(* Places in an order.                                                     *)

\* R orders the places P, of which there are finitely many.
Linear(P, R) ==
    /\ IsFiniteSet(P)
    /\ \A i, j \in P : i # j <=> <<i, j>> \in R \/ <<j, i>> \in R
    /\ \A i, j, k \in P : <<i, j>> \in R /\ <<j, k>> \in R => <<i, k>> \in R

Earlier(P, R, i) == {j \in P : <<j, i>> \in R}

LEMMA RankBound ==
  ASSUME NEW P, NEW R, Linear(P, R), NEW i \in P
  PROVE  /\ IsFiniteSet(Earlier(P, R, i)) /\ Cardinality(P) \in Nat \ {0}
         /\ Cardinality(Earlier(P, R, i)) \in 0 .. Cardinality(P) - 1
<1> DEFINE E == Earlier(P, R, i)
<1>1. E \in SUBSET P /\ i \notin E /\ IsFiniteSet(P)
  BY DEF Linear, Earlier
<1>2. IsFiniteSet(E) /\ Cardinality(E) <= Cardinality(P) /\ Cardinality(P) # Cardinality(E)
  <2>1. IsFiniteSet(E) /\ Cardinality(E) <= Cardinality(P) /\ (Cardinality(P) = Cardinality(E) => P = E)
    BY <1>1, FS_Subset
  <2> QED BY <1>1, <2>1
<1>3. Cardinality(E) \in Nat /\ Cardinality(P) \in Nat
  BY <1>1, <1>2, FS_CardinalityType
<1> HIDE DEF E
<1>4. Cardinality(P) # 0 /\ Cardinality(E) \in 0 .. Cardinality(P) - 1
  BY <1>2, <1>3
<1> QED BY <1>2, <1>3, <1>4 DEF E

LEMMA RankGrows ==
  ASSUME NEW P, NEW R, Linear(P, R), NEW i \in P, NEW j \in P, <<i, j>> \in R
  PROVE  Cardinality(Earlier(P, R, i)) < Cardinality(Earlier(P, R, j))
<1> DEFINE E == Earlier(P, R, i)
           F == Earlier(P, R, j)
<1>1. E \in SUBSET F /\ i \in F /\ i \notin E
  BY DEF Linear, Earlier
<1>2. IsFiniteSet(F) /\ Cardinality(F) \in Nat /\ Cardinality(E) \in Nat
  BY RankBound
<1>3. Cardinality(E) <= Cardinality(F) /\ (Cardinality(F) = Cardinality(E) => F = E)
  BY <1>1, <1>2, FS_Subset
<1>4. Cardinality(E) # Cardinality(F)
  BY <1>1, <1>3
<1> HIDE DEF E, F
<1>5. Cardinality(E) < Cardinality(F)
  BY <1>2, <1>3, <1>4
<1> QED BY <1>5 DEF E, F

\* Every number of a place's rank is that of one place.
LEMMA RankOnto ==
  ASSUME NEW P, NEW R, Linear(P, R), NEW k \in 1 .. Cardinality(P)
  PROVE  \E i \in P : Cardinality(Earlier(P, R, i)) = k - 1
<1> DEFINE n == Cardinality(P)
           T == 0 .. n - 1
           f == [i \in P |-> Cardinality(Earlier(P, R, i))]
<1>1. IsFiniteSet(P) /\ n \in Nat
  BY FS_CardinalityType DEF Linear
<1>2. IsFiniteSet(T) /\ Cardinality(T) = n
  <2> HIDE DEF n
  <2>1. n - 1 \in Int /\ 0 \in Int
    BY <1>1
  <2>2. IsFiniteSet(T) /\ Cardinality(T) = IF 0 > n - 1 THEN 0 ELSE n - 1 - 0 + 1
    BY <2>1, FS_Interval
  <2> QED BY <1>1, <2>2
<1>3. f \in Injection(P, T)
  <2>1. f \in [P -> T]
    BY RankBound
  <2>2. ASSUME NEW i \in P, NEW j \in P, f[i] = f[j] PROVE i = j
    <3>1. \A a, b \in P : <<a, b>> \in R => Cardinality(Earlier(P, R, a)) < Cardinality(Earlier(P, R, b))
      BY RankGrows
    <3>2. Cardinality(Earlier(P, R, i)) \in Nat /\ Cardinality(Earlier(P, R, i)) = Cardinality(Earlier(P, R, j))
      BY <2>2, RankBound
    <3>3. <<i, j>> \notin R /\ <<j, i>> \notin R
      BY <3>1, <3>2
    <3> QED BY <3>3 DEF Linear
  <2> QED BY <2>1, <2>2 DEF Injection, IsInjective
<1>4. f \in Surjection(P, T)
  BY <1>1, <1>2, <1>3, FS_Injection
<1>5. k - 1 \in T
  BY <1>1
<1> QED BY <1>4, <1>5 DEF Surjection

\* The k-th place has k - 1 before it, and every place is one of them.
LEMMA NthPlace ==
  ASSUME NEW P, NEW R, Linear(P, R)
  PROVE  /\ Cardinality(P) \in Nat
         /\ \A k \in 1 .. Cardinality(P) :
               Nth(P, R, k) \in P /\ Cardinality(Earlier(P, R, Nth(P, R, k))) = k - 1
         /\ \A i \in P : \E k \in 1 .. Cardinality(P) :
               k = Cardinality(Earlier(P, R, i)) + 1 /\ i = Nth(P, R, k)
         /\ \A k, l \in 1 .. Cardinality(P) : k < l <=> <<Nth(P, R, k), Nth(P, R, l)>> \in R
<1>0. IsFiniteSet(P) /\ Cardinality(P) \in Nat
  BY FS_CardinalityType DEF Linear
<1>1. ASSUME NEW k \in 1 .. Cardinality(P)
      PROVE  Nth(P, R, k) \in P /\ Cardinality(Earlier(P, R, Nth(P, R, k))) = k - 1
  <2>1. \E i \in P : Cardinality({j \in P : <<j, i>> \in R}) = k - 1
    BY RankOnto DEF Earlier
  <2> QED BY <2>1 DEF Nth, Earlier
<1>2. \A k, l \in 1 .. Cardinality(P) : <<Nth(P, R, k), Nth(P, R, l)>> \in R => k < l
  <2> TAKE k, l \in 1 .. Cardinality(P)
  <2>1. HAVE <<Nth(P, R, k), Nth(P, R, l)>> \in R
  <2>2. k - 1 < l - 1
    BY <1>1, <2>1, RankGrows
  <2> QED BY <1>0, <2>2
<1>3. ASSUME NEW i \in P
      PROVE  \E k \in 1 .. Cardinality(P) :
                k = Cardinality(Earlier(P, R, i)) + 1 /\ i = Nth(P, R, k)
  <2>1. Cardinality(Earlier(P, R, i)) \in 0 .. Cardinality(P) - 1
    BY RankBound
  <2>2. PICK k \in 1 .. Cardinality(P) :
                k = Cardinality(Earlier(P, R, i)) + 1 /\ k - 1 = Cardinality(Earlier(P, R, i))
    BY <1>0, <2>1
  <2> DEFINE m == Nth(P, R, k)
  <2>3. m \in P /\ Cardinality(Earlier(P, R, m)) = k - 1
    BY <1>1
  <2>4. \A a, b \in P : <<a, b>> \in R => Cardinality(Earlier(P, R, a)) < Cardinality(Earlier(P, R, b))
    BY RankGrows
  <2>5. <<i, m>> \notin R /\ <<m, i>> \notin R
    <3> HIDE DEF m
    <3> QED BY <2>1, <2>2, <2>3, <2>4
  <2>6. i = m
    BY <2>3, <2>5 DEF Linear
  <2> QED BY <2>2, <2>6
<1>4. \A k, l \in 1 .. Cardinality(P) : k < l => <<Nth(P, R, k), Nth(P, R, l)>> \in R
  <2> TAKE k, l \in 1 .. Cardinality(P)
  <2>1. HAVE k < l
  <2>2. Nth(P, R, k) # Nth(P, R, l)
    <3>1. k - 1 # l - 1
      BY <1>0, <2>1
    <3> QED BY <1>1, <3>1
  <2>3. <<Nth(P, R, l), Nth(P, R, k)>> \notin R
    <3>1. ~(l < k)
      BY <1>0, <2>1
    <3> QED BY <1>2, <3>1
  <2> QED BY <1>1, <2>2, <2>3 DEF Linear
<1> QED BY <1>0, <1>1, <1>2, <1>3, <1>4

\* The first n places.
Leading(P, R, n) == {i \in P : Cardinality(Earlier(P, R, i)) < n}

LEMMA LeadingPlaces ==
  ASSUME NEW P, NEW R, Linear(P, R), NEW n \in Nat
  PROVE  /\ IsFiniteSet(Leading(P, R, n)) /\ Cardinality(P) \in Nat
         /\ Cardinality(Leading(P, R, n)) = IF Cardinality(P) < n THEN Cardinality(P) ELSE n
<1> DEFINE p == Cardinality(P)
           m == IF p < n THEN p ELSE n
           T == 0 .. m - 1
           K == Leading(P, R, n)
           f == [i \in K |-> Cardinality(Earlier(P, R, i))]
<1>1. IsFiniteSet(P) /\ p \in Nat
  BY FS_CardinalityType DEF Linear
<1>2. IsFiniteSet(K) /\ K \subseteq P
  BY <1>1, FS_Subset DEF Leading
<1>3. IsFiniteSet(T) /\ Cardinality(T) = m /\ m \in Nat
  <2> HIDE DEF p
  <2>1. m \in Nat
    BY <1>1
  <2> HIDE DEF m
  <2>2. m - 1 \in Int /\ 0 \in Int
    BY <2>1
  <2>3. IsFiniteSet(T) /\ Cardinality(T) = IF 0 > m - 1 THEN 0 ELSE m - 1 - 0 + 1
    BY <2>2, FS_Interval
  <2> QED BY <2>1, <2>3
<1>4. f \in Injection(K, T)
  <2>1. \A i \in K : Cardinality(Earlier(P, R, i)) \in T
    <3> TAKE i \in K
    <3>1. Cardinality(Earlier(P, R, i)) \in 0 .. p - 1 /\ Cardinality(Earlier(P, R, i)) < n
      BY RankBound DEF Leading
    <3> HIDE DEF p
    <3> QED BY <1>1, <3>1
  <2>2. ASSUME NEW i \in K, NEW j \in K, f[i] = f[j] PROVE i = j
    <3>1. \A a, b \in P : <<a, b>> \in R => Cardinality(Earlier(P, R, a)) < Cardinality(Earlier(P, R, b))
      BY RankGrows
    <3>2. Cardinality(Earlier(P, R, i)) \in Nat /\ Cardinality(Earlier(P, R, i)) = Cardinality(Earlier(P, R, j))
      BY <1>2, <2>2, RankBound
    <3>3. <<i, j>> \notin R /\ <<j, i>> \notin R
      BY <1>2, <3>1, <3>2
    <3> QED BY <1>2, <3>3 DEF Linear
  <2>3. f \in [K -> T]
    BY <2>1
  <2> HIDE DEF f
  <2> QED BY <2>2, <2>3 DEF Injection, IsInjective
<1>5. f \in Surjection(K, T)
  <2>1. ASSUME NEW v \in T PROVE \E i \in K : f[i] = v
    <3> HIDE DEF p
    <3>1. PICK k \in 1 .. p : k - 1 = v /\ v < n
      <4>1. v + 1 \in 1 .. p /\ v + 1 - 1 = v /\ v < n
        BY <1>1
      <4> QED BY <4>1
    <3>2. PICK i \in P : Cardinality(Earlier(P, R, i)) = k - 1
      BY <3>1, RankOnto DEF p
    <3>3. i \in K
      BY <3>1, <3>2 DEF Leading
    <3> QED BY <3>1, <3>2, <3>3
  <2>2. f \in [K -> T]
    BY <1>4 DEF Injection
  <2> HIDE DEF f
  <2> QED BY <2>1, <2>2 DEF Surjection
<1>6. Cardinality(T) = Cardinality(K)
  <2> HIDE DEF T, K, f
  <2> QED BY <1>2, <1>4, <1>5, FS_Surjection
<1> QED BY <1>1, <1>2, <1>3, <1>6

LEMMA RisingLinear ==
  ASSUME NEW P \in SUBSET Nat, IsFiniteSet(P)
  PROVE  Linear(P, Rising(P)) /\ \A i, j \in P : <<i, j>> \in Rising(P) <=> i < j
<1>1. \A i, j \in P : <<i, j>> \in Rising(P) <=> i < j
  BY DEF Rising
<1>2. \A i, j \in P : i # j <=> i < j \/ j < i
  OBVIOUS
<1>3. \A i, j, k \in P : i < j /\ j < k => i < k
  OBVIOUS
<1> QED BY <1>1, <1>2, <1>3 DEF Linear

\* The greatest of finitely many numbers.
LEMMA MaxIsIn ==
  ASSUME NEW S \in SUBSET Nat, IsFiniteSet(S), S # {}
  PROVE  Max(S) \in S
<1>1. Linear(S, Rising(S))
  BY RisingLinear
<1>2. Cardinality(S) \in 1 .. Cardinality(S)
  <2>1. Cardinality(S) \in Nat /\ Cardinality(S) # 0
    BY FS_CardinalityType, FS_EmptySet
  <2> QED BY <2>1
<1> DEFINE m == Nth(S, Rising(S), Cardinality(S))
<1>3. m \in S
  BY <1>1, <1>2, NthPlace
<1>4. \A i \in S : m >= i
  <2> TAKE i \in S
  <2>1. PICK k \in 1 .. Cardinality(S) : i = Nth(S, Rising(S), k)
    BY <1>1, NthPlace
  <2>2. <<m, i>> \notin Rising(S)
    <3>1. ~(Cardinality(S) < k)
      BY <1>2
    <3> QED BY <1>1, <1>2, <2>1, <3>1, NthPlace
  <2>3. ~(m < i) /\ m \in Nat /\ i \in Nat
    BY <1>3, <2>2, RisingLinear
  <2> HIDE DEF m
  <2> QED BY <2>3
<1> QED BY <1>3, <1>4 DEF Max

-------------------------------------------------------------------------------
(* Lists chosen from a list.                                               *)

LEMMA ListOf ==
  ASSUME NEW S, NEW n \in Nat, NEW f \in [1 .. n -> S]
  PROVE  f \in Seq(S) /\ Len(f) = n
<1>1. f \in Seq(S)
  BY SeqDef
<1> QED BY <1>1, LenProperties

\* t has the items of s at the places P, in their order.
Sublist(t, s, P) ==
    \E f \in [1 .. Cardinality(P) -> P] :
        /\ \A k \in 1 .. Cardinality(P) : t[k] = s[f[k]]
        /\ \A k, l \in 1 .. Cardinality(P) : k < l <=> f[k] < f[l]
        /\ \A i \in P : \E k \in 1 .. Cardinality(P) : f[k] = i

\* t has the items of s, in another order.
Permutes(t, s) ==
    \E f \in [1 .. Len(s) -> 1 .. Len(s)] :
        /\ \A k \in 1 .. Len(s) : t[k] = s[f[k]]
        /\ \A k, l \in 1 .. Len(s) : f[k] = f[l] => k = l
        /\ \A i \in 1 .. Len(s) : \E k \in 1 .. Len(s) : f[k] = i

\* A filtered list has the items at the places, each once and in their order.
LEMMA AtItems ==
  ASSUME NEW S, NEW s \in Seq(S), NEW P \in SUBSET (1 .. Len(s))
  PROVE  /\ IsFiniteSet(P) /\ Cardinality(P) \in Nat /\ Len(s) \in Nat
         /\ At(s, P) \in Seq(S) /\ Len(At(s, P)) = Cardinality(P)
         /\ Sublist(At(s, P), s, P)
<1> DEFINE n == Cardinality(P)
           f == [k \in 1 .. n |-> Nth(P, Rising(P), k)]
<1>1. Len(s) \in Nat /\ (\A i \in 1 .. Len(s) : s[i] \in S) /\ P \in SUBSET Nat
  BY LenProperties, ElementOfSeq
<1>2. IsFiniteSet(P)
  <2>1. IsFiniteSet(1 .. Len(s))
    BY <1>1, FS_Interval
  <2> QED BY <2>1, FS_Subset
<1>3. Linear(P, Rising(P)) /\ \A i, j \in P : <<i, j>> \in Rising(P) <=> i < j
  BY <1>1, <1>2, RisingLinear
<1>4. /\ n \in Nat /\ f \in [1 .. n -> P]
      /\ \A k, l \in 1 .. n : k < l <=> <<f[k], f[l]>> \in Rising(P)
      /\ \A i \in P : \E k \in 1 .. n : f[k] = i
  <2>1. /\ n \in Nat
        /\ \A k \in 1 .. n : Nth(P, Rising(P), k) \in P
        /\ \A i \in P : \E k \in 1 .. n : i = Nth(P, Rising(P), k)
        /\ \A k, l \in 1 .. n :
              k < l <=> <<Nth(P, Rising(P), k), Nth(P, Rising(P), l)>> \in Rising(P)
    BY <1>3, NthPlace
  <2> QED BY <2>1
<1>5. \A k, l \in 1 .. n : k < l <=> f[k] < f[l]
  BY <1>3, <1>4
<1>6. At(s, P) = [k \in 1 .. n |-> s[f[k]]]
  BY DEF At
<1>7. \A k \in 1 .. n : At(s, P)[k] = s[f[k]] /\ s[f[k]] \in S
  BY <1>1, <1>4, <1>6
<1>8. At(s, P) \in [1 .. n -> S]
  BY <1>6, <1>7
<1>9. At(s, P) \in Seq(S) /\ Len(At(s, P)) = n
  BY <1>4, <1>8, ListOf
<1> HIDE DEF f
<1>10. Sublist(At(s, P), s, P)
  BY <1>4, <1>5, <1>7 DEF Sublist
<1> QED BY <1>1, <1>2, <1>4, <1>9, <1>10

\* The first items of a list.
LEMMA UptoItems ==
  ASSUME NEW S, NEW s \in Seq(S), NEW n \in Nat
  PROVE  /\ Len(s) \in Nat /\ Upto(s, n) \in Seq(S)
         /\ Len(Upto(s, n)) = IF n < Len(s) THEN n ELSE Len(s)
         /\ \A k \in 1 .. Len(Upto(s, n)) : k \in 1 .. Len(s) /\ Upto(s, n)[k] = s[k]
<1> DEFINE m == IF n < Len(s) THEN n ELSE Len(s)
<1>1. /\ Len(s) \in Nat /\ m \in 0 .. Len(s) /\ 1 \in Int /\ m \in Int
      /\ \A i \in 1 .. m : s[i] \in S /\ i \in 1 .. Len(s)
  BY LenProperties, ElementOfSeq
<1> HIDE DEF m
<1>2. /\ SubSeq(s, 1, m) \in Seq(S)
      /\ Len(SubSeq(s, 1, m)) = IF 1 <= m THEN m - 1 + 1 ELSE 0
      /\ \A i \in 1 .. m - 1 + 1 : SubSeq(s, 1, m)[i] = s[1 + i - 1]
  BY <1>1, SubSeqProperties
<1>3. m - 1 + 1 = m /\ (1 <= m \/ m = 0) /\ \A i \in 1 .. m : 1 + i - 1 = i
  BY <1>1
<1>4. Len(SubSeq(s, 1, m)) = m /\ \A i \in 1 .. m : SubSeq(s, 1, m)[i] = s[i]
  BY <1>2, <1>3
<1>5. Upto(s, n) = SubSeq(s, 1, m)
  BY DEF Upto, m
<1> QED BY <1>1, <1>2, <1>4, <1>5 DEF m

\* A sorted list has the same items, a better one before a worse one.
LEMMA RankedItems ==
  ASSUME NEW S, NEW s \in Seq(S), \A c \in S : c.score \in Nat
  PROVE  /\ Len(s) \in Nat /\ Ranked(s) \in Seq(S) /\ Len(Ranked(s)) = Len(s)
         /\ Permutes(Ranked(s), s)
         /\ \A k, l \in 1 .. Len(s) : k < l => Ranked(s)[k].score >= Ranked(s)[l].score
<1> DEFINE n == Len(s)
           f == [k \in 1 .. n |-> Nth(1 .. n, Better(s), k)]
<1>1. n \in Nat /\ DOMAIN s = 1 .. n /\ \A i \in 1 .. n : s[i] \in S /\ s[i].score \in Nat
  BY LenProperties, ElementOfSeq
<1>2. IsFiniteSet(1 .. n) /\ Cardinality(1 .. n) = n
  BY <1>1, FS_Interval
<1>3. \A i, j \in 1 .. n : <<i, j>> \in Better(s) <=>
         s[i].score > s[j].score \/ (s[i].score = s[j].score /\ i < j)
  BY <1>1 DEF Better
<1>4. Linear(1 .. n, Better(s))
  <2>1. ASSUME NEW i \in 1 .. n, NEW j \in 1 .. n
        PROVE  i # j <=> <<i, j>> \in Better(s) \/ <<j, i>> \in Better(s)
    <3>1. i \in Nat /\ j \in Nat /\ s[i].score \in Nat /\ s[j].score \in Nat
      BY <1>1
    <3>2. /\ <<i, j>> \in Better(s) <=> s[i].score > s[j].score \/ (s[i].score = s[j].score /\ i < j)
          /\ <<j, i>> \in Better(s) <=> s[j].score > s[i].score \/ (s[j].score = s[i].score /\ j < i)
      BY <1>3
    <3> QED BY ONLY <3>1, <3>2
  <2>2. ASSUME NEW i \in 1 .. n, NEW j \in 1 .. n, NEW k \in 1 .. n,
               <<i, j>> \in Better(s), <<j, k>> \in Better(s)
        PROVE  <<i, k>> \in Better(s)
    BY <1>1, <1>3, <2>2
  <2> QED BY <1>2, <2>1, <2>2 DEF Linear
<1>5. /\ f \in [1 .. n -> 1 .. n]
      /\ \A k, l \in 1 .. n : k < l <=> <<f[k], f[l]>> \in Better(s)
      /\ \A i \in 1 .. n : \E k \in 1 .. n : f[k] = i
  <2> DEFINE P == 1 .. n
             R == Better(s)
  <2>1. Linear(P, R) /\ Cardinality(P) = n
    BY <1>2, <1>4
  <2>2. /\ \A k \in 1 .. n : Nth(P, R, k) \in P
        /\ \A i \in P : \E k \in 1 .. n : i = Nth(P, R, k)
        /\ \A k, l \in 1 .. n : k < l <=> <<Nth(P, R, k), Nth(P, R, l)>> \in R
    <3> HIDE DEF P, R
    <3> QED BY <2>1, NthPlace
  <2> QED BY <2>2
<1>6. \A k, l \in 1 .. n : f[k] = f[l] => k = l
  <2>1. \A i \in 1 .. n : <<i, i>> \notin Better(s)
    BY <1>1, <1>3
  <2>2. \A k, l \in 1 .. n : k = l \/ k < l \/ l < k
    BY <1>1
  <2> QED BY <1>5, <2>1, <2>2
<1>7. Ranked(s) = [k \in 1 .. n |-> s[f[k]]]
  BY <1>1 DEF Ranked
<1>8. Ranked(s) \in [1 .. n -> S] /\ \A k \in 1 .. n : Ranked(s)[k] = s[f[k]]
  BY <1>1, <1>5, <1>7
<1>9. Ranked(s) \in Seq(S) /\ Len(Ranked(s)) = n
  BY <1>1, <1>8, ListOf
<1>10. \A k, l \in 1 .. n : k < l => Ranked(s)[k].score >= Ranked(s)[l].score
  <2> TAKE k, l \in 1 .. n
  <2>1. HAVE k < l
  <2>2. f[k] \in 1 .. n /\ f[l] \in 1 .. n /\ <<f[k], f[l]>> \in Better(s)
    BY <1>5, <2>1
  <2>3. s[f[k]].score >= s[f[l]].score
    <3> DEFINE a == f[k]
               b == f[l]
    <3>1. a \in 1 .. n /\ b \in 1 .. n /\ <<a, b>> \in Better(s)
      BY <2>2
    <3> HIDE DEF f, a, b
    <3>2. s[a].score > s[b].score \/ (s[a].score = s[b].score /\ a < b)
      BY <1>3, <3>1
    <3>3. s[a].score \in Nat /\ s[b].score \in Nat
      BY <1>1, <3>1
    <3>4. s[a].score >= s[b].score
      BY <3>2, <3>3
    <3> QED BY <3>4 DEF a, b
  <2> QED BY <1>8, <2>3
<1> HIDE DEF f
<1>11. Permutes(Ranked(s), s)
  BY <1>5, <1>6, <1>8 DEF Permutes
<1> QED BY <1>1, <1>9, <1>10, <1>11

-------------------------------------------------------------------------------
(* The inductive invariant.                                                *)

\* A candidate is known by the score of its entry and by the first item that
\* leads to it, unless it is a direct hit.
Led(c) ==
    /\ c.score = score[c.id]
    /\ c.src # Direct => /\ c.src \in Item /\ Passes(c.id) /\ c.id[1] \in prov[c.src]
                         /\ \A j \in 1 .. c.src - 1 : c.id[1] \notin prov[j]

Once(s) == \A i, j \in 1 .. Len(s) : s[i].id = s[j].id => i = j
Fit(s) == s \in Seq(Candidates) /\ Once(s) /\ \A i \in 1 .. Len(s) : Led(s[i])

Inputs ==
    /\ mode \in Modes /\ conf \in IF mode = "turn" THEN TurnConfigs ELSE SplitConfigs
    /\ prov \in [Item -> SUBSET Turns] /\ score \in [Entries -> Scores]

\* The turn of the entry was looked at under some item.
Looked(e) == \E j \in Item : e[1] \in prov[j] /\ (j < at \/ (j = at /\ e[1] \notin left))

\* While candidates are collected, they are those that were looked at and passed.
Collecting ==
    pc = "collect" =>
        /\ at <= NItems /\ (IF at = 0 THEN left = {} ELSE left \subseteq prov[at])
        /\ seen = IF mode = "turn" THEN {t \in Turns : Looked(<<t, 1>>) /\ Passes(<<t, 1>>)}
                  ELSE {e \in Entries : Looked(e)}
        /\ Ids(scored) = {e \in Entries : Looked(e) /\ Passes(e)}
        /\ \A i \in 1 .. Len(scored) : scored[i].src # Direct
        /\ ~reranked /\ items = <<>>

\* What the reranker picked has text, and is fetched one by one.
Fetching ==
    /\ reranked => mode # "turn" /\ Ids(scored) \subseteq texts
    /\ pc = "fetch" => /\ at <= Len(scored)
                       /\ reranked => /\ Len(items) = at
                                      /\ \A i \in 1 .. at : items[i].id = scored[i].id

\* A block that is ready has a line that is not a heading.
Lines == [id : Entries \cup {None}, part : {1, 2}, header : BOOLEAN]
Formatting ==
    /\ block \in Seq(Lines)
    /\ pc = "format" => at < Len(items)
    /\ (pc = "format" /\ at > 0) \/ pc = "narrow" => \E i \in 1 .. Len(block) : ~block[i].header

IInv ==
    /\ TypeOK /\ Inputs /\ Fit(scored) /\ Fit(base) /\ Collecting /\ Fetching /\ Formatting
    /\ SlotsWellSpent /\ RerankedAreShown

-------------------------------------------------------------------------------
(* Lists of candidates.                                                    *)

LEMMA InputTypes ==
  ASSUME Inputs
  PROVE  /\ NItems \in Nat /\ NTurns[mode] \in Nat
         /\ Turns \in SUBSET Nat /\ IsFiniteSet(Turns) /\ IsFiniteSet(Entries)
         /\ \A e \in Entries : e = <<e[1], e[2]>> /\ e[1] \in Turns /\ e[2] \in Parts
         /\ \A e \in Entries : score[e] \in Scores /\ (score[e] # None => score[e] \in Nat)
         /\ \A c \in Candidates : c.score \in Nat /\ c.id \in Entries /\ c.src \in Nat
         /\ \A e \in Entries : Passes(e) => score[e] \in Nat \ {None}
<1>1. NItems \in Nat /\ NTurns[mode] \in Nat /\ Scores \subseteq Nat \cup {None}
  BY EvidenceAssumption DEF Inputs
<1>2. Turns \in SUBSET Nat /\ IsFiniteSet(Turns)
  BY <1>1, FS_Interval DEF Turns
<1>3. IsFiniteSet(Parts)
  <2>1. IsFiniteSet({1}) /\ IsFiniteSet({1} \cup {2})
    BY FS_Singleton, FS_AddElement
  <2>2. {1} \cup {2} = {1, 2}
    OBVIOUS
  <2> QED BY <2>1, <2>2 DEF Parts
<1>4. IsFiniteSet(Entries)
  BY <1>2, <1>3, FS_Product DEF Entries
<1>5. \A e \in Entries : e = <<e[1], e[2]>> /\ e[1] \in Turns /\ e[2] \in Parts
  BY DEF Entries
<1>6. \A e \in Entries : score[e] \in Scores
  BY DEF Inputs
<1>7. \A c \in Candidates : c.score \in Scores \ {None} /\ c.id \in Entries /\ c.src \in 0 .. NItems
  BY DEF Candidates
<1> QED BY <1>1, <1>2, <1>4, <1>5, <1>6, <1>7 DEF Passes

\* The numbers of the configuration.
LEMMA ConfTypes ==
  ASSUME Inputs
  PROVE  /\ mode = "turn" => conf.topk \in Nat /\ conf.quota \in Nat
         /\ mode # "turn" => /\ conf.topk \in Nat /\ conf.direct \in Nat
                             /\ conf.floor \in Nat /\ conf.rerank \in Nat
<1>1. CASE mode = "turn"
  BY <1>1, EvidenceAssumption DEF Inputs
<1>2. CASE mode # "turn"
  <2>1. conf \in SplitConfigs
    BY <1>2 DEF Inputs
  <2>2. {conf.topk, conf.direct, conf.floor, conf.rerank} \subseteq Nat
    BY <2>1, EvidenceAssumption
  <2> QED BY <1>2, <2>2
<1> QED BY <1>1, <1>2

LEMMA FitTypes ==
  ASSUME Inputs, NEW s, Fit(s)
  PROVE  /\ s \in Seq(Candidates) /\ Len(s) \in Nat /\ DOMAIN s = 1 .. Len(s)
         /\ \A i \in 1 .. Len(s) :
               /\ s[i] \in Candidates /\ Led(s[i]) /\ s[i].score \in Nat
               /\ s[i].score = score[s[i].id] /\ s[i].id \in Entries
         /\ \A e : e \in Ids(s) <=> \E i \in 1 .. Len(s) : s[i].id = e
<1>1. s \in Seq(Candidates) /\ Len(s) \in Nat /\ DOMAIN s = 1 .. Len(s)
  BY LenProperties DEF Fit
<1>2. \A i \in 1 .. Len(s) : s[i] \in Candidates /\ Led(s[i])
  BY <1>1, ElementOfSeq DEF Fit
<1>3. \A i \in 1 .. Len(s) : s[i].score \in Nat /\ s[i].id \in Entries /\ s[i].score = score[s[i].id]
  BY <1>2, InputTypes DEF Led
<1> QED BY <1>1, <1>2, <1>3 DEF Ids

\* Items of a list, none of them twice.
LEMMA PickedFit ==
  ASSUME Inputs, NEW s, Fit(s), NEW t \in Seq(Candidates), NEW f \in [1 .. Len(t) -> 1 .. Len(s)],
         \A k \in 1 .. Len(t) : t[k] = s[f[k]],
         \A k, l \in 1 .. Len(t) : f[k] = f[l] => k = l
  PROVE  Fit(t) /\ Ids(t) \subseteq Ids(s)
<1>1. Once(t)
  <2>1. \A k, l \in 1 .. Len(t) : t[k].id = t[l].id => f[k] = f[l]
    BY DEF Fit, Once
  <2> QED BY <2>1 DEF Once
<1>2. \A k \in 1 .. Len(t) : Led(t[k])
  BY DEF Fit
<1>3. Fit(t)
  BY <1>1, <1>2 DEF Fit
<1> QED BY <1>3, FitTypes

LEMMA AtFit ==
  ASSUME Inputs, NEW s, Fit(s), NEW P \in SUBSET (1 .. Len(s))
  PROVE  /\ Fit(At(s, P)) /\ Ids(At(s, P)) = {s[i].id : i \in P} /\ Len(At(s, P)) = Cardinality(P)
         /\ \A k \in 1 .. Len(At(s, P)) : \E i \in P : At(s, P)[k] = s[i]
<1>1. s \in Seq(Candidates)
  BY DEF Fit
<1> DEFINE t == At(s, P)
<1>2. /\ t \in Seq(Candidates) /\ Len(t) = Cardinality(P) /\ Cardinality(P) \in Nat /\ Len(s) \in Nat
      /\ Sublist(t, s, P)
  BY <1>1, AtItems
<1>3. PICK f \in [1 .. Cardinality(P) -> P] :
        /\ \A k \in 1 .. Cardinality(P) : t[k] = s[f[k]]
        /\ \A k, l \in 1 .. Cardinality(P) : k < l <=> f[k] < f[l]
        /\ \A i \in P : \E k \in 1 .. Cardinality(P) : f[k] = i
  BY <1>2 DEF Sublist
<1> HIDE DEF t
<1>4. f \in [1 .. Len(t) -> 1 .. Len(s)] /\ \A k \in 1 .. Len(t) : t[k] = s[f[k]] /\ f[k] \in P
  BY <1>2, <1>3
<1>5. \A k, l \in 1 .. Len(t) : f[k] = f[l] => k = l
  <2> TAKE k, l \in 1 .. Len(t)
  <2>1. HAVE f[k] = f[l]
  <2>2. f[k] \in Nat /\ f[l] \in Nat
    BY <1>2, <1>4
  <2>3. ~(k < l) /\ ~(l < k)
    BY <1>2, <1>3, <2>1, <2>2
  <2> QED BY <1>2, <2>3
<1>6. Fit(t)
  BY <1>2, <1>4, <1>5, PickedFit
<1>7. Ids(t) = {s[i].id : i \in P}
  <2>1. \A e : e \in Ids(t) <=> \E k \in 1 .. Len(t) : t[k].id = e
    BY <1>6, FitTypes
  <2>2. \A i \in P : \E k \in 1 .. Len(t) : t[k] = s[i]
    <3> TAKE i \in P
    <3>1. PICK k \in 1 .. Cardinality(P) : f[k] = i
      BY <1>3
    <3> QED BY <1>2, <1>3, <3>1
  <2>3. \A e \in Ids(t) : \E i \in P : s[i].id = e
    <3> TAKE e \in Ids(t)
    <3>1. PICK k \in 1 .. Len(t) : t[k].id = e
      BY <2>1
    <3>2. t[k] = s[f[k]] /\ f[k] \in P
      BY <1>4
    <3> QED BY <3>1, <3>2
  <2>4. \A i \in P : s[i].id \in Ids(t)
    <3> TAKE i \in P
    <3>1. PICK k \in 1 .. Len(t) : t[k] = s[i]
      BY <2>2
    <3> QED BY <2>1, <3>1
  <2> QED BY <2>3, <2>4
<1> QED BY <1>2, <1>4, <1>6, <1>7 DEF t

LEMMA UptoFit ==
  ASSUME Inputs, NEW s, Fit(s), NEW n \in Nat
  PROVE  Fit(Upto(s, n)) /\ Ids(Upto(s, n)) \subseteq Ids(s)
<1> DEFINE t == Upto(s, n)
<1>1. s \in Seq(Candidates)
  BY DEF Fit
<1>2. /\ t \in Seq(Candidates)
      /\ \A k \in 1 .. Len(t) : k \in 1 .. Len(s) /\ t[k] = s[k]
  BY <1>1, UptoItems
<1> HIDE DEF t
<1> DEFINE f == [k \in 1 .. Len(t) |-> k]
<1>3. f \in [1 .. Len(t) -> 1 .. Len(s)]
  BY <1>2
<1>4. Fit(t) /\ Ids(t) \subseteq Ids(s)
  BY <1>2, <1>3, PickedFit
<1> QED BY <1>4 DEF t

LEMMA RankedFit ==
  ASSUME Inputs, NEW s, Fit(s)
  PROVE  /\ Fit(Ranked(s)) /\ Ids(Ranked(s)) = Ids(s) /\ Len(Ranked(s)) = Len(s)
         /\ \A k, l \in 1 .. Len(s) : k < l => Ranked(s)[k].score >= Ranked(s)[l].score
         /\ \A k \in 1 .. Len(s) : \E i \in 1 .. Len(s) : Ranked(s)[k] = s[i]
         /\ \A i \in 1 .. Len(s) : \E k \in 1 .. Len(s) : Ranked(s)[k] = s[i]
<1> DEFINE t == Ranked(s)
<1>1. s \in Seq(Candidates) /\ \A c \in Candidates : c.score \in Nat
  BY InputTypes DEF Fit
<1>2. /\ t \in Seq(Candidates) /\ Len(t) = Len(s) /\ Permutes(t, s)
      /\ \A k, l \in 1 .. Len(s) : k < l => t[k].score >= t[l].score
  BY <1>1, RankedItems
<1>3. PICK f \in [1 .. Len(s) -> 1 .. Len(s)] :
        /\ \A k \in 1 .. Len(s) : t[k] = s[f[k]]
        /\ \A k, l \in 1 .. Len(s) : f[k] = f[l] => k = l
        /\ \A i \in 1 .. Len(s) : \E k \in 1 .. Len(s) : f[k] = i
  BY <1>2 DEF Permutes
<1> HIDE DEF t
<1>4. Fit(t) /\ Ids(t) \subseteq Ids(s)
  <2>1. f \in [1 .. Len(t) -> 1 .. Len(s)]
    BY <1>2, <1>3
  <2>2. t \in Seq(Candidates) /\ \A k \in 1 .. Len(t) : t[k] = s[f[k]]
    BY <1>2, <1>3
  <2>3. \A k, l \in 1 .. Len(t) : f[k] = f[l] => k = l
    BY <1>2, <1>3
  <2> QED BY <2>1, <2>2, <2>3, PickedFit
<1>5. \A k \in 1 .. Len(s) : \E i \in 1 .. Len(s) : t[k] = s[i]
  BY <1>3
<1>6. \A i \in 1 .. Len(s) : \E k \in 1 .. Len(s) : t[k] = s[i]
  BY <1>3
<1>7. Ids(s) \subseteq Ids(t)
  <2>1. /\ \A e : e \in Ids(s) <=> \E i \in 1 .. Len(s) : s[i].id = e
        /\ \A e : e \in Ids(t) <=> \E i \in 1 .. Len(t) : t[i].id = e
    BY <1>4, FitTypes
  <2> QED BY <1>2, <1>6, <2>1
<1> QED BY <1>2, <1>4, <1>5, <1>6, <1>7 DEF t

LEMMA ConcatFit ==
  ASSUME Inputs, NEW s, Fit(s), NEW t, Fit(t), Ids(s) \cap Ids(t) = {}
  PROVE  /\ Fit(s \o t) /\ Ids(s \o t) = Ids(s) \cup Ids(t) /\ Len(s \o t) = Len(s) + Len(t)
         /\ \A i \in 1 .. Len(s) : (s \o t)[i] = s[i]
         /\ \A i \in 1 .. Len(t) : (s \o t)[Len(s) + i] = t[i]
<1> DEFINE u == s \o t
<1>1. /\ s \in Seq(Candidates) /\ t \in Seq(Candidates) /\ Len(s) \in Nat /\ Len(t) \in Nat
      /\ \A e : e \in Ids(s) <=> \E i \in 1 .. Len(s) : s[i].id = e
      /\ \A e : e \in Ids(t) <=> \E i \in 1 .. Len(t) : t[i].id = e
  BY FitTypes
<1>2. /\ u \in Seq(Candidates) /\ Len(u) = Len(s) + Len(t)
      /\ \A i \in 1 .. Len(s) + Len(t) : u[i] = IF i <= Len(s) THEN s[i] ELSE t[i - Len(s)]
  BY <1>1, ConcatProperties
<1> HIDE DEF u
<1>3. /\ \A i \in 1 .. Len(s) : u[i] = s[i] /\ i \in 1 .. Len(u)
      /\ \A i \in 1 .. Len(t) : u[Len(s) + i] = t[i] /\ Len(s) + i \in 1 .. Len(u)
  <2>1. \A i \in 1 .. Len(s) : i \in 1 .. Len(s) + Len(t) /\ i <= Len(s)
    BY <1>1
  <2>2. \A i \in 1 .. Len(t) : /\ Len(s) + i \in 1 .. Len(s) + Len(t) /\ ~(Len(s) + i <= Len(s))
                              /\ Len(s) + i - Len(s) = i
    BY <1>1
  <2> QED BY <1>2, <2>1, <2>2
<1>4. \A i \in 1 .. Len(u) : (i \in 1 .. Len(s) /\ u[i] = s[i])
                             \/ (i - Len(s) \in 1 .. Len(t) /\ u[i] = t[i - Len(s)])
  BY <1>1, <1>2
<1>5. Once(u)
  <2> SUFFICES ASSUME NEW i \in 1 .. Len(u), NEW j \in 1 .. Len(u), u[i].id = u[j].id PROVE i = j
    BY DEF Once
  <2>1. CASE i \in 1 .. Len(s) /\ j \in 1 .. Len(s) /\ u[i] = s[i] /\ u[j] = s[j]
    BY <2>1 DEF Fit, Once
  <2>2. CASE /\ i - Len(s) \in 1 .. Len(t) /\ j - Len(s) \in 1 .. Len(t)
             /\ u[i] = t[i - Len(s)] /\ u[j] = t[j - Len(s)]
    <3>1. i - Len(s) = j - Len(s)
      BY <2>2 DEF Fit, Once
    <3> QED BY <1>1, <1>2, <3>1
  <2>3. CASE \/ u[i].id \in Ids(s) /\ u[j].id \in Ids(t)
             \/ u[i].id \in Ids(t) /\ u[j].id \in Ids(s)
    BY <2>3
  <2>4. \A k \in 1 .. Len(u) : \/ k \in 1 .. Len(s) /\ u[k] = s[k] /\ u[k].id \in Ids(s)
                               \/ /\ k - Len(s) \in 1 .. Len(t) /\ u[k] = t[k - Len(s)]
                                  /\ u[k].id \in Ids(t)
    BY <1>1, <1>4
  <2> QED BY <2>1, <2>2, <2>3, <2>4
<1>6. \A i \in 1 .. Len(u) : Led(u[i])
  BY <1>4 DEF Fit
<1>7. Fit(u)
  BY <1>2, <1>5, <1>6 DEF Fit
<1>8. Ids(u) = Ids(s) \cup Ids(t)
  <2>1. \A e : e \in Ids(u) <=> \E i \in 1 .. Len(u) : u[i].id = e
    BY <1>7, FitTypes
  <2>2. Ids(u) \subseteq Ids(s) \cup Ids(t)
    <3> SUFFICES ASSUME NEW i \in 1 .. Len(u) PROVE u[i].id \in Ids(s) \cup Ids(t)
      BY <2>1
    <3> QED BY <1>1, <1>4
  <2>3. Ids(s) \subseteq Ids(u)
    <3> SUFFICES ASSUME NEW i \in 1 .. Len(s) PROVE s[i].id \in Ids(u)
      BY <1>1
    <3>1. u[i].id = s[i].id /\ i \in 1 .. Len(u)
      BY <1>3
    <3> QED BY <2>1, <3>1
  <2>4. Ids(t) \subseteq Ids(u)
    <3> SUFFICES ASSUME NEW i \in 1 .. Len(t) PROVE t[i].id \in Ids(u)
      BY <1>1
    <3>1. u[Len(s) + i].id = t[i].id /\ Len(s) + i \in 1 .. Len(u)
      BY <1>3
    <3> QED BY <2>1, <3>1
  <2> QED BY <2>2, <2>3, <2>4
<1> QED BY <1>2, <1>3, <1>7, <1>8 DEF u

\* As many identifiers as candidates.
LEMMA OnceCounts ==
  ASSUME Inputs, NEW s, Fit(s)
  PROVE  Cardinality(Ids(s)) = Len(s)
<1> DEFINE f == [i \in 1 .. Len(s) |-> s[i].id]
<1>1. /\ Len(s) \in Nat
      /\ \A e : e \in Ids(s) <=> \E i \in 1 .. Len(s) : s[i].id = e
  BY FitTypes
<1>2. IsFiniteSet(1 .. Len(s)) /\ Cardinality(1 .. Len(s)) = Len(s)
  BY <1>1, FS_Interval
<1>3. f \in Surjection(1 .. Len(s), Ids(s)) /\ f \in Injection(1 .. Len(s), Ids(s))
  <2>1. f \in [1 .. Len(s) -> Ids(s)]
    BY <1>1
  <2>2. \A e \in Ids(s) : \E i \in 1 .. Len(s) : f[i] = e
    BY <1>1
  <2>3. \A i, j \in 1 .. Len(s) : f[i] = f[j] => i = j
    BY DEF Fit, Once
  <2> QED BY <2>1, <2>2, <2>3 DEF Surjection, Injection, IsInjective
<1>4. Cardinality(Ids(s)) = Cardinality(1 .. Len(s))
  BY <1>2, <1>3, FS_Surjection
<1> QED BY <1>2, <1>4

-------------------------------------------------------------------------------
(* The cuts.                                                               *)

LEMMA EmptyFit ==
  ASSUME Inputs
  PROVE  Fit(<<>>) /\ Ids(<<>>) = {} /\ Len(<<>>) = 0
<1>1. <<>> \in Seq(Candidates) /\ Len(<<>>) = 0 /\ \A i \in 1 .. 0 : FALSE
  BY EmptySeq
<1> QED BY <1>1 DEF Fit, Once, Ids

\* The first of a sorted list: the cut is full when a candidate is not in it,
\* and all in it are as good.
LEMMA CutIsBest ==
  ASSUME Inputs, NEW s, Fit(s), NEW n \in Nat
  PROVE  /\ Fit(Upto(Ranked(s), n)) /\ Ids(Upto(Ranked(s), n)) \subseteq Ids(s)
         /\ Len(Upto(Ranked(s), n)) <= n
         /\ \A e \in Ids(s) \ Ids(Upto(Ranked(s), n)) :
               /\ Len(Upto(Ranked(s), n)) = n
               /\ \A i \in 1 .. Len(Upto(Ranked(s), n)) : Upto(Ranked(s), n)[i].score >= score[e]
<1> DEFINE r == Ranked(s)
           t == Upto(r, n)
<1>1. /\ Fit(r) /\ Ids(r) = Ids(s) /\ Len(r) = Len(s) /\ Len(s) \in Nat /\ r \in Seq(Candidates)
      /\ \A k, l \in 1 .. Len(s) : k < l => r[k].score >= r[l].score
  BY RankedFit, FitTypes DEF Fit
<1> HIDE DEF r
<1>2. /\ Fit(t) /\ Ids(t) \subseteq Ids(r) /\ Len(t) = IF n < Len(r) THEN n ELSE Len(r)
      /\ \A k \in 1 .. Len(t) : k \in 1 .. Len(r) /\ t[k] = r[k]
  BY <1>1, UptoFit, UptoItems
<1> HIDE DEF t
<1>3. ASSUME NEW e \in Ids(s) \ Ids(t)
      PROVE  Len(t) = n /\ \A i \in 1 .. Len(t) : t[i].score >= score[e]
  <2>1. PICK k \in 1 .. Len(r) : r[k].id = e /\ r[k].score = score[e]
    BY <1>1, FitTypes
  <2>2. k \notin 1 .. Len(t)
    <3>1. \A i \in 1 .. Len(t) : t[i].id \in Ids(t)
      BY <1>2, FitTypes
    <3> QED BY <1>2, <2>1, <3>1
  <2>3. Len(t) = n /\ \A i \in 1 .. Len(t) : i < k
    BY <1>1, <1>2, <2>2
  <2>4. \A i \in 1 .. Len(t) : t[i].score >= score[e]
    <3> TAKE i \in 1 .. Len(t)
    <3>1. i \in 1 .. Len(s) /\ k \in 1 .. Len(s) /\ i < k /\ t[i] = r[i]
      BY <1>1, <1>2, <2>3
    <3>2. r[i].score >= r[k].score
      BY <1>1, <3>1
    <3> QED BY <2>1, <3>1, <3>2
  <2> QED BY <2>3, <2>4
<1>4. Len(t) <= n
  BY <1>1, <1>2
<1>5. t = Upto(Ranked(s), n)
  BY DEF t, r
<1> QED BY <1>1, <1>2, <1>3, <1>4, <1>5

\* The hits of a search: none that is had already, and the best of the others.
LEMMA HitsFit ==
  ASSUME Inputs, mode # "turn", NEW have, NEW hits \in DirectHits(have)
  PROVE  /\ Fit(hits) /\ Ids(hits) \cap have = {}
         /\ \A i \in 1 .. Len(hits) : hits[i].src = Direct
         /\ \A e \in Entries \ (have \cup Ids(hits)) : score[e] # None =>
               \A i \in 1 .. Len(hits) : hits[i].score >= score[e]
<1>1. CASE hits = <<>>
  BY <1>1, EmptyFit
<1>2. CASE hits # <<>>
  <2> DEFINE known == {e \in Entries : score[e] # None /\ score[e] >= conf.floor}
             n == IF Cardinality(known) < conf.direct THEN Cardinality(known) ELSE conf.direct
             c(h) == [i \in DOMAIN h |-> Candidate(h[i], Direct)]
             fresh(h) == {i \in DOMAIN h : h[i] \notin have}
  <2>1. PICK h \in Searches : hits = At(c(h), fresh(h))
    BY <1>2 DEF DirectHits
  <2>2. /\ h \in [1 .. n -> known]
        /\ \A i, j \in 1 .. n : i < j => h[i] # h[j] /\ score[h[i]] >= score[h[j]]
        /\ \A e \in known : (\E i \in 1 .. n : h[i] = e)
                            \/ \A i \in 1 .. n : score[h[i]] >= score[e]
    BY DEF Searches
  <2> DEFINE u == [i \in 1 .. n |-> Candidate(h[i], Direct)]
             P == {i \in 1 .. n : h[i] \notin have}
  <2>3. /\ known \in SUBSET Entries /\ IsFiniteSet(known) /\ n \in Nat /\ conf.floor \in Nat
        /\ \A e \in known : score[e] \in Nat /\ score[e] \in Scores \ {None} /\ score[e] >= conf.floor
    <3>1. known \in SUBSET Entries /\ IsFiniteSet(known)
      BY InputTypes, FS_Subset
    <3>2. Cardinality(known) \in Nat /\ conf.direct \in Nat /\ conf.floor \in Nat
      BY <3>1, ConfTypes, FS_CardinalityType
    <3>3. \A e \in known : score[e] \in Nat /\ score[e] \in Scores \ {None} /\ score[e] >= conf.floor
      BY InputTypes
    <3> HIDE DEF known
    <3> QED BY <3>1, <3>2, <3>3
  <2>4. hits = At(u, P)
    BY <2>1, <2>2
  <2>5. known = {e \in Entries : score[e] # None /\ score[e] >= conf.floor}
    OBVIOUS
  <2> HIDE DEF known, n
  <2>6. /\ \A i \in 1 .. n : /\ u[i] \in Candidates /\ u[i].id = h[i] /\ u[i].src = Direct
                              /\ u[i].score = score[h[i]] /\ h[i] \in known
        /\ u \in Seq(Candidates) /\ Len(u) = n
    <3>1. ASSUME NEW i \in 1 .. n
          PROVE  /\ u[i] \in Candidates /\ u[i].id = h[i] /\ u[i].src = Direct
                 /\ u[i].score = score[h[i]] /\ h[i] \in known
      <4>1. h[i] \in known /\ h[i] \in Entries /\ score[h[i]] \in Scores \ {None}
        BY <2>2, <2>3
      <4>2. 0 \in 0 .. NItems
        BY InputTypes
      <4> QED BY <4>1, <4>2 DEF Candidate, Candidates, Direct
    <3>2. u \in [1 .. n -> Candidates]
      BY <3>1
    <3> HIDE DEF u
    <3> QED BY <2>3, <3>1, <3>2, ListOf
  <2> HIDE DEF u
  <2>7. Fit(u)
    <3>1. \A i, j \in 1 .. n : h[i] = h[j] => i = j
      BY <2>2, <2>3
    <3> QED BY <2>6, <3>1 DEF Fit, Once, Led
  <2>8. /\ Fit(hits) /\ Ids(hits) = {u[i].id : i \in P}
        /\ \A k \in 1 .. Len(hits) : \E i \in P : hits[k] = u[i]
    <3>1. P \in SUBSET (1 .. Len(u))
      BY <2>6
    <3> HIDE DEF P
    <3>2. /\ Fit(At(u, P)) /\ Ids(At(u, P)) = {u[i].id : i \in P}
          /\ \A k \in 1 .. Len(At(u, P)) : \E i \in P : At(u, P)[k] = u[i]
      BY <2>7, <3>1, AtFit
    <3> QED BY <2>4, <3>2
  <2>9. ASSUME NEW e \in Entries \ (have \cup Ids(hits)), score[e] # None, NEW k \in 1 .. Len(hits)
        PROVE  hits[k].score >= score[e]
    <3>1. PICK i \in 1 .. n : hits[k] = u[i]
      BY <2>8
    <3>2. hits[k].score = score[h[i]] /\ h[i] \in known
      BY <2>6, <3>1
    <3>3. ~ \E j \in 1 .. n : h[j] = e
      BY <2>6, <2>8, <2>9
    <3>4. CASE e \in known
      BY <2>2, <3>2, <3>3, <3>4
    <3>5. CASE e \notin known
      <4>1. score[e] \in Nat /\ ~(score[e] >= conf.floor)
        BY <2>5, <2>9, <3>5, InputTypes
      <4> QED BY <2>3, <3>2, <4>1
    <3> QED BY <3>4, <3>5
  <2>10. \A i \in 1 .. Len(hits) : hits[i].src = Direct
    BY <2>6, <2>8
  <2>11. Ids(hits) \cap have = {}
    BY <2>6, <2>8
  <2>12. \A e \in Entries \ (have \cup Ids(hits)) : score[e] # None =>
               \A i \in 1 .. Len(hits) : hits[i].score >= score[e]
    BY <2>9
  <2> QED BY <2>8, <2>10, <2>11, <2>12
<1> QED BY <1>1, <1>2

-------------------------------------------------------------------------------
(* The steps: what they leave as it was.                                   *)

LEMMA InputsStay ==
  ASSUME Inputs, UNCHANGED <<mode, conf, prov, score>>
  PROVE  /\ Inputs' /\ Turns' = Turns /\ Parts' = Parts /\ Entries' = Entries
         /\ Candidates' = Candidates /\ Item' = Item /\ Lines' = Lines
         /\ \A e \in Entries : Passes(e)' <=> Passes(e)
         /\ Reached' = Reached
<1>1. Turns' = Turns /\ Parts' = Parts /\ Item' = Item
  BY DEF Turns, Parts, Item
<1>2. Entries' = Entries
  BY <1>1 DEF Entries
<1>3. Inputs'
  BY <1>1, <1>2 DEF Inputs
<1>4. Candidates' = Candidates /\ Lines' = Lines
  BY <1>2 DEF Candidates, Lines
<1>5. \A e \in Entries : Passes(e)' <=> Passes(e)
  BY DEF Passes
<1>6. Reached' = Reached
  BY <1>1, <1>2, <1>5 DEF Reached
<1> QED BY <1>1, <1>2, <1>3, <1>4, <1>5, <1>6

LEMMA FitStays ==
  ASSUME Inputs, UNCHANGED <<mode, conf, prov, score>>
  PROVE  /\ Fit(scored') => Fit(scored)'
         /\ Fit(base') => Fit(base)'
<1>1. Candidates' = Candidates /\ Item' = Item /\ \A e \in Entries : Passes(e)' <=> Passes(e)
  BY InputsStay
<1>2. ASSUME NEW c \in Candidates, Led(c) PROVE c.score = score'[c.id] /\ (c.src # Direct =>
          /\ c.src \in Item' /\ Passes(c.id)' /\ c.id[1] \in prov'[c.src]
          /\ \A j \in 1 .. c.src - 1 : c.id[1] \notin prov'[j])
  <2>1. c.id \in Entries
    BY DEF Candidates
  <2> QED BY <1>1, <1>2, <2>1 DEF Led
<1>3. ASSUME Fit(scored') PROVE Fit(scored)'
  <2>1. \A i \in 1 .. Len(scored') : scored'[i] \in Candidates /\ Led(scored'[i])
    BY <1>3, FitTypes
  <2> QED BY <1>1, <1>2, <1>3, <2>1 DEF Fit, Once, Led
<1>4. ASSUME Fit(base') PROVE Fit(base)'
  <2>1. \A i \in 1 .. Len(base') : base'[i] \in Candidates /\ Led(base'[i])
    BY <1>4, FitTypes
  <2> QED BY <1>1, <1>2, <1>4, <2>1 DEF Fit, Once, Led
<1> QED BY <1>3, <1>4

\* The configuration the selection reads stays, and so does what it chose.
LEMMA SlotsStay ==
  ASSUME Inputs, UNCHANGED <<mode, conf, prov, score, scored, base>>, Selected, SlotsWellSpent
  PROVE  SlotsWellSpent'
<1>1. /\ Entries' = Entries /\ Turns' = Turns /\ Item' = Item /\ Reached' = Reached
      /\ Ids(scored)' = Ids(scored)
  BY InputsStay DEF Ids
<1>2. NoBetterLeftOut'
  BY <1>1 DEF SlotsWellSpent, NoBetterLeftOut
<1>3. QuotaServed'
  <2> SUFFICES ASSUME mode = "turn", conf.quota > 0, NEW t \in Turns, NEW i \in Item,
                      Passes(<<t, 1>>), <<t, 1>> \notin Ids(scored), t \in prov[i],
                      \A j \in 1 .. (i - 1) : t \notin prov[j]
               PROVE  /\ Len(scored') >= conf.topk
                      /\ Cardinality({c \in ToSet(scored') : c.src = i /\ c.score >= score'[<<t, 1>>]})
                            >= conf.quota
    BY <1>1 DEF QuotaServed, Passes
  <2>1. /\ Len(scored) >= conf.topk
        /\ Cardinality({c \in ToSet(scored) : c.src = i /\ c.score >= score[<<t, 1>>]}) >= conf.quota
    BY DEF SlotsWellSpent, QuotaServed
  <2>2. scored' = scored /\ score' = score
    OBVIOUS
  <2> QED BY <2>1, <2>2
<1> QED BY <1>2, <1>3 DEF SlotsWellSpent

-------------------------------------------------------------------------------
(* Collecting.                                                             *)

LEMMA AppendFit ==
  ASSUME Inputs, NEW s, Fit(s), NEW c \in Candidates, Led(c), c.id \notin Ids(s)
  PROVE  /\ Fit(Append(s, c)) /\ Ids(Append(s, c)) = Ids(s) \cup {c.id}
         /\ \A i \in 1 .. Len(Append(s, c)) : (i \in 1 .. Len(s) /\ Append(s, c)[i] = s[i])
                                               \/ Append(s, c)[i] = c
<1> DEFINE t == Append(s, c)
<1>1. /\ s \in Seq(Candidates) /\ Len(s) \in Nat
      /\ \A e : e \in Ids(s) <=> \E i \in 1 .. Len(s) : s[i].id = e
  BY FitTypes
<1>2. /\ t \in Seq(Candidates) /\ Len(t) = Len(s) + 1
      /\ \A i \in 1 .. Len(s) : t[i] = s[i]
      /\ t[Len(s) + 1] = c
  BY <1>1, AppendProperties
<1> HIDE DEF t
<1>3. \A i \in 1 .. Len(t) : (i \in 1 .. Len(s) /\ t[i] = s[i]) \/ (i = Len(s) + 1 /\ t[i] = c)
  BY <1>1, <1>2
<1>4. Once(t)
  BY <1>1, <1>3 DEF Fit, Once
<1>5. Fit(t)
  BY <1>2, <1>3, <1>4 DEF Fit
<1>6. \A e : e \in Ids(t) <=> \E i \in 1 .. Len(t) : t[i].id = e
  BY <1>5, FitTypes
<1>7. Ids(t) = Ids(s) \cup {c.id}
  <2>1. \A i \in 1 .. Len(s) : i \in 1 .. Len(t)
    BY <1>1, <1>2
  <2>2. Len(s) + 1 \in 1 .. Len(t)
    BY <1>1, <1>2
  <2> QED BY <1>1, <1>2, <1>3, <1>6, <2>1, <2>2
<1> QED BY <1>3, <1>5, <1>7 DEF t

Sourced(s) == \A i \in 1 .. Len(s) : s[i].src # Direct

LEMMA CandidateFit ==
  ASSUME Inputs, NEW s, Fit(s), Sourced(s), NEW e \in Entries, Passes(e), NEW src \in Item,
         e[1] \in prov[src], \A j \in 1 .. src - 1 : e[1] \notin prov[j], e \notin Ids(s)
  PROVE  /\ Fit(Append(s, Candidate(e, src))) /\ Sourced(Append(s, Candidate(e, src)))
         /\ Ids(Append(s, Candidate(e, src))) = Ids(s) \cup {e}
<1> DEFINE c == Candidate(e, src)
<1>1. c.score = score[e] /\ c.id = e /\ c.src = src /\ c \in Candidates /\ src # Direct
  <2>1. score[e] \in Scores \ {None} /\ src \in 0 .. NItems /\ src # 0
    BY InputTypes DEF Item, Passes
  <2> QED BY <2>1 DEF Candidate, Candidates, Direct
<1> HIDE DEF c
<1>2. Led(c)
  BY <1>1 DEF Led
<1>3. /\ Fit(Append(s, c)) /\ Ids(Append(s, c)) = Ids(s) \cup {e}
      /\ \A i \in 1 .. Len(Append(s, c)) : (i \in 1 .. Len(s) /\ Append(s, c)[i] = s[i])
                                           \/ Append(s, c)[i] = c
  BY <1>1, <1>2, AppendFit
<1>4. Sourced(Append(s, c))
  BY <1>1, <1>3 DEF Sourced
<1> QED BY <1>3, <1>4 DEF c

\* An entry is looked at: it is spoken for, and taken when it is new and passes.
LEMMA EntryCollected ==
  ASSUME Inputs, NEW acc, Fit(acc.out), Sourced(acc.out), NEW e \in Entries, NEW src \in Item,
         e \notin acc.seen => /\ e \notin Ids(acc.out) /\ e[1] \in prov[src]
                              /\ \A j \in 1 .. src - 1 : e[1] \notin prov[j]
  PROVE  LET new == CollectEntry(acc, e, src)
         IN  /\ new.seen = acc.seen \cup {e} /\ Fit(new.out) /\ Sourced(new.out)
             /\ Ids(new.out) = Ids(acc.out) \cup (IF e \notin acc.seen /\ Passes(e) THEN {e} ELSE {})
<1> DEFINE t == Append(acc.out, Candidate(e, src))
<1>1. CASE e \in acc.seen
  BY <1>1 DEF CollectEntry
<1>2. CASE e \notin acc.seen /\ Passes(e)
  <2>1. Fit(t) /\ Sourced(t) /\ Ids(t) = Ids(acc.out) \cup {e}
    BY <1>2, CandidateFit
  <2>2. CollectEntry(acc, e, src) = [seen |-> acc.seen \cup {e}, out |-> t]
    BY <1>2 DEF CollectEntry
  <2> HIDE DEF t
  <2> QED BY <1>2, <2>1, <2>2
<1>3. CASE e \notin acc.seen /\ ~Passes(e)
  <2>1. CollectEntry(acc, e, src) = [seen |-> acc.seen \cup {e}, out |-> acc.out]
    BY <1>3 DEF CollectEntry
  <2> QED BY <1>3, <2>1
<1> QED BY <1>1, <1>2, <1>3

LEMMA NextItemIsTaken ==
  ASSUME IInv, CollectItem
  PROVE  IInv'
<1> USE DEF CollectItem
<1>1. Inputs /\ NItems \in Nat /\ at \in Nat /\ UNCHANGED <<mode, conf, prov, score>>
  BY InputTypes DEF IInv, TypeOK
<1>2. /\ Inputs' /\ Turns' = Turns /\ Entries' = Entries /\ Candidates' = Candidates /\ Lines' = Lines
      /\ \A e \in Entries : Passes(e)' <=> Passes(e)
  BY <1>1, InputsStay
<1>3. at' \in Item /\ at' = at + 1 /\ left' = prov[at'] /\ left' \subseteq Turns
  BY <1>1 DEF Item, Inputs
<1>4. TypeOK'
  BY <1>1, <1>2, <1>3 DEF IInv, TypeOK
<1>5. Fit(scored)' /\ Fit(base)'
  BY <1>1, FitStays DEF IInv
<1>6. \A e \in Entries : Looked(e)' <=> Looked(e)
  <2> TAKE e \in Entries
  <2>1. Looked(e) <=> \E j \in Item : e[1] \in prov[j] /\ j <= at
    BY <1>1 DEF Looked, Item
  <2>2. Looked(e)' <=> \E j \in Item : e[1] \in prov[j] /\ j <= at
    BY <1>1, <1>3 DEF Looked, Item
  <2> QED BY <2>1, <2>2
<1>7. Collecting'
  <2>1. at' <= NItems /\ (IF at' = 0 THEN left' = {} ELSE left' \subseteq prov'[at'])
    BY <1>1, <1>3 DEF Item
  <2>2. seen' = (IF mode = "turn" THEN {t \in Turns : Looked(<<t, 1>>) /\ Passes(<<t, 1>>)}
                 ELSE {e \in Entries : Looked(e)})'
    <3>1. \A t \in Turns : <<t, 1>> \in Entries
      BY DEF Entries, Parts
    <3> QED BY <1>1, <1>2, <1>6, <3>1 DEF IInv, Collecting
  <2>3. Ids(scored)' = {e \in Entries : Looked(e) /\ Passes(e)}'
    <3>1. Ids(scored)' = Ids(scored)
      BY DEF Ids
    <3> QED BY <1>2, <1>6, <3>1 DEF IInv, Collecting
  <2> QED BY <2>1, <2>2, <2>3 DEF IInv, Collecting, Direct
<1>8. Fetching' /\ Formatting'
  <2>1. Ids(scored)' = Ids(scored)
    BY DEF Ids
  <2> QED BY <1>2, <2>1 DEF IInv, Fetching, Formatting, Collecting
<1>9. SlotsWellSpent' /\ RerankedAreShown'
  BY DEF SlotsWellSpent, NoBetterLeftOut, QuotaServed, RerankedAreShown, Selected
<1> QED BY <1>2, <1>4, <1>5, <1>7, <1>8, <1>9 DEF IInv


\* A turn is looked at: the entries of other turns are as looked at as before.
LEMMA LookedGrows ==
  ASSUME Inputs, at \in Item, left \subseteq prov[at], NEW t \in left, at' = at, left' = left \ {t},
         UNCHANGED <<prov, mode, conf, score>>
  PROVE  /\ \A e \in Entries : Looked(e)' <=> Looked(e) \/ e[1] = t
         /\ \A e \in Entries : e[1] = t /\ ~Looked(e) =>
               e[1] \in prov[at] /\ \A j \in 1 .. at - 1 : e[1] \notin prov[j]
<1>1. NItems \in Nat /\ Item' = Item /\ \A j \in 1 .. at - 1 : j \in Item /\ j < at
  BY InputTypes DEF Item
<1>2. \A e \in Entries : e[1] = t => Looked(e)'
  BY <1>1 DEF Looked
<1>3. \A e \in Entries : e[1] # t => (Looked(e)' <=> Looked(e))
  BY <1>1 DEF Looked
<1>4. \A e \in Entries : Looked(e) => Looked(e)'
  BY <1>1 DEF Looked
<1>5. \A e \in Entries : e[1] = t /\ ~Looked(e) =>
         e[1] \in prov[at] /\ \A j \in 1 .. at - 1 : e[1] \notin prov[j]
  BY <1>1 DEF Looked
<1> QED BY <1>2, <1>3, <1>4, <1>5

LEMMA TurnIsLookedAt ==
  ASSUME IInv, LookAtTurn
  PROVE  IInv'
<1>0. /\ pc = "collect" /\ left # {}
      /\ UNCHANGED <<mode, conf, prov, score, pc, at, base, texts, reranked, items, block>>
  BY DEF LookAtTurn
<1>1. Inputs /\ NItems \in Nat /\ at \in Nat /\ UNCHANGED <<mode, conf, prov, score>>
  BY <1>0, InputTypes DEF IInv, TypeOK
<1>2. /\ Inputs' /\ Turns' = Turns /\ Entries' = Entries /\ Candidates' = Candidates /\ Lines' = Lines
      /\ \A e \in Entries : Passes(e)' <=> Passes(e)
  BY <1>1, InputsStay
<1>3. /\ at \in Item /\ left \subseteq prov[at] /\ left \subseteq Turns /\ left # {}
      /\ seen = IF mode = "turn" THEN {t \in Turns : Looked(<<t, 1>>) /\ Passes(<<t, 1>>)}
                ELSE {e \in Entries : Looked(e)}
      /\ Ids(scored) = {e \in Entries : Looked(e) /\ Passes(e)}
      /\ Fit(scored) /\ Sourced(scored)
  <2>1. /\ at <= NItems /\ at # 0 /\ left \subseteq prov[at]
    BY <1>0 DEF IInv, Collecting
  <2>2. at \in Item
    BY <1>1, <2>1 DEF Item
  <2> QED BY <1>0, <2>1, <2>2 DEF IInv, Collecting, TypeOK, Sourced
<1> DEFINE t == Max(left)
<1>4. t \in left /\ t \in Turns /\ left' = left \ {t}
  <2>1. left \in SUBSET Nat /\ IsFiniteSet(left)
    BY <1>1, <1>3, InputTypes, FS_Subset
  <2>2. left' = left \ {t}
    BY DEF LookAtTurn
  <2> HIDE DEF t
  <2>3. t \in left
    BY <1>3, <2>1, MaxIsIn DEF t
  <2> QED BY <1>3, <2>2, <2>3
<1> DEFINE acc == [seen |-> seen, out |-> scored]
           user == CollectEntry(acc, <<t, 1>>, at)
           new == IF mode = "turn" THEN CollectTurn(acc, t, at)
                  ELSE IF mode = "single" THEN user ELSE CollectEntry(user, <<t, 2>>, at)
<1>5. seen' = new.seen /\ scored' = new.out
  BY DEF LookAtTurn
<1> HIDE DEF t
<1>6. /\ \A e \in Entries : Looked(e)' <=> Looked(e) \/ e[1] = t
      /\ \A e \in Entries : e[1] = t /\ ~Looked(e) =>
            e[1] \in prov[at] /\ \A j \in 1 .. at - 1 : e[1] \notin prov[j]
  <2>1. at' = at /\ UNCHANGED <<prov, mode, conf, score>>
    BY <1>0
  <2> QED BY <1>1, <1>3, <1>4, <2>1, LookedGrows
<1>7. /\ Fit(scored') /\ Sourced(scored')
      /\ seen' = IF mode = "turn" THEN {u \in Turns : Looked(<<u, 1>>)' /\ Passes(<<u, 1>>)}
                 ELSE {e \in Entries : Looked(e)'}
      /\ Ids(scored') = {e \in Entries : Looked(e)' /\ Passes(e)}
  <2>1. CASE mode = "turn"
    <3>1. \A e : e \in Entries <=> \E u \in Turns : e = <<u, 1>>
      BY <2>1 DEF Entries, Parts
    <3> DEFINE e == <<t, 1>>
    <3>2. e \in Entries /\ e[1] = t /\ seen' = CollectTurn(acc, t, at).seen /\ scored' = CollectTurn(acc, t, at).out
      BY <1>4, <1>5, <2>1, <3>1
    <3>3. CASE t \in seen \/ ~Passes(e)
      <4>1. seen' = seen /\ scored' = scored
        BY <3>2, <3>3 DEF CollectTurn
      <4>2. \A u \in Turns : Passes(<<u, 1>>) => (Looked(<<u, 1>>)' <=> Looked(<<u, 1>>))
        BY <1>3, <1>6, <2>1, <3>1, <3>3
      <4>3. seen' = {u \in Turns : Looked(<<u, 1>>)' /\ Passes(<<u, 1>>)}
        BY <1>3, <2>1, <4>1, <4>2
      <4>4. Ids(scored') = {x \in Entries : Looked(x)' /\ Passes(x)}
        BY <1>3, <3>1, <4>1, <4>2
      <4> QED BY <1>3, <2>1, <4>1, <4>3, <4>4
    <3>4. CASE t \notin seen /\ Passes(e)
      <4>1. seen' = seen \cup {t} /\ scored' = Append(scored, Candidate(e, at))
        BY <3>2, <3>4 DEF CollectTurn
      <4>2. ~Looked(e) /\ e \notin Ids(scored)
        BY <1>3, <1>4, <2>1, <3>4
      <4>3. e[1] \in prov[at] /\ \A j \in 1 .. at - 1 : e[1] \notin prov[j]
        BY <1>6, <3>2, <4>2
      <4>4. Fit(scored') /\ Sourced(scored') /\ Ids(scored') = Ids(scored) \cup {e}
        <5> HIDE DEF e
        <5>1. /\ Fit(Append(scored, Candidate(e, at))) /\ Sourced(Append(scored, Candidate(e, at)))
              /\ Ids(Append(scored, Candidate(e, at))) = Ids(scored) \cup {e}
          BY <1>1, <1>3, <3>2, <3>4, <4>2, <4>3, CandidateFit
        <5> QED BY <4>1, <5>1
      <4>5. \A u \in Turns : Looked(<<u, 1>>)' <=> Looked(<<u, 1>>) \/ u = t
        BY <1>6, <3>1
      <4>6. seen' = {u \in Turns : Looked(<<u, 1>>)' /\ Passes(<<u, 1>>)}
        BY <1>3, <1>4, <2>1, <3>4, <4>1, <4>5
      <4>7. Ids(scored') = {x \in Entries : Looked(x)' /\ Passes(x)}
        BY <1>3, <3>1, <3>2, <3>4, <4>4, <4>5
      <4> QED BY <2>1, <4>4, <4>6, <4>7
    <3> QED BY <3>3, <3>4
  <2>2. CASE mode # "turn"
    <3> DEFINE e == <<t, 1>>
               f == <<t, 2>>
    <3>1. e \in Entries /\ e[1] = t /\ (mode # "single" => f \in Entries) /\ f[1] = t /\ e # f
      <4>1. 1 \in Parts /\ (mode # "single" => 2 \in Parts)
        BY <1>1, <2>2 DEF Parts, Inputs, Modes
      <4> QED BY <1>4, <4>1 DEF Entries
    <3>2. /\ user.seen = seen \cup {e} /\ Fit(user.out) /\ Sourced(user.out)
          /\ Ids(user.out) = Ids(scored) \cup (IF e \notin seen /\ Passes(e) THEN {e} ELSE {})
      <4>1. acc.seen = seen /\ acc.out = scored /\ Fit(acc.out) /\ Sourced(acc.out)
        BY <1>3
      <4>2. e \notin seen => /\ e \notin Ids(scored) /\ e[1] \in prov[at]
                             /\ \A j \in 1 .. at - 1 : e[1] \notin prov[j]
        BY <1>3, <1>6, <2>2, <3>1
      <4>3. user = CollectEntry(acc, e, at)
        OBVIOUS
      <4> HIDE DEF acc, e, user
      <4>4. e \notin acc.seen => /\ e \notin Ids(acc.out) /\ e[1] \in prov[at]
                                 /\ \A j \in 1 .. at - 1 : e[1] \notin prov[j]
        BY <4>1, <4>2
      <4>5. LET n == CollectEntry(acc, e, at)
            IN  /\ n.seen = acc.seen \cup {e} /\ Fit(n.out) /\ Sourced(n.out)
                /\ Ids(n.out) = Ids(acc.out) \cup (IF e \notin acc.seen /\ Passes(e) THEN {e} ELSE {})
        <5>1. Inputs /\ e \in Entries /\ at \in Item /\ Fit(acc.out) /\ Sourced(acc.out)
          BY <1>1, <1>3, <3>1, <4>1
        <5> QED BY <4>4, <5>1, EntryCollected
      <4> QED BY <4>1, <4>3, <4>5
    <3>3. CASE mode = "single"
      <4>1. seen' = seen \cup {e} /\ scored' = user.out
        BY <1>5, <3>2, <3>3
      <4>2. \A x \in Entries : x[1] = t => x = e
        BY <3>3 DEF Entries, Parts
      <4> HIDE DEF user, e, new, acc
      <4>3. /\ \A x \in Entries : Looked(x)' <=> Looked(x) \/ x = e
            /\ seen = {x \in Entries : Looked(x)}
        BY <1>3, <1>6, <2>2, <3>1, <4>2
      <4>4. seen' = {x \in Entries : Looked(x)'}
        BY <3>1, <4>1, <4>3
      <4>5. Ids(scored') = {x \in Entries : Looked(x)' /\ Passes(x)}
        BY <1>3, <3>1, <3>2, <4>1, <4>3
      <4> QED BY <2>2, <3>2, <4>1, <4>4, <4>5
    <3>4. CASE mode # "single"
      <4> DEFINE both == CollectEntry(user, f, at)
      <4>1. f \notin user.seen => /\ f \notin Ids(user.out) /\ f[1] \in prov[at]
                                  /\ \A j \in 1 .. at - 1 : f[1] \notin prov[j]
        <5> HIDE DEF user
        <5> QED BY <1>3, <1>6, <2>2, <3>1, <3>2, <3>4
      <4>2. /\ both.seen = user.seen \cup {f} /\ Fit(both.out) /\ Sourced(both.out)
            /\ Ids(both.out) = Ids(user.out) \cup (IF f \notin user.seen /\ Passes(f) THEN {f} ELSE {})
        <5>1. /\ f \in Entries /\ Fit(user.out) /\ Sourced(user.out)
              /\ both = CollectEntry(user, f, at)
          BY <3>1, <3>2, <3>4
        <5> HIDE DEF user, f, both
        <5>2. LET n == CollectEntry(user, f, at)
              IN  /\ n.seen = user.seen \cup {f} /\ Fit(n.out) /\ Sourced(n.out)
                  /\ Ids(n.out) = Ids(user.out) \cup (IF f \notin user.seen /\ Passes(f) THEN {f} ELSE {})
          BY <1>1, <1>3, <4>1, <5>1, EntryCollected
        <5> QED BY <5>1, <5>2
      <4>3. seen' = both.seen /\ scored' = both.out
        BY <1>5, <2>2, <3>4
      <4>4. \A x \in Entries : x[1] = t => x = e \/ x = f
        BY <2>2, <3>4 DEF Entries, Parts
      <4> HIDE DEF both, user, e, f, new, acc
      <4>5. /\ \A x \in Entries : Looked(x)' <=> Looked(x) \/ x = e \/ x = f
            /\ seen = {x \in Entries : Looked(x)} /\ f \in Entries
        BY <1>3, <1>6, <2>2, <3>1, <3>4, <4>4
      <4>6. seen' = {x \in Entries : Looked(x)'}
        BY <3>1, <3>2, <4>2, <4>3, <4>5
      <4>7. f \notin user.seen <=> ~Looked(f)
        BY <3>1, <3>2, <4>5
      <4>8. /\ Ids(user.out) = {x \in Entries : (Looked(x) \/ x = e) /\ Passes(x)}
        BY <1>3, <3>1, <3>2, <4>5
      <4>9. Ids(scored') = {x \in Entries : Looked(x)' /\ Passes(x)}
        BY <4>2, <4>3, <4>5, <4>7, <4>8
      <4> QED BY <2>2, <4>2, <4>3, <4>6, <4>9
    <3> QED BY <3>3, <3>4
  <2> QED BY <2>1, <2>2
<1>8. TypeOK'
  <2>1. scored' \in Seq(Candidates)
    BY <1>7 DEF Fit
  <2> QED BY <1>0, <1>1, <1>2, <1>3, <1>4, <2>1 DEF IInv, TypeOK
<1>9. Fit(scored)' /\ Fit(base)'
  BY <1>0, <1>1, <1>7, FitStays DEF IInv
<1>10. Collecting'
  <2>1. Ids(scored)' = Ids(scored')
    BY DEF Ids
  <2>2. \A u \in Turns : mode = "turn" => <<u, 1>> \in Entries
    BY DEF Entries, Parts
  <2>3. seen' = (IF mode = "turn" THEN {u \in Turns : Looked(<<u, 1>>) /\ Passes(<<u, 1>>)}
                 ELSE {e \in Entries : Looked(e)})'
    BY <1>0, <1>1, <1>2, <1>7, <2>2
  <2>4. Ids(scored)' = {e \in Entries : Looked(e) /\ Passes(e)}'
    BY <1>2, <1>7, <2>1
  <2>5. at' <= NItems /\ (IF at' = 0 THEN left' = {} ELSE left' \subseteq prov'[at'])
    BY <1>0, <1>1, <1>3, <1>4 DEF IInv, Collecting
  <2> QED BY <1>0, <1>7, <2>3, <2>4, <2>5 DEF IInv, Collecting, Direct, Sourced
<1>11. Fetching' /\ Formatting'
  BY <1>0, <1>2 DEF IInv, Fetching, Formatting, Collecting
<1>12. SlotsWellSpent' /\ RerankedAreShown'
  BY <1>0 DEF SlotsWellSpent, NoBetterLeftOut, QuotaServed, RerankedAreShown, Selected
<1> QED BY <1>2, <1>8, <1>9, <1>10, <1>11, <1>12 DEF IInv

-------------------------------------------------------------------------------
(* Fetching, formatting and narrowing.                                     *)

TextsOf == [id : Entries, text : {"summary", "truncated", "raw"}]

LEMMA SnippetIsFetched ==
  ASSUME IInv, FetchSnippet
  PROVE  IInv'
<1>0. /\ pc = "fetch" /\ at < Len(scored) /\ at' = at + 1
      /\ UNCHANGED <<mode, conf, prov, score, pc, left, seen, scored, base, texts, reranked, block>>
  BY DEF FetchSnippet
<1>1. Inputs /\ at \in Nat /\ Fit(scored) /\ Len(scored) \in Nat
  BY FitTypes DEF IInv, TypeOK
<1>2. /\ Inputs' /\ Turns' = Turns /\ Entries' = Entries /\ Candidates' = Candidates /\ Lines' = Lines
  BY <1>0, <1>1, InputsStay
<1> DEFINE c == scored[at + 1]
<1>3. c.id \in Entries /\ at + 1 \in 1 .. Len(scored) /\ c.id \in Ids(scored)
  <2>1. at + 1 \in 1 .. Len(scored)
    BY <1>0, <1>1
  <2> QED BY <1>1, <2>1, FitTypes
<1>4. PICK text \in IF mode = "turn" THEN TurnText ELSE EntryText(c.id) :
        items' = IF text = "none" THEN items ELSE Append(items, [id |-> c.id, text |-> text])
  BY DEF FetchSnippet
<1>5. items \in Seq(TextsOf) /\ Len(items) \in Nat
  BY LenProperties DEF IInv, TypeOK, TextsOf
<1>6. text \in {"summary", "truncated", "raw", "none"} /\ (reranked => text # "none")
  <2>1. text \in {"summary", "truncated", "raw", "none"}
    BY <1>4 DEF TurnText, EntryText
  <2>2. reranked => mode # "turn" /\ c.id \in texts
    BY <1>3 DEF IInv, Fetching
  <2> QED BY <1>4, <2>1, <2>2 DEF EntryText
<1>7. /\ items' \in Seq(TextsOf)
      /\ text # "none" => /\ Len(items') = Len(items) + 1 /\ items'[Len(items) + 1].id = c.id
                          /\ \A i \in 1 .. Len(items) : items'[i] = items[i]
  <2> DEFINE x == [id |-> c.id, text |-> text]
  <2>1. CASE text = "none"
    BY <1>4, <1>5, <2>1
  <2>2. CASE text # "none"
    <3>1. x \in TextsOf /\ x.id = c.id /\ items' = Append(items, x)
      BY <1>3, <1>4, <1>6, <2>2 DEF TextsOf
    <3> HIDE DEF x, c
    <3> QED BY <1>5, <3>1, AppendProperties
  <2> QED BY <2>1, <2>2
<1>8. TypeOK'
  BY <1>0, <1>1, <1>2, <1>7 DEF IInv, TypeOK, TextsOf
<1>9. Fit(scored)' /\ Fit(base)'
  BY <1>0, <1>1, FitStays DEF IInv
<1>10. Fetching'
  <2>1. ASSUME reranked PROVE Len(items') = at' /\ \A i \in 1 .. at' : items'[i].id = scored'[i].id
    <3>1. Len(items) = at /\ \A i \in 1 .. at : items[i].id = scored[i].id
      BY <1>0, <2>1 DEF IInv, Fetching
    <3> HIDE DEF c
    <3>2. Len(items') = at + 1 /\ items'[at + 1].id = c.id /\ \A i \in 1 .. at : items'[i] = items[i]
      BY <1>6, <1>7, <2>1, <3>1
    <3>3. \A i \in 1 .. at + 1 : i \in 1 .. at \/ i = at + 1
      BY <1>1
    <3> QED BY <1>0, <3>1, <3>2, <3>3 DEF c
  <2>2. Ids(scored)' = Ids(scored)
    BY <1>0 DEF Ids
  <2>3. at' <= Len(scored')
    BY <1>0, <1>1
  <2> QED BY <1>0, <2>1, <2>2, <2>3 DEF IInv, Fetching
<1>11. Formatting' /\ Collecting'
  BY <1>0, <1>2 DEF IInv, Formatting, Collecting
<1>12. SlotsWellSpent'
  BY <1>0, <1>1, SlotsStay DEF IInv, Selected
<1>13. RerankedAreShown'
  <2>1. Ids(base)' = Ids(base) /\ Reached' = Reached
    BY <1>0, <1>1, InputsStay DEF Ids
  <2> QED BY <1>0, <2>1 DEF IInv, RerankedAreShown, Selected
<1> QED BY <1>2, <1>8, <1>9, <1>10, <1>11, <1>12, <1>13 DEF IInv

\* What the steps after the fetching leave as it was.
LEMMA BlockSteps ==
  ASSUME IInv, Selected, Selected', pc # "collect",
         UNCHANGED <<mode, conf, prov, score, left, seen, scored, base, texts, reranked, items>>,
         pc' \in {"format", "narrow", "done"}, at' \in Nat, Formatting',
         reranked => \/ pc \in {"format", "narrow"}
                     \/ [i \in DOMAIN items |-> items[i].id] = [i \in DOMAIN scored |-> scored[i].id]
  PROVE  IInv'
<1>1. Inputs /\ Inputs' /\ Turns' = Turns /\ Entries' = Entries /\ Candidates' = Candidates
  BY InputsStay DEF IInv
<1>2. TypeOK'
  BY <1>1 DEF IInv, TypeOK
<1>3. Fit(scored)' /\ Fit(base)'
  BY <1>1, FitStays DEF IInv
<1>4. Collecting' /\ Fetching'
  <2>1. Ids(scored)' = Ids(scored)
    BY DEF Ids
  <2> QED BY <2>1 DEF IInv, Collecting, Fetching
<1>5. SlotsWellSpent'
  BY <1>1, SlotsStay DEF IInv
<1>6. RerankedAreShown'
  <2>1. Ids(base)' = Ids(base) /\ Reached' = Reached
    BY <1>1, InputsStay DEF Ids
  <2> QED BY <2>1 DEF IInv, RerankedAreShown, Selected
<1> QED BY <1>1, <1>2, <1>3, <1>4, <1>5, <1>6 DEF IInv

LEMMA BlockIsBegun ==
  ASSUME IInv, FormatBlock
  PROVE  IInv'
<1>0. /\ pc = "fetch" /\ at = Len(scored) /\ at' = 0
      /\ UNCHANGED <<mode, conf, prov, score, left, seen, scored, base, texts, reranked, items>>
      /\ IF items = <<>> THEN pc' = "done" /\ block' = block ELSE pc' = "format" /\ block' = <<Title>>
  BY DEF FormatBlock
<1>1. Inputs /\ Fit(scored) /\ items \in Seq(TextsOf) /\ Len(items) \in Nat /\ DOMAIN items = 1 .. Len(items)
      /\ DOMAIN scored = 1 .. Len(scored)
  BY FitTypes, LenProperties DEF IInv, TypeOK, TextsOf
<1>2. Lines' = Lines
  BY <1>0, <1>1, InputsStay
<1>3. Formatting'
  <2>1. block' \in Seq(Lines)
    <3>1. Title \in Lines
      BY DEF Title, Lines
    <3>2. <<Title>> \in Seq(Lines)
      BY <3>1
    <3> QED BY <1>0, <3>2 DEF IInv, Formatting
  <2>2. items # <<>> => Len(items) > 0
    BY <1>1, EmptySeq
  <2> QED BY <1>0, <1>2, <2>1, <2>2 DEF Formatting
<1>4. reranked => [i \in DOMAIN items |-> items[i].id] = [i \in DOMAIN scored |-> scored[i].id]
  <2> HAVE reranked
  <2>1. Len(items) = Len(scored) /\ \A i \in 1 .. Len(scored) : items[i].id = scored[i].id
    BY <1>0 DEF IInv, Fetching
  <2> QED BY <1>1, <2>1
<1>5. pc # "collect" /\ Selected /\ Selected' /\ pc' \in {"format", "narrow", "done"} /\ at' \in Nat
  BY <1>0 DEF Selected
<1> QED BY <1>0, <1>3, <1>4, <1>5, BlockSteps

LEMMA ItemIsFormatted ==
  ASSUME IInv, FormatItem
  PROVE  IInv'
<1>0. /\ pc = "format" /\ at' = at + 1 /\ pc' = IF at' = Len(items) THEN "narrow" ELSE "format"
      /\ UNCHANGED <<mode, conf, prov, score, left, seen, scored, base, texts, reranked, items>>
  BY DEF FormatItem
<1>1. Inputs /\ items \in Seq(TextsOf) /\ Len(items) \in Nat /\ at \in Nat
  BY LenProperties DEF IInv, TypeOK, TextsOf
<1>2. Lines' = Lines
  BY <1>0, <1>1, InputsStay
<1>3. at < Len(items) /\ block \in Seq(Lines) /\ Len(block) \in Nat
  BY <1>0, LenProperties DEF IInv, Formatting
<1>4. PICK header \in BOOLEAN : block' = block \o LinesOf(items[at'], header)
  BY DEF FormatItem
<1> DEFINE new == LinesOf(items[at'], header)
<1>5. new \in Seq(Lines) /\ Len(new) \in Nat \ {0} /\ ~new[1].header
  <2>1. items[at'] \in TextsOf
    BY <1>0, <1>1, <1>3, ElementOfSeq
  <2> DEFINE x == items[at']
             one == [id |-> x.id, part |-> 1, header |-> FALSE]
             two == [id |-> x.id, part |-> 2, header |-> header]
  <2>2. one \in Lines /\ two \in Lines /\ ~one.header
    BY <2>1 DEF Lines, TextsOf
  <2>3. new = <<one>> \o IF x.text = "raw" THEN <<two>> ELSE <<>>
    BY DEF LinesOf
  <2> HIDE DEF x, one, two, new
  <2>4. <<one>> \in Seq(Lines) /\ <<two>> \in Seq(Lines) /\ <<>> \in Seq(Lines)
        /\ Len(<<one>>) = 1 /\ <<one>>[1] = one /\ Len(<<two>>) = 1 /\ Len(<<>>) = 0
    BY <2>2
  <2> DEFINE rest == IF x.text = "raw" THEN <<two>> ELSE <<>>
  <2>5. rest \in Seq(Lines) /\ Len(rest) \in Nat /\ new = <<one>> \o rest
    BY <2>3, <2>4
  <2> HIDE DEF rest
  <2>6. /\ new \in Seq(Lines) /\ Len(new) = 1 + Len(rest) /\ new[1] = one
    BY <2>4, <2>5, ConcatProperties
  <2> QED BY <2>2, <2>5, <2>6
<1> HIDE DEF new
<1>6. /\ block' \in Seq(Lines) /\ Len(block') = Len(block) + Len(new)
      /\ block'[Len(block) + 1] = new[1]
  <2>1. Len(block) + 1 \in 1 .. Len(block) + Len(new) /\ ~(Len(block) + 1 <= Len(block))
        /\ Len(block) + 1 - Len(block) = 1
    BY <1>3, <1>5
  <2>2. block' = block \o new
    BY <1>4 DEF new
  <2> QED BY <1>3, <1>5, <2>1, <2>2, ConcatProperties
<1>7. Formatting'
  <2>1. \E i \in 1 .. Len(block') : ~block'[i].header
    BY <1>3, <1>5, <1>6
  <2>2. pc' = "format" => at' < Len(items')
    BY <1>0, <1>1, <1>3
  <2> QED BY <1>2, <1>6, <2>1, <2>2 DEF Formatting
<1>8. pc # "collect" /\ Selected /\ Selected' /\ pc' \in {"format", "narrow", "done"} /\ at' \in Nat
  BY <1>0, <1>1 DEF Selected
<1> QED BY <1>0, <1>7, <1>8, BlockSteps

\* The lines of the block that are, or are not, headings.
LEMMA NarrowedTypes ==
  ASSUME NEW S, NEW s \in Seq(S)
  PROVE  /\ Headings(s) \in Seq(S) /\ Snippets(s) \in Seq(S)
         /\ Sublist(Headings(s), s, {i \in DOMAIN s : s[i].header})
         /\ Sublist(Snippets(s), s, {i \in DOMAIN s : ~s[i].header})
         /\ Len(Snippets(s)) = Cardinality({i \in DOMAIN s : ~s[i].header})
         /\ Len(Headings(s)) = Cardinality({i \in DOMAIN s : s[i].header})
<1> DEFINE P == {i \in DOMAIN s : s[i].header}
           Q == {i \in DOMAIN s : ~s[i].header}
<1>1. P \in SUBSET (1 .. Len(s)) /\ Q \in SUBSET (1 .. Len(s))
  BY LenProperties
<1>2. Headings(s) = At(s, P) /\ Snippets(s) = At(s, Q)
  BY DEF Headings, Snippets
<1> HIDE DEF P, Q
<1>3. At(s, P) \in Seq(S) /\ At(s, Q) \in Seq(S) /\ Sublist(At(s, P), s, P) /\ Sublist(At(s, Q), s, Q)
      /\ Len(At(s, P)) = Cardinality(P) /\ Len(At(s, Q)) = Cardinality(Q)
  BY <1>1, AtItems
<1> QED BY <1>2, <1>3 DEF P, Q

LEMMA BlockIsNarrowed ==
  ASSUME IInv, Narrow
  PROVE  IInv'
<1>0. /\ pc = "narrow" /\ pc' = "done"
      /\ UNCHANGED <<mode, conf, prov, score, at, left, seen, scored, base, texts, reranked, items>>
  BY DEF Narrow
<1>1. Inputs /\ block \in Seq(Lines) /\ at' \in Nat
  BY <1>0 DEF IInv, Formatting, TypeOK
<1>2. Lines' = Lines
  BY <1>0, <1>1, InputsStay
<1>3. block' \in Seq(Lines)
  <2>1. CASE block' = block
    BY <1>1, <2>1
  <2>2. ASSUME NEW overlap, block' = NarrowedBy(overlap)
        PROVE  block' \in Seq(Lines)
    <3> DEFINE new == Snippets(block)
               K == KeptLines(Len(new), overlap)
    <3>1. new \in Seq(Lines) /\ Headings(block) \in Seq(Lines)
      BY <1>1, NarrowedTypes
    <3>2. K \in SUBSET (1 .. Len(new))
      BY DEF KeptLines
    <3>3. block' = Headings(block) \o At(new, K)
      BY <2>2 DEF NarrowedBy
    <3> HIDE DEF new, K
    <3>4. At(new, K) \in Seq(Lines)
      BY <3>1, <3>2, AtItems
    <3> QED BY <3>1, <3>3, <3>4, ConcatProperties
  <2> QED BY <2>1, <2>2 DEF Narrow
<1>4. Formatting'
  BY <1>0, <1>2, <1>3 DEF Formatting
<1>5. pc # "collect" /\ Selected /\ Selected' /\ pc' \in {"format", "narrow", "done"}
  BY <1>0 DEF Selected
<1> QED BY <1>0, <1>1, <1>4, <1>5, BlockSteps

-------------------------------------------------------------------------------
(* Narrowing.                                                              *)

\* The lines that are kept: some, and no more than the budget.
LEMMA SomeLinesAreKept ==
  ASSUME NEW n \in Nat \ {0}, NEW overlap \in [1 .. n -> Overlaps]
  PROVE  /\ KeptLines(n, overlap) \in SUBSET (1 .. n) /\ KeptLines(n, overlap) # {}
         /\ Cardinality(KeptLines(n, overlap)) <= KeepTopN
<1> DEFINE enough == {i \in 1 .. n : overlap[i] >= MinOverlap}
           usable == IF enough = {} THEN 1 .. n ELSE enough
           R == {p \in usable \X usable : overlap[p[1]] > overlap[p[2]]
                                          \/ (overlap[p[1]] = overlap[p[2]] /\ p[1] < p[2])}
<1>1. /\ usable \in SUBSET (1 .. n) /\ usable # {} /\ KeepTopN \in Nat \ {0}
      /\ \A i \in 1 .. n : overlap[i] \in Nat
  <2>1. KeepTopN \in Nat \ {0} /\ Overlaps \subseteq Nat
    BY EvidenceAssumption
  <2>2. 1 \in 1 .. n
    OBVIOUS
  <2> QED BY <2>1, <2>2
<1>2. IsFiniteSet(usable)
  <2> HIDE DEF usable
  <2>1. IsFiniteSet(1 .. n)
    BY FS_Interval
  <2> QED BY <1>1, <2>1, FS_Subset
<1>3. KeptLines(n, overlap) = {i \in usable : Cardinality({j \in usable : overlap[j] > overlap[i]
                                                \/ (overlap[j] = overlap[i] /\ j < i)}) < KeepTopN}
  BY DEF KeptLines
<1> HIDE DEF usable
<1>4. Linear(usable, R)
  <2>1. \A i, j \in usable : <<i, j>> \in R <=> overlap[i] > overlap[j]
                                             \/ (overlap[i] = overlap[j] /\ i < j)
    OBVIOUS
  <2> HIDE DEF R
  <2>2. \A i, j \in usable : i # j <=> <<i, j>> \in R \/ <<j, i>> \in R
    <3> TAKE i, j \in usable
    <3>1. i \in Nat /\ j \in Nat /\ overlap[i] \in Nat /\ overlap[j] \in Nat
      BY <1>1
    <3> QED BY <2>1, <3>1
  <2>3. \A i, j, k \in usable : <<i, j>> \in R /\ <<j, k>> \in R => <<i, k>> \in R
    <3> TAKE i, j, k \in usable
    <3>1. /\ i \in Nat /\ j \in Nat /\ k \in Nat
          /\ overlap[i] \in Nat /\ overlap[j] \in Nat /\ overlap[k] \in Nat
      BY <1>1
    <3> QED BY <2>1, <3>1
  <2> QED BY <1>2, <2>2, <2>3 DEF Linear
<1>5. KeptLines(n, overlap) = Leading(usable, R, KeepTopN)
  <2>1. \A i \in usable : {j \in usable : overlap[j] > overlap[i]
                            \/ (overlap[j] = overlap[i] /\ j < i)} = Earlier(usable, R, i)
    BY DEF Earlier
  <2> QED BY <1>3, <2>1 DEF Leading
<1> HIDE DEF R
<1> DEFINE K == Leading(usable, R, KeepTopN)
<1>6. /\ IsFiniteSet(K) /\ Cardinality(usable) \in Nat
      /\ Cardinality(K) = IF Cardinality(usable) < KeepTopN THEN Cardinality(usable) ELSE KeepTopN
  BY <1>1, <1>4, LeadingPlaces
<1>7. Cardinality(usable) # 0
  BY <1>1, <1>2, FS_EmptySet
<1> HIDE DEF K
<1>8. Cardinality(K) <= KeepTopN /\ Cardinality(K) # 0
  BY <1>1, <1>6, <1>7
<1>9. K # {} /\ K \in SUBSET (1 .. n)
  <2>1. K # {}
    BY <1>8, FS_EmptySet
  <2> QED BY <1>1, <2>1 DEF K, Leading
<1> QED BY <1>5, <1>8, <1>9 DEF K

\* t has lines of s, each later one from a later place.
Drops(t, s) ==
    \E f \in [DOMAIN t -> DOMAIN s] :
        /\ \A k \in DOMAIN t : t[k] = s[f[k]]
        /\ \A k \in 1 .. (Len(t) - 1) : f[k] < f[k + 1]

\* After the cut, the lines that are not headings are lines that were kept.
LEMMA KeptLinesRemain ==
  ASSUME NEW S, NEW s \in Seq(S), NEW K \in SUBSET (1 .. Len(Snippets(s)))
  PROVE  LET old == Snippets(s)
             new == Snippets(Headings(s) \o At(old, K))
         IN  Len(new) = Cardinality(K) /\ Cardinality(K) \in Nat /\ Drops(new, old)
<1> DEFINE old == Snippets(s)
           H == Headings(s)
           T == At(old, K)
           u == H \o T
           new == Snippets(u)
           P == {i \in DOMAIN s : s[i].header}
           N == {i \in DOMAIN s : ~s[i].header}
<1>1. /\ H \in Seq(S) /\ old \in Seq(S) /\ Sublist(H, s, P) /\ Sublist(old, s, N)
      /\ Len(H) = Cardinality(P) /\ Len(old) = Cardinality(N)
  BY NarrowedTypes
<1>2. (\A i \in 1 .. Len(H) : H[i].header) /\ \A i \in 1 .. Len(old) : ~old[i].header
  <2> HIDE DEF H, old
  <2>1. PICK f \in [1 .. Cardinality(P) -> P] : \A k \in 1 .. Cardinality(P) : H[k] = s[f[k]]
    BY <1>1 DEF Sublist
  <2>2. PICK g \in [1 .. Cardinality(N) -> N] : \A k \in 1 .. Cardinality(N) : old[k] = s[g[k]]
    BY <1>1 DEF Sublist
  <2>3. (\A i \in P : s[i].header) /\ \A i \in N : ~s[i].header
    OBVIOUS
  <2> HIDE DEF P, N
  <2> QED BY <1>1, <2>1, <2>2, <2>3
<1>3. /\ T \in Seq(S) /\ Len(T) = Cardinality(K) /\ Cardinality(K) \in Nat /\ Sublist(T, old, K)
      /\ K \in SUBSET (1 .. Len(old))
  <2>1. K \in SUBSET (1 .. Len(old))
    OBVIOUS
  <2> HIDE DEF old
  <2> QED BY <1>1, <2>1, AtItems
<1>4. Len(H) \in Nat /\ Len(old) \in Nat
  BY <1>1, LenProperties
<1> HIDE DEF T, H, P, N, old
<1>5. PICK f \in [1 .. Cardinality(K) -> K] :
        /\ \A k \in 1 .. Cardinality(K) : T[k] = old[f[k]]
        /\ \A k, l \in 1 .. Cardinality(K) : k < l <=> f[k] < f[l]
  BY <1>3 DEF Sublist
<1>6. /\ u \in Seq(S) /\ Len(u) = Len(H) + Len(T) /\ DOMAIN u = 1 .. Len(u)
      /\ \A i \in 1 .. Len(H) + Len(T) : u[i] = IF i <= Len(H) THEN H[i] ELSE T[i - Len(H)]
  BY <1>1, <1>3, ConcatProperties, LenProperties
<1> DEFINE Q == {i \in DOMAIN u : ~u[i].header}
<1>7. Q = Len(H) + 1 .. Len(H) + Len(T)
  <2>1. ASSUME NEW i \in 1 .. Len(H) + Len(T), i <= Len(H) PROVE u[i].header
    BY <1>2, <1>4, <1>6, <2>1
  <2>2. ASSUME NEW i \in 1 .. Len(H) + Len(T), ~(i <= Len(H)) PROVE ~u[i].header
    <3>1. i - Len(H) \in 1 .. Len(T) /\ u[i] = T[i - Len(H)]
      BY <1>3, <1>4, <1>6, <2>2
    <3>2. PICK k \in 1 .. Len(T) : u[i] = T[k]
      BY <3>1
    <3>3. T[k] = old[f[k]] /\ f[k] \in 1 .. Len(old)
      BY <1>3, <1>5, <3>2
    <3> QED BY <1>2, <3>2, <3>3
  <2>3. \A i \in 1 .. Len(H) + Len(T) : i \in Q <=> ~(i <= Len(H))
    BY <1>6, <2>1, <2>2
  <2>4. \A i \in Q : i \in 1 .. Len(H) + Len(T)
    BY <1>6
  <2> HIDE DEF Q
  <2> DEFINE a == Len(H)
             b == Len(T)
  <2>5. a \in Nat /\ b \in Nat
    BY <1>3, <1>4
  <2>6. \A i : i \in Q <=> i \in 1 .. a + b /\ ~(i <= a)
    BY <2>3, <2>4
  <2> HIDE DEF a, b
  <2>7. \A i : i \in 1 .. a + b /\ ~(i <= a) <=> i \in a + 1 .. a + b
    BY <2>5
  <2>8. Q = a + 1 .. a + b
    BY <2>6, <2>7
  <2> QED BY <2>8 DEF a, b
<1>8. new \in Seq(S) /\ Sublist(new, u, Q) /\ Len(new) = Cardinality(Q)
  <2> HIDE DEF u
  <2> QED BY <1>6, NarrowedTypes
<1> HIDE DEF u, Q, new
<1>9. Cardinality(Q) = Cardinality(K)
  <2> DEFINE a == Len(H) + 1
             b == Len(H) + Len(T)
  <2>1. a \in Int /\ b \in Int /\ b = a - 1 + Cardinality(K)
    BY <1>3, <1>4
  <2>2. Q = a .. b
    BY <1>7
  <2> HIDE DEF a, b
  <2>3. Cardinality(Q) = IF a > b THEN 0 ELSE b - a + 1
    BY <2>1, <2>2, FS_Interval
  <2> QED BY <1>3, <2>1, <2>3
<1>10. PICK g \in [1 .. Cardinality(Q) -> Q] :
        /\ \A k \in 1 .. Cardinality(Q) : new[k] = u[g[k]]
        /\ \A k, l \in 1 .. Cardinality(Q) : k < l <=> g[k] < g[l]
  BY <1>8 DEF Sublist
<1> DEFINE n == Cardinality(K)
           h == [k \in 1 .. n |-> f[g[k] - Len(H)]]
<1>11. ASSUME NEW k \in 1 .. n
       PROVE  /\ g[k] - Len(H) \in 1 .. n /\ h[k] \in 1 .. Len(old)
              /\ new[k] = old[h[k]]
  <2>1. g[k] \in Len(H) + 1 .. Len(H) + Len(T) /\ new[k] = u[g[k]]
    BY <1>7, <1>9, <1>10
  <2>2. /\ g[k] \in 1 .. Len(H) + Len(T) /\ ~(g[k] <= Len(H)) /\ g[k] - Len(H) \in 1 .. Len(T)
    BY <1>3, <1>4, <2>1
  <2>3. new[k] = T[g[k] - Len(H)]
    BY <1>6, <2>1, <2>2
  <2>4. f[g[k] - Len(H)] \in 1 .. Len(old) /\ T[g[k] - Len(H)] = old[f[g[k] - Len(H)]]
    BY <1>3, <1>5, <2>2
  <2> QED BY <1>3, <2>2, <2>3, <2>4
<1>12. ASSUME NEW k \in 1 .. (n - 1) PROVE h[k] < h[k + 1]
  <2>1. k \in 1 .. n /\ k + 1 \in 1 .. n /\ k < k + 1
    BY <1>3
  <2>2. PICK l \in 1 .. n : l = k + 1
    BY <2>1
  <2>3. g[k] < g[l]
    BY <1>9, <1>10, <2>1, <2>2
  <2>4. g[k] \in Nat /\ g[l] \in Nat
    BY <1>4, <1>7, <1>9, <1>10, <2>1
  <2> DEFINE x == g[k] - Len(H)
             y == g[l] - Len(H)
  <2>5. x \in 1 .. n /\ y \in 1 .. n /\ x < y
    <3>1. x \in 1 .. n /\ y \in 1 .. n
      BY <1>11, <2>1
    <3> QED BY <1>4, <2>3, <2>4, <3>1
  <2>6. h[k] = f[x] /\ h[l] = f[y]
    BY <2>1
  <2> HIDE DEF x, y, h
  <2> QED BY <1>5, <2>2, <2>5, <2>6
<1>13. Drops(new, old)
  <2>1. DOMAIN new = 1 .. n /\ Len(new) = n /\ DOMAIN old = 1 .. Len(old)
    BY <1>1, <1>8, <1>9, LenProperties
  <2>2. h \in [DOMAIN new -> DOMAIN old] /\ \A k \in DOMAIN new : new[k] = old[h[k]]
    BY <1>11, <2>1
  <2> HIDE DEF h
  <2> QED BY <1>12, <2>1, <2>2 DEF Drops
<1> QED BY <1>3, <1>8, <1>9, <1>13 DEF new, u, H, T, old

LEMMA NarrowingStep ==
  ASSUME IInv, pc = "narrow", [Next]_vars
  PROVE  LET old == Snippets(block) new == Snippets(block')
         IN  new # <<>> /\ (new = old \/ Len(new) <= KeepTopN) /\ Drops(new, old)
<1> DEFINE old == Snippets(block)
           N == {i \in DOMAIN block : ~block[i].header}
<1>1. /\ block \in Seq(Lines) /\ N # {} /\ N \in SUBSET (1 .. Len(block)) /\ Len(block) \in Nat
  BY LenProperties DEF IInv, Formatting
<1>2. old \in Seq(Lines) /\ Len(old) = Cardinality(N) /\ Len(old) \in Nat
  BY <1>1, NarrowedTypes, LenProperties
<1>3. Len(old) # 0
  <2>1. IsFiniteSet(N)
    BY <1>1, FS_Interval, FS_Subset
  <2> HIDE DEF N
  <2> QED BY <1>1, <1>2, <2>1, FS_EmptySet
<1> HIDE DEF N
<1>4. CASE block' = block
  <2> HIDE DEF old
  <2> DEFINE f == [k \in DOMAIN old |-> k]
  <2>1. /\ f \in [DOMAIN old -> DOMAIN old] /\ DOMAIN old = 1 .. Len(old)
        /\ \A k \in DOMAIN old : old[k] = old[f[k]]
        /\ \A k \in 1 .. (Len(old) - 1) : f[k] < f[k + 1]
    <3>1. DOMAIN old = 1 .. Len(old)
      BY <1>2, LenProperties
    <3> QED BY <1>2, <3>1
  <2> HIDE DEF f
  <2>2. Drops(old, old)
    BY <2>1 DEF Drops
  <2>3. old # <<>>
    BY <1>2, <1>3, EmptySeq
  <2> QED BY <1>4, <2>2, <2>3 DEF old
<1>5. ASSUME NEW overlap \in [1 .. Len(old) -> Overlaps], block' = NarrowedBy(overlap)
      PROVE  LET new == Snippets(block')
             IN  new # <<>> /\ Len(new) <= KeepTopN /\ Drops(new, old)
  <2> DEFINE K == KeptLines(Len(old), overlap)
             new == Snippets(block')
  <2>1. K \in SUBSET (1 .. Len(old)) /\ K # {} /\ Cardinality(K) <= KeepTopN
    <3> HIDE DEF old
    <3> QED BY <1>2, <1>3, <1>5, SomeLinesAreKept
  <2>2. block' = Headings(block) \o At(old, K)
    BY <1>5 DEF NarrowedBy
  <2> HIDE DEF K
  <2>3. Len(new) = Cardinality(K) /\ Cardinality(K) \in Nat /\ Drops(new, old)
    BY <1>1, <2>1, <2>2, KeptLinesRemain
  <2>4. Cardinality(K) # 0
    <3>1. IsFiniteSet(1 .. Len(old))
      BY <1>2, FS_Interval
    <3>2. IsFiniteSet(K)
      BY <2>1, <3>1, FS_Subset
    <3> QED BY <2>1, <3>2, FS_EmptySet
  <2>5. new # <<>>
    BY <2>3, <2>4, EmptySeq
  <2> QED BY <2>1, <2>3, <2>5
<1>6. block' = block \/ \E overlap \in [1 .. Len(old) -> Overlaps] : block' = NarrowedBy(overlap)
  BY DEF Next, CollectItem, LookAtTurn, SelectTurns, SelectEntries, RerankEntries, FetchSnippet,
         FormatBlock, FormatItem, Narrow, Collected, vars
<1> QED BY <1>4, <1>5, <1>6

-------------------------------------------------------------------------------
(* The selection by entry.                                                 *)

\* When every item has been taken up, the candidates are all there are.
LEMMA AllAreCollected ==
  ASSUME IInv, Collected
  PROVE  Inputs /\ Fit(scored) /\ Ids(scored) = Reached /\ ~reranked /\ items = <<>> /\ pc = "collect"
<1>1. /\ Inputs /\ Fit(scored) /\ ~reranked /\ items = <<>> /\ pc = "collect" /\ NItems \in Nat
      /\ Ids(scored) = {e \in Entries : Looked(e) /\ Passes(e)}
  BY InputTypes DEF IInv, Collecting, Collected
<1>2. \A e \in Entries : Looked(e) <=> \E j \in Item : e[1] \in prov[j]
  BY <1>1 DEF Looked, Collected, Item
<1>3. Ids(scored) = Reached
  BY <1>1, <1>2 DEF Reached
<1> QED BY <1>1, <1>3

\* What a selection has to establish.
LEMMA Selection ==
  ASSUME IInv, Inputs, pc' = "fetch", at' = 0,
         UNCHANGED <<mode, conf, prov, score, left, seen, items, block>>,
         Fit(scored'), Fit(base'), texts' \subseteq Entries, reranked' \in BOOLEAN,
         items = <<>>, reranked' => mode # "turn" /\ Ids(scored)' \subseteq texts',
         SlotsWellSpent', RerankedAreShown'
  PROVE  IInv'
<1>1. Inputs' /\ Turns' = Turns /\ Entries' = Entries /\ Candidates' = Candidates /\ Lines' = Lines
  BY InputsStay
<1>2. TypeOK'
  BY <1>1 DEF IInv, TypeOK, Fit
<1>3. Fit(scored)' /\ Fit(base)'
  BY FitStays
<1>4. Collecting' /\ Formatting'
  BY <1>1 DEF IInv, Collecting, Formatting
<1>5. Fetching'
  <2>1. Len(scored') \in Nat /\ Len(items') = 0
    BY FitTypes, EmptySeq
  <2> QED BY <2>1 DEF Fetching
<1> QED BY <1>1, <1>2, <1>3, <1>4, <1>5 DEF IInv

\* The places of the candidates of s that are among the identifiers D.
PlacesIn(s, D) == {i \in DOMAIN s : s[i].id \in D}

\* As many of the candidates of s are from the identifiers C as there are in C.
LEMMA OwnCounts ==
  ASSUME Inputs, NEW s, Fit(s), NEW C, C \subseteq Ids(s), NEW D, C \subseteq D
  PROVE  /\ Cardinality(C) \in Nat /\ Cardinality(PlacesIn(s, D)) \in Nat
         /\ Cardinality(PlacesIn(s, D)) >= Cardinality(C)
<1> DEFINE P == {i \in DOMAIN s : s[i].id \in C}
           O == PlacesIn(s, D)
           f == [i \in P |-> s[i].id]
<1>1. /\ Len(s) \in Nat /\ DOMAIN s = 1 .. Len(s)
      /\ \A e : e \in Ids(s) <=> \E i \in 1 .. Len(s) : s[i].id = e
  BY FitTypes
<1>2. IsFiniteSet(O) /\ IsFiniteSet(P) /\ P \subseteq O
  <2>1. IsFiniteSet(1 .. Len(s))
    BY <1>1, FS_Interval
  <2>2. O \subseteq 1 .. Len(s) /\ P \subseteq 1 .. Len(s) /\ P \subseteq O
    BY <1>1 DEF PlacesIn
  <2> HIDE DEF O, P
  <2> QED BY <2>1, <2>2, FS_Subset
<1>3. f \in Surjection(P, C)
  <2>1. \A e \in C : \E i \in P : f[i] = e
    BY <1>1
  <2>2. f \in [P -> C]
    OBVIOUS
  <2> HIDE DEF f, P
  <2> QED BY <2>1, <2>2 DEF Surjection
<1> HIDE DEF f, P, O
<1>4. IsFiniteSet(C) /\ Cardinality(C) <= Cardinality(P)
  BY <1>2, <1>3, FS_Surjection
<1>5. Cardinality(P) <= Cardinality(O)
  BY <1>2, FS_Subset
<1>6. Cardinality(C) \in Nat /\ Cardinality(P) \in Nat /\ Cardinality(O) \in Nat
  BY <1>2, <1>4, FS_CardinalityType
<1>7. Cardinality(O) >= Cardinality(C)
  BY <1>4, <1>5, <1>6
<1> QED BY <1>6, <1>7 DEF O

LEMMA EntriesAreSelected ==
  ASSUME IInv, SelectEntries
  PROVE  IInv'
<1>0. /\ Collected /\ mode # "turn" /\ conf.rerank = 0 /\ pc' = "fetch" /\ at' = 0
      /\ UNCHANGED <<mode, conf, prov, score, left, seen, items, block, reranked>>
      /\ base' = Upto(Ranked(scored), conf.topk) /\ texts' \subseteq Ids(scored)'
  <2>1. Ids(scored)' = Ids(scored')
    BY DEF Ids
  <2> QED BY <2>1 DEF SelectEntries
<1>1. /\ Inputs /\ Fit(scored) /\ Ids(scored) = Reached /\ ~reranked /\ items = <<>>
      /\ conf.topk \in Nat /\ conf.floor \in Nat /\ Entries' = Entries /\ Reached' = Reached
  BY <1>0, AllAreCollected, ConfTypes, InputsStay
<1>2. /\ Fit(base') /\ Ids(base') \subseteq Reached
      /\ \A e \in Reached \ Ids(base') :
            /\ Len(base') = conf.topk
            /\ \A i \in 1 .. Len(base') : base'[i].score >= score[e]
  BY <1>0, <1>1, CutIsBest
<1>3. PICK hits \in DirectHits(Ids(base')) : scored' = ExtraSlots(base', hits)
  BY DEF SelectEntries
<1>4. /\ Fit(hits) /\ Ids(hits) \cap Ids(base') = {}
      /\ \A e \in Entries \ (Ids(base') \cup Ids(hits)) : score[e] # None =>
            \A i \in 1 .. Len(hits) : hits[i].score >= score[e]
  BY <1>0, <1>1, HitsFit
<1> DEFINE both == base' \o hits
<1>5. /\ Fit(both) /\ Ids(both) = Ids(base') \cup Ids(hits)
      /\ \A i \in 1 .. Len(both) : \/ \E k \in 1 .. Len(base') : both[i] = base'[k]
                                   \/ \E k \in 1 .. Len(hits) : both[i] = hits[k]
  <2>1. /\ Fit(both) /\ Ids(both) = Ids(base') \cup Ids(hits) /\ Len(both) = Len(base') + Len(hits)
        /\ \A i \in 1 .. Len(base') : both[i] = base'[i]
        /\ \A i \in 1 .. Len(hits) : both[Len(base') + i] = hits[i]
    BY <1>1, <1>2, <1>4, ConcatFit
  <2>2. Len(base') \in Nat /\ Len(hits) \in Nat
    BY <1>1, <1>2, <1>4, FitTypes
  <2> HIDE DEF both
  <2>3. \A i \in 1 .. Len(both) : i \in 1 .. Len(base') \/ \E k \in 1 .. Len(hits) : i = Len(base') + k
    <3> TAKE i \in 1 .. Len(both)
    <3>1. i \in 1 .. Len(base') \/ (i - Len(base') \in 1 .. Len(hits) /\ i = Len(base') + (i - Len(base')))
      BY <2>1, <2>2
    <3> QED BY <3>1
  <2> QED BY <2>1, <2>3
<1> HIDE DEF both
<1>6. /\ Fit(scored') /\ Ids(base') \subseteq Ids(scored')
      /\ \A i \in 1 .. Len(scored') : \/ \E k \in 1 .. Len(base') : scored'[i] = base'[k]
                                      \/ /\ Ids(hits) \subseteq Ids(scored')
                                         /\ \E k \in 1 .. Len(hits) : scored'[i] = hits[k]
  <2>1. CASE conf.floor > 0
    <3>1. scored' = Ranked(both)
      BY <1>3, <2>1 DEF ExtraSlots, both
    <3>2. /\ Fit(Ranked(both)) /\ Ids(Ranked(both)) = Ids(both) /\ Len(Ranked(both)) = Len(both)
          /\ \A k \in 1 .. Len(both) : \E i \in 1 .. Len(both) : Ranked(both)[k] = both[i]
      BY <1>1, <1>5, RankedFit
    <3> QED BY <1>5, <3>1, <3>2
  <2>2. CASE ~(conf.floor > 0)
    BY <1>2, <1>3, <2>2 DEF ExtraSlots
  <2> QED BY <2>1, <2>2
<1>7. ASSUME NEW e \in Reached \ Ids(scored')
      PROVE  /\ Cardinality({i \in DOMAIN scored' : scored'[i].id \in Reached}) >= conf.topk
             /\ \A i \in 1 .. Len(scored') : scored'[i].score >= score[e]
  <2>1. /\ Len(base') = conf.topk /\ \A i \in 1 .. Len(base') : base'[i].score >= score[e]
    BY <1>2, <1>6
  <2>2. Cardinality(Ids(base')) = conf.topk
    BY <1>1, <1>2, <2>1, OnceCounts
  <2>3. Cardinality({i \in DOMAIN scored' : scored'[i].id \in Reached}) >= conf.topk
    <3> DEFINE C == Ids(base')
               O == PlacesIn(scored', Reached)
    <3>1. C \subseteq Ids(scored') /\ C \subseteq Reached /\ Cardinality(C) = conf.topk
      BY <1>2, <1>6, <2>2
    <3> HIDE DEF C
    <3>2. Cardinality(O) >= Cardinality(C)
      BY <1>1, <1>6, <3>1, OwnCounts
    <3> QED BY <3>1, <3>2 DEF PlacesIn
  <2>4. e \in Entries /\ score[e] # None
    BY DEF Reached, Passes
  <2>5. \A i \in 1 .. Len(scored') : scored'[i].score >= score[e]
    <3> TAKE i \in 1 .. Len(scored')
    <3>1. CASE \E k \in 1 .. Len(base') : scored'[i] = base'[k]
      BY <2>1, <3>1
    <3>2. CASE /\ Ids(hits) \subseteq Ids(scored')
               /\ \E k \in 1 .. Len(hits) : scored'[i] = hits[k]
      <4>1. e \notin Ids(base') \cup Ids(hits)
        BY <1>6, <3>2
      <4> QED BY <1>4, <2>4, <3>2, <4>1
    <3> QED BY <1>6, <3>1, <3>2
  <2> QED BY <2>3, <2>5
<1>8. DOMAIN scored' = 1 .. Len(scored') /\ Ids(scored)' = Ids(scored') /\ Ids(scored') \subseteq Entries
  <2>1. Ids(scored)' = Ids(scored')
    BY DEF Ids
  <2>2. DOMAIN scored' = 1 .. Len(scored')
    BY <1>1, <1>6, FitTypes
  <2>3. Ids(scored') \subseteq Entries
    <3>1. \A e \in Ids(scored') : \E i \in 1 .. Len(scored') : scored'[i].id = e /\ e \in Entries
      BY <1>1, <1>6, FitTypes
    <3> QED BY <3>1
  <2> QED BY <2>1, <2>2, <2>3
<1>9. SlotsWellSpent'
  BY <1>0, <1>1, <1>7, <1>8 DEF SlotsWellSpent, NoBetterLeftOut, QuotaServed
<1>10. RerankedAreShown'
  BY <1>0, <1>1 DEF RerankedAreShown
<1>11. Fit(scored') /\ Fit(base') /\ texts' \subseteq Entries /\ reranked' = FALSE
  BY <1>0, <1>1, <1>2, <1>6, <1>8
<1> QED BY <1>0, <1>1, <1>9, <1>10, <1>11, Selection

\* The candidates that are given to the reranker, in the order it gives them.
LEMMA OrdersFit ==
  ASSUME Inputs, NEW s, Fit(s), NEW o \in Orders(s)
  PROVE  Fit(o) /\ Ids(o) \subseteq Ids(s)
<1>1. s \in Seq(Candidates) /\ Len(s) \in Nat /\ DOMAIN s = 1 .. Len(s)
      /\ \A i \in 1 .. Len(s) : s[i] \in Candidates
  BY FitTypes
<1>2. PICK p \in [1 .. Len(s) -> 1 .. Len(s)] : IsInjective(p) /\ o = [i \in 1 .. Len(s) |-> s[p[i]]]
  BY <1>1 DEF Orders
<1>3. o \in [1 .. Len(s) -> Candidates] /\ \A i \in 1 .. Len(s) : o[i] = s[p[i]]
  BY <1>1, <1>2
<1>4. o \in Seq(Candidates) /\ Len(o) = Len(s)
  BY <1>1, <1>3, ListOf
<1>5. \A k, l \in 1 .. Len(s) : p[k] = p[l] => k = l
  BY <1>2 DEF IsInjective
<1>6. /\ p \in [1 .. Len(o) -> 1 .. Len(s)] /\ \A k \in 1 .. Len(o) : o[k] = s[p[k]]
      /\ \A k, l \in 1 .. Len(o) : p[k] = p[l] => k = l
  BY <1>3, <1>4, <1>5
<1> QED BY <1>4, <1>6, PickedFit

LEMMA EntriesAreReranked ==
  ASSUME IInv, RerankEntries
  PROVE  IInv'
<1>0. /\ Collected /\ mode # "turn" /\ conf.rerank > 0 /\ pc' = "fetch" /\ at' = 0
      /\ UNCHANGED <<mode, conf, prov, score, left, seen, items, block>>
      /\ texts' \in SUBSET Ids(base')
  <2>1. Ids(base)' = Ids(base')
    BY DEF Ids
  <2> QED BY <2>1 DEF RerankEntries
<1>1. /\ Inputs /\ Fit(scored) /\ Ids(scored) = Reached /\ items = <<>>
      /\ conf.rerank \in Nat /\ PoolCap \in Nat /\ Entries' = Entries /\ Reached' = Reached
  BY <1>0, AllAreCollected, ConfTypes, InputsStay, EvidenceAssumption
<1>2. PICK hits \in DirectHits(Ids(scored)) : base' = Upto(Ranked(scored \o hits), PoolCap)
  BY DEF RerankEntries, Pool
<1>3. Fit(hits) /\ Ids(hits) \cap Ids(scored) = {}
  BY <1>0, <1>1, HitsFit
<1>4. Fit(scored \o hits) /\ Ids(scored) \subseteq Ids(scored \o hits)
  BY <1>1, <1>3, ConcatFit
<1>5. /\ Fit(base') /\ Len(base') <= PoolCap
      /\ \A e \in Reached \ Ids(base') : \A i \in 1 .. Len(base') : base'[i].score >= score[e]
  BY <1>1, <1>2, <1>4, CutIsBest
<1>6. DOMAIN base' = 1 .. Len(base') /\ Ids(base') \subseteq Entries /\ Ids(base)' = Ids(base')
  <2>1. Ids(base)' = Ids(base')
    BY DEF Ids
  <2>2. DOMAIN base' = 1 .. Len(base') /\ \A e \in Ids(base') : \E i \in 1 .. Len(base') : base'[i].id = e /\ e \in Entries
    BY <1>1, <1>5, FitTypes
  <2> QED BY <2>1, <2>2
<1> DEFINE withText == Offered(base', texts')
<1>7. Fit(withText) /\ Ids(withText) \subseteq texts'
  <2> DEFINE P == {i \in DOMAIN base' : base'[i].id \in texts'}
  <2>1. P \in SUBSET (1 .. Len(base'))
    BY <1>6
  <2>2. withText = At(base', P)
    BY DEF Offered
  <2> HIDE DEF P, withText
  <2>3. Fit(withText) /\ Ids(withText) = {base'[i].id : i \in P}
    BY <1>1, <1>5, <2>1, <2>2, AtFit
  <2> QED BY <2>3 DEF P
<1>8. /\ Fit(scored') /\ Len(scored') <= conf.rerank /\ reranked' \in BOOLEAN
      /\ reranked' => Ids(scored') \subseteq texts'
  <2>1. CASE scored' = Upto(base', conf.rerank) /\ reranked' = FALSE
    <3>1. Fit(Upto(base', conf.rerank))
      BY <1>1, <1>5, UptoFit
    <3>2. Len(Upto(base', conf.rerank)) <= conf.rerank
      <4>1. base' \in Seq(Candidates)
        BY <1>5 DEF Fit
      <4>2. Len(base') \in Nat /\ Len(Upto(base', conf.rerank)) = IF conf.rerank < Len(base') THEN conf.rerank ELSE Len(base')
        BY <1>1, <4>1, UptoItems
      <4> QED BY <1>1, <4>2
    <3> QED BY <2>1, <3>1, <3>2
  <2>2. ASSUME NEW o \in Orders(withText), scored' = Upto(o, conf.rerank), reranked' = TRUE
        PROVE  /\ Fit(scored') /\ Len(scored') <= conf.rerank /\ Ids(scored') \subseteq texts'
    <3> HIDE DEF withText
    <3>1. Fit(o) /\ Ids(o) \subseteq texts'
      BY <1>1, <1>7, OrdersFit
    <3>2. Fit(Upto(o, conf.rerank)) /\ Ids(Upto(o, conf.rerank)) \subseteq Ids(o)
      BY <1>1, <3>1, UptoFit
    <3>3. Len(Upto(o, conf.rerank)) <= conf.rerank
      <4>1. o \in Seq(Candidates)
        BY <3>1 DEF Fit
      <4>2. Len(o) \in Nat /\ Len(Upto(o, conf.rerank)) = IF conf.rerank < Len(o) THEN conf.rerank ELSE Len(o)
        BY <1>1, <4>1, UptoItems
      <4> QED BY <1>1, <4>2
    <3> QED BY <2>2, <3>1, <3>2, <3>3
  <2>3. \/ scored' = Upto(base', conf.rerank) /\ reranked' = FALSE
        \/ (\E o \in Orders(withText) : scored' = Upto(o, conf.rerank)) /\ reranked' = TRUE
    BY DEF RerankEntries
  <2> QED BY <2>1, <2>2, <2>3
<1>9. SlotsWellSpent'
  BY <1>0, <1>1 DEF SlotsWellSpent, NoBetterLeftOut, QuotaServed
<1>10. RerankedAreShown'
  BY <1>0, <1>1, <1>5, <1>6, <1>8 DEF RerankedAreShown
<1>11. texts' \subseteq Entries /\ Ids(scored)' = Ids(scored')
  BY <1>0, <1>6 DEF Ids
<1> QED BY <1>0, <1>1, <1>5, <1>8, <1>9, <1>10, <1>11, Selection

-------------------------------------------------------------------------------
(* The selection by turn.                                                  *)

\* The places that their sources' quota keeps.
Served(r) == {i \in DOMAIN r : Cardinality({j \in DOMAIN r : j < i /\ r[j].src = r[i].src}) < conf.quota}
From(r, src) == {i \in DOMAIN r : r[i].src = src}
Placed(r, P) == {r[i] : i \in P}

LEMMA PlacedCounts ==
  ASSUME Inputs, NEW r, Fit(r), NEW P \in SUBSET (1 .. Len(r))
  PROVE  /\ IsFiniteSet(P) /\ IsFiniteSet(Placed(r, P)) /\ Cardinality(P) \in Nat
         /\ Cardinality(Placed(r, P)) = Cardinality(P)
<1> DEFINE f == [i \in P |-> r[i]]
           T == Placed(r, P)
<1>1. IsFiniteSet(P)
  <2>1. Len(r) \in Nat
    BY FitTypes
  <2>2. IsFiniteSet(1 .. Len(r))
    BY <2>1, FS_Interval
  <2> QED BY <2>2, FS_Subset
<1>2. f \in Surjection(P, T) /\ f \in Injection(P, T)
  <2>1. f \in [P -> T] /\ \A v \in T : \E i \in P : f[i] = v
    BY DEF Placed
  <2>2. \A i, j \in P : f[i] = f[j] => i = j
    BY DEF Fit, Once
  <2> HIDE DEF f, T
  <2> QED BY <2>1, <2>2 DEF Surjection, Injection, IsInjective
<1> HIDE DEF f, T
<1>3. IsFiniteSet(T) /\ Cardinality(T) = Cardinality(P)
  BY <1>1, <1>2, FS_Surjection
<1> QED BY <1>1, <1>3, FS_CardinalityType DEF T

\* What the quota keeps is there, and what is there besides comes before what is not.
LEMMA QuotaItems ==
  ASSUME Inputs, mode = "turn", NEW r, Fit(r)
  PROVE  /\ Fit(Quota(r)) /\ Ids(Quota(r)) \subseteq Ids(r)
         /\ \A i \in Served(r) : \E k \in 1 .. Len(Quota(r)) : Quota(r)[k] = r[i]
         /\ \A k \in 1 .. Len(Quota(r)), d \in 1 .. Len(r) :
               (\A l \in 1 .. Len(Quota(r)) : Quota(r)[l] # r[d]) =>
                  \E i \in 1 .. Len(r) : Quota(r)[k] = r[i] /\ (i \in Served(r) \/ i < d)
         /\ \A d \in 1 .. Len(r) :
               (\A l \in 1 .. Len(Quota(r)) : Quota(r)[l] # r[d]) => Len(Quota(r)) >= conf.topk
<1> DEFINE own == Served(r)
           rest == (DOMAIN r) \ own
           fill == IF conf.topk > Cardinality(own) THEN conf.topk - Cardinality(own) ELSE 0
           G == At(r, own)
           H == At(r, rest)
           F == Upto(H, fill)
           q == G \o F
<1>1. Quota(r) = q
  BY DEF Quota, Served
<1>2. /\ r \in Seq(Candidates) /\ DOMAIN r = 1 .. Len(r) /\ Len(r) \in Nat /\ conf.topk \in Nat
      /\ own \in SUBSET (1 .. Len(r)) /\ rest \in SUBSET (1 .. Len(r))
      /\ own \cup rest = 1 .. Len(r) /\ own \cap rest = {}
  BY FitTypes, ConfTypes DEF Served
<1> HIDE DEF own, rest
<1>3. /\ Fit(G) /\ Ids(G) = {r[i].id : i \in own} /\ Len(G) = Cardinality(own)
      /\ \A k \in 1 .. Len(G) : \E i \in own : G[k] = r[i]
      /\ Fit(H) /\ Ids(H) = {r[i].id : i \in rest} /\ Len(H) = Cardinality(rest)
      /\ Sublist(G, r, own) /\ Sublist(H, r, rest) /\ Len(G) \in Nat /\ Len(H) \in Nat
  BY <1>2, AtFit, AtItems
<1>4. fill \in Nat /\ Cardinality(own) + fill >= conf.topk
  BY <1>2, <1>3
<1> HIDE DEF G, H, fill
<1>5. /\ Fit(F) /\ Ids(F) \subseteq Ids(H) /\ Len(F) \in Nat
      /\ \A k \in 1 .. Len(F) : k \in 1 .. Len(H) /\ F[k] = H[k]
      /\ Len(F) = IF fill < Len(H) THEN fill ELSE Len(H)
  <2>1. H \in Seq(Candidates)
    BY <1>3 DEF Fit
  <2>2. Fit(F) /\ Ids(F) \subseteq Ids(H)
    BY <1>3, <1>4, UptoFit
  <2>3. /\ \A k \in 1 .. Len(F) : k \in 1 .. Len(H) /\ F[k] = H[k]
        /\ Len(F) = IF fill < Len(H) THEN fill ELSE Len(H)
    BY <1>4, <2>1, UptoItems
  <2> HIDE DEF F
  <2>4. Len(F) \in Nat
    BY <2>2, FitTypes
  <2> QED BY <2>2, <2>3, <2>4
<1> HIDE DEF F
<1>6. Ids(G) \cap Ids(H) = {} /\ Ids(G) \subseteq Ids(r) /\ Ids(H) \subseteq Ids(r)
  <2>1. \A i, j \in 1 .. Len(r) : r[i].id = r[j].id => i = j
    BY DEF Fit, Once
  <2>2. \A i \in own, j \in rest : r[i].id # r[j].id
    BY <1>2, <2>1
  <2>3. \A e : e \in Ids(r) <=> \E i \in 1 .. Len(r) : r[i].id = e
    BY FitTypes
  <2> QED BY <1>2, <1>3, <2>2, <2>3
<1>7. /\ Fit(q) /\ Ids(q) = Ids(G) \cup Ids(F) /\ Len(q) = Len(G) + Len(F)
      /\ \A i \in 1 .. Len(G) : q[i] = G[i]
      /\ \A i \in 1 .. Len(F) : q[Len(G) + i] = F[i]
  <2>1. Ids(G) \cap Ids(F) = {}
    BY <1>5, <1>6
  <2> QED BY <1>3, <1>5, <2>1, ConcatFit
<1> HIDE DEF q
<1>8. /\ \A i \in 1 .. Len(G) : i \in 1 .. Len(q)
      /\ \A i \in 1 .. Len(F) : Len(G) + i \in 1 .. Len(q)
      /\ \A k \in 1 .. Len(q) : k \in 1 .. Len(G) \/ \E m \in 1 .. Len(F) : k = Len(G) + m
  <2>1. \A k \in 1 .. Len(q) : k \in 1 .. Len(G) \/ (k - Len(G) \in 1 .. Len(F) /\ k = Len(G) + (k - Len(G)))
    BY <1>3, <1>5, <1>7
  <2>2. \A k \in 1 .. Len(q) : k \in 1 .. Len(G) \/ \E m \in 1 .. Len(F) : k = Len(G) + m
    BY <2>1
  <2> QED BY <1>3, <1>5, <1>7, <2>2
<1>9. \A i \in own : \E k \in 1 .. Len(q) : q[k] = r[i]
  <2> TAKE i \in own
  <2>1. PICK f \in [1 .. Cardinality(own) -> own] :
          /\ \A k \in 1 .. Cardinality(own) : G[k] = r[f[k]]
          /\ \A x \in own : \E k \in 1 .. Cardinality(own) : f[k] = x
    BY <1>3 DEF Sublist
  <2>2. PICK k \in 1 .. Cardinality(own) : f[k] = i
    BY <2>1
  <2> QED BY <1>3, <1>7, <1>8, <2>1, <2>2
<1>10. ASSUME NEW k \in 1 .. Len(q), NEW d \in 1 .. Len(r), \A l \in 1 .. Len(q) : q[l] # r[d]
       PROVE  \E i \in 1 .. Len(r) : q[k] = r[i] /\ (i \in own \/ i < d)
  <2>1. CASE k \in 1 .. Len(G)
    BY <1>2, <1>3, <1>7, <2>1
  <2>2. ASSUME NEW m \in 1 .. Len(F), k = Len(G) + m
        PROVE  \E i \in 1 .. Len(r) : q[k] = r[i] /\ i < d
    <3>1. PICK g \in [1 .. Cardinality(rest) -> rest] :
            /\ \A x \in 1 .. Cardinality(rest) : H[x] = r[g[x]]
            /\ \A x, y \in 1 .. Cardinality(rest) : x < y <=> g[x] < g[y]
            /\ \A i \in rest : \E x \in 1 .. Cardinality(rest) : g[x] = i
      BY <1>3 DEF Sublist
    <3>2. d \in rest
      BY <1>2, <1>9, <1>10
    <3>3. PICK l \in 1 .. Len(H) : g[l] = d /\ H[l] = r[d]
      BY <1>3, <3>1, <3>2
    <3>4. l \notin 1 .. Len(F)
      <4> SUFFICES ASSUME l \in 1 .. Len(F) PROVE FALSE
        OBVIOUS
      <4>1. q[Len(G) + l] = r[d] /\ Len(G) + l \in 1 .. Len(q)
        BY <1>5, <1>7, <1>8, <3>3
      <4> QED BY <1>10, <4>1
    <3>5. m < l /\ m \in 1 .. Len(H)
      BY <1>3, <1>5, <3>3, <3>4
    <3>6. q[k] = r[g[m]] /\ g[m] \in rest /\ g[m] < d
      BY <1>3, <1>5, <1>7, <2>2, <3>1, <3>3, <3>5
    <3> QED BY <1>2, <3>6
  <2> QED BY <1>8, <2>1, <2>2
<1>11. ASSUME NEW d \in 1 .. Len(r), \A l \in 1 .. Len(q) : q[l] # r[d]
       PROVE  Len(q) >= conf.topk
  <2>1. d \in rest
    BY <1>2, <1>9, <1>11
  <2>2. PICK l \in 1 .. Len(H) : H[l] = r[d]
    BY <1>3, <2>1 DEF Sublist
  <2>3. l \notin 1 .. Len(F)
    BY <1>5, <1>7, <1>8, <1>11, <2>2
  <2>4. Len(F) = fill
    BY <1>3, <1>4, <1>5, <2>3
  <2> QED BY <1>2, <1>3, <1>4, <1>7, <2>4
<1> QED BY <1>1, <1>5, <1>6, <1>7, <1>9, <1>10, <1>11 DEF own

\* The served places of a source are its first ones.
LEMMA ServedFrom ==
  ASSUME Inputs, mode = "turn", NEW r, Fit(r), NEW src
  PROVE  LET Q == From(r, src)
         IN  /\ Q \in SUBSET (1 .. Len(r)) /\ Linear(Q, Rising(Q))
             /\ \A i, j \in Q : <<i, j>> \in Rising(Q) <=> i < j
             /\ Served(r) \cap Q = Leading(Q, Rising(Q), conf.quota)
<1> DEFINE Q == From(r, src)
<1>1. Len(r) \in Nat /\ DOMAIN r = 1 .. Len(r) /\ Q \in SUBSET (1 .. Len(r)) /\ Q \in SUBSET Nat
  BY FitTypes DEF From
<1>2. IsFiniteSet(Q)
  <2> HIDE DEF Q
  <2> QED BY <1>1, PlacedCounts
<1>3. Linear(Q, Rising(Q)) /\ \A i, j \in Q : <<i, j>> \in Rising(Q) <=> i < j
  <2> HIDE DEF Q
  <2> QED BY <1>1, <1>2, RisingLinear
<1>4. \A i \in Q : {j \in DOMAIN r : j < i /\ r[j].src = r[i].src} = Earlier(Q, Rising(Q), i)
  BY <1>3 DEF Earlier, From
<1>5. Served(r) \cap Q = Leading(Q, Rising(Q), conf.quota)
  BY <1>1, <1>4 DEF Leading, Served, From
<1> QED BY <1>1, <1>3, <1>5

\* The quota serves every source with its best.
LEMMA QuotaServesAll ==
  ASSUME Inputs, mode = "turn", NEW s, Fit(s), NEW src
  PROVE  LET t == Quota(Ranked(s))
             own == {c \in ToSet(s) : c.src = src}
             taken == own \cap ToSet(t)
         IN  /\ Cardinality(taken) >= (IF Cardinality(own) < conf.quota THEN Cardinality(own) ELSE conf.quota)
             /\ \A c \in taken, d \in own \ taken : c.score >= d.score
<1> DEFINE r == Ranked(s)
           t == Quota(r)
           own == {c \in ToSet(s) : c.src = src}
           taken == own \cap ToSet(t)
           Q == From(r, src)
           L == Leading(Q, Rising(Q), conf.quota)
<1>1. /\ Fit(r) /\ Len(r) = Len(s) /\ Len(s) \in Nat /\ DOMAIN s = 1 .. Len(s) /\ DOMAIN r = 1 .. Len(s)
      /\ \A k, l \in 1 .. Len(s) : k < l => r[k].score >= r[l].score
      /\ \A k \in 1 .. Len(s) : \E i \in 1 .. Len(s) : r[k] = s[i]
      /\ \A i \in 1 .. Len(s) : \E k \in 1 .. Len(s) : r[k] = s[i]
      /\ \A i \in 1 .. Len(s) : r[i].score \in Nat
  <2>1. /\ Fit(r) /\ Len(r) = Len(s)
        /\ \A k, l \in 1 .. Len(s) : k < l => r[k].score >= r[l].score
        /\ \A k \in 1 .. Len(s) : \E i \in 1 .. Len(s) : r[k] = s[i]
        /\ \A i \in 1 .. Len(s) : \E k \in 1 .. Len(s) : r[k] = s[i]
    BY RankedFit
  <2> HIDE DEF r
  <2>2. DOMAIN r = 1 .. Len(r) /\ \A i \in 1 .. Len(r) : r[i].score \in Nat
    BY <2>1, FitTypes
  <2>3. Len(s) \in Nat /\ DOMAIN s = 1 .. Len(s)
    BY FitTypes
  <2> QED BY <2>1, <2>2, <2>3
<1> HIDE DEF r
<1>2. /\ Fit(t) /\ DOMAIN t = 1 .. Len(t)
      /\ \A i \in Served(r) : \E k \in 1 .. Len(t) : t[k] = r[i]
      /\ \A k \in 1 .. Len(t), d \in 1 .. Len(r) : (\A l \in 1 .. Len(t) : t[l] # r[d]) =>
            \E i \in 1 .. Len(r) : t[k] = r[i] /\ (i \in Served(r) \/ i < d)
  <2>1. /\ Fit(t)
        /\ \A i \in Served(r) : \E k \in 1 .. Len(t) : t[k] = r[i]
        /\ \A k \in 1 .. Len(t), d \in 1 .. Len(r) : (\A l \in 1 .. Len(t) : t[l] # r[d]) =>
              \E i \in 1 .. Len(r) : t[k] = r[i] /\ (i \in Served(r) \/ i < d)
    BY <1>1, QuotaItems
  <2> HIDE DEF t
  <2> QED BY <2>1, FitTypes
<1> HIDE DEF t
<1>3. /\ Q \in SUBSET (1 .. Len(r)) /\ Linear(Q, Rising(Q))
      /\ \A i, j \in Q : <<i, j>> \in Rising(Q) <=> i < j
      /\ Served(r) \cap Q = L /\ conf.quota \in Nat
  BY <1>1, ServedFrom, ConfTypes
<1>4. own = Placed(r, Q)
  <2>1. \A c : c \in ToSet(s) <=> \E i \in 1 .. Len(s) : c = s[i]
    BY <1>1 DEF ToSet
  <2>2. \A c : c \in ToSet(s) <=> \E i \in 1 .. Len(s) : c = r[i]
    BY <1>1, <2>1
  <2> QED BY <1>1, <2>2 DEF From, Placed
<1>5. \A c : c \in ToSet(t) <=> \E k \in 1 .. Len(t) : c = t[k]
  BY <1>2 DEF ToSet
<1>6. Placed(r, L) \subseteq taken
  <2>1. \A i \in L : r[i] \in ToSet(t) /\ i \in Q
    BY <1>2, <1>3, <1>5
  <2>2. \A i \in L : r[i] \in own
    BY <1>4, <2>1 DEF Placed
  <2> QED BY <2>1, <2>2 DEF Placed
<1>7. Cardinality(taken) >= (IF Cardinality(own) < conf.quota THEN Cardinality(own) ELSE conf.quota)
  <2> HIDE DEF Q
  <2>1. Cardinality(L) = (IF Cardinality(Q) < conf.quota THEN Cardinality(Q) ELSE conf.quota)
    BY <1>3, LeadingPlaces
  <2>2. L \in SUBSET (1 .. Len(r))
    BY <1>3
  <2> HIDE DEF L
  <2>3. Cardinality(own) = Cardinality(Q) /\ IsFiniteSet(own)
    BY <1>1, <1>3, <1>4, PlacedCounts
  <2>4. Cardinality(Placed(r, L)) = Cardinality(L) /\ Cardinality(L) \in Nat
    BY <1>1, <2>2, PlacedCounts
  <2>5. IsFiniteSet(taken) /\ Cardinality(Placed(r, L)) <= Cardinality(taken)
    <3>1. IsFiniteSet(taken)
      BY <2>3, FS_Subset
    <3> HIDE DEF taken
    <3> QED BY <1>6, <3>1, FS_Subset
  <2>6. Cardinality(taken) \in Nat
    BY <2>5, FS_CardinalityType
  <2> HIDE DEF taken, own
  <2> QED BY <2>1, <2>3, <2>4, <2>5, <2>6
<1>8. ASSUME NEW c \in taken, NEW d \in own \ taken PROVE c.score >= d.score
  <2>1. PICK x \in Q : d = r[x]
    BY <1>4 DEF Placed
  <2>2. PICK k \in 1 .. Len(t) : c = t[k]
    BY <1>5
  <2>3. \A l \in 1 .. Len(t) : t[l] # r[x]
    BY <1>5, <2>1
  <2>4. PICK i \in 1 .. Len(r) : c = r[i] /\ (i \in Served(r) \/ i < x)
    BY <1>2, <1>3, <2>2, <2>3
  <2>5. i \in Q /\ x \notin Served(r)
    <3>1. i \in Q
      BY <1>1, <2>4 DEF From
    <3> QED BY <1>2, <2>3, <3>1
  <2>6. i < x
    <3>1. CASE i \in Served(r)
      <4>1. i \in L /\ x \notin L
        BY <1>3, <2>5, <3>1
      <4> HIDE DEF Q
      <4>2. /\ Cardinality(Earlier(Q, Rising(Q), i)) < conf.quota
            /\ ~(Cardinality(Earlier(Q, Rising(Q), x)) < conf.quota)
        BY <4>1 DEF Leading
      <4>3. Cardinality(Earlier(Q, Rising(Q), i)) \in Nat /\ Cardinality(Earlier(Q, Rising(Q), x)) \in Nat
        BY <1>3, <2>5, RankBound
      <4>4. ~(x < i)
        <5> SUFFICES ASSUME x < i PROVE FALSE
          OBVIOUS
        <5>1. <<x, i>> \in Rising(Q)
          BY <1>3, <2>5
        <5>2. Cardinality(Earlier(Q, Rising(Q), x)) < Cardinality(Earlier(Q, Rising(Q), i))
          BY <1>3, <2>5, <5>1, RankGrows
        <5> QED BY <1>3, <4>2, <4>3, <5>2
      <4>5. x # i /\ x \in Nat /\ i \in Nat
        BY <1>3, <4>1, <2>5
      <4> QED BY <4>4, <4>5
    <3> QED BY <2>4, <3>1
  <2> QED BY <1>1, <1>3, <2>1, <2>4, <2>6
<1> QED BY <1>7, <1>8 DEF r, t


LEMMA TurnsAreSelected ==
  ASSUME IInv, SelectTurns
  PROVE  IInv'
<1>0. /\ Collected /\ mode = "turn" /\ pc' = "fetch" /\ at' = 0
      /\ UNCHANGED <<mode, conf, prov, score, left, seen, texts, reranked, items, block>>
      /\ base' = scored /\ scored' = RankAndCut(scored)
  BY DEF SelectTurns
<1>1. /\ Inputs /\ Fit(scored) /\ Ids(scored) = Reached /\ ~reranked /\ items = <<>>
      /\ conf.topk \in Nat /\ conf.quota \in Nat /\ Entries' = Entries /\ Reached' = Reached
      /\ Item' = Item /\ texts \subseteq Entries
  BY <1>0, AllAreCollected, ConfTypes, InputsStay DEF IInv, TypeOK
<1>2. Fit(scored') /\ Ids(scored') \subseteq Reached
  <2>1. CASE conf.quota > 0
    <3>1. scored' = Quota(Ranked(scored)) /\ Fit(Ranked(scored)) /\ Ids(Ranked(scored)) = Reached
      BY <1>0, <1>1, <2>1, RankedFit DEF RankAndCut
    <3> QED BY <1>0, <1>1, <3>1, QuotaItems
  <2>2. CASE ~(conf.quota > 0)
    BY <1>0, <1>1, <2>2, CutIsBest DEF RankAndCut
  <2> QED BY <2>1, <2>2
<1>3. DOMAIN scored' = 1 .. Len(scored') /\ Ids(scored)' = Ids(scored')
  BY <1>1, <1>2, FitTypes DEF Ids
<1>4. NoBetterLeftOut'
  <2> SUFFICES ASSUME conf.quota = 0, NEW e \in Reached \ Ids(scored')
               PROVE  /\ Cardinality(PlacesIn(scored', Reached)) >= conf.topk
                      /\ \A i \in PlacesIn(scored', Reached) : scored'[i].score >= score[e]
    BY <1>0, <1>1, <1>3 DEF NoBetterLeftOut, PlacesIn
  <2>1. scored' = Upto(Ranked(scored), conf.topk)
    BY <1>0, <1>1 DEF RankAndCut
  <2>2. Len(scored') = conf.topk /\ \A i \in 1 .. Len(scored') : scored'[i].score >= score[e]
    BY <1>1, <2>1, CutIsBest
  <2> DEFINE C == Ids(scored')
  <2>3. Cardinality(C) = conf.topk /\ C \subseteq Reached /\ C \subseteq Ids(scored')
    BY <1>1, <1>2, <2>2, OnceCounts
  <2> HIDE DEF C
  <2>4. Cardinality(PlacesIn(scored', Reached)) >= Cardinality(C)
    BY <1>1, <1>2, <2>3, OwnCounts
  <2> QED BY <1>3, <2>2, <2>3, <2>4 DEF PlacesIn
<1>5. QuotaServed'
  <2> SUFFICES ASSUME conf.quota > 0, NEW t \in Turns, NEW src \in Item, Passes(<<t, 1>>),
                      <<t, 1>> \notin Ids(scored'), t \in prov[src],
                      \A j \in 1 .. (src - 1) : t \notin prov[j]
               PROVE  /\ Len(scored') >= conf.topk
                      /\ Cardinality({c \in ToSet(scored') : c.src = src /\ c.score >= score[<<t, 1>>]})
                            >= conf.quota
    <3>1. Turns' = Turns /\ UNCHANGED <<mode, conf, prov, score>>
      BY <1>0, <1>1, InputsStay
    <3> QED BY <1>1, <1>3, <3>1 DEF QuotaServed, Passes
  <2> DEFINE e == <<t, 1>>
             own == {c \in ToSet(scored) : c.src = src}
             taken == own \cap ToSet(scored')
             best == {c \in ToSet(scored') : c.src = src /\ c.score >= score[e]}
  <2>1. scored' = Quota(Ranked(scored))
    BY <1>0 DEF RankAndCut
  <2>2. PICK d \in ToSet(scored) : d.id = e /\ d.src = src /\ d.score = score[e] /\ d \notin ToSet(scored')
    <3>1. e \in Entries /\ e \in Reached
      BY <1>0 DEF Reached, Entries, Parts
    <3>2. PICK i \in 1 .. Len(scored) : scored[i].id = e
      BY <1>1, <3>1, FitTypes
    <3>3. Led(scored[i]) /\ scored[i].src # Direct
      BY <1>0, <1>1 DEF Fit, IInv, Collecting, Collected
    <3>4. scored[i].src = src
      <4>1. scored[i].src \in Item /\ src \in Item /\ NItems \in Nat
        BY <3>3, InputTypes, <1>1 DEF Led
      <4>2. t \in prov[scored[i].src] /\ \A j \in 1 .. scored[i].src - 1 : t \notin prov[j]
        BY <3>2, <3>3 DEF Led
      <4> QED BY <4>1, <4>2 DEF Item
    <3>5. scored[i] \notin ToSet(scored')
      BY <1>3, <3>2 DEF ToSet, Ids
    <3>6. scored[i] \in ToSet(scored)
      BY <1>1, FitTypes DEF ToSet
    <3> QED BY <3>2, <3>3, <3>4, <3>5, <3>6 DEF Led
  <2>3. /\ Cardinality(taken) >= (IF Cardinality(own) < conf.quota THEN Cardinality(own) ELSE conf.quota)
        /\ \A c \in taken, f \in own \ taken : c.score >= f.score
    BY <1>0, <1>1, <2>1, QuotaServesAll
  <2>4. IsFiniteSet(ToSet(scored)) /\ IsFiniteSet(ToSet(scored'))
    <3>1. \A s : Fit(s) => IsFiniteSet(ToSet(s))
      <4> SUFFICES ASSUME NEW s, Fit(s) PROVE IsFiniteSet(ToSet(s))
        OBVIOUS
      <4>1. ToSet(s) = Placed(s, 1 .. Len(s))
        BY <1>1, FitTypes DEF ToSet, Placed
      <4> QED BY <1>1, <4>1, PlacedCounts
    <3> QED BY <1>1, <1>2, <3>1
  <2>5. d \in own \ taken /\ taken \subseteq own
    BY <2>2
  <2>6. IsFiniteSet(own) /\ IsFiniteSet(best) /\ Cardinality(taken) < Cardinality(own)
    <3>1. own \subseteq ToSet(scored) /\ best \subseteq ToSet(scored')
      OBVIOUS
    <3> HIDE DEF own, taken, best
    <3>2. IsFiniteSet(own) /\ IsFiniteSet(best)
      BY <2>4, <3>1, FS_Subset
    <3>3. Cardinality(taken) <= Cardinality(own) /\ (Cardinality(taken) = Cardinality(own) => taken = own)
      BY <2>5, <3>2, FS_Subset
    <3>4. IsFiniteSet(taken) /\ Cardinality(taken) \in Nat /\ Cardinality(own) \in Nat
      BY <2>5, <3>2, FS_Subset, FS_CardinalityType
    <3> QED BY <2>5, <3>2, <3>3, <3>4
  <2>7. taken \subseteq best
    BY <2>2, <2>3, <2>5
  <2>8. Cardinality(best) >= conf.quota
    <3> HIDE DEF own, taken, best
    <3>1. IsFiniteSet(taken) /\ Cardinality(taken) <= Cardinality(best)
      BY <2>6, <2>7, FS_Subset
    <3>2. Cardinality(taken) \in Nat /\ Cardinality(best) \in Nat /\ Cardinality(own) \in Nat
      BY <2>6, <3>1, FS_CardinalityType
    <3>3. Cardinality(taken) >= conf.quota
      BY <1>1, <2>3, <2>6, <3>2
    <3> QED BY <1>1, <3>1, <3>2, <3>3
  <2>9. Len(scored') >= conf.topk
    <3>1. /\ Fit(Ranked(scored)) /\ \A i \in 1 .. Len(scored) : \E k \in 1 .. Len(Ranked(scored)) : Ranked(scored)[k] = scored[i]
      BY <1>1, RankedFit
    <3>2. DOMAIN scored = 1 .. Len(scored)
      BY <1>1, FitTypes
    <3>3. PICK i \in 1 .. Len(scored) : d = scored[i]
      BY <3>2 DEF ToSet
    <3>4. PICK k \in 1 .. Len(Ranked(scored)) : Ranked(scored)[k] = d
      BY <3>1, <3>3
    <3>5. \A l \in 1 .. Len(scored') : scored'[l] # d
      BY <1>3, <2>2 DEF ToSet
    <3> DEFINE r == Ranked(scored)
    <3>6. Inputs /\ mode = "turn" /\ Fit(r)
      BY <1>0, <1>1, <3>1
    <3> HIDE DEF r
    <3>7. \A m \in 1 .. Len(r) : (\A l \in 1 .. Len(Quota(r)) : Quota(r)[l] # r[m]) => Len(Quota(r)) >= conf.topk
      BY <3>6, QuotaItems
    <3>8. scored' = Quota(r) /\ k \in 1 .. Len(r) /\ r[k] = d
      BY <2>1, <3>4 DEF r
    <3> QED BY <3>5, <3>7, <3>8
  <2> QED BY <2>8, <2>9
<1>6. RerankedAreShown'
  BY <1>0, <1>1 DEF RerankedAreShown
<1>7. SlotsWellSpent' /\ Fit(base') /\ texts' \subseteq Entries /\ reranked' = FALSE
  BY <1>0, <1>1, <1>4, <1>5 DEF SlotsWellSpent
<1> QED BY <1>0, <1>1, <1>2, <1>6, <1>7, Selection

-------------------------------------------------------------------------------
(* The invariant holds.                                                    *)

LEMMA InvariantStarts ==
  ASSUME Init
  PROVE  IInv
<1>1. Inputs
  BY DEF Init, Inputs
<1>2. /\ pc = "collect" /\ at = 0 /\ left = {} /\ seen = {} /\ scored = <<>> /\ base = <<>> /\ texts = {}
      /\ reranked = FALSE /\ items = <<>> /\ block = <<>>
  BY DEF Init
<1>3. Fit(<<>>) /\ Ids(<<>>) = {} /\ Len(<<>>) = 0
  BY <1>1, EmptyFit
<1>4. TypeOK
  <2>1. <<>> \in Seq([id : Entries, text : {"summary", "truncated", "raw"}]) /\ <<>> \in Seq(Candidates)
    BY EmptySeq
  <2> QED BY <1>2, <2>1 DEF TypeOK
<1>5. Collecting
  <2>1. \A e : ~Looked(e)
    BY <1>1, <1>2, InputTypes DEF Looked, Item
  <2>2. NItems \in Nat
    BY <1>1, InputTypes
  <2> QED BY <1>2, <1>3, <2>1, <2>2 DEF Collecting
<1>6. Fetching /\ Formatting
  BY <1>2 DEF Fetching, Formatting
<1>7. SlotsWellSpent /\ RerankedAreShown
  BY <1>2 DEF SlotsWellSpent, NoBetterLeftOut, QuotaServed, RerankedAreShown, Selected
<1> QED BY <1>1, <1>2, <1>3, <1>4, <1>5, <1>6, <1>7 DEF IInv

LEMMA NothingChanges ==
  ASSUME IInv, UNCHANGED vars
  PROVE  IInv'
<1> USE DEF vars
<1>1. Inputs /\ Inputs' /\ Turns' = Turns /\ Entries' = Entries /\ Candidates' = Candidates
      /\ Lines' = Lines /\ Reached' = Reached
      /\ \A e \in Entries : Passes(e)' <=> Passes(e)
  BY InputsStay DEF IInv
<1>2. TypeOK' /\ Fit(scored)' /\ Fit(base)'
  BY <1>1, FitStays DEF IInv, TypeOK
<1>3. Ids(scored)' = Ids(scored) /\ Ids(base)' = Ids(base)
  BY DEF Ids
<1>4. Collecting'
  <2>1. \A e : Looked(e)' <=> Looked(e)
    BY DEF Looked, Item
  <2>2. mode = "turn" => \A t \in Turns : <<t, 1>> \in Entries
    BY DEF Entries, Parts
  <2>3. (IF mode = "turn" THEN {t \in Turns : Looked(<<t, 1>>) /\ Passes(<<t, 1>>)}
         ELSE {e \in Entries : Looked(e)})'
        = IF mode = "turn" THEN {t \in Turns : Looked(<<t, 1>>) /\ Passes(<<t, 1>>)}
          ELSE {e \in Entries : Looked(e)}
    BY <1>1, <2>1, <2>2
  <2>4. {e \in Entries : Looked(e) /\ Passes(e)}' = {e \in Entries : Looked(e) /\ Passes(e)}
    BY <1>1, <2>1
  <2> QED BY <1>3, <2>3, <2>4 DEF IInv, Collecting, Direct
<1>5. Fetching' /\ Formatting'
  BY <1>1, <1>3 DEF IInv, Fetching, Formatting
<1>6. SlotsWellSpent'
  BY <1>1, SlotsStay DEF IInv, SlotsWellSpent, NoBetterLeftOut, QuotaServed, Selected
<1>7. RerankedAreShown'
  BY <1>1, <1>3 DEF IInv, RerankedAreShown, Selected
<1> QED BY <1>1, <1>2, <1>4, <1>5, <1>6, <1>7 DEF IInv

\* The invariant of the build: the candidates collected so far are those that
\* were looked at, each once and for the first item that leads to it; the
\* selection took the best; what the reranker picked is fetched one by one; and
\* a block that is ready has a line that is not a heading.
THEOREM InvariantHolds == Spec => []IInv
<1>1. Init => IInv
  BY InvariantStarts
<1>2. ASSUME IInv, [Next]_vars PROVE IInv'
  <2>1. CASE CollectItem
    BY <1>2, <2>1, NextItemIsTaken
  <2>2. CASE LookAtTurn
    BY <1>2, <2>2, TurnIsLookedAt
  <2>3. CASE SelectTurns
    BY <1>2, <2>3, TurnsAreSelected
  <2>4. CASE SelectEntries
    BY <1>2, <2>4, EntriesAreSelected
  <2>5. CASE RerankEntries
    BY <1>2, <2>5, EntriesAreReranked
  <2>6. CASE FetchSnippet
    BY <1>2, <2>6, SnippetIsFetched
  <2>7. CASE FormatBlock
    BY <1>2, <2>7, BlockIsBegun
  <2>8. CASE FormatItem
    BY <1>2, <2>8, ItemIsFormatted
  <2>9. CASE Narrow
    BY <1>2, <2>9, BlockIsNarrowed
  <2>10. CASE UNCHANGED vars
    BY <1>2, <2>10, NothingChanges
  <2> QED BY <1>2, <2>1, <2>2, <2>3, <2>4, <2>5, <2>6, <2>7, <2>8, <2>9, <2>10 DEF Next
<1> QED BY <1>1, <1>2, PTL DEF Spec

\* No turn or entry is cited twice, and each for the first item that leads to
\* it, or for a direct hit: build_evidence_block and _build_evidence_split
\* (builder.py) keep one set of what is spoken for over all the items.
THEOREM NothingIsCitedTwice == Spec => []CitedOnce
<1>1. IInv => CitedOnce
  <2> SUFFICES ASSUME IInv PROVE CitedOnce
    OBVIOUS
  <2>1. Cardinality(Ids(scored)) = Len(scored) /\ DOMAIN scored = 1 .. Len(scored)
    BY OnceCounts, FitTypes DEF IInv
  <2> QED BY <2>1 DEF IInv, CitedOnce, Fit, Led
<1> QED BY <1>1, InvariantHolds, PTL

\* A candidate that provenance leads to is left out only when the slots went to
\* candidates that score as well; with a quota, only when every slot is taken and
\* the first item that leads to the turn has its quota of turns that score as
\* well (rank_and_cut in ranking.py, build_evidence_block and
\* _build_evidence_split in builder.py).
THEOREM TheBestAreChosen == Spec => []SlotsWellSpent
<1>1. IInv => SlotsWellSpent
  BY DEF IInv
<1> QED BY <1>1, InvariantHolds, PTL

\* What the reranker picked is what the block shows, in its order, and what it
\* was offered is the best of the pool by cosine (_build_evidence_split).
THEOREM RerankedIsShown == Spec => []RerankedAreShown
<1>1. IInv => RerankedAreShown
  BY DEF IInv
<1> QED BY <1>1, InvariantHolds, PTL

\* Narrowing drops lines and does nothing else: it keeps their order, never more
\* than its budget when it cuts, and never headings alone (NarrowingModule.narrow).
THEOREM NarrowingDropsOnly == Spec => NarrowingOnlyDrops
<1>1. ASSUME IInv, [Next]_vars
      PROVE  pc = "narrow" =>
               LET old == Snippets(block) new == Snippets(block')
               IN  /\ new # <<>>
                   /\ new = old \/ Len(new) <= KeepTopN
                   /\ \E f \in [DOMAIN new -> DOMAIN old] :
                        /\ \A k \in DOMAIN new : new[k] = old[f[k]]
                        /\ \A k \in 1..(Len(new) - 1) : f[k] < f[k + 1]
  BY <1>1, NarrowingStep DEF Drops
<1> QED BY <1>1, InvariantHolds, PTL DEF Spec, NarrowingOnlyDrops

-------------------------------------------------------------------------------
(* The agent filter.                                                       *)

\* What the histories hold, and what the counters say of them: failures counts the
\* replies without a command at the end of recent, repeats what follows the first
\* of the equal commands at the end of asked.
Events == {"unparsed", "final", "command"}
Commands == UNION {Parsed[r].cmd : r \in Replies}
Trails(h, n, x) ==
  /\ n <= Len(h)
  /\ \A i \in 1 .. Len(h) : i > Len(h) - n => h[i] = x
  /\ n < Len(h) => h[Len(h) - n] # x
PInv ==
  /\ calls \in Nat /\ failures \in 0 .. 3 /\ repeats \in 0 .. 2
  /\ recent \in Seq(Events) /\ Len(recent) <= 3
  /\ asked \in Seq(Commands) /\ Len(asked) <= 3
  /\ Trails(recent, failures, "unparsed")
  /\ asked = <<>> => previous = {} /\ repeats = 0
  /\ asked # <<>> =>
       previous = {asked[Len(asked)]} /\ Trails(asked, repeats + 1, asked[Len(asked)])
  /\ stage \in {"mount", "prepare", "ask"} => failures < 3 /\ repeats < 2
  /\ stage = "force" /\ calls < MaxCalls =>
       failures = 3 \/ repeats = 2 \/ (recent # <<>> /\ recent[Len(recent)] = "final")


LEMMA RememberIs ==
  ASSUME NEW h, NEW x
  PROVE  Remember(h, x) = IF Len(h) < 3 THEN Append(h, x) ELSE Append(Tail(h), x)
BY DEF Remember

LEMMA UptoThree == \A n \in Nat : n <= 3 => n < 3 \/ n = 3
OBVIOUS

LEMMA Remembered ==
  ASSUME NEW S, NEW h \in Seq(S), Len(h) <= 3, NEW x \in S, NEW r, r = Remember(h, x)
  PROVE  /\ r \in Seq(S)
         /\ Len(r) = IF Len(h) < 3 THEN Len(h) + 1 ELSE Len(h)
         /\ r[Len(r)] = x
         /\ \A i \in 1 .. Len(r) - 1 : r[i] = h[IF Len(h) < 3 THEN i ELSE i + 1]
<1>1. CASE Len(h) < 3
  <2>1. r = Append(h, x)
    BY <1>1, RememberIs
  <2> QED
    BY <1>1, <2>1
<1>2. CASE ~(Len(h) < 3)
  <2> DEFINE t == Tail(h)
  <2>1. r = Append(t, x)
    BY <1>2, RememberIs
  <2>2. h # <<>>
    BY <1>2
  <2>3. t \in Seq(S) /\ Len(t) = Len(h) - 1 /\ \A i \in 1 .. Len(t) : t[i] = h[i + 1]
    BY <2>2, HeadTailProperties
  <2> HIDE DEF t
  <2>4. /\ r \in Seq(S) /\ Len(r) = Len(t) + 1 /\ r[Len(t) + 1] = x
        /\ \A i \in 1 .. Len(t) : r[i] = t[i]
    BY <2>1, <2>3, AppendProperties
  <2>5. Len(r) = Len(h) /\ Len(t) = Len(r) - 1
    BY <2>3, <2>4, LenProperties
  <2> QED
    BY <1>2, <2>3, <2>4, <2>5
<1> QED
  BY <1>1, <1>2

LEMMA LatestIsLast ==
  ASSUME NEW S, NEW h \in Seq(S), Len(h) <= 3, NEW x \in S, NEW r, r = Remember(h, x)
  PROVE  r \in Seq(S) /\ Len(r) <= 3 /\ r # <<>> /\ r[Len(r)] = x
<1>1. r \in Seq(S) /\ Len(r) = (IF Len(h) < 3 THEN Len(h) + 1 ELSE Len(h)) /\ r[Len(r)] = x
  BY Remembered
<1> QED
  BY <1>1

LEMMA LatestAsked ==
  ASSUME NEW c \in Commands, asked \in Seq(Commands), Len(asked) <= 3, asked' = Remember(asked, c)
  PROVE  asked' \in Seq(Commands) /\ Len(asked') <= 3 /\ asked' # <<>> /\ asked'[Len(asked')] = c
BY LatestIsLast

LEMMA TrailsAfter ==
  ASSUME NEW S, NEW h \in Seq(S), Len(h) <= 3, NEW x \in S, NEW n \in 0 .. 2
  PROVE  /\ Trails(h, n, x) => Trails(Remember(h, x), n + 1, x)
         /\ \A y : x # y => Trails(Remember(h, x), 0, y)
         /\ (h # <<>> => h[Len(h)] # x) => Trails(Remember(h, x), 1, x)
<1> DEFINE r == Remember(h, x)
<1>1. /\ r \in Seq(S)
      /\ Len(r) = IF Len(h) < 3 THEN Len(h) + 1 ELSE Len(h)
      /\ r[Len(r)] = x
      /\ \A i \in 1 .. Len(r) - 1 : r[i] = h[IF Len(h) < 3 THEN i ELSE i + 1]
  BY Remembered
<1> HIDE DEF r
<1>2. ASSUME Trails(h, n, x) PROVE Trails(r, n + 1, x)
  <2>1. n <= Len(h) /\ (\A i \in 1 .. Len(h) : i > Len(h) - n => h[i] = x) /\ (n < Len(h) => h[Len(h) - n] # x)
    BY <1>2 DEF Trails
  <2>2. n + 1 <= Len(r)
    BY <1>1, <2>1
  <2>3. \A i \in 1 .. Len(r) : i > Len(r) - (n + 1) => r[i] = x
    BY <1>1, <2>1
  <2>4. n + 1 < Len(r) => r[Len(r) - (n + 1)] # x
    <3>1. CASE n = 0
      BY <1>1, <2>1, <3>1
    <3>2. CASE n = 1
      BY <1>1, <2>1, <3>2
    <3>3. CASE n = 2
      BY <1>1, <2>1, <3>3
    <3> QED
      BY <3>1, <3>2, <3>3
  <2> QED
    BY <2>2, <2>3, <2>4 DEF Trails
<1>3. ASSUME NEW y, x # y PROVE Trails(r, 0, y)
  BY <1>1, <1>3 DEF Trails
<1>4. ASSUME h # <<>> => h[Len(h)] # x PROVE Trails(r, 1, x)
  <2>1. 1 <= Len(r) /\ (\A i \in 1 .. Len(r) : i > Len(r) - 1 => r[i] = x)
    BY <1>1
  <2>2. 1 < Len(r) => r[Len(r) - 1] # x
    BY <1>1, <1>4
  <2> QED
    BY <2>1, <2>2 DEF Trails
<1> QED
  BY <1>2, <1>3, <1>4 DEF r

LEMMA ThreeTrail ==
  ASSUME NEW S, NEW h \in Seq(S), Len(h) <= 3, NEW x, NEW n \in 0 .. 3, Trails(h, n, x)
  PROVE  ThreeSame(h, x) <=> n = 3
<1>1. n <= Len(h) /\ (\A i \in 1 .. Len(h) : i > Len(h) - n => h[i] = x) /\ (n < Len(h) => h[Len(h) - n] # x)
  BY DEF Trails
<1>2. ASSUME n = 3 PROVE ThreeSame(h, x)
  <2>0. 3 <= Len(h)
    BY <1>1, <1>2
  <2>1. Len(h) = 3
    <3> DEFINE l == Len(h)
    <3>1. l \in Nat /\ l <= 3 /\ 3 <= l
      BY <2>0
    <3> HIDE DEF l
    <3>2. l = 3
      BY <3>1
    <3> QED
      BY <3>2 DEF l
  <2>2. \A i \in 1 .. 3 : i > 3 - 3 => h[i] = x
    BY <1>1, <1>2, <2>1
  <2>3. \A i \in 1 .. 3 : h[i] = x
    BY <2>2
  <2> QED
    BY <2>1, <2>3 DEF ThreeSame
<1>3. ASSUME ThreeSame(h, x) PROVE n = 3
  <2>1. Len(h) = 3 /\ \A i \in 1 .. 3 : h[i] = x
    BY <1>3 DEF ThreeSame
  <2>2. ASSUME n < 3 PROVE FALSE
    <3>1. h[3 - n] # x
      BY <1>1, <2>1, <2>2
    <3>2. 3 - n \in 1 .. 3
      BY <2>2
    <3> QED
      BY <2>1, <3>1, <3>2
  <2> QED
    BY <2>2
<1> QED
  BY <1>2, <1>3

LEMMA PatienceHolds == PInv => PatienceIsConsecutive
<1> SUFFICES ASSUME PInv PROVE PatienceIsConsecutive
  OBVIOUS
<1>1. /\ recent \in Seq(Events) /\ Len(recent) <= 3
      /\ asked \in Seq(Commands) /\ Len(asked) <= 3
      /\ failures \in 0 .. 3 /\ repeats \in 0 .. 2 /\ Trails(recent, failures, "unparsed")
  BY DEF PInv
<1>2. ThreeSame(recent, "unparsed") <=> failures = 3
  BY <1>1, ThreeTrail
<1>3. ASSUME asked # <<>> PROVE ThreeSame(asked, asked[1]) <=> repeats = 2
  <2> DEFINE x == asked[Len(asked)]
  <2>1. Trails(asked, repeats + 1, x)
    BY <1>3 DEF PInv
  <2>2. ThreeSame(asked, x) <=> repeats + 1 = 3
    BY <1>1, <2>1, ThreeTrail
  <2>3. ThreeSame(asked, asked[1]) <=> ThreeSame(asked, x)
    BY <1>1 DEF ThreeSame
  <2> QED
    BY <1>1, <2>2, <2>3
<1>4. asked = <<>> => repeats = 0
  BY DEF PInv
<1>6. Last(recent) = recent[Len(recent)]
  BY DEF Last
<1>7. stage = "ask" => failures # 3 /\ repeats # 2
  BY <1>1 DEF PInv
<1>8. stage = "force" /\ calls < MaxCalls => failures = 3 \/ repeats = 2 \/ Last(recent) = "final"
  BY <1>6 DEF PInv
<1>9. ThreeSame(recent, "unparsed") \/ (asked # <<>> /\ ThreeSame(asked, asked[1]))
        <=> failures = 3 \/ repeats = 2
  BY <1>2, <1>3, <1>4
<1> QED
  BY <1>7, <1>8, <1>9 DEF PatienceIsConsecutive

LEMMA PatienceStarts == RefineInit => PInv
<1> SUFFICES ASSUME RefineInit PROVE PInv
  OBVIOUS
<1>1. stage = "mount" /\ calls = 0 /\ failures = 0 /\ repeats = 0 /\ previous = {} /\ recent = <<>> /\ asked = <<>>
  BY DEF RefineInit
<1>2. Trails(recent, failures, "unparsed")
  BY <1>1 DEF Trails
<1> QED
  BY <1>1, <1>2 DEF PInv

(* A step that is no reply of the agent in its turns leaves what it counts.    *)
LEMMA PatienceUnmoved ==
  ASSUME PInv, UNCHANGED <<calls, failures, repeats, previous, recent, asked>>,
         \/ stage' = stage \/ stage' \notin {"mount", "prepare", "ask", "force"}
         \/ stage \in {"mount", "prepare"} /\ stage' \in {"prepare", "ask"}
  PROVE  PInv'
<1>1. Trails(recent, failures, "unparsed")'
  BY DEF PInv, Trails
<1>2. asked # <<>> => Trails(asked', repeats' + 1, asked'[Len(asked')])
  BY DEF PInv
<1> QED
  BY <1>1, <1>2 DEF PInv, Commands

LEMMA ReplyUnparsed == ASSUME PInv, Unparsed PROVE PInv'
<1>1. /\ stage = "ask" /\ calls' = calls + 1 /\ failures' = failures + 1
      /\ recent' = Remember(recent, "unparsed")
      /\ IF failures' >= 3 THEN stage' = "force" ELSE stage' = stage
      /\ UNCHANGED <<repeats, previous, asked>>
  BY DEF Unparsed, Asking, GoesOn, MaxParseFailures
<1>2. /\ calls \in Nat /\ failures \in 0 .. 2 /\ repeats \in 0 .. 1
      /\ recent \in Seq(Events) /\ Len(recent) <= 3
      /\ Trails(recent, failures, "unparsed")
  BY <1>1 DEF PInv
<1>3. Trails(recent', failures', "unparsed")
  BY <1>1, <1>2, TrailsAfter DEF Events
<1>4. recent' \in Seq(Events) /\ Len(recent') <= 3
  BY <1>1, <1>2, LatestIsLast DEF Events
<1>5. asked # <<>> => Trails(asked', repeats' + 1, asked'[Len(asked')])
  BY <1>1 DEF PInv
<1>6. failures' \in 0 .. 3 /\ (stage' = "ask" => failures' < 3) /\ (stage' = "force" => failures' = 3)
      /\ stage' \in {"ask", "force"} /\ calls' \in Nat
  BY <1>1, <1>2
<1> QED
  BY <1>1, <1>2, <1>3, <1>4, <1>5, <1>6 DEF PInv, Commands

LEMMA ReplyFinal == ASSUME PInv, Finals PROVE PInv'
<1>1. /\ calls' = calls + 1 /\ failures' = 0
      /\ recent' = Remember(recent, "final")
      /\ stage' \in {"select", "force"}
      /\ UNCHANGED <<repeats, previous, asked>>
  BY DEF Finals, Asking
<1>2. recent \in Seq(Events) /\ Len(recent) <= 3 /\ calls \in Nat
  BY DEF PInv
<1>3. Trails(recent', failures', "unparsed")
  BY <1>1, <1>2, TrailsAfter DEF Events
<1>4. /\ recent' \in Seq(Events) /\ Len(recent') <= 3
      /\ recent' # <<>> /\ recent'[Len(recent')] = "final"
  <2>1. recent' = Remember(recent, "final") /\ "final" \in Events
    BY <1>1 DEF Events
  <2> QED
    BY <1>2, <2>1, LatestIsLast
<1>5. asked # <<>> => Trails(asked', repeats' + 1, asked'[Len(asked')])
  BY <1>1 DEF PInv
<1> QED
  BY <1>1, <1>2, <1>3, <1>4, <1>5 DEF PInv, Commands

LEMMA ReplyRepeats == ASSUME PInv, Repeats PROVE PInv'
<1>1. PICK r \in Replies : \E c \in Parsed[r].cmd :
        /\ stage = "ask" /\ previous = {c}
        /\ calls' = calls + 1 /\ failures' = 0 /\ repeats' = repeats + 1
        /\ recent' = Remember(recent, "command") /\ asked' = Remember(asked, c)
        /\ (IF repeats' >= 2 THEN stage' = "force" ELSE stage' = stage)
        /\ previous' = previous
  BY DEF Repeats, Asking, GoesOn
<1>2. PICK c \in Parsed[r].cmd :
        /\ stage = "ask" /\ previous = {c}
        /\ calls' = calls + 1 /\ failures' = 0 /\ repeats' = repeats + 1
        /\ recent' = Remember(recent, "command") /\ asked' = Remember(asked, c)
        /\ (IF repeats' >= 2 THEN stage' = "force" ELSE stage' = stage)
        /\ previous' = previous
  BY <1>1
<1>3. c \in Commands
  BY DEF Commands
<1>4. /\ recent \in Seq(Events) /\ Len(recent) <= 3
      /\ asked \in Seq(Commands) /\ Len(asked) <= 3 /\ repeats \in 0 .. 1 /\ calls \in Nat
  BY <1>2 DEF PInv
<1>5. Trails(recent', failures', "unparsed")
  BY <1>2, <1>4, TrailsAfter DEF Events
<1>6. /\ recent' \in Seq(Events) /\ Len(recent') <= 3
      /\ asked' \in Seq(Commands) /\ Len(asked') <= 3 /\ asked' # <<>> /\ asked'[Len(asked')] = c
  <2>1. "command" \in Events
    BY DEF Events
  <2>2. recent' \in Seq(Events) /\ Len(recent') <= 3
    BY <1>2, <1>4, <2>1, LatestIsLast
  <2>3. asked' = Remember(asked, c) /\ asked \in Seq(Commands) /\ Len(asked) <= 3
    BY <1>2, <1>4
  <2>4. asked' \in Seq(Commands) /\ Len(asked') <= 3 /\ asked' # <<>> /\ asked'[Len(asked')] = c
    BY <1>3, <2>3, LatestAsked
  <2> QED
    BY <2>2, <2>4
<1>7. asked # <<>> /\ c = asked[Len(asked)] /\ Trails(asked, repeats + 1, c)
  BY <1>2 DEF PInv
<1>8. Trails(asked', repeats' + 1, c)
  <2> DEFINE n == repeats + 1
  <2>1. n \in 0 .. 2 /\ Trails(asked, n, c) /\ repeats' + 1 = n + 1
    BY <1>2, <1>4, <1>7
  <2> HIDE DEF n
  <2> QED
    BY <1>2, <1>3, <1>4, <2>1, TrailsAfter
<1>9. repeats' \in 0 .. 2 /\ (stage' = "ask" => repeats' < 2) /\ (stage' = "force" => repeats' = 2) /\ calls' \in Nat
      /\ failures' = 0 /\ stage' \in {"ask", "force"}
  BY <1>2, <1>4
<1> QED
  BY <1>2, <1>5, <1>6, <1>8, <1>9 DEF PInv, Commands

LEMMA ReplyExecutes == ASSUME PInv, Executes PROVE PInv'
<1>1. PICK r \in Replies : \E c \in Parsed[r].cmd :
        /\ stage = "ask" /\ previous # {c}
        /\ calls' = calls + 1 /\ failures' = 0 /\ repeats' = 0
        /\ recent' = Remember(recent, "command") /\ asked' = Remember(asked, c)
        /\ previous' = {c} /\ stage' = stage
  BY DEF Executes, Asking
<1>2. PICK c \in Parsed[r].cmd :
        /\ stage = "ask" /\ previous # {c}
        /\ calls' = calls + 1 /\ failures' = 0 /\ repeats' = 0
        /\ recent' = Remember(recent, "command") /\ asked' = Remember(asked, c)
        /\ previous' = {c} /\ stage' = stage
  BY <1>1
<1>3. c \in Commands
  BY DEF Commands
<1>4. /\ recent \in Seq(Events) /\ Len(recent) <= 3
      /\ asked \in Seq(Commands) /\ Len(asked) <= 3 /\ calls \in Nat
  BY <1>2 DEF PInv
<1>5. Trails(recent', failures', "unparsed")
  BY <1>2, <1>4, TrailsAfter DEF Events
<1>6. /\ recent' \in Seq(Events) /\ Len(recent') <= 3
      /\ asked' \in Seq(Commands) /\ Len(asked') <= 3 /\ asked' # <<>> /\ asked'[Len(asked')] = c
  <2>1. "command" \in Events
    BY DEF Events
  <2>2. recent' \in Seq(Events) /\ Len(recent') <= 3
    BY <1>2, <1>4, <2>1, LatestIsLast
  <2>3. asked' = Remember(asked, c) /\ asked \in Seq(Commands) /\ Len(asked) <= 3
    BY <1>2, <1>4
  <2>4. asked' \in Seq(Commands) /\ Len(asked') <= 3 /\ asked' # <<>> /\ asked'[Len(asked')] = c
    BY <1>3, <2>3, LatestAsked
  <2> QED
    BY <2>2, <2>4
<1>7. asked # <<>> => asked[Len(asked)] # c
  BY <1>2 DEF PInv
<1>8. Trails(asked', repeats' + 1, c)
  BY <1>2, <1>3, <1>4, <1>7, TrailsAfter
<1> QED
  BY <1>2, <1>4, <1>5, <1>6, <1>8 DEF PInv, Commands

LEMMA PatienceInvariant == RefineSpec => []PInv
<1> USE DEF refineVars, loop, result
<1>1. ASSUME PInv, [RefineNext]_refineVars PROVE PInv'
  <2>1. CASE Unparsed
    BY <1>1, <2>1, ReplyUnparsed
  <2>2. CASE Finals
    BY <1>1, <2>2, ReplyFinal
  <2>3. CASE Repeats
    BY <1>1, <2>3, ReplyRepeats
  <2>4. CASE Executes
    BY <1>1, <2>4, ReplyExecutes
  <2>5. CASE OutOfCalls
    <3>1. UNCHANGED <<calls, failures, repeats, previous, recent, asked>> /\ calls = MaxCalls /\ stage' = "force"
      BY <2>5 DEF OutOfCalls
    <3>2. ~(calls' < MaxCalls)
      BY <3>1, LimitsAssumption
    <3>3. Trails(recent, failures, "unparsed")'
      BY <1>1, <3>1 DEF PInv, Trails
    <3>4. asked # <<>> => Trails(asked', repeats' + 1, asked'[Len(asked')])
      BY <1>1, <3>1 DEF PInv
    <3> QED
      BY <1>1, <3>1, <3>2, <3>3, <3>4 DEF PInv, Commands
  <2>6. CASE UNCHANGED refineVars
    BY <1>1, <2>6, PatienceUnmoved
  <2>7. CASE Mount
    BY <1>1, <2>7, PatienceUnmoved DEF Mount, GiveBack
  <2>8. CASE Prepare
    BY <1>1, <2>8, PatienceUnmoved DEF Prepare, GiveBack
  <2>9. CASE ForceFinal
    BY <1>1, <2>9, PatienceUnmoved DEF ForceFinal, GiveBack
  <2>10. CASE Select
    BY <1>1, <2>10, PatienceUnmoved DEF Select, GiveBack
  <2>11. CASE Audit \/ AuditSkipped
    BY <1>1, <2>11, PatienceUnmoved DEF Audit, AuditSkipped
  <2>12. CASE Render
    BY <1>1, <2>12, PatienceUnmoved DEF Render, GiveBack
  <2>13. CASE Raises
    BY <1>1, <2>13, PatienceUnmoved DEF Raises, GiveBack
  <2> QED
    BY <1>1, <2>1, <2>2, <2>3, <2>4, <2>5, <2>6, <2>7, <2>8, <2>9, <2>10, <2>11, <2>12, <2>13 DEF RefineNext
<1> QED
  BY <1>1, PatienceStarts, PTL DEF RefineSpec

\* In the turns of the agent (AgentSession.run), the loop goes on unless the last
\* three replies had no command or the last three commands were the same one, and
\* before the calls are used up it is left for one of these or for a FINAL of
\* which nothing resolved, whatever the model replies and the tools return.
THEOREM PatienceIsKept == RefineSpec => []PatienceIsConsecutive
BY PatienceInvariant, PatienceHolds, PTL

-------------------------------------------------------------------------------
(* What lists hold.                                                        *)

LEMMA LeastNat ==
  ASSUME NEW S \in SUBSET Nat, S # {}
  PROVE  \E n \in S : \A m \in S : n <= m
<1>1. PICK n \in S : \A m \in S : <<m, n>> \notin OpToRel(<, Nat)
  BY NatLessThanWellFounded, WFMin
<1>2. \A m \in S : ~(m < n)
  BY <1>1 DEF OpToRel
<1> QED BY <1>2

LEMMA Holds ==
  ASSUME NEW S, NEW s \in Seq(S)
  PROVE  /\ Len(s) \in Nat /\ DOMAIN s = 1 .. Len(s)
         /\ ToSet(s) = {s[i] : i \in 1 .. Len(s)} /\ ToSet(s) \subseteq S
         /\ s = <<>> <=> ToSet(s) = {}
         /\ \A T : ToSet(s) \subseteq T => s \in Seq(T)
<1>1. Len(s) \in Nat /\ DOMAIN s = 1 .. Len(s) /\ \A i \in 1 .. Len(s) : s[i] \in S
  BY LenProperties, ElementOfSeq
<1>2. ToSet(s) = {s[i] : i \in 1 .. Len(s)}
  BY <1>1 DEF ToSet
<1>3. ASSUME NEW T, ToSet(s) \subseteq T PROVE s \in Seq(T)
  <2>1. s \in [1 .. Len(s) -> T]
    <3>1. s \in [1 .. Len(s) -> S]
      BY LenProperties
    <3> QED BY <1>2, <1>3, <3>1
  <2> QED BY <1>1, <2>1, SeqDef
<1>4. s = <<>> <=> Len(s) = 0
  BY <1>1, EmptySeq
<1>5. Len(s) = 0 <=> ToSet(s) = {}
  <2>1. CASE Len(s) = 0
    BY <1>2, <2>1
  <2>2. CASE Len(s) # 0
    <3>1. 1 \in 1 .. Len(s)
      BY <1>1, <2>2
    <3>2. s[1] \in ToSet(s)
      BY <1>2, <3>1
    <3> QED BY <2>2, <3>2
  <2> QED BY <2>1, <2>2
<1> QED BY <1>1, <1>2, <1>3, <1>4, <1>5

\* What is taken of a list, or of a function, at some places.
LEMMA AtHolds ==
  ASSUME NEW S, NEW P \in SUBSET Nat, IsFiniteSet(P), NEW s, \A i \in P : s[i] \in S
  PROVE  /\ At(s, P) \in Seq(S)
         /\ ToSet(At(s, P)) = {s[i] : i \in P}
         /\ At(s, P) = <<>> <=> P = {}
<1> DEFINE n == Cardinality(P)
           f == [k \in 1 .. n |-> Nth(P, Rising(P), k)]
<1>1. Linear(P, Rising(P))
  BY RisingLinear
<1>2. /\ n \in Nat /\ f \in [1 .. n -> P]
      /\ \A i \in P : \E k \in 1 .. n : f[k] = i
  <2>1. /\ n \in Nat
        /\ \A k \in 1 .. n : Nth(P, Rising(P), k) \in P
        /\ \A i \in P : \E k \in 1 .. n : i = Nth(P, Rising(P), k)
    BY <1>1, NthPlace
  <2> QED BY <2>1
<1>3. At(s, P) = [k \in 1 .. n |-> s[f[k]]]
  BY DEF At
<1> HIDE DEF f
<1>4. At(s, P) \in [1 .. n -> S]
  BY <1>2, <1>3
<1>5. At(s, P) \in Seq(S) /\ Len(At(s, P)) = n
  BY <1>2, <1>4, ListOf
<1>6. ToSet(At(s, P)) = {At(s, P)[k] : k \in 1 .. n}
  BY <1>5, Holds
<1>7. ToSet(At(s, P)) = {s[i] : i \in P}
  <2>1. \A k \in 1 .. n : At(s, P)[k] = s[f[k]]
    BY <1>3
  <2>2. \A k \in 1 .. n : At(s, P)[k] \in {s[i] : i \in P}
    BY <1>2, <2>1
  <2>3. \A i \in P : \E k \in 1 .. n : At(s, P)[k] = s[i]
    BY <1>2, <2>1
  <2> QED BY <1>6, <2>2, <2>3
<1>8. {s[i] : i \in P} = {} <=> P = {}
  OBVIOUS
<1> QED BY <1>5, <1>7, <1>8, Holds

\* Places of a list are finitely many numbers.
LEMMA Places ==
  ASSUME NEW S, NEW s \in Seq(S), NEW P \in SUBSET (DOMAIN s)
  PROVE  P \in SUBSET Nat /\ IsFiniteSet(P) /\ \A i \in P : s[i] \in S
<1>1. Len(s) \in Nat /\ DOMAIN s = 1 .. Len(s) /\ \A i \in 1 .. Len(s) : s[i] \in S
  BY LenProperties, ElementOfSeq
<1>2. IsFiniteSet(P)
  <2>1. IsFiniteSet(1 .. Len(s))
    BY <1>1, FS_Interval
  <2> QED BY <1>1, <2>1, FS_Subset
<1> QED BY <1>1, <1>2

LEMMA FilterHolds ==
  ASSUME NEW S, NEW s \in Seq(S), NEW P \in SUBSET (DOMAIN s)
  PROVE  /\ At(s, P) \in Seq(S)
         /\ ToSet(At(s, P)) = {s[i] : i \in P}
         /\ At(s, P) = <<>> <=> P = {}
<1>1. P \in SUBSET Nat /\ IsFiniteSet(P) /\ \A i \in P : s[i] \in S
  BY Places
<1> QED BY <1>1, AtHolds

LEMMA AmongHolds ==
  ASSUME NEW S, NEW s \in Seq(S), NEW t
  PROVE  /\ Among(s, t) \in Seq(S) /\ ToSet(Among(s, t)) = ToSet(s) \cap ToSet(t)
         /\ Without(s, t) \in Seq(S) /\ ToSet(Without(s, t)) = ToSet(s) \ ToSet(t)
<1> DEFINE P == {i \in DOMAIN s : s[i] \in ToSet(t)}
           Q == {i \in DOMAIN s : s[i] \notin ToSet(t)}
<1>1. Among(s, t) \in Seq(S) /\ ToSet(Among(s, t)) = {s[i] : i \in P}
  BY FilterHolds DEF Among
<1>2. Without(s, t) \in Seq(S) /\ ToSet(Without(s, t)) = {s[i] : i \in Q}
  BY FilterHolds DEF Without
<1>3. {s[i] : i \in P} = ToSet(s) \cap ToSet(t)
  BY DEF ToSet
<1>4. {s[i] : i \in Q} = ToSet(s) \ ToSet(t)
  BY DEF ToSet
<1> QED BY <1>1, <1>2, <1>3, <1>4

\* Without repetitions a list holds what it held.
LEMMA DistinctHolds ==
  ASSUME NEW S, NEW s \in Seq(S)
  PROVE  Distinct(s) \in Seq(S) /\ ToSet(Distinct(s)) = ToSet(s)
<1> DEFINE P == {i \in DOMAIN s : \A j \in 1 .. (i - 1) : s[j] # s[i]}
<1>1. Distinct(s) \in Seq(S) /\ ToSet(Distinct(s)) = {s[i] : i \in P}
  BY FilterHolds DEF Distinct
<1>2. ASSUME NEW i \in DOMAIN s PROVE \E k \in P : s[k] = s[i]
  <2> DEFINE E == {k \in DOMAIN s : s[k] = s[i]}
  <2>1. E \in SUBSET Nat /\ E # {} /\ DOMAIN s = 1 .. Len(s) /\ Len(s) \in Nat
    BY LenProperties
  <2>2. PICK k \in E : \A m \in E : k <= m
    <3> HIDE DEF E
    <3> QED BY <2>1, LeastNat
  <2>3. k \in P
    BY <2>1, <2>2
  <2> QED BY <2>2, <2>3
<1>3. {s[i] : i \in P} = ToSet(s)
  BY <1>2 DEF ToSet
<1> QED BY <1>1, <1>3

LEMMA ConcatHolds ==
  ASSUME NEW S, NEW s \in Seq(S), NEW t \in Seq(S)
  PROVE  s \o t \in Seq(S) /\ ToSet(s \o t) = ToSet(s) \cup ToSet(t)
<1>1. /\ s \o t \in Seq(S) /\ Len(s \o t) = Len(s) + Len(t)
      /\ \A i \in 1 .. Len(s) + Len(t) : (s \o t)[i] = IF i <= Len(s) THEN s[i] ELSE t[i - Len(s)]
  BY ConcatProperties
<1> DEFINE u == s \o t
           m == Len(s)
           n == Len(t)
<1>2. /\ m \in Nat /\ n \in Nat /\ ToSet(s) = {s[i] : i \in 1 .. m} /\ ToSet(t) = {t[i] : i \in 1 .. n}
      /\ ToSet(u) = {u[i] : i \in 1 .. m + n}
      /\ \A i \in 1 .. m + n : u[i] = IF i <= m THEN s[i] ELSE t[i - m]
  BY <1>1, Holds
<1> HIDE DEF u, m, n
<1>3. \A i \in 1 .. m + n : u[i] \in ToSet(s) \cup ToSet(t)
  <2> TAKE i \in 1 .. m + n
  <2>1. CASE i <= m
    BY <1>2, <2>1
  <2>2. CASE ~(i <= m)
    <3>1. i - m \in 1 .. n
      BY <1>2, <2>2
    <3> QED BY <1>2, <2>2, <3>1
  <2> QED BY <2>1, <2>2
<1>4. \A i \in 1 .. m : s[i] \in ToSet(u)
  BY <1>2
<1>5. \A i \in 1 .. n : t[i] \in ToSet(u)
  <2> TAKE i \in 1 .. n
  <2>1. i + m \in 1 .. m + n /\ ~(i + m <= m) /\ i + m - m = i
    BY <1>2
  <2>2. u[i + m] = t[i]
    BY <1>2, <2>1
  <2> QED BY <1>2, <2>1, <2>2
<1>6. ToSet(u) = ToSet(s) \cup ToSet(t)
  BY <1>2, <1>3, <1>4, <1>5
<1> QED BY <1>1, <1>6 DEF u

LEMMA UptoHolds ==
  ASSUME NEW S, NEW s \in Seq(S), NEW n \in Nat
  PROVE  /\ Upto(s, n) \in Seq(S) /\ ToSet(Upto(s, n)) \subseteq ToSet(s)
         /\ Len(Upto(s, n)) \in Nat /\ Len(Upto(s, n)) <= n
<1> DEFINE t == Upto(s, n)
<1>1. /\ Len(s) \in Nat /\ t \in Seq(S) /\ Len(t) = (IF n < Len(s) THEN n ELSE Len(s))
      /\ \A k \in 1 .. Len(t) : k \in 1 .. Len(s) /\ t[k] = s[k]
  BY UptoItems
<1>2. ToSet(s) = {s[i] : i \in 1 .. Len(s)} /\ ToSet(t) = {t[i] : i \in 1 .. Len(t)}
  BY <1>1, Holds
<1> HIDE DEF t
<1>3. ToSet(t) \subseteq ToSet(s)
  BY <1>1, <1>2
<1> QED BY <1>1, <1>3 DEF t

\* Lists put one after the other hold what each of them holds.
LEMMA FlattenHolds ==
  ASSUME NEW S, NEW q \in Seq(Seq(S))
  PROVE  /\ FlattenSeq(q) \in Seq(S)
         /\ \A x : x \in ToSet(FlattenSeq(q)) <=> \E i \in 1 .. Len(q) : x \in ToSet(q[i])
<1> DEFINE n == Len(q)
           Body(f, m) == [i \in 1 .. m |-> IF i = 1 THEN q[i] ELSE f[i - 1] \o q[i]]
           F == CHOOSE f : f = Body(f, n)
<1>1. n \in Nat /\ \A i \in 1 .. n : q[i] \in Seq(S)
  BY LenProperties, ElementOfSeq
<1>2. CASE n = 0
  <2>1. q = <<>>
    BY <1>2, EmptySeq
  <2>2. FlattenSeq(q) = <<>>
    BY <1>2, <2>1 DEF FlattenSeq
  <2>3. <<>> \in Seq(S) /\ ToSet(<<>>) = {}
    <3>1. <<>> \in Seq(S)
      BY EmptySeq
    <3> QED BY <3>1, Holds
  <2> QED BY <1>2, <2>2, <2>3
<1>3. CASE n # 0
  <2>1. FlattenSeq(q) = F[n]
    BY <1>3 DEF FlattenSeq
  <2>2. \E f : f = Body(f, n)
    <3> DEFINE Is(m) == \E g : g = Body(g, m)
               Bad == {m \in 0 .. n : ~Is(m)}
    <3>0. SUFFICES ASSUME ~Is(n) PROVE FALSE
      OBVIOUS
    <3> HIDE DEF Is
    <3>1. Bad \in SUBSET Nat /\ Bad # {}
      <4>1. n \in 0 .. n /\ \A m \in 0 .. n : m \in Nat
        BY <1>1
      <4> QED BY <3>0, <4>1
    <3>2. PICK m \in Bad : \A k \in Bad : m <= k
      <4> HIDE DEF Bad
      <4> QED BY <3>1, LeastNat
    <3>3. m # 0
      <4> DEFINE g == [i \in 1 .. 0 |-> q[i]]
      <4>1. g = Body(g, 0)
        OBVIOUS
      <4> HIDE DEF g, Body
      <4>2. Is(0)
        BY <4>1 DEF Is
      <4> QED BY <3>2, <4>2
    <3>4. m \in 1 .. n /\ m - 1 \in 0 .. n /\ ~(m <= m - 1)
      BY <1>1, <3>2, <3>3
    <3>5. PICK g : g = Body(g, m - 1)
      <4>1. m - 1 \notin Bad
        BY <3>2, <3>4
      <4> HIDE DEF Body
      <4> QED BY <3>4, <4>1 DEF Is
    <3> DEFINE h == [i \in 1 .. m |-> IF i < m THEN g[i] ELSE IF i = 1 THEN q[i] ELSE g[i - 1] \o q[i]]
    <3>6. \A i \in 1 .. (m - 1) : g[i] = IF i = 1 THEN q[i] ELSE g[i - 1] \o q[i]
      BY <3>5
    <3>7. ASSUME NEW i \in 1 .. m PROVE h[i] = IF i = 1 THEN q[i] ELSE h[i - 1] \o q[i]
      <4>1. i = 1 \/ (i - 1 \in 1 .. m /\ i - 1 < m /\ h[i - 1] = g[i - 1])
        BY <3>4
      <4>2. h[i] = IF i < m THEN g[i] ELSE IF i = 1 THEN q[i] ELSE g[i - 1] \o q[i]
        BY <3>4
      <4>3. h[i] = IF i = 1 THEN q[i] ELSE g[i - 1] \o q[i]
        <5>1. CASE i < m
          <6>1. i \in 1 .. (m - 1)
            BY <3>4, <5>1
          <6> HIDE DEF h
          <6> QED BY <3>6, <4>2, <5>1, <6>1
        <5>2. CASE ~(i < m)
          BY <4>2, <5>2
        <5> QED BY <5>1, <5>2
      <4> HIDE DEF h
      <4> QED BY <4>1, <4>3
    <3>8. h = Body(h, m)
      <4>1. h = [i \in 1 .. m |-> h[i]]
        OBVIOUS
      <4> HIDE DEF h
      <4> QED BY <3>7, <4>1
    <3> HIDE DEF h, Body
    <3>9. Is(m)
      BY <3>8 DEF Is
    <3> QED BY <3>2, <3>9
  <2>3. F = Body(F, n)
    <3> HIDE DEF Body
    <3> QED BY <2>2
  <2>4. \A i \in 1 .. n : F[i] = IF i = 1 THEN q[i] ELSE F[i - 1] \o q[i]
    <3> HIDE DEF F
    <3> QED BY <2>3
  <2> HIDE DEF F, Body
  <2> DEFINE Good(i) == F[i] \in Seq(S) /\ \A x : x \in ToSet(F[i]) <=> \E j \in 1 .. i : x \in ToSet(q[j])
  <2>5. ASSUME NEW i \in 1 .. n, i # 1 => Good(i - 1) PROVE Good(i)
    <3>1. CASE i = 1
      <4>1. F[i] = q[1] /\ 1 .. i = {1}
        BY <2>4, <3>1
      <4> QED BY <1>1, <3>1, <4>1
    <3>2. CASE i # 1
      <4>1. F[i] = F[i - 1] \o q[i] /\ Good(i - 1) /\ q[i] \in Seq(S)
        BY <1>1, <2>4, <2>5, <3>2
      <4>2. F[i] \in Seq(S) /\ ToSet(F[i]) = ToSet(F[i - 1]) \cup ToSet(q[i])
        BY <4>1, ConcatHolds
      <4>3. 1 .. i = (1 .. (i - 1)) \cup {i}
        BY <1>1, <3>2
      <4>4. ASSUME NEW x
            PROVE  (\E j \in 1 .. i : x \in ToSet(q[j]))
                      <=> x \in ToSet(q[i]) \/ \E j \in 1 .. (i - 1) : x \in ToSet(q[j])
        BY <4>3
      <4> QED BY <4>1, <4>2, <4>4
    <3> QED BY <3>1, <3>2
  <2>6. Good(n)
    <3> DEFINE Bad == {i \in 1 .. n : ~Good(i)}
    <3> HIDE DEF Good
    <3>0. SUFFICES ASSUME ~Good(n) PROVE FALSE
      OBVIOUS
    <3>1. Bad \in SUBSET Nat /\ Bad # {}
      <4>1. n \in 1 .. n /\ \A m \in 1 .. n : m \in Nat
        BY <1>1, <1>3
      <4> QED BY <3>0, <4>1
    <3>2. PICK i \in Bad : \A k \in Bad : i <= k
      <4> HIDE DEF Bad
      <4> QED BY <3>1, LeastNat
    <3>3. i # 1 => i - 1 \in 1 .. n /\ ~(i <= i - 1)
      BY <1>1, <3>2
    <3>4. i # 1 => Good(i - 1)
      BY <3>2, <3>3
    <3> QED BY <2>5, <3>2, <3>4
  <2> QED BY <2>1, <2>6
<1> QED BY <1>2, <1>3

-------------------------------------------------------------------------------
(* The corpus: whatever is named, found or ruled, it is a list of its sids.    *)

Known == ToSet(Sids)

LEMMA SidsHold == Sids \in Seq(Known) /\ \A s \in Known : s[3] \in {1, 2}
<1> DEFINE n == Len(Rows)
           all == [i \in DOMAIN Rows |-> [sid |-> SidOf(Rows[i]), words |-> Rows[i].words]]
           T == {all[i] : i \in DOMAIN Rows}
           P == {i \in DOMAIN all : all[i].words # <<>>}
<1>1. n \in Nat /\ DOMAIN Rows = 1 .. n
  BY ListsAssumption, LenProperties DEF List
<1>2. all \in Seq(T)
  <2>1. all \in [1 .. n -> T]
    BY <1>1
  <2> HIDE DEF all, T
  <2> QED BY <1>1, <2>1, ListOf
<1>3. \A t \in T : t.sid[3] \in {1, 2}
  BY DEF SidOf
<1>4. CorpusTurns \in Seq(T)
  <2>1. CorpusTurns = At(all, P)
    BY DEF CorpusTurns
  <2> HIDE DEF all, T
  <2> QED BY <1>2, <2>1, FilterHolds
<1> HIDE DEF all, T
<1> DEFINE m == Len(CorpusTurns)
           D == {t.sid : t \in T}
<1>5. m \in Nat /\ DOMAIN CorpusTurns = 1 .. m /\ \A i \in 1 .. m : CorpusTurns[i] \in T
  BY <1>4, LenProperties, ElementOfSeq
<1>6. Sids \in [1 .. m -> D]
  BY <1>5 DEF Sids
<1>7. Sids \in Seq(D)
  <2> HIDE DEF m, D
  <2> QED BY <1>5, <1>6, ListOf
<1>8. Known \subseteq D /\ Sids \in Seq(Known)
  <2> HIDE DEF D
  <2> QED BY <1>7, Holds DEF Known
<1>9. \A s \in D : s[3] \in {1, 2}
  BY <1>3
<1> QED BY <1>8, <1>9

LEMMA TurnsHold ==
  ASSUME NEW P \in SUBSET (DOMAIN CorpusTurns)
  PROVE  List(At(CorpusTurns, P))
<1> DEFINE all == [i \in DOMAIN Rows |-> [sid |-> SidOf(Rows[i]), words |-> Rows[i].words]]
           T == {all[i] : i \in DOMAIN Rows}
           Q == {i \in DOMAIN all : all[i].words # <<>>}
<1>1. Len(Rows) \in Nat /\ DOMAIN Rows = 1 .. Len(Rows)
  BY ListsAssumption, LenProperties DEF List
<1>2. all \in Seq(T)
  <2>1. all \in [1 .. Len(Rows) -> T]
    BY <1>1
  <2> HIDE DEF all, T
  <2> QED BY <1>1, <2>1, ListOf
<1>3. CorpusTurns = At(all, Q)
  BY DEF CorpusTurns
<1> HIDE DEF all, T
<1>4. CorpusTurns \in Seq(T)
  BY <1>2, <1>3, FilterHolds
<1>5. At(CorpusTurns, P) \in Seq(T)
  BY <1>4, FilterHolds
<1> QED BY <1>5, Holds DEF List

LEMMA NamedHolds ==
  ASSUME NEW n
  PROVE  /\ Named(n) \in Seq(Known)
         /\ n \in Known => Named(n) = <<n>>
         /\ n \notin Known => ToSet(Named(n)) = {s \in Known : n[3] = 0 /\ s[1] = n[1] /\ s[2] = n[2]}
<1>1. CASE n \in Known
  BY <1>1 DEF Named, Known
<1>2. CASE n \notin Known
  <2> DEFINE P == {i \in DOMAIN Sids : n[3] = 0 /\ Sids[i][1] = n[1] /\ Sids[i][2] = n[2]}
  <2>1. Named(n) = At(Sids, P)
    BY <1>2 DEF Named, Known
  <2>2. Named(n) \in Seq(Known) /\ ToSet(Named(n)) = {Sids[i] : i \in P}
    BY <2>1, SidsHold, FilterHolds
  <2>3. {Sids[i] : i \in P} = {s \in Known : n[3] = 0 /\ s[1] = n[1] /\ s[2] = n[2]}
    BY DEF Known, ToSet
  <2> QED BY <1>2, <2>2, <2>3
<1> QED BY <1>1, <1>2

LEMMA ResolveHolds == \A n : Resolve(n) \in Seq(Known) /\ (Named(n) # <<>> => Resolve(n) = Named(n))
<1>1. <<>> \in Seq(Known)
  BY EmptySeq
<1> QED BY <1>1, NamedHolds DEF Resolve

LEMMA ResolvedHolds ==
  ASSUME NEW X, NEW names \in Seq(X)
  PROVE  LET all == FlattenSeq([i \in DOMAIN names |-> Resolve(names[i])])
         IN  /\ all \in Seq(Known)
             /\ \A x : x \in ToSet(all) <=> \E i \in 1 .. Len(names) : x \in ToSet(Resolve(names[i]))
<1> DEFINE q == [i \in DOMAIN names |-> Resolve(names[i])]
<1>1. Len(names) \in Nat /\ DOMAIN names = 1 .. Len(names)
  BY LenProperties
<1>2. q \in [1 .. Len(names) -> Seq(Known)] /\ \A i \in 1 .. Len(names) : q[i] = Resolve(names[i])
  BY <1>1, ResolveHolds
<1> HIDE DEF q
<1>3. q \in Seq(Seq(Known)) /\ Len(q) = Len(names)
  BY <1>1, <1>2, ListOf
<1>4. /\ FlattenSeq(q) \in Seq(Known)
      /\ \A x : x \in ToSet(FlattenSeq(q)) <=> \E i \in 1 .. Len(q) : x \in ToSet(q[i])
  BY <1>3, FlattenHolds
<1>5. \A x : x \in ToSet(FlattenSeq(q)) <=> \E i \in 1 .. Len(names) : x \in ToSet(Resolve(names[i]))
  BY <1>2, <1>3, <1>4
<1> QED BY <1>4, <1>5 DEF q

LEMMA NormalizedHolds ==
  ASSUME NEW X, NEW names \in Seq(X)
  PROVE  Normalized(names) \in Seq(Known)
<1> DEFINE all == FlattenSeq([i \in DOMAIN names |-> Resolve(names[i])])
<1>1. all \in Seq(Known)
  BY ResolvedHolds
<1>2. Normalized(names) = Distinct(all)
  BY DEF Normalized
<1> HIDE DEF all
<1> QED BY <1>1, <1>2, DistinctHolds

LEMMA GrepHolds == \A p : List(Grep(p))
<1> SUFFICES ASSUME NEW p PROVE List(Grep(p))
  OBVIOUS
<1>1. List(Phrase(p))
  <2> DEFINE P == {t \in DOMAIN CorpusTurns :
                     \E i \in 0 .. Len(CorpusTurns[t].words) :
                        IsPrefix(p, SubSeq(CorpusTurns[t].words, i + 1, Len(CorpusTurns[t].words)))}
  <2>1. P \in SUBSET (DOMAIN CorpusTurns) /\ Phrase(p) = At(CorpusTurns, P)
    BY DEF Phrase
  <2> HIDE DEF P
  <2> QED BY <2>1, TurnsHold
<1>2. List(AllWords(p))
  <2> DEFINE P == {t \in DOMAIN CorpusTurns : Len(p) >= 2 /\ ToSet(p) \subseteq ToSet(CorpusTurns[t].words)}
  <2>1. P \in SUBSET (DOMAIN CorpusTurns) /\ AllWords(p) = At(CorpusTurns, P)
    BY DEF AllWords
  <2> HIDE DEF P
  <2> QED BY <2>1, TurnsHold
<1> DEFINE hits == IF Phrase(p) # <<>> THEN Phrase(p) ELSE AllWords(p)
           sids == [i \in DOMAIN hits |-> hits[i].sid]
           S == {hits[i].sid : i \in DOMAIN hits}
<1>3. hits \in Seq(ToSet(hits))
  BY <1>1, <1>2 DEF List
<1>4. Grep(p) = Upto(sids, MaxLines)
  BY DEF Grep
<1> HIDE DEF hits
<1>5. Len(hits) \in Nat /\ DOMAIN hits = 1 .. Len(hits)
  BY <1>3, LenProperties
<1>6. sids \in [1 .. Len(hits) -> S]
  BY <1>5
<1> HIDE DEF sids, S
<1>7. sids \in Seq(S)
  BY <1>5, <1>6, ListOf
<1>8. Upto(sids, MaxLines) \in Seq(S)
  BY <1>7, LimitsAssumption, UptoHolds
<1> QED BY <1>4, <1>8, Holds DEF List

LEMMA ReadWindowHolds == \A n : ReadWindow(n) \in Seq(Known)
<1> SUFFICES ASSUME NEW n PROVE ReadWindow(n) \in Seq(Known)
  OBVIOUS
<1>1. CASE Resolve(n) = <<>>
  BY <1>1, EmptySeq DEF ReadWindow
<1>2. CASE Resolve(n) # <<>>
  <2> DEFINE t == Resolve(n)[1]
             s == InSession(t[1])
             p == CHOOSE i \in DOMAIN s : s[i] = t
             a == IF p > Window THEN p - Window ELSE 1
             b == IF p + Window < Len(s) THEN p + Window ELSE Len(s)
  <2>1. ReadWindow(n) = <<t>> \o SubSeq(s, a, b)
    BY <1>2 DEF ReadWindow
  <2>2. t \in Known
    <3>1. Resolve(n) \in Seq(Known) /\ Len(Resolve(n)) \in Nat \ {0}
      BY <1>2, ResolveHolds, EmptySeq
    <3>2. 1 \in 1 .. Len(Resolve(n))
      BY <3>1
    <3> QED BY <3>1, <3>2, ElementOfSeq
  <2> HIDE DEF t
  <2>3. s \in Seq(Known) /\ t \in ToSet(s)
    <3> DEFINE P == {i \in DOMAIN Sids : Sids[i][1] = t[1]}
    <3>1. At(Sids, P) \in Seq(Known) /\ ToSet(At(Sids, P)) = {Sids[i] : i \in P}
      BY SidsHold, FilterHolds
    <3>2. t \in {Sids[i] : i \in P}
      BY <2>2 DEF Known, ToSet
    <3> QED BY <3>1, <3>2 DEF InSession
  <2> HIDE DEF s
  <2>4. Len(s) \in Nat /\ DOMAIN s = 1 .. Len(s) /\ \A i \in 1 .. Len(s) : s[i] \in Known
    BY <2>3, LenProperties, ElementOfSeq
  <2>5. p \in 1 .. Len(s)
    BY <2>3, <2>4 DEF ToSet
  <2> HIDE DEF p
  <2>6. a \in Int /\ b \in Int /\ 1 <= a /\ b <= Len(s)
    BY <2>4, <2>5, LimitsAssumption
  <2> HIDE DEF a, b
  <2>7. \A i \in a .. b : s[i] \in Known
    BY <2>4, <2>6
  <2>8. SubSeq(s, a, b) \in Seq(Known)
    BY <2>6, <2>7, SubSeqProperties
  <2>9. <<t>> \in Seq(Known)
    BY <2>2
  <2> QED BY <2>1, <2>8, <2>9, ConcatHolds
<1> QED BY <1>1, <1>2

LEMMA VectorHolds == \A h \in VectorHits : List(h)
<1> SUFFICES ASSUME NEW h \in VectorHits PROVE List(h)
  OBVIOUS
<1>1. CASE h = <<>>
  <2>1. <<>> \in Seq({})
    BY EmptySeq
  <2> QED BY <1>1, <2>1, Holds DEF List
<1>2. CASE h # <<>>
  <2>1. PICK T \in SUBSET Stored : h = SetToSeq(T)
    BY <1>2 DEF VectorHits
  <2>2. IsFiniteSet(T) /\ Cardinality(T) \in Nat
    BY ListsAssumption, FS_Subset, FS_CardinalityType
  <2>3. \E f \in [1 .. Cardinality(T) -> T] : IsInjective(f)
    BY <2>2, FS_CardinalityType DEF ExistsBijection, Bijection, Injection
  <2>4. h \in [1 .. Cardinality(T) -> T]
    BY <2>1, <2>3 DEF SetToSeq
  <2>5. h \in Seq(T)
    BY <2>2, <2>4, ListOf
  <2> QED BY <2>5, Holds DEF List
<1> QED BY <1>1, <1>2

\* The tools return sids of the corpus only.
LEMMA ToolsReturnKnown ==
  ASSUME NEW c, NEW sids \in Returned(c)
  PROVE  ToSet(sids) \subseteq Known
<1>1. \A s : List(s) => Normalized(s) \in Seq(Known)
  BY NormalizedHolds DEF List
<1>2. \A s \in Seq(Known) : Normalized(s) \in Seq(Known)
  BY NormalizedHolds
<1>3. Normalized(Grep(c.arg)) \in Seq(Known) /\ Normalized(ReadWindow(c.arg[1])) \in Seq(Known)
  BY <1>1, <1>2, GrepHolds, ReadWindowHolds
<1>4. \A h \in VectorHits : Normalized(h) \in Seq(Known)
  BY <1>1, VectorHolds
<1>5. sids \in Seq(Known)
  BY <1>3, <1>4 DEF Returned
<1> QED BY <1>5, Holds

-------------------------------------------------------------------------------
(* The protocol: what a FINAL names is a list.                             *)

LEMMA ItemsAt ==
  ASSUME NEW s, ItemList(s), NEW P \in SUBSET (DOMAIN s)
  PROVE  ItemList(At(s, P)) /\ (At(s, P) # <<>> => List(Last(At(s, P)).arg))
<1> DEFINE t == At(s, P)
           S == ToSet(s)
<1>1. s \in Seq(S) /\ \A x \in S : List(x.arg)
  BY DEF ItemList, List, ToSet
<1> HIDE DEF S
<1>2. t \in Seq(S)
  BY <1>1, FilterHolds
<1> HIDE DEF t
<1>3. Len(t) \in Nat /\ DOMAIN t = 1 .. Len(t) /\ \A i \in 1 .. Len(t) : t[i] \in S
  BY <1>2, LenProperties, ElementOfSeq
<1>4. List(t)
  BY <1>2, Holds DEF List
<1>5. ItemList(t)
  BY <1>1, <1>3, <1>4 DEF ItemList
<1>6. t # <<>> => Len(t) \in 1 .. Len(t)
  BY <1>2, EmptySeq
<1>7. t # <<>> => List(Last(t).arg)
  BY <1>1, <1>3, <1>6 DEF Last
<1> QED BY <1>5, <1>7 DEF t

LEMMA OfFormHolds ==
  ASSUME NEW s, ItemList(s), NEW f
  PROVE  ItemList(OfForm(s, f)) /\ (OfForm(s, f) # <<>> => List(Last(OfForm(s, f)).arg))
<1> DEFINE P == {i \in DOMAIN s : s[i].form = f /\ s[i].kind # ""}
<1>1. P \in SUBSET (DOMAIN s) /\ OfForm(s, f) = At(s, P)
  BY DEF OfForm
<1> HIDE DEF P
<1> QED BY <1>1, ItemsAt

LEMMA ArgsAreLists ==
  ASSUME NEW s, ItemList(s)
  PROVE  \A c \in ParseCommand(s) \cup Narrated(s) : List(c.arg)
<1>1. \A f : \A c \in LastOf(s, f) : List(c.arg)
  BY OfFormHolds DEF LastOf, Issued, Command
<1>2. \A c \in Narrated(s) : List(c.arg)
  BY OfFormHolds DEF Narrated, Command
<1>3. \A c \in LastLine(s) : List(c.arg)
  <2> DEFINE lines == OfForm(s, "line")
             P == {i \in DOMAIN lines : lines[i].arg # <<>>}
             t == At(lines, P)
  <2>1. LastLine(s) = IF t = <<>> THEN {} ELSE {Command(Last(t))}
    BY DEF LastLine
  <2>2. ItemList(lines)
    BY OfFormHolds
  <2> HIDE DEF lines
  <2>3. t # <<>> => List(Last(t).arg)
    BY <2>2, ItemsAt
  <2> HIDE DEF t
  <2> QED BY <2>1, <2>3 DEF Command
<1> QED BY <1>1, <1>2, <1>3 DEF ParseCommand

LEMMA ParsedHolds ==
  ASSUME NEW r \in Replies
  PROVE  (\A c \in Parsed[r].cmd : List(c.arg)) /\ ItemList(Parsed[r].text)
<1> DEFINE tools == [i \in DOMAIN r.tools |-> <<r.tools[i]>>]
           X == {r.content, r.reasoning} \cup {<<r.tools[i]>> : i \in DOMAIN r.tools}
           u == <<r.content>> \o tools \o <<r.reasoning>>
           all == Surfaces(r)
           P == {i \in DOMAIN all : ParseCommand(all[i]) # {}}
           good == At(all, P)
<1>1. ItemList(r.content) /\ ItemList(r.tools) /\ ItemList(r.reasoning)
  BY ListsAssumption
<1>2. \A x \in X : ItemList(x)
  <2>1. ASSUME NEW i \in DOMAIN r.tools PROVE ItemList(<<r.tools[i]>>)
    <3> DEFINE y == r.tools[i]
    <3>1. List(y.arg)
      BY <1>1 DEF ItemList
    <3> HIDE DEF y
    <3>2. <<y>> \in Seq({y})
      OBVIOUS
    <3>3. List(<<y>>)
      BY <3>2, Holds DEF List
    <3>4. \A j \in DOMAIN <<y>> : <<y>>[j] = y
      OBVIOUS
    <3>5. ItemList(<<y>>)
      BY <3>1, <3>3, <3>4 DEF ItemList
    <3> QED BY <3>5 DEF y
  <2> QED BY <1>1, <2>1
<1>3. tools \in Seq(X)
  <2>1. Len(r.tools) \in Nat /\ DOMAIN r.tools = 1 .. Len(r.tools)
    BY <1>1, LenProperties DEF ItemList, List
  <2>2. tools \in [1 .. Len(r.tools) -> X]
    BY <2>1
  <2> HIDE DEF tools, X
  <2> QED BY <2>1, <2>2, ListOf
<1>4. <<r.content>> \in Seq(X) /\ <<r.reasoning>> \in Seq(X)
  <2>1. r.content \in X /\ r.reasoning \in X
    OBVIOUS
  <2> HIDE DEF X
  <2> QED BY <2>1
<1>5. u \in Seq(X)
  <2> HIDE DEF tools, X
  <2> QED BY <1>3, <1>4, ConcatProperties
<1>6. all = At(u, {i \in DOMAIN u : u[i] # <<>>})
  BY DEF Surfaces
<1> HIDE DEF X, u, all
<1>7. all \in Seq(X)
  BY <1>5, <1>6, FilterHolds
<1>8. good \in Seq(X)
  BY <1>7, FilterHolds
<1> HIDE DEF good
<1>9. /\ good # <<>> => good[1] \in X
      /\ all # <<>> => all[1] \in X
  <2>1. good # <<>> => 1 \in 1 .. Len(good)
    BY <1>8, EmptySeq
  <2>2. all # <<>> => 1 \in 1 .. Len(all)
    BY <1>7, EmptySeq
  <2> QED BY <1>7, <1>8, <2>1, <2>2, ElementOfSeq
<1>10. ItemList(<<>>)
  <2>1. <<>> \in Seq({})
    BY EmptySeq
  <2>2. List(<<>>)
    BY <2>1, Holds DEF List
  <2> QED BY <2>2 DEF ItemList
<1>11. /\ \A x \in X : \A c \in ParseCommand(x) : List(c.arg)
       /\ \A c \in Narrated(r.reasoning) : List(c.arg)
  BY <1>1, <1>2, ArgsAreLists
<1>12. Parsed[r] = IF good # <<>> THEN [cmd |-> ParseCommand(good[1]), text |-> good[1]]
                   ELSE [cmd |-> Narrated(r.reasoning),
                         text |-> IF Narrated(r.reasoning) # {} THEN r.reasoning
                                  ELSE IF all = <<>> THEN <<>> ELSE all[1]]
  BY DEF Parsed, ParseResponse, good, all
<1> HIDE DEF P
<1>13. CASE good # <<>>
  BY <1>2, <1>9, <1>11, <1>12, <1>13
<1>14. CASE good = <<>>
  BY <1>1, <1>2, <1>9, <1>10, <1>11, <1>12, <1>14
<1> QED BY <1>13, <1>14

LEMMA FinalHolds ==
  ASSUME NEW arg, List(arg), NEW text, ItemList(text)
  PROVE  Normalized(ExtractFinal(arg, text)) \in Seq(Known)
<1>1. CASE arg # <<>>
  BY <1>1, NormalizedHolds DEF ExtractFinal, List
<1>2. CASE arg = <<>>
  <2> DEFINE X == UNION {ToSet(text[i].arg) : i \in DOMAIN text}
             q == [i \in DOMAIN text |-> IF text[i].kind \in {"GREP", "VECTOR"} THEN <<>> ELSE text[i].arg]
  <2>1. ExtractFinal(arg, text) = FlattenSeq(q)
    BY <1>2 DEF ExtractFinal
  <2>2. Len(text) \in Nat /\ DOMAIN text = 1 .. Len(text)
    BY LenProperties DEF ItemList, List
  <2>3. \A i \in DOMAIN text : text[i].arg \in Seq(X)
    <3> TAKE i \in DOMAIN text
    <3>1. text[i].arg \in Seq(ToSet(text[i].arg))
      BY DEF ItemList, List
    <3>2. ToSet(text[i].arg) \subseteq X
      OBVIOUS
    <3> HIDE DEF X
    <3> QED BY <3>1, <3>2, SeqMonotonic
  <2> HIDE DEF X
  <2>4. q \in [1 .. Len(text) -> Seq(X)]
    BY <2>2, <2>3, EmptySeq
  <2> HIDE DEF q
  <2>5. q \in Seq(Seq(X))
    BY <2>2, <2>4, ListOf
  <2>6. FlattenSeq(q) \in Seq(X)
    BY <2>5, FlattenHolds
  <2> QED BY <2>1, <2>6, NormalizedHolds
<1> QED BY <1>1, <1>2

LEMMA RuledHolds ==
  ASSUME NEW lines, List(lines), NEW S, NEW pending \in Seq(S)
  PROVE  RuledKeep(lines, pending) \in Seq(S) /\ ToSet(RuledKeep(lines, pending)) \subseteq ToSet(pending)
<1> DEFINE about[k \in DOMAIN lines] ==
             LET open == {i \in DOMAIN pending : /\ \A j \in 1..(k - 1) : about[j] # i
                                                 /\ lines[k].sid \in {pending[i]} \cup Within[pending[i]]}
             IN IF open = {} THEN 0 ELSE CHOOSE i \in open : \A j \in open : i <= j
           P == {k \in DOMAIN lines : lines[k].keep /\ about[k] \in DOMAIN pending}
           kept == At(about, P)
           keep == [k \in DOMAIN kept |-> pending[kept[k]]]
<1>1. RuledKeep(lines, pending) = keep
  BY DEF RuledKeep
<1> HIDE DEF about
<1>2. P \in SUBSET Nat /\ IsFiniteSet(P) /\ \A k \in P : about[k] \in DOMAIN pending
  <2>1. lines \in Seq(ToSet(lines)) /\ P \in SUBSET (DOMAIN lines)
    BY DEF List
  <2> QED BY <2>1, Places
<1> HIDE DEF P
<1>3. kept \in Seq(DOMAIN pending)
  BY <1>2, AtHolds
<1> HIDE DEF kept
<1>4. /\ Len(kept) \in Nat /\ DOMAIN kept = 1 .. Len(kept)
      /\ \A k \in 1 .. Len(kept) : kept[k] \in DOMAIN pending
  BY <1>3, LenProperties, ElementOfSeq
<1>5. keep \in [1 .. Len(kept) -> ToSet(pending)]
  BY <1>4 DEF ToSet
<1> HIDE DEF keep
<1>6. keep \in Seq(ToSet(pending))
  BY <1>4, <1>5, ListOf
<1>7. ToSet(pending) \subseteq S
  BY Holds
<1> QED BY <1>1, <1>6, <1>7, Holds, SeqMonotonic

-------------------------------------------------------------------------------
(* The selection and what is shown of it.                                  *)

LEMMA AllowedHolds ==
  ASSUME given \in Contexts, chosen \in Seq(Known)
  PROVE  /\ Seeds \in Seq(Known) /\ Allowed \in Seq(Known)
         /\ cfg.mode = "filter" => ToSet(Allowed) \subseteq ToSet(Seeds)
<1>1. Seeds \in Seq(Known)
  <2>1. given \in Seq(ToSet(given))
    BY ListsAssumption DEF List
  <2> QED BY <2>1, NormalizedHolds DEF Seeds, SeedsOf
<1>2. /\ Among(chosen, Seeds) \in Seq(Known) /\ ToSet(Among(chosen, Seeds)) \subseteq ToSet(Seeds)
      /\ Without(chosen, Seeds) \in Seq(Known)
  BY AmongHolds
<1>3. Seeds \o Without(chosen, Seeds) \in Seq(Known)
  BY <1>1, <1>2, ConcatHolds
<1>4. CASE cfg.mode = "filter"
  BY <1>1, <1>2, <1>4 DEF Allowed
<1>5. CASE cfg.mode # "filter"
  BY <1>1, <1>3, <1>5 DEF Allowed
<1> QED BY <1>4, <1>5

\* What comes after a list that fits leaves it the first of the result.
LEMMA CutKeepsFirst ==
  ASSUME NEW S, NEW s \in Seq(S), NEW t \in Seq(S), NEW n \in Nat, Len(s) <= n
  PROVE  IsPrefix(s, Upto(s \o t, n))
<1> DEFINE u == s \o t
           v == Upto(u, n)
           m == Len(s)
<1>1. /\ m \in Nat /\ Len(t) \in Nat
      /\ u \in Seq(S) /\ Len(u) = m + Len(t) /\ \A i \in 1 .. m : i \in 1 .. m + Len(t) /\ u[i] = s[i]
  BY LenProperties, ConcatProperties
<1> HIDE DEF u
<1>2. /\ v \in Seq(S) /\ Len(v) = (IF n < Len(u) THEN n ELSE Len(u))
      /\ \A k \in 1 .. Len(v) : v[k] = u[k]
  BY <1>1, UptoItems
<1> HIDE DEF v
<1>3. Len(v) \in Nat /\ m <= Len(v)
  BY <1>1, <1>2
<1>4. \A i \in 1 .. m : v[i] = s[i] /\ s[i] \in S
  BY <1>1, <1>2, <1>3, ElementOfSeq
<1>5. /\ SubSeq(s, 1, m) \in Seq(S) /\ SubSeq(v, 1, m) \in Seq(S)
      /\ Len(SubSeq(s, 1, m)) = m /\ Len(SubSeq(v, 1, m)) = m
      /\ \A i \in 1 .. m : SubSeq(s, 1, m)[i] = s[i] /\ SubSeq(v, 1, m)[i] = v[i]
  <2> HIDE DEF m
  <2>1. /\ 1 \in Int /\ m \in Int /\ (IF 1 <= m THEN m - 1 + 1 ELSE 0) = m /\ m - 1 + 1 = m
        /\ \A i \in 1 .. m : 1 + i - 1 = i
    BY <1>1
  <2>2. \A i \in 1 .. m : v[i] \in S
    BY <1>4
  <2>3. /\ SubSeq(s, 1, m) \in Seq(S) /\ Len(SubSeq(s, 1, m)) = (IF 1 <= m THEN m - 1 + 1 ELSE 0)
        /\ \A i \in 1 .. m - 1 + 1 : SubSeq(s, 1, m)[i] = s[1 + i - 1]
    BY <1>4, <2>1, SubSeqProperties
  <2>4. /\ SubSeq(v, 1, m) \in Seq(S) /\ Len(SubSeq(v, 1, m)) = (IF 1 <= m THEN m - 1 + 1 ELSE 0)
        /\ \A i \in 1 .. m - 1 + 1 : SubSeq(v, 1, m)[i] = v[1 + i - 1]
    BY <2>1, <2>2, SubSeqProperties
  <2> QED BY <2>1, <2>3, <2>4
<1>6. SubSeq(s, 1, m) = SubSeq(v, 1, m)
  BY <1>4, <1>5, SeqEqual
<1>7. Len(s) <= Len(v) /\ SubSeq(s, 1, Len(s)) = SubSeq(v, 1, Len(s))
  BY <1>3, <1>6
<1> QED BY <1>7 DEF IsPrefix, v, u

LEMMA AppendedIsMore ==
  ASSUME NEW S, NEW s \in Seq(S), NEW t \in Seq(S), t # <<>>
  PROVE  IsStrictPrefix(s, s \o t)
<1> DEFINE u == s \o t
           n == Len(u)
<1>1. /\ Len(s) \in Nat /\ Len(t) \in Nat \ {0} /\ u \in Seq(S) /\ n = Len(s) + Len(t)
  BY EmptySeq, LenProperties, ConcatProperties
<1>2. n \in Nat /\ Len(s) <= n /\ n # Len(s)
  <2> HIDE DEF u, n
  <2> QED BY <1>1
<1>3. IsPrefix(s, Upto(u, n))
  <2> HIDE DEF n
  <2> QED BY <1>2, CutKeepsFirst
<1>4. Upto(u, n) = u
  <2> HIDE DEF u
  <2>1. Upto(u, n) = SubSeq(u, 1, Len(u))
    BY DEF Upto
  <2> QED BY <1>1, <2>1, SubSeqFull
<1>5. u # s
  BY <1>2
<1> QED BY <1>3, <1>4, <1>5 DEF IsStrictPrefix

\* The unit of a sid is no sid, and has the sid among its parts.
LEMMA UnitHolds ==
  ASSUME NEW s \in Known
  PROVE  LET k == IF cfg.pairs THEN <<s[1], s[2], 0>> ELSE s
         IN  s \in ToSet(Resolve(k)) /\ \A x \in ToSet(Resolve(k)) : x[1] = s[1] /\ x[2] = s[2]
<1>1. CASE cfg.pairs
  <2> DEFINE k == <<s[1], s[2], 0>>
  <2>1. k[1] = s[1] /\ k[2] = s[2] /\ k[3] = 0
    OBVIOUS
  <2> HIDE DEF k
  <2>2. k \notin Known
    BY <2>1, SidsHold
  <2>3. Named(k) \in Seq(Known) /\ ToSet(Named(k)) = {x \in Known : x[1] = s[1] /\ x[2] = s[2]}
    BY <2>1, <2>2, NamedHolds
  <2>4. s \in ToSet(Named(k))
    BY <2>3
  <2>5. Resolve(k) = Named(k)
    <3>1. Named(k) # <<>>
      BY <2>3, <2>4, Holds
    <3> QED BY <3>1, ResolveHolds
  <2>6. s \in ToSet(Resolve(k)) /\ \A x \in ToSet(Resolve(k)) : x[1] = s[1] /\ x[2] = s[2]
    BY <2>3, <2>4, <2>5
  <2> QED BY <1>1, <2>6 DEF k
<1>2. CASE ~cfg.pairs
  <2>1. Named(s) = <<s>>
    BY NamedHolds
  <2>2. <<s>> # <<>>
    OBVIOUS
  <2>3. Resolve(s) = <<s>>
    BY <2>1, <2>2, ResolveHolds
  <2>4. ToSet(<<s>>) = {s}
    BY DEF ToSet
  <2> QED BY <1>2, <2>3, <2>4
<1> QED BY <1>1, <1>2

LEMMA ExchangesAre ==
  ASSUME NEW s
  PROVE  Exchanges(s) = {<<x[1], x[2]>> : x \in ToSet(s)}
BY DEF Exchanges, ToSet

LEMMA ShownHolds ==
  ASSUME final \in Seq(Known)
  PROVE  /\ Shown \in Seq(Known) /\ ToSet(final) \subseteq ToSet(Shown)
         /\ Exchanges(Shown) \subseteq Exchanges(final)
<1> DEFINE key(s) == IF cfg.pairs THEN <<s[1], s[2], 0>> ELSE s
           all == [i \in DOMAIN final |-> key(final[i])]
           K == {key(s) : s \in ToSet(final)}
           keys == Distinct(all)
           q == [i \in DOMAIN keys |-> Resolve(keys[i])]
<1>1. Shown = FlattenSeq(q)
  BY DEF Shown
<1>2. /\ Len(final) \in Nat /\ DOMAIN final = 1 .. Len(final)
      /\ ToSet(final) = {final[i] : i \in 1 .. Len(final)} /\ ToSet(final) \subseteq Known
  BY LenProperties, Holds
<1>3. all \in [1 .. Len(final) -> K] /\ \A i \in 1 .. Len(final) : all[i] = key(final[i])
  BY <1>2
<1>4. \A s \in Known : s \in ToSet(Resolve(key(s))) /\ \A x \in ToSet(Resolve(key(s))) : x[1] = s[1] /\ x[2] = s[2]
  BY UnitHolds
<1> HIDE DEF all
<1>5. all \in Seq(K) /\ Len(all) = Len(final)
  <2> HIDE DEF K
  <2> QED BY <1>2, <1>3, ListOf
<1>6. ToSet(all) = {all[i] : i \in 1 .. Len(final)}
  <2> HIDE DEF K
  <2> QED BY <1>5, Holds
<1>7. ToSet(all) = K
  <2>1. K = {key(final[i]) : i \in 1 .. Len(final)}
    BY <1>2
  <2>2. {all[i] : i \in 1 .. Len(final)} = {key(final[i]) : i \in 1 .. Len(final)}
    <3> HIDE DEF key
    <3> QED BY <1>3
  <2> HIDE DEF K, key
  <2> QED BY <1>6, <2>1, <2>2
<1>8. keys \in Seq(K) /\ ToSet(keys) = K
  <2> HIDE DEF K
  <2> QED BY <1>5, <1>7, DistinctHolds
<1> HIDE DEF keys
<1>9. /\ FlattenSeq(q) \in Seq(Known)
      /\ \A x : x \in ToSet(FlattenSeq(q)) <=> \E i \in 1 .. Len(keys) : x \in ToSet(Resolve(keys[i]))
  <2> HIDE DEF K
  <2> QED BY <1>8, ResolvedHolds
<1> HIDE DEF q
<1>10. {keys[i] : i \in 1 .. Len(keys)} = K
  <2> HIDE DEF K
  <2> QED BY <1>8, Holds
<1>11. \A x : x \in ToSet(Shown) <=> \E k \in K : x \in ToSet(Resolve(k))
  <2> HIDE DEF K
  <2> QED BY <1>1, <1>9, <1>10
<1>12. \A x : x \in ToSet(Shown) <=> \E s \in ToSet(final) : x \in ToSet(Resolve(key(s)))
  BY <1>11
<1> HIDE DEF key
<1>13. ToSet(final) \subseteq ToSet(Shown)
  BY <1>2, <1>4, <1>12
<1>14. \A x \in ToSet(Shown) : \E s \in ToSet(final) : x[1] = s[1] /\ x[2] = s[2]
  BY <1>2, <1>4, <1>12
<1>15. Exchanges(Shown) \subseteq Exchanges(final)
  BY <1>14, ExchangesAre
<1> QED BY <1>1, <1>9, <1>13, <1>15

-------------------------------------------------------------------------------
(* The invariant of a refinement.                                          *)

Stages == {"mount", "prepare", "ask", "force", "select", "audit", "render", "done"}
Surviving ==
  /\ IsPrefix(Upto(Allowed, MaxSids), final) /\ Len(final) <= MaxSids
  /\ ToSet(final) \subseteq ToSet(Allowed) \cup (ToSet(ruling.keep) \cap ToSet(Seeds))
HandedBack ==
  /\ (fallback # "none") = (answer.text = "original")
  /\ answer.text # "original" =>
       /\ ToSet(answer.sids) \cap ToSet(Seeds) # {}
       /\ ToSet(answer.sids) \subseteq ToSet(Sids)
       /\ cfg.mode = "filter" => Exchanges(answer.sids) \subseteq Exchanges(Seeds)
       /\ cfg.mode = "fetch_only" => IsStrictPrefix(Seeds, answer.sids)
  /\ answer.text = "rebuilt" => ToSet(final) \subseteq ToSet(answer.sids)
SInv ==
  /\ given \in Contexts /\ stage \in Stages /\ calls \in 0 .. MaxCalls
  /\ verified \subseteq Known /\ found \subseteq verified
  /\ chosen \in Seq(Known) /\ final \in Seq(Known) /\ ruling.keep \in Seq(Known)
  /\ answer.text \in {"", "original", "rebuilt", "appended"}
  /\ stage \in {"mount", "prepare", "ask", "force", "select"} => final = <<>>
  /\ stage # "done" => fallback = "none" /\ answer.text = ""
  /\ stage = "audit" => final = Upto(Allowed, MaxSids)
  /\ final # <<>> => Surviving
  /\ stage = "done" => HandedBack

LEMMA SoundHolds == PInv /\ SInv => ContextIsSound
<1> SUFFICES ASSUME PInv, SInv PROVE ContextIsSound
  OBVIOUS
<1>1. RefineTypeOK
  <2>1. ToSet(chosen) \subseteq Known /\ ToSet(final) \subseteq Known /\ ToSet(ruling.keep) \subseteq Known
    BY Holds DEF SInv
  <2>2. failures \in 0 .. MaxParseFailures /\ repeats \in 0 .. 2
    BY DEF PInv, MaxParseFailures
  <2> QED BY <2>1, <2>2 DEF SInv, RefineTypeOK, Stages, Known
<1>2. NeverWorse
  BY <1>1 DEF SInv, HandedBack, NeverWorse
<1>3. ChoiceSurvives
  <2>1. stage = "render" => answer.text = ""
    BY DEF SInv
  <2> QED BY <2>1 DEF SInv, Surviving, HandedBack, ChoiceSurvives
<1> QED BY <1>2, <1>3 DEF ContextIsSound

LEMMA SoundStarts == RefineInit => SInv
<1> SUFFICES ASSUME RefineInit PROVE SInv
  OBVIOUS
<1>1. <<>> \in Seq(Known) /\ 0 \in 0 .. MaxCalls
  BY EmptySeq, LimitsAssumption
<1> QED BY <1>1 DEF RefineInit, SInv, Stages

\* What the choice comes to is not touched by what leaves it alone.
LEMMA SameChoice ==
  ASSUME UNCHANGED <<cfg, given, chosen, final, ruling>>
  PROVE  /\ Surviving' <=> Surviving
         /\ Upto(Allowed, MaxSids)' = Upto(Allowed, MaxSids)
BY DEF Surviving, Allowed, Seeds

\* A refinement that gives back the original is sound.
LEMMA GivenBack ==
  ASSUME SInv, UNCHANGED <<cfg, given, loop, final, ruling>>, chosen' \in Seq(Known),
         chosen' = chosen \/ final = <<>>,
         NEW reason, reason # "none", GiveBack(reason)
  PROVE  SInv'
<1>1. answer' = [text |-> "original", sids |-> given, graph |-> TRUE] /\ fallback' = reason /\ stage' = "done"
  BY DEF GiveBack, Original
<1>2. HandedBack'
  BY <1>1 DEF HandedBack
<1>3. final' # <<>> => Surviving'
  <2>1. CASE chosen' = chosen
    BY <2>1, SameChoice DEF SInv
  <2>2. CASE final = <<>>
    BY <2>2
  <2> QED BY <2>1, <2>2
<1> QED BY <1>1, <1>2, <1>3 DEF SInv, Stages, loop

\* A step before the selection that hands nothing back.
LEMMA BeforeSelection ==
  ASSUME SInv, stage \in {"mount", "prepare", "ask", "force"},
         stage' \in {"prepare", "ask", "force", "select"},
         UNCHANGED <<cfg, given, final, ruling, fallback, answer>>,
         calls' \in 0 .. MaxCalls, verified' \subseteq Known, found' \subseteq verified', chosen' \in Seq(Known)
  PROVE  SInv'
<1>1. final' = <<>> /\ fallback' = "none" /\ answer'.text = ""
  BY DEF SInv
<1> QED BY <1>1 DEF SInv, Stages

LEMMA AskingHolds ==
  ASSUME SInv, Unparsed \/ Finals \/ Repeats \/ Executes \/ OutOfCalls, stage = "ask"
  PROVE  SInv'
<1>1. /\ calls \in 0 .. MaxCalls /\ verified \subseteq Known /\ found \subseteq verified /\ chosen \in Seq(Known)
      /\ calls < MaxCalls => calls + 1 \in 0 .. MaxCalls
  <2>1. /\ calls \in 0 .. MaxCalls /\ verified \subseteq Known /\ found \subseteq verified
        /\ chosen \in Seq(Known)
    BY DEF SInv
  <2>2. \A k \in 0 .. MaxCalls : k < MaxCalls => k + 1 \in 0 .. MaxCalls
    BY LimitsAssumption
  <2> QED BY <2>1, <2>2
<1>2. CASE Unparsed
  <2>1. /\ calls' \in 0 .. MaxCalls /\ stage' \in {"ask", "force"}
        /\ UNCHANGED <<cfg, given, verified, found, chosen, final, ruling, fallback, answer>>
    BY <1>1, <1>2 DEF Unparsed, Asking, GoesOn, result
  <2> QED BY <1>1, <2>1, BeforeSelection
<1>3. CASE Finals
  <2>a. PICK r \in Replies : \E c \in Parsed[r].cmd :
           /\ calls' = calls + 1 /\ calls < MaxCalls
           /\ LET names == Normalized(ExtractFinal(c.arg, Parsed[r].text))
              IN IF names # <<>>
                 THEN chosen' = names /\ stage' = "select"
                 ELSE stage' = "force" /\ UNCHANGED chosen
    BY <1>3 DEF Finals, Asking
  <2>1. PICK c \in Parsed[r].cmd :
           /\ calls' = calls + 1 /\ calls < MaxCalls
           /\ LET names == Normalized(ExtractFinal(c.arg, Parsed[r].text))
              IN IF names # <<>>
                 THEN chosen' = names /\ stage' = "select"
                 ELSE stage' = "force" /\ UNCHANGED chosen
    BY <2>a
  <2>2. Normalized(ExtractFinal(c.arg, Parsed[r].text)) \in Seq(Known)
    BY ParsedHolds, FinalHolds
  <2>3. chosen' \in Seq(Known) /\ stage' \in {"select", "force"} /\ calls' \in 0 .. MaxCalls
    BY <1>1, <2>1, <2>2
  <2>4. UNCHANGED <<cfg, given, verified, found, final, ruling, fallback, answer>>
    BY <1>3 DEF Finals
  <2> QED BY <1>1, <2>3, <2>4, BeforeSelection
<1>4. CASE Repeats
  <2>1. /\ calls' \in 0 .. MaxCalls /\ stage' \in {"ask", "force"}
        /\ UNCHANGED <<cfg, given, verified, found, chosen, final, ruling, fallback, answer>>
    BY <1>1, <1>4 DEF Repeats, Asking, GoesOn, result
  <2> QED BY <1>1, <2>1, BeforeSelection
<1>5. CASE Executes
  <2>a. PICK r \in Replies : \E c \in Parsed[r].cmd :
           /\ calls' = calls + 1 /\ calls < MaxCalls
           /\ \E sids \in Returned(c) :
                /\ verified' = verified \cup ToSet(sids)
                /\ found' = IF c.kind = "VECTOR" THEN found \cup ToSet(sids) ELSE found
    BY <1>5 DEF Executes, Asking
  <2>b. PICK c \in Parsed[r].cmd :
           /\ calls' = calls + 1 /\ calls < MaxCalls
           /\ \E sids \in Returned(c) :
                /\ verified' = verified \cup ToSet(sids)
                /\ found' = IF c.kind = "VECTOR" THEN found \cup ToSet(sids) ELSE found
    BY <2>a
  <2>1. PICK sids \in Returned(c) :
           /\ calls' = calls + 1 /\ calls < MaxCalls
           /\ verified' = verified \cup ToSet(sids)
           /\ found' = IF c.kind = "VECTOR" THEN found \cup ToSet(sids) ELSE found
    BY <2>b
  <2>2. verified' \subseteq Known /\ found' \subseteq verified' /\ calls' \in 0 .. MaxCalls
    BY <1>1, <2>1, ToolsReturnKnown
  <2>3. stage' = stage /\ UNCHANGED <<cfg, given, chosen, final, ruling, fallback, answer>>
    BY <1>5 DEF Executes, result
  <2> QED BY <1>1, <2>2, <2>3, BeforeSelection
<1>6. CASE OutOfCalls
  <2>1. stage' = "force" /\ UNCHANGED <<cfg, given, calls, verified, found, chosen, final, ruling, fallback, answer>>
    BY <1>6 DEF OutOfCalls, loop, result
  <2> QED BY <1>1, <2>1, BeforeSelection
<1> QED BY <1>2, <1>3, <1>4, <1>5, <1>6

LEMMA MountHolds == ASSUME SInv, Mount \/ Prepare PROVE SInv'
<1>1. /\ UNCHANGED <<cfg, given, loop, chosen, final, ruling>> /\ stage \in {"mount", "prepare"}
      /\ \/ GiveBack("skipped") \/ GiveBack("no_seed")
         \/ stage' \in {"prepare", "ask"} /\ UNCHANGED <<fallback, answer>>
  BY DEF Mount, Prepare
<1>2. chosen' \in Seq(Known)
  BY <1>1 DEF SInv
<1>3. CASE GiveBack("skipped")
  BY <1>1, <1>2, <1>3, GivenBack
<1>4. CASE GiveBack("no_seed")
  BY <1>1, <1>2, <1>4, GivenBack
<1>5. CASE stage' \in {"prepare", "ask"} /\ UNCHANGED <<fallback, answer>>
  <2>1. UNCHANGED <<calls, verified, found>> /\ calls \in 0 .. MaxCalls /\ verified \subseteq Known /\ found \subseteq verified
    BY <1>1 DEF SInv, loop
  <2> QED BY <1>1, <1>2, <1>5, <2>1, BeforeSelection
<1> QED BY <1>1, <1>3, <1>4, <1>5

LEMMA ForceHolds == ASSUME SInv, ForceFinal PROVE SInv'
<1>1. UNCHANGED <<cfg, given, loop, final, ruling>> /\ stage = "force"
  BY DEF ForceFinal
<1>2. UNCHANGED <<calls, verified, found>> /\ calls \in 0 .. MaxCalls /\ verified \subseteq Known /\ found \subseteq verified
      /\ chosen \in Seq(Known) /\ final = <<>>
  BY <1>1 DEF SInv, loop
<1>3. PICK r \in Replies :
        LET p == Parsed[r]
            arg == IF \E c \in p.cmd : c.kind = "FINAL" THEN (CHOOSE c \in p.cmd : TRUE).arg ELSE <<>>
            names == Normalized(ExtractFinal(arg, p.text))
        IN IF names # <<>> THEN chosen' = names /\ stage' = "select" /\ UNCHANGED <<fallback, answer>>
           ELSE GiveBack("no_final") /\ UNCHANGED chosen
  BY DEF ForceFinal
<1> DEFINE arg == IF \E c \in Parsed[r].cmd : c.kind = "FINAL" THEN (CHOOSE c \in Parsed[r].cmd : TRUE).arg ELSE <<>>
           names == Normalized(ExtractFinal(arg, Parsed[r].text))
<1>4. List(arg)
  <2>1. <<>> \in Seq({})
    BY EmptySeq
  <2>2. List(<<>>)
    BY <2>1, Holds DEF List
  <2>3. ASSUME NEW c \in Parsed[r].cmd PROVE List((CHOOSE x \in Parsed[r].cmd : TRUE).arg)
    BY ParsedHolds
  <2> QED BY <2>2, <2>3
<1>5. names \in Seq(Known)
  <2> HIDE DEF arg
  <2> QED BY <1>4, ParsedHolds, FinalHolds
<1>6. \/ chosen' = names /\ stage' = "select" /\ UNCHANGED <<fallback, answer>>
      \/ GiveBack("no_final") /\ chosen' = chosen
  BY <1>3
<1> HIDE DEF names
<1>7. CASE chosen' = names /\ stage' = "select" /\ UNCHANGED <<fallback, answer>>
  BY <1>1, <1>2, <1>5, <1>7, BeforeSelection
<1>8. CASE GiveBack("no_final") /\ chosen' = chosen
  BY <1>1, <1>2, <1>8, GivenBack
<1> QED BY <1>6, <1>7, <1>8

LEMMA SelectHolds == ASSUME SInv, Select PROVE SInv'
<1>1. /\ UNCHANGED <<cfg, given, loop, chosen, ruling>> /\ stage = "select"
      /\ final' = Upto(Allowed, MaxSids)
      /\ IF final' = <<>> THEN GiveBack("empty_final") ELSE stage' = "audit" /\ UNCHANGED <<fallback, answer>>
  BY DEF Select
<1>2. given \in Contexts /\ chosen \in Seq(Known) /\ final = <<>>
  BY <1>1 DEF SInv
<1>3. Allowed \in Seq(Known) /\ MaxSids \in Nat
  BY <1>2, AllowedHolds, LimitsAssumption
<1>4. /\ final' \in Seq(Known) /\ ToSet(final') \subseteq ToSet(Allowed)
      /\ Len(final') \in Nat /\ Len(final') <= MaxSids
  BY <1>1, <1>3, UptoHolds
<1>5. Allowed' = Allowed /\ Seeds' = Seeds
  BY <1>1 DEF Allowed, Seeds
<1>6. IsPrefix(Upto(Allowed, MaxSids), final')
  BY <1>1, <1>4 DEF IsPrefix
<1>7. Surviving'
  BY <1>4, <1>5, <1>6 DEF Surviving
<1>8. CASE final' = <<>>
  <2>1. final' = final /\ GiveBack("empty_final")
    BY <1>1, <1>2, <1>8
  <2> QED BY <1>1, <1>2, <2>1, GivenBack
<1>9. CASE final' # <<>>
  <2>1. stage' = "audit" /\ UNCHANGED <<fallback, answer>> /\ final' = Upto(Allowed, MaxSids)'
    BY <1>1, <1>5, <1>9
  <2> QED BY <1>1, <1>4, <1>7, <2>1 DEF SInv, Stages, loop
<1> QED BY <1>8, <1>9

LEMMA AuditHolds == ASSUME SInv, Audit \/ AuditSkipped PROVE SInv'
<1>1. /\ given \in Contexts /\ chosen \in Seq(Known) /\ final \in Seq(Known) /\ ruling.keep \in Seq(Known)
      /\ stage = "audit" /\ final = Upto(Allowed, MaxSids)
  BY DEF SInv, Audit, AuditSkipped
<1>2. Seeds \in Seq(Known) /\ Allowed \in Seq(Known) /\ MaxSids \in Nat
  BY <1>1, AllowedHolds, LimitsAssumption
<1>3. ToSet(final) \subseteq ToSet(Allowed) /\ Len(final) \in Nat /\ Len(final) <= MaxSids
  BY <1>1, <1>2, UptoHolds
<1>4. CASE AuditSkipped
  <2>1. stage' = "render" /\ UNCHANGED <<cfg, given, loop, chosen, final, ruling, fallback, answer>>
    BY <1>4 DEF AuditSkipped, result
  <2>2. /\ final # <<>> => Surviving'
        /\ fallback = "none" /\ answer.text = ""
    BY <1>1, <2>1, SameChoice DEF SInv
  <2>3. UNCHANGED <<calls, verified, found>> /\ calls \in 0 .. MaxCalls /\ verified \subseteq Known /\ found \subseteq verified
    BY <2>1 DEF SInv, loop
  <2> QED BY <1>1, <2>1, <2>2, <2>3 DEF SInv, Stages
<1>5. CASE Audit
  <2>1. /\ stage' = "render" /\ UNCHANGED <<cfg, given, loop, chosen, fallback, answer>>
        /\ \E lines \in Audits : /\ ruling'.keep = RuledKeep(lines, Pending)
                                 /\ final' = Upto(final \o ruling'.keep, MaxSids)
    BY <1>5 DEF Audit
  <2>2. PICK lines \in Audits : /\ ruling'.keep = RuledKeep(lines, Pending)
                                /\ final' = Upto(final \o ruling'.keep, MaxSids)
    BY <2>1
  <2>3. Pending \in Seq(Known) /\ ToSet(Pending) \subseteq ToSet(Seeds)
    BY <1>2, AmongHolds DEF Pending
  <2>4. ruling'.keep \in Seq(Known) /\ ToSet(ruling'.keep) \subseteq ToSet(Seeds)
    BY <2>2, <2>3, RuledHolds, ListsAssumption
  <2> DEFINE k == ruling'.keep
  <2>5. final \o k \in Seq(Known) /\ ToSet(final \o k) = ToSet(final) \cup ToSet(k)
    BY <1>1, <2>4, ConcatHolds
  <2>6. /\ final' \in Seq(Known) /\ ToSet(final') \subseteq ToSet(final \o k)
        /\ Len(final') \in Nat /\ Len(final') <= MaxSids
    BY <1>2, <2>2, <2>5, UptoHolds
  <2>7. IsPrefix(final, final')
    BY <1>1, <1>2, <1>3, <2>2, <2>4, CutKeepsFirst
  <2>8. Allowed' = Allowed /\ Seeds' = Seeds
    BY <2>1 DEF Allowed, Seeds
  <2>9. IsPrefix(Upto(Allowed', MaxSids), final')
    BY <1>1, <2>7, <2>8
  <2>10. ToSet(final') \subseteq ToSet(Allowed) \cup (ToSet(k) \cap ToSet(Seeds))
    BY <1>3, <2>4, <2>5, <2>6
  <2>11. Surviving'
    BY <2>6, <2>8, <2>9, <2>10 DEF Surviving
  <2>12. /\ UNCHANGED <<calls, verified, found>> /\ fallback' = "none" /\ answer'.text = ""
         /\ calls \in 0 .. MaxCalls /\ verified \subseteq Known /\ found \subseteq verified
    BY <1>1, <2>1 DEF SInv, loop
  <2>13. given' \in Contexts /\ chosen' \in Seq(Known) /\ stage' = "render"
    BY <1>1, <2>1
  <2> HIDE DEF k
  <2> QED BY <2>4, <2>6, <2>11, <2>12, <2>13 DEF SInv, Stages
<1> QED BY <1>4, <1>5

LEMMA RenderHolds == ASSUME SInv, Render PROVE SInv'
<1>1. /\ stage = "render" /\ UNCHANGED <<cfg, given, loop, chosen, final, ruling>>
      /\ \/ GiveBack("zero_keep") \/ GiveBack("no_addition")
         \/ /\ Kept # <<>> /\ ~(cfg.mode = "fetch_only" /\ Added = <<>>)
            /\ fallback' = "none" /\ answer' = Refined /\ stage' = "done"
  BY DEF Render
<1>2. given \in Contexts /\ chosen \in Seq(Known) /\ final \in Seq(Known) /\ ruling.keep \in Seq(Known)
  BY DEF SInv
<1>3. CASE GiveBack("zero_keep") \/ GiveBack("no_addition")
  <2>1. chosen' = chosen /\ chosen' \in Seq(Known)
    BY <1>1, <1>2
  <2>2. CASE GiveBack("zero_keep")
    BY <1>1, <2>1, <2>2, GivenBack
  <2>3. CASE GiveBack("no_addition")
    BY <1>1, <2>1, <2>3, GivenBack
  <2> QED BY <1>3, <2>2, <2>3
<1>4. CASE /\ Kept # <<>> /\ ~(cfg.mode = "fetch_only" /\ Added = <<>>)
           /\ fallback' = "none" /\ answer' = Refined /\ stage' = "done"
  <2>1. Seeds \in Seq(Known) /\ (cfg.mode = "filter" => ToSet(Allowed) \subseteq ToSet(Seeds))
    BY <1>2, AllowedHolds
  <2>2. ToSet(final) \cap ToSet(Seeds) # {} /\ Added \in Seq(Known)
    <3>1. Among(final, Seeds) \in Seq(Known) /\ ToSet(Among(final, Seeds)) = ToSet(final) \cap ToSet(Seeds)
          /\ Without(final, Seeds) \in Seq(Known)
      BY <1>2, AmongHolds
    <3>2. ToSet(Among(final, Seeds)) # {}
      BY <1>4, <3>1, Holds DEF Kept
    <3> QED BY <3>1, <3>2 DEF Added
  <2>3. Surviving
    <3>1. final # <<>>
      BY <1>2, <2>2, Holds
    <3> QED BY <3>1 DEF SInv
  <2>4. final' # <<>> => Surviving'
    BY <1>1, <2>3, SameChoice
  <2>5. Seeds' = Seeds
    BY <1>1 DEF Seeds
  <2>6. CASE cfg.mode = "fetch_only"
    <3>1. answer' = [text |-> "appended", sids |-> Seeds \o Added, graph |-> TRUE]
      BY <1>4, <2>6 DEF Refined
    <3>2. Seeds \o Added \in Seq(Known) /\ ToSet(Seeds \o Added) = ToSet(Seeds) \cup ToSet(Added)
      BY <2>1, <2>2, ConcatHolds
    <3>3. ToSet(Seeds \o Added) \subseteq Known
      BY <3>2, Holds
    <3>4. IsStrictPrefix(Seeds, Seeds \o Added)
      BY <1>4, <2>1, <2>2, <2>6, AppendedIsMore
    <3>5. /\ answer'.text = "appended" /\ ToSet(answer'.sids) \cap ToSet(Seeds) # {}
          /\ ToSet(answer'.sids) \subseteq Known /\ IsStrictPrefix(Seeds, answer'.sids)
      BY <2>2, <3>1, <3>2, <3>3, <3>4
    <3>6. HandedBack'
      BY <1>1, <1>4, <2>5, <2>6, <3>5 DEF HandedBack, Known
    <3> QED BY <1>1, <1>2, <1>4, <2>4, <3>5, <3>6 DEF SInv, Stages, loop
  <2>7. CASE cfg.mode # "fetch_only"
    <3>1. answer' = [text |-> "rebuilt", sids |-> Shown, graph |-> cfg.graph]
      BY <1>4, <2>7 DEF Refined
    <3>2. /\ Shown \in Seq(Known) /\ ToSet(final) \subseteq ToSet(Shown)
          /\ Exchanges(Shown) \subseteq Exchanges(final)
      BY <1>2, ShownHolds
    <3>3. ToSet(Shown) \subseteq Known
      BY <3>2, Holds
    <3>4. cfg.mode = "filter" => Exchanges(Shown) \subseteq Exchanges(Seeds)
      <4>1. cfg.mode = "filter" => ToSet(final) \subseteq ToSet(Seeds)
        BY <2>1, <2>3 DEF Surviving
      <4>2. cfg.mode = "filter" => Exchanges(final) \subseteq Exchanges(Seeds)
        BY <4>1, ExchangesAre
      <4> QED BY <3>2, <4>2
    <3>5. /\ answer'.text = "rebuilt" /\ ToSet(answer'.sids) \cap ToSet(Seeds) # {}
          /\ ToSet(answer'.sids) \subseteq Known /\ ToSet(final) \subseteq ToSet(answer'.sids)
          /\ cfg.mode = "filter" => Exchanges(answer'.sids) \subseteq Exchanges(Seeds)
      BY <2>2, <3>1, <3>2, <3>3, <3>4
    <3>6. HandedBack'
      BY <1>1, <1>4, <2>5, <2>7, <3>5 DEF HandedBack, Known
    <3> QED BY <1>1, <1>2, <1>4, <2>4, <3>5, <3>6 DEF SInv, Stages, loop
  <2> QED BY <2>6, <2>7
<1> QED BY <1>1, <1>3, <1>4

\* Whatever the agent and the auditor say and whatever raises: the context that is
\* handed back is the original, or has a retrieved turn, known turns only, in filter
\* mode no exchange that was not retrieved and in fetch_only mode all that was there
\* and more; and the turns chosen under the cap come first and are shown
\* (refine_context, EvidenceFinalizer.finalize).
THEOREM ContextStaysSound == RefineSpec => []ContextIsSound
<1>1. ASSUME SInv, [RefineNext]_refineVars PROVE SInv'
  <2>1. CASE Raises
    <3>1. UNCHANGED <<cfg, given, loop, chosen, final, ruling>> /\ GiveBack("exception") /\ chosen' \in Seq(Known)
      BY <1>1, <2>1 DEF Raises, SInv
    <3> QED BY <1>1, <3>1, GivenBack
  <2>2. CASE Mount \/ Prepare
    BY <1>1, <2>2, MountHolds
  <2>3. CASE Unparsed \/ Finals \/ Repeats \/ Executes \/ OutOfCalls
    <3>1. stage = "ask"
      BY <2>3 DEF Unparsed, Finals, Repeats, Executes, OutOfCalls, Asking
    <3> QED BY <1>1, <2>3, <3>1, AskingHolds
  <2>4. CASE ForceFinal
    BY <1>1, <2>4, ForceHolds
  <2>5. CASE Select
    BY <1>1, <2>5, SelectHolds
  <2>6. CASE Audit \/ AuditSkipped
    BY <1>1, <2>6, AuditHolds
  <2>7. CASE Render
    BY <1>1, <2>7, RenderHolds
  <2>8. CASE UNCHANGED refineVars
    <3>1. UNCHANGED <<cfg, given, stage, loop, chosen, final, ruling, fallback, answer>>
      BY <2>8 DEF refineVars, result
    <3>2. HandedBack' <=> HandedBack
      BY <3>1 DEF HandedBack, Seeds
    <3> QED BY <1>1, <3>1, <3>2, SameChoice DEF SInv, loop
  <2> QED BY <1>1, <2>1, <2>2, <2>3, <2>4, <2>5, <2>6, <2>7, <2>8 DEF RefineNext
<1> QED BY <1>1, SoundStarts, SoundHolds, PatienceInvariant, PTL DEF RefineSpec

-------------------------------------------------------------------------------
(* Sums and orders, for the retrieval.                                     *)

LEMMA InOrder ==
  ASSUME NEW P, NEW R, Linear(P, R)
  PROVE  LET s == [k \in 1 .. Cardinality(P) |-> Nth(P, R, k)]
         IN  /\ s \in Seq(P) /\ Len(s) = Cardinality(P) /\ Cardinality(P) \in Nat /\ ToSet(s) = P
             /\ \A k, l \in 1 .. Cardinality(P) : k < l <=> <<s[k], s[l]>> \in R
<1> DEFINE n == Cardinality(P)
           s == [k \in 1 .. n |-> Nth(P, R, k)]
<1>1. /\ n \in Nat
      /\ \A k \in 1 .. n : Nth(P, R, k) \in P
      /\ \A i \in P : \E k \in 1 .. n : i = Nth(P, R, k)
      /\ \A k, l \in 1 .. n : k < l <=> <<Nth(P, R, k), Nth(P, R, l)>> \in R
  BY NthPlace
<1>2. s \in [1 .. n -> P] /\ \A k \in 1 .. n : s[k] = Nth(P, R, k)
  BY <1>1
<1>3. s \in Seq(P) /\ Len(s) = n
  BY <1>1, <1>2, ListOf
<1>4. ToSet(s) = P
  <2>1. \A i \in P : \E k \in 1 .. n : s[k] = i
    BY <1>1, <1>2
  <2> HIDE DEF s
  <2> QED BY <1>2, <1>3, <2>1, Holds
<1>5. \A k, l \in 1 .. n : k < l <=> <<s[k], s[l]>> \in R
  BY <1>1, <1>2
<1> QED BY <1>1, <1>3, <1>4, <1>5

LEMMA SortedHolds ==
  ASSUME NEW S \in SUBSET Nat, IsFiniteSet(S)
  PROVE  /\ Sorted(S) \in Seq(S) /\ Len(Sorted(S)) = Cardinality(S) /\ ToSet(Sorted(S)) = S
         /\ Len(Sorted(S)) \in Nat
         /\ \A k, l \in 1 .. Len(Sorted(S)) : k < l <=> Sorted(S)[k] < Sorted(S)[l]
<1>1. Linear(S, Rising(S)) /\ \A i, j \in S : <<i, j>> \in Rising(S) <=> i < j
  BY RisingLinear
<1> DEFINE s == Sorted(S)
<1>2. s = [k \in 1 .. Cardinality(S) |-> Nth(S, Rising(S), k)]
  BY DEF Sorted
<1> HIDE DEF s
<1>3. /\ s \in Seq(S) /\ Len(s) = Cardinality(S) /\ Cardinality(S) \in Nat /\ ToSet(s) = S
      /\ \A k, l \in 1 .. Cardinality(S) : k < l <=> <<s[k], s[l]>> \in Rising(S)
  BY <1>1, <1>2, InOrder
<1>4. \A k \in 1 .. Len(s) : s[k] \in S
  BY <1>3, ElementOfSeq
<1> QED BY <1>1, <1>3, <1>4 DEF s

\* An arrangement of a set lists it.
LEMMA Arranged ==
  ASSUME NEW S, IsFiniteSet(S), NEW o \in Arrangements(S)
  PROVE  o \in Seq(S) /\ Len(o) = Cardinality(S) /\ ToSet(o) = S
<1> DEFINE n == Cardinality(S)
<1>1. n \in Nat /\ o \in [1 .. n -> S] /\ \A i, j \in 1 .. n : i # j => o[i] # o[j]
  BY FS_CardinalityType DEF Arrangements
<1>2. o \in Seq(S) /\ Len(o) = n
  BY <1>1, ListOf
<1>3. IsFiniteSet(1 .. n) /\ Cardinality(1 .. n) = n
  <2>1. Cardinality(1 .. n) = (IF 1 > n THEN 0 ELSE n - 1 + 1) /\ IsFiniteSet(1 .. n)
    BY <1>1, FS_Interval
  <2> HIDE DEF n
  <2> QED BY <1>1, <2>1
<1>4. o \in Injection(1 .. n, S)
  <2>1. DOMAIN o = 1 .. n
    BY <1>1
  <2> HIDE DEF n
  <2> QED BY <1>1, <2>1 DEF Injection, IsInjective
<1>5. o \in Surjection(1 .. n, S)
  BY <1>3, <1>4, FS_Injection
<1>6. \A x \in S : \E i \in 1 .. n : o[i] = x
  BY <1>5 DEF Surjection
<1> HIDE DEF n
<1>7. ToSet(o) = S
  <2>1. ToSet(o) = {o[i] : i \in 1 .. n}
    BY <1>2, Holds
  <2> QED BY <1>1, <1>6, <2>1
<1> QED BY <1>2, <1>7 DEF n

LEMMA ListedHolds ==
  ASSUME NEW S, IsFiniteSet(S)
  PROVE  SetToSeq(S) \in Seq(S) /\ ToSet(SetToSeq(S)) = S
<1> DEFINE n == Cardinality(S)
           o == SetToSeq(S)
<1>1. n \in Nat /\ \E f \in [1 .. n -> S] : IsInjective(f)
  BY FS_CardinalityType DEF ExistsBijection, Bijection, Injection
<1>2. o \in [1 .. n -> S] /\ IsInjective(o)
  BY <1>1 DEF SetToSeq
<1>3. o \in Arrangements(S)
  BY <1>2 DEF Arrangements, IsInjective
<1> QED BY <1>3, Arranged

-------------------------------------------------------------------------------

Share(f, x) == {x} \X (1 .. f[x])

LEMMA ShareCounts ==
  ASSUME NEW f, NEW x, f[x] \in Nat
  PROVE  IsFiniteSet(Share(f, x)) /\ Cardinality(Share(f, x)) = f[x]
<1> DEFINE n == f[x]
<1>1. IsFiniteSet(1 .. n) /\ Cardinality(1 .. n) = n
  <2>1. Cardinality(1 .. n) = (IF 1 > n THEN 0 ELSE n - 1 + 1) /\ IsFiniteSet(1 .. n)
    BY FS_Interval
  <2> HIDE DEF n
  <2>2. n \in Nat
    BY DEF n
  <2> QED BY <2>1, <2>2
<1>2. IsFiniteSet({x}) /\ Cardinality({x}) = 1
  BY FS_Singleton
<1>3. IsFiniteSet(Share(f, x)) /\ Cardinality(Share(f, x)) = 1 * n
  BY <1>1, <1>2, FS_Product DEF Share
<1> HIDE DEF n
<1>4. n \in Nat => 1 * n = n
  OBVIOUS
<1> QED BY <1>3, <1>4 DEF n

Shares(f, S) == UNION {Share(f, x) : x \in S}

LEMMA SharesAre ==
  ASSUME NEW f, NEW S, NEW p
  PROVE  p \in Shares(f, S) <=> \E x \in S : p \in Share(f, x)
BY DEF Shares

LEMMA SharesFinite ==
  ASSUME NEW S, IsFiniteSet(S), NEW f, \A x \in S : f[x] \in Nat
  PROVE  IsFiniteSet(Shares(f, S)) /\ Cardinality(Shares(f, S)) \in Nat
<1> DEFINE Q == {Share(f, x) : x \in S}
<1>1. \A T \in Q : IsFiniteSet(T)
  BY ShareCounts
<1>2. IsFiniteSet(Q)
  <2> DEFINE g == [x \in S |-> Share(f, x)]
  <2>1. g \in Surjection(S, Q)
    BY DEF Surjection
  <2> HIDE DEF g, Q
  <2> QED BY <2>1, FS_Surjection
<1> HIDE DEF Q
<1>3. IsFiniteSet(UNION Q)
  BY <1>1, <1>2, FS_UNION
<1> QED BY <1>3, FS_CardinalityType DEF Shares, Q

LEMMA TotalIs ==
  ASSUME NEW f, IsFiniteSet(DOMAIN f), \A x \in DOMAIN f : f[x] \in Nat
  PROVE  Total(f) = Cardinality(Shares(f, DOMAIN f)) /\ Total(f) \in Nat
<1>1. Total(f) = Cardinality(Shares(f, DOMAIN f))
  BY DEF Total, Shares, Share
<1> QED BY <1>1, SharesFinite

\* One more number is added to the sum.
LEMMA SharesGrow ==
  ASSUME NEW S, IsFiniteSet(S), NEW x, x \notin S, NEW f, \A y \in S \cup {x} : f[y] \in Nat
  PROVE  Cardinality(Shares(f, S \cup {x})) = Cardinality(Shares(f, S)) + f[x]
<1> DEFINE A == Shares(f, S)
           B == Share(f, x)
<1>1. IsFiniteSet(A) /\ Cardinality(A) \in Nat /\ IsFiniteSet(B) /\ Cardinality(B) = f[x]
  BY SharesFinite, ShareCounts
<1>2. Shares(f, S \cup {x}) = A \cup B
  BY DEF Shares
<1>3. A \cap B = {}
  BY DEF Shares, Share
<1> HIDE DEF A, B
<1>4. Cardinality(A \cup B) = Cardinality(A) + Cardinality(B) - Cardinality(A \cap B)
  BY <1>1, FS_Union
<1>5. Cardinality(A \cap B) = 0
  BY <1>3, FS_EmptySet
<1>6. f[x] \in Nat
  OBVIOUS
<1>7. Cardinality(A \cup B) = Cardinality(A) + f[x]
  <2> DEFINE a == Cardinality(A)
             b == Cardinality(B)
  <2>1. Cardinality(A \cup B) = a + b - 0 /\ a \in Nat /\ b \in Nat
    BY <1>1, <1>4, <1>5, <1>6
  <2> HIDE DEF a, b
  <2>2. Cardinality(A \cup B) = a + b
    BY <2>1
  <2> QED BY <1>1, <2>2 DEF a, b
<1> QED BY <1>2, <1>7 DEF A

\* What is nothing does not count.
LEMMA SharesOfNothing ==
  ASSUME NEW S, NEW T \in SUBSET S, NEW f, \A y \in S \ T : f[y] = 0
  PROVE  Shares(f, S) = Shares(f, T)
<1>1. \A y \in S \ T : Share(f, y) = {}
  BY DEF Share
<1> QED BY <1>1, SharesAre DEF Shares

-------------------------------------------------------------------------------
(* What the state of the retriever is made of.                             *)

Phases == {"ask", "keywords", "search", "weigh", "hop", "spread", "nodes", "relations", "rerank",
           "score", "boost", "evidence", "answer", "raised"}
LabelRange == Ents \cup {NameOf[e] : e \in Ents}
KeywordType == [tries : 0 .. MaxAttempts, low : BOOLEAN, high : BOOLEAN]
PoolType == [ents : SUBSET Ents, rels : SUBSET Rels]
StageType == [name : {"entity_seeds", "sa_activated_seeds", "node_subgraph", "relationship_seeds",
                      "edge_subgraph", "union_candidates", "filtered", "reranker_final"},
              ents : SUBSET LabelRange, rels : SUBSET Rels,
              reason : {"", "no_entity_ids", "disabled", "empty_after_cache_fallback", "no_relationship_ids"}]
Stops == {"", "no_entity_hits", "node_subgraph_empty", "build_kg_context_failed"}
TraceType == [q : Nat, failed : BOOLEAN, stop : Stops, ents : Seq(Ents), rels : Seq(Rels),
              evidence : Nat, tags : SUBSET {"mentioned_at"}, low : BOOLEAN, high : BOOLEAN]
RowType == [q : Nat, answered : BOOLEAN, trace : TraceType, stop : Stops \cup {"prediction_exception"}]
VerdictType == [type : {"", "retrieval_empty_seed", "retrieval_empty_evidence", "retrieval_off_topic",
                        "judge_wrong_answer_despite_good_retrieval"},
                flags : SUBSET {"zero_seed_entities", "temporal_question_without_date_hits"}]
ArcsType == [Ents -> SUBSET (Rels \X Ents)]
Activations == UNION {[S -> 0 .. Full] : S \in SUBSET Ents}
SpreadType == [hop : Nat, frontier : SUBSET Ents, all : SUBSET Ents, arcs : {<<>>} \cup ArcsType,
               w : {<<>>} \cup Weights, value : Activations, queue : Seq(Ents), visited : SUBSET Ents,
               spread : Nat]

RunTypes ==
  /\ set \in Settings /\ store \in Stores /\ phase \in Phases
  /\ question \in 1 .. Questions + 1 /\ (phase # "ask" => question <= Questions)
  /\ rows \in Seq(RowType) /\ Len(rows) = question - 1
  /\ verdicts \in Seq(VerdictType) /\ Len(verdicts) <= Len(rows)
  /\ DOMAIN cached \subseteq 1 .. Questions /\ \A i \in DOMAIN cached : cached[i] \in KeywordType
QueryTypes ==
  /\ kw \in KeywordType /\ seeds \in Seq(Ents) /\ trace \in TraceType
  /\ pool \in [local : PoolType, global : PoolType]
  /\ stages \in [local : Seq(StageType), global : Seq(StageType), merged : Seq(StageType)]
SpreadTypes ==
  /\ sa \in SpreadType
  /\ phase \in {"hop", "spread"} => /\ sa.arcs \in ArcsType /\ sa.w \in Weights
                                   /\ \A e \in Ents : \A a \in sa.arcs[e] : a[2] \in sa.all
  /\ phase = "hop" => /\ sa.frontier \subseteq sa.all /\ sa.hop <= MaxHops
                      /\ ToSet(seeds) \subseteq sa.all /\ sa.visited = {}
  /\ phase = "spread" => DOMAIN sa.value = sa.all /\ sa.queue \in Seq(sa.all) /\ sa.visited \subseteq sa.all
\* What is scored so far has the scores of the first documents.
Scoring ==
  /\ scoring \in Scorings /\ batch.kind \in {"ents", "rels"} /\ batch.size \in Nat \ {0}
  /\ batch.out \in Seq(Nat) /\ Len(batch.out) <= Len(Documents(batch.kind))
  /\ \A i \in 1 .. Len(batch.out) : batch.out[i] = scoring[Documents(batch.kind)[i]]
BatchTypes ==
  /\ picked \in [ents : Seq(Ents), rels : Seq(Rels)]
  /\ batch \in [kind : {"", "ents", "rels"}, size : Nat, out : Seq(Nat)]
  /\ phase = "score" => Scoring
TInv == RunTypes /\ QueryTypes /\ SpreadTypes /\ BatchTypes

LEMMA TypesImply == TInv => RetrieveTypeOK
<1> SUFFICES ASSUME TInv PROVE RetrieveTypeOK
  OBVIOUS
<1>1. phase \in {"ask", "keywords", "rerank", "answer", "boost", "spread", "raised"} \cup Remote
  BY DEF TInv, RunTypes, Phases, Remote
<1>2. question \in 1 .. Questions + 1 /\ Len(rows) = question - 1 /\ DOMAIN cached \subseteq 1 .. Questions
  BY DEF TInv, RunTypes
<1>3. kw.tries \in 0 .. MaxAttempts /\ seeds \in Seq(Ents)
  BY DEF TInv, QueryTypes, KeywordType
<1>4. picked.ents \in Seq(Ents) /\ picked.rels \in Seq(Rels)
  BY DEF TInv, BatchTypes
<1>5. sa.all \subseteq Ents /\ sa.value \in Activations
  BY DEF TInv, SpreadTypes, SpreadType
<1>6. \A e \in DOMAIN sa.value : sa.value[e] \in 0 .. Full
  BY <1>5 DEF Activations
<1> QED BY <1>1, <1>2, <1>3, <1>4, <1>5, <1>6 DEF RetrieveTypeOK

LEMMA ActivationsAre ==
  /\ \A S \in SUBSET Ents : \A f \in [S -> 0 .. Full] : f \in Activations
  /\ <<>> \in Activations
<1>1. \A S \in SUBSET Ents : \A f \in [S -> 0 .. Full] : f \in Activations
  BY DEF Activations
<1>2. <<>> \in [{} -> 0 .. Full]
  <2>1. <<>> \in Seq(0 .. Full) /\ Len(<<>>) = 0
    BY EmptySeq
  <2>2. <<>> \in [1 .. 0 -> 0 .. Full]
    BY <2>1, LenProperties
  <2>3. 1 .. 0 = {}
    OBVIOUS
  <2> QED BY <2>2, <2>3
<1> QED BY <1>1, <1>2

LEMMA GraphHolds ==
  ASSUME store \in Stores
  PROVE  /\ IsFiniteSet(Ents) /\ IsFiniteSet(Rels) /\ Ents \subseteq Nat /\ Rels \subseteq Nat
         /\ store.nodes \subseteq Ents /\ store.known \subseteq Ents /\ store.relKnown \subseteq Rels
         /\ Held \subseteq Rels
         /\ \A r \in Rels : Ends[r][1] \in Ents /\ Ends[r][2] \in Ents
         /\ \A e : EdgesAt(e) \subseteq Held
         /\ \A e : \A r \in EdgesAt(e) : Across(r, e) \in store.nodes /\ e \in store.nodes
<1>1. IsFiniteSet(Ents) /\ IsFiniteSet(Rels)
  <2>1. Ents \in SUBSET (Ents \cup Rels) /\ Rels \in SUBSET (Ents \cup Rels)
    OBVIOUS
  <2> QED BY <2>1, GraphAssumption, FS_Subset
<1>2. \A r \in Rels : Ends[r] \in Ents \X Ents
  BY GraphAssumption
<1>3. \A r \in Rels : Ends[r][1] \in Ents /\ Ends[r][2] \in Ents
  BY <1>2
<1>4. Held \subseteq Rels /\ \A r \in Held : Ends[r][1] \in store.nodes /\ Ends[r][2] \in store.nodes
  BY DEF Held
<1>5. \A e : \A r \in EdgesAt(e) : r \in Held /\ (e = Ends[r][1] \/ e = Ends[r][2])
  BY DEF EdgesAt
<1>6. \A e : \A r \in EdgesAt(e) : Across(r, e) \in store.nodes /\ e \in store.nodes
  BY <1>4, <1>5 DEF Across
<1> QED BY <1>1, <1>3, <1>4, <1>5, <1>6, GraphAssumption

LEMMA WalkHolds ==
  ASSUME store \in Stores
  PROVE  /\ \A E : Neighbours(E) \subseteq Ents
         /\ \A R \in SUBSET Rels : EndsOf(R) \subseteq Ents
         /\ \A E \in SUBSET Ents : Labels(E) \subseteq LabelRange
         /\ \A E \in SUBSET Ents : {NameOf[e] : e \in E} \subseteq LabelRange
         /\ \A e : KeptArcs(e) \subseteq Rels \X Ents
<1>1. \A E : Neighbours(E) \subseteq Ents
  BY GraphHolds DEF Neighbours
<1>2. \A R \in SUBSET Rels : EndsOf(R) \subseteq Ents
  BY GraphHolds DEF EndsOf
<1>3. \A E \in SUBSET Ents : Labels(E) \subseteq LabelRange
  BY DEF Labels, Label, LabelRange
<1>4. \A E \in SUBSET Ents : {NameOf[e] : e \in E} \subseteq LabelRange
  BY DEF LabelRange
<1>5. \A e : KeptArcs(e) \subseteq Rels \X Ents
  BY GraphHolds DEF KeptArcs
<1> QED BY <1>1, <1>2, <1>3, <1>4, <1>5

LEMMA DocumentsHold ==
  ASSUME store \in Stores, NEW kind \in {"ents", "rels"}
  PROVE  LET D == IF kind = "ents" THEN Union.ents \cap store.known ELSE Union.rels \cap store.relKnown
             d == Documents(kind)
         IN  /\ d \in Seq(D) /\ ToSet(d) = D /\ Len(d) \in Nat
             /\ D \subseteq (IF kind = "ents" THEN Ents ELSE Rels) /\ D \subseteq Nat
             /\ \A k, l \in 1 .. Len(d) : k < l <=> d[k] < d[l]
<1> DEFINE D == IF kind = "ents" THEN Union.ents \cap store.known ELSE Union.rels \cap store.relKnown
<1>1. /\ IsFiniteSet(Ents) /\ IsFiniteSet(Rels) /\ Ents \subseteq Nat /\ Rels \subseteq Nat
      /\ D \subseteq (IF kind = "ents" THEN Ents ELSE Rels)
  BY GraphHolds
<1>2. Documents(kind) = Sorted(D)
  BY DEF Documents
<1> HIDE DEF D
<1>3. D \in SUBSET Nat /\ IsFiniteSet(D)
  <2>1. D \in SUBSET Ents \/ D \in SUBSET Rels
    BY <1>1
  <2> QED BY <1>1, <2>1, FS_Subset
<1>4. /\ Sorted(D) \in Seq(D) /\ ToSet(Sorted(D)) = D
      /\ Len(Sorted(D)) \in Nat
      /\ \A k, l \in 1 .. Len(Sorted(D)) : k < l <=> Sorted(D)[k] < Sorted(D)[l]
  BY <1>3, SortedHolds
<1> QED BY <1>1, <1>2, <1>3, <1>4 DEF D

-------------------------------------------------------------------------------
(* What is selected.                                                       *)

\* The best of the scored documents: what passes and is not among them, all of
\* them outrank, and they are as many as may be.
Best(b, S, docs, v, n) ==
  /\ b \in Seq(S) /\ Len(b) \in Nat
  /\ \A k \in 1 .. Len(b) : \E i \in 1 .. Len(docs) : b[k] = docs[i] /\ v[i] >= Floor
  /\ \A k, l \in 1 .. Len(b) : k # l => b[k] # b[l]
  /\ \A i \in 1 .. Len(docs) : v[i] >= Floor /\ docs[i] \notin ToSet(b) =>
        /\ Len(b) = n
        /\ \A k \in 1 .. Len(b) : \E j \in 1 .. Len(docs) : b[k] = docs[j] /\ Outranks(j, i, v)

LEMMA BestChosen ==
  ASSUME NEW S, NEW docs \in Seq(S), NEW v \in Seq(Nat), Len(v) = Len(docs), NEW n \in Nat,
         \A k, l \in 1 .. Len(docs) : k < l <=> docs[k] < docs[l],
         \A k \in 1 .. Len(docs) : docs[k] \in Nat
  PROVE  Best(BestOf(docs, v, n), S, docs, v, n)
<1> DEFINE m == Len(docs)
           P == {i \in DOMAIN v : v[i] >= Floor}
           R == {p \in P \X P : Outranks(p[1], p[2], v)}
           c == Cardinality(P)
           o == [k \in 1 .. c |-> Nth(P, R, k)]
           all == [k \in 1 .. c |-> docs[Nth(P, R, k)]]
           b == BestOf(docs, v, n)
<1>1. /\ m \in Nat /\ DOMAIN v = 1 .. m /\ (\A i \in 1 .. m : v[i] \in Nat /\ docs[i] \in S)
  BY LenProperties, ElementOfSeq
<1>2. P \in SUBSET (1 .. m) /\ IsFiniteSet(P)
  <2>1. IsFiniteSet(1 .. m)
    BY <1>1, FS_Interval
  <2> QED BY <1>1, <2>1, FS_Subset
<1>3. \A i, j \in P : <<i, j>> \in R <=> (v[i] > v[j] \/ (v[i] = v[j] /\ i < j))
  BY DEF Outranks
<1>4. \A i \in P : i \in 1 .. m /\ i \in Nat /\ v[i] \in Nat
  BY <1>1, <1>2
<1>5. Linear(P, R)
  <2> HIDE DEF P, R
  <2>1. ASSUME NEW i \in P, NEW j \in P PROVE i # j <=> <<i, j>> \in R \/ <<j, i>> \in R
    <3>1. i \in Nat /\ j \in Nat /\ v[i] \in Nat /\ v[j] \in Nat
      BY <1>4
    <3> QED BY <1>3, <3>1
  <2>2. ASSUME NEW i \in P, NEW j \in P, NEW k \in P, <<i, j>> \in R, <<j, k>> \in R
        PROVE  <<i, k>> \in R
    <3>1. /\ i \in Nat /\ j \in Nat /\ k \in Nat /\ v[i] \in Nat /\ v[j] \in Nat /\ v[k] \in Nat
      BY <1>4
    <3> QED BY <1>3, <2>2, <3>1
  <2> QED BY <1>2, <2>1, <2>2 DEF Linear
<1>6. /\ o \in Seq(P) /\ Len(o) = c /\ c \in Nat /\ ToSet(o) = P
      /\ \A k, l \in 1 .. c : k < l <=> <<o[k], o[l]>> \in R
  <2> HIDE DEF P, R
  <2> QED BY <1>5, InOrder
<1>7. b = Upto(all, n)
  BY DEF BestOf
<1>8. all = [k \in 1 .. c |-> docs[o[k]]]
  <2> HIDE DEF P, R
  <2> QED OBVIOUS
<1> HIDE DEF P, R, c, o, b, all, m
<1>9. \A k \in 1 .. c : o[k] \in P /\ o[k] \in 1 .. m
  BY <1>2, <1>6, ElementOfSeq
<1>10. all \in Seq(S) /\ Len(all) = c
  <2>1. all \in [1 .. c -> S]
    BY <1>1, <1>8, <1>9
  <2> QED BY <1>6, <2>1, ListOf
<1>11. /\ Len(b) = (IF n < c THEN n ELSE c) /\ b \in Seq(S) /\ Len(b) \in Nat
       /\ \A k \in 1 .. Len(b) : k \in 1 .. c /\ b[k] = docs[o[k]]
  <2>1. /\ b \in Seq(S) /\ Len(b) = (IF n < Len(all) THEN n ELSE Len(all))
        /\ \A k \in 1 .. Len(b) : k \in 1 .. Len(all) /\ b[k] = all[k]
    <3>1. /\ Upto(all, n) \in Seq(S)
          /\ Len(Upto(all, n)) = (IF n < Len(all) THEN n ELSE Len(all))
          /\ \A k \in 1 .. Len(Upto(all, n)) : k \in 1 .. Len(all) /\ Upto(all, n)[k] = all[k]
      BY <1>10, UptoItems
    <3> QED BY <1>7, <3>1
  <2> QED BY <1>6, <1>8, <1>10, <2>1
<1>12. \A i \in P : v[i] >= Floor
  BY DEF P
<1>13. \A k \in 1 .. Len(b) : \E i \in 1 .. m : b[k] = docs[i] /\ v[i] >= Floor
  BY <1>9, <1>11, <1>12
<1>14. ASSUME NEW k \in 1 .. Len(b), NEW l \in 1 .. Len(b), k # l PROVE b[k] # b[l]
  <2>1. k \in 1 .. c /\ l \in 1 .. c /\ (k < l \/ l < k)
    BY <1>11, <1>14
  <2>2. o[k] # o[l]
    <3>1. <<o[k], o[l]>> \in R \/ <<o[l], o[k]>> \in R
      BY <1>6, <2>1
    <3> QED BY <1>5, <1>9, <2>1, <3>1 DEF Linear
  <2>3. o[k] < o[l] \/ o[l] < o[k]
    BY <1>1, <1>9, <2>1, <2>2
  <2>4. docs[o[k]] < docs[o[l]] \/ docs[o[l]] < docs[o[k]]
    BY <1>9, <2>1, <2>3 DEF m
  <2>5. docs[o[k]] \in Nat /\ docs[o[l]] \in Nat
    BY <1>9, <2>1 DEF m
  <2>6. docs[o[k]] # docs[o[l]]
    BY <2>4, <2>5
  <2> QED BY <1>11, <2>6
<1>15. ASSUME NEW i \in 1 .. m, v[i] >= Floor, docs[i] \notin ToSet(b)
       PROVE  /\ Len(b) = n
              /\ \A k \in 1 .. Len(b) : \E j \in 1 .. m : b[k] = docs[j] /\ Outranks(j, i, v)
  <2>1. i \in P
    BY <1>1, <1>15 DEF P
  <2>2. PICK l \in 1 .. c : o[l] = i
    BY <1>6, <2>1, Holds
  <2>3. \A k \in 1 .. Len(b) : b[k] \in ToSet(b)
    BY <1>11, Holds
  <2>4. ~(l <= Len(b))
    <3>1. SUFFICES ASSUME l \in 1 .. Len(b) PROVE FALSE
      BY <1>6, <1>11
    <3> QED BY <1>11, <1>15, <2>2, <2>3, <3>1
  <2>5. Len(b) = n
    BY <1>6, <1>11, <2>4
  <2>6. ASSUME NEW k \in 1 .. Len(b) PROVE b[k] = docs[o[k]] /\ Outranks(o[k], i, v) /\ o[k] \in 1 .. m
    <3>1. k \in 1 .. c /\ k < l
      BY <1>6, <1>11, <2>4
    <3>2. <<o[k], o[l]>> \in R
      BY <1>6, <3>1
    <3>3. Outranks(o[k], i, v)
      BY <1>9, <2>1, <2>2, <3>1, <3>2 DEF R
    <3> QED BY <1>9, <1>11, <3>1, <3>3
  <2> QED BY <2>5, <2>6
<1> QED BY <1>11, <1>13, <1>14, <1>15 DEF b, m, Best

\* What the cache knows of what was selected, and what comes first, in lists
\* without repetition.
Distinctly(s) == \A k, l \in 1 .. Len(s) : k # l => s[k] # s[l]

LEMMA ContextHolds ==
  ASSUME NEW S, NEW s \in Seq(S), ToSet(s) \subseteq store.known
  PROVE  InContext(s) \in Seq(S) /\ ToSet(InContext(s)) = ToSet(s)
<1> DEFINE P == {i \in DOMAIN s : s[i] \in store.known}
<1>1. InContext(s) \in Seq(S) /\ ToSet(InContext(s)) = {s[i] : i \in P}
  BY FilterHolds DEF InContext
<1>2. ToSet(s) = {s[i] : i \in 1 .. Len(s)} /\ DOMAIN s = 1 .. Len(s)
  BY Holds
<1> QED BY <1>1, <1>2

\* In a filtered list nothing is twice that was once.
LEMMA FilterDistinct ==
  ASSUME NEW S, NEW s \in Seq(S), Distinctly(s), NEW P \in SUBSET (DOMAIN s)
  PROVE  Distinctly(At(s, P))
<1> DEFINE t == At(s, P)
<1>1. P \in SUBSET (1 .. Len(s))
  BY LenProperties
<1>2. Len(t) = Cardinality(P) /\ Sublist(t, s, P) /\ Len(s) \in Nat /\ Cardinality(P) \in Nat
  BY <1>1, AtItems
<1>3. PICK f \in [1 .. Cardinality(P) -> P] :
        /\ \A k \in 1 .. Cardinality(P) : t[k] = s[f[k]]
        /\ \A k, l \in 1 .. Cardinality(P) : k < l <=> f[k] < f[l]
  BY <1>2 DEF Sublist
<1> HIDE DEF t
<1>4. ASSUME NEW k \in 1 .. Len(t), NEW l \in 1 .. Len(t), k # l PROVE t[k] # t[l]
  <2>1. f[k] \in 1 .. Len(s) /\ f[l] \in 1 .. Len(s) /\ (k < l \/ l < k)
    BY <1>1, <1>2, <1>3, <1>4
  <2>2. f[k] # f[l]
    BY <1>2, <1>3, <2>1
  <2> QED BY <1>2, <1>3, <2>1, <2>2 DEF Distinctly
<1> QED BY <1>4 DEF Distinctly, t

LEMMA DistinctCounts ==
  ASSUME NEW S, NEW s \in Seq(S), Distinctly(s)
  PROVE  Cardinality(ToSet(s)) = Len(s) /\ IsFiniteSet(ToSet(s))
<1> DEFINE n == Len(s)
           T == ToSet(s)
<1>1. n \in Nat /\ DOMAIN s = 1 .. n /\ T = {s[i] : i \in 1 .. n}
  BY Holds
<1>2. IsFiniteSet(1 .. n) /\ Cardinality(1 .. n) = n
  <2>1. Cardinality(1 .. n) = (IF 1 > n THEN 0 ELSE n - 1 + 1) /\ IsFiniteSet(1 .. n)
    BY <1>1, FS_Interval
  <2> HIDE DEF n
  <2> QED BY <1>1, <2>1
<1>3. s \in [1 .. n -> T]
  <2>1. s \in [1 .. n -> S]
    BY LenProperties
  <2> QED BY <1>1, <2>1
<1>4. s \in Surjection(1 .. n, T) /\ s \in Injection(1 .. n, T)
  BY <1>1, <1>3 DEF Surjection, Injection, IsInjective, Distinctly
<1> HIDE DEF n, T
<1> QED BY <1>2, <1>4, FS_Surjection DEF n, T

LEMMA BoostedHolds ==
  ASSUME NEW S, NEW s \in Seq(S), Distinctly(s), NEW inside
  PROVE  /\ Boosted(s, inside) \in Seq(S) /\ ToSet(Boosted(s, inside)) = ToSet(s)
         /\ Len(Boosted(s, inside)) = Len(s) /\ Distinctly(Boosted(s, inside))
<1> DEFINE P == {i \in DOMAIN s : s[i] \in inside}
           Q == {i \in DOMAIN s : s[i] \notin inside}
           a == At(s, P)
           b == At(s, Q)
           u == a \o b
<1>1. Boosted(s, inside) = u
  BY DEF Boosted
<1>2. /\ a \in Seq(S) /\ ToSet(a) = {s[i] : i \in P} /\ Distinctly(a)
      /\ b \in Seq(S) /\ ToSet(b) = {s[i] : i \in Q} /\ Distinctly(b)
  BY FilterHolds, FilterDistinct
<1>3. ToSet(s) = {s[i] : i \in 1 .. Len(s)} /\ DOMAIN s = 1 .. Len(s)
  BY Holds
<1>4. ToSet(a) \cup ToSet(b) = ToSet(s) /\ ToSet(a) \cap ToSet(b) = {}
  BY <1>2, <1>3
<1> HIDE DEF P, Q, a, b
<1>5. u \in Seq(S) /\ ToSet(u) = ToSet(s)
  BY <1>2, <1>4, ConcatHolds
<1>6. Distinctly(u)
  <2>1. /\ Len(a) \in Nat /\ Len(b) \in Nat /\ Len(u) = Len(a) + Len(b)
        /\ \A i \in 1 .. Len(a) + Len(b) : u[i] = IF i <= Len(a) THEN a[i] ELSE b[i - Len(a)]
    BY <1>2, ConcatProperties, LenProperties
  <2>2. (\A i \in 1 .. Len(a) : a[i] \in ToSet(a)) /\ (\A i \in 1 .. Len(b) : b[i] \in ToSet(b))
    <3>1. ToSet(a) = {a[i] : i \in 1 .. Len(a)}
      BY <1>2, Holds
    <3>2. ToSet(b) = {b[i] : i \in 1 .. Len(b)}
      BY <1>2, Holds
    <3> QED BY <3>1, <3>2
  <2>3. ASSUME NEW k \in 1 .. Len(u), NEW l \in 1 .. Len(u), k < l PROVE u[k] # u[l]
    <3>1. CASE l <= Len(a)
      BY <1>2, <2>1, <2>3, <3>1 DEF Distinctly
    <3>2. CASE k > Len(a)
      <4>1. k - Len(a) \in 1 .. Len(b) /\ l - Len(a) \in 1 .. Len(b) /\ k - Len(a) # l - Len(a)
        BY <2>1, <2>3, <3>2
      <4>2. u[k] = b[k - Len(a)] /\ u[l] = b[l - Len(a)]
        BY <2>1, <2>3, <3>2
      <4> QED BY <1>2, <4>1, <4>2 DEF Distinctly
    <3>3. CASE k <= Len(a) /\ l > Len(a)
      <4>1. k \in 1 .. Len(a) /\ l - Len(a) \in 1 .. Len(b)
        BY <2>1, <2>3, <3>3
      <4>2. u[k] = a[k] /\ u[l] = b[l - Len(a)]
        BY <2>1, <2>3, <3>3
      <4> QED BY <1>4, <2>2, <4>1, <4>2
    <3> QED BY <2>1, <3>1, <3>2, <3>3
  <2>4. \A k, l \in 1 .. Len(u) : k # l => k < l \/ l < k
    BY <2>1
  <2> HIDE DEF u
  <2> QED BY <2>3, <2>4 DEF Distinctly
<1>7. Len(u) = Len(s)
  <2> HIDE DEF u
  <2>1. Cardinality(ToSet(u)) = Len(u) /\ Cardinality(ToSet(s)) = Len(s)
    BY <1>5, <1>6, DistinctCounts
  <2> QED BY <1>5, <2>1
<1> QED BY <1>1, <1>5, <1>6, <1>7

-------------------------------------------------------------------------------
(* Every step keeps the types.                                             *)

StagesType == [local : Seq(StageType), global : Seq(StageType), merged : Seq(StageType)]

LEMMA RunStays ==
  ASSUME RunTypes, UNCHANGED run, phase' \in Phases, phase = "ask" => phase' = "ask"
  PROVE  RunTypes'
BY DEF RunTypes, run

LEMMA QueryStays ==
  ASSUME QueryTypes, UNCHANGED <<kw, seeds, trace, pool, stages>>
  PROVE  QueryTypes'
BY DEF QueryTypes

LEMMA SpreadStays ==
  ASSUME SpreadTypes, UNCHANGED sa, phase' \notin {"hop", "spread"}
  PROVE  SpreadTypes'
BY DEF SpreadTypes

LEMMA BatchStays ==
  ASSUME BatchTypes, UNCHANGED <<picked, batch>>, phase' # "score"
  PROVE  BatchTypes'
BY DEF BatchTypes

LEMMA StageHolds ==
  ASSUME NEW E \in SUBSET LabelRange, NEW R \in SUBSET Rels
  PROVE  /\ Stage("entity_seeds", E, R, "") \in StageType
         /\ Stage("sa_activated_seeds", E, R, "") \in StageType
         /\ Stage("sa_activated_seeds", E, R, "disabled") \in StageType
         /\ Stage("node_subgraph", E, R, "") \in StageType
         /\ Stage("node_subgraph", E, R, "no_entity_ids") \in StageType
         /\ Stage("node_subgraph", E, R, "empty_after_cache_fallback") \in StageType
         /\ Stage("relationship_seeds", E, R, "") \in StageType
         /\ Stage("edge_subgraph", E, R, "") \in StageType
         /\ Stage("edge_subgraph", E, R, "no_relationship_ids") \in StageType
         /\ Stage("union_candidates", E, R, "") \in StageType
         /\ Stage("filtered", E, R, "") \in StageType
         /\ Stage("reranker_final", E, R, "") \in StageType
BY DEF Stage, StageType

LEMMA TracedHolds ==
  ASSUME stages \in StagesType, NEW st \in StageType
  PROVE  /\ Traced("local", st) \in StagesType /\ Traced("merged", st) \in StagesType
         /\ Traced("local", st).local = Append(stages.local, st)
         /\ Traced("merged", st).merged = Append(stages.merged, st)
         /\ Traced("merged", st).local = stages.local
         /\ Traced("local", st).merged = stages.merged
<1>1. Append(stages.local, st) \in Seq(StageType) /\ Append(stages.merged, st) \in Seq(StageType)
  BY AppendProperties DEF StagesType
<1> QED BY <1>1 DEF Traced, StagesType

LEMMA AskTypes == ASSUME TInv, Ask PROVE TInv'
<1>1. /\ UNCHANGED <<run, local>> /\ phase = "ask" /\ phase' \in {"search", "keywords"}
      /\ question <= (IF set.timed THEN 1 ELSE Questions) /\ trace' = [NoTrace EXCEPT !.q = question]
  BY DEF Ask
<1>2. question <= Questions /\ question \in Nat
  BY <1>1, NumbersAssumption DEF TInv, RunTypes
<1>3. RunTypes'
  BY <1>1, <1>2 DEF TInv, RunTypes, run, Phases
<1>4. trace' \in TraceType
  <2>1. <<>> \in Seq(Ents) /\ <<>> \in Seq(Rels)
    BY EmptySeq
  <2> QED BY <1>1, <1>2, <2>1 DEF NoTrace, TraceType, Stops
<1>5. QueryTypes'
  BY <1>1, <1>4 DEF TInv, QueryTypes, local
<1>6. SpreadTypes' /\ BatchTypes'
  BY <1>1, SpreadStays, BatchStays DEF TInv, local
<1> QED BY <1>3, <1>5, <1>6 DEF TInv

LEMMA PromptHolds ==
  ASSUME RunTypes, phase # "ask"
  PROVE  Prompt(question) \in 1 .. Questions
BY NumbersAssumption DEF RunTypes, Prompt

LEMMA KeywordTypes == ASSUME TInv, KeywordsFromCache \/ KeywordsFromModel PROVE TInv'
<1>1. /\ UNCHANGED <<set, store, question, rows, verdicts, seeds, sa, pool, batch, scoring, picked, stages, trace>>
      /\ phase = "keywords" /\ phase' \in {"keywords", "search"}
  BY DEF KeywordsFromCache, KeywordsFromModel, run
<1>2. kw' \in KeywordType /\ DOMAIN cached' \subseteq 1 .. Questions /\ \A i \in DOMAIN cached' : cached'[i] \in KeywordType
  <2>1. /\ kw \in KeywordType /\ DOMAIN cached \subseteq 1 .. Questions /\ \A i \in DOMAIN cached : cached[i] \in KeywordType
        /\ Prompt(question) \in 1 .. Questions
    BY <1>1, PromptHolds DEF TInv, RunTypes, QueryTypes
  <2>2. CASE KeywordsFromCache
    BY <2>1, <2>2 DEF KeywordsFromCache, CacheHit, run
  <2>3. CASE KeywordsFromModel
    <3>1. PICK low \in BOOLEAN, high \in BOOLEAN :
            LET both == [tries |-> 0, low |-> low, high |-> high]
            IN  IF low \/ high
                THEN kw' = both /\ cached' = [i \in DOMAIN cached \cup {Prompt(question)} |->
                                                 IF i = Prompt(question) THEN both ELSE cached[i]]
                ELSE kw' = [kw EXCEPT !.tries = @ + 1] /\ cached' = cached
      BY <2>3 DEF KeywordsFromModel
    <3>2. CASE low \/ high
      <4>1. [tries |-> 0, low |-> low, high |-> high] \in KeywordType
        BY NumbersAssumption DEF KeywordType
      <4> QED BY <2>1, <3>1, <3>2, <4>1
    <3>3. CASE ~(low \/ high)
      <4>1. kw' = [kw EXCEPT !.tries = @ + 1] /\ cached' = cached /\ kw.tries < MaxAttempts
        BY <2>3, <3>1, <3>3 DEF KeywordsFromModel
      <4>2. kw' \in KeywordType
        BY <2>1, <4>1, NumbersAssumption DEF KeywordType
      <4> QED BY <2>1, <4>1, <4>2
    <3> QED BY <3>2, <3>3
  <2> QED BY <2>2, <2>3
<1>3. RunTypes'
  BY <1>1, <1>2 DEF TInv, RunTypes, Phases
<1>4. QueryTypes'
  BY <1>1, <1>2 DEF TInv, QueryTypes
<1>5. SpreadTypes' /\ BatchTypes'
  BY <1>1, SpreadStays, BatchStays DEF TInv
<1> QED BY <1>3, <1>4, <1>5 DEF TInv

LEMMA SearchTypes == ASSUME TInv, SearchEntities PROVE TInv'
<1>1. PICK byVector \in EntityHits, byWords \in WordHits :
       LET both == byVector \cup byWords
           first == Traced("local", Stage("entity_seeds", Labels(both), {}, ""))
       IN  /\ seeds' \in Arrangements(both)
           /\ stages' = IF both = {}
                         THEN [first EXCEPT !.local =
                                 Append(@, Stage("node_subgraph", {}, {}, "no_entity_ids"))]
                        ELSE first
           /\ trace' = IF both = {} THEN [trace EXCEPT !.stop = "no_entity_hits"] ELSE trace
           /\ phase' = IF both = {} THEN "evidence" ELSE IF set.spread THEN "weigh" ELSE "nodes"
  BY DEF SearchEntities
<1> DEFINE both == byVector \cup byWords
           first == Traced("local", Stage("entity_seeds", Labels(both), {}, ""))
<1>2. /\ phase = "search" /\ UNCHANGED <<run, kw, sa, pool, batch, scoring, picked>>
      /\ phase' \in {"evidence", "weigh", "nodes"}
  BY <1>1 DEF SearchEntities
<1>3. store \in Stores /\ trace \in TraceType /\ stages \in StagesType
  BY DEF TInv, RunTypes, QueryTypes, StagesType
<1>4. both \subseteq Ents /\ IsFiniteSet(both)
  <2>1. store.known \subseteq Ents /\ IsFiniteSet(Ents)
    BY <1>3, GraphHolds
  <2>2. both \in SUBSET Ents
    BY <2>1 DEF EntityHits, WordHits
  <2> QED BY <2>1, <2>2, FS_Subset
<1>5. first \in StagesType /\ Append(first.local, Stage("node_subgraph", {}, {}, "no_entity_ids")) \in Seq(StageType)
  <2>1. Labels(both) \in SUBSET LabelRange
    BY <1>3, <1>4, WalkHolds
  <2>2. Stage("entity_seeds", Labels(both), {}, "") \in StageType
        /\ Stage("node_subgraph", {}, {}, "no_entity_ids") \in StageType
    <3>1. {} \in SUBSET LabelRange /\ {} \in SUBSET Rels
      OBVIOUS
    <3> QED BY <2>1, <3>1, StageHolds
  <2>3. first \in StagesType
    BY <1>3, <2>2, TracedHolds
  <2> QED BY <2>2, <2>3, AppendProperties DEF StagesType
<1> HIDE DEF both, first
<1>6. seeds' \in Seq(Ents)
  <2>1. seeds' \in Seq(both) /\ ToSet(seeds') = both
    BY <1>1, <1>4, Arranged DEF both
  <2> QED BY <1>4, <2>1, Holds
<1>7. stages' \in StagesType
  BY <1>1, <1>5 DEF StagesType, both, first
<1>8. trace' \in TraceType
  BY <1>1, <1>3 DEF TraceType, Stops
<1>9. QueryTypes'
  BY <1>2, <1>6, <1>7, <1>8 DEF TInv, QueryTypes, StagesType
<1> QED BY <1>2, <1>9, RunStays, SpreadStays, BatchStays DEF TInv, Phases

LEMMA ToSetIn == \A S : \A s \in Seq(S) : ToSet(s) \subseteq S
BY Holds

LEMMA WeighTypes == ASSUME TInv, Weigh PROVE TInv'
<1>1. /\ UNCHANGED <<run, kw, seeds, pool, batch, scoring, picked, stages, trace>> /\ phase = "weigh" /\ phase' = "hop"
      /\ \E w \in Weights :
           sa' = [NoSpread EXCEPT !.frontier = ToSet(seeds), !.all = ToSet(seeds), !.w = w,
                                  !.arcs = [e \in Ents |-> {}]]
  BY DEF Weigh
<1>2. PICK w \in Weights :
           sa' = [NoSpread EXCEPT !.frontier = ToSet(seeds), !.all = ToSet(seeds), !.w = w,
                                  !.arcs = [e \in Ents |-> {}]]
  BY <1>1
<1>3. ToSet(seeds) \subseteq Ents
  BY ToSetIn DEF TInv, QueryTypes
<1>4. sa' = [hop |-> 0, frontier |-> ToSet(seeds), all |-> ToSet(seeds), arcs |-> [e \in Ents |-> {}], w |-> w,
             value |-> <<>>, queue |-> <<>>, visited |-> {}, spread |-> 0]
  BY <1>2 DEF NoSpread
<1>5. [e \in Ents |-> {}] \in ArcsType
  BY DEF ArcsType
<1>6. SpreadTypes'
  <2>1. <<>> \in Seq(Ents) /\ <<>> \in Activations
    BY EmptySeq, ActivationsAre
  <2>2. sa' \in SpreadType
    BY <1>3, <1>4, <1>5, <2>1 DEF SpreadType
  <2>3. /\ sa'.frontier \subseteq sa'.all /\ sa'.hop <= MaxHops /\ sa'.visited = {} /\ ToSet(seeds) \subseteq sa'.all
        /\ sa'.arcs \in ArcsType /\ sa'.w \in Weights
        /\ \A e \in Ents : \A a \in sa'.arcs[e] : a[2] \in sa'.all
    BY <1>4, <1>5, NumbersAssumption
  <2> QED BY <1>1, <2>2, <2>3 DEF SpreadTypes
<1> QED BY <1>1, <1>6, RunStays, QueryStays, BatchStays DEF TInv, Phases

LEMMA HopTypes == ASSUME TInv, Hop PROVE TInv'
<1> DEFINE expanded == sa.frontier \cap store.nodes
           reached == {a[2] : a \in UNION {KeptArcs(e) : e \in expanded}}
           arcs == [e \in Ents |-> sa.arcs[e] \cup (IF e \in expanded THEN KeptArcs(e) ELSE {})]
<1>1. /\ phase = "hop" /\ sa.hop < MaxHops
      /\ UNCHANGED <<run, phase, kw, seeds, pool, batch, scoring, picked, stages, trace>>
      /\ sa' = [sa EXCEPT !.hop = @ + 1, !.frontier = reached \ sa.all, !.all = @ \cup reached, !.arcs = arcs]
  BY DEF Hop
<1>2. sa \in SpreadType /\ sa.arcs \in ArcsType /\ sa.w \in Weights /\ sa.hop <= MaxHops /\ store \in Stores
  BY <1>1 DEF TInv, SpreadTypes, RunTypes
<1>3. \A e : KeptArcs(e) \subseteq Rels \X Ents
  BY <1>2, WalkHolds
<1>4. reached \subseteq Ents
  BY <1>3
<1>5. arcs \in ArcsType /\ \A e \in Ents : \A a \in arcs[e] : a[2] \in sa.all \cup reached
  <2>1. \A e \in expanded : \A a \in KeptArcs(e) : a[2] \in reached
    OBVIOUS
  <2>2. \A e \in Ents : \A a \in sa.arcs[e] : a[2] \in sa.all
    BY <1>1 DEF TInv, SpreadTypes
  <2>3. \A e \in Ents : arcs[e] = sa.arcs[e] \cup (IF e \in expanded THEN KeptArcs(e) ELSE {})
    OBVIOUS
  <2> HIDE DEF expanded, reached
  <2>4. arcs \in ArcsType
    BY <1>2, <1>3 DEF ArcsType
  <2> HIDE DEF arcs
  <2> QED BY <2>1, <2>2, <2>3, <2>4
<1> HIDE DEF expanded, reached, arcs
<1>6. /\ sa'.hop = sa.hop + 1 /\ sa'.frontier = reached \ sa.all /\ sa'.all = sa.all \cup reached /\ sa'.arcs = arcs
      /\ sa'.w = sa.w /\ sa'.value = sa.value /\ sa'.queue = sa.queue /\ sa'.visited = sa.visited
      /\ sa'.spread = sa.spread
      /\ sa' = [hop |-> sa'.hop, frontier |-> sa'.frontier, all |-> sa'.all, arcs |-> sa'.arcs, w |-> sa'.w,
                value |-> sa'.value, queue |-> sa'.queue, visited |-> sa'.visited, spread |-> sa'.spread]
  BY <1>1, <1>2 DEF SpreadType
<1>7. /\ sa.hop \in Nat /\ sa.hop + 1 \in Nat /\ sa.all \cup reached \subseteq Ents /\ reached \ sa.all \subseteq Ents
      /\ sa.hop + 1 <= MaxHops
  BY <1>1, <1>2, <1>4, NumbersAssumption DEF SpreadType
<1>8. sa' \in SpreadType
  BY <1>2, <1>5, <1>6, <1>7 DEF SpreadType
<1>9. ToSet(seeds) \subseteq sa.all /\ sa.visited = {}
  BY <1>1 DEF TInv, SpreadTypes
<1>10. SpreadTypes'
  BY <1>1, <1>2, <1>5, <1>6, <1>7, <1>8, <1>9 DEF SpreadTypes
<1>11. BatchTypes'
  BY <1>1, BatchStays DEF TInv
<1> QED BY <1>1, <1>10, <1>11, RunStays, QueryStays DEF TInv, Phases

LEMMA StartTypes == ASSUME TInv, StartSpreading PROVE TInv'
<1> DEFINE v == [e \in sa.all |-> IF e \in ToSet(seeds) THEN Full ELSE 0]
<1>1. /\ phase = "hop" /\ phase' = "spread"
      /\ UNCHANGED <<run, kw, seeds, pool, batch, scoring, picked, stages, trace>>
      /\ sa' = [sa EXCEPT !.queue = seeds, !.value = v]
  BY DEF StartSpreading
<1>2. sa \in SpreadType /\ sa.arcs \in ArcsType /\ sa.w \in Weights /\ seeds \in Seq(Ents)
  BY <1>1 DEF TInv, SpreadTypes, QueryTypes
<1>3. v \in [sa.all -> 0 .. Full] /\ DOMAIN v = sa.all
  BY NumbersAssumption
<1>4. v \in Activations
  BY <1>2, <1>3, ActivationsAre DEF SpreadType
<1> HIDE DEF v
<1>5. /\ sa'.queue = seeds /\ sa'.value = v /\ sa'.arcs = sa.arcs /\ sa'.w = sa.w /\ sa'.all = sa.all
      /\ sa'.visited = sa.visited /\ sa'.hop = sa.hop /\ sa'.frontier = sa.frontier /\ sa'.spread = sa.spread
      /\ sa' = [hop |-> sa'.hop, frontier |-> sa'.frontier, all |-> sa'.all, arcs |-> sa'.arcs, w |-> sa'.w,
                value |-> sa'.value, queue |-> sa'.queue, visited |-> sa'.visited, spread |-> sa'.spread]
  BY <1>1, <1>2 DEF SpreadType
<1>6. sa' \in SpreadType
  BY <1>2, <1>4, <1>5 DEF SpreadType
<1>7. ToSet(seeds) \subseteq sa.all /\ sa.visited = {} /\ \A e \in Ents : \A a \in sa.arcs[e] : a[2] \in sa.all
  BY <1>1 DEF TInv, SpreadTypes
<1>8. seeds \in Seq(sa.all)
  BY <1>2, <1>7, Holds
<1>9. SpreadTypes'
  BY <1>1, <1>2, <1>3, <1>5, <1>6, <1>7, <1>8 DEF SpreadTypes
<1> QED BY <1>1, <1>9, RunStays, QueryStays, BatchStays DEF TInv, Phases

-------------------------------------------------------------------------------
(* The spreading, and the branches.                                        *)

LEMMA ArcsFinite ==
  ASSUME NEW S \in SUBSET (Rels \X Ents), store \in Stores
  PROVE  IsFiniteSet(S)
<1>1. IsFiniteSet(Rels \X Ents)
  BY GraphHolds, FS_Product
<1> QED BY <1>1, FS_Subset

\* What a node hands over is a number.
LEMMA GivenHolds ==
  ASSUME store \in Stores, sa.w \in Weights, NEW arcs \in SUBSET (Rels \X Ents), NEW v \in Nat, NEW t
  PROVE  Given(t, arcs, v) \in Nat
<1> DEFINE A == {x \in arcs : x[2] = t}
           f == [a \in A |-> (sa.w[a[1]] * v) \div Full]
<1>1. A \in SUBSET (Rels \X Ents) /\ IsFiniteSet(A)
  <2>1. A \in SUBSET (Rels \X Ents)
    OBVIOUS
  <2> HIDE DEF A
  <2> QED BY <2>1, ArcsFinite
<1>2. \A a \in A : sa.w[a[1]] \in Nat
  <2>1. sa.w \in [Rels -> Nat]
    BY NumbersAssumption
  <2>2. \A a \in Rels \X Ents : a[1] \in Rels
    OBVIOUS
  <2> HIDE DEF A
  <2> QED BY <1>1, <2>1, <2>2
<1>3. \A m \in Nat : (m * v) \div Full \in Nat
  <2>1. \A m \in Nat : m * v \in Nat
    OBVIOUS
  <2>2. \A m \in Nat : m \div Full \in Nat
    BY NumbersAssumption
  <2> QED BY <2>1, <2>2
<1>4. \A a \in A : f[a] \in Nat
  <2> HIDE DEF A
  <2>1. \A a \in A : f[a] = (sa.w[a[1]] * v) \div Full
    OBVIOUS
  <2> QED BY <1>2, <1>3, <2>1
<1>5. DOMAIN f = A
  OBVIOUS
<1>6. Given(t, arcs, v) = Total(f)
  BY DEF Given
<1> HIDE DEF A, f
<1>7. \A x \in DOMAIN f : f[x] \in Nat
  BY <1>4, <1>5
<1> QED BY <1>1, <1>5, <1>6, <1>7, TotalIs

LEMMA CappedHolds ==
  ASSUME NEW x \in Nat
  PROVE  Capped(x) \in 0 .. Full /\ \A y \in 0 .. Full : y <= x => y <= Capped(x)
BY NumbersAssumption DEF Capped

\* What a node receives keeps it within the activation of a seed, whatever a
\* relationship of the handing node with itself adds in between.
LEMMA ReceivedHolds ==
  ASSUME store \in Stores, sa.w \in Weights, NEW node, sa.arcs[node] \in SUBSET (Rels \X Ents),
         sa.value[node] \in Nat, NEW late \in Later(node), NEW t, sa.value[t] \in 0 .. Full
  PROVE  Received(t, node, late) \in 0 .. Full /\ Received(t, node, late) >= sa.value[t]
<1>1. late \in SUBSET (Rels \X Ents) /\ sa.arcs[node] \ late \in SUBSET (Rels \X Ents)
  BY DEF Later
<1>2. RaisedBy(node) \in Nat
  <2>1. Loops(node) \in SUBSET (Rels \X Ents)
    BY DEF Loops
  <2>2. Given(node, Loops(node), sa.value[node]) \in Nat
    BY <2>1, GivenHolds
  <2>3. sa.value[node] + Given(node, Loops(node), sa.value[node]) \in Nat
    BY <2>2
  <2> QED BY <2>3, CappedHolds, NumbersAssumption DEF RaisedBy
<1> DEFINE before == Given(t, sa.arcs[node] \ late, sa.value[node])
           after == Given(t, late, RaisedBy(node))
<1>3. before \in Nat
  BY <1>1, GivenHolds
<1>4. after \in Nat
  BY <1>1, <1>2, GivenHolds
<1>5. Received(t, node, late) = Capped(sa.value[t] + before + after)
  BY DEF Received
<1> HIDE DEF before, after
<1>6. sa.value[t] + before + after \in Nat /\ sa.value[t] <= sa.value[t] + before + after
  BY <1>3, <1>4
<1> QED BY <1>5, <1>6, CappedHolds, NumbersAssumption

LEMMA SpreadStepTypes == ASSUME TInv, Spread PROVE TInv'
<1> DEFINE node == Head(sa.queue)
<1>1. /\ phase = "spread" /\ sa.queue # <<>>
      /\ UNCHANGED <<run, phase, kw, seeds, pool, batch, scoring, picked, stages, trace>>
      /\ SpreadFrom(node)
  BY DEF Spread
<1>2. /\ sa \in SpreadType /\ sa.arcs \in ArcsType /\ sa.w \in Weights /\ store \in Stores
      /\ \A e \in Ents : \A a \in sa.arcs[e] : a[2] \in sa.all
      /\ DOMAIN sa.value = sa.all /\ sa.queue \in Seq(sa.all) /\ sa.visited \subseteq sa.all
  BY <1>1 DEF TInv, SpreadTypes, RunTypes
<1>3. sa.all \subseteq Ents /\ sa.spread \in Nat /\ sa.queue \in Seq(Ents) /\ sa.value \in [sa.all -> 0 .. Full]
  BY <1>2 DEF SpreadType, Activations
<1>4. node \in sa.all /\ Tail(sa.queue) \in Seq(sa.all)
  BY <1>1, <1>2, HeadTailProperties
<1> HIDE DEF node
<1>5. CASE node \in sa.visited
  <2>1. sa' = [sa EXCEPT !.queue = Tail(@)]
    BY <1>1, <1>5 DEF SpreadFrom
  <2>2. /\ sa'.queue = Tail(sa.queue) /\ sa'.value = sa.value /\ sa'.arcs = sa.arcs /\ sa'.w = sa.w /\ sa'.all = sa.all
        /\ sa'.visited = sa.visited /\ sa'.hop = sa.hop /\ sa'.frontier = sa.frontier /\ sa'.spread = sa.spread
        /\ sa' = [hop |-> sa'.hop, frontier |-> sa'.frontier, all |-> sa'.all, arcs |-> sa'.arcs, w |-> sa'.w,
                  value |-> sa'.value, queue |-> sa'.queue, visited |-> sa'.visited, spread |-> sa'.spread]
    BY <1>2, <2>1 DEF SpreadType
  <2>3. Tail(sa.queue) \in Seq(Ents)
    BY <1>3, <1>4, Holds, ToSetIn
  <2>4. sa' \in SpreadType
    BY <1>2, <2>2, <2>3 DEF SpreadType
  <2>5. SpreadTypes'
    BY <1>1, <1>2, <1>4, <2>2, <2>4 DEF SpreadTypes
  <2> QED BY <1>1, <2>5, RunStays, QueryStays, BatchStays DEF TInv, Phases
<1>6. CASE node \notin sa.visited
  <2> DEFINE new == {a[2] : a \in {x \in sa.arcs[node] : x[2] \notin sa.visited \cup {node}}}
             valueAfter(late) == [t \in sa.all |-> Received(t, node, late)]
  <2>1. PICK order \in Arrangements(new), late \in Later(node) :
         sa' = [sa EXCEPT !.queue = Tail(@) \o order, !.visited = @ \cup {node},
                          !.spread = @ + Cardinality(sa.arcs[node]), !.value = valueAfter(late)]
    BY <1>1, <1>6 DEF SpreadFrom
  <2> DEFINE value == valueAfter(late)
  <2>1a. sa' = [sa EXCEPT !.queue = Tail(@) \o order, !.visited = @ \cup {node},
                           !.spread = @ + Cardinality(sa.arcs[node]), !.value = value]
    BY <2>1
  <2>2. new \subseteq sa.all /\ IsFiniteSet(new)
    <3>1. new \in SUBSET sa.all /\ sa.all \in SUBSET Ents
      BY <1>2, <1>3, <1>4
    <3>2. IsFiniteSet(Ents)
      BY <1>2, GraphHolds
    <3> HIDE DEF new
    <3> QED BY <3>1, <3>2, FS_Subset
  <2> HIDE DEF new
  <2>3. order \in Seq(sa.all)
    <3>1. order \in Seq(new) /\ ToSet(order) = new
      BY <2>2, Arranged
    <3> QED BY <2>2, <3>1, Holds
  <2>4. Tail(sa.queue) \o order \in Seq(sa.all)
    BY <1>4, <2>3, ConcatProperties
  <2>5. value \in [sa.all -> 0 .. Full] /\ DOMAIN value = sa.all
    <3>1. sa.arcs[node] \in SUBSET (Rels \X Ents) /\ sa.value[node] \in 0 .. Full
      BY <1>2, <1>3, <1>4 DEF ArcsType
    <3>2. \A t \in sa.all : Received(t, node, late) \in 0 .. Full
      <4>1. sa.value[node] \in Nat
        BY <3>1, NumbersAssumption
      <4>2. \A t \in sa.all : sa.value[t] \in 0 .. Full
        BY <1>3
      <4> QED BY <1>2, <3>1, <4>1, <4>2, ReceivedHolds
    <3> QED BY <3>2
  <2>6. Cardinality(sa.arcs[node]) \in Nat
    <3>1. sa.arcs[node] \in SUBSET (Rels \X Ents)
      BY <1>2, <1>3, <1>4 DEF ArcsType
    <3> QED BY <1>2, <3>1, ArcsFinite, FS_CardinalityType
  <2> HIDE DEF value
  <2>7. /\ sa'.queue = Tail(sa.queue) \o order /\ sa'.value = value /\ sa'.visited = sa.visited \cup {node}
        /\ sa'.spread = sa.spread + Cardinality(sa.arcs[node])
        /\ sa'.arcs = sa.arcs /\ sa'.w = sa.w /\ sa'.all = sa.all
        /\ sa'.hop = sa.hop /\ sa'.frontier = sa.frontier
        /\ sa' = [hop |-> sa'.hop, frontier |-> sa'.frontier, all |-> sa'.all, arcs |-> sa'.arcs, w |-> sa'.w,
                  value |-> sa'.value, queue |-> sa'.queue, visited |-> sa'.visited, spread |-> sa'.spread]
    BY <1>2, <2>1a DEF SpreadType
  <2>8. sa'.queue \in Seq(Ents) /\ value \in Activations /\ sa'.visited \subseteq Ents /\ sa'.spread \in Nat
    <3>1. sa'.queue \in Seq(Ents)
      <4>1. sa'.queue \in Seq(sa.all)
        BY <2>4, <2>7
      <4>2. ToSet(sa'.queue) \subseteq sa.all
        BY <4>1, Holds
      <4>3. ToSet(sa'.queue) \subseteq Ents
        BY <1>3, <4>2
      <4> QED BY <4>1, <4>3, Holds
    <3>2. value \in Activations
      BY <1>3, <2>5, ActivationsAre
    <3>3. sa'.visited \subseteq Ents /\ sa'.spread \in Nat
      BY <1>2, <1>3, <1>4, <2>6, <2>7
    <3> QED BY <3>1, <3>2, <3>3
  <2>9. sa' \in SpreadType
    BY <1>2, <2>7, <2>8 DEF SpreadType
  <2>10. sa'.visited \subseteq sa'.all
    BY <1>2, <1>4, <2>7
  <2>11. SpreadTypes'
    BY <1>1, <1>2, <2>4, <2>5, <2>7, <2>9, <2>10 DEF SpreadTypes
  <2> QED BY <1>1, <2>11, RunStays, QueryStays, BatchStays DEF TInv, Phases
<1> QED BY <1>5, <1>6

LEMMA EndSpreadingTypes == ASSUME TInv, EndSpreading PROVE TInv'
<1>1. /\ phase = "spread" /\ phase' = "nodes"
      /\ seeds' = seeds \o SetToSeq(Activated \ ToSet(seeds))
      /\ stages' = Traced("local", Stage("sa_activated_seeds", Labels(ToSet(seeds')), {}, ""))
      /\ UNCHANGED <<run, kw, sa, pool, batch, scoring, picked, trace>>
  BY DEF EndSpreading
<1>2. store \in Stores /\ stages \in StagesType /\ seeds \in Seq(Ents) /\ sa.all \subseteq Ents
  BY DEF TInv, RunTypes, QueryTypes, StagesType, SpreadTypes, SpreadType
<1> DEFINE more == Activated \ ToSet(seeds)
<1>3. more \subseteq Ents /\ IsFiniteSet(more)
  <2>1. more \in SUBSET Ents
    BY <1>2 DEF Activated
  <2>2. IsFiniteSet(Ents)
    BY <1>2, GraphHolds
  <2> HIDE DEF more
  <2> QED BY <2>1, <2>2, FS_Subset
<1> HIDE DEF more
<1>4. SetToSeq(more) \in Seq(Ents)
  BY <1>3, ListedHolds, Holds
<1>5. seeds' \in Seq(Ents)
  BY <1>1, <1>2, <1>4, ConcatProperties DEF more
<1>6. stages' \in StagesType
  <2>1. ToSet(seeds') \subseteq Ents
    BY <1>5, ToSetIn
  <2>2. Labels(ToSet(seeds')) \in SUBSET LabelRange /\ {} \in SUBSET Rels
    BY <1>2, <2>1, WalkHolds
  <2>3. Stage("sa_activated_seeds", Labels(ToSet(seeds')), {}, "") \in StageType
    BY <2>2, StageHolds
  <2> QED BY <1>1, <1>2, <2>3, TracedHolds
<1>7. QueryTypes'
  BY <1>1, <1>5, <1>6 DEF TInv, QueryTypes, StagesType
<1> QED BY <1>1, <1>7, RunStays, SpreadStays, BatchStays DEF TInv, Phases

LEMMA NodeSubgraphTypes == ASSUME TInv, NodeSubgraph PROVE TInv'
<1> DEFINE ids == ToSet(seeds)
           before == IF set.spread THEN stages
                     ELSE Traced("local", Stage("sa_activated_seeds", Labels(ids), {}, "disabled"))
           nodes == ids \cap (store.nodes \cup store.known)
           both == [ents |-> nodes \cup Neighbours(nodes), rels |-> UNION {EdgesAt(e) : e \in nodes}]
           names == {NameOf[e] : e \in both.ents}
           none == Stage("node_subgraph", {}, {}, "empty_after_cache_fallback")
           some == Stage("node_subgraph", names, both.rels, "")
<1>1. /\ phase = "nodes" /\ UNCHANGED <<run, kw, seeds, sa, batch, scoring, picked>>
      /\ IF nodes = {}
         THEN /\ stages' = [before EXCEPT !.local = Append(@, none)]
              /\ trace' = [trace EXCEPT !.stop = "node_subgraph_empty"]
              /\ phase' = "evidence" /\ pool' = pool
         ELSE /\ stages' = [before EXCEPT !.local = Append(@, some)]
              /\ pool' = [pool EXCEPT !.local = both]
              /\ phase' = "relations" /\ trace' = trace
  BY DEF NodeSubgraph
<1>2. /\ store \in Stores /\ stages \in StagesType /\ seeds \in Seq(Ents) /\ trace \in TraceType
      /\ pool \in [local : PoolType, global : PoolType]
  BY DEF TInv, RunTypes, QueryTypes, StagesType
<1>3. ids \subseteq Ents
  BY <1>2, ToSetIn
<1>4. both \in PoolType /\ both.ents \in SUBSET Ents /\ both.rels \in SUBSET Rels /\ names \in SUBSET LabelRange
  <2> HIDE DEF ids
  <2>1. nodes \cup Neighbours(nodes) \in SUBSET Ents /\ UNION {EdgesAt(e) : e \in nodes} \in SUBSET Rels
    BY <1>2, <1>3, WalkHolds, GraphHolds
  <2>2. \A E \in SUBSET Ents : {NameOf[e] : e \in E} \subseteq LabelRange
    BY <1>2, WalkHolds
  <2> QED BY <2>1, <2>2 DEF PoolType
<1>5. before \in StagesType
  <2>1. Labels(ids) \in SUBSET LabelRange /\ {} \in SUBSET Rels
    BY <1>2, <1>3, WalkHolds
  <2>2. Stage("sa_activated_seeds", Labels(ids), {}, "disabled") \in StageType
    BY <2>1, StageHolds
  <2> QED BY <1>2, <2>2, TracedHolds
<1>6. none \in StageType /\ some \in StageType
  <2>1. {} \in SUBSET LabelRange /\ {} \in SUBSET Rels
    OBVIOUS
  <2> HIDE DEF both, names
  <2> QED BY <1>4, <2>1, StageHolds
<1> HIDE DEF ids, before, nodes, both, names, none, some
<1>7. stages' \in StagesType /\ trace' \in TraceType /\ pool' \in [local : PoolType, global : PoolType]
  <2>1. Append(before.local, none) \in Seq(StageType) /\ Append(before.local, some) \in Seq(StageType)
    BY <1>5, <1>6, AppendProperties DEF StagesType
  <2>2. [trace EXCEPT !.stop = "node_subgraph_empty"] \in TraceType
    BY <1>2 DEF TraceType, Stops
  <2>3. [pool EXCEPT !.local = both] \in [local : PoolType, global : PoolType]
    BY <1>2, <1>4
  <2>4. /\ [before EXCEPT !.local = Append(@, none)] \in StagesType
        /\ [before EXCEPT !.local = Append(@, some)] \in StagesType
    BY <1>5, <2>1 DEF StagesType
  <2> QED BY <1>1, <1>2, <2>2, <2>3, <2>4
<1>8. QueryTypes'
  BY <1>1, <1>7 DEF TInv, QueryTypes, StagesType
<1>9. phase' \in {"evidence", "relations"}
  BY <1>1
<1> QED BY <1>1, <1>8, <1>9, RunStays, SpreadStays, BatchStays DEF TInv, Phases

LEMMA SearchRelationsTypes == ASSUME TInv, SearchRelations PROVE TInv'
<1>1. PICK hits \in RelationHits :
       LET edges == hits \cap Held
           all == [ents |-> pool.local.ents \cup EndsOf(edges), rels |-> pool.local.rels \cup edges]
       IN  /\ pool' = [pool EXCEPT !.global = [ents |-> EndsOf(edges), rels |-> edges]]
           /\ stages' =
                [stages EXCEPT
                   !.global = <<Stage("relationship_seeds", Labels(EndsOf(hits \cap store.relKnown)), hits, ""),
                                Stage("edge_subgraph", {NameOf[e] : e \in EndsOf(edges)}, edges,
                                      IF hits = {} THEN "no_relationship_ids" ELSE "")>>,
                   !.merged = Forward(all)]
  BY DEF SearchRelations
<1>2. /\ phase = "relations" /\ phase' = "rerank" /\ UNCHANGED <<run, kw, seeds, sa, batch, scoring, picked, trace>>
  BY DEF SearchRelations
<1>3. /\ store \in Stores /\ stages \in StagesType /\ pool \in [local : PoolType, global : PoolType]
  BY DEF TInv, RunTypes, QueryTypes, StagesType
<1> DEFINE edges == hits \cap Held
           all == [ents |-> pool.local.ents \cup EndsOf(edges), rels |-> pool.local.rels \cup edges]
           one == Stage("relationship_seeds", Labels(EndsOf(hits \cap store.relKnown)), hits, "")
           two == Stage("edge_subgraph", {NameOf[e] : e \in EndsOf(edges)}, edges,
                        IF hits = {} THEN "no_relationship_ids" ELSE "")
<1>4. hits \in SUBSET Rels /\ edges \in SUBSET Rels /\ hits \cap store.relKnown \in SUBSET Rels
  BY <1>3, GraphHolds DEF RelationHits
<1> HIDE DEF edges
<1>5. EndsOf(edges) \in SUBSET Ents /\ EndsOf(hits \cap store.relKnown) \in SUBSET Ents
  BY <1>3, <1>4, WalkHolds
<1>6. all.ents \in SUBSET Ents /\ all.rels \in SUBSET Rels
  BY <1>3, <1>4, <1>5 DEF PoolType
<1>7. one \in StageType /\ two \in StageType
  <2>1. Labels(EndsOf(hits \cap store.relKnown)) \in SUBSET LabelRange /\ {NameOf[e] : e \in EndsOf(edges)} \in SUBSET LabelRange
    BY <1>3, <1>5, WalkHolds
  <2> QED BY <1>4, <2>1, StageHolds
<1>8. Forward(all) \in Seq(StageType)
  <2> HIDE DEF all
  <2>1. Labels(all.ents) \in SUBSET LabelRange
    BY <1>3, <1>6, WalkHolds
  <2>2. Stage("union_candidates", Labels(all.ents), all.rels, "") \in StageType
        /\ Stage("filtered", Labels(all.ents), all.rels, "") \in StageType
    BY <1>6, <2>1, StageHolds
  <2> DEFINE u == Stage("union_candidates", Labels(all.ents), all.rels, "")
             f == Stage("filtered", Labels(all.ents), all.rels, "")
  <2>3. Forward(all) = <<u, f>>
    BY DEF Forward
  <2> HIDE DEF u, f
  <2>4. u \in StageType /\ f \in StageType
    BY <2>2 DEF u, f
  <2>5. <<u, f>> \in Seq(StageType)
    BY <2>4
  <2> QED BY <2>3, <2>5
<1> HIDE DEF all, one, two
<1>9. <<one, two>> \in Seq(StageType)
  BY <1>7
<1>10. stages' \in StagesType
  <2>1. stages' = [stages EXCEPT !.global = <<one, two>>, !.merged = Forward(all)]
    BY <1>1 DEF all, one, two, edges
  <2> QED BY <1>3, <1>8, <1>9, <2>1 DEF StagesType
<1>11. pool' \in [local : PoolType, global : PoolType]
  <2>1. [ents |-> EndsOf(edges), rels |-> edges] \in PoolType
    BY <1>4, <1>5 DEF PoolType
  <2>2. pool' = [pool EXCEPT !.global = [ents |-> EndsOf(edges), rels |-> edges]]
    BY <1>1 DEF edges
  <2> QED BY <1>3, <2>1, <2>2
<1>12. QueryTypes'
  BY <1>2, <1>10, <1>11 DEF TInv, QueryTypes, StagesType
<1> QED BY <1>2, <1>12, RunStays, SpreadStays, BatchStays DEF TInv, Phases

-------------------------------------------------------------------------------
(* The reranker.                                                           *)

LEMMA DocumentsNext ==
  ASSUME UNCHANGED <<pool, store>>
  PROVE  Documents(batch.kind)' = Documents(batch'.kind)
BY DEF Documents, Union

LEMMA ScoringStays ==
  ASSUME UNCHANGED <<pool, store>>, scoring' \in Scorings, batch'.kind \in {"ents", "rels"},
         batch'.size \in Nat \ {0}, batch'.out \in Seq(Nat), Len(batch'.out) <= Len(Documents(batch'.kind)),
         \A i \in 1 .. Len(batch'.out) : batch'.out[i] = scoring'[Documents(batch'.kind)[i]]
  PROVE  Scoring'
<1>1. Documents(batch.kind)' = Documents(batch'.kind)
  BY DocumentsNext
<1> QED BY <1>1 DEF Scoring

LEMMA BeginScoring ==
  ASSUME UNCHANGED <<pool, store>>, store \in Stores, scoring' \in Scorings,
         NEW kind \in {"ents", "rels"}, batch' = StartScoring(kind)
  PROVE  Scoring' /\ batch' \in [kind : {"", "ents", "rels"}, size : Nat, out : Seq(Nat)]
<1>1. batch' = [kind |-> kind, size |-> BatchSize, out |-> <<>>] /\ BatchSize \in Nat \ {0}
  BY NumbersAssumption DEF StartScoring
<1>2. <<>> \in Seq(Nat) /\ Len(<<>>) = 0 /\ Len(Documents(kind)) \in Nat
  BY DocumentsHold, EmptySeq
<1>3. batch'.kind = kind /\ batch'.size = BatchSize /\ batch'.out = <<>>
  BY <1>1
<1>4. Scoring'
  <2>1. Len(batch'.out) <= Len(Documents(batch'.kind))
    BY <1>2, <1>3
  <2>2. \A i \in 1 .. Len(batch'.out) : batch'.out[i] = scoring'[Documents(batch'.kind)[i]]
    BY <1>2, <1>3
  <2>3. batch'.kind \in {"ents", "rels"} /\ batch'.size \in Nat \ {0} /\ batch'.out \in Seq(Nat)
    BY <1>1, <1>2, <1>3
  <2>4. UNCHANGED <<pool, store>> /\ scoring' \in Scorings
    OBVIOUS
  <2> QED BY ONLY <2>1, <2>2, <2>3, <2>4, ScoringStays
<1>5. [kind |-> kind, size |-> BatchSize, out |-> <<>>] \in [kind : {"", "ents", "rels"}, size : Nat, out : Seq(Nat)]
  BY <1>1, <1>2
<1> QED BY <1>1, <1>4, <1>5

LEMMA RerankTypes == ASSUME TInv, Rerank PROVE TInv'
<1>1. /\ phase = "rerank" /\ phase' = "score" /\ scoring' \in Scorings /\ batch' = StartScoring("ents")
      /\ UNCHANGED <<run, kw, seeds, sa, pool, picked, stages, trace>>
  BY DEF Rerank
<1>2. Scoring' /\ batch' \in [kind : {"", "ents", "rels"}, size : Nat, out : Seq(Nat)]
  <2>1. UNCHANGED <<pool, store>> /\ store \in Stores
    BY <1>1 DEF TInv, RunTypes, run
  <2> QED BY <1>1, <2>1, BeginScoring
<1>3. BatchTypes'
  BY <1>1, <1>2 DEF TInv, BatchTypes
<1> QED BY <1>1, <1>3, RunStays, QueryStays, SpreadStays DEF TInv, Phases

\* The scores of the next documents follow those before.
Longer(docs, out, n, s) == out \o [i \in 1 .. n |-> s[docs[Len(out) + 1 + i - 1]]]
ScoredAs(new, docs, out, n, s) ==
  new \in Seq(Nat) /\ Len(new) = Len(out) + n /\ \A i \in 1 .. Len(new) : new[i] = s[docs[i]]

LEMMA ScoredHolds ==
  ASSUME NEW docs, Len(docs) \in Nat, NEW out \in Seq(Nat), NEW n \in Nat, Len(out) + n <= Len(docs),
         NEW s, \A i \in 1 .. Len(docs) : s[docs[i]] \in Nat,
         \A i \in 1 .. Len(out) : out[i] = s[docs[i]]
  PROVE  ScoredAs(Longer(docs, out, n, s), docs, out, n, s)
<1> DEFINE more == [i \in 1 .. n |-> s[docs[Len(out) + 1 + i - 1]]]
<1>1. Len(out) \in Nat
  BY LenProperties
<1>2. \A i \in 1 .. n : Len(out) + 1 + i - 1 = Len(out) + i /\ Len(out) + i \in 1 .. Len(docs)
  BY <1>1
<1>3. more \in [1 .. n -> Nat] /\ \A i \in 1 .. n : more[i] = s[docs[Len(out) + i]]
  BY <1>2
<1> HIDE DEF more
<1>4. more \in Seq(Nat) /\ Len(more) = n
  BY <1>3, ListOf
<1>5. /\ out \o more \in Seq(Nat) /\ Len(out \o more) = Len(out) + n
      /\ \A i \in 1 .. Len(out) + n :
            (out \o more)[i] = IF i <= Len(out) THEN out[i] ELSE more[i - Len(out)]
  BY <1>1, <1>4, ConcatProperties
<1>6. \A i \in 1 .. Len(out) + n : (out \o more)[i] = s[docs[i]]
  <2> TAKE i \in 1 .. Len(out) + n
  <2>1. CASE i <= Len(out)
    BY <1>1, <1>5, <2>1
  <2>2. CASE i > Len(out)
    <3>1. i - Len(out) \in 1 .. n /\ Len(out) + (i - Len(out)) = i
      BY <1>1, <2>2
    <3>2. more[i - Len(out)] = s[docs[i]]
      BY <1>3, <3>1
    <3> QED BY <1>1, <1>5, <2>2, <3>2
  <2>3. i <= Len(out) \/ i > Len(out)
    BY <1>1
  <2> QED BY <2>1, <2>2, <2>3
<1>7. Longer(docs, out, n, s) = out \o more
  BY DEF more, Longer
<1> QED BY <1>5, <1>6, <1>7 DEF ScoredAs

LEMMA ScoresAre ==
  ASSUME store \in Stores, NEW s \in Scorings, NEW kind \in {"ents", "rels"}
  PROVE  \A i \in 1 .. Len(Documents(kind)) : s[Documents(kind)[i]] \in Nat
<1>1. s \in [Ents \cup Rels -> Nat]
  BY NumbersAssumption
<1>2. \A i \in 1 .. Len(Documents(kind)) : Documents(kind)[i] \in Ents \cup Rels
  <2> DEFINE D == IF kind = "ents" THEN Union.ents \cap store.known ELSE Union.rels \cap store.relKnown
             d == Documents(kind)
  <2>1. d \in Seq(D) /\ D \subseteq (IF kind = "ents" THEN Ents ELSE Rels)
    BY DocumentsHold
  <2>2. D \subseteq Ents \cup Rels
    BY <2>1
  <2> HIDE DEF D, d
  <2>3. \A i \in 1 .. Len(d) : d[i] \in D
    BY <2>1, ElementOfSeq
  <2> QED BY <2>2, <2>3 DEF d
<1> QED BY <1>1, <1>2

LEMMA ScoreBatchTypes == ASSUME TInv, ScoreBatch PROVE TInv'
<1> DEFINE docs == Documents(batch.kind)
           many == Len(docs) - Len(batch.out)
           Scored(n) == [batch EXCEPT !.out = @ \o [i \in 1 .. n |-> scoring[docs[Len(batch.out) + 1 + i - 1]]]]
<1>1. /\ phase = "score" /\ Len(batch.out) < Len(docs)
      /\ UNCHANGED <<run, phase, kw, seeds, sa, pool, scoring, picked, stages, trace>>
      /\ \/ batch' = Scored(IF batch.size < many THEN batch.size ELSE many)
         \/ batch.size > 1 /\ batch' = [batch EXCEPT !.size = IF @ \div 2 > 1 THEN @ \div 2 ELSE 1]
         \/ batch.size = 1 /\ batch' = Scored(1)
  BY DEF ScoreBatch
<1>2. /\ Scoring /\ store \in Stores /\ batch \in [kind : {"", "ents", "rels"}, size : Nat, out : Seq(Nat)]
      /\ picked \in [ents : Seq(Ents), rels : Seq(Rels)] /\ UNCHANGED <<pool, store>>
  BY <1>1 DEF TInv, BatchTypes, RunTypes, run
<1>3. /\ scoring \in Scorings /\ batch.kind \in {"ents", "rels"} /\ batch.size \in Nat \ {0}
      /\ batch.out \in Seq(Nat) /\ Len(batch.out) <= Len(docs) /\ Len(batch.out) \in Nat /\ Len(docs) \in Nat
      /\ \A i \in 1 .. Len(batch.out) : batch.out[i] = scoring[docs[i]]
  BY <1>2, DocumentsHold, LenProperties DEF Scoring
<1>4. \A i \in 1 .. Len(docs) : scoring[docs[i]] \in Nat
  BY <1>2, <1>3, ScoresAre
<1> HIDE DEF docs
<1>5. \A n \in Nat : Len(batch.out) + n <= Len(docs) /\ batch' = Scored(n) =>
         Scoring' /\ batch' \in [kind : {"", "ents", "rels"}, size : Nat, out : Seq(Nat)]
  <2> TAKE n \in Nat
  <2> HAVE Len(batch.out) + n <= Len(docs) /\ batch' = Scored(n)
  <2> DEFINE o == batch.out \o [i \in 1 .. n |-> scoring[docs[Len(batch.out) + 1 + i - 1]]]
  <2>1. batch' = [batch EXCEPT !.out = o]
    OBVIOUS
  <2>2. /\ o \in Seq(Nat) /\ Len(o) = Len(batch.out) + n
        /\ \A i \in 1 .. Len(o) : o[i] = scoring[docs[i]]
    <3>1. Len(batch.out) + n <= Len(docs) /\ n \in Nat
      OBVIOUS
    <3>2. ScoredAs(Longer(docs, batch.out, n, scoring), docs, batch.out, n, scoring)
      BY ONLY <1>3, <1>4, <3>1, ScoredHolds
    <3>3. Longer(docs, batch.out, n, scoring) = o
      BY DEF Longer
    <3> HIDE DEF o
    <3> QED BY <3>2, <3>3 DEF ScoredAs
  <2> HIDE DEF o
  <2>3. batch'.kind = batch.kind /\ batch'.size = batch.size /\ batch'.out = o
    BY <1>2, <2>1
  <2>4. Len(batch'.out) <= Len(Documents(batch'.kind)) /\ scoring' = scoring
    BY <1>1, <2>2, <2>3 DEF docs
  <2>5. \A i \in 1 .. Len(batch'.out) : batch'.out[i] = scoring'[Documents(batch'.kind)[i]]
    BY <2>2, <2>3, <2>4 DEF docs
  <2>6. Scoring'
    BY <1>2, <1>3, <2>2, <2>3, <2>4, <2>5, ScoringStays
  <2> QED BY <1>2, <2>1, <2>2, <2>6
<1>6. Scoring' /\ batch' \in [kind : {"", "ents", "rels"}, size : Nat, out : Seq(Nat)]
  <2>1. CASE batch' = Scored(IF batch.size < many THEN batch.size ELSE many)
    <3> DEFINE n == IF batch.size < many THEN batch.size ELSE many
    <3>1. n \in Nat /\ Len(batch.out) + n <= Len(docs)
      BY <1>1, <1>3
    <3>2. batch' = Scored(n)
      BY <2>1
    <3> HIDE DEF n, Scored
    <3> QED BY <1>5, <3>1, <3>2
  <2>2. CASE batch.size > 1 /\ batch' = [batch EXCEPT !.size = IF @ \div 2 > 1 THEN @ \div 2 ELSE 1]
    <3> DEFINE half == IF batch.size \div 2 > 1 THEN batch.size \div 2 ELSE 1
    <3>1. half \in Nat \ {0} /\ batch' = [batch EXCEPT !.size = half]
      BY <1>3, <2>2
    <3> HIDE DEF half
    <3>2. batch'.kind = batch.kind /\ batch'.size = half /\ batch'.out = batch.out
      BY <1>2, <3>1
    <3>3. scoring' = scoring /\ Documents(batch'.kind) = docs
      BY <1>1, <3>2 DEF docs
    <3>4. Scoring'
      BY <1>2, <1>3, <3>1, <3>2, <3>3, ScoringStays
    <3> QED BY <1>2, <3>1, <3>4
  <2>3. CASE batch' = Scored(1)
    <3>1. Len(batch.out) + 1 <= Len(docs)
      BY <1>1, <1>3
    <3> HIDE DEF Scored
    <3> QED BY <1>5, <2>3, <3>1
  <2> QED BY <1>1, <2>1, <2>2, <2>3
<1>7. BatchTypes'
  BY <1>1, <1>2, <1>6 DEF BatchTypes
<1> QED BY <1>1, <1>7, RunStays, QueryStays, SpreadStays DEF TInv, Phases

-------------------------------------------------------------------------------
(* What is selected, the answer and its row.                               *)

\* When the documents of a kind are scored, the best of them are chosen.
LEMMA ChosenHolds ==
  ASSUME Scoring, store \in Stores, NEW n \in Nat, NEW kind, kind = batch.kind,
         Len(batch.out) = Len(Documents(kind))
  PROVE  LET b == BestOf(Documents(kind), batch.out, n)
             D == IF kind = "ents" THEN Union.ents \cap store.known ELSE Union.rels \cap store.relKnown
         IN  /\ b \in Seq(D) /\ Len(b) \in Nat /\ ToSet(b) \subseteq D /\ Distinctly(b)
             /\ \A e \in ToSet(b) : scoring[e] >= Floor
             /\ \A e \in D \ ToSet(b) : scoring[e] >= Floor =>
                   Len(b) = n /\ \A d \in ToSet(b) : Outranks(d, e, scoring)
<1> DEFINE D == IF kind = "ents" THEN Union.ents \cap store.known ELSE Union.rels \cap store.relKnown
           docs == Documents(kind)
           v == batch.out
           b == BestOf(docs, v, n)
<1>1. kind \in {"ents", "rels"} /\ v \in Seq(Nat) /\ Len(v) = Len(docs) /\ \A i \in 1 .. Len(v) : v[i] = scoring[docs[i]]
  BY DEF Scoring
<1>2. /\ docs \in Seq(D) /\ ToSet(docs) = D /\ Len(docs) \in Nat /\ D \subseteq Nat
      /\ \A k, l \in 1 .. Len(docs) : k < l <=> docs[k] < docs[l]
  BY <1>1, DocumentsHold
<1> HIDE DEF D, docs, v
<1>3. \A k \in 1 .. Len(docs) : docs[k] \in Nat /\ docs[k] \in D
  BY <1>2, ElementOfSeq
<1>4. /\ b \in Seq(D) /\ Len(b) \in Nat
      /\ \A k \in 1 .. Len(b) : \E i \in 1 .. Len(docs) : b[k] = docs[i] /\ v[i] >= Floor
      /\ \A k, l \in 1 .. Len(b) : k # l => b[k] # b[l]
      /\ \A i \in 1 .. Len(docs) : v[i] >= Floor /\ docs[i] \notin ToSet(b) =>
            /\ Len(b) = n
            /\ \A k \in 1 .. Len(b) : \E j \in 1 .. Len(docs) : b[k] = docs[j] /\ Outranks(j, i, v)
  <2>1. \A k \in 1 .. Len(docs) : docs[k] \in Nat
    BY <1>3
  <2>2. n \in Nat
    OBVIOUS
  <2>3. docs \in Seq(D)
    BY <1>2
  <2>4. v \in Seq(Nat)
    BY <1>1
  <2>5. Len(v) = Len(docs)
    BY <1>1
  <2>6. \A k, l \in 1 .. Len(docs) : k < l <=> docs[k] < docs[l]
    BY <1>2
  <2>7. Best(b, D, docs, v, n)
    BY <2>1, <2>2, <2>3, <2>4, <2>5, <2>6, BestChosen
  <2> HIDE DEF b
  <2> QED BY <2>7 DEF Best
<1> HIDE DEF b
<1>5. ToSet(b) = {b[k] : k \in 1 .. Len(b)} /\ ToSet(b) \subseteq D
  BY <1>4, Holds
<1>6. \A e \in ToSet(b) : scoring[e] >= Floor
  <2> TAKE e \in ToSet(b)
  <2>1. PICK k \in 1 .. Len(b) : e = b[k]
    BY <1>5
  <2>2. PICK i \in 1 .. Len(docs) : b[k] = docs[i] /\ v[i] >= Floor
    BY <1>4
  <2> QED BY <1>1, <2>1, <2>2
<1>7. \A i, j \in 1 .. Len(docs) : Outranks(j, i, v) => Outranks(docs[j], docs[i], scoring)
  BY <1>1, <1>2 DEF Outranks
<1>8. ASSUME NEW e \in D \ ToSet(b), scoring[e] >= Floor
      PROVE  Len(b) = n /\ \A d \in ToSet(b) : Outranks(d, e, scoring)
  <2>1. PICK i \in 1 .. Len(docs) : docs[i] = e
    <3>1. ToSet(docs) = {docs[k] : k \in 1 .. Len(docs)}
      BY <1>2, Holds
    <3> QED BY <1>2, <3>1
  <2>2. v[i] >= Floor /\ docs[i] \notin ToSet(b)
    BY <1>1, <1>8, <2>1
  <2>3. /\ Len(b) = n
        /\ \A k \in 1 .. Len(b) : \E j \in 1 .. Len(docs) : b[k] = docs[j] /\ Outranks(j, i, v)
    BY <1>4, <2>2
  <2>4. ASSUME NEW d \in ToSet(b) PROVE Outranks(d, e, scoring)
    <3>1. PICK k \in 1 .. Len(b) : d = b[k]
      BY <1>5
    <3>2. PICK j \in 1 .. Len(docs) : b[k] = docs[j] /\ Outranks(j, i, v)
      BY <2>3
    <3> QED BY <1>7, <2>1, <3>1, <3>2
  <2> QED BY <2>3, <2>4
<1>9. Distinctly(b)
  BY <1>4 DEF Distinctly
<1> QED BY <1>4, <1>5, <1>6, <1>8, <1>9 DEF b, D, docs, v

LEMMA SelectEntitiesTypes == ASSUME TInv, SelectEntities PROVE TInv'
<1> DEFINE b == BestOf(Documents("ents"), batch.out, TopE)
<1>1. /\ phase = "score" /\ batch.kind = "ents" /\ Len(batch.out) = Len(Documents("ents"))
      /\ picked' = [picked EXCEPT !.ents = b] /\ batch' = StartScoring("rels")
      /\ UNCHANGED <<run, phase, kw, seeds, sa, pool, scoring, stages, trace>>
  BY DEF SelectEntities
<1>2. /\ Scoring /\ store \in Stores /\ picked \in [ents : Seq(Ents), rels : Seq(Rels)]
      /\ UNCHANGED <<pool, store>> /\ scoring' \in Scorings
  BY <1>1 DEF TInv, BatchTypes, RunTypes, run, Scoring
<1>3. b \in Seq(Ents)
  <2>1. b \in Seq(Union.ents \cap store.known)
    BY <1>1, <1>2, NumbersAssumption, ChosenHolds
  <2>2. Union.ents \cap store.known \subseteq Ents
    BY <1>2, GraphHolds
  <2> HIDE DEF b
  <2>3. ToSet(b) \subseteq Ents
    BY <2>1, <2>2, ToSetIn
  <2> QED BY <2>1, <2>3, Holds
<1>4. Scoring' /\ batch' \in [kind : {"", "ents", "rels"}, size : Nat, out : Seq(Nat)]
  BY <1>1, <1>2, BeginScoring
<1> HIDE DEF b
<1>5. BatchTypes'
  BY <1>1, <1>2, <1>3, <1>4 DEF BatchTypes
<1> QED BY <1>1, <1>5, RunStays, QueryStays, SpreadStays DEF TInv, Phases

LEMMA SelectRelationsTypes == ASSUME TInv, SelectRelations PROVE TInv'
<1> DEFINE b == BestOf(Documents("rels"), batch.out, TopR)
<1>1. /\ phase = "score" /\ phase' = "boost" /\ batch.kind = "rels" /\ Len(batch.out) = Len(Documents("rels"))
      /\ picked' = [ents |-> InContext(picked.ents), rels |-> b] /\ batch' = NoBatch
      /\ stages' = Traced("merged", Stage("reranker_final", Labels(ToSet(picked.ents)), ToSet(picked'.rels), ""))
      /\ UNCHANGED <<run, kw, seeds, sa, pool, scoring, trace>>
  BY DEF SelectRelations
<1>2. /\ Scoring /\ store \in Stores /\ picked \in [ents : Seq(Ents), rels : Seq(Rels)] /\ stages \in StagesType
  BY <1>1 DEF TInv, BatchTypes, RunTypes, QueryTypes, StagesType
<1>3. b \in Seq(Rels)
  <2>1. b \in Seq(Union.rels \cap store.relKnown)
    BY <1>1, <1>2, NumbersAssumption, ChosenHolds
  <2>2. Union.rels \cap store.relKnown \subseteq Rels
    BY <1>2, GraphHolds
  <2> HIDE DEF b
  <2>3. ToSet(b) \subseteq Rels
    BY <2>1, <2>2, ToSetIn
  <2> QED BY <2>1, <2>3, Holds
<1> HIDE DEF b
<1>4. InContext(picked.ents) \in Seq(Ents)
  <2> DEFINE P == {i \in DOMAIN picked.ents : picked.ents[i] \in store.known}
  <2>1. P \in SUBSET (DOMAIN picked.ents) /\ picked.ents \in Seq(Ents)
    BY <1>2
  <2>2. At(picked.ents, P) \in Seq(Ents)
    BY <2>1, FilterHolds
  <2> QED BY <2>2 DEF InContext
<1>5. picked' \in [ents : Seq(Ents), rels : Seq(Rels)] /\ picked'.rels = b
  BY <1>1, <1>3, <1>4
<1>6. batch' \in [kind : {"", "ents", "rels"}, size : Nat, out : Seq(Nat)]
  BY <1>1, EmptySeq DEF NoBatch
<1>7. stages' \in StagesType
  <2>1. ToSet(picked.ents) \subseteq Ents /\ ToSet(b) \in SUBSET Rels
    BY <1>2, <1>3, ToSetIn
  <2>2. Labels(ToSet(picked.ents)) \in SUBSET LabelRange
    BY <1>2, <2>1, WalkHolds
  <2>3. Stage("reranker_final", Labels(ToSet(picked.ents)), ToSet(b), "") \in StageType
    BY <2>1, <2>2, StageHolds
  <2> QED BY <1>1, <1>2, <1>5, <2>3, TracedHolds
<1>8. BatchTypes'
  BY <1>1, <1>5, <1>6 DEF BatchTypes
<1>9. QueryTypes'
  BY <1>1, <1>7 DEF TInv, QueryTypes, StagesType
<1> QED BY <1>1, <1>8, <1>9, RunStays, SpreadStays DEF TInv, Phases

LEMMA BoostTypes == ASSUME TInv, Boost PROVE TInv'
<1>1. /\ phase = "boost" /\ phase' = "evidence"
      /\ UNCHANGED <<run, kw, seeds, sa, pool, batch, scoring, stages, trace>>
      /\ \E inside : picked' = [picked EXCEPT !.ents = Boosted(@, inside)]
  BY DEF Boost
<1>2. PICK inside : picked' = [picked EXCEPT !.ents = Boosted(@, inside)]
  BY <1>1
<1>3. picked \in [ents : Seq(Ents), rels : Seq(Rels)] /\ batch \in [kind : {"", "ents", "rels"}, size : Nat, out : Seq(Nat)]
  BY DEF TInv, BatchTypes
<1>4. Boosted(picked.ents, inside) \in Seq(Ents)
  <2> DEFINE s == picked.ents
             P == {i \in DOMAIN s : s[i] \in inside}
             Q == {i \in DOMAIN s : s[i] \notin inside}
  <2>1. P \in SUBSET (DOMAIN s) /\ Q \in SUBSET (DOMAIN s) /\ s \in Seq(Ents)
    BY <1>3
  <2>2. Boosted(s, inside) = At(s, P) \o At(s, Q)
    BY DEF Boosted
  <2> HIDE DEF s, P, Q
  <2>3. At(s, P) \in Seq(Ents) /\ At(s, Q) \in Seq(Ents)
    BY <2>1, FilterHolds
  <2> QED BY <2>2, <2>3, ConcatProperties DEF s
<1>5. picked' \in [ents : Seq(Ents), rels : Seq(Rels)]
  BY <1>2, <1>3, <1>4
<1>6. BatchTypes'
  BY <1>1, <1>3, <1>5 DEF BatchTypes
<1> QED BY <1>1, <1>6, RunStays, QueryStays, SpreadStays DEF TInv, Phases

LEMMA EvidenceTypes == ASSUME TInv, BuildEvidence PROVE TInv'
<1> DEFINE shown == IF set.noGraph THEN [ents |-> <<>>, rels |-> <<>>] ELSE picked
<1>1. /\ phase = "evidence" /\ phase' = "answer" /\ UNCHANGED <<run, local>>
      /\ \E n \in {0, 1} :
           trace' = [trace EXCEPT !.ents = shown.ents, !.rels = shown.rels, !.evidence = n,
                                  !.tags = IF set.noGraph \/ set.noText THEN {} ELSE Tags,
                                  !.low = kw.low, !.high = kw.high]
  BY DEF BuildEvidence
<1>2. PICK n \in {0, 1} :
           trace' = [trace EXCEPT !.ents = shown.ents, !.rels = shown.rels, !.evidence = n,
                                  !.tags = IF set.noGraph \/ set.noText THEN {} ELSE Tags,
                                  !.low = kw.low, !.high = kw.high]
  BY <1>1
<1>3. trace \in TraceType /\ kw \in KeywordType /\ picked \in [ents : Seq(Ents), rels : Seq(Rels)]
  BY DEF TInv, QueryTypes, BatchTypes
<1>4. shown.ents \in Seq(Ents) /\ shown.rels \in Seq(Rels)
  BY <1>3, EmptySeq
<1>5. Tags \in SUBSET {"mentioned_at"} /\ kw.low \in BOOLEAN /\ kw.high \in BOOLEAN
  BY <1>3 DEF Tags, KeywordType
<1> HIDE DEF shown
<1>6. trace' \in TraceType
  <2> DEFINE tags == IF set.noGraph \/ set.noText THEN {} ELSE Tags
  <2>1. tags \in SUBSET {"mentioned_at"} /\ n \in Nat
    BY <1>5
  <2>2. trace' = [trace EXCEPT !.ents = shown.ents, !.rels = shown.rels, !.evidence = n, !.tags = tags,
                               !.low = kw.low, !.high = kw.high]
    BY <1>2
  <2> HIDE DEF tags
  <2>3. trace' = [q |-> trace.q, failed |-> trace.failed, stop |-> trace.stop, ents |-> shown.ents,
                  rels |-> shown.rels, evidence |-> n, tags |-> tags, low |-> kw.low, high |-> kw.high]
    BY <1>3, <2>2 DEF TraceType
  <2> QED BY <1>3, <1>4, <1>5, <2>1, <2>3 DEF TraceType
<1>7. QueryTypes' /\ phase # "ask" /\ phase' \in Phases
  BY <1>1, <1>6 DEF TInv, QueryTypes, local, Phases
<1>8. SpreadTypes' /\ BatchTypes'
  BY <1>1, SpreadStays, BatchStays DEF TInv, local
<1> QED BY <1>1, <1>7, <1>8, RunStays DEF TInv

LEMMA NoTraceHolds == NoTrace \in TraceType /\ \A q \in Nat : [NoTrace EXCEPT !.q = q] \in TraceType
<1>1. <<>> \in Seq(Ents) /\ <<>> \in Seq(Rels)
  BY EmptySeq
<1> QED BY <1>1 DEF NoTrace, TraceType, Stops

LEMMA RaiseTypes == ASSUME TInv, RetrievalRaises PROVE TInv'
<1>1. /\ phase \in Remote /\ phase' \in {"raised", "answer"} /\ UNCHANGED <<run, local>>
      /\ trace' = [NoTrace EXCEPT !.q = question, !.failed = TRUE, !.stop = "build_kg_context_failed"]
  BY DEF RetrievalRaises
<1>2. trace' \in TraceType
  <2>1. <<>> \in Seq(Ents) /\ <<>> \in Seq(Rels) /\ question \in Nat
    BY EmptySeq, NumbersAssumption DEF TInv, RunTypes
  <2> QED BY <1>1, <2>1 DEF NoTrace, TraceType, Stops
<1>3. QueryTypes'
  BY <1>1, <1>2 DEF TInv, QueryTypes, local
<1>4. SpreadTypes' /\ BatchTypes'
  BY <1>1, SpreadStays, BatchStays DEF TInv, local
<1>5. RunTypes'
  BY <1>1, RunStays DEF TInv, Phases, Remote
<1> QED BY <1>3, <1>4, <1>5 DEF TInv

LEMMA BlankHolds ==
  ASSUME Blank', trace' \in TraceType, phase' = "ask"
  PROVE  QueryTypes' /\ SpreadTypes' /\ BatchTypes'
<1>1. /\ kw' = NoKeywords /\ seeds' = <<>> /\ sa' = NoSpread /\ batch' = NoBatch
      /\ pool' = [local |-> Nothing, global |-> Nothing]
      /\ picked' = [ents |-> <<>>, rels |-> <<>>] /\ stages' = NoStages
  BY DEF Blank, NoKeywords, NoSpread, NoBatch, Nothing, NoStages
<1>2. \A S : <<>> \in Seq(S)
  BY EmptySeq
<1>3. QueryTypes'
  <2>1. kw' \in KeywordType
    BY <1>1, NumbersAssumption DEF NoKeywords, KeywordType
  <2>2. pool' \in [local : PoolType, global : PoolType]
    BY <1>1 DEF Nothing, PoolType
  <2>3. stages' \in [local : Seq(StageType), global : Seq(StageType), merged : Seq(StageType)]
    BY <1>1, <1>2 DEF NoStages
  <2> QED BY <1>1, <1>2, <2>1, <2>2, <2>3 DEF QueryTypes
<1>4. SpreadTypes'
  <2>1. sa' = [hop |-> 0, frontier |-> {}, all |-> {}, arcs |-> <<>>, w |-> <<>>, value |-> <<>>,
               queue |-> <<>>, visited |-> {}, spread |-> 0]
    BY <1>1 DEF NoSpread
  <2>2. <<>> \in Activations /\ <<>> \in Seq(Ents)
    BY ActivationsAre, <1>2
  <2>3. sa' \in SpreadType
    BY <2>1, <2>2 DEF SpreadType
  <2> QED BY <2>3 DEF SpreadTypes
<1>5. BatchTypes'
  BY <1>1, <1>2 DEF BatchTypes, NoBatch
<1> QED BY <1>3, <1>4, <1>5

LEMMA EndTypes ==
  ASSUME TInv, phase = "answer", NEW row \in RowType, EndQuestion(row),
         UNCHANGED <<set, store, cached, trace, verdicts>>
  PROVE  TInv'
<1>1. /\ rows' = Append(rows, row) /\ question' = question + 1 /\ phase' = "ask" /\ Blank'
  BY DEF EndQuestion, Blank, NoKeywords, NoSpread, NoBatch, Nothing, NoStages
<1>2. trace' \in TraceType
  BY DEF TInv, QueryTypes
<1>3. QueryTypes' /\ SpreadTypes' /\ BatchTypes'
  BY <1>1, <1>2, BlankHolds
<1>4. rows' \in Seq(RowType) /\ Len(rows') = Len(rows) + 1 /\ Len(rows) \in Nat
  BY <1>1, AppendProperties, LenProperties DEF TInv, RunTypes
<1>5. question <= Questions /\ question \in 1 .. Questions + 1 /\ Len(rows) = question - 1
  BY DEF TInv, RunTypes
<1>6. question' \in 1 .. Questions + 1 /\ Len(rows') = question' - 1
  BY <1>1, <1>4, <1>5, NumbersAssumption
<1>7. verdicts' \in Seq(VerdictType) /\ Len(verdicts') <= Len(rows')
  <2>1. verdicts \in Seq(VerdictType) /\ Len(verdicts) <= Len(rows) /\ Len(verdicts) \in Nat
    BY LenProperties DEF TInv, RunTypes
  <2> QED BY <1>4, <2>1
<1>8. RunTypes'
  BY <1>1, <1>4, <1>6, <1>7 DEF TInv, RunTypes, Phases
<1> QED BY <1>3, <1>8 DEF TInv

LEMMA RowHolds ==
  ASSUME NEW t \in TraceType, NEW a \in BOOLEAN, question \in Nat
  PROVE  Row(t, a) \in RowType
BY DEF Row, RowType, TraceType

LEMMA AnswerTypes == ASSUME TInv, Answer \/ AnswerRaises PROVE TInv'
<1>1. phase = "answer" /\ UNCHANGED <<set, store, cached, trace, verdicts>>
  BY DEF Answer, AnswerRaises
<1>2. question \in Nat /\ trace \in TraceType
  BY NumbersAssumption DEF TInv, RunTypes, QueryTypes
<1>3. CASE EndQuestion(Row(trace, TRUE))
  <2>1. Row(trace, TRUE) \in RowType
    BY <1>2, RowHolds
  <2> QED BY <1>1, <1>3, <2>1, EndTypes
<1>4. CASE EndQuestion(Row(NoTrace, FALSE))
  <2>1. Row(NoTrace, FALSE) \in RowType
    BY <1>2, NoTraceHolds, RowHolds
  <2> QED BY <1>1, <1>4, <2>1, EndTypes
<1>5. CASE phase' = "raised" /\ UNCHANGED <<question, local, rows>>
  <2>1. QueryTypes'
    BY <1>1, <1>5 DEF TInv, QueryTypes, local
  <2>2. SpreadTypes' /\ BatchTypes'
    BY <1>5, SpreadStays, BatchStays DEF TInv, local
  <2>3. RunTypes'
    BY <1>1, <1>5, RunStays DEF TInv, Phases, run
  <2> QED BY <2>1, <2>2, <2>3 DEF TInv
<1> QED BY <1>3, <1>4, <1>5 DEF Answer, AnswerRaises

LEMMA DiagnoseTypes == ASSUME TInv, Diagnose PROVE TInv'
<1> DEFINE row == rows[Len(verdicts) + 1]
<1>1. /\ phase = "ask" /\ Len(verdicts) < Len(rows)
      /\ UNCHANGED <<set, store, question, phase, cached, local, trace, rows>>
      /\ \E covered, right \in BOOLEAN :
           verdicts' = Append(verdicts,
             [type |-> IF right THEN "" ELSE FailureType(row, covered), flags |-> Flags(row)])
  BY DEF Diagnose
<1>2. PICK covered \in BOOLEAN, right \in BOOLEAN :
           verdicts' = Append(verdicts,
             [type |-> IF right THEN "" ELSE FailureType(row, covered), flags |-> Flags(row)])
  BY <1>1
<1>3. [type |-> IF right THEN "" ELSE FailureType(row, covered), flags |-> Flags(row)] \in VerdictType
  BY DEF VerdictType, FailureType, Flags
<1>4. /\ verdicts \in Seq(VerdictType) /\ Len(verdicts) \in Nat /\ Len(rows) \in Nat
  BY LenProperties DEF TInv, RunTypes
<1>5. verdicts' \in Seq(VerdictType) /\ Len(verdicts') = Len(verdicts) + 1
  BY <1>2, <1>3, <1>4, AppendProperties
<1>6. RunTypes'
  <2>1. Len(verdicts') <= Len(rows')
    <3>1. rows' = rows /\ Len(verdicts) < Len(rows)
      BY <1>1
    <3>2. Len(verdicts) + 1 <= Len(rows)
      BY <1>4, <3>1
    <3> QED BY <1>5, <3>1, <3>2
  <2>2. /\ set' = set /\ store' = store /\ question' = question /\ phase' = phase /\ cached' = cached /\ rows' = rows
    BY <1>1
  <2> QED BY <1>5, <2>1, <2>2 DEF TInv, RunTypes
<1>7. QueryTypes'
  BY <1>1 DEF TInv, QueryTypes, local
<1>8. SpreadTypes' /\ BatchTypes'
  BY <1>1, SpreadStays, BatchStays DEF TInv, local
<1> QED BY <1>6, <1>7, <1>8 DEF TInv

-------------------------------------------------------------------------------
(* What trace, rows and verdicts say.                                      *)

Marked ==
  /\ trace.failed <=> trace.stop = "build_kg_context_failed"
  /\ trace.failed => trace.ents = <<>> /\ trace.evidence = 0 /\ ~trace.low /\ ~trace.high
  /\ phase # "ask" => trace.q = question
  /\ phase \notin {"ask", "answer", "raised"} => ~trace.failed
  /\ phase \notin {"ask", "evidence", "answer", "raised"} => trace.stop = ""
  /\ phase = "answer" /\ trace.failed => ~set.strict
MarkedRow(row, i) ==
  /\ row.answered => row.trace.q = i
  /\ row.trace.failed <=> row.trace.stop = "build_kg_context_failed"
  /\ row.trace.failed => ~set.strict /\ row.trace.ents = <<>> /\ row.trace.evidence = 0
  /\ row.stop \in EmptySeed <=> row.trace.stop \in EmptySeed
RowsMarked == (\A i \in DOMAIN rows : MarkedRow(rows[i], i)) /\ VerdictNamesFirst
Recalled(low, high) == 1 \in DOMAIN cached /\ cached[1].low = low /\ cached[1].high = high
KeysKept ==
  /\ set.noKeywords => phase # "keywords" /\ DOMAIN cached = {}
  /\ phase \in {"ask", "keywords"} => ~kw.low /\ ~kw.high
  /\ set.repeats =>
       /\ \A i \in DOMAIN rows : rows[i].trace.low \/ rows[i].trace.high =>
             Recalled(rows[i].trace.low, rows[i].trace.high)
       /\ phase \notin {"ask", "keywords"} =>
             IF 1 \in DOMAIN cached THEN Recalled(kw.low, kw.high) ELSE ~kw.low /\ ~kw.high
  /\ phase = "answer" /\ ~trace.failed => trace.low = kw.low /\ trace.high = kw.high
  /\ SameKeywords
LastTells(E) == stages.local # <<>> /\ stages.local[Len(stages.local)].ents = Labels(E)
DropsTold ==
  \A e \in Union.ents \ ToSet(picked.ents) :
     Label(e) \in Lost(stages.merged) \cup Labels(ToSet(picked.ents))
StagesTell ==
  /\ phase = "nodes" /\ set.spread => LastTells(ToSet(seeds))
  /\ phase \in {"evidence", "answer"} /\ ~trace.failed /\ trace.stop = "node_subgraph_empty" =>
        Labels(ToSet(seeds)) \subseteq Lost(stages.local)
  /\ phase \in {"rerank", "score"} => stages.merged = Forward(Union)
  /\ phase \in {"boost", "evidence", "answer"} /\ ~trace.failed /\ trace.stop = "" => DropsTold
  /\ ToSet(picked.ents) \subseteq store.known /\ Distinctly(picked.ents)
TellsInv == TInv /\ Marked /\ RowsMarked /\ KeysKept /\ StagesTell

LEMMA TellsImply == TellsInv => RowsTellTheRun
<1> SUFFICES ASSUME TellsInv PROVE RowsTellTheRun
  OBVIOUS
<1>1. RetrieveTypeOK
  BY TypesImply DEF TellsInv
<1>2. FailuresAreMarked
  BY DEF TellsInv, RowsMarked, MarkedRow, FailuresAreMarked
<1>3. DropsAreReported
  BY DEF TellsInv, StagesTell, DropsTold, DropsAreReported
<1> QED BY <1>1, <1>2, <1>3 DEF TellsInv, RowsMarked, KeysKept, RowsTellTheRun

LEMMA MarkedStays ==
  ASSUME Marked, UNCHANGED <<set, question, trace>>, phase \notin {"ask", "evidence", "answer", "raised"},
         phase' \notin {"ask", "answer", "raised"}
  PROVE  Marked'
BY DEF Marked

LEMMA RowsStay ==
  ASSUME RowsMarked, UNCHANGED <<set, rows, verdicts>>
  PROVE  RowsMarked'
BY DEF RowsMarked, MarkedRow, VerdictNamesFirst

LEMMA SameStays ==
  ASSUME SameKeywords, UNCHANGED <<set, rows>>
  PROVE  SameKeywords'
BY DEF SameKeywords

LEMMA KeysStay ==
  ASSUME KeysKept, UNCHANGED <<set, rows, cached, kw>>, phase \notin {"ask", "keywords"},
         phase' \notin {"ask", "keywords"},
         phase' = "answer" /\ ~trace'.failed => trace'.low = kw'.low /\ trace'.high = kw'.high
  PROVE  KeysKept'
BY SameStays DEF KeysKept, Recalled

LEMMA StagesStay ==
  ASSUME StagesTell, UNCHANGED <<store, picked>>,
         phase' \in {"ask", "keywords", "search", "weigh", "hop", "spread", "relations", "raised"}
  PROVE  StagesTell'
BY DEF StagesTell, Distinctly

\* The step to the search.
LEMMA KeysFound ==
  ASSUME KeysKept, UNCHANGED <<set, rows>>, ~set.noKeywords, phase' \in {"keywords", "search"},
         phase' = "keywords" => ~kw'.low /\ ~kw'.high,
         set.repeats => \/ 1 \in DOMAIN cached' /\ kw' = cached'[1]
                        \/ 1 \notin DOMAIN cached' /\ ~kw'.low /\ ~kw'.high,
         \/ cached' = cached
         \/ set.repeats => \A i \in DOMAIN rows : ~rows[i].trace.low /\ ~rows[i].trace.high
  PROVE  KeysKept'
<1>1. SameKeywords'
  BY SameStays DEF KeysKept
<1>2. set.repeats => \A i \in DOMAIN rows : rows[i].trace.low \/ rows[i].trace.high =>
                        /\ 1 \in DOMAIN cached'
                        /\ cached'[1].low = rows[i].trace.low /\ cached'[1].high = rows[i].trace.high
  BY DEF KeysKept, Recalled
<1>3. set.repeats => IF 1 \in DOMAIN cached' THEN cached'[1].low = kw'.low /\ cached'[1].high = kw'.high
                     ELSE ~kw'.low /\ ~kw'.high
  OBVIOUS
<1> QED BY <1>1, <1>2, <1>3 DEF KeysKept, Recalled

\* The steps that change neither trace nor rows.
LEMMA SilentStays ==
  ASSUME TellsInv, UNCHANGED <<run, trace, kw>>, phase \in Phases \ {"ask", "keywords", "evidence", "answer", "raised"},
         phase' \in Phases \ {"ask", "keywords", "answer", "raised"}
  PROVE  Marked' /\ RowsMarked' /\ KeysKept'
<1>1. UNCHANGED <<set, question, trace, rows, verdicts, cached, kw>>
  BY DEF run
<1>2. Marked'
  BY <1>1, MarkedStays DEF TellsInv
<1>3. RowsMarked'
  BY <1>1, RowsStay DEF TellsInv
<1>4. KeysKept'
  BY <1>1, KeysStay DEF TellsInv
<1> QED BY <1>2, <1>3, <1>4

LEMMA AskTells == ASSUME TellsInv, Ask PROVE Marked' /\ RowsMarked' /\ KeysKept' /\ StagesTell'
<1>1. /\ UNCHANGED <<run, local>> /\ phase = "ask" /\ phase' = IF set.noKeywords THEN "search" ELSE "keywords"
      /\ trace' = [NoTrace EXCEPT !.q = question]
  BY DEF Ask
<1>2. /\ UNCHANGED <<set, store, question, rows, verdicts, cached, kw, picked>>
      /\ trace'.q = question /\ ~trace'.failed /\ trace'.stop = ""
  BY <1>1 DEF run, local, NoTrace
<1>3. Marked'
  BY <1>1, <1>2 DEF Marked
<1>4. RowsMarked'
  BY <1>2, RowsStay DEF TellsInv
<1>5. KeysKept'
  <2>1. SameKeywords'
    BY <1>2, SameStays DEF TellsInv, KeysKept
  <2>2. phase' = "search" => set.noKeywords
    BY <1>1
  <2> QED BY <1>1, <1>2, <2>1, <2>2 DEF TellsInv, KeysKept, Recalled
<1>6. StagesTell'
  BY <1>1, <1>2, StagesStay DEF TellsInv
<1> QED BY <1>3, <1>4, <1>5, <1>6

LEMMA KeywordsTell ==
  ASSUME TellsInv, KeywordsFromCache \/ KeywordsFromModel
  PROVE  Marked' /\ RowsMarked' /\ KeysKept' /\ StagesTell'
<1>1. /\ UNCHANGED <<set, store, question, rows, verdicts, seeds, sa, pool, batch, scoring, picked, stages, trace>>
      /\ phase = "keywords" /\ phase' \in {"keywords", "search"}
  BY DEF KeywordsFromCache, KeywordsFromModel, run
<1>2. Marked'
  BY <1>1, MarkedStays DEF TellsInv
<1>3. RowsMarked'
  BY <1>1, RowsStay DEF TellsInv
<1>4. StagesTell'
  BY <1>1, StagesStay DEF TellsInv
<1>5. KeysKept /\ ~set.noKeywords /\ ~kw.low /\ ~kw.high /\ kw \in KeywordType
  BY <1>1 DEF TellsInv, KeysKept, TInv, QueryTypes
<1>7. set.repeats => Prompt(question) = 1
  BY DEF Prompt
<1>8. CASE KeywordsFromCache
  <2>1. CacheHit /\ kw' = cached[Prompt(question)] /\ phase' = "search" /\ cached' = cached
    BY <1>8 DEF KeywordsFromCache, run
  <2>2. set.repeats => 1 \in DOMAIN cached /\ kw' = cached[1]
    BY <1>7, <2>1 DEF CacheHit
  <2> QED BY <1>1, <1>2, <1>3, <1>4, <1>5, <2>1, <2>2, KeysFound
<1>9. CASE KeywordsFromModel
  <2>1. PICK low \in BOOLEAN, high \in BOOLEAN :
            LET both == [tries |-> 0, low |-> low, high |-> high]
            IN  IF low \/ high
                THEN kw' = both /\ cached' = [i \in DOMAIN cached \cup {Prompt(question)} |->
                                                 IF i = Prompt(question) THEN both ELSE cached[i]]
                ELSE kw' = [kw EXCEPT !.tries = @ + 1] /\ cached' = cached
    BY <1>9 DEF KeywordsFromModel
  <2>2. ~CacheHit /\ phase' = IF kw'.tries \in 1 .. (MaxAttempts - 1) THEN "keywords" ELSE "search"
    BY <1>9 DEF KeywordsFromModel
  <2>3. set.repeats => 1 \notin DOMAIN cached
    BY <1>7, <2>2 DEF CacheHit
  <2>4. CASE low \/ high
    <3> DEFINE both == [tries |-> 0, low |-> low, high |-> high]
    <3>1. kw' = both /\ cached' = [i \in DOMAIN cached \cup {Prompt(question)} |->
                                     IF i = Prompt(question) THEN both ELSE cached[i]]
      BY <2>1, <2>4
    <3>2. kw'.tries = 0 /\ phase' = "search"
      BY <2>2, <3>1, NumbersAssumption
    <3>3. set.repeats => 1 \in DOMAIN cached' /\ cached'[1] = kw'
      BY <1>7, <3>1
    <3>4. set.repeats => \A i \in DOMAIN rows : ~rows[i].trace.low /\ ~rows[i].trace.high
      BY <1>5, <2>3 DEF KeysKept, Recalled
    <3> HIDE DEF both
    <3> QED BY <1>1, <1>2, <1>3, <1>4, <1>5, <3>2, <3>3, <3>4, KeysFound
  <2>5. CASE ~(low \/ high)
    <3>1. cached' = cached /\ kw' = [kw EXCEPT !.tries = @ + 1]
      BY <2>1, <2>5
    <3>2. ~kw'.low /\ ~kw'.high
      BY <1>5, <3>1 DEF KeywordType
    <3> QED BY <1>1, <1>2, <1>3, <1>4, <1>5, <2>3, <3>1, <3>2, KeysFound
  <2> QED BY <2>4, <2>5
<1> QED BY <1>2, <1>3, <1>4, <1>8, <1>9

LEMMA SearchTells == ASSUME TellsInv, SearchEntities PROVE Marked' /\ RowsMarked' /\ KeysKept' /\ StagesTell'
<1>1. /\ phase = "search" /\ UNCHANGED <<run, kw, sa, pool, batch, scoring, picked>>
      /\ \/ trace' = [trace EXCEPT !.stop = "no_entity_hits"] /\ phase' = "evidence"
         \/ trace' = trace /\ phase' = IF set.spread THEN "weigh" ELSE "nodes"
  BY DEF SearchEntities
<1>2. UNCHANGED <<set, store, question, rows, verdicts, cached, kw, picked>>
  BY <1>1 DEF run
<1>3. trace \in TraceType /\ Marked /\ KeysKept /\ RowsMarked /\ StagesTell
  BY DEF TellsInv, TInv, QueryTypes
<1>4. RowsMarked'
  BY <1>2, <1>3, RowsStay
<1>5. KeysKept'
  BY <1>1, <1>2, <1>3, KeysStay
<1>6. CASE trace' = [trace EXCEPT !.stop = "no_entity_hits"] /\ phase' = "evidence"
  <2>1. trace'.stop = "no_entity_hits" /\ trace'.failed = trace.failed /\ trace'.q = trace.q /\ ~trace.failed
    BY <1>1, <1>3, <1>6 DEF TraceType, Marked
  <2>2. Marked'
    BY <1>1, <1>2, <1>3, <1>6, <2>1 DEF Marked
  <2>3. StagesTell'
    BY <1>2, <1>3, <1>6, <2>1 DEF StagesTell, Distinctly
  <2> QED BY <1>4, <1>5, <2>2, <2>3
<1>7. CASE trace' = trace /\ phase' = IF set.spread THEN "weigh" ELSE "nodes"
  <2>1. Marked'
    BY <1>1, <1>2, <1>3, <1>7, MarkedStays
  <2>2. phase' \in {"weigh", "nodes"} /\ (phase' = "nodes" => ~set.spread)
    BY <1>7
  <2>3. StagesTell'
    BY <1>2, <1>3, <2>2 DEF StagesTell, Distinctly
  <2> QED BY <1>4, <1>5, <2>1, <2>3
<1> QED BY <1>1, <1>6, <1>7

LEMMA WalkTells ==
  ASSUME TellsInv, Weigh \/ Hop \/ StartSpreading \/ Spread
  PROVE  Marked' /\ RowsMarked' /\ KeysKept' /\ StagesTell'
<1>1. /\ phase \in {"weigh", "hop", "spread"} /\ phase' \in {"hop", "spread"}
      /\ UNCHANGED <<run, kw, seeds, pool, batch, scoring, picked, stages, trace>>
  BY DEF Weigh, Hop, StartSpreading, Spread
<1>2. Marked' /\ RowsMarked' /\ KeysKept'
  BY <1>1, SilentStays DEF Phases
<1>3. StagesTell'
  BY <1>1, StagesStay DEF TellsInv, run
<1> QED BY <1>2, <1>3

LEMMA EndSpreadingTells ==
  ASSUME TellsInv, EndSpreading
  PROVE  Marked' /\ RowsMarked' /\ KeysKept' /\ StagesTell'
<1> DEFINE st == Stage("sa_activated_seeds", Labels(ToSet(seeds')), {}, "")
<1>1. /\ phase = "spread" /\ phase' = "nodes" /\ stages' = Traced("local", st)
      /\ UNCHANGED <<run, kw, sa, pool, batch, scoring, picked, trace>>
  BY DEF EndSpreading
<1>2. Marked' /\ RowsMarked' /\ KeysKept'
  BY <1>1, SilentStays DEF Phases
<1>3. stages \in StagesType /\ store' = store
  BY <1>1 DEF TellsInv, TInv, QueryTypes, StagesType, run
<1>4. stages'.local = Append(stages.local, st) /\ stages.local \in Seq(StageType)
  BY <1>1, <1>3 DEF Traced, StagesType
<1>5. st.ents = Labels(ToSet(seeds'))
  BY DEF Stage
<1>6. /\ Len(stages.local) \in Nat /\ Len(stages'.local) = Len(stages.local) + 1
      /\ stages'.local[Len(stages.local) + 1] = st /\ stages'.local # <<>>
  <2> HIDE DEF st
  <2> DEFINE T == StageType \cup {st}
  <2>1. stages.local \in Seq(T) /\ st \in T
    BY <1>4, Holds, ToSetIn
  <2> HIDE DEF T
  <2>2. /\ Len(stages.local) \in Nat /\ Append(stages.local, st) \in Seq(T)
        /\ Len(Append(stages.local, st)) = Len(stages.local) + 1
        /\ Append(stages.local, st)[Len(stages.local) + 1] = st
    BY <2>1, AppendProperties, LenProperties
  <2>3. Len(<<>>) = 0 /\ Len(stages.local) + 1 # 0
    BY <2>2, EmptySeq
  <2> QED BY <1>4, <2>2, <2>3
<1>7. LastTells(ToSet(seeds))'
  <2>1. Labels(ToSet(seeds))' = Labels(ToSet(seeds'))
    BY <1>3 DEF Labels, Label
  <2> QED BY <1>5, <1>6, <2>1 DEF LastTells
<1>8. StagesTell'
  BY <1>1, <1>3, <1>7 DEF TellsInv, StagesTell, Distinctly
<1> QED BY <1>2, <1>8

-------------------------------------------------------------------------------
(* What the stages say.                                                    *)

LEMMA LostHolds ==
  ASSUME NEW s, NEW i \in 1 .. Len(s) - 1
  PROVE  s[i].ents \ s[i + 1].ents \subseteq Lost(s)
BY DEF Lost

\* A last stage, and what is lost at it.
LEMMA LostAtLast ==
  ASSUME NEW T, NEW s \in Seq(T), NEW st \in T, s # <<>>
  PROVE  s[Len(s)].ents \ st.ents \subseteq Lost(Append(s, st))
<1> DEFINE t == Append(s, st)
<1>1. /\ Len(s) \in Nat /\ Len(t) = Len(s) + 1 /\ t[Len(s) + 1] = st /\ \A i \in 1 .. Len(s) : t[i] = s[i]
  BY AppendProperties, LenProperties
<1>2. Len(s) >= 1
  BY <1>1, EmptySeq
<1> HIDE DEF t
<1>3. Len(s) \in 1 .. Len(t) - 1 /\ t[Len(s)] = s[Len(s)]
  BY <1>1, <1>2
<1>4. t[Len(s)].ents \ t[Len(s) + 1].ents \subseteq Lost(t)
  BY <1>3, LostHolds
<1> QED BY <1>1, <1>3, <1>4 DEF t

LEMMA NodesTell == ASSUME TellsInv, NodeSubgraph PROVE Marked' /\ RowsMarked' /\ KeysKept' /\ StagesTell'
<1> DEFINE ids == ToSet(seeds)
           st == Stage("sa_activated_seeds", Labels(ids), {}, "disabled")
           before == IF set.spread THEN stages ELSE Traced("local", st)
           nodes == ids \cap (store.nodes \cup store.known)
           none == Stage("node_subgraph", {}, {}, "empty_after_cache_fallback")
<1>1. /\ phase = "nodes" /\ UNCHANGED <<run, kw, seeds, sa, batch, scoring, picked>>
      /\ \/ /\ stages' = [before EXCEPT !.local = Append(@, none)]
            /\ trace' = [trace EXCEPT !.stop = "node_subgraph_empty"]
            /\ phase' = "evidence"
         \/ phase' = "relations" /\ trace' = trace
  BY DEF NodeSubgraph
<1>2. UNCHANGED <<set, store, question, rows, verdicts, cached, kw, picked, seeds>>
  BY <1>1 DEF run
<1>3. /\ trace \in TraceType /\ Marked /\ KeysKept /\ RowsMarked /\ StagesTell
      /\ stages \in StagesType /\ seeds \in Seq(Ents) /\ store \in Stores
  BY DEF TellsInv, TInv, QueryTypes, RunTypes, StagesType
<1>4. RowsMarked'
  BY <1>2, <1>3, RowsStay
<1>5. KeysKept'
  BY <1>1, <1>2, <1>3, KeysStay
<1>6. CASE phase' = "relations" /\ trace' = trace
  <2>1. Marked'
    BY <1>1, <1>2, <1>3, <1>6, MarkedStays
  <2>2. StagesTell'
    BY <1>2, <1>3, <1>6, StagesStay
  <2> QED BY <1>4, <1>5, <2>1, <2>2
<1>7. CASE /\ stages' = [before EXCEPT !.local = Append(@, none)]
           /\ trace' = [trace EXCEPT !.stop = "node_subgraph_empty"]
           /\ phase' = "evidence"
  <2>1. trace'.stop = "node_subgraph_empty" /\ trace'.failed = trace.failed /\ trace'.q = trace.q /\ ~trace.failed
    BY <1>1, <1>3, <1>7 DEF TraceType, Marked
  <2>2. Marked'
    BY <1>1, <1>2, <1>3, <1>7, <2>1 DEF Marked
  <2>3. st \in StageType /\ none \in StageType /\ st.ents = Labels(ids) /\ none.ents = {}
    <3>1. Labels(ids) \in SUBSET LabelRange /\ {} \in SUBSET Rels /\ {} \in SUBSET LabelRange
      BY <1>3, ToSetIn, WalkHolds
    <3> HIDE DEF ids
    <3>2. st \in StageType /\ none \in StageType
      BY <3>1, StageHolds
    <3>3. st.ents = Labels(ids) /\ none.ents = {}
      BY DEF Stage
    <3> QED BY <3>2, <3>3
  <2> HIDE DEF st, none, ids
  <2>4. before \in StagesType /\ before.local # <<>> /\ before.local[Len(before.local)].ents = Labels(ids)
    <3>1. CASE set.spread
      BY <1>1, <1>3, <3>1 DEF StagesTell, LastTells, ids
    <3>2. CASE ~set.spread
      <4>1. before = Traced("local", st)
        BY <3>2
      <4>2. before \in StagesType /\ before.local = Append(stages.local, st) /\ stages.local \in Seq(StageType)
        BY <1>3, <2>3, <4>1, TracedHolds DEF StagesType
      <4> HIDE DEF before
      <4>3. /\ Len(stages.local) \in Nat /\ Len(before.local) = Len(stages.local) + 1
            /\ before.local[Len(stages.local) + 1] = st
        BY <2>3, <4>2, AppendProperties, LenProperties
      <4>4. before.local # <<>>
        BY <4>3, EmptySeq
      <4> QED BY <2>3, <4>2, <4>3, <4>4
    <3> QED BY <3>1, <3>2
  <2> HIDE DEF before
  <2>5. stages'.local = Append(before.local, none) /\ before.local \in Seq(StageType)
    BY <1>7, <2>4 DEF StagesType
  <2>6. Labels(ids) \ {} \subseteq Lost(stages'.local)
    BY <2>3, <2>4, <2>5, LostAtLast
  <2>7. Labels(ToSet(seeds))' = Labels(ids)
    BY <1>2 DEF Labels, Label, ids
  <2>8. StagesTell'
    <3>1. Labels(ToSet(seeds))' \subseteq Lost(stages'.local)
      BY <2>6, <2>7
    <3>2. Lost(stages.local)' = Lost(stages'.local)
      BY DEF Lost
    <3> QED BY <1>2, <1>3, <1>7, <2>1, <3>1, <3>2 DEF StagesTell, Distinctly
  <2> QED BY <1>4, <1>5, <2>2, <2>8
<1> QED BY <1>1, <1>6, <1>7

LEMMA ForwardNext ==
  ASSUME UNCHANGED <<store, pool>>
  PROVE  Forward(Union)' = Forward(Union)
BY DEF Forward, Union, Labels, Label

LEMMA RelationsTell == ASSUME TellsInv, SearchRelations PROVE Marked' /\ RowsMarked' /\ KeysKept' /\ StagesTell'
<1>1. PICK hits \in RelationHits :
       LET edges == hits \cap Held
           all == [ents |-> pool.local.ents \cup EndsOf(edges), rels |-> pool.local.rels \cup edges]
       IN  /\ pool' = [pool EXCEPT !.global = [ents |-> EndsOf(edges), rels |-> edges]]
           /\ stages' =
                [stages EXCEPT
                   !.global = <<Stage("relationship_seeds", Labels(EndsOf(hits \cap store.relKnown)), hits, ""),
                                Stage("edge_subgraph", {NameOf[e] : e \in EndsOf(edges)}, edges,
                                      IF hits = {} THEN "no_relationship_ids" ELSE "")>>,
                   !.merged = Forward(all)]
  BY DEF SearchRelations
<1>2. /\ phase = "relations" /\ phase' = "rerank" /\ UNCHANGED <<run, kw, seeds, sa, batch, scoring, picked, trace>>
  BY DEF SearchRelations
<1>3. Marked' /\ RowsMarked' /\ KeysKept'
  BY <1>2, SilentStays DEF Phases
<1>4. store' = store /\ stages \in StagesType /\ pool \in [local : PoolType, global : PoolType] /\ StagesTell
  BY <1>2 DEF TellsInv, TInv, QueryTypes, StagesType, run
<1> DEFINE edges == hits \cap Held
           all == [ents |-> pool.local.ents \cup EndsOf(edges), rels |-> pool.local.rels \cup edges]
<1>5. stages'.merged = Forward(all)
  BY <1>1, <1>4 DEF StagesType
<1>6. pool'.local = pool.local /\ pool'.global = [ents |-> EndsOf(edges), rels |-> edges]
  BY <1>1, <1>4
<1> HIDE DEF edges
<1>7. Union' = all
  BY <1>6 DEF Union
<1> HIDE DEF all
<1>8. Forward(Union)' = Forward(all)
  BY <1>4, <1>7 DEF Forward, Labels, Label
<1>9. stages'.merged = Forward(Union)'
  BY <1>5, <1>8
<1>10. StagesTell'
  BY <1>2, <1>4, <1>9 DEF StagesTell, Distinctly
<1> QED BY <1>3, <1>10

LEMMA ScoreTells ==
  ASSUME TellsInv, Rerank \/ ScoreBatch \/ SelectEntities
  PROVE  Marked' /\ RowsMarked' /\ KeysKept' /\ StagesTell'
<1>1. /\ phase \in {"rerank", "score"} /\ phase' = "score"
      /\ UNCHANGED <<run, kw, seeds, sa, pool, stages, trace>>
  BY DEF Rerank, ScoreBatch, SelectEntities
<1>2. Marked' /\ RowsMarked' /\ KeysKept'
  BY <1>1, SilentStays DEF Phases
<1>3. UNCHANGED <<store, pool, stages>> /\ StagesTell /\ store \in Stores
  BY <1>1 DEF TellsInv, TInv, RunTypes, run
<1>4. stages'.merged = Forward(Union)'
  BY <1>1, <1>3, ForwardNext DEF StagesTell
<1>5. ToSet(picked'.ents) \subseteq store.known /\ Distinctly(picked'.ents)
  <2>1. CASE Rerank \/ ScoreBatch
    BY <1>3, <2>1 DEF Rerank, ScoreBatch, StagesTell
  <2>2. CASE SelectEntities
    <3> DEFINE b == BestOf(Documents("ents"), batch.out, TopE)
    <3>1. /\ phase = "score" /\ batch.kind = "ents" /\ Len(batch.out) = Len(Documents("ents"))
          /\ picked' = [picked EXCEPT !.ents = b]
      BY <2>2 DEF SelectEntities
    <3>2. Scoring /\ picked \in [ents : Seq(Ents), rels : Seq(Rels)]
      BY <3>1 DEF TellsInv, TInv, BatchTypes
    <3>3. ToSet(b) \subseteq Union.ents \cap store.known /\ Distinctly(b)
      BY <1>3, <3>1, <3>2, NumbersAssumption, ChosenHolds
    <3> HIDE DEF b
    <3>4. picked'.ents = b
      BY <3>1, <3>2
    <3> QED BY <3>3, <3>4
  <2> QED BY <2>1, <2>2
<1>6. StagesTell'
  <2>1. Distinctly(picked.ents)' /\ ToSet(picked.ents)' \subseteq store'.known
    BY <1>3, <1>5 DEF Distinctly
  <2> QED BY <1>1, <1>4, <2>1 DEF StagesTell
<1> QED BY <1>2, <1>6

LEMMA PairHolds ==
  \A T : \A a, b \in T : <<a, b>> \in Seq(T) /\ Len(<<a, b>>) = 2 /\ <<a, b>>[2] = b
OBVIOUS

\* Who was a candidate and is not selected was lost between the last two stages.
LEMMA DropsAreTold ==
  ASSUME NEW E, NEW R, NEW P, NEW m, NEW st,
         m = <<Stage("union_candidates", E, R, ""), Stage("filtered", E, R, "")>>,
         st.ents = P
  PROVE  E \subseteq Lost(Append(m, st)) \cup P
<1> DEFINE a == Stage("union_candidates", E, R, "")
           b == Stage("filtered", E, R, "")
           T == {a, b, st}
<1>1. m \in Seq(T) /\ m # <<>> /\ Len(m) = 2 /\ m[2] = b /\ st \in T
  <2>1. <<a, b>> \in Seq(T) /\ Len(<<a, b>>) = 2 /\ <<a, b>>[2] = b
    <3>1. a \in T /\ b \in T
      OBVIOUS
    <3> HIDE DEF a, b, T
    <3> QED BY ONLY <3>1, PairHolds
  <2>2. m = <<a, b>>
    OBVIOUS
  <2> HIDE DEF a, b, T
  <2>3. m # <<>>
    BY <2>1, <2>2, EmptySeq
  <2> QED BY <2>1, <2>2, <2>3 DEF T
<1>2. b.ents = E
  BY DEF Stage
<1> HIDE DEF a, b, T
<1>3. m[Len(m)].ents \ st.ents \subseteq Lost(Append(m, st))
  <2>1. m \in Seq(T) /\ m # <<>> /\ st \in T
    BY <1>1
  <2> QED BY ONLY <2>1, LostAtLast
<1> QED BY <1>1, <1>2, <1>3

LEMMA SelectRelationsTell ==
  ASSUME TellsInv, SelectRelations
  PROVE  Marked' /\ RowsMarked' /\ KeysKept' /\ StagesTell'
<1> DEFINE s == picked.ents
           st == Stage("reranker_final", Labels(ToSet(s)), ToSet(picked'.rels), "")
<1>1. /\ phase = "score" /\ phase' = "boost" /\ picked'.ents = InContext(s)
      /\ stages' = Traced("merged", st)
      /\ UNCHANGED <<run, kw, seeds, sa, pool, scoring, trace>>
  BY DEF SelectRelations
<1>2. Marked' /\ RowsMarked' /\ KeysKept'
  BY <1>1, SilentStays DEF Phases
<1>3. /\ UNCHANGED <<store, pool>> /\ StagesTell /\ stages \in StagesType
      /\ picked \in [ents : Seq(Ents), rels : Seq(Rels)]
  BY <1>1 DEF TellsInv, TInv, QueryTypes, StagesType, BatchTypes, run
<1>4. s \in Seq(Ents) /\ ToSet(s) \subseteq store.known /\ Distinctly(s)
  BY <1>3 DEF StagesTell
<1> HIDE DEF s
<1>5. ToSet(picked'.ents) = ToSet(s) /\ Distinctly(picked'.ents)
  <2>1. ToSet(InContext(s)) = ToSet(s)
    BY <1>4, ContextHolds
  <2>2. {i \in DOMAIN s : s[i] \in store.known} \in SUBSET (DOMAIN s)
    OBVIOUS
  <2>3. Distinctly(InContext(s))
    BY <1>4, <2>2, FilterDistinct DEF InContext
  <2> QED BY <1>1, <2>1, <2>3
<1>6. stages'.merged = Append(Forward(Union), st)
  BY <1>1, <1>3 DEF StagesTell, Traced, StagesType
<1>7. st.ents = Labels(ToSet(s))
  BY DEF Stage
<1> HIDE DEF st
<1>8. Labels(Union.ents) \subseteq Lost(stages'.merged) \cup Labels(ToSet(s))
  <2>1. Forward(Union) = <<Stage("union_candidates", Labels(Union.ents), Union.rels, ""),
                           Stage("filtered", Labels(Union.ents), Union.rels, "")>>
    BY DEF Forward
  <2> QED BY <1>6, <1>7, <2>1, DropsAreTold
<1>9. DropsTold'
  <2>1. Union' = Union
    BY <1>3 DEF Union
  <2>2. \A e : Label(e)' = Label(e)
    BY <1>3 DEF Label
  <2>3. Labels(ToSet(picked.ents))' = Labels(ToSet(s))
    BY <1>3, <1>5 DEF Labels, Label
  <2>4. \A e \in Union.ents : Label(e) \in Labels(Union.ents)
    BY DEF Labels
  <2>5. Lost(stages.merged)' = Lost(stages'.merged)
    BY DEF Lost
  <2> QED BY <1>8, <2>1, <2>2, <2>3, <2>4, <2>5 DEF DropsTold
<1>10. StagesTell'
  <2>1. Distinctly(picked.ents)' /\ ToSet(picked.ents)' \subseteq store'.known
    BY <1>3, <1>4, <1>5 DEF Distinctly
  <2> QED BY <1>1, <1>9, <2>1 DEF StagesTell
<1> QED BY <1>2, <1>10

-------------------------------------------------------------------------------
(* The answer, its row and the diagnosis.                                  *)

LEMMA DropsStay ==
  ASSUME DropsTold, UNCHANGED <<store, pool, stages>>, ToSet(picked'.ents) = ToSet(picked.ents)
  PROVE  DropsTold'
<1>1. Union' = Union
  BY DEF Union
<1>2. \A e : Label(e)' = Label(e)
  BY DEF Label
<1>3. Labels(ToSet(picked.ents))' = Labels(ToSet(picked.ents))
  BY DEF Labels, Label
<1>4. Lost(stages.merged)' = Lost(stages.merged)
  BY DEF Lost
<1> QED BY <1>1, <1>2, <1>3, <1>4 DEF DropsTold

LEMMA BoostTells == ASSUME TellsInv, Boost PROVE Marked' /\ RowsMarked' /\ KeysKept' /\ StagesTell'
<1>1. /\ phase = "boost" /\ phase' = "evidence"
      /\ UNCHANGED <<run, kw, seeds, sa, pool, batch, scoring, stages, trace>>
      /\ \E inside : picked' = [picked EXCEPT !.ents = Boosted(@, inside)]
  BY DEF Boost
<1>2. PICK inside : picked' = [picked EXCEPT !.ents = Boosted(@, inside)]
  BY <1>1
<1>3. Marked' /\ RowsMarked' /\ KeysKept'
  BY <1>1, SilentStays DEF Phases
<1>4. /\ UNCHANGED <<store, pool, stages, trace>> /\ StagesTell /\ Marked
      /\ picked \in [ents : Seq(Ents), rels : Seq(Rels)]
  BY <1>1 DEF TellsInv, TInv, BatchTypes, run
<1>5. ToSet(picked'.ents) = ToSet(picked.ents) /\ Distinctly(picked'.ents)
  <2>1. picked.ents \in Seq(Ents) /\ Distinctly(picked.ents)
    BY <1>4 DEF StagesTell
  <2>2. ToSet(Boosted(picked.ents, inside)) = ToSet(picked.ents) /\ Distinctly(Boosted(picked.ents, inside))
    BY <2>1, BoostedHolds
  <2>3. picked'.ents = Boosted(picked.ents, inside)
    BY <1>2, <1>4
  <2> QED BY <2>2, <2>3
<1>6. trace.stop = "" /\ ~trace.failed /\ DropsTold
  BY <1>1, <1>4 DEF StagesTell, Marked
<1>7. StagesTell'
  <2>1. DropsTold'
    BY <1>4, <1>5, <1>6, DropsStay
  <2>2. Distinctly(picked.ents)' /\ ToSet(picked.ents)' \subseteq store'.known
    BY <1>4, <1>5 DEF StagesTell, Distinctly
  <2> QED BY <1>1, <1>4, <1>6, <2>1, <2>2 DEF StagesTell
<1> QED BY <1>3, <1>7

LEMMA EvidenceTells == ASSUME TellsInv, BuildEvidence PROVE Marked' /\ RowsMarked' /\ KeysKept' /\ StagesTell'
<1> DEFINE shown == IF set.noGraph THEN [ents |-> <<>>, rels |-> <<>>] ELSE picked
           tags == IF set.noGraph \/ set.noText THEN {} ELSE Tags
<1>1. /\ phase = "evidence" /\ phase' = "answer" /\ UNCHANGED <<run, local>>
      /\ \E n \in {0, 1} :
           trace' = [trace EXCEPT !.ents = shown.ents, !.rels = shown.rels, !.evidence = n, !.tags = tags,
                                  !.low = kw.low, !.high = kw.high]
  BY DEF BuildEvidence
<1>2. PICK n \in {0, 1} :
           trace' = [trace EXCEPT !.ents = shown.ents, !.rels = shown.rels, !.evidence = n, !.tags = tags,
                                  !.low = kw.low, !.high = kw.high]
  BY <1>1
<1> HIDE DEF shown, tags
<1>3. /\ trace \in TraceType /\ Marked /\ KeysKept /\ RowsMarked /\ StagesTell
  BY DEF TellsInv, TInv, QueryTypes
<1>4. /\ trace'.q = trace.q /\ trace'.failed = trace.failed /\ trace'.stop = trace.stop
      /\ trace'.low = kw.low /\ trace'.high = kw.high
  BY <1>2, <1>3 DEF TraceType
<1>5. UNCHANGED <<set, store, question, rows, verdicts, cached, kw, picked, seeds, pool, stages>>
  BY <1>1 DEF run, local
<1>6. ~trace.failed
  BY <1>1, <1>3 DEF Marked
<1>7. Marked'
  BY <1>1, <1>3, <1>4, <1>5, <1>6 DEF Marked
<1>8. RowsMarked'
  BY <1>3, <1>5, RowsStay
<1>9. KeysKept'
  BY <1>1, <1>3, <1>4, <1>5, KeysStay
<1>10. StagesTell'
  <2>1. Labels(ToSet(seeds))' = Labels(ToSet(seeds)) /\ Lost(stages.local)' = Lost(stages.local)
    BY <1>5 DEF Labels, Label, Lost
  <2>2. DropsTold => DropsTold'
    BY <1>5, DropsStay
  <2>3. Distinctly(picked.ents)' /\ ToSet(picked.ents)' \subseteq store'.known
    BY <1>3, <1>5 DEF StagesTell, Distinctly
  <2> QED BY <1>1, <1>3, <1>4, <2>1, <2>2, <2>3 DEF StagesTell
<1> QED BY <1>7, <1>8, <1>9, <1>10

LEMMA RaiseTells == ASSUME TellsInv, RetrievalRaises PROVE Marked' /\ RowsMarked' /\ KeysKept' /\ StagesTell'
<1>1. /\ phase \in Remote /\ phase' = (IF set.strict THEN "raised" ELSE "answer") /\ UNCHANGED <<run, local>>
      /\ trace' = [NoTrace EXCEPT !.q = question, !.failed = TRUE, !.stop = "build_kg_context_failed"]
  BY DEF RetrievalRaises
<1>2. UNCHANGED <<set, store, question, rows, verdicts, cached, kw, picked>>
  BY <1>1 DEF run, local
<1>3. KeysKept /\ RowsMarked /\ StagesTell
  BY DEF TellsInv
<1>4. /\ trace'.q = question /\ trace'.failed /\ trace'.stop = "build_kg_context_failed"
      /\ trace'.ents = <<>> /\ trace'.evidence = 0 /\ ~trace'.low /\ ~trace'.high
  BY <1>1 DEF NoTrace
<1>5. phase' \in {"raised", "answer"} /\ (phase' = "answer" => ~set.strict) /\ phase \notin {"ask", "keywords"}
  BY <1>1 DEF Remote
<1>6. Marked'
  BY <1>2, <1>4, <1>5 DEF Marked
<1>7. RowsMarked'
  BY <1>2, <1>3, RowsStay
<1>8. KeysKept'
  BY <1>2, <1>3, <1>4, <1>5, KeysStay
<1>9. StagesTell'
  BY <1>2, <1>3, <1>4, <1>5 DEF StagesTell, Distinctly
<1> QED BY <1>6, <1>7, <1>8, <1>9

LEMMA EmptyHolds == ToSet(<<>>) = {} /\ Distinctly(<<>>)
<1>1. <<>> \in Seq(Ents) /\ Len(<<>>) = 0
  BY EmptySeq
<1>2. ToSet(<<>>) = {}
  BY <1>1, Holds
<1>3. Distinctly(<<>>)
  BY <1>1 DEF Distinctly
<1> QED BY <1>2, <1>3

\* A question ends with a row: it is marked, and recalls what is kept.
LEMMA EndTells ==
  ASSUME TellsInv, phase = "answer", NEW row \in RowType, EndQuestion(row),
         UNCHANGED <<set, store, cached, trace, verdicts>>,
         MarkedRow(row, question), row.trace.q \in {0, question},
         set.repeats => \/ ~row.trace.low /\ ~row.trace.high
                        \/ Recalled(row.trace.low, row.trace.high),
         set.repeats /\ row.trace.q = question /\ ~row.trace.failed /\ 1 \in DOMAIN cached =>
            Recalled(row.trace.low, row.trace.high)
  PROVE  Marked' /\ RowsMarked' /\ KeysKept' /\ StagesTell'
<1>1. /\ rows' = Append(rows, row) /\ question' = question + 1 /\ phase' = "ask"
      /\ kw' = NoKeywords /\ picked' = [ents |-> <<>>, rels |-> <<>>]
  BY DEF EndQuestion
<1>2. /\ rows \in Seq(RowType) /\ Len(rows) = question - 1 /\ Len(rows) \in Nat /\ question \in Nat \ {0}
      /\ verdicts \in Seq(VerdictType) /\ Len(verdicts) <= Len(rows) /\ Len(verdicts) \in Nat
  BY LenProperties, NumbersAssumption DEF TellsInv, TInv, RunTypes
<1>3. /\ Len(rows') = question /\ DOMAIN rows' = 1 .. question /\ DOMAIN rows = 1 .. question - 1
      /\ rows'[question] = row /\ \A i \in 1 .. question - 1 : rows'[i] = rows[i]
  <2>1. /\ Len(rows') = Len(rows) + 1 /\ rows' \in Seq(RowType) /\ rows'[Len(rows) + 1] = row
        /\ \A i \in 1 .. Len(rows) : rows'[i] = rows[i]
    BY <1>1, <1>2, AppendProperties
  <2>2. Len(rows) + 1 = question
    BY <1>2
  <2>3. DOMAIN rows' = 1 .. Len(rows') /\ DOMAIN rows = 1 .. Len(rows)
    BY <1>2, <2>1, LenProperties
  <2> QED BY <1>2, <2>1, <2>2, <2>3
<1>4. \A i \in 1 .. question : i \in 1 .. question - 1 \/ i = question
  BY <1>2
<1>5. RowsMarked /\ KeysKept /\ Marked
  BY DEF TellsInv
<1>6. Marked'
  BY <1>1, <1>5 DEF Marked
<1>7. RowsMarked'
  <2>1. \A i \in DOMAIN rows' : MarkedRow(rows'[i], i)
    <3> TAKE i \in DOMAIN rows'
    <3>1. CASE i = question
      BY <1>3, <3>1
    <3>2. CASE i \in 1 .. question - 1
      BY <1>3, <1>5, <3>2 DEF RowsMarked
    <3> QED BY <1>3, <1>4, <3>1, <3>2
  <2>2. VerdictNamesFirst'
    <3>1. \A i \in DOMAIN verdicts : i \in 1 .. question - 1 /\ rows'[i] = rows[i]
      <4>1. DOMAIN verdicts = 1 .. Len(verdicts)
        BY <1>2, LenProperties
      <4> QED BY <1>2, <1>3, <4>1
    <3> QED BY <1>5, <3>1 DEF RowsMarked, VerdictNamesFirst
  <2>3. (\A i \in DOMAIN rows : MarkedRow(rows[i], i))'
    BY <2>1 DEF MarkedRow
  <2> QED BY <2>2, <2>3 DEF RowsMarked
<1>8. SameKeywords'
  <2> SUFFICES ASSUME NEW i \in DOMAIN rows', NEW j \in DOMAIN rows', set.repeats, i < j,
                      rows'[j].trace.q = j, ~rows'[j].trace.failed,
                      rows'[i].trace.low \/ rows'[i].trace.high
               PROVE  <<rows'[i].trace.low, rows'[i].trace.high>> = <<rows'[j].trace.low, rows'[j].trace.high>>
    BY DEF SameKeywords
  <2>1. i \in 1 .. question - 1 /\ rows'[i] = rows[i] /\ i \in DOMAIN rows
    BY <1>2, <1>3
  <2>2. Recalled(rows[i].trace.low, rows[i].trace.high)
    BY <1>5, <2>1 DEF KeysKept
  <2>3. CASE j \in 1 .. question - 1
    <3>1. rows'[j] = rows[j] /\ j \in DOMAIN rows
      BY <1>3, <2>3
    <3> QED BY <1>5, <2>1, <3>1 DEF KeysKept, SameKeywords
  <2>4. CASE j = question
    <3>1. rows'[j] = row
      BY <1>3, <2>4
    <3>2. Recalled(row.trace.low, row.trace.high)
      BY <2>2, <2>4, <3>1 DEF Recalled
    <3> QED BY <2>1, <2>2, <3>1, <3>2 DEF Recalled
  <2> QED BY <1>3, <1>4, <2>3, <2>4
<1>9. KeysKept'
  <2>1. ~kw'.low /\ ~kw'.high
    BY <1>1 DEF NoKeywords
  <2>2. set.repeats => \A i \in DOMAIN rows' : rows'[i].trace.low \/ rows'[i].trace.high =>
           Recalled(rows'[i].trace.low, rows'[i].trace.high)
    <3> SUFFICES ASSUME set.repeats, NEW i \in DOMAIN rows', rows'[i].trace.low \/ rows'[i].trace.high
                 PROVE  Recalled(rows'[i].trace.low, rows'[i].trace.high)
      OBVIOUS
    <3>1. CASE i \in 1 .. question - 1
      BY <1>3, <1>5, <3>1 DEF KeysKept
    <3>2. CASE i = question
      BY <1>3, <3>2
    <3> QED BY <1>3, <1>4, <3>1, <3>2
  <2>3. set.repeats => \A i \in DOMAIN rows' : rows'[i].trace.low \/ rows'[i].trace.high =>
           /\ 1 \in DOMAIN cached'
           /\ cached'[1].low = rows'[i].trace.low /\ cached'[1].high = rows'[i].trace.high
    BY <2>2 DEF Recalled
  <2>4. set.noKeywords => DOMAIN cached' = {}
    BY <1>5 DEF KeysKept
  <2> QED BY <1>1, <1>8, <2>1, <2>3, <2>4 DEF KeysKept, Recalled
<1>10. StagesTell'
  <2>1. picked'.ents = <<>>
    BY <1>1
  <2>2. Distinctly(picked.ents)' /\ ToSet(picked.ents)' \subseteq store'.known
    <3>1. Distinctly(picked'.ents) /\ ToSet(picked'.ents) = {}
      BY <2>1, EmptyHolds
    <3> QED BY <3>1 DEF Distinctly
  <2> QED BY <1>1, <2>2 DEF StagesTell
<1> QED BY <1>6, <1>7, <1>9, <1>10

LEMMA AnswerTells ==
  ASSUME TellsInv, Answer \/ AnswerRaises
  PROVE  Marked' /\ RowsMarked' /\ KeysKept' /\ StagesTell'
<1>1. phase = "answer" /\ UNCHANGED <<set, store, cached, trace, verdicts>>
  BY DEF Answer, AnswerRaises
<1>2. question \in Nat \ {0} /\ trace \in TraceType /\ Marked /\ KeysKept /\ RowsMarked /\ StagesTell
  BY NumbersAssumption DEF TellsInv, TInv, RunTypes, QueryTypes
<1>3. CASE EndQuestion(Row(trace, TRUE))
  <2> DEFINE row == Row(trace, TRUE)
  <2>1. row \in RowType
    BY <1>2, RowHolds
  <2>2. row.trace = trace /\ row.answered = TRUE /\ row.stop = trace.stop /\ row.q = question
    BY DEF Row
  <2> HIDE DEF row
  <2>3. MarkedRow(row, question) /\ row.trace.q = question
    BY <1>1, <1>2, <2>2 DEF MarkedRow, Marked
  <2>4. ASSUME set.repeats, ~trace.failed
        PROVE  IF 1 \in DOMAIN cached THEN Recalled(trace.low, trace.high) ELSE ~trace.low /\ ~trace.high
    BY <1>1, <1>2, <2>4 DEF KeysKept
  <2>5. trace.failed => ~trace.low /\ ~trace.high
    BY <1>2 DEF Marked
  <2>6. EndQuestion(row)
    BY <1>3 DEF row
  <2> QED BY <1>1, <2>1, <2>2, <2>3, <2>4, <2>5, <2>6, EndTells
<1>4. CASE EndQuestion(Row(NoTrace, FALSE))
  <2> DEFINE row == Row(NoTrace, FALSE)
  <2>1. row \in RowType
    BY <1>2, NoTraceHolds, RowHolds
  <2>2. row.trace = NoTrace /\ row.answered = FALSE /\ row.stop = "prediction_exception"
    BY DEF Row
  <2>3. /\ NoTrace.q = 0 /\ ~NoTrace.low /\ ~NoTrace.high /\ ~NoTrace.failed /\ NoTrace.stop = ""
    BY DEF NoTrace
  <2> HIDE DEF row
  <2>4. MarkedRow(row, question) /\ row.trace.q = 0 /\ row.trace.q # question
    BY <1>2, <2>2, <2>3 DEF MarkedRow, EmptySeed
  <2>5. EndQuestion(row)
    BY <1>4 DEF row
  <2> QED BY <1>1, <2>1, <2>2, <2>3, <2>4, <2>5, EndTells
<1>5. CASE phase' = "raised" /\ UNCHANGED <<question, local, rows>>
  <2>1. UNCHANGED <<kw, picked>>
    BY <1>5 DEF local
  <2>2. Marked'
    BY <1>1, <1>2, <1>5 DEF Marked
  <2>3. RowsMarked'
    BY <1>1, <1>2, <1>5, RowsStay
  <2>4. KeysKept'
    BY <1>1, <1>2, <1>5, <2>1, KeysStay
  <2>5. StagesTell'
    BY <1>1, <1>2, <1>5, <2>1, StagesStay
  <2> QED BY <2>2, <2>3, <2>4, <2>5
<1> QED BY <1>3, <1>4, <1>5 DEF Answer, AnswerRaises

LEMMA DiagnoseTells == ASSUME TellsInv, Diagnose PROVE Marked' /\ RowsMarked' /\ KeysKept' /\ StagesTell'
<1> DEFINE n == Len(verdicts) + 1
           row == rows[n]
<1>1. /\ phase = "ask" /\ Len(verdicts) < Len(rows)
      /\ UNCHANGED <<set, store, question, phase, cached, local, trace, rows>>
      /\ \E covered, right \in BOOLEAN :
           verdicts' = Append(verdicts,
             [type |-> IF right THEN "" ELSE FailureType(row, covered), flags |-> Flags(row)])
  BY DEF Diagnose
<1>2. PICK covered \in BOOLEAN, right \in BOOLEAN :
           verdicts' = Append(verdicts,
             [type |-> IF right THEN "" ELSE FailureType(row, covered), flags |-> Flags(row)])
  BY <1>1
<1> DEFINE v == [type |-> IF right THEN "" ELSE FailureType(row, covered), flags |-> Flags(row)]
<1>3. /\ rows \in Seq(RowType) /\ Len(rows) \in Nat
      /\ verdicts \in Seq(VerdictType) /\ Len(verdicts) \in Nat /\ Marked /\ KeysKept /\ RowsMarked /\ StagesTell
  BY LenProperties DEF TellsInv, TInv, RunTypes
<1>4. n \in DOMAIN rows /\ row \in RowType
  <2>1. n \in 1 .. Len(rows)
    <3>1. Len(verdicts) < Len(rows)
      BY <1>1
    <3> QED BY <1>3, <3>1
  <2>2. DOMAIN rows = 1 .. Len(rows)
    BY <1>3, LenProperties
  <2> HIDE DEF n
  <2> QED BY <1>3, <2>1, <2>2, ElementOfSeq
<1>5. MarkedRow(row, n)
  BY <1>3, <1>4 DEF RowsMarked
<1>6. row.trace.evidence \in Nat
  BY <1>4 DEF RowType, TraceType
<1>7. v.type # "" =>
        /\ v.type = "retrieval_empty_seed" <=> row.trace.stop \in EmptySeed
        /\ v.type \notin {"retrieval_empty_seed", "retrieval_empty_evidence"} =>
              row.trace.evidence > 0 /\ ~row.trace.failed
  <2> HIDE DEF n, row
  <2>1. v.type = IF right THEN "" ELSE FailureType(row, covered)
    OBVIOUS
  <2> HIDE DEF v
  <2>2. row.stop \in EmptySeed <=> row.trace.stop \in EmptySeed
    BY <1>5 DEF MarkedRow
  <2>3. row.trace.failed => row.trace.evidence = 0
    BY <1>5 DEF MarkedRow
  <2>4. CASE right
    BY <2>1, <2>4
  <2>5. CASE ~right
    <3>1. v.type = FailureType(row, covered)
      BY <2>1, <2>5
    <3>2. CASE row.stop \in EmptySeed
      BY <2>2, <3>1, <3>2 DEF FailureType
    <3>3. CASE row.stop \notin EmptySeed /\ row.trace.evidence = 0
      BY <2>2, <3>1, <3>3 DEF FailureType
    <3>4. CASE row.stop \notin EmptySeed /\ row.trace.evidence # 0
      <4>1. row.trace.evidence > 0 /\ ~row.trace.failed
        BY <1>6, <2>3, <3>4
      <4>2. v.type # "retrieval_empty_seed"
        BY <3>1, <3>4 DEF FailureType
      <4> QED BY <2>2, <3>4, <4>1, <4>2
    <3> QED BY <3>2, <3>3, <3>4
  <2> QED BY <2>4, <2>5
<1>8. /\ DOMAIN verdicts' = 1 .. n /\ verdicts'[n] = v /\ DOMAIN verdicts = 1 .. Len(verdicts)
      /\ \A i \in 1 .. Len(verdicts) : verdicts'[i] = verdicts[i]
  <2> HIDE DEF row
  <2> DEFINE T == VerdictType \cup {v}
  <2>1. verdicts \in Seq(T) /\ v \in T /\ verdicts' = Append(verdicts, v)
    <3>1. VerdictType \subseteq T /\ v \in T /\ verdicts' = Append(verdicts, v)
      BY <1>2
    <3> HIDE DEF T, v
    <3>2. ToSet(verdicts) \subseteq VerdictType
      BY <1>3, Holds
    <3> QED BY <1>3, <3>1, <3>2, Holds
  <2> HIDE DEF T, v
  <2>2. /\ Len(verdicts') = Len(verdicts) + 1 /\ verdicts' \in Seq(T) /\ verdicts'[Len(verdicts) + 1] = v
        /\ \A i \in 1 .. Len(verdicts) : verdicts'[i] = verdicts[i]
    BY <2>1, AppendProperties
  <2> QED BY <1>3, <2>2, LenProperties
<1> HIDE DEF v, row
<1>9. VerdictNamesFirst'
  <2> SUFFICES ASSUME NEW i \in DOMAIN verdicts'
               PROVE  LET t == rows'[i].trace
                      IN  verdicts'[i].type # "" =>
                            /\ verdicts'[i].type = "retrieval_empty_seed" <=> t.stop \in EmptySeed
                            /\ verdicts'[i].type \notin {"retrieval_empty_seed", "retrieval_empty_evidence"} =>
                                  t.evidence > 0 /\ ~t.failed
    BY DEF VerdictNamesFirst
  <2>1. CASE i = n
    BY <1>1, <1>7, <1>8, <2>1 DEF row
  <2>2. CASE i \in 1 .. Len(verdicts)
    BY <1>1, <1>3, <1>8, <2>2 DEF RowsMarked, VerdictNamesFirst
  <2>3. i = n \/ i \in 1 .. Len(verdicts)
    BY <1>3, <1>8
  <2> QED BY <2>1, <2>2, <2>3
<1>10. UNCHANGED <<set, store, question, phase, cached, kw, picked, trace, rows>>
  BY <1>1 DEF local
<1>11. RowsMarked'
  <2>1. (\A i \in DOMAIN rows : MarkedRow(rows[i], i))'
    BY <1>3, <1>10 DEF RowsMarked, MarkedRow
  <2> QED BY <1>9, <2>1 DEF RowsMarked
<1>12. Marked'
  BY <1>3, <1>10 DEF Marked
<1>13. KeysKept'
  BY <1>3, <1>10, SameStays DEF KeysKept, Recalled
<1>14. StagesTell'
  BY <1>1, <1>3, <1>10, StagesStay
<1> QED BY <1>11, <1>12, <1>13, <1>14

-------------------------------------------------------------------------------

LEMMA BeginTells == RetrieveInit => TellsInv
<1> SUFFICES ASSUME RetrieveInit PROVE TellsInv
  OBVIOUS
<1>1. /\ set \in Settings /\ store \in Stores /\ question = 1 /\ phase = "ask" /\ Blank
      /\ cached = <<>> /\ trace = NoTrace /\ rows = <<>> /\ verdicts = <<>>
  BY DEF RetrieveInit
<1>2. /\ kw = NoKeywords /\ seeds = <<>> /\ sa = NoSpread /\ batch = NoBatch
      /\ pool = [local |-> Nothing, global |-> Nothing]
      /\ picked = [ents |-> <<>>, rels |-> <<>>] /\ stages = NoStages
  BY <1>1 DEF Blank
<1>3. \A S : <<>> \in Seq(S) /\ Len(<<>>) = 0 /\ DOMAIN <<>> = {}
  <2>1. \A S : <<>> \in Seq(S) /\ Len(<<>>) = 0
    BY EmptySeq
  <2>2. DOMAIN <<>> = 1 .. 0
    BY <2>1, LenProperties
  <2>3. 1 .. 0 = {}
    OBVIOUS
  <2> QED BY <2>1, <2>2, <2>3
<1>4. RunTypes
  <2>1. question \in 1 .. Questions + 1 /\ Len(rows) = question - 1 /\ Len(verdicts) <= Len(rows)
    BY <1>1, <1>3, NumbersAssumption
  <2> QED BY <1>1, <1>3, <2>1 DEF RunTypes, Phases
<1>5. QueryTypes
  <2>1. kw \in KeywordType
    BY <1>2, NumbersAssumption DEF NoKeywords, KeywordType
  <2>2. pool \in [local : PoolType, global : PoolType]
    BY <1>2 DEF Nothing, PoolType
  <2>3. stages \in [local : Seq(StageType), global : Seq(StageType), merged : Seq(StageType)]
    BY <1>2, <1>3 DEF NoStages
  <2> QED BY <1>1, <1>2, <1>3, <2>1, <2>2, <2>3, NoTraceHolds DEF QueryTypes
<1>6. SpreadTypes
  <2>1. sa = [hop |-> 0, frontier |-> {}, all |-> {}, arcs |-> <<>>, w |-> <<>>, value |-> <<>>,
              queue |-> <<>>, visited |-> {}, spread |-> 0]
    BY <1>2 DEF NoSpread
  <2>2. <<>> \in Activations /\ <<>> \in Seq(Ents)
    BY ActivationsAre, <1>3
  <2>3. sa \in SpreadType
    BY <2>1, <2>2 DEF SpreadType
  <2> QED BY <1>1, <2>3 DEF SpreadTypes
<1>7. BatchTypes
  BY <1>1, <1>2, <1>3 DEF BatchTypes, NoBatch
<1>8. Marked
  BY <1>1 DEF Marked, NoTrace
<1>9. RowsMarked
  BY <1>1, <1>3 DEF RowsMarked, VerdictNamesFirst
<1>10. KeysKept
  <2>1. SameKeywords
    BY <1>1, <1>3 DEF SameKeywords
  <2>2. ~kw.low /\ ~kw.high
    BY <1>2 DEF NoKeywords
  <2> QED BY <1>1, <1>3, <2>1, <2>2 DEF KeysKept
<1>11. StagesTell
  <2>1. picked.ents = <<>>
    BY <1>2
  <2> QED BY <1>1, <2>1, EmptyHolds DEF StagesTell
<1> QED BY <1>4, <1>5, <1>6, <1>7, <1>8, <1>9, <1>10, <1>11 DEF TellsInv, TInv

LEMMA RestTells ==
  ASSUME TellsInv, UNCHANGED retrieveVars
  PROVE  TellsInv'
<1>1. UNCHANGED <<set, store, question, phase, cached, kw, seeds, sa, pool, batch, scoring, picked, stages,
                  trace, rows, verdicts>>
  BY DEF retrieveVars, run, local
<1>2. RunTypes' /\ QueryTypes' /\ SpreadTypes'
  BY <1>1 DEF TellsInv, TInv, RunTypes, QueryTypes, SpreadTypes
<1>3. BatchTypes'
  <2>1. phase = "score" => Scoring'
    <3>1. phase = "score" => Scoring
      BY DEF TellsInv, TInv, BatchTypes
    <3>2. Documents(batch.kind)' = Documents(batch.kind)
      BY <1>1 DEF Documents, Union
    <3> QED BY <1>1, <3>1, <3>2 DEF Scoring
  <2> QED BY <1>1, <2>1 DEF TellsInv, TInv, BatchTypes
<1>4. Marked' /\ RowsMarked'
  BY <1>1, RowsStay DEF TellsInv, Marked
<1>5. KeysKept'
  BY <1>1, SameStays DEF TellsInv, KeysKept, Recalled
<1>6. StagesTell'
  <2>1. LastTells(ToSet(seeds))' <=> LastTells(ToSet(seeds))
    BY <1>1 DEF LastTells, Labels, Label
  <2>2. Labels(ToSet(seeds))' = Labels(ToSet(seeds)) /\ Lost(stages.local)' = Lost(stages.local)
    BY <1>1 DEF Labels, Label, Lost
  <2>3. DropsTold => DropsTold'
    BY <1>1, DropsStay
  <2>4. Forward(Union)' = Forward(Union)
    BY <1>1, ForwardNext
  <2>5. Distinctly(picked.ents)' /\ ToSet(picked.ents)' \subseteq store'.known
    BY <1>1 DEF TellsInv, StagesTell, Distinctly
  <2> QED BY <1>1, <2>1, <2>2, <2>3, <2>4, <2>5 DEF TellsInv, StagesTell
<1> QED BY <1>2, <1>3, <1>4, <1>5, <1>6 DEF TellsInv, TInv

LEMMA StepTells == TellsInv /\ [RetrieveNext]_retrieveVars => TellsInv'
<1> SUFFICES ASSUME TellsInv, [RetrieveNext]_retrieveVars PROVE TellsInv'
  OBVIOUS
<1>0. TInv
  BY DEF TellsInv
<1>1. CASE Ask
  BY <1>0, <1>1, AskTypes, AskTells DEF TellsInv
<1>2. CASE KeywordsFromCache \/ KeywordsFromModel
  BY <1>0, <1>2, KeywordTypes, KeywordsTell DEF TellsInv
<1>3. CASE SearchEntities
  BY <1>0, <1>3, SearchTypes, SearchTells DEF TellsInv
<1>4. CASE Weigh \/ Hop \/ StartSpreading \/ Spread
  BY <1>0, <1>4, WeighTypes, HopTypes, StartTypes, SpreadStepTypes, WalkTells DEF TellsInv
<1>5. CASE EndSpreading
  BY <1>0, <1>5, EndSpreadingTypes, EndSpreadingTells DEF TellsInv
<1>6. CASE NodeSubgraph
  BY <1>0, <1>6, NodeSubgraphTypes, NodesTell DEF TellsInv
<1>7. CASE SearchRelations
  BY <1>0, <1>7, SearchRelationsTypes, RelationsTell DEF TellsInv
<1>8. CASE Rerank \/ ScoreBatch \/ SelectEntities
  BY <1>0, <1>8, RerankTypes, ScoreBatchTypes, SelectEntitiesTypes, ScoreTells DEF TellsInv
<1>9. CASE SelectRelations
  BY <1>0, <1>9, SelectRelationsTypes, SelectRelationsTell DEF TellsInv
<1>10. CASE Boost
  BY <1>0, <1>10, BoostTypes, BoostTells DEF TellsInv
<1>11. CASE BuildEvidence
  BY <1>0, <1>11, EvidenceTypes, EvidenceTells DEF TellsInv
<1>12. CASE RetrievalRaises
  BY <1>0, <1>12, RaiseTypes, RaiseTells DEF TellsInv
<1>13. CASE Answer \/ AnswerRaises
  BY <1>0, <1>13, AnswerTypes, AnswerTells DEF TellsInv
<1>14. CASE Diagnose
  BY <1>0, <1>14, DiagnoseTypes, DiagnoseTells DEF TellsInv
<1>15. CASE UNCHANGED retrieveVars
  BY <1>15, RestTells
<1> QED
  BY <1>1, <1>2, <1>3, <1>4, <1>5, <1>6, <1>7, <1>8, <1>9, <1>10, <1>11, <1>12, <1>13, <1>14, <1>15
  DEF RetrieveNext

(* What the trace, the rows and the verdicts of a run say is what happened:   *)
(* for any graph, stores, scores, settings and failures, a candidate that is  *)
(* not in the context was lost at a stage of the trace, a row that failed is  *)
(* marked, the same question is searched by the same keywords, and a verdict  *)
(* names what came to nothing first (retrieval/pipeline.py, locomo/stages).   *)
THEOREM RowsAlwaysTell == RetrieveSpec => []RowsTellTheRun
<1>1. RetrieveSpec => []TellsInv
  BY BeginTells, StepTells, PTL DEF RetrieveSpec
<1> QED BY <1>1, TellsImply, PTL

-------------------------------------------------------------------------------
(* The walk through the graph.                                             *)

Reach(e) == {a[2] : a \in KeptArcs(e)}

\* A walk of k steps that starts at a seed.
Walk(p, k) ==
  /\ p \in [0 .. k -> Ents] /\ p[0] \in ToSet(seeds)
  /\ \A i \in 1 .. k : p[i] \in Reach(p[i - 1])

LEMMA WithinIs ==
  ASSUME NEW n
  PROVE  WithinHops(n) = {e \in Ents : \E k \in 0 .. n : \E p \in [0 .. k -> Ents] : Walk(p, k) /\ p[k] = e}
<1>1. \A e, d : d \in Reach(e) <=> \E a \in KeptArcs(e) : a[2] = d
  BY DEF Reach
<1>2. ASSUME NEW k \in 0 .. n, NEW p \in [0 .. k -> Ents], NEW e
      PROVE  Walk(p, k) /\ p[k] = e <=>
               /\ p[0] \in ToSet(seeds) /\ p[k] = e
               /\ \A i \in 1 .. k : \E a \in KeptArcs(p[i - 1]) : a[2] = p[i]
  BY <1>1, <1>2 DEF Walk
<1> QED BY <1>2 DEF WithinHops

LEMMA WithinStart ==
  ASSUME seeds \in Seq(Ents)
  PROVE  WithinHops(0) = ToSet(seeds)
<1>1. ToSet(seeds) \subseteq Ents
  BY ToSetIn
<1>2. ASSUME NEW e \in WithinHops(0) PROVE e \in ToSet(seeds)
  <2>1. PICK k \in 0 .. 0 : \E p \in [0 .. k -> Ents] : Walk(p, k) /\ p[k] = e
    BY <1>2, WithinIs
  <2>2. k = 0
    BY <2>1
  <2> QED BY <2>1, <2>2 DEF Walk
<1>3. ASSUME NEW e \in ToSet(seeds) PROVE e \in WithinHops(0)
  <2> DEFINE p == [i \in 0 .. 0 |-> e]
  <2>1. p \in [0 .. 0 -> Ents] /\ p[0] = e
    BY <1>1
  <2>2. Walk(p, 0)
    BY <2>1 DEF Walk
  <2>3. 0 \in 0 .. 0 /\ e \in Ents
    BY <1>1
  <2> HIDE DEF p
  <2> QED BY <2>1, <2>2, <2>3, WithinIs
<1> QED BY <1>2, <1>3

\* What closes the seeds holds whatever a walk reaches.
LEMMA WithinClosed ==
  ASSUME NEW C, ToSet(seeds) \subseteq C, \A e \in C : Reach(e) \subseteq C, NEW n \in Nat
  PROVE  WithinHops(n) \subseteq C
<1> SUFFICES ASSUME NEW k \in 0 .. n, NEW p, Walk(p, k), p[k] \notin C PROVE FALSE
  BY WithinIs
<1> DEFINE B == {i \in 0 .. k : p[i] \notin C}
<1>1. k \in Nat /\ B \in SUBSET Nat /\ B # {}
  OBVIOUS
<1>2. PICK i \in B : \A m \in B : ~(m < i)
  <2> HIDE DEF B
  <2> QED BY <1>1, LeastNat
<1>3. i \in 1 .. k /\ i - 1 \in 0 .. k /\ i - 1 < i
  <2>1. i # 0
    BY DEF Walk
  <2> QED BY <1>1, <2>1
<1>4. p[i - 1] \in C
  BY <1>2, <1>3
<1>5. p[i] \in C
  BY <1>3, <1>4 DEF Walk
<1> QED BY <1>5

LEMMA WithinMore ==
  ASSUME NEW m \in Nat, NEW n \in Nat, m <= n
  PROVE  WithinHops(m) \subseteq WithinHops(n)
<1>1. \A k \in 0 .. m : k \in 0 .. n
  OBVIOUS
<1> QED BY <1>1, WithinIs

\* One hop more.
LEMMA WithinGrows ==
  ASSUME store \in Stores, NEW n \in Nat
  PROVE  WithinHops(n + 1) = WithinHops(n) \cup UNION {Reach(e) : e \in WithinHops(n)}
<1>1. WithinHops(n) \subseteq WithinHops(n + 1)
  <2>1. n + 1 \in Nat /\ n <= n + 1
    OBVIOUS
  <2> QED BY <2>1, WithinMore
<1>2. ASSUME NEW e \in WithinHops(n), NEW d \in Reach(e) PROVE d \in WithinHops(n + 1)
  <2>1. d \in Ents
    BY WalkHolds DEF Reach
  <2>2. PICK k \in 0 .. n : \E p \in [0 .. k -> Ents] : Walk(p, k) /\ p[k] = e
    BY <1>2, WithinIs
  <2>3. PICK p \in [0 .. k -> Ents] : Walk(p, k) /\ p[k] = e
    BY <2>2
  <2> DEFINE r == [i \in 0 .. k + 1 |-> IF i = k + 1 THEN d ELSE p[i]]
  <2>4. k \in Nat /\ k + 1 \in 0 .. n + 1 /\ k + 1 \in 0 .. k + 1
    OBVIOUS
  <2>5. /\ \A i \in 0 .. k + 1 : i # k + 1 => i \in 0 .. k
        /\ \A i \in 1 .. k + 1 : i - 1 \in 0 .. k /\ (i # k + 1 => i \in 1 .. k)
    BY <2>4
  <2>6. r \in [0 .. k + 1 -> Ents] /\ r[k + 1] = d /\ \A i \in 0 .. k : r[i] = p[i]
    BY <2>1, <2>3, <2>4, <2>5
  <2> HIDE DEF r
  <2>7. r[0] = p[0]
    BY <2>4, <2>6
  <2>8. \A i \in 1 .. k + 1 : r[i] \in Reach(r[i - 1])
    <3> TAKE i \in 1 .. k + 1
    <3>1. r[i - 1] = p[i - 1]
      BY <2>5, <2>6
    <3>2. CASE i = k + 1
      <4>1. r[i - 1] = e /\ r[i] = d
        BY <2>3, <2>4, <2>6, <3>1, <3>2
      <4> QED BY <4>1
    <3>3. CASE i # k + 1
      <4>1. i \in 1 .. k /\ i \in 0 .. k
        BY <2>4, <2>5, <3>3
      <4>2. r[i] = p[i] /\ p[i] \in Reach(p[i - 1])
        BY <2>3, <2>6, <4>1 DEF Walk
      <4> QED BY <3>1, <4>2
    <3> QED BY <3>2, <3>3
  <2>9. Walk(r, k + 1)
    BY <2>3, <2>6, <2>7, <2>8 DEF Walk
  <2> QED BY <2>1, <2>4, <2>6, <2>9, WithinIs
<1>3. ASSUME NEW d \in WithinHops(n + 1), d \notin WithinHops(n)
      PROVE  \E e \in WithinHops(n) : d \in Reach(e)
  <2>1. PICK k \in 0 .. n + 1 : \E p \in [0 .. k -> Ents] : Walk(p, k) /\ p[k] = d
    BY <1>3, WithinIs
  <2>2. PICK p \in [0 .. k -> Ents] : Walk(p, k) /\ p[k] = d
    BY <2>1
  <2>3. d \in Ents
    BY <1>3, WithinIs
  <2>4. k \notin 0 .. n
    BY <1>3, <2>2, <2>3, WithinIs
  <2>5. k = n + 1
    BY <2>4
  <2> DEFINE r == [i \in 0 .. n |-> p[i]]
  <2>6. n \in 0 .. k /\ n \in 0 .. n /\ \A i \in 0 .. n : i \in 0 .. k
    BY <2>5
  <2>7. r \in [0 .. n -> Ents] /\ \A i \in 0 .. n : r[i] = p[i]
    BY <2>2, <2>6
  <2> HIDE DEF r
  <2>8. Walk(r, n)
    <3>1. r[0] \in ToSet(seeds)
      <4>1. 0 \in 0 .. n
        OBVIOUS
      <4> QED BY <2>2, <2>7, <4>1 DEF Walk
    <3>2. \A i \in 1 .. n : r[i] \in Reach(r[i - 1])
      <4>1. \A i \in 1 .. n : i \in 0 .. n /\ i - 1 \in 0 .. n /\ i \in 1 .. k
        BY <2>5
      <4> QED BY <2>2, <2>7, <4>1 DEF Walk
    <3> QED BY <2>7, <3>1, <3>2 DEF Walk
  <2>9. p[n] \in WithinHops(n)
    <3>1. p[n] \in Ents /\ r[n] = p[n]
      BY <2>2, <2>6, <2>7
    <3> QED BY <2>6, <2>7, <2>8, <3>1, WithinIs
  <2>10. d \in Reach(p[n])
    <3>1. n + 1 \in 1 .. k /\ n + 1 - 1 = n
      BY <2>5
    <3>2. p[n + 1] \in Reach(p[n + 1 - 1])
      BY <2>2, <3>1 DEF Walk
    <3> QED BY <2>2, <2>5, <3>1, <3>2
  <2> QED BY <2>9, <2>10
<1>4. \A d : d \in WithinHops(n + 1) <=>
             d \in WithinHops(n) \/ \E e \in WithinHops(n) : d \in Reach(e)
  BY <1>1, <1>2, <1>3
<1> QED BY <1>4

-------------------------------------------------------------------------------
(* What the walk has reached, and what the spreading has handed on.        *)

Handed == [e \in Ents |-> Cardinality(sa.arcs[e])]
Walked ==
  /\ phase \in {"hop", "spread"} =>
       /\ \A C \in SUBSET Ents :
             ToSet(seeds) \subseteq C /\ (\A e \in C : \A a \in sa.arcs[e] : a[2] \in C) => sa.all \subseteq C
       /\ \A e \in Ents \ sa.all : sa.arcs[e] = {}
  /\ phase = "hop" =>
       /\ sa.all = WithinHops(sa.hop) /\ sa.spread = 0
       /\ \A e \in sa.all \ sa.frontier : \A a \in KeptArcs(e) : a[2] \in sa.all
  /\ phase = "spread" =>
       /\ sa.all = WithinHops(MaxHops)
       /\ ToSet(seeds) \subseteq sa.visited \cup ToSet(sa.queue)
       /\ \A e \in sa.visited : \A a \in sa.arcs[e] : a[2] \in sa.visited \cup ToSet(sa.queue)
       /\ sa.spread = Cardinality(Shares(Handed, sa.visited))
       /\ \A i \in DOMAIN seeds : sa.value[seeds[i]] = Full

LEMMA HandedHolds ==
  ASSUME store \in Stores, sa.arcs \in ArcsType
  PROVE  \A e \in Ents : Handed[e] \in Nat /\ (sa.arcs[e] = {} => Handed[e] = 0)
<1> SUFFICES ASSUME NEW e \in Ents PROVE Handed[e] \in Nat /\ (sa.arcs[e] = {} => Handed[e] = 0)
  OBVIOUS
<1>1. Handed[e] = Cardinality(sa.arcs[e])
  BY DEF Handed
<1>2. sa.arcs[e] \in SUBSET (Rels \X Ents)
  BY DEF ArcsType
<1>3. Cardinality(sa.arcs[e]) \in Nat
  BY <1>2, ArcsFinite, FS_CardinalityType
<1> QED BY <1>1, <1>3, FS_EmptySet

LEMMA WalkedImplies == TInv /\ Walked => SpreadsOnce
<1> SUFFICES ASSUME TInv, Walked, phase = "spread", sa.queue = <<>>
             PROVE  /\ sa.visited = sa.all /\ sa.all = WithinHops(MaxHops)
                    /\ sa.spread = Total([e \in Ents |-> Cardinality(sa.arcs[e])])
                    /\ \A i \in DOMAIN seeds : sa.value[seeds[i]] = Full
  BY DEF SpreadsOnce
<1>1. /\ store \in Stores /\ sa \in SpreadType /\ sa.arcs \in ArcsType /\ sa.visited \subseteq sa.all
      /\ sa.all \subseteq Ents /\ sa.visited \subseteq Ents
  BY DEF TInv, RunTypes, SpreadTypes, SpreadType
<1>2. ToSet(sa.queue) = {}
  BY EmptyHolds
<1>3. sa.all \subseteq sa.visited
  <2>1. ToSet(seeds) \subseteq sa.visited /\ \A e \in sa.visited : \A a \in sa.arcs[e] : a[2] \in sa.visited
    BY <1>2 DEF Walked
  <2> QED BY <1>1, <2>1 DEF Walked
<1>4. sa.spread = Total(Handed)
  <2>1. IsFiniteSet(Ents) /\ DOMAIN Handed = Ents /\ \A e \in Ents : Handed[e] \in Nat
    BY <1>1, GraphHolds, HandedHolds DEF Handed
  <2>2. Total(Handed) = Cardinality(Shares(Handed, Ents))
    BY <2>1, TotalIs
  <2>3. \A e \in Ents \ sa.visited : Handed[e] = 0
    BY <1>1, <1>3, HandedHolds DEF Walked
  <2>4. Shares(Handed, Ents) = Shares(Handed, sa.visited)
    BY <1>1, <2>3, SharesOfNothing
  <2> QED BY <2>2, <2>4 DEF Walked
<1> QED BY <1>1, <1>3, <1>4 DEF Walked, Handed

LEMMA WalkNext ==
  ASSUME UNCHANGED <<store, seeds>>, sa'.w = sa.w
  PROVE  /\ \A n : WithinHops(n)' = WithinHops(n)
         /\ WithinHops(sa.hop)' = WithinHops(sa'.hop)
         /\ \A e : KeptArcs(e)' = KeptArcs(e)
<1>1. Held' = Held
  BY DEF Held
<1>2. \A e : EdgesAt(e)' = EdgesAt(e)
  BY <1>1 DEF EdgesAt
<1>3. \A e : KeptArcs(e)' = KeptArcs(e)
  BY <1>2 DEF KeptArcs
<1>4. \A n : WithinHops(n)' = WithinHops(n)
  BY <1>3 DEF WithinHops
<1>5. WithinHops(sa.hop)' = WithinHops(sa'.hop)
  BY <1>3 DEF WithinHops
<1> QED BY <1>3, <1>4, <1>5

LEMMA WithinStartNext == (seeds \in Seq(Ents) => WithinHops(0) = ToSet(seeds))'
<1>1. seeds \in Seq(Ents) => WithinHops(0) = ToSet(seeds)
  BY WithinStart
<1> QED BY <1>1, PTL

LEMMA WeighWalks == ASSUME TInv, TInv', Weigh PROVE Walked'
<1>1. PICK w \in Weights :
           sa' = [NoSpread EXCEPT !.frontier = ToSet(seeds), !.all = ToSet(seeds), !.w = w,
                                  !.arcs = [e \in Ents |-> {}]]
  BY DEF Weigh
<1>2. phase' = "hop" /\ seeds' = seeds
  BY DEF Weigh
<1>3. sa' = [hop |-> 0, frontier |-> ToSet(seeds), all |-> ToSet(seeds), arcs |-> [e \in Ents |-> {}], w |-> w,
             value |-> <<>>, queue |-> <<>>, visited |-> {}, spread |-> 0]
  BY <1>1 DEF NoSpread
<1>4. sa'.hop = 0 /\ sa'.frontier = ToSet(seeds) /\ sa'.all = ToSet(seeds) /\ sa'.spread = 0
      /\ sa'.arcs = [e \in Ents |-> {}]
  BY <1>3
<1>5. WithinHops(sa.hop)' = ToSet(seeds')
  <2>1. (seeds \in Seq(Ents) => WithinHops(0) = ToSet(seeds))'
    BY WithinStartNext
  <2>2. seeds' \in Seq(Ents)
    BY DEF TInv, QueryTypes
  <2>3. WithinHops(sa.hop)' = WithinHops(0)'
    BY <1>4 DEF WithinHops
  <2> QED BY <2>1, <2>2, <2>3
<1> QED BY <1>2, <1>4, <1>5 DEF Walked

LEMMA HopWalks == ASSUME TInv, Walked, Hop PROVE Walked'
<1> DEFINE expanded == sa.frontier \cap store.nodes
           reached == {a[2] : a \in UNION {KeptArcs(e) : e \in expanded}}
           arcs == [e \in Ents |-> sa.arcs[e] \cup (IF e \in expanded THEN KeptArcs(e) ELSE {})]
<1>1. /\ phase = "hop" /\ sa.hop < MaxHops
      /\ UNCHANGED <<run, phase, kw, seeds, pool, batch, scoring, picked, stages, trace>>
      /\ sa' = [sa EXCEPT !.hop = @ + 1, !.frontier = reached \ sa.all, !.all = @ \cup reached, !.arcs = arcs]
  BY DEF Hop
<1>2. /\ sa \in SpreadType /\ sa.arcs \in ArcsType /\ store \in Stores /\ sa.all \subseteq Ents
      /\ sa.frontier \subseteq sa.all /\ store' = store /\ sa.hop \in Nat
  BY <1>1 DEF TInv, SpreadTypes, SpreadType, RunTypes, run
<1>3. \A e \in expanded : e \in sa.all /\ e \in Ents /\ \A a \in KeptArcs(e) : a[2] \in reached
  BY <1>2
<1>4. \A d \in reached : \E e \in expanded : \E a \in KeptArcs(e) : d = a[2]
  OBVIOUS
<1>5. \A e \in sa.frontier \ expanded : KeptArcs(e) = {}
  BY <1>2, GraphHolds DEF KeptArcs
<1>6. \A e \in Ents : arcs[e] = sa.arcs[e] \cup (IF e \in expanded THEN KeptArcs(e) ELSE {})
  OBVIOUS
<1>7. /\ sa'.hop = sa.hop + 1 /\ sa'.frontier = reached \ sa.all /\ sa'.all = sa.all \cup reached /\ sa'.arcs = arcs
      /\ sa'.w = sa.w /\ sa'.spread = sa.spread
  BY <1>1, <1>2 DEF SpreadType
<1> HIDE DEF expanded, reached, arcs
<1>8. \A e \in sa.all : \A a \in KeptArcs(e) : a[2] \in sa.all \cup reached
  <2>1. \A e \in sa.all \ sa.frontier : \A a \in KeptArcs(e) : a[2] \in sa.all
    BY <1>1 DEF Walked
  <2> QED BY <1>3, <1>5, <2>1
<1>9. ASSUME NEW C \in SUBSET Ents, ToSet(seeds) \subseteq C, \A e \in C : \A a \in arcs[e] : a[2] \in C
      PROVE  sa.all \cup reached \subseteq C
  <2>1. \A e \in C : sa.arcs[e] \subseteq arcs[e]
    BY <1>6
  <2>2. sa.all \subseteq C
    BY <1>1, <1>9, <2>1 DEF Walked
  <2>3. \A e \in expanded : KeptArcs(e) \subseteq arcs[e]
    BY <1>3, <1>6
  <2> QED BY <1>3, <1>4, <1>9, <2>2, <2>3
<1>10. \A e \in Ents \ (sa.all \cup reached) : arcs[e] = {}
  BY <1>1, <1>3, <1>6 DEF Walked
<1>11. WithinHops(sa.hop)' = sa.all \cup reached
  <2>1. WithinHops(sa.hop)' = WithinHops(sa.hop + 1)
    BY <1>1, <1>2, <1>7, WalkNext
  <2>2. WithinHops(sa.hop + 1) = sa.all \cup UNION {Reach(e) : e \in sa.all}
    <3>1. sa.all = WithinHops(sa.hop)
      BY <1>1 DEF Walked
    <3> QED BY <1>2, <3>1, WithinGrows
  <2>3. \A e, d : d \in Reach(e) <=> \E a \in KeptArcs(e) : a[2] = d
    BY DEF Reach
  <2>4. UNION {Reach(e) : e \in sa.all} \subseteq sa.all \cup reached
    BY <1>8, <2>3
  <2>5. reached \subseteq UNION {Reach(e) : e \in sa.all}
    BY <1>3, <1>4, <2>3
  <2> QED BY <2>1, <2>2, <2>4, <2>5
<1>12. \A e \in sa'.all \ sa'.frontier : \A a \in KeptArcs(e)' : a[2] \in sa'.all
  <2>1. \A e : KeptArcs(e)' = KeptArcs(e)
    BY <1>1, <1>2, <1>7, WalkNext
  <2>2. sa'.all \ sa'.frontier \subseteq sa.all
    BY <1>7
  <2> QED BY <1>7, <1>8, <2>1, <2>2
<1>13. sa.spread = 0
  BY <1>1 DEF Walked
<1>14. phase' = "hop" /\ seeds' = seeds
  BY <1>1
<1> QED BY <1>7, <1>9, <1>10, <1>11, <1>12, <1>13, <1>14 DEF Walked

LEMMA HeadAndTail ==
  ASSUME NEW S, NEW s \in Seq(S), s # <<>>
  PROVE  Head(s) \in S /\ Tail(s) \in Seq(S) /\ ToSet(s) = {Head(s)} \cup ToSet(Tail(s))
<1> DEFINE t == Tail(s)
<1>1. /\ Head(s) \in S /\ t \in Seq(S) /\ Len(s) \in Nat \ {0} /\ Len(t) = Len(s) - 1 /\ Head(s) = s[1]
      /\ \A i \in 1 .. Len(t) : t[i] = s[i + 1]
  BY HeadTailProperties, LenProperties, EmptySeq
<1> HIDE DEF t
<1>2. ToSet(s) = {s[i] : i \in 1 .. Len(s)} /\ ToSet(t) = {t[i] : i \in 1 .. Len(t)}
  BY <1>1, Holds
<1>3. ASSUME NEW x \in ToSet(s) PROVE x = Head(s) \/ x \in ToSet(t)
  <2>1. PICK i \in 1 .. Len(s) : x = s[i]
    BY <1>2, <1>3
  <2>2. CASE i = 1
    BY <1>1, <2>1, <2>2
  <2>3. CASE i # 1
    <3>1. i - 1 \in 1 .. Len(t) /\ i - 1 + 1 = i
      BY <1>1, <2>3
    <3>2. x = t[i - 1]
      BY <1>1, <2>1, <3>1
    <3> QED BY <1>2, <3>1, <3>2
  <2> QED BY <2>2, <2>3
<1>4. Head(s) \in ToSet(s)
  <2>1. 1 \in 1 .. Len(s)
    BY <1>1
  <2> QED BY <1>1, <1>2, <2>1
<1>5. ASSUME NEW x \in ToSet(t) PROVE x \in ToSet(s)
  <2>1. PICK i \in 1 .. Len(t) : x = t[i]
    BY <1>2, <1>5
  <2>2. i + 1 \in 1 .. Len(s) /\ x = s[i + 1]
    BY <1>1, <2>1
  <2> QED BY <1>2, <2>2
<1> QED BY <1>1, <1>3, <1>4, <1>5 DEF t

LEMMA StartWalks == ASSUME TInv, Walked, StartSpreading PROVE Walked'
<1> DEFINE v == [e \in sa.all |-> IF e \in ToSet(seeds) THEN Full ELSE 0]
<1>1. /\ phase = "hop" /\ phase' = "spread" /\ (sa.hop = MaxHops \/ sa.frontier = {})
      /\ UNCHANGED <<run, kw, seeds, pool, batch, scoring, picked, stages, trace>>
      /\ sa' = [sa EXCEPT !.queue = seeds, !.value = v]
  BY DEF StartSpreading
<1>2. /\ sa \in SpreadType /\ sa.arcs \in ArcsType /\ store \in Stores /\ sa.all \subseteq Ents
      /\ ToSet(seeds) \subseteq sa.all /\ sa.visited = {} /\ store' = store /\ sa.hop \in Nat /\ sa.hop <= MaxHops
      /\ seeds \in Seq(Ents)
  BY <1>1 DEF TInv, SpreadTypes, SpreadType, RunTypes, QueryTypes, run
<1>3. \A e \in ToSet(seeds) : v[e] = Full
  BY <1>2
<1> HIDE DEF v
<1>4. /\ sa'.queue = seeds /\ sa'.value = v /\ sa'.arcs = sa.arcs /\ sa'.w = sa.w /\ sa'.all = sa.all
      /\ sa'.visited = {} /\ sa'.spread = sa.spread /\ sa.spread = 0
  BY <1>1, <1>2 DEF SpreadType, Walked
<1>5. sa.all = WithinHops(MaxHops)
  <2>1. sa.all = WithinHops(sa.hop)
    BY <1>1 DEF Walked
  <2>2. CASE sa.hop = MaxHops
    BY <2>1, <2>2
  <2>3. CASE sa.frontier = {}
    <3>1. \A e \in sa.all : Reach(e) \subseteq sa.all
      BY <1>1, <2>3 DEF Walked, Reach
    <3>2. WithinHops(MaxHops) \subseteq sa.all
      BY <1>2, <3>1, NumbersAssumption, WithinClosed
    <3>3. WithinHops(sa.hop) \subseteq WithinHops(MaxHops)
      BY <1>2, NumbersAssumption, WithinMore
    <3> QED BY <2>1, <3>2, <3>3
  <2> QED BY <1>1, <2>2, <2>3
<1>6. WithinHops(MaxHops)' = sa'.all
  BY <1>1, <1>2, <1>4, <1>5, WalkNext
<1>7. Cardinality(Shares(Handed', {})) = 0
  BY FS_EmptySet DEF Shares
<1>8. \A i \in DOMAIN seeds : v[seeds[i]] = Full
  <2>1. \A i \in DOMAIN seeds : seeds[i] \in ToSet(seeds)
    BY <1>2, Holds
  <2> QED BY <1>3, <2>1
<1>9. Cardinality(Shares(Handed, sa.visited))' = 0
  BY <1>4, <1>7 DEF Shares, Share
<1> QED BY <1>1, <1>4, <1>6, <1>8, <1>9 DEF Walked

LEMMA SpreadWalks == ASSUME TInv, Walked, Spread PROVE Walked'
<1> DEFINE node == Head(sa.queue)
<1>1. /\ phase = "spread" /\ sa.queue # <<>>
      /\ UNCHANGED <<run, phase, kw, seeds, pool, batch, scoring, picked, stages, trace>>
      /\ SpreadFrom(node)
  BY DEF Spread
<1>2. /\ sa \in SpreadType /\ sa.arcs \in ArcsType /\ sa.w \in Weights /\ store \in Stores /\ store' = store
      /\ \A e \in Ents : \A a \in sa.arcs[e] : a[2] \in sa.all
      /\ DOMAIN sa.value = sa.all /\ sa.queue \in Seq(sa.all) /\ sa.visited \subseteq sa.all /\ seeds \in Seq(Ents)
  BY <1>1 DEF TInv, SpreadTypes, RunTypes, QueryTypes, run
<1>3. sa.all \subseteq Ents /\ sa.spread \in Nat /\ sa.value \in [sa.all -> 0 .. Full] /\ sa.visited \subseteq Ents
  BY <1>2 DEF SpreadType, Activations
<1>4. /\ node \in sa.all /\ Tail(sa.queue) \in Seq(sa.all)
      /\ ToSet(sa.queue) = {node} \cup ToSet(Tail(sa.queue))
  BY <1>1, <1>2, HeadAndTail
<1> HIDE DEF node
<1>5. /\ \A C \in SUBSET Ents :
             ToSet(seeds) \subseteq C /\ (\A e \in C : \A a \in sa.arcs[e] : a[2] \in C) => sa.all \subseteq C
      /\ \A e \in Ents \ sa.all : sa.arcs[e] = {}
      /\ sa.all = WithinHops(MaxHops)
      /\ ToSet(seeds) \subseteq sa.visited \cup ToSet(sa.queue)
      /\ \A e \in sa.visited : \A a \in sa.arcs[e] : a[2] \in sa.visited \cup ToSet(sa.queue)
      /\ sa.spread = Cardinality(Shares(Handed, sa.visited))
      /\ \A i \in DOMAIN seeds : sa.value[seeds[i]] = Full
  BY <1>1 DEF Walked
<1>6. CASE node \in sa.visited
  <2>1. sa' = [sa EXCEPT !.queue = Tail(@)]
    BY <1>1, <1>6 DEF SpreadFrom
  <2>2. /\ sa'.queue = Tail(sa.queue) /\ sa'.value = sa.value /\ sa'.arcs = sa.arcs /\ sa'.w = sa.w /\ sa'.all = sa.all
        /\ sa'.visited = sa.visited /\ sa'.spread = sa.spread
    BY <1>2, <2>1 DEF SpreadType
  <2>3. sa'.visited \cup ToSet(sa'.queue) = sa.visited \cup ToSet(sa.queue)
    BY <1>4, <1>6, <2>2
  <2>4. WithinHops(MaxHops)' = WithinHops(MaxHops)
    BY <1>1, <1>2, <2>2, WalkNext
  <2>5. Cardinality(Shares(Handed, sa.visited))' = Cardinality(Shares(Handed, sa.visited))
    BY <2>2 DEF Shares, Share, Handed
  <2> QED BY <1>1, <1>5, <2>2, <2>3, <2>4, <2>5 DEF Walked
<1>7. CASE node \notin sa.visited
  <2> DEFINE new == {a[2] : a \in {x \in sa.arcs[node] : x[2] \notin sa.visited \cup {node}}}
             valueAfter(late) == [t \in sa.all |-> Received(t, node, late)]
  <2>1. PICK order \in Arrangements(new), late \in Later(node) :
         sa' = [sa EXCEPT !.queue = Tail(@) \o order, !.visited = @ \cup {node},
                          !.spread = @ + Cardinality(sa.arcs[node]), !.value = valueAfter(late)]
    BY <1>1, <1>7 DEF SpreadFrom
  <2> DEFINE value == valueAfter(late)
  <2>1a. sa' = [sa EXCEPT !.queue = Tail(@) \o order, !.visited = @ \cup {node},
                           !.spread = @ + Cardinality(sa.arcs[node]), !.value = value]
    BY <2>1
  <2>2. new \subseteq sa.all /\ IsFiniteSet(new)
    <3>1. new \in SUBSET sa.all /\ sa.all \in SUBSET Ents
      BY <1>2, <1>3, <1>4
    <3>2. IsFiniteSet(Ents)
      BY <1>2, GraphHolds
    <3> HIDE DEF new
    <3> QED BY <3>1, <3>2, FS_Subset
  <2>3. \A a \in sa.arcs[node] : a[2] \in new \cup sa.visited \cup {node}
    OBVIOUS
  <2> HIDE DEF new
  <2>4. order \in Seq(sa.all) /\ ToSet(order) = new
    <3>1. order \in Seq(new) /\ ToSet(order) = new
      BY <2>2, Arranged
    <3> QED BY <2>2, <3>1, Holds
  <2>5. ToSet(Tail(sa.queue) \o order) = ToSet(Tail(sa.queue)) \cup new
    BY <1>4, <2>4, ConcatHolds
  <2>6. sa.arcs[node] \in SUBSET (Rels \X Ents) /\ sa.value[node] \in Nat
    BY <1>2, <1>3, <1>4, NumbersAssumption DEF ArcsType
  <2>7. \A t \in sa.all : value[t] >= sa.value[t] /\ value[t] \in 0 .. Full
    <3>1. \A t \in sa.all : value[t] = Received(t, node, late) /\ sa.value[t] \in 0 .. Full
      BY <1>3
    <3> HIDE DEF value
    <3> QED BY <1>2, <2>6, <3>1, ReceivedHolds
  <2> HIDE DEF value
  <2>8. /\ sa'.queue = Tail(sa.queue) \o order /\ sa'.value = value /\ sa'.visited = sa.visited \cup {node}
        /\ sa'.spread = sa.spread + Cardinality(sa.arcs[node])
        /\ sa'.arcs = sa.arcs /\ sa'.w = sa.w /\ sa'.all = sa.all
    BY <1>2, <2>1a DEF SpreadType
  <2> DEFINE known == sa'.visited \cup ToSet(sa'.queue)
  <2>9. sa.visited \cup ToSet(sa.queue) \subseteq known /\ \A a \in sa.arcs[node] : a[2] \in known
    BY <1>4, <2>3, <2>5, <2>8
  <2>10. ToSet(seeds) \subseteq known /\ \A e \in sa'.visited : \A a \in sa'.arcs[e] : a[2] \in known
    <3> HIDE DEF known
    <3>1. \A e \in sa.visited : \A a \in sa.arcs[e] : a[2] \in known
      BY <1>5, <2>9
    <3>2. \A e \in sa'.visited : e \in sa.visited \/ e = node
      BY <2>8
    <3> QED BY <1>5, <2>8, <2>9, <3>1, <3>2
  <2>11. WithinHops(MaxHops)' = WithinHops(MaxHops)
    BY <1>1, <1>2, <2>8, WalkNext
  <2>12. sa'.spread = Cardinality(Shares(Handed, sa'.visited))
    <3>1. IsFiniteSet(sa.visited)
      BY <1>2, <1>3, GraphHolds, FS_Subset
    <3>2. \A y \in sa.visited \cup {node} : Handed[y] \in Nat
      BY <1>2, <1>3, <1>4, HandedHolds
    <3>3. Handed[node] = Cardinality(sa.arcs[node])
      BY <1>3, <1>4 DEF Handed
    <3>4. Cardinality(Shares(Handed, sa.visited \cup {node})) = Cardinality(Shares(Handed, sa.visited)) + Handed[node]
      BY <1>7, <3>1, <3>2, SharesGrow
    <3> QED BY <1>5, <2>8, <3>3, <3>4
  <2>13. Cardinality(Shares(Handed, sa.visited))' = Cardinality(Shares(Handed, sa'.visited))
    BY <2>8 DEF Shares, Share, Handed
  <2>14. \A i \in DOMAIN seeds : value[seeds[i]] = Full
    <3> TAKE i \in DOMAIN seeds
    <3>1. seeds[i] \in sa.all
      <4>1. seeds[i] \in ToSet(seeds)
        BY <1>2, Holds
      <4>2. ToSet(sa.queue) \subseteq sa.all
        BY <1>2, ToSetIn
      <4> QED BY <1>2, <1>5, <4>1, <4>2
    <3>2. value[seeds[i]] >= Full /\ value[seeds[i]] \in 0 .. Full
      BY <1>5, <2>7, <3>1
    <3> QED BY <3>2, NumbersAssumption
  <2> QED BY <1>1, <1>5, <2>8, <2>10, <2>11, <2>12, <2>13, <2>14 DEF Walked
<1> QED BY <1>6, <1>7

-------------------------------------------------------------------------------
(* What was picked is the best of what may be picked.                      *)

Unscored == {"ask", "keywords", "search", "weigh", "hop", "spread", "nodes", "relations", "rerank"}
IsSelected ==
  \/ phase = "score" /\ batch.kind = "rels"
  \/ phase = "boost"
  \/ phase \in {"evidence", "answer"} /\ ~trace.failed /\ scoring # <<>>
Choosable == {e \in Union.ents \cap store.known : scoring[e] >= Floor}
BestPicked ==
  LET did == ToSet(picked.ents)
  IN  /\ did \subseteq Choosable /\ Cardinality(did) = Len(picked.ents)
      /\ \A e \in Choosable \ did : Len(picked.ents) = TopE /\ \A d \in did : Outranks(d, e, scoring)
BestKept == (phase \in Unscored => scoring = <<>>) /\ (IsSelected => BestPicked)

LEMMA BestKeptImplies == BestKept => ContextIsBest
BY DEF BestKept, IsSelected, BestPicked, Choosable, ContextIsBest

\* A step that picks the same from the same keeps it the best.
LEMMA BestStays ==
  ASSUME BestPicked, UNCHANGED <<store, pool, scoring>>,
         ToSet(picked'.ents) = ToSet(picked.ents), Len(picked'.ents) = Len(picked.ents)
  PROVE  BestPicked'
<1>1. Choosable' = Choosable
  BY DEF Choosable, Union
<1>2. ToSet(picked.ents)' = ToSet(picked.ents) /\ Len(picked.ents)' = Len(picked.ents)
  OBVIOUS
<1>3. \A d, e : Outranks(d, e, scoring)' <=> Outranks(d, e, scoring)
  BY DEF Outranks
<1> QED BY <1>1, <1>2, <1>3 DEF BestPicked

LEMMA SelectEntitiesRanks == ASSUME TellsInv, SelectEntities PROVE BestKept'
<1> DEFINE b == BestOf(Documents("ents"), batch.out, TopE)
<1>1. /\ phase = "score" /\ phase' = "score" /\ batch.kind = "ents" /\ Len(batch.out) = Len(Documents("ents"))
      /\ picked' = [picked EXCEPT !.ents = b] /\ UNCHANGED <<pool, scoring, run>>
  BY DEF SelectEntities
<1>2. Scoring /\ store \in Stores /\ picked \in [ents : Seq(Ents), rels : Seq(Rels)] /\ store' = store
  BY <1>1 DEF TellsInv, TInv, BatchTypes, RunTypes, run
<1> DEFINE D == Union.ents \cap store.known
<1>3. /\ b \in Seq(D) /\ ToSet(b) \subseteq D /\ Distinctly(b)
      /\ \A e \in ToSet(b) : scoring[e] >= Floor
      /\ \A e \in D \ ToSet(b) : scoring[e] >= Floor =>
            Len(b) = TopE /\ \A d \in ToSet(b) : Outranks(d, e, scoring)
  BY <1>1, <1>2, NumbersAssumption, ChosenHolds
<1>4. picked'.ents = b
  BY <1>1, <1>2
<1> HIDE DEF b
<1>5. Cardinality(ToSet(b)) = Len(b)
  BY <1>3, DistinctCounts
<1>6. Choosable = {e \in D : scoring[e] >= Floor} /\ Choosable' = Choosable
  BY <1>1, <1>2 DEF Choosable, Union
<1> HIDE DEF D
<1>7. /\ ToSet(b) \subseteq Choosable
      /\ \A e \in Choosable \ ToSet(b) : Len(b) = TopE /\ \A d \in ToSet(b) : Outranks(d, e, scoring)
  BY <1>3, <1>6
<1>8. \A d, e : Outranks(d, e, scoring)' <=> Outranks(d, e, scoring)
  BY <1>1 DEF Outranks
<1>9. BestPicked'
  BY <1>4, <1>5, <1>6, <1>7, <1>8 DEF BestPicked
<1> QED BY <1>1, <1>9 DEF BestKept, Unscored

LEMMA SelectRelationsRanks == ASSUME TellsInv, BestKept, SelectRelations PROVE BestKept'
<1>1. /\ phase = "score" /\ phase' = "boost" /\ batch.kind = "rels" /\ UNCHANGED <<pool, scoring, run>>
      /\ picked' = [ents |-> InContext(picked.ents), rels |-> BestOf(Documents("rels"), batch.out, TopR)]
  BY DEF SelectRelations
<1>2. /\ picked.ents \in Seq(Ents) /\ ToSet(picked.ents) \subseteq store.known /\ Distinctly(picked.ents)
      /\ BestPicked /\ UNCHANGED <<store, pool, scoring>> /\ picked'.ents = InContext(picked.ents)
  BY <1>1 DEF TellsInv, TInv, BatchTypes, StagesTell, BestKept, IsSelected, run
<1>3. InContext(picked.ents) \in Seq(Ents) /\ ToSet(InContext(picked.ents)) = ToSet(picked.ents)
  BY <1>2, ContextHolds
<1>4. Distinctly(InContext(picked.ents))
  <2> DEFINE P == {i \in DOMAIN picked.ents : picked.ents[i] \in store.known}
  <2>1. Distinctly(At(picked.ents, P))
    BY <1>2, FilterDistinct
  <2> QED BY <2>1 DEF InContext
<1>5. Len(InContext(picked.ents)) = Len(picked.ents)
  <2>1. Cardinality(ToSet(InContext(picked.ents))) = Len(InContext(picked.ents))
    BY <1>3, <1>4, DistinctCounts
  <2>2. Cardinality(ToSet(picked.ents)) = Len(picked.ents)
    BY <1>2, DistinctCounts
  <2> QED BY <1>3, <2>1, <2>2
<1>6. BestPicked'
  BY <1>2, <1>3, <1>5, BestStays
<1> QED BY <1>1, <1>6 DEF BestKept, Unscored

LEMMA BoostRanks == ASSUME TellsInv, BestKept, Boost PROVE BestKept'
<1>1. /\ phase = "boost" /\ phase' = "evidence"
      /\ UNCHANGED <<run, kw, seeds, sa, pool, batch, scoring, stages, trace>>
      /\ \E inside : picked' = [picked EXCEPT !.ents = Boosted(@, inside)]
  BY DEF Boost
<1>2. PICK inside : picked' = [picked EXCEPT !.ents = Boosted(@, inside)]
  BY <1>1
<1>3. /\ picked \in [ents : Seq(Ents), rels : Seq(Rels)] /\ Distinctly(picked.ents)
      /\ BestPicked /\ UNCHANGED <<store, pool, scoring>>
  BY <1>1 DEF TellsInv, TInv, BatchTypes, StagesTell, BestKept, IsSelected, run
<1>4. picked'.ents = Boosted(picked.ents, inside)
  BY <1>2, <1>3
<1>5. ToSet(Boosted(picked.ents, inside)) = ToSet(picked.ents) /\ Len(Boosted(picked.ents, inside)) = Len(picked.ents)
  BY <1>3, BoostedHolds
<1>6. BestPicked'
  BY <1>3, <1>4, <1>5, BestStays
<1> QED BY <1>1, <1>6 DEF BestKept, Unscored

LEMMA EvidenceRanks == ASSUME TellsInv, BestKept, BuildEvidence PROVE BestKept'
<1>1. phase = "evidence" /\ phase' = "answer" /\ UNCHANGED <<run, local>>
  BY DEF BuildEvidence
<1>2. trace'.failed = trace.failed
  BY DEF BuildEvidence, TellsInv, TInv, QueryTypes, TraceType
<1>3. UNCHANGED <<store, pool, scoring, picked>>
  BY <1>1 DEF run, local
<1>4. IsSelected' => IsSelected
  BY <1>1, <1>2, <1>3 DEF IsSelected
<1>5. IsSelected' => BestPicked'
  BY <1>3, <1>4, BestStays DEF BestKept
<1> QED BY <1>1, <1>5 DEF BestKept, Unscored

\* Before the reranker nothing is scored; while it scores, what is picked stays.
LEMMA SearchRanks ==
  ASSUME BestKept, Ask \/ KeywordsFromCache \/ KeywordsFromModel \/ SearchEntities \/ Weigh \/ Hop
                   \/ StartSpreading \/ Spread \/ EndSpreading \/ NodeSubgraph \/ SearchRelations
  PROVE  BestKept'
<1>1. phase \in Unscored /\ phase' \in Unscored \cup {"evidence"} /\ scoring' = scoring
  BY DEF Ask, KeywordsFromCache, KeywordsFromModel, SearchEntities, Weigh, Hop, StartSpreading, Spread,
         EndSpreading, NodeSubgraph, SearchRelations, Unscored, local
<1> QED BY <1>1 DEF BestKept, IsSelected, Unscored

LEMMA ScoreRanks == ASSUME TellsInv, BestKept, Rerank \/ ScoreBatch PROVE BestKept'
<1>1. CASE Rerank
  BY <1>1 DEF Rerank, StartScoring, BestKept, IsSelected, Unscored
<1>2. CASE ScoreBatch
  <2>1. phase = "score" /\ phase' = "score" /\ UNCHANGED <<store, pool, scoring, picked>>
    BY <1>2 DEF ScoreBatch, run
  <2>2. batch'.kind = batch.kind
    BY <1>2 DEF ScoreBatch, TellsInv, TInv, BatchTypes
  <2>3. IsSelected' => BestPicked'
    BY <2>1, <2>2, BestStays DEF BestKept, IsSelected
  <2> QED BY <2>1, <2>3 DEF BestKept, Unscored
<1> QED BY <1>1, <1>2

LEMMA EndRanks ==
  ASSUME BestKept, RetrievalRaises \/ Answer \/ AnswerRaises \/ Diagnose
  PROVE  BestKept'
<1>1. CASE RetrievalRaises
  BY <1>1 DEF RetrievalRaises, BestKept, IsSelected, Unscored, NoTrace
<1>2. CASE Answer \/ AnswerRaises
  BY <1>2 DEF Answer, AnswerRaises, EndQuestion, BestKept, IsSelected, Unscored
<1>3. CASE Diagnose
  BY <1>3 DEF Diagnose, BestKept, IsSelected, Unscored, local
<1> QED BY <1>1, <1>2, <1>3

FoundInv == TellsInv /\ Walked /\ BestKept

LEMMA BeginFinds == RetrieveInit => FoundInv
<1> SUFFICES ASSUME RetrieveInit PROVE FoundInv
  OBVIOUS
<1>1. TellsInv
  BY BeginTells
<1>2. phase = "ask" /\ scoring = <<>>
  BY DEF RetrieveInit, Blank
<1> QED BY <1>1, <1>2 DEF FoundInv, Walked, BestKept, Unscored, IsSelected

LEMMA RestFinds ==
  ASSUME FoundInv, UNCHANGED retrieveVars
  PROVE  Walked' /\ BestKept'
<1>1. UNCHANGED <<store, phase, seeds, sa, pool, batch, scoring, picked, trace>>
  BY DEF retrieveVars, run, local
<1>2. Walked'
  <2>1. /\ WithinHops(MaxHops)' = WithinHops(MaxHops) /\ WithinHops(sa.hop)' = WithinHops(sa.hop)
        /\ \A e : KeptArcs(e)' = KeptArcs(e)
    BY <1>1, WalkNext
  <2>2. Cardinality(Shares(Handed, sa.visited))' = Cardinality(Shares(Handed, sa.visited))
    BY <1>1 DEF Shares, Share, Handed
  <2> QED BY <1>1, <2>1, <2>2 DEF FoundInv, Walked
<1>3. BestKept'
  BY <1>1, BestStays DEF FoundInv, BestKept, IsSelected
<1> QED BY <1>2, <1>3

LEMMA StepFinds == FoundInv /\ [RetrieveNext]_retrieveVars => FoundInv'
<1> SUFFICES ASSUME FoundInv, [RetrieveNext]_retrieveVars PROVE FoundInv'
  OBVIOUS
<1>0. TellsInv /\ TellsInv' /\ TInv /\ TInv' /\ Walked /\ BestKept
  BY StepTells DEF FoundInv, TellsInv
<1>1. CASE Weigh \/ Hop \/ StartSpreading \/ Spread
  BY <1>0, <1>1, WeighWalks, HopWalks, StartWalks, SpreadWalks, SearchRanks DEF FoundInv
<1>2. CASE UNCHANGED retrieveVars
  BY <1>0, <1>2, RestFinds DEF FoundInv
<1>3. CASE \/ Ask \/ KeywordsFromCache \/ KeywordsFromModel \/ SearchEntities \/ EndSpreading \/ NodeSubgraph
           \/ SearchRelations
  <2>1. phase' \notin {"hop", "spread"}
    BY <1>3 DEF Ask, KeywordsFromCache, KeywordsFromModel, SearchEntities, EndSpreading, NodeSubgraph, SearchRelations
  <2> QED BY <1>0, <1>3, <2>1, SearchRanks DEF FoundInv, Walked
<1>4. CASE \/ Rerank \/ ScoreBatch \/ SelectEntities \/ SelectRelations \/ Boost \/ BuildEvidence
           \/ RetrievalRaises \/ Answer \/ AnswerRaises \/ Diagnose
  <2>1. phase' \notin {"hop", "spread"}
    BY <1>4 DEF Rerank, ScoreBatch, SelectEntities, SelectRelations, Boost, BuildEvidence,
                RetrievalRaises, Answer, AnswerRaises, EndQuestion, Diagnose
  <2>2. BestKept'
    BY <1>0, <1>4, ScoreRanks, SelectEntitiesRanks, SelectRelationsRanks, BoostRanks, EvidenceRanks, EndRanks
  <2> QED BY <1>0, <2>1, <2>2 DEF FoundInv, Walked
<1> QED BY <1>1, <1>2, <1>3, <1>4 DEF RetrieveNext

(* What the graph walk and the ranking leave is what they were to find: for   *)
(* any graph, stores, weights and scores, spreading activation reaches the    *)
(* entities within the hops and no others, hands on over every kept           *)
(* relationship once, and the context is the best of what either branch found *)
(* and the cache knows (graph_expansion.py, retrieval/pipeline.py).           *)
THEOREM ContextIsAlwaysFound == RetrieveSpec => []ContextIsFound
<1>1. FoundInv => ContextIsFound
  BY WalkedImplies, BestKeptImplies DEF FoundInv, TellsInv, ContextIsFound
<1>2. RetrieveSpec => []FoundInv
  BY BeginFinds, StepFinds, PTL DEF RetrieveSpec
<1> QED BY <1>1, <1>2, PTL

================================================================================
