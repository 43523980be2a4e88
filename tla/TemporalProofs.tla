---------------------------- MODULE TemporalProofs ----------------------------
(***************************************************************************)
(* Proofs about Temporal, for any texts, reference times, calendar and     *)
(* policy of last weekdays: rewriting a text changes its expressions and   *)
(* nothing else, however many there are, and what is written to the graph  *)
(* names its times for themselves, however the model wrote them.           *)
(*                                                                         *)
(* What lists hold is proved in QueryProofs.                               *)
(***************************************************************************)
EXTENDS QueryProofs, Temporal

-------------------------------------------------------------------------------
(* What is built step by step.                                                 *)

\* Induction up to n, over a set of numbers.
LEMMA StepByStep ==
  ASSUME NEW n \in Nat, NEW Good, 0 \in Good, \A k \in 1 .. n : k - 1 \in Good => k \in Good
  PROVE  \A k \in 0 .. n : k \in Good
<1> DEFINE Bad == {k \in 0 .. n : k \notin Good}
<1>0. SUFFICES ASSUME Bad # {} PROVE FALSE
  OBVIOUS
<1>1. Bad \in SUBSET Nat
  OBVIOUS
<1>2. PICK m \in Bad : \A k \in Bad : m <= k
  <2> HIDE DEF Bad
  <2> QED BY <1>0, <1>1, LeastNat
<1>3. m \in 1 .. n /\ m - 1 \in 0 .. n /\ ~(m <= m - 1)
  BY <1>2
<1>4. m - 1 \notin Bad
  BY <1>2, <1>3
<1> QED BY <1>2, <1>3, <1>4

\* What a loop makes of v in n rounds.
Rounds(f, v, n, G) == f[0] = v /\ \A k \in 1 .. n : f[k] = G[<<k, f[k - 1]>>]

LEMMA RoundsExist ==
  ASSUME NEW V, NEW v \in V, NEW n \in Nat, NEW G \in [(1 .. n) \X V -> V]
  PROVE  \E f \in [0 .. n -> V] : Rounds(f, v, n, G)
<1> DEFINE Good == {m \in 0 .. n : \E f \in [0 .. m -> V] : Rounds(f, v, m, G)}
<1>1. 0 \in Good
  <2> DEFINE f == [k \in 0 .. 0 |-> v]
  <2>1. f \in [0 .. 0 -> V] /\ Rounds(f, v, 0, G)
    BY DEF Rounds
  <2> HIDE DEF f
  <2> QED BY <2>1
<1>2. ASSUME NEW m \in 1 .. n, m - 1 \in Good PROVE m \in Good
  <2>1. PICK g \in [0 .. (m - 1) -> V] : Rounds(g, v, m - 1, G)
    BY <1>2
  <2> DEFINE x == G[<<m, g[m - 1]>>]
             f == [k \in 0 .. m |-> IF k < m THEN g[k] ELSE x]
  <2>2. g[m - 1] \in V
    BY <2>1
  <2>3. x \in V
    <3>1. <<m, g[m - 1]>> \in (1 .. n) \X V
      BY <2>2
    <3> QED BY <3>1
  <2> HIDE DEF x
  <2>4. f \in [0 .. m -> V] /\ f[m] = x /\ \A k \in 0 .. (m - 1) : f[k] = g[k]
    BY <2>3
  <2> HIDE DEF f
  <2>8. g[0] = v /\ \A k \in 1 .. (m - 1) : g[k] = G[<<k, g[k - 1]>>]
    BY <2>1 DEF Rounds
  <2>5. f[0] = v
    <3>1. 0 \in 0 .. (m - 1)
      OBVIOUS
    <3> QED BY <2>4, <2>8, <3>1
  <2>6. ASSUME NEW k \in 1 .. m PROVE f[k] = G[<<k, f[k - 1]>>]
    <3>1. k - 1 \in 0 .. (m - 1) /\ f[k - 1] = g[k - 1]
      BY <2>4
    <3>2. CASE k = m
      BY <2>4, <3>1, <3>2 DEF x
    <3>3. CASE k # m
      <4>1. k \in 1 .. (m - 1) /\ k \in 0 .. (m - 1)
        BY <3>3
      <4> QED BY <2>4, <2>8, <3>1, <4>1
    <3> QED BY <3>2, <3>3
  <2>7. Rounds(f, v, m, G)
    BY <2>5, <2>6 DEF Rounds
  <2> QED BY <2>4, <2>7
<1> HIDE DEF Good
<1>3. n \in Good
  BY <1>1, <1>2, StepByStep, n \in 0 .. n
<1> QED BY <1>3 DEF Good

-------------------------------------------------------------------------------
(* Cutting lists and putting them together.                                    *)

\* A list is its first and its last items.
LEMMA CutInTwo ==
  ASSUME NEW S, NEW s \in Seq(S), NEW m \in Nat, NEW n \in Nat, m <= n, n <= Len(s)
  PROVE  /\ SubSeq(s, 1, m) \in Seq(S) /\ Len(SubSeq(s, 1, m)) = m
         /\ SubSeq(s, m + 1, n) \in Seq(S) /\ Len(SubSeq(s, m + 1, n)) = n - m
         /\ SubSeq(s, 1, m) \o SubSeq(s, m + 1, n) = SubSeq(s, 1, n)
<1>1. Len(s) \in Nat /\ \A i \in 1 .. Len(s) : s[i] \in S
  BY LenProperties, ElementOfSeq
<1>2. /\ SubSeq(s, 1, m) \in Seq(S)
      /\ Len(SubSeq(s, 1, m)) = IF 1 <= m THEN m - 1 + 1 ELSE 0
  <2>1. \A i \in 1 .. m : s[i] \in S
    BY <1>1
  <2> QED BY <2>1, SubSeqProperties
<1>3. /\ SubSeq(s, m + 1, n) \in Seq(S)
      /\ Len(SubSeq(s, m + 1, n)) = IF m + 1 <= n THEN n - (m + 1) + 1 ELSE 0
  <2>1. \A i \in (m + 1) .. n : s[i] \in S
    BY <1>1
  <2> QED BY <2>1, SubSeqProperties
<1>4. SubSeq(s, 1, m) \o SubSeq(s, m + 1, n) = SubSeq(s, 1, n)
  BY <1>1, ConcatAdjacentSubSeq, 1 \in 1 .. (Len(s) + 1), m \in 0 .. Len(s), n \in m .. Len(s)
<1> QED BY <1>2, <1>3, <1>4

\* A list is a front and an end.
EndsIn(whole, front, end) == whole = front \o end

\* Taking a place a .. b out of the first part of a list.
LEMMA CutFromJoined ==
  ASSUME NEW S, NEW s \in Seq(S), NEW u \in Seq(S), NEW m \in Nat, NEW n \in Nat, m <= n, n <= Len(s)
  PROVE  LET l == SubSeq(s, 1, n) \o u
         IN /\ SubSeq(l, 1, m) = SubSeq(s, 1, m)
            /\ SubSeq(l, m + 1, Len(l)) = SubSeq(s, m + 1, n) \o u
<1> DEFINE h == SubSeq(s, 1, n)
           l == h \o u
<1>1. h \in Seq(S) /\ Len(h) = n /\ Len(u) \in Nat /\ Len(s) \in Nat
  BY CutInTwo, LenProperties
<1>2. /\ SubSeq(s, m + 1, n) \in Seq(S) /\ Len(SubSeq(s, m + 1, n)) = n - m
      /\ SubSeq(s, 1, m) \in Seq(S) /\ Len(SubSeq(s, 1, m)) = m
  BY CutInTwo
<1>3. \A i \in 1 .. Len(s) : s[i] \in S
  BY ElementOfSeq
<1>4. \A i \in 1 .. n : h[i] = s[i]
  <2>1. \A i \in 1 .. n : s[i] \in S
    BY <1>1, <1>3
  <2>2. \A i \in 1 .. (n - 1 + 1) : h[i] = s[1 + i - 1]
    BY <2>1, SubSeqProperties
  <2> QED BY <2>2
<1> HIDE DEF h
<1>5. /\ l \in Seq(S) /\ Len(l) = n + Len(u)
      /\ \A i \in 1 .. (n + Len(u)) : l[i] = IF i <= n THEN h[i] ELSE u[i - n]
  BY <1>1, ConcatProperties
<1> HIDE DEF l
<1>6. \A i \in 1 .. (n + Len(u)) : l[i] \in S
  BY <1>5, ElementOfSeq
<1>7. SubSeq(l, 1, m) = SubSeq(s, 1, m)
  <2>1. /\ SubSeq(l, 1, m) \in Seq(S) /\ Len(SubSeq(l, 1, m)) = (IF 1 <= m THEN m - 1 + 1 ELSE 0)
        /\ \A i \in 1 .. (m - 1 + 1) : SubSeq(l, 1, m)[i] = l[1 + i - 1]
    <3>1. \A i \in 1 .. m : l[i] \in S
      BY <1>1, <1>6
    <3> QED BY <3>1, SubSeqProperties
  <2>2. \A i \in 1 .. (m - 1 + 1) : SubSeq(s, 1, m)[i] = s[1 + i - 1]
    <3>1. \A i \in 1 .. m : s[i] \in S
      BY <1>1, <1>3
    <3> QED BY <3>1, SubSeqProperties
  <2>3. \A i \in 1 .. m : SubSeq(l, 1, m)[i] = SubSeq(s, 1, m)[i]
    BY <1>1, <1>4, <1>5, <2>1, <2>2
  <2> QED BY <1>2, <2>1, <2>3, SeqEqual
<1>8. SubSeq(l, m + 1, Len(l)) = SubSeq(s, m + 1, n) \o u
  <2> DEFINE w == SubSeq(s, m + 1, n)
             x == SubSeq(l, m + 1, n + Len(u))
  <2>1. /\ x \in Seq(S)
        /\ Len(x) = (IF m + 1 <= n + Len(u) THEN n + Len(u) - (m + 1) + 1 ELSE 0)
        /\ \A i \in 1 .. (n + Len(u) - (m + 1) + 1) : x[i] = l[(m + 1) + i - 1]
    <3>1. \A i \in (m + 1) .. (n + Len(u)) : l[i] \in S
      BY <1>1, <1>6
    <3>2. m + 1 \in Int /\ n + Len(u) \in Int
      BY <1>1
    <3> QED BY <3>1, <3>2, SubSeqProperties
  <2>2. \A i \in 1 .. (n - (m + 1) + 1) : w[i] = s[(m + 1) + i - 1]
    <3>1. \A i \in (m + 1) .. n : s[i] \in S
      BY <1>1, <1>3
    <3> QED BY <3>1, SubSeqProperties
  <2>3. w \in Seq(S) /\ Len(w) = n - m
    BY <1>2
  <2> HIDE DEF w, x
  <2>4. /\ w \o u \in Seq(S) /\ Len(w \o u) = n - m + Len(u)
        /\ \A i \in 1 .. (n - m + Len(u)) : (w \o u)[i] = IF i <= n - m THEN w[i] ELSE u[i - (n - m)]
    <3>1. /\ w \o u \in Seq(S) /\ Len(w \o u) = Len(w) + Len(u)
          /\ \A i \in 1 .. (Len(w) + Len(u)) : (w \o u)[i] = IF i <= Len(w) THEN w[i] ELSE u[i - Len(w)]
      BY <2>3, ConcatProperties
    <3> QED BY <2>3, <3>1
  <2>5. Len(x) = n - m + Len(u)
    BY <1>1, <2>1
  <2>6. ASSUME NEW i \in 1 .. (n - m + Len(u)) PROVE x[i] = (w \o u)[i]
    <3>1. x[i] = l[m + i] /\ m + i \in 1 .. (n + Len(u))
      BY <1>1, <2>1
    <3>2. CASE i <= n - m
      BY <1>1, <1>4, <1>5, <2>2, <2>4, <3>1, <3>2
    <3>3. CASE ~(i <= n - m)
      BY <1>1, <1>5, <2>4, <3>1, <3>3
    <3> QED BY <3>2, <3>3
  <2>7. x = w \o u
    BY <2>1, <2>4, <2>5, <2>6, SeqEqual
  <2> QED BY <1>5, <2>7 DEF w, x
<1> QED BY <1>7, <1>8 DEF l, h

LEMMA CutAfter ==
  ASSUME NEW S, NEW s \in Seq(S), NEW u, u \in Seq(S), NEW m \in Nat, NEW n \in Nat, m <= n, n <= Len(s)
  PROVE  EndsIn(SubSeq(SubSeq(s, 1, n) \o u, m + 1, Len(SubSeq(s, 1, n) \o u)), SubSeq(s, m + 1, n), u)
BY CutFromJoined DEF EndsIn

-------------------------------------------------------------------------------
(* Rewriting a text from right to left.                                        *)

\* Constraints in the order of the text, none over another.
Apart(t, cs) ==
  /\ Len(cs) \in Nat /\ DOMAIN cs = 1 .. Len(cs)
  /\ \A k \in 1 .. Len(cs) :
        /\ cs[k].from \in 1 .. Len(t) /\ cs[k].to \in 1 .. Len(t)
        /\ cs[k].to = cs[k].from \/ cs[k].to = cs[k].from + 1
  /\ \A k, l \in 1 .. Len(cs) : k < l => cs[k].to < cs[l].from

\* How much of the text stands before the j-th of them.
Before(t, cs, j) == IF j = Len(cs) + 1 THEN Len(t) ELSE cs[j].from - 1

LEMMA BetweenThem ==
  ASSUME NEW U, NEW t \in Seq(U), NEW cs, Apart(t, cs)
  PROVE  /\ \A j \in 1 .. (Len(cs) + 1) : Before(t, cs, j) \in 0 .. Len(t)
         /\ \A j \in 1 .. Len(cs) : cs[j].to <= Before(t, cs, j + 1)
         /\ \A j \in 1 .. Len(cs) : \A i \in (cs[j].to + 1) .. Before(t, cs, j + 1) :
              \A k \in 1 .. Len(cs) : ~(cs[k].from <= i /\ i <= cs[k].to)
         /\ \A i \in 1 .. Before(t, cs, 1) : \A k \in 1 .. Len(cs) : ~(cs[k].from <= i /\ i <= cs[k].to)
<1> DEFINE n == Len(cs)
<1>1. /\ n \in Nat /\ Len(t) \in Nat
      /\ \A k \in 1 .. n : cs[k].from \in 1 .. Len(t) /\ cs[k].to \in 1 .. Len(t) /\ cs[k].from <= cs[k].to
      /\ \A k, l \in 1 .. n : k < l => cs[k].to < cs[l].from
  BY LenProperties DEF Apart
<1>2. \A j \in 1 .. (n + 1) : Before(t, cs, j) \in 0 .. Len(t)
  <2> SUFFICES ASSUME NEW j \in 1 .. (n + 1) PROVE Before(t, cs, j) \in 0 .. Len(t)
    OBVIOUS
  <2>1. CASE j = n + 1
    BY <1>1, <2>1 DEF Before
  <2>2. CASE j # n + 1
    <3>1. j \in 1 .. n
      BY <1>1, <2>2
    <3> QED BY <1>1, <2>2, <3>1 DEF Before
  <2> QED BY <2>1, <2>2
<1>3. ASSUME NEW j \in 1 .. n
      PROVE  /\ cs[j].to <= Before(t, cs, j + 1)
             /\ j + 1 \in 1 .. n => Before(t, cs, j + 1) < cs[j + 1].from
  <2>1. CASE j = n
    BY <1>1, <2>1 DEF Before
  <2>2. CASE j # n
    <3>1. j + 1 \in 1 .. n /\ j < j + 1 /\ Before(t, cs, j + 1) = cs[j + 1].from - 1
      BY <1>1, <2>2 DEF Before
    <3>2. cs[j].to < cs[j + 1].from /\ cs[j].to \in Int /\ cs[j + 1].from \in Int
      BY <1>1, <3>1
    <3> QED BY <3>1, <3>2
  <2> QED BY <2>1, <2>2
<1>4. ASSUME NEW j \in 1 .. n, NEW i \in (cs[j].to + 1) .. Before(t, cs, j + 1), NEW k \in 1 .. n
      PROVE  ~(cs[k].from <= i /\ i <= cs[k].to)
  <2>0. cs[j].to \in Int /\ cs[j].from \in Int /\ cs[k].to \in Int /\ cs[k].from \in Int /\ i \in Int
    BY <1>1, <1>2
  <2>1. CASE k <= j
    <3>1. cs[k].to <= cs[j].to
      <4>1. CASE k = j
        BY <2>0, <4>1
      <4>2. CASE k < j
        <5>1. cs[k].to < cs[j].from /\ cs[j].from <= cs[j].to
          BY <1>1, <4>2
        <5> QED BY <2>0, <5>1
      <4> QED BY <1>1, <2>1, <4>1, <4>2
    <3>2. cs[j].to < i
      BY <2>0
    <3> QED BY <2>0, <3>1, <3>2
  <2>2. CASE ~(k <= j)
    <3>1. j + 1 \in 1 .. n /\ cs[j + 1].from \in Int /\ cs[j + 1].to \in Int
      BY <1>1, <2>2
    <3>2. cs[j + 1].from <= cs[k].from
      <4>1. CASE k = j + 1
        BY <2>0, <4>1
      <4>2. CASE j + 1 < k
        <5>1. cs[j + 1].to < cs[k].from /\ cs[j + 1].from <= cs[j + 1].to
          BY <1>1, <3>1, <4>2
        <5> QED BY <2>0, <3>1, <5>1
      <4> QED BY <1>1, <2>2, <4>1, <4>2
    <3>3. Before(t, cs, j + 1) < cs[j + 1].from /\ Before(t, cs, j + 1) \in Int
      <4>1. Before(t, cs, j + 1) \in 0 .. Len(t)
        BY <1>1, <1>2, <3>1
      <4> QED BY <1>3, <3>1, <4>1
    <3> QED BY <2>0, <3>1, <3>2, <3>3
  <2> QED BY <2>1, <2>2
<1>5. ASSUME NEW i \in 1 .. Before(t, cs, 1), NEW k \in 1 .. n
      PROVE  ~(cs[k].from <= i /\ i <= cs[k].to)
  <2>0. cs[k].from \in Int /\ cs[1].from \in Int /\ cs[1].to \in Int /\ 1 \in 1 .. n
    BY <1>1
  <2>1. Before(t, cs, 1) = cs[1].from - 1
    BY <1>1, <2>0 DEF Before
  <2>2. cs[1].from <= cs[k].from
    <3>1. CASE k = 1
      BY <2>0, <3>1
    <3>2. CASE 1 < k
      <4>1. cs[1].to < cs[k].from /\ cs[1].from <= cs[1].to
        BY <1>1, <2>0, <3>2
      <4> QED BY <2>0, <4>1
    <3> QED BY <3>1, <3>2
  <2> QED BY <2>0, <2>1, <2>2
<1> QED BY <1>2, <1>3, <1>4, <1>5

\* The place of a constraint is its own.
LEMMA ResolvedAtIs ==
  ASSUME NEW U, NEW t \in Seq(U), NEW cs, Apart(t, cs), NEW i \in 1 .. Len(t)
  PROVE  /\ (\A k \in 1 .. Len(cs) : ~(cs[k].from <= i /\ i <= cs[k].to)) => ResolvedAt(Range(cs), i) = {}
         /\ \A j \in 1 .. Len(cs) : cs[j].from <= i /\ i <= cs[j].to =>
              ResolvedAt(Range(cs), i) = IF cs[j].res.status = "resolved" THEN {cs[j]} ELSE {}
<1> DEFINE n == Len(cs)
<1>1. /\ n \in Nat /\ DOMAIN cs = 1 .. n /\ Len(t) \in Nat
      /\ \A k \in 1 .. n : cs[k].from \in 1 .. Len(t) /\ cs[k].to \in 1 .. Len(t)
      /\ \A k, l \in 1 .. n : k < l => cs[k].to < cs[l].from
  BY LenProperties DEF Apart
<1>2. Range(cs) = {cs[k] : k \in 1 .. n}
  BY <1>1 DEF Range
<1>3. ResolvedAt(Range(cs), i) =
        {c \in {cs[k] : k \in 1 .. n} : c.res.status = "resolved" /\ c.from <= i /\ i <= c.to}
  BY <1>2 DEF ResolvedAt
<1>4. ASSUME NEW j \in 1 .. n, cs[j].from <= i, i <= cs[j].to,
             NEW k \in 1 .. n, cs[k].from <= i, i <= cs[k].to
      PROVE  k = j
  <2>1. cs[j].from \in Int /\ cs[j].to \in Int /\ cs[k].from \in Int /\ cs[k].to \in Int /\ i \in Int
    BY <1>1
  <2>2. CASE k < j
    BY <1>1, <1>4, <2>1, <2>2
  <2>3. CASE j < k
    BY <1>1, <1>4, <2>1, <2>3
  <2> QED BY <1>1, <2>2, <2>3
<1>5. ASSUME \A k \in 1 .. n : ~(cs[k].from <= i /\ i <= cs[k].to) PROVE ResolvedAt(Range(cs), i) = {}
  BY <1>3, <1>5
<1>6. ASSUME NEW j \in 1 .. n, cs[j].from <= i, i <= cs[j].to
      PROVE  ResolvedAt(Range(cs), i) = IF cs[j].res.status = "resolved" THEN {cs[j]} ELSE {}
  <2>1. \A c \in ResolvedAt(Range(cs), i) : c = cs[j] /\ cs[j].res.status = "resolved"
    BY <1>3, <1>4, <1>6
  <2>2. cs[j].res.status = "resolved" => cs[j] \in ResolvedAt(Range(cs), i)
    BY <1>3, <1>6
  <2> QED BY <2>1, <2>2
<1> QED BY <1>5, <1>6

\* What each place of the text becomes.
LEMMA SegmentIs ==
  ASSUME NEW U, NEW t \in Seq(U), NEW cs, Apart(t, cs), NEW i \in 1 .. Len(t)
  PROVE  /\ (\A k \in 1 .. Len(cs) : ~(cs[k].from <= i /\ i <= cs[k].to)) => Segment(t, Range(cs), i) = <<t[i]>>
         /\ \A j \in 1 .. Len(cs) : cs[j].from <= i /\ i <= cs[j].to =>
              Segment(t, Range(cs), i) =
                IF cs[j].res.status # "resolved" THEN <<t[i]>>
                ELSE IF cs[j].to = i THEN Piece(t, cs[j]) ELSE <<>>
<1> DEFINE R == ResolvedAt(Range(cs), i)
           c0 == CHOOSE c \in R : TRUE
<1>1. Segment(t, Range(cs), i) =
        IF R = {} THEN <<t[i]>> ELSE IF c0.to = i THEN Piece(t, c0) ELSE <<>>
  BY DEF Segment
<1>2. /\ (\A k \in 1 .. Len(cs) : ~(cs[k].from <= i /\ i <= cs[k].to)) => R = {}
      /\ \A j \in 1 .. Len(cs) : cs[j].from <= i /\ i <= cs[j].to =>
           R = IF cs[j].res.status = "resolved" THEN {cs[j]} ELSE {}
  BY ResolvedAtIs
<1> HIDE DEF R
<1>3. \A x : R = {x} => c0 = x
  OBVIOUS
<1> HIDE DEF c0
<1>4. ASSUME \A k \in 1 .. Len(cs) : ~(cs[k].from <= i /\ i <= cs[k].to)
      PROVE  Segment(t, Range(cs), i) = <<t[i]>>
  BY <1>1, <1>2, <1>4
<1>5. ASSUME NEW j \in 1 .. Len(cs), cs[j].from <= i, i <= cs[j].to
      PROVE  Segment(t, Range(cs), i) =
                IF cs[j].res.status # "resolved" THEN <<t[i]>>
                ELSE IF cs[j].to = i THEN Piece(t, cs[j]) ELSE <<>>
  <2>1. R = IF cs[j].res.status = "resolved" THEN {cs[j]} ELSE {}
    BY <1>2, <1>5
  <2>2. CASE cs[j].res.status = "resolved"
    <3>1. R = {cs[j]} /\ R # {} /\ c0 = cs[j]
      BY <1>3, <2>1, <2>2
    <3> QED BY <1>1, <2>2, <3>1
  <2>3. CASE cs[j].res.status # "resolved"
    BY <1>1, <2>1, <2>3
  <2> QED BY <2>2, <2>3
<1> QED BY <1>4, <1>5

\* The new text up to a place, and its pieces.
PiecesOf(t, cs, pieces, U) == \A k \in 1 .. Len(cs) : pieces[k] \in Seq(U) /\ pieces[k] = Piece(t, cs[k])

LEMMA SegmentsAreLists ==
  ASSUME NEW U, NEW t \in Seq(U), NEW cs, Apart(t, cs), NEW pieces, PiecesOf(t, cs, pieces, U),
         NEW i \in 1 .. Len(t)
  PROVE  Segment(t, Range(cs), i) \in Seq(U)
<1>1. <<t[i]>> \in Seq(U) /\ <<>> \in Seq(U)
  <2>1. t[i] \in U
    BY ElementOfSeq
  <2> QED BY <2>1, EmptySeq
<1>2. CASE \A k \in 1 .. Len(cs) : ~(cs[k].from <= i /\ i <= cs[k].to)
  BY <1>1, <1>2, SegmentIs
<1>3. ASSUME NEW j \in 1 .. Len(cs), cs[j].from <= i /\ i <= cs[j].to
      PROVE  Segment(t, Range(cs), i) \in Seq(U)
  <2>1. Piece(t, cs[j]) \in Seq(U)
    BY DEF PiecesOf
  <2>2. Segment(t, Range(cs), i) =
           IF cs[j].res.status # "resolved" THEN <<t[i]>>
           ELSE IF cs[j].to = i THEN Piece(t, cs[j]) ELSE <<>>
    BY <1>3, SegmentIs
  <2> QED BY <1>1, <2>1, <2>2
<1> QED BY <1>2, <1>3

Grown(up, t, cs, U) ==
  /\ up \in [0 .. Len(t) -> Seq(U)] /\ up[0] = <<>>
  /\ \A i \in 1 .. Len(t) : up[i] = up[i - 1] \o Segment(t, Range(cs), i)

LEMMA PiecewiseGrows ==
  ASSUME NEW U, NEW t \in Seq(U), NEW cs, Apart(t, cs), NEW pieces, PiecesOf(t, cs, pieces, U)
  PROVE  \E up : Grown(up, t, cs, U) /\ Piecewise(t, Range(cs)) = up[Len(t)]
<1> DEFINE n == Len(t)
           Seg == [i \in 1 .. n |-> Segment(t, Range(cs), i)]
           G == [p \in (1 .. n) \X Seq(U) |-> p[2] \o Seg[p[1]]]
<1>1. n \in Nat /\ <<>> \in Seq(U)
  BY LenProperties, EmptySeq
<1>2. \A i \in 1 .. n : Segment(t, Range(cs), i) \in Seq(U)
  BY SegmentsAreLists
<1>3. Seg \in [1 .. n -> Seq(U)] /\ \A i \in 1 .. n : Seg[i] = Segment(t, Range(cs), i)
  BY <1>2
<1> HIDE DEF Seg, n
<1>4. G \in [(1 .. n) \X Seq(U) -> Seq(U)]
  <2>1. ASSUME NEW p \in (1 .. n) \X Seq(U) PROVE p[2] \o Seg[p[1]] \in Seq(U)
    <3>1. p[2] \in Seq(U) /\ Seg[p[1]] \in Seq(U)
      BY <1>3
    <3> QED BY <3>1, ConcatProperties
  <2> QED BY <2>1
<1>5. \A i \in 1 .. n : \A s \in Seq(U) : G[<<i, s>>] = s \o Seg[i]
  OBVIOUS
<1> HIDE DEF G
<1>6. PICK f \in [0 .. n -> Seq(U)] : Rounds(f, <<>>, n, G)
  BY <1>1, <1>4, RoundsExist
<1>7. /\ f[0] = <<>>
      /\ \A i \in 1 .. n : f[i] = f[i - 1] \o Segment(t, Range(cs), i)
  <2>1. f[0] = <<>> /\ \A i \in 1 .. n : f[i] = G[<<i, f[i - 1]>>]
    BY <1>6 DEF Rounds
  <2>2. ASSUME NEW i \in 1 .. n PROVE f[i] = f[i - 1] \o Segment(t, Range(cs), i)
    <3>1. f[i - 1] \in Seq(U)
      BY <1>1
    <3> QED BY <1>3, <1>5, <2>1, <3>1
  <2> QED BY <2>1, <2>2
<1> DEFINE Body(g) == [i \in 0 .. n |-> IF i = 0 THEN <<>> ELSE g[i - 1] \o Segment(t, Range(cs), i)]
           up == CHOOSE g : g = Body(g)
<1>8. f = Body(f)
  <2>1. f = [i \in 0 .. n |-> f[i]]
    OBVIOUS
  <2>2. ASSUME NEW i \in 0 .. n
        PROVE  f[i] = IF i = 0 THEN <<>> ELSE f[i - 1] \o Segment(t, Range(cs), i)
    <3>1. i = 0 \/ (i \in 1 .. n /\ i # 0)
      BY <1>1
    <3>2. CASE i = 0
      BY <1>7, <3>2
    <3>3. CASE i \in 1 .. n /\ i # 0
      BY <1>7, <3>3
    <3> QED BY <3>1, <3>2, <3>3
  <2> QED BY <2>1, <2>2
<1>9. Piecewise(t, Range(cs)) = up[n]
  BY DEF Piecewise, n
<1>10. up = Body(up)
  <2> HIDE DEF Body
  <2> QED BY <1>8
<1> HIDE DEF up
<1>11. /\ DOMAIN up = 0 .. n /\ up = [i \in 0 .. n |-> up[i]]
       /\ up[0] = <<>> /\ \A i \in 1 .. n : up[i] = up[i - 1] \o Segment(t, Range(cs), i)
  <2>1. DOMAIN up = 0 .. n /\ up = [i \in 0 .. n |-> up[i]]
    BY <1>10
  <2>2. \A i \in 0 .. n : up[i] = IF i = 0 THEN <<>> ELSE up[i - 1] \o Segment(t, Range(cs), i)
    BY <1>10
  <2>3. 0 \in 0 .. n /\ \A i \in 1 .. n : i \in 0 .. n /\ i # 0
    BY <1>1
  <2> HIDE DEF Body
  <2> QED BY <2>1, <2>2, <2>3
<1> HIDE DEF Body
<1>12. \A i \in 0 .. n : i \in {j \in 0 .. n : up[j] \in Seq(U)}
  <2> DEFINE Good == {j \in 0 .. n : up[j] \in Seq(U)}
  <2>1. 0 \in Good
    <3>1. 0 \in 0 .. n
      BY <1>1
    <3>2. up[0] \in Seq(U)
      BY <1>1, <1>11
    <3> QED BY <3>1, <3>2
  <2>2. ASSUME NEW i \in 1 .. n, i - 1 \in Good PROVE i \in Good
    <3>1. up[i - 1] \in Seq(U) /\ Segment(t, Range(cs), i) \in Seq(U)
      BY <1>2, <2>2
    <3>2. up[i] \in Seq(U)
      BY <1>11, <3>1, ConcatProperties
    <3> QED BY <3>2
  <2> HIDE DEF Good
  <2>3. \A i \in 0 .. n : i \in Good
    BY <1>1, <2>1, <2>2, StepByStep
  <2> QED BY <2>3 DEF Good
<1>13. up \in [0 .. n -> Seq(U)]
  BY <1>11, <1>12
<1> QED BY <1>9, <1>11, <1>13 DEF Grown, n

\* Where there is no constraint the text grows as it was.
Unchanging(t, cs, a, b) == \A i \in (a + 1) .. b : Segment(t, Range(cs), i) = <<t[i]>>

AsItWas(up, t, a, b) == up[b] = up[a] \o SubSeq(t, a + 1, b)

LEMMA PlainStretch ==
  ASSUME NEW U, NEW t \in Seq(U), NEW cs, NEW up, Grown(up, t, cs, U),
         NEW a \in Nat, NEW b \in Nat, a <= b, b <= Len(t),
         Unchanging(t, cs, a, b)
  PROVE  AsItWas(up, t, a, b)
<1> DEFINE n == b - a
           Good == {m \in 0 .. n : up[a + m] = up[a] \o SubSeq(t, a + 1, a + m)}
<1>1. n \in Nat /\ Len(t) \in Nat /\ a \in 0 .. Len(t) /\ up[a] \in Seq(U)
  <2>1. n \in Nat /\ Len(t) \in Nat
    BY LenProperties
  <2>2. a \in 0 .. Len(t)
    BY <2>1
  <2> QED BY <2>1, <2>2 DEF Grown
<1>2. 0 \in Good
  <2>1. SubSeq(t, a + 1, a) = <<>>
    BY SubSeqEmpty
  <2>2. up[a] \o <<>> = up[a]
    BY <1>1, ConcatEmptySeq
  <2>3. a + 0 = a /\ 0 \in 0 .. n
    BY <1>1
  <2>4. up[a + 0] = up[a] \o SubSeq(t, a + 1, a + 0)
    BY <2>1, <2>2, <2>3
  <2> QED BY <2>3, <2>4
<1>3. ASSUME NEW m \in 1 .. n, m - 1 \in Good PROVE m \in Good
  <2>1. /\ a + m \in (a + 1) .. b /\ a + m \in 1 .. Len(t) /\ a + 1 \in 1 .. Len(t)
        /\ a + m \in (a + 1) .. Len(t) /\ a + m - 1 \in Nat /\ m - 1 \in Nat
    BY <1>1
  <2>2. up[a + m] = up[a + m - 1] \o <<t[a + m]>>
    <3>1. \A i \in 1 .. Len(t) : up[i] = up[i - 1] \o Segment(t, Range(cs), i)
      BY DEF Grown
    <3>2. Segment(t, Range(cs), a + m) = <<t[a + m]>>
      BY <2>1 DEF Unchanging
    <3>3. up[a + m] = up[a + m - 1] \o Segment(t, Range(cs), a + m)
      <4> DEFINE i == a + m
      <4>1. i \in 1 .. Len(t)
        BY <2>1
      <4> HIDE DEF i
      <4>2. up[i] = up[i - 1] \o Segment(t, Range(cs), i)
        BY <3>1, <4>1
      <4>3. i - 1 = a + (m - 1)
        BY <2>1 DEF i
      <4> QED BY <4>2, <4>3 DEF i
    <3> QED BY <3>2, <3>3
  <2>3. up[a + m - 1] = up[a] \o SubSeq(t, a + 1, a + m - 1)
    <3>1. a + (m - 1) = a + m - 1
      BY <2>1
    <3> QED BY <1>3, <3>1
  <2>4. SubSeq(t, a + 1, a + m) = SubSeq(t, a + 1, a + m - 1) \o <<t[a + m]>>
    BY <2>1, SubSeqRecursiveSecond
  <2>5. SubSeq(t, a + 1, a + m - 1) \in Seq(U) /\ <<t[a + m]>> \in Seq(U)
    <3>1. \A i \in 1 .. Len(t) : t[i] \in U
      BY ElementOfSeq
    <3>2. \A i \in (a + 1) .. (a + m - 1) : t[i] \in U
      BY <1>1, <2>1, <3>1
    <3>3. SubSeq(t, a + 1, a + m - 1) \in Seq(U)
      BY <2>1, <3>2, SubSeqProperties
    <3> QED BY <2>1, <3>1, <3>3
  <2>6. (up[a] \o SubSeq(t, a + 1, a + m - 1)) \o <<t[a + m]>> = up[a] \o (SubSeq(t, a + 1, a + m - 1) \o <<t[a + m]>>)
    <3>1. ASSUME NEW x, NEW y, NEW z, x \in Seq(U), y \in Seq(U), z \in Seq(U)
          PROVE  (x \o y) \o z = x \o (y \o z)
      BY ONLY <3>1, ConcatAssociative
    <3> DEFINE p == up[a]
               q == SubSeq(t, a + 1, a + m - 1)
               s == <<t[a + m]>>
    <3>2. p \in Seq(U)
      BY <1>1
    <3>3. q \in Seq(U) /\ s \in Seq(U)
      BY <2>5
    <3> HIDE DEF p, q, s
    <3>4. (p \o q) \o s = p \o (q \o s)
      BY <3>1, <3>2, <3>3
    <3> QED BY <3>4 DEF p, q, s
  <2>7. up[a + m] = up[a] \o SubSeq(t, a + 1, a + m)
    BY <2>2, <2>3, <2>4, <2>6
  <2>8. m \in 0 .. n
    BY <1>1
  <2> QED BY <2>7, <2>8
<1>4. n \in Good
  <2> HIDE DEF Good
  <2>1. \A m \in 0 .. n : m \in Good
    BY <1>1, <1>2, <1>3, StepByStep
  <2> QED BY <1>1, <2>1
<1>5. a + n = b
  OBVIOUS
<1>6. up[b] = up[a] \o SubSeq(t, a + 1, b)
  BY <1>4, <1>5
<1> QED BY <1>6 DEF AsItWas

\* What takes the place of a constraint.
Bit(t, c, piece) == IF c.res.status = "resolved" THEN piece ELSE SubSeq(t, c.from, c.to)
\* And what follows it, up to the next.
Stretch(t, cs, pieces, j) == Bit(t, cs[j], pieces[j]) \o SubSeq(t, cs[j].to + 1, Before(t, cs, j + 1))

LEMMA StretchesAreLists ==
  ASSUME NEW U, NEW t \in Seq(U), NEW cs, Apart(t, cs), NEW pieces, PiecesOf(t, cs, pieces, U),
         NEW j \in 1 .. Len(cs)
  PROVE  /\ Bit(t, cs[j], pieces[j]) \in Seq(U)
         /\ SubSeq(t, cs[j].to + 1, Before(t, cs, j + 1)) \in Seq(U)
         /\ Stretch(t, cs, pieces, j) \in Seq(U)
<1> DEFINE c == cs[j]
           b == Before(t, cs, j + 1)
<1>1. /\ Len(t) \in Nat /\ c.from \in 1 .. Len(t) /\ c.to \in 1 .. Len(t)
      /\ \A i \in 1 .. Len(t) : t[i] \in U
  BY LenProperties, ElementOfSeq DEF Apart
<1>2. b \in 0 .. Len(t)
  <2>1. j + 1 \in 1 .. (Len(cs) + 1)
    BY DEF Apart
  <2> QED BY <2>1, BetweenThem
<1> HIDE DEF b, c
<1>3. SubSeq(t, c.from, c.to) \in Seq(U)
  <2>1. \A i \in c.from .. c.to : t[i] \in U
    BY <1>1
  <2>2. c.from \in Int /\ c.to \in Int
    BY <1>1
  <2> QED BY <2>1, <2>2, SubSeqProperties
<1>4. SubSeq(t, c.to + 1, b) \in Seq(U)
  <2>1. \A i \in (c.to + 1) .. b : t[i] \in U
    BY <1>1, <1>2
  <2>2. c.to + 1 \in Int /\ b \in Int
    BY <1>1, <1>2
  <2> QED BY <2>1, <2>2, SubSeqProperties
<1>5. pieces[j] \in Seq(U)
  BY DEF PiecesOf
<1>6. Bit(t, c, pieces[j]) \in Seq(U)
  BY <1>3, <1>5 DEF Bit
<1>7. Bit(t, c, pieces[j]) \o SubSeq(t, c.to + 1, b) \in Seq(U)
  BY <1>4, <1>6, ConcatProperties
<1> QED BY <1>4, <1>6, <1>7 DEF b, c, Stretch

\* From before a constraint to before the next.
LEMMA OneStretch ==
  ASSUME NEW U, NEW t \in Seq(U), NEW cs, Apart(t, cs), NEW pieces, PiecesOf(t, cs, pieces, U),
         NEW up, Grown(up, t, cs, U), NEW j \in 1 .. Len(cs)
  PROVE  up[Before(t, cs, j + 1)] = up[Before(t, cs, j)] \o Stretch(t, cs, pieces, j)
<1> DEFINE from == cs[j].from
           to == cs[j].to
           b == Before(t, cs, j + 1)
           x == Bit(t, cs[j], pieces[j])
           y == SubSeq(t, to + 1, b)
<1>1. /\ Len(t) \in Nat /\ from \in 1 .. Len(t) /\ to \in 1 .. Len(t) /\ (to = from \/ to = from + 1)
      /\ Before(t, cs, j) = from - 1
  BY LenProperties DEF Apart, Before
<1>2. b \in 0 .. Len(t) /\ to <= b
  <2>1. j + 1 \in 1 .. (Len(cs) + 1)
    BY DEF Apart
  <2> QED BY <2>1, BetweenThem
<1>3. x \in Seq(U) /\ y \in Seq(U)
  BY StretchesAreLists
<1>4. \A i \in 0 .. Len(t) : up[i] \in Seq(U)
  BY DEF Grown
<1>5. \A i \in 1 .. Len(t) : up[i] = up[i - 1] \o Segment(t, Range(cs), i)
  BY DEF Grown
<1>6. up[to] = up[from - 1] \o x
  <2>1. CASE cs[j].res.status # "resolved"
    <3>1. \A i \in from .. to : Segment(t, Range(cs), i) = <<t[i]>>
      <4> SUFFICES ASSUME NEW i \in from .. to PROVE Segment(t, Range(cs), i) = <<t[i]>>
        OBVIOUS
      <4>1. i \in 1 .. Len(t) /\ cs[j].from <= i /\ i <= cs[j].to
        BY <1>1
      <4> QED BY <2>1, <4>1, SegmentIs
    <3>2. from - 1 \in Nat /\ to \in Nat /\ from - 1 <= to /\ to <= Len(t) /\ from - 1 + 1 = from
      BY <1>1
    <3> DEFINE a == from - 1
    <3>3. Unchanging(t, cs, a, to)
      BY <3>1, <3>2 DEF Unchanging
    <3>a. a \in Nat /\ to \in Nat /\ a <= to /\ to <= Len(t)
      BY <3>2
    <3> HIDE DEF a, from, to
    <3>b. up[to] = up[a] \o SubSeq(t, a + 1, to)
      <4>1. AsItWas(up, t, a, to)
        BY <3>3, <3>a, PlainStretch
      <4> QED BY <4>1 DEF AsItWas
    <3>4. up[to] = up[from - 1] \o SubSeq(t, from - 1 + 1, to)
      BY <3>b DEF a
    <3>5. x = SubSeq(t, from, to)
      BY <2>1 DEF Bit, from, to
    <3> QED BY <3>2, <3>4, <3>5
  <2>2. CASE cs[j].res.status = "resolved"
    <3>1. x = pieces[j] /\ pieces[j] = Piece(t, cs[j])
      BY <2>2 DEF Bit, PiecesOf
    <3>2. Segment(t, Range(cs), to) = x
      <4>1. cs[j].from <= to /\ to <= cs[j].to
        BY <1>1
      <4>2. Segment(t, Range(cs), to) =
                IF cs[j].res.status # "resolved" THEN <<t[to]>>
                ELSE IF cs[j].to = to THEN Piece(t, cs[j]) ELSE <<>>
        BY <1>1, <4>1, SegmentIs
      <4> QED BY <2>2, <3>1, <4>2
    <3>3. up[to] = up[to - 1] \o x
      BY <1>1, <1>5, <3>2
    <3>4. CASE to = from
      BY <3>3, <3>4
    <3>5. CASE to = from + 1
      <4>1. cs[j].from <= from /\ from <= cs[j].to /\ cs[j].to # from /\ to - 1 = from /\ from - 1 \in 0 .. Len(t)
        BY <1>1, <3>5
      <4>2. Segment(t, Range(cs), from) =
                IF cs[j].res.status # "resolved" THEN <<t[from]>>
                ELSE IF cs[j].to = from THEN Piece(t, cs[j]) ELSE <<>>
        BY <1>1, <4>1, SegmentIs
      <4>3. Segment(t, Range(cs), from) = <<>>
        BY <2>2, <4>1, <4>2
      <4>4. up[from] = up[from - 1] \o <<>>
        BY <1>1, <1>5, <4>3
      <4>5. up[from] = up[from - 1]
        BY <1>4, <4>1, <4>4, ConcatEmptySeq
      <4> QED BY <3>3, <4>1, <4>5
    <3> QED BY <1>1, <3>4, <3>5
  <2> QED BY <2>1, <2>2
<1>7. up[b] = up[to] \o y
  <2>1. to \in Nat /\ b \in Nat /\ to <= b /\ b <= Len(t)
    BY <1>1, <1>2
  <2>2. ASSUME NEW i \in (to + 1) .. b PROVE Segment(t, Range(cs), i) = <<t[i]>>
    <3>1. \A k \in 1 .. Len(cs) : ~(cs[k].from <= i /\ i <= cs[k].to)
      BY <2>2, BetweenThem
    <3>2. i \in 1 .. Len(t)
      BY <2>1
    <3> QED BY <3>1, <3>2, SegmentIs
  <2>3. Unchanging(t, cs, to, b)
    BY <2>2 DEF Unchanging
  <2> HIDE DEF to, b
  <2>4. AsItWas(up, t, to, b)
    BY <2>1, <2>3, PlainStretch
  <2> QED BY <2>4 DEF AsItWas
<1>8. up[from - 1] \in Seq(U)
  BY <1>1, <1>4
<1> HIDE DEF x, y
<1>9. (up[from - 1] \o x) \o y = up[from - 1] \o (x \o y)
  <2> DEFINE z == up[from - 1]
  <2>1. z \in Seq(U)
    BY <1>8
  <2> HIDE DEF z
  <2>2. (z \o x) \o y = z \o (x \o y)
    BY <1>3, <2>1, ConcatAssociative
  <2> QED BY <2>2 DEF z
<1>10. up[b] = up[from - 1] \o (x \o y)
  BY <1>6, <1>7, <1>9
<1> QED BY <1>1, <1>10 DEF x, y, Stretch

\* The end of the new text, after k of the constraints.
Tails(rest, t, cs, pieces, U) ==
  /\ rest \in [0 .. Len(cs) -> Seq(U)] /\ rest[0] = <<>>
  /\ \A k \in 1 .. Len(cs) : rest[k] = Stretch(t, cs, pieces, Len(cs) - k + 1) \o rest[k - 1]

LEMMA TailsExist ==
  ASSUME NEW U, NEW t \in Seq(U), NEW cs, Apart(t, cs), NEW pieces, PiecesOf(t, cs, pieces, U)
  PROVE  \E rest : Tails(rest, t, cs, pieces, U)
<1> DEFINE n == Len(cs)
           St == [k \in 1 .. n |-> Stretch(t, cs, pieces, n - k + 1)]
           G == [p \in (1 .. n) \X Seq(U) |-> St[p[1]] \o p[2]]
<1>1. n \in Nat /\ <<>> \in Seq(U)
  BY EmptySeq DEF Apart
<1>2. ASSUME NEW k \in 1 .. n PROVE Stretch(t, cs, pieces, n - k + 1) \in Seq(U)
  <2>1. n - k + 1 \in 1 .. n
    BY <1>1
  <2> QED BY <2>1, StretchesAreLists
<1>3. St \in [1 .. n -> Seq(U)] /\ \A k \in 1 .. n : St[k] = Stretch(t, cs, pieces, n - k + 1)
  BY <1>2
<1> HIDE DEF St, n
<1>4. G \in [(1 .. n) \X Seq(U) -> Seq(U)]
  <2>1. ASSUME NEW p \in (1 .. n) \X Seq(U) PROVE St[p[1]] \o p[2] \in Seq(U)
    <3>1. p[2] \in Seq(U) /\ St[p[1]] \in Seq(U)
      BY <1>3
    <3> QED BY <3>1, ConcatProperties
  <2> QED BY <2>1
<1>5. \A k \in 1 .. n : \A s \in Seq(U) : G[<<k, s>>] = St[k] \o s
  OBVIOUS
<1> HIDE DEF G
<1>6. PICK f \in [0 .. n -> Seq(U)] : Rounds(f, <<>>, n, G)
  BY <1>1, <1>4, RoundsExist
<1>7. f[0] = <<>> /\ \A k \in 1 .. n : f[k] = G[<<k, f[k - 1]>>]
  BY <1>6 DEF Rounds
<1>8. ASSUME NEW k \in 1 .. n PROVE f[k] = Stretch(t, cs, pieces, n - k + 1) \o f[k - 1]
  <2>1. f[k - 1] \in Seq(U)
    BY <1>1
  <2> QED BY <1>3, <1>5, <1>7, <2>1
<1>9. Tails(f, t, cs, pieces, U)
  BY <1>7, <1>8 DEF Tails, n
<1> QED BY <1>9

LEMMA GrownEndsInTails ==
  ASSUME NEW U, NEW t \in Seq(U), NEW cs, Apart(t, cs), NEW pieces, PiecesOf(t, cs, pieces, U),
         NEW up, Grown(up, t, cs, U), NEW rest, Tails(rest, t, cs, pieces, U)
  PROVE  EndsIn(up[Len(t)], up[Before(t, cs, 1)], rest[Len(cs)])
<1> DEFINE n == Len(cs)
           whole == up[Len(t)]
           upto(k) == up[Before(t, cs, n - k + 1)]
           Good == {k \in 0 .. n : whole = upto(k) \o rest[k]}
<1>1. n \in Nat /\ Len(t) \in Nat
  BY LenProperties DEF Apart
<1>2. \A k \in 0 .. n : rest[k] \in Seq(U)
  BY DEF Tails
<1>3. ASSUME NEW k \in 0 .. n PROVE upto(k) \in Seq(U)
  <2>1. n - k + 1 \in 1 .. (n + 1)
    BY <1>1
  <2>2. Before(t, cs, n - k + 1) \in 0 .. Len(t)
    BY <2>1, BetweenThem
  <2> QED BY <2>2 DEF Grown
<1>4. 0 \in Good
  <2>1. n - 0 + 1 = n + 1 /\ Before(t, cs, n + 1) = Len(t)
    BY <1>1 DEF Before
  <2>2. upto(0) = whole
    BY <2>1
  <2>3. 0 \in 0 .. n /\ rest[0] = <<>>
    BY <1>1 DEF Tails
  <2>4. whole \in Seq(U)
    BY <1>1 DEF Grown
  <2> HIDE DEF whole, upto
  <2>5. whole \o <<>> = whole
    BY <2>4, ConcatEmptySeq
  <2>6. whole = upto(0) \o rest[0]
    BY <2>2, <2>3, <2>5
  <2> QED BY <2>3, <2>6
<1>5. ASSUME NEW k \in 1 .. n, k - 1 \in Good PROVE k \in Good
  <2> DEFINE j == n - k + 1
             x == upto(k)
             y == Stretch(t, cs, pieces, j)
             z == rest[k - 1]
  <2>1. j \in 1 .. n /\ j + 1 = n - (k - 1) + 1 /\ k - 1 \in 0 .. n /\ k \in 0 .. n
    BY <1>1
  <2>2. whole = upto(k - 1) \o z
    BY <1>5
  <2>3. upto(k - 1) = up[Before(t, cs, j + 1)]
    BY <2>1
  <2> HIDE DEF j
  <2>4. up[Before(t, cs, j + 1)] = up[Before(t, cs, j)] \o y
    BY <2>1, OneStretch
  <2>5. up[Before(t, cs, j)] = x
    BY DEF j
  <2>6. x \in Seq(U) /\ y \in Seq(U) /\ z \in Seq(U)
    <3>1. x \in Seq(U)
      BY <1>3, <2>1
    <3>2. y \in Seq(U)
      BY <2>1, StretchesAreLists
    <3> QED BY <1>2, <2>1, <3>1, <3>2
  <2>7. rest[k] = y \o z
    BY DEF Tails, j
  <2>8. upto(k - 1) = x \o y
    BY <2>3, <2>4, <2>5
  <2> HIDE DEF x, y, z
  <2>9. (x \o y) \o z = x \o (y \o z)
    BY <2>6, ConcatAssociative
  <2> HIDE DEF upto, whole
  <2>10. whole = upto(k) \o rest[k]
    <3>1. whole = x \o rest[k]
      BY <2>2, <2>7, <2>8, <2>9
    <3> QED BY <3>1 DEF x
  <2> QED BY <2>1, <2>10
<1> HIDE DEF Good
<1>6. n \in Good
  <2>1. \A k \in 0 .. n : k \in Good
    BY <1>1, <1>4, <1>5, StepByStep
  <2> QED BY <1>1, <2>1
<1>7. whole = upto(n) \o rest[n]
  BY <1>6 DEF Good
<1>8. n - n + 1 = 1
  BY <1>1
<1> QED BY <1>7, <1>8 DEF EndsIn

\* One round of the rewriting.
LEMMA PutOne ==
  ASSUME NEW U, NEW t \in Seq(U), NEW cs, Apart(t, cs), NEW pieces, PiecesOf(t, cs, pieces, U),
         NEW j \in 1 .. Len(cs), NEW s, s \in Seq(U), NEW text,
         EndsIn(text, SubSeq(t, 1, Before(t, cs, j + 1)), s)
  PROVE  EndsIn(PutIn(text, cs[j], pieces[j]), SubSeq(t, 1, Before(t, cs, j)), Stretch(t, cs, pieces, j) \o s)
<1> DEFINE c == cs[j]
           b == Before(t, cs, j + 1)
           a == c.from - 1
           front == SubSeq(t, 1, a)
           put == Bit(t, c, pieces[j])
           gap == SubSeq(t, c.to + 1, b)
<1>1. /\ Len(t) \in Nat /\ c.from \in 1 .. Len(t) /\ c.to \in 1 .. Len(t) /\ c.from <= c.to
      /\ Before(t, cs, j) = a
  <2>1. Len(cs) \in Nat /\ Len(t) \in Nat /\ c.from \in 1 .. Len(t) /\ c.to \in 1 .. Len(t)
        /\ (c.to = c.from \/ c.to = c.from + 1)
    BY LenProperties DEF Apart
  <2>2. j # Len(cs) + 1
    BY <2>1
  <2>3. Before(t, cs, j) = a
    BY <2>2 DEF Before
  <2> QED BY <2>1, <2>3
<1>2. b \in 0 .. Len(t) /\ c.to <= b
  <2>1. j + 1 \in 1 .. (Len(cs) + 1)
    BY DEF Apart
  <2> QED BY <2>1, BetweenThem
<1>3. text = SubSeq(t, 1, b) \o s
  BY DEF EndsIn
<1>4. a \in Nat /\ c.to \in Nat /\ b \in Nat /\ a <= b /\ b <= Len(t) /\ a <= Len(t)
  BY <1>1, <1>2
<1>5. put \in Seq(U) /\ gap \in Seq(U)
  BY StretchesAreLists
<1>6. front \in Seq(U)
  BY <1>4, CutInTwo
<1>7. Stretch(t, cs, pieces, j) = put \o gap
  BY DEF Stretch
<1> DEFINE mid == put \o gap
<1>8. PutIn(text, c, pieces[j]) = front \o (mid \o s)
  <2>1. CASE c.res.status = "resolved"
    <3>1. /\ SubSeq(text, 1, a) = front
          /\ SubSeq(text, c.to + 1, Len(text)) = gap \o s
      <4> DEFINE l == SubSeq(t, 1, b) \o s
      <4>1. SubSeq(l, 1, a) = SubSeq(t, 1, a)
        BY <1>4, CutFromJoined
      <4>2. SubSeq(l, c.to + 1, Len(l)) = SubSeq(t, c.to + 1, b) \o s
        <5> DEFINE m == c.to
        <5>1. m \in Nat /\ m <= b
          BY <1>2, <1>4
        <5>2. b \in Nat /\ b <= Len(t)
          BY <1>4
        <5> HIDE DEF m, b
        <5>3. EndsIn(SubSeq(l, m + 1, Len(l)), SubSeq(t, m + 1, b), s)
          BY <5>1, <5>2, CutAfter
        <5> QED BY <5>3 DEF m, EndsIn
      <4> QED BY <1>3, <4>1, <4>2
    <3>2. put = pieces[j]
      BY <2>1 DEF Bit
    <3>3. PutIn(text, c, pieces[j]) = (SubSeq(text, 1, c.from - 1) \o pieces[j]) \o SubSeq(text, c.to + 1, Len(text))
      BY <2>1 DEF PutIn, Put
    <3>4. PutIn(text, c, pieces[j]) = (front \o put) \o (gap \o s)
      BY <3>1, <3>2, <3>3
    <3> HIDE DEF front, put, gap
    <3>5. (front \o put) \o (gap \o s) = front \o ((put \o gap) \o s)
      <4> DEFINE rear == gap \o s
      <4>1. rear \in Seq(U)
        BY <1>5, ConcatProperties
      <4>2. (put \o gap) \o s = put \o rear
        BY <1>5, ConcatAssociative
      <4> HIDE DEF rear
      <4>3. (front \o put) \o rear = front \o (put \o rear)
        <5>1. front \in Seq(U) /\ put \in Seq(U) /\ rear \in Seq(U)
          BY <1>5, <1>6, <4>1
        <5> HIDE DEF mid
        <5> QED BY ONLY <5>1, ConcatAssociative
      <4>4. (front \o put) \o rear = front \o ((put \o gap) \o s)
        BY <4>2, <4>3
      <4> QED BY <4>4 DEF rear
    <3> QED BY <3>4, <3>5
  <2>2. CASE c.res.status # "resolved"
    <3>1. PutIn(text, c, pieces[j]) = SubSeq(t, 1, b) \o s
      BY <1>3, <2>2 DEF PutIn
    <3>2. put = SubSeq(t, c.from, c.to)
      BY <2>2 DEF Bit
    <3>3. mid = SubSeq(t, c.from, b)
      <4>1. c.from \in 1 .. (Len(t) + 1) /\ c.to \in (c.from - 1) .. Len(t) /\ b \in c.to .. Len(t)
        BY <1>1, <1>2
      <4>2. SubSeq(t, c.from, c.to) \o SubSeq(t, c.to + 1, b) = SubSeq(t, c.from, b)
        BY <4>1, ConcatAdjacentSubSeq
      <4> QED BY <3>2, <4>2
    <3>4. front \o mid = SubSeq(t, 1, b)
      <4>1. SubSeq(t, 1, a) \o SubSeq(t, a + 1, b) = SubSeq(t, 1, b)
        BY <1>4, CutInTwo
      <4>2. a + 1 = c.from
        BY <1>1
      <4> QED BY <3>3, <4>1, <4>2
    <3>5. mid \in Seq(U)
      BY <1>5, ConcatProperties
    <3> HIDE DEF front, mid
    <3>6. (front \o mid) \o s = front \o (mid \o s)
      BY <1>6, <3>5, ConcatAssociative
    <3> QED BY <3>1, <3>4, <3>6
  <2> QED BY <2>1, <2>2
<1> QED BY <1>1, <1>7, <1>8 DEF EndsIn

LEMMA ReplacedEndsInTails ==
  ASSUME NEW U, NEW t \in Seq(U), NEW cs, Apart(t, cs), NEW pieces, PiecesOf(t, cs, pieces, U),
         NEW rest, Tails(rest, t, cs, pieces, U)
  PROVE  EndsIn(Replaced(t, cs, pieces), SubSeq(t, 1, Before(t, cs, 1)), rest[Len(cs)])
<1> DEFINE n == Len(cs)
           front(k) == SubSeq(t, 1, Before(t, cs, n - k + 1))
           f == [k \in 0 .. n |-> front(k) \o rest[k]]
           One(text, k) == PutIn(text, cs[n - k + 1], pieces[n - k + 1])
           Body(g) == [k \in 0 .. n |-> IF k = 0 THEN t ELSE One(g[k - 1], k)]
           last == CHOOSE g : g = Body(g)
<1>1. n \in Nat /\ Len(t) \in Nat
  BY LenProperties DEF Apart
<1>2. \A k \in 0 .. n : rest[k] \in Seq(U)
  BY DEF Tails
<1>3. f[0] = t
  <2>1. n - 0 + 1 = n + 1 /\ Before(t, cs, n + 1) = Len(t) /\ 0 \in 0 .. n
    BY <1>1 DEF Before
  <2>2. front(0) = t
    <3>1. SubSeq(t, 1, Len(t)) = t
      BY SubSeqFull
    <3> QED BY <2>1, <3>1
  <2>3. rest[0] = <<>>
    BY DEF Tails
  <2> HIDE DEF front
  <2>4. t \o <<>> = t
    BY ConcatEmptySeq
  <2>5. f[0] = front(0) \o rest[0]
    BY <2>1
  <2> HIDE DEF f
  <2> QED BY <2>2, <2>3, <2>4, <2>5
<1>4. \A k \in 0 .. n : EndsIn(f[k], front(k), rest[k])
  BY DEF EndsIn
<1> HIDE DEF f
<1>5. ASSUME NEW k \in 1 .. n PROVE f[k] = One(f[k - 1], k)
  <2> DEFINE j == n - k + 1
             text == f[k - 1]
             s == rest[k - 1]
  <2>1. j \in 1 .. n /\ j + 1 = n - (k - 1) + 1 /\ k - 1 \in 0 .. n /\ k \in 0 .. n
    BY <1>1
  <2>2. front(k - 1) = SubSeq(t, 1, Before(t, cs, j + 1))
    BY <2>1
  <2>3. EndsIn(text, front(k - 1), s)
    BY <1>4, <2>1
  <2>4. EndsIn(text, SubSeq(t, 1, Before(t, cs, j + 1)), s)
    BY <2>2, <2>3
  <2>5. s \in Seq(U)
    BY <1>2, <2>1
  <2>6. rest[k] = Stretch(t, cs, pieces, j) \o s
    BY DEF Tails
  <2>7. front(k) = SubSeq(t, 1, Before(t, cs, j)) /\ One(text, k) = PutIn(text, cs[j], pieces[j])
    OBVIOUS
  <2> HIDE DEF j, text, s, front, One
  <2>8. EndsIn(PutIn(text, cs[j], pieces[j]), SubSeq(t, 1, Before(t, cs, j)), Stretch(t, cs, pieces, j) \o s)
    BY <2>1, <2>4, <2>5, PutOne
  <2>9. One(text, k) = front(k) \o rest[k]
    BY <2>6, <2>7, <2>8 DEF EndsIn
  <2>10. f[k] = front(k) \o rest[k]
    BY <1>4, <2>1 DEF EndsIn
  <2>11. f[k] = One(text, k)
    BY <2>9, <2>10
  <2> QED BY <2>11 DEF text
<1> HIDE DEF One
<1>6. f = Body(f)
  <2>1. f = [k \in 0 .. n |-> f[k]]
    BY DEF f
  <2>2. ASSUME NEW k \in 0 .. n PROVE f[k] = IF k = 0 THEN t ELSE One(f[k - 1], k)
    <3>1. CASE k = 0
      BY <1>3, <3>1
    <3>2. CASE k # 0
      <4>1. k \in 1 .. n
        BY <1>1, <3>2
      <4> QED BY <1>5, <3>2, <4>1
    <3> QED BY <3>1, <3>2
  <2> QED BY <2>1, <2>2
<1>7. Replaced(t, cs, pieces) = last[n]
  BY DEF Replaced, One
<1>8. last = Body(last)
  <2> HIDE DEF Body
  <2> QED BY <1>6
<1> HIDE DEF last
<1>9. last[0] = t /\ \A k \in 1 .. n : last[k] = One(last[k - 1], k)
  <2>1. \A k \in 0 .. n : last[k] = IF k = 0 THEN t ELSE One(last[k - 1], k)
    BY <1>8
  <2>2. 0 \in 0 .. n /\ \A k \in 1 .. n : k \in 0 .. n /\ k # 0
    BY <1>1
  <2> HIDE DEF Body
  <2> QED BY <2>1, <2>2
<1> HIDE DEF Body
<1>10. last[n] = f[n]
  <2> DEFINE Good == {k \in 0 .. n : last[k] = f[k]}
  <2>1. 0 \in Good
    BY <1>1, <1>3, <1>9
  <2>2. ASSUME NEW k \in 1 .. n, k - 1 \in Good PROVE k \in Good
    <3>1. last[k - 1] = f[k - 1] /\ k \in 0 .. n
      BY <1>1, <2>2
    <3>2. last[k] = f[k]
      BY <1>5, <1>9, <3>1
    <3> QED BY <3>1, <3>2
  <2> HIDE DEF Good
  <2>3. \A k \in 0 .. n : k \in Good
    BY <1>1, <2>1, <2>2, StepByStep
  <2>4. n \in Good
    BY <1>1, <2>3
  <2> QED BY <2>4 DEF Good
<1>11. n - n + 1 = 1 /\ n \in 0 .. n
  BY <1>1
<1>12. front(n) = SubSeq(t, 1, Before(t, cs, 1))
  BY <1>11
<1>13. EndsIn(f[n], front(n), rest[n])
  BY <1>4, <1>11
<1> HIDE DEF front
<1> QED BY <1>7, <1>10, <1>12, <1>13

\* Going from right to left, every constraint is replaced where it stands.
LEMMA ReplacedIsPiecewise ==
  ASSUME NEW U, NEW t \in Seq(U), NEW cs, Apart(t, cs), NEW pieces, PiecesOf(t, cs, pieces, U)
  PROVE  Replaced(t, cs, pieces) = Piecewise(t, Range(cs))
<1>1. PICK up : Grown(up, t, cs, U) /\ Piecewise(t, Range(cs)) = up[Len(t)]
  BY PiecewiseGrows
<1>2. PICK rest : Tails(rest, t, cs, pieces, U)
  BY TailsExist
<1> DEFINE b == Before(t, cs, 1)
<1>3. up[Len(t)] = up[b] \o rest[Len(cs)]
  <2>1. EndsIn(up[Len(t)], up[b], rest[Len(cs)])
    BY <1>1, <1>2, GrownEndsInTails
  <2> QED BY <2>1 DEF EndsIn
<1>4. Replaced(t, cs, pieces) = SubSeq(t, 1, b) \o rest[Len(cs)]
  <2>1. EndsIn(Replaced(t, cs, pieces), SubSeq(t, 1, b), rest[Len(cs)])
    BY <1>2, ReplacedEndsInTails
  <2> QED BY <2>1 DEF EndsIn
<1>5. up[b] = SubSeq(t, 1, b)
  <2>1. b \in 0 .. Len(t) /\ Len(t) \in Nat
    <3>1. 1 \in 1 .. (Len(cs) + 1)
      BY DEF Apart
    <3> QED BY <3>1, BetweenThem, LenProperties
  <2>2. ASSUME NEW i \in 1 .. b PROVE Segment(t, Range(cs), i) = <<t[i]>>
    <3>1. \A k \in 1 .. Len(cs) : ~(cs[k].from <= i /\ i <= cs[k].to)
      BY BetweenThem
    <3>2. i \in 1 .. Len(t)
      BY <2>1
    <3> QED BY <3>1, <3>2, SegmentIs
  <2>3. Unchanging(t, cs, 0, b)
    BY <2>2 DEF Unchanging
  <2>4. 0 \in Nat /\ b \in Nat /\ 0 <= b /\ b <= Len(t)
    BY <2>1
  <2> HIDE DEF b
  <2>5. AsItWas(up, t, 0, b)
    BY <1>1, <2>3, <2>4, PlainStretch
  <2>6. up[b] = up[0] \o SubSeq(t, 1, b)
    BY <2>5 DEF AsItWas
  <2>7. up[0] = <<>>
    BY <1>1 DEF Grown
  <2>8. SubSeq(t, 1, b) \in Seq(U)
    BY <2>4, CutInTwo
  <2>9. <<>> \o SubSeq(t, 1, b) = SubSeq(t, 1, b)
    BY <2>8, ConcatEmptySeq
  <2> QED BY <2>6, <2>7, <2>9
<1> QED BY <1>1, <1>3, <1>4, <1>5

-------------------------------------------------------------------------------
(* What is shown for an expression is a list, whatever it is.                  *)

IsList(s) == \E S : s \in Seq(S)

LEMMA ShortLists ==
  /\ IsList(<<>>)
  /\ \A x : IsList(<<x>>)
  /\ \A x, y : IsList(<<x, y>>)
  /\ \A x, y, z : IsList(<<x, y, z>>)
<1>1. IsList(<<>>)
  <2>1. <<>> \in Seq({})
    BY EmptySeq
  <2> QED BY <2>1 DEF IsList
<1>2. ASSUME NEW x PROVE IsList(<<x>>)
  <2>1. <<x>> \in Seq({x})
    OBVIOUS
  <2> QED BY <2>1 DEF IsList
<1>3. ASSUME NEW x, NEW y PROVE IsList(<<x, y>>)
  <2>1. <<x, y>> \in Seq({x, y})
    OBVIOUS
  <2> QED BY <2>1 DEF IsList
<1>4. ASSUME NEW x, NEW y, NEW z PROVE IsList(<<x, y, z>>)
  <2>1. <<x, y, z>> \in Seq({x, y, z})
    OBVIOUS
  <2> QED BY <2>1 DEF IsList
<1> QED BY <1>1, <1>2, <1>3, <1>4

LEMMA ListsJoin ==
  ASSUME NEW s, NEW u, IsList(s), IsList(u)
  PROVE  IsList(s \o u)
<1>1. PICK S : s \in Seq(S)
  BY DEF IsList
<1>2. PICK T : u \in Seq(T)
  BY DEF IsList
<1>3. s \in Seq(S \cup T) /\ u \in Seq(S \cup T)
  BY <1>1, <1>2, SeqMonotonic
<1>4. s \o u \in Seq(S \cup T)
  BY <1>3, ConcatProperties
<1> QED BY <1>4 DEF IsList

LEMMA ListOfItsItems ==
  ASSUME NEW s, IsList(s)
  PROVE  s \in Seq(Range(s))
<1>1. PICK S : s \in Seq(S)
  BY DEF IsList
<1>2. Len(s) \in Nat /\ s \in [1 .. Len(s) -> S] /\ DOMAIN s = 1 .. Len(s)
  BY <1>1, LenProperties
<1>3. s \in [1 .. Len(s) -> Range(s)]
  BY <1>2 DEF Range
<1> QED BY <1>2, <1>3, ListOf

\* What names a time for itself.
Definite(s) == IsList(s) /\ s # <<>> /\ Absolute(s)
OfKind(x) ==
  x.kind \in {"word", "number", "date", "clock", "monthof", "seasonof", "monthweek", "weekof", "instant"}

LEMMA OfKindDefinite ==
  /\ \A x : OfKind(x) => Definite(<<x>>)
  /\ \A x, y : OfKind(x) /\ OfKind(y) => Definite(<<x, y>>)
  /\ \A x, y, z : OfKind(x) /\ OfKind(y) /\ OfKind(z) => Definite(<<x, y, z>>)
<1>1. ASSUME NEW x, OfKind(x) PROVE Definite(<<x>>)
  <2>1. <<x>> # <<>> /\ \A i \in DOMAIN <<x>> : <<x>>[i] = x
    OBVIOUS
  <2>2. \A i \in DOMAIN <<x>> : AbsoluteAt(<<x>>, i)
    BY <1>1, <2>1 DEF AbsoluteAt, OfKind
  <2> QED BY <2>1, <2>2, ShortLists DEF Definite, Absolute
<1>2. ASSUME NEW x, NEW y, OfKind(x), OfKind(y) PROVE Definite(<<x, y>>)
  <2>1. <<x, y>> # <<>> /\ \A i \in DOMAIN <<x, y>> : <<x, y>>[i] \in {x, y}
    OBVIOUS
  <2>2. \A i \in DOMAIN <<x, y>> : OfKind(<<x, y>>[i])
    BY <1>2, <2>1
  <2>3. \A i \in DOMAIN <<x, y>> : AbsoluteAt(<<x, y>>, i)
    BY <2>2 DEF AbsoluteAt, OfKind
  <2> QED BY <2>1, <2>3, ShortLists DEF Definite, Absolute
<1>3. ASSUME NEW x, NEW y, NEW z, OfKind(x), OfKind(y), OfKind(z) PROVE Definite(<<x, y, z>>)
  <2>1. <<x, y, z>> # <<>> /\ \A i \in DOMAIN <<x, y, z>> : <<x, y, z>>[i] \in {x, y, z}
    OBVIOUS
  <2>2. \A i \in DOMAIN <<x, y, z>> : OfKind(<<x, y, z>>[i])
    BY <1>3, <2>1
  <2>3. \A i \in DOMAIN <<x, y, z>> : AbsoluteAt(<<x, y, z>>, i)
    BY <2>2 DEF AbsoluteAt, OfKind
  <2> QED BY <2>1, <2>3, ShortLists DEF Definite, Absolute
<1> QED BY <1>1, <1>2, <1>3

LEMMA KindsAre ==
  /\ \A n : OfKind(DateOf(n)) /\ OfKind(ClockOf(n)) /\ OfKind(Word(n))
  /\ \A n \in Days : DateOf(n).kind = "date"
<1>1. \A n : OfKind(DateToken(n)) /\ OfKind(Word(n)) /\ OfKind(ClockOf(n)) /\ DateToken(n).kind = "date"
  BY DEF OfKind, DateToken, Word, ClockOf
<1> QED BY <1>1 DEF DateOf

\* A result that can be shown.
Shows(a) ==
  "shown" \in DOMAIN a /\ IsList(a.shown) /\ (a.status = "resolved" => Definite(a.shown))

LEMMA ResultIs ==
  ASSUME NEW g, NEW from, NEW to, NEW shown
  PROVE  LET a == Result(g, from, to, shown)
         IN /\ "shown" \in DOMAIN a /\ a.shown = shown
            /\ a.status = "resolved" => from \div 24 \in Days /\ ~(from < 0) /\ ~(to < 0)
<1> DEFINE a == Result(g, from, to, shown)
<1>1. "shown" \in DOMAIN a /\ a.shown = shown
  BY DEF Result
<1>2. a.status = IF from < 0 \/ to < 0 \/ from \div 24 \notin Days \/ to \div 24 \notin Days THEN "raised"
                 ELSE IF from > to THEN "invalid" ELSE "resolved"
  BY DEF Result
<1> HIDE DEF a
<1>3. a.status = "resolved" => ~(from < 0 \/ to < 0 \/ from \div 24 \notin Days \/ to \div 24 \notin Days)
  BY <1>2
<1>4. a.status = "resolved" => from \div 24 \in Days /\ ~(from < 0) /\ ~(to < 0)
  BY <1>3
<1> QED BY <1>1, <1>4 DEF a

LEMMA ResultShows ==
  ASSUME NEW g, NEW from, NEW to, NEW shown, Definite(shown)
  PROVE  Shows(Result(g, from, to, shown)) /\ Shows(Between(g, from, to, shown))
<1>1. \A f, l : Shows(Result(g, f, l, shown))
  <2> SUFFICES ASSUME NEW f, NEW l PROVE Shows(Result(g, f, l, shown))
    OBVIOUS
  <2> DEFINE a == Result(g, f, l, shown)
  <2>1. "shown" \in DOMAIN a /\ a.shown = shown
    BY ResultIs
  <2>2. IsList(shown)
    BY DEF Definite
  <2> HIDE DEF a
  <2>3. Shows(a)
    BY <2>1, <2>2 DEF Shows
  <2> QED BY <2>3 DEF a
<1> QED BY <1>1 DEF Between

LEMMA FailedShows ==
  ASSUME NEW status, status # "resolved"
  PROVE  Shows(Failed(status))
<1> DEFINE a == Failed(status)
<1>1. "shown" \in DOMAIN a
  BY DEF Failed
<1>2. a.shown = <<>> /\ a.status = status
  BY DEF Failed
<1> QED BY <1>1, <1>2, ShortLists DEF Shows

LEMMA SomeResolversShow ==
  ASSUME NEW n
  PROVE  /\ Shows(OneDay(n)) /\ Shows(WholeWeek(n)) /\ Shows(TwoDays(n)) /\ Shows(WholeMonth(n)) /\ Shows(WholeYear(n))
         /\ \A s : Shows(WholeSeason(s, n))
         /\ Shows(DaysFromTo(n))
         /\ \A p : Shows(PartOfDay(p, n))
         /\ Definite(WeekOf(n)) /\ Definite(WholeMonth(n).shown)
<1>1. Definite(<<DateOf(n)>>) /\ Definite(WeekOf(n)) /\ Definite(Span(n, n + 1)) /\ Definite(Span(n[1], n[2]))
  BY OfKindDefinite, KindsAre DEF WeekOf, Span
<1>2. Shows(OneDay(n))
  BY <1>1, ResultShows DEF OneDay
<1>3. Shows(WholeWeek(n))
  BY <1>1, ResultShows DEF WholeWeek
<1>4. Shows(TwoDays(n))
  BY <1>1, ResultShows DEF TwoDays
<1>5. Shows(WholeMonth(n)) /\ Definite(WholeMonth(n).shown)
  <2> DEFINE x == [kind |-> "monthof", y |-> n.y, m |-> n.m]
  <2>1. OfKind(x)
    BY DEF OfKind
  <2> HIDE DEF x
  <2>2. Definite(<<x>>)
    BY <2>1, OfKindDefinite
  <2>3. WholeMonth(n) = Between("month", Day(n.y, n.m, 1), Clamped(n, 31), <<x>>)
    BY DEF WholeMonth, x
  <2>4. Between("month", Day(n.y, n.m, 1), Clamped(n, 31), <<x>>).shown = <<x>>
    BY ResultIs DEF Between
  <2> QED BY <2>2, <2>3, <2>4, ResultShows
<1>6. Shows(WholeYear(n))
  <2>1. OfKind([kind |-> "number", y |-> n])
    BY DEF OfKind
  <2> QED BY <2>1, OfKindDefinite, ResultShows DEF WholeYear
<1>7. ASSUME NEW s PROVE Shows(WholeSeason(s, n))
  <2>1. OfKind([kind |-> "seasonof", s |-> s, y |-> n])
    BY DEF OfKind
  <2> QED BY <2>1, OfKindDefinite, ResultShows DEF WholeSeason
<1>8. Shows(DaysFromTo(n))
  BY <1>1, ResultShows DEF DaysFromTo
<1>9. ASSUME NEW p PROVE Shows(PartOfDay(p, n))
  <2> DEFINE i == IF n \in Days THEN Instant(n, PartHour[p]) ELSE -1
             s == <<Part(p, 0), Word("of"), DateOf(n)>>
             a == Result("range", i, i, s)
  <2>1. PartOfDay(p, n) = a
    BY DEF PartOfDay
  <2>2. n \notin Days => i < 0
    OBVIOUS
  <2>3. n \in Days => Definite(s)
    <3> SUFFICES ASSUME n \in Days PROVE Definite(s)
      OBVIOUS
    <3> DEFINE x == Part(p, 0)
               z == DateOf(n)
               w == Word("of")
    <3>1. x.kind = "part" /\ z.kind = "date" /\ OfKind(z) /\ OfKind(w)
      BY KindsAre DEF Part
    <3> HIDE DEF x, w, z
    <3>2. s = <<x, w, z>>
      BY DEF x, w, z
    <3> HIDE DEF s
    <3>3. DOMAIN s = 1 .. 3 /\ s[1] = x /\ s[2] = w /\ s[3] = z /\ s # <<>>
      BY <3>2
    <3>4. AbsoluteAt(s, 1)
      <4>1. 1 + 2 \in DOMAIN s /\ s[1 + 1] = Word("of") /\ s[1 + 2].kind = "date"
        BY <3>1, <3>3 DEF w
      <4> QED BY <3>1, <3>3, <4>1 DEF AbsoluteAt
    <3>5. AbsoluteAt(s, 2) /\ AbsoluteAt(s, 3)
      BY <3>1, <3>3 DEF AbsoluteAt, OfKind
    <3>6. Absolute(s)
      BY <3>3, <3>4, <3>5 DEF Absolute
    <3>7. IsList(s)
      BY <3>2, ShortLists
    <3> QED BY <3>3, <3>6, <3>7 DEF Definite
  <2>4. IsList(s)
    BY ShortLists
  <2> HIDE DEF s, i
  <2>5. "shown" \in DOMAIN a /\ a.shown = s /\ (a.status = "resolved" => ~(i < 0))
    BY ResultIs
  <2> HIDE DEF a
  <2> QED BY <2>1, <2>2, <2>3, <2>4, <2>5 DEF Shows
<1> QED BY <1>1, <1>2, <1>3, <1>4, <1>5, <1>6, <1>7, <1>8, <1>9

LEMMA PointShows ==
  ASSUME NEW e, NEW r
  PROVE  Shows(ResolvePoint(e, r))
<1> DEFINE n == RefDay(r)
<1>1. Shows(AbsoluteDate(e))
  <2>1. Shows(OneDay(Day(e.y, e.m, e.d))) /\ Shows(Failed("invalid"))
    BY SomeResolversShow, FailedShows
  <2> QED BY <2>1 DEF AbsoluteDate
<1>2. Shows(AbsoluteTime(e, r))
  <2>1. \A h : Shows(Result("time", Instant(RefDay(r), h), Instant(RefDay(r), h), <<ClockOf(h)>>))
    BY OfKindDefinite, KindsAre, ResultShows
  <2>2. Shows(Failed("invalid"))
    BY FailedShows
  <2> QED BY <2>1, <2>2 DEF AbsoluteTime
<1>3. Shows(RelativeDay(e, n)) /\ Shows(RelativeWeekday(e, n))
  BY SomeResolversShow DEF RelativeDay, RelativeWeekday
<1>4. Shows(DayPartTime(e, r)) /\ Shows(RelativeDayPart(e, r))
  BY SomeResolversShow DEF DayPartTime, RelativeDayPart
<1>5. Shows(Hours(e, r))
  BY OfKindDefinite, KindsAre, ResultShows DEF Hours
<1>6. Shows(RelativeWindow(e, n))
  <2>1. Definite(UnitShown(e, n))
    <3>1. Definite(<<DateOf(n - e.n)>>) /\ Definite(WeekOf(Monday(n) - 7 * e.n))
      BY OfKindDefinite, KindsAre, SomeResolversShow
    <3>2. Definite(<<[kind |-> "number", y |-> Civil[n].y - e.n]>>)
      <4>1. OfKind([kind |-> "number", y |-> Civil[n].y - e.n])
        BY DEF OfKind
      <4> QED BY <4>1, OfKindDefinite
    <3>3. Definite(WholeMonth(MonthAt(n, -e.n)).shown)
      BY SomeResolversShow
    <3> QED BY <3>1, <3>2, <3>3 DEF UnitShown
  <2>2. \A from : Shows(OneDay(from)) /\ Shows(Between(e.unit, from, n, UnitShown(e, n)))
    BY <2>1, SomeResolversShow, ResultShows
  <2> QED BY <2>2 DEF RelativeWindow, WindowFor
<1>7. Shows(WeekPoint(e, n))
  BY SomeResolversShow DEF WeekPoint
<1>8. Shows(AnchoredWeek(e))
  <2>1. \A m : Shows(WholeWeek(m))
    BY SomeResolversShow
  <2>2. Shows(Failed("unresolved"))
    BY FailedShows
  <2> QED BY <2>1, <2>2 DEF AnchoredWeek
<1>9. Shows(Weekend(e, n)) /\ Shows(MonthPoint(e, n)) /\ Shows(WholeMonth(e))
  BY SomeResolversShow DEF Weekend, MonthPoint
<1>10. Shows(SeasonPoint(e, n))
  <2>1. \A y : Shows(WholeSeason(e.s, y))
    BY SomeResolversShow
  <2> QED BY <2>1 DEF SeasonPoint
<1>11. Shows(WholeSeason(e.s, e.y)) /\ Shows(WholeYear(Civil[n].y + Shift(e.mod)))
  BY SomeResolversShow
<1>12. e.kind = "monthweek" => Shows(MonthWeek(e))
  <2> SUFFICES ASSUME e.kind = "monthweek" PROVE Shows(MonthWeek(e))
    OBVIOUS
  <2>1. \A from, to : Shows(Between("range", from, to, <<e>>))
    <3>1. OfKind(e)
      BY DEF OfKind
    <3>2. Definite(<<e>>)
      BY <3>1, OfKindDefinite
    <3> QED BY <3>2, ResultShows
  <2>2. Shows(Failed("raised"))
    BY FailedShows
  <2> QED BY <2>1, <2>2 DEF MonthWeek
<1>13. Shows(Vague(e, n))
  BY SomeResolversShow DEF Vague
<1> HIDE DEF n
<1>14. \/ e.kind = "monthweek" /\ ResolvePoint(e, r) = MonthWeek(e)
       \/ ResolvePoint(e, r) \in {AbsoluteDate(e), AbsoluteTime(e, r), RelativeDay(e, n), DayPartTime(e, r),
         RelativeDayPart(e, r), Hours(e, r), RelativeWeekday(e, n), RelativeWindow(e, n), WeekPoint(e, n),
         AnchoredWeek(e), Weekend(e, n), MonthPoint(e, n), WholeMonth(e), SeasonPoint(e, n), WholeSeason(e.s, e.y),
         WholeYear(Civil[n].y + Shift(e.mod)), Vague(e, n)}
  BY DEF ResolvePoint, n
<1> QED BY <1>1, <1>2, <1>3, <1>4, <1>5, <1>6, <1>7, <1>8, <1>9, <1>10, <1>11, <1>12, <1>13, <1>14

LEMMA WordAheadDefinite ==
  ASSUME NEW w, NEW s, Definite(s)
  PROVE  Definite(<<Word(w)>> \o s)
<1> DEFINE u == <<Word(w)>> \o s
<1>1. PICK S : s \in Seq(S)
  BY DEF Definite, IsList
<1>2. Len(s) \in Nat /\ DOMAIN s = 1 .. Len(s)
  BY <1>1, LenProperties
<1>3. s \in Seq(S \cup {Word(w)}) /\ <<Word(w)>> \in Seq(S \cup {Word(w)})
  BY <1>1, SeqMonotonic
<1>4. /\ u \in Seq(S \cup {Word(w)}) /\ Len(u) = 1 + Len(s) /\ u[1] = Word(w)
      /\ \A i \in 1 .. Len(s) : u[i + 1] = s[i]
  <2> DEFINE one == <<Word(w)>>
  <2>1. Len(one) = 1 /\ one[1] = Word(w)
    OBVIOUS
  <2>2. one \in Seq(S \cup {Word(w)})
    BY <1>3
  <2> HIDE DEF one
  <2> DEFINE A == S \cup {Word(w)}
  <2>3. one \in Seq(A) /\ s \in Seq(A)
    BY <1>3, <2>2
  <2> HIDE DEF A
  <2>4. /\ one \o s \in Seq(A) /\ Len(one \o s) = Len(one) + Len(s)
        /\ \A i \in 1 .. Len(one) + Len(s) : (one \o s)[i] = IF i <= Len(one) THEN one[i] ELSE s[i - Len(one)]
    BY ONLY <2>3, ConcatProperties
  <2>5. /\ one \o s \in Seq(S \cup {Word(w)}) /\ Len(one \o s) = 1 + Len(s)
        /\ \A i \in 1 .. 1 + Len(s) : (one \o s)[i] = IF i <= 1 THEN one[i] ELSE s[i - 1]
    BY <2>1, <2>4 DEF A
  <2>6. (one \o s)[1] = Word(w)
    BY <1>2, <2>1, <2>5
  <2>7. \A i \in 1 .. Len(s) : i + 1 \in 1 .. 1 + Len(s) /\ ~(i + 1 <= 1) /\ i + 1 - 1 = i
    BY <1>2
  <2>8. \A i \in 1 .. Len(s) : (one \o s)[i + 1] = s[i]
    BY <2>5, <2>7
  <2> QED BY <2>5, <2>6, <2>8 DEF one
<1> HIDE DEF u
<1>5. DOMAIN u = 1 .. 1 + Len(s)
  BY <1>4, LenProperties
<1>6. AbsoluteAt(u, 1)
  BY <1>4 DEF AbsoluteAt, Word
<1>7. ASSUME NEW i \in 1 .. Len(s) PROVE AbsoluteAt(u, i + 1)
  <2>1. AbsoluteAt(s, i)
    BY <1>2 DEF Definite, Absolute
  <2>2. u[i + 1] = s[i]
    BY <1>4
  <2>3. CASE s[i].kind \in {"word", "number", "date", "clock", "monthof", "seasonof", "monthweek", "weekof", "instant"}
    BY <2>2, <2>3 DEF AbsoluteAt
  <2>4. CASE s[i].kind = "part" /\ i + 2 \in DOMAIN s /\ s[i + 1] = Word("of") /\ s[i + 2].kind = "date"
    <3>1. i + 1 \in 1 .. Len(s) /\ i + 2 \in 1 .. Len(s)
      BY <1>2, <2>4
    <3>2. u[(i + 1) + 1] = s[i + 1] /\ u[(i + 2) + 1] = s[i + 2] /\ (i + 2) + 1 \in DOMAIN u
      BY <1>2, <1>4, <1>5, <3>1
    <3>3. (i + 2) + 1 = (i + 1) + 2
      BY <1>2
    <3>4. (i + 1) + 2 \in DOMAIN u /\ u[(i + 1) + 1] = Word("of") /\ u[(i + 1) + 2].kind = "date"
      BY <2>4, <3>2, <3>3
    <3> QED BY <2>2, <2>4, <3>4 DEF AbsoluteAt
  <2> QED BY <2>1, <2>3, <2>4 DEF AbsoluteAt
<1>8. Absolute(u)
  <2> SUFFICES ASSUME NEW i \in DOMAIN u PROVE AbsoluteAt(u, i)
    BY DEF Absolute
  <2>1. i = 1 \/ (i - 1 \in 1 .. Len(s) /\ i = (i - 1) + 1)
    BY <1>2, <1>5
  <2>2. CASE i - 1 \in 1 .. Len(s) /\ i = (i - 1) + 1
    <3>1. AbsoluteAt(u, (i - 1) + 1)
      BY <1>7, <2>2
    <3> QED BY <2>2, <3>1
  <2> QED BY <1>6, <2>1, <2>2
<1>9. u # <<>>
  BY <1>2, <1>5
<1> QED BY <1>4, <1>8, <1>9 DEF Definite, IsList, u

LEMMA MatchShows ==
  ASSUME NEW e, NEW r
  PROVE  Shows(ResolveMatch(e, r))
<1> DEFINE a == ResolvePoint(IF e.kind = "bound" THEN e.of ELSE e, r)
<1>1. Shows(a)
  BY PointShows
<1> HIDE DEF a
<1>2. ASSUME NEW op PROVE Shows(Boundary(op, a))
  <2>1. CASE a.status = "raised"
    BY <1>1, <2>1 DEF Boundary
  <2>2. CASE a.status # "raised" /\ a.status # "resolved"
    <3> DEFINE ending == IF a.status = "unresolved" THEN "partially_resolved" ELSE a.status
    <3>1. ending # "resolved"
      BY <2>2
    <3>2. Boundary(op, a) = Failed(ending)
      BY <2>2 DEF Boundary
    <3> HIDE DEF ending
    <3> QED BY <3>1, <3>2, FailedShows
  <2>3. CASE a.status = "resolved"
    <3>1. Definite(a.shown)
      BY <1>1, <2>3 DEF Shows
    <3> DEFINE said == <<Word(op)>> \o a.shown
    <3>2. Definite(said)
      BY <3>1, WordAheadDefinite
    <3> HIDE DEF said
    <3>3. Boundary(op, a) = [a EXCEPT !.gran = "range", !.op = op, !.shown = said,
                 !.start = CASE op = "before" -> -1
                                [] op = "after" -> (IF a.start = a.end THEN a.end ELSE a.end + 1)
                                [] OTHER -> a.start,
                 !.end = IF op = "before" THEN a.start - 1 ELSE -1]
      BY <2>3 DEF Boundary, said
    <3>4. "shown" \in DOMAIN Boundary(op, a) /\ Boundary(op, a).shown = said
      BY <1>1, <3>3 DEF Shows
    <3> QED BY <3>2, <3>4 DEF Shows, Definite
  <2> QED BY <2>1, <2>2, <2>3
<1>3. ResolveMatch(e, r) = IF e.kind = "bound" THEN Boundary(e.op, a) ELSE a
  BY DEF ResolveMatch, Bounded, a
<1> QED BY <1>1, <1>2, <1>3

-------------------------------------------------------------------------------
(* The constraints of a text.                                                  *)

LEMMA MatchIsAt ==
  ASSUME NEW U, NEW t \in Seq(U), NEW i \in 1 .. Len(t)
  PROVE  /\ MatchAt(t, i).to = i
         /\ \/ MatchAt(t, i).from = i
            \/ /\ MatchAt(t, i).from = i - 1 /\ i - 1 \in 1 .. Len(t)
               /\ ~IsExpr(t[i - 1])
<1>1. Len(t) \in Nat /\ DOMAIN t = 1 .. Len(t)
  BY LenProperties
<1>2. CASE OpAt(t, i - 1) /\ t[i].kind # "vague"
  <2>1. MatchAt(t, i).to = i /\ MatchAt(t, i).from = i - 1
    BY <1>2 DEF MatchAt
  <2>2. i - 1 \in 1 .. Len(t) /\ t[i - 1].kind = "word"
    BY <1>1, <1>2 DEF OpAt
  <2> QED BY <2>1, <2>2 DEF IsExpr
<1>3. CASE ~(OpAt(t, i - 1) /\ t[i].kind # "vague")
  <2> DEFINE led == t[i].kind = "clock" /\ i > 1 /\ t[i - 1] = Word("at")
  <2>1. MatchAt(t, i) = [from |-> IF led THEN i - 1 ELSE i, to |-> i, e |-> t[i]]
    BY <1>3 DEF MatchAt
  <2>2. led => i - 1 \in 1 .. Len(t) /\ ~IsExpr(t[i - 1])
    <3>1. ~IsExpr(Word("at"))
      BY DEF IsExpr, Word
    <3>2. i > 1 => i - 1 \in 1 .. Len(t)
      BY <1>1
    <3> QED BY <3>1, <3>2
  <2> HIDE DEF led
  <2>3. MatchAt(t, i).to = i /\ MatchAt(t, i).from = IF led THEN i - 1 ELSE i
    BY <2>1
  <2> QED BY <2>2, <2>3
<1> QED BY <1>2, <1>3

LEMMA ConstraintsAre ==
  ASSUME NEW U, NEW t \in Seq(U), NEW r
  PROVE  /\ Apart(t, Constraints(t, r))
         /\ \A k \in 1 .. Len(Constraints(t, r)) : Shows(Constraints(t, r)[k].res)
<1> DEFINE E == {i \in DOMAIN t : IsExpr(t[i])}
           places == Sorted(E)
           cs == Constraints(t, r)
           n == Len(places)
<1>1. Len(t) \in Nat /\ DOMAIN t = 1 .. Len(t)
  BY LenProperties
<1>2. E \in SUBSET Nat /\ IsFiniteSet(E)
  <2>1. IsFiniteSet(1 .. Len(t))
    BY <1>1, FS_Interval
  <2>2. E \subseteq 1 .. Len(t)
    BY <1>1
  <2> HIDE DEF E
  <2>3. IsFiniteSet(E)
    BY <2>1, <2>2, FS_Subset
  <2>4. E \in SUBSET Nat
    BY <1>1, <2>2
  <2> QED BY <2>3, <2>4
<1>3. /\ places \in Seq(E) /\ n \in Nat
      /\ \A k, l \in 1 .. n : k < l <=> places[k] < places[l]
  <2> HIDE DEF E
  <2> QED BY <1>2, SortedHolds
<1>4. DOMAIN places = 1 .. n /\ \A k \in 1 .. n : places[k] \in E
  <2> HIDE DEF E, places
  <2> QED BY <1>3, LenProperties, ElementOfSeq
<1>5. cs = [k \in DOMAIN places |-> ConstraintAt(t, r, places[k])]
  BY DEF Constraints
<1>6. \A k \in 1 .. n : places[k] \in 1 .. Len(t) /\ IsExpr(t[places[k]])
  BY <1>1, <1>4
<1>7. \A i \in 1 .. Len(t) : IsExpr(t[i]) => i \in E
  BY <1>1
<1> HIDE DEF E, places, cs, n
<1>8. DOMAIN cs = 1 .. n /\ Len(cs) = n
  <2>1. DOMAIN cs = 1 .. n
    BY <1>4, <1>5
  <2>2. cs \in [1 .. n -> Range(cs)]
    <3>1. cs = [k \in 1 .. n |-> cs[k]]
      BY <1>4, <1>5
    <3>2. \A k \in 1 .. n : cs[k] \in Range(cs)
      BY <2>1 DEF Range
    <3> QED BY <3>1, <3>2
  <2> QED BY <1>3, <2>1, <2>2, ListOf
<1>9. ASSUME NEW k \in 1 .. n
      PROVE  /\ cs[k].to = places[k] /\ cs[k].res = ResolveMatch(MatchAt(t, places[k]).e, r)
             /\ cs[k].from = MatchAt(t, places[k]).from /\ MatchAt(t, places[k]).to = places[k]
  <2>1. cs[k] = ConstraintAt(t, r, places[k])
    BY <1>4, <1>5
  <2>2. /\ cs[k].to = MatchAt(t, places[k]).to /\ cs[k].from = MatchAt(t, places[k]).from
        /\ cs[k].res = ResolveMatch(MatchAt(t, places[k]).e, r)
    BY <2>1 DEF ConstraintAt
  <2>3. MatchAt(t, places[k]).to = places[k]
    BY <1>6, MatchIsAt
  <2> QED BY <2>2, <2>3
<1>10. ASSUME NEW k \in 1 .. n
       PROVE  /\ cs[k].from \in 1 .. Len(t) /\ cs[k].to \in 1 .. Len(t)
              /\ cs[k].to = cs[k].from \/ cs[k].to = cs[k].from + 1
              /\ Shows(cs[k].res)
              /\ cs[k].to = places[k]
              /\ cs[k].from # places[k] => cs[k].from = places[k] - 1 /\ cs[k].from \notin E
  <2>1. places[k] \in 1 .. Len(t)
    BY <1>6
  <2>2. \/ cs[k].from = places[k]
        \/ cs[k].from = places[k] - 1 /\ places[k] - 1 \in 1 .. Len(t) /\ ~IsExpr(t[places[k] - 1])
    BY <1>9, <2>1, MatchIsAt
  <2>3. Shows(cs[k].res)
    BY <1>9, MatchShows
  <2>4. ~IsExpr(t[places[k] - 1]) => places[k] - 1 \notin E
    BY DEF E
  <2>5. cs[k].to = places[k]
    BY <1>9
  <2>6. CASE cs[k].from = places[k]
    BY <2>1, <2>3, <2>5, <2>6
  <2>7. CASE cs[k].from = places[k] - 1 /\ places[k] - 1 \in 1 .. Len(t) /\ ~IsExpr(t[places[k] - 1])
    <3>1. places[k] - 1 \notin E
      BY <2>4, <2>7
    <3>2. places[k] = places[k] - 1 + 1
      BY <2>1
    <3> QED BY <2>1, <2>3, <2>5, <2>7, <3>1, <3>2
  <2> QED BY <2>2, <2>6, <2>7
<1>11. ASSUME NEW k \in 1 .. n, NEW l \in 1 .. n, k < l PROVE cs[k].to < cs[l].from
  <2>1. places[k] < places[l] /\ places[k] \in E /\ places[k] \in Nat /\ places[l] \in Nat
    BY <1>2, <1>3, <1>4, <1>11
  <2>2. cs[k].to = places[k]
    BY <1>10
  <2>3. CASE cs[l].from = places[l]
    BY <2>1, <2>2, <2>3
  <2>4. CASE cs[l].from # places[l]
    <3>1. cs[l].from = places[l] - 1 /\ cs[l].from \notin E
      BY <1>10, <2>4
    <3>2. places[k] # places[l] - 1
      BY <2>1, <3>1
    <3> QED BY <2>1, <2>2, <3>1, <3>2
  <2> QED BY <2>3, <2>4
<1>12. Apart(t, cs)
  BY <1>3, <1>8, <1>10, <1>11 DEF Apart
<1> QED BY <1>8, <1>10, <1>12 DEF cs

\* Every list of constraints, rewritten with lists, is rewritten piece by piece.
LEMMA RewrittenPiecewise ==
  ASSUME NEW t, IsList(t), NEW r, NEW pieces,
         \A k \in 1 .. Len(Constraints(t, r)) :
            IsList(pieces[k]) /\ pieces[k] = Piece(t, Constraints(t, r)[k])
  PROVE  /\ Replaced(t, Constraints(t, r), pieces) = Piecewise(t, Range(Constraints(t, r)))
         /\ IsList(Replaced(t, Constraints(t, r), pieces))
<1> DEFINE cs == Constraints(t, r)
           n == Len(cs)
           U == Range(t) \cup UNION {Range(pieces[k]) : k \in 1 .. n}
<1>1. t \in Seq(U)
  <2>1. t \in Seq(Range(t))
    BY ListOfItsItems
  <2>2. Range(t) \subseteq U
    OBVIOUS
  <2> HIDE DEF U
  <2> QED BY <2>1, <2>2, SeqMonotonic
<1>2. Apart(t, cs)
  BY <1>1, ConstraintsAre
<1>3. PiecesOf(t, cs, pieces, U)
  <2> SUFFICES ASSUME NEW k \in 1 .. n PROVE pieces[k] \in Seq(U) /\ pieces[k] = Piece(t, cs[k])
    BY DEF PiecesOf
  <2>1. pieces[k] \in Seq(Range(pieces[k]))
    BY ListOfItsItems
  <2>2. Range(pieces[k]) \subseteq U
    OBVIOUS
  <2> HIDE DEF U
  <2>3. pieces[k] \in Seq(U)
    BY <2>1, <2>2, SeqMonotonic
  <2> QED BY <2>3
<1> HIDE DEF U, cs
<1>4. Replaced(t, cs, pieces) = Piecewise(t, Range(cs))
  BY <1>1, <1>2, <1>3, ReplacedIsPiecewise
<1>5. Piecewise(t, Range(cs)) \in Seq(U)
  <2>1. PICK up : Grown(up, t, cs, U) /\ Piecewise(t, Range(cs)) = up[Len(t)]
    BY <1>1, <1>2, <1>3, PiecewiseGrows
  <2>2. Len(t) \in 0 .. Len(t)
    BY <1>1, LenProperties
  <2> QED BY <2>1, <2>2 DEF Grown
<1>6. IsList(Piecewise(t, Range(cs)))
  BY <1>5 DEF IsList
<1> QED BY <1>4, <1>6 DEF cs

LEMMA ReplacementIsList ==
  ASSUME NEW t, NEW c, IsList(c.res.shown)
  PROVE  IsList(Replacement(t, c))
<1> DEFINE body == IF c.res.gran = "day" THEN <<DateOf(StartOf(c.res))>> ELSE c.res.shown
           led == <<Word(PrefixFor(c.res.gran))>> \o body
<1>1. IsList(body)
  BY ShortLists
<1>2. IsList(led)
  <2> HIDE DEF body
  <2>1. IsList(<<Word(PrefixFor(c.res.gran))>>)
    BY ShortLists
  <2> QED BY <1>1, <2>1, ListsJoin
<1>3. Replacement(t, c) \in {c.res.shown, body, led}
  BY DEF Replacement
<1> HIDE DEF body, led
<1> QED BY <1>1, <1>2, <1>3

LEMMA RewriteIsPiecewise ==
  ASSUME NEW t, IsList(t), NEW r, leg # "augmented"
  PROVE  Rewrite(t, r) = Piecewise(t, Range(Constraints(t, r))) /\ IsList(Rewrite(t, r))
<1> DEFINE cs == Constraints(t, r)
           pieces == [k \in DOMAIN cs |-> Replacement(t, cs[k])]
<1>1. PICK S : t \in Seq(S)
  BY DEF IsList
<1>2. DOMAIN cs = 1 .. Len(cs)
  <2>1. Apart(t, cs)
    BY <1>1, ConstraintsAre
  <2> QED BY <2>1 DEF Apart
<1>3. \A k \in 1 .. Len(cs) : IsList(cs[k].res.shown)
  BY <1>1, ConstraintsAre DEF Shows
<1>4. Rewrite(t, r) = Replaced(t, cs, pieces)
  BY DEF Rewrite
<1> HIDE DEF cs
<1>5. ASSUME NEW k \in 1 .. Len(cs) PROVE IsList(pieces[k]) /\ pieces[k] = Piece(t, cs[k])
  <2>1. pieces[k] = Replacement(t, cs[k])
    BY <1>2
  <2>2. IsList(Replacement(t, cs[k]))
    BY <1>3, ReplacementIsList
  <2>3. Piece(t, cs[k]) = Replacement(t, cs[k])
    BY DEF Piece
  <2> QED BY <2>1, <2>2, <2>3
<1> HIDE DEF pieces
<1>6. Replaced(t, cs, pieces) = Piecewise(t, Range(cs)) /\ IsList(Replaced(t, cs, pieces))
  BY <1>5, RewrittenPiecewise DEF cs
<1> QED BY <1>4, <1>6 DEF cs

LEMMA AugmentedIsPiecewise ==
  ASSUME NEW t, IsList(t), NEW r, leg = "augmented"
  PROVE  Augmented(t, r) = Piecewise(t, Range(Constraints(t, r)))
<1> DEFINE cs == Constraints(t, r)
           pieces == [k \in DOMAIN cs |-> <<MarkerToken(cs[k])>>]
<1>1. PICK S : t \in Seq(S)
  BY DEF IsList
<1>2. DOMAIN cs = 1 .. Len(cs)
  <2>1. Apart(t, cs)
    BY <1>1, ConstraintsAre
  <2> QED BY <2>1 DEF Apart
<1>3. Augmented(t, r) = Replaced(t, cs, pieces)
  BY DEF Augmented
<1> HIDE DEF cs
<1>4. ASSUME NEW k \in 1 .. Len(cs) PROVE IsList(pieces[k]) /\ pieces[k] = Piece(t, cs[k])
  <2>1. pieces[k] = <<MarkerToken(cs[k])>>
    BY <1>2
  <2>2. IsList(<<MarkerToken(cs[k])>>)
    BY ShortLists
  <2>3. Piece(t, cs[k]) = <<MarkerToken(cs[k])>>
    BY DEF Piece
  <2> QED BY <2>1, <2>2, <2>3
<1> HIDE DEF pieces
<1>5. Replaced(t, cs, pieces) = Piecewise(t, Range(cs))
  BY <1>4, RewrittenPiecewise DEF cs
<1> QED BY <1>3, <1>5 DEF cs

-------------------------------------------------------------------------------
(* The text keeps what it was rewritten from.                                  *)

TextInv ==
  /\ passage \in Asked \cup Spoken
  /\ leg \in {"rewritten", "searched"} => outcome = Rewrite(passage, ref)
  /\ leg = "searched" => again = Rewrite(outcome, ref)
  /\ leg = "augmented" => outcome = Augmented(passage, ref)

LEMMA TextsAreLists == \A t \in Asked \cup Spoken : IsList(t)
BY TextsAssumption DEF IsList

LEMMA TextHolds == TextInv => OnlyExpressionsChange
<1> SUFFICES ASSUME TextInv PROVE OnlyExpressionsChange
  OBVIOUS
<1>1. IsList(passage)
  BY TextsAreLists DEF TextInv
<1>2. leg = "rewritten" => outcome = Piecewise(passage, Range(Constraints(passage, ref)))
  BY <1>1, RewriteIsPiecewise DEF TextInv
<1>3. leg = "augmented" => outcome = Piecewise(passage, Range(Constraints(passage, ref)))
  BY <1>1, AugmentedIsPiecewise DEF TextInv
<1>4. leg = "searched" => again = Piecewise(outcome, Range(Constraints(outcome, ref)))
  <2> SUFFICES ASSUME leg = "searched" PROVE again = Piecewise(outcome, Range(Constraints(outcome, ref)))
    OBVIOUS
  <2>1. outcome = Rewrite(passage, ref) /\ again = Rewrite(outcome, ref)
    BY DEF TextInv
  <2>2. IsList(Rewrite(passage, ref))
    BY <1>1, RewriteIsPiecewise
  <2>3. IsList(outcome)
    BY <2>1, <2>2
  <2>4. Rewrite(outcome, ref) = Piecewise(outcome, Range(Constraints(outcome, ref)))
    BY <2>3, RewriteIsPiecewise
  <2> QED BY <2>1, <2>4
<1> QED BY <1>2, <1>3, <1>4 DEF OnlyExpressionsChange

LEMMA TextStarts == TextInit => TextInv
BY DEF TextInit, TextInv

LEMMA TextStep == TextInv /\ [TextNext]_textVars => TextInv'
<1> SUFFICES ASSUME TextInv, [TextNext]_textVars PROVE TextInv'
  OBVIOUS
<1>1. CASE RewriteQuestion
  BY <1>1 DEF TextInv, RewriteQuestion
<1>2. CASE RewriteForRetrieval
  BY <1>2 DEF TextInv, RewriteForRetrieval
<1>3. CASE Raise
  BY <1>3 DEF TextInv, Raise
<1>4. CASE Augment
  BY <1>4 DEF TextInv, Augment
<1>5. CASE LeaveUndated
  BY <1>5 DEF TextInv, LeaveUndated
<1>6. CASE Extract
  BY <1>6 DEF TextInv, Extract
<1>7. CASE Repair
  BY <1>7 DEF TextInv, Repair
<1>8. CASE WriteUnrepaired
  BY <1>8 DEF TextInv, WriteUnrepaired
<1>9. CASE FallBack
  BY <1>9 DEF TextInv, FallBack
<1>10. CASE ExtractRaw
  BY <1>10 DEF TextInv, ExtractRaw
<1>11. CASE UNCHANGED textVars
  BY <1>11 DEF TextInv, textVars
<1> QED BY <1>1, <1>2, <1>3, <1>4, <1>5, <1>6, <1>7, <1>8, <1>9, <1>10, <1>11 DEF TextNext

\* Rewriting a question or a turn, once or twice, changes its expressions and
\* nothing else, each to what it means where it stands: for any texts with any
\* number of expressions, any reference time, calendar and policy
\* (rewrite_temporal_text, augment_temporal_text).
THEOREM OnlyExpressionsEverChange == TextSpec => []OnlyExpressionsChange
<1>1. TextInv /\ [TextNext]_textVars => TextInv'
  BY TextStep
<1> QED BY <1>1, TextStarts, TextHolds, PTL DEF TextSpec

-------------------------------------------------------------------------------
(* What a hint says names a time for itself.                                   *)

Hinted(h) ==
  Definite(h.to) /\ Definite(h.shown) /\ Definite(h.marker.name) /\ IsList(h.original)

LEMMA HintIsHinted ==
  ASSUME NEW t, NEW c, Definite(c.res.shown), IsList(SubSeq(t, c.from, c.to))
  PROVE  Hinted(HintOf(t, c))
<1> DEFINE h == HintOf(t, c)
           day == <<DateOf(StartOf(c.res))>>
           instant == <<[kind |-> "instant", at |-> c.res.start]>>
<1>1. Definite(day) /\ Definite(instant)
  <2>1. OfKind([kind |-> "instant", at |-> c.res.start])
    BY DEF OfKind
  <2> QED BY <2>1, OfKindDefinite, KindsAre
<1> HIDE DEF day, instant
<1>2. /\ h.to = IF c.res.gran = "day" THEN day ELSE c.res.shown
      /\ h.shown = c.res.shown /\ h.marker = MarkerOf(c.res) /\ h.original = SubSeq(t, c.from, c.to)
  BY DEF HintOf, day
<1> HIDE DEF h
<1>3. MarkerOf(c.res).name \in {day, instant, c.res.shown}
  BY DEF MarkerOf, day, instant
<1> QED BY <1>1, <1>2, <1>3 DEF Hinted, h

\* Of any text, the name of an entity among them: what is found in it is hinted.
FoundIn(t, r) == Found(Constraints(t, r))

LEMMA FoundIsHinted ==
  ASSUME NEW t, IsList(t), NEW r
  PROVE  /\ FoundIn(t, r) \subseteq 1 .. Len(Constraints(t, r)) /\ Len(Constraints(t, r)) \in Nat
         /\ DOMAIN Constraints(t, r) = 1 .. Len(Constraints(t, r))
         /\ \A k \in FoundIn(t, r) : /\ Definite(Constraints(t, r)[k].res.shown)
                                     /\ IsList(SubSeq(t, Constraints(t, r)[k].from, Constraints(t, r)[k].to))
<1> DEFINE cs == Constraints(t, r)
<1>1. PICK U : t \in Seq(U)
  BY DEF IsList
<1>2. Apart(t, cs) /\ \A k \in 1 .. Len(cs) : Shows(cs[k].res)
  BY <1>1, ConstraintsAre
<1>3. FoundIn(t, r) = {k \in DOMAIN cs : cs[k].res.status = "resolved"}
  BY DEF FoundIn, Found
<1> HIDE DEF cs
<1>4. DOMAIN cs = 1 .. Len(cs) /\ Len(cs) \in Nat
  BY <1>2 DEF Apart
<1>5. ASSUME NEW k \in FoundIn(t, r)
      PROVE  Definite(cs[k].res.shown) /\ IsList(SubSeq(t, cs[k].from, cs[k].to))
  <2>1. k \in 1 .. Len(cs) /\ cs[k].res.status = "resolved"
    BY <1>3, <1>4
  <2>2. Definite(cs[k].res.shown)
    BY <1>2, <2>1 DEF Shows
  <2>3. cs[k].from \in 1 .. Len(t) /\ cs[k].to \in 1 .. Len(t)
        /\ (cs[k].to = cs[k].from \/ cs[k].to = cs[k].from + 1)
    BY <1>2, <2>1 DEF Apart
  <2>4. SubSeq(t, cs[k].from, cs[k].to) \in Seq(U)
    <3> DEFINE a == cs[k].from
               b == cs[k].to
    <3>1. a \in 1 .. Len(t) /\ b \in 1 .. Len(t)
      BY <2>3
    <3> HIDE DEF a, b
    <3>2. SubSeq(t, a, b) \in Seq(U)
      BY <1>1, <3>1, LenProperties, SubSeqProperties
    <3> QED BY <3>2 DEF a, b
  <2> QED BY <2>2, <2>4 DEF IsList
<1>6. FoundIn(t, r) \subseteq 1 .. Len(cs)
  BY <1>3, <1>4
<1> QED BY <1>4, <1>5, <1>6 DEF cs

LEMMA HintsAreHinted ==
  ASSUME NEW t, IsList(t), NEW r
  PROVE  \A h \in Range(HintsOf(t, r)) : Hinted(h)
<1> DEFINE cs == Constraints(t, r)
           settled == Found(cs)
           P == {k \in settled : \A l \in settled : l > k => ~(SubSeq(t, cs[k].from, cs[k].to) = SubSeq(t, cs[l].from, cs[l].to))}
           latest == At(cs, P)
           kept == Reverse(latest)
           hs == HintsOf(t, r)
<1>1. settled = FoundIn(t, r)
  BY DEF FoundIn
<1>2. hs = [k \in DOMAIN kept |-> HintOf(t, kept[k])]
  BY DEF HintsOf, HintsFrom
<1>3. P \subseteq FoundIn(t, r)
  BY <1>1
<1>4. /\ FoundIn(t, r) \subseteq 1 .. Len(cs) /\ Len(cs) \in Nat
      /\ \A k \in FoundIn(t, r) : Definite(cs[k].res.shown) /\ IsList(SubSeq(t, cs[k].from, cs[k].to))
  BY FoundIsHinted
<1> HIDE DEF cs, hs, P, settled
<1>5. P \in SUBSET Nat /\ IsFiniteSet(P)
  <2>1. IsFiniteSet(1 .. Len(cs))
    BY <1>4, FS_Interval
  <2>2. P \subseteq 1 .. Len(cs)
    BY <1>3, <1>4
  <2>3. IsFiniteSet(P)
    BY <2>1, <2>2, FS_Subset
  <2>4. P \in SUBSET Nat
    BY <1>4, <2>2
  <2> QED BY <2>3, <2>4
<1> DEFINE S == {cs[i] : i \in P}
<1>6. latest \in Seq(S)
  <2>1. \A i \in P : cs[i] \in S
    OBVIOUS
  <2> HIDE DEF S
  <2> QED BY <1>5, <2>1, AtHolds
<1>7. \A c \in S : Definite(c.res.shown) /\ IsList(SubSeq(t, c.from, c.to))
  BY <1>3, <1>4
<1> HIDE DEF S, latest
<1>8. Len(latest) \in Nat /\ \A i \in 1 .. Len(latest) : latest[i] \in S
  BY <1>6, LenProperties, ElementOfSeq
<1>9. DOMAIN kept = 1 .. Len(latest) /\ \A i \in 1 .. Len(latest) : kept[i] \in S
  <2>1. kept = [i \in 1 .. Len(latest) |-> latest[(Len(latest) - i) + 1]]
    BY DEF Reverse
  <2>2. \A i \in 1 .. Len(latest) : (Len(latest) - i) + 1 \in 1 .. Len(latest)
    BY <1>8
  <2> QED BY <1>8, <2>1, <2>2
<1> HIDE DEF kept
<1>10. ASSUME NEW k \in DOMAIN hs PROVE Hinted(hs[k])
  <2>1. k \in DOMAIN kept /\ hs[k] = HintOf(t, kept[k])
    BY <1>2
  <2>2. kept[k] \in S
    BY <1>9, <2>1
  <2> QED BY <1>7, <2>1, <2>2, HintIsHinted
<1>11. \A h \in Range(hs) : Hinted(h)
  BY <1>10 DEF Range
<1> QED BY <1>11 DEF hs

LEMMA FirstIsDefinite ==
  ASSUME NEW t, IsList(t), NEW r, FoundIn(t, r) # {}
  PROVE  Definite(FirstHint(t, Constraints(t, r)).to)
<1> DEFINE F == FoundIn(t, r)
           first == CHOOSE k \in F : \A l \in F : k <= l
<1>1. F \in SUBSET Nat
  BY FoundIsHinted
<1> HIDE DEF F
<1>2. \E k \in F : \A l \in F : k <= l
  BY <1>1, LeastNat DEF F
<1>3. first \in F
  BY <1>2
<1>4. FirstHint(t, Constraints(t, r)) = HintOf(t, Constraints(t, r)[first])
  BY DEF FirstHint, FoundIn, F
<1> HIDE DEF first
<1>5. Hinted(HintOf(t, Constraints(t, r)[first]))
  BY <1>3, FoundIsHinted, HintIsHinted DEF F
<1> QED BY <1>4, <1>5 DEF Hinted

-------------------------------------------------------------------------------
(* The name an extracted time is given by the repair.                          *)

\* All that is assumed of what the model wrote.
Told(ent) == ent.bracket \in BOOLEAN /\ (ent.type \in TimeTypes => IsList(ent.name))

\* A name that says its time, or has nothing that could be resolved.
Settled(name, r) == Absolute(name) \/ HasDate(name) \/ FoundIn(name, r) = {}

LEMMA TimeNameSettled ==
  ASSUME NEW hs, \A h \in Range(hs) : Hinted(h), NEW r, NEW ent, IsList(ent.name)
  PROVE  Settled(TimeName(hs, r, ent), r)
<1> DEFINE name == ResolvedName(hs, r, ent.name)
<1>1. Settled(name, r)
  <2>1. CASE HintFor(hs, ent.name) # {}
    <3> DEFINE g == CHOOSE g \in HintFor(hs, ent.name) : TRUE
    <3>1. g \in HintFor(hs, ent.name)
      BY <2>1
    <3>2. name = g.to
      BY <2>1 DEF ResolvedName
    <3> HIDE DEF g, name
    <3>3. Hinted(g)
      BY <3>1 DEF HintFor
    <3> QED BY <3>2, <3>3 DEF Hinted, Definite, Settled
  <2>2. CASE HintFor(hs, ent.name) = {} /\ (HasDate(ent.name) \/ FoundIn(ent.name, r) = {})
    <3>1. name = ent.name
      BY <2>2 DEF ResolvedName, ByItself, FoundIn
    <3> HIDE DEF name
    <3> QED BY <2>2, <3>1 DEF Settled
  <2>3. CASE HintFor(hs, ent.name) = {} /\ ~HasDate(ent.name) /\ FoundIn(ent.name, r) # {}
    <3>1. name = FirstHint(ent.name, Constraints(ent.name, r)).to
      BY <2>3 DEF ResolvedName, ByItself, FoundIn
    <3> HIDE DEF name
    <3>2. Definite(FirstHint(ent.name, Constraints(ent.name, r)).to)
      BY <2>3, FirstIsDefinite
    <3> QED BY <3>1, <3>2 DEF Definite, Settled
  <2> QED BY <2>1, <2>2, <2>3
<1> DEFINE full == {m \in {hs[k].marker : k \in DOMAIN hs} : m.type = ent.type /\ IsStrictSuffix(name, m.name)}
<1>2. TimeName(hs, r, ent) = IF name = ent.name /\ Cardinality(full) = 1 THEN (CHOOSE m \in full : TRUE).name ELSE name
  BY DEF TimeName, Completed
<1>3. \A m \in full : Settled(m.name, r)
  <2> SUFFICES ASSUME NEW m \in full PROVE Settled(m.name, r)
    OBVIOUS
  <2>1. PICK k \in DOMAIN hs : m = hs[k].marker
    OBVIOUS
  <2>2. Hinted(hs[k])
    BY DEF Range
  <2> QED BY <2>1, <2>2 DEF Hinted, Definite, Settled
<1> HIDE DEF full, name
<1>4. Cardinality(full) = 1 => full # {}
  BY FS_EmptySet
<1>5. full # {} => (CHOOSE m \in full : TRUE) \in full
  OBVIOUS
<1> QED BY <1>1, <1>2, <1>3, <1>4, <1>5

-------------------------------------------------------------------------------
(* What is written of a turn.                                                  *)

LEMMA RepairedNames ==
  ASSUME NEW hs, \A h \in Range(hs) : Hinted(h), NEW r, NEW es, \A ent \in es : Told(ent),
         NEW ent \in Repaired(hs, Renaming(hs, r, es)), ent.type \in TimeTypes
  PROVE  ~ent.bracket /\ Settled(ent.name, r)
<1> DEFINE named == Renaming(hs, r, es)
           renamed == {Plain(n.ent.type, n.to) : n \in named}
           marked == renamed \cup {Plain(hs[k].marker.type, hs[k].marker.name) : k \in DOMAIN hs}
           unnamed == {j \in DOMAIN hs : hs[j].shown \notin {e.name : e \in marked}}
<1>1. ent \in marked \cup {Plain(TypeFor(hs[k]), hs[k].shown) : k \in unnamed}
  BY DEF Repaired
<1>2. \A type, name : LET e == Plain(type, name) IN e.type = type /\ e.name = name /\ e.bracket = FALSE
  BY DEF Plain
<1>3. \A n \in named : n.ent \in es /\ n.to = NewName(hs, r, n.ent)
  BY DEF Renaming
<1> HIDE DEF named
<1>4. CASE ent \in renamed
  <2>1. PICK n \in named : ent = Plain(n.ent.type, n.to)
    BY <1>4
  <2>2. ent.type = n.ent.type /\ ent.name = n.to /\ ent.bracket = FALSE
    BY <1>2, <2>1
  <2>3. n.ent \in es /\ n.ent.type \in TimeTypes /\ n.to = NewName(hs, r, n.ent)
    BY <1>3, <2>2
  <2>4. NewName(hs, r, n.ent) = TimeName(hs, r, n.ent)
    BY <2>3 DEF NewName, TimeTypes
  <2>5. IsList(n.ent.name)
    BY <2>3 DEF Told
  <2>6. Settled(TimeName(hs, r, n.ent), r)
    BY <2>5, TimeNameSettled
  <2> QED BY <2>2, <2>3, <2>4, <2>6
<1>5. CASE \E k \in DOMAIN hs : ent = Plain(hs[k].marker.type, hs[k].marker.name)
  <2>1. PICK k \in DOMAIN hs : ent = Plain(hs[k].marker.type, hs[k].marker.name)
    BY <1>5
  <2>2. ent.name = hs[k].marker.name /\ ent.bracket = FALSE
    BY <1>2, <2>1
  <2>3. Hinted(hs[k])
    BY DEF Range
  <2> QED BY <2>2, <2>3 DEF Hinted, Definite, Settled
<1>6. CASE \E k \in DOMAIN hs : ent = Plain(TypeFor(hs[k]), hs[k].shown)
  <2>1. PICK k \in DOMAIN hs : ent = Plain(TypeFor(hs[k]), hs[k].shown)
    BY <1>6
  <2>2. ent.name = hs[k].shown /\ ent.bracket = FALSE
    BY <1>2, <2>1
  <2>3. Hinted(hs[k])
    BY DEF Range
  <2> QED BY <2>2, <2>3 DEF Hinted, Definite, Settled
<1> QED BY <1>1, <1>4, <1>5, <1>6

\* What stays and what is added.
LEMMA RepairedHas ==
  ASSUME NEW hs, NEW named
  PROVE  /\ \A k \in DOMAIN hs : \E ent \in Repaired(hs, named) :
               ent.type = hs[k].marker.type /\ ent.name = hs[k].marker.name
         /\ \A n \in named : \E ent \in Repaired(hs, named) : OriginalName(ent) = <<FALSE, n.to>>
<1>1. \A type, name : LET ent == Plain(type, name) IN ent.type = type /\ ent.name = name /\ ent.bracket = FALSE
  BY DEF Plain
<1>2. ASSUME NEW k \in DOMAIN hs
      PROVE  \E ent \in Repaired(hs, named) : ent.type = hs[k].marker.type /\ ent.name = hs[k].marker.name
  <2>1. Plain(hs[k].marker.type, hs[k].marker.name) \in Repaired(hs, named)
    BY DEF Repaired
  <2> QED BY <1>1, <2>1
<1>3. ASSUME NEW n \in named PROVE \E ent \in Repaired(hs, named) : OriginalName(ent) = <<FALSE, n.to>>
  <2>1. Plain(n.ent.type, n.to) \in Repaired(hs, named)
    BY DEF Repaired
  <2>2. OriginalName(Plain(n.ent.type, n.to)) = <<FALSE, n.to>>
    BY <1>1 DEF OriginalName
  <2> QED BY <2>1, <2>2
<1> QED BY <1>2, <1>3

\* An end that is followed is the new name of an entity.
LEMMA EndsAreFollowed ==
  ASSUME NEW hs, NEW r, NEW es, \A ent \in es : Told(ent), NEW e \in es,
         NEW map \in RenameMaps(Renaming(hs, r, es))
  PROVE  \E n \in Renaming(hs, r, es) : Follow(map, OriginalName(e)) = <<FALSE, n.to>>
<1> DEFINE named == Renaming(hs, r, es)
           altered == {n \in named : n.ent.bracket \/ n.to # n.ent.name}
           old == {OriginalName(n.ent) : n \in altered}
<1>1. \E n \in named : n.ent = e
  <2> DEFINE n == [ent |-> e, to |-> NewName(hs, r, e)]
  <2>1. n \in named /\ n.ent = e
    BY DEF Renaming
  <2> QED BY <2>1
<1>2. DOMAIN map = old /\ \A end \in old : \E n \in altered : OriginalName(n.ent) = end /\ n.to = map[end]
  <2>1. map \in MapsOver(altered)
    BY DEF RenameMaps
  <2> HIDE DEF altered
  <2> QED BY <2>1 DEF MapsOver
<1> HIDE DEF named
<1>3. CASE OriginalName(e) \in old
  <2>1. PICK n \in altered : n.to = map[OriginalName(e)]
    BY <1>2, <1>3
  <2>2. Follow(map, OriginalName(e)) = <<FALSE, n.to>>
    BY <1>2, <1>3, <2>1 DEF Follow
  <2> QED BY <2>2 DEF named
<1>4. CASE OriginalName(e) \notin old
  <2>1. PICK n \in named : n.ent = e
    BY <1>1
  <2>2. n \notin altered
    BY <1>4, <2>1
  <2>3. ~e.bracket /\ n.to = e.name
    BY <2>1, <2>2
  <2>4. e.bracket = FALSE
    BY <2>3 DEF Told
  <2>5. Follow(map, OriginalName(e)) = <<FALSE, n.to>>
    BY <1>2, <1>4, <2>3, <2>4 DEF Follow, OriginalName
  <2> QED BY <2>5 DEF named
<1> QED BY <1>3, <1>4

\* Until it is repaired the model's list is no more than told, and its relations
\* are between what it names.
Connected(es, ps) ==
  \A p \in ps : p[1] \in {OriginalName(ent) : ent \in es} /\ p[2] \in {OriginalName(ent) : ent \in es}
GraphInv ==
  /\ passage \in Asked \cup Spoken
  /\ \A h \in Range(hints) : Hinted(h)
  /\ leg = "extracted" => (\A ent \in entities : Told(ent)) /\ Connected(entities, relations)
  /\ GraphNamesAreAbsolute

LEMMA NameableAreTold ==
  ASSUME \A h \in Range(hints) : Hinted(h), NEW t, NEW ent \in Nameable(t)
  PROVE  Told(ent)
<1>1. CASE ent \in Invented
  BY <1>1, NamesAssumption DEF Told, IsList
<1>2. CASE \E type \in TimeTypes, i \in {j \in DOMAIN t : IsExpr(t[j])} : ent = Plain(type, <<t[i]>>)
  BY <1>2, ShortLists DEF Told, Plain
<1>3. CASE \E h \in Range(hints), form \in Forms : ent = Written(h, form)
  <2>1. PICK h \in Range(hints), form \in Forms : ent = Written(h, form)
    BY <1>3
  <2>2. ent.bracket \in BOOLEAN /\ ent.name \in {h.marker.name, <<Last(h.marker.name)>>, h.original}
    <3>1. CASE form = "marker"
      BY <2>1, <3>1 DEF Written
    <3>2. CASE form = "bracket"
      BY <2>1, <3>2 DEF Written
    <3>3. CASE form = "end"
      BY <2>1, <3>3 DEF Written
    <3>4. CASE form \notin {"marker", "bracket", "end"}
      BY <2>1, <3>4 DEF Written
    <3> QED BY <3>1, <3>2, <3>3, <3>4
  <2>3. IsList(h.marker.name) /\ IsList(<<Last(h.marker.name)>>) /\ IsList(h.original)
    BY ShortLists DEF Hinted, Definite
  <2> QED BY <2>2, <2>3 DEF Told
<1>4. CASE \E h \in Range(hints), form \in Forms : ent = EventOf(h, form)
  <2>1. ent.type = "Event" /\ ent.bracket = FALSE
    BY <1>4 DEF EventOf, Plain
  <2> QED BY <2>1 DEF Told, TimeTypes
<1> QED BY <1>1, <1>2, <1>3, <1>4 DEF Nameable

LEMMA NamesAreTold ==
  ASSUME \A h \in Range(hints) : Hinted(h), NEW t, Names(t)
  PROVE  (\A ent \in entities' : Told(ent)) /\ Connected(entities', relations')
<1>1. PICK list \in SeqOf(Nameable(t), MaxNamed) :
        /\ entities' = Range(list)
        /\ relations' = LET ends == {OriginalName(ent) : ent \in Range(list)} IN ends \X ends
  BY DEF Names
<1>2. Range(list) \subseteq Nameable(t)
  <2>1. PICK m : list \in [1 .. m -> Nameable(t)]
    BY DEF SeqOf
  <2> QED BY <2>1 DEF Range
<1>3. \A ent \in entities' : Told(ent)
  BY <1>1, <1>2, NameableAreTold
<1>4. relations' = {OriginalName(ent) : ent \in entities'} \X {OriginalName(ent) : ent \in entities'}
  BY <1>1
<1> QED BY <1>3, <1>4 DEF Connected

LEMMA GraphAugment ==
  ASSUME GraphInv, Augment
  PROVE  GraphInv'
<1>1. leg' = "augmented" /\ hints' = HintsOf(passage, ref) /\ UNCHANGED passage
  BY DEF Augment
<1>2. \A h \in Range(hints') : Hinted(h)
  BY <1>1, TextsAreLists, HintsAreHinted DEF GraphInv
<1> QED BY <1>1, <1>2 DEF GraphInv, GraphNamesAreAbsolute

LEMMA GraphExtract ==
  ASSUME GraphInv, Extract
  PROVE  GraphInv'
<1>1. Names(outcome) /\ leg' = "extracted" /\ UNCHANGED <<passage, hints>>
  BY DEF Extract
<1>2. (\A ent \in entities' : Told(ent)) /\ Connected(entities', relations')
  BY <1>1, NamesAreTold DEF GraphInv
<1> QED BY <1>1, <1>2 DEF GraphInv, GraphNamesAreAbsolute

LEMMA GraphRepair ==
  ASSUME GraphInv, Repair
  PROVE  GraphInv'
<1> DEFINE named == Renaming(hints, ref, entities)
<1>1. /\ leg = "extracted" /\ leg' = "repaired" /\ UNCHANGED <<ref, passage, hints>>
      /\ entities' = Repaired(hints, named)
  BY DEF Repair
<1>2. PICK map \in RenameMaps(named) : relations' = RepairedEdges(map, relations)
  BY DEF Repair
<1>3. /\ \A h \in Range(hints) : Hinted(h)
      /\ \A ent \in entities : Told(ent)
      /\ Connected(entities, relations)
  BY <1>1 DEF GraphInv
<1>4. ASSUME NEW ent \in entities', ent.type \in TimeTypes PROVE ~ent.bracket /\ Settled(ent.name, ref)
  BY <1>1, <1>3, <1>4, RepairedNames
<1>5. \A k \in DOMAIN hints : \E ent \in entities' :
        ent.type = hints[k].marker.type /\ ent.name = hints[k].marker.name
  BY <1>1, RepairedHas
<1>6. ASSUME NEW p \in relations', NEW end \in {p[1], p[2]} PROVE \E ent \in entities' : OriginalName(ent) = end
  <2>1. PICK q \in relations : p = <<Follow(map, q[1]), Follow(map, q[2])>>
    BY <1>2 DEF RepairedEdges
  <2>2. PICK e \in entities : end = Follow(map, OriginalName(e))
    <3>1. p[1] = Follow(map, q[1]) /\ p[2] = Follow(map, q[2])
      BY <2>1
    <3> QED BY <1>3, <3>1 DEF Connected
  <2>3. PICK n \in named : end = <<FALSE, n.to>>
    BY <1>2, <1>3, <2>2, EndsAreFollowed
  <2> QED BY <1>1, <2>3, RepairedHas
<1> HIDE DEF named
<1>7. \A ent \in entities' : ent.type \in TimeTypes =>
        ~ent.bracket /\ (Absolute(ent.name) \/ HasDate(ent.name) \/ Found(Constraints(ent.name, ref')) = {})
  BY <1>1, <1>4 DEF Settled, FoundIn
<1>8. GraphNamesAreAbsolute'
  BY <1>1, <1>5, <1>6, <1>7 DEF GraphNamesAreAbsolute
<1> QED BY <1>1, <1>3, <1>8 DEF GraphInv

LEMMA GraphStep == GraphInv /\ [TextNext]_textVars => GraphInv'
<1> SUFFICES ASSUME GraphInv, [TextNext]_textVars PROVE GraphInv'
  OBVIOUS
<1>1. CASE RewriteQuestion
  BY <1>1 DEF GraphInv, GraphNamesAreAbsolute, RewriteQuestion
<1>2. CASE RewriteForRetrieval
  BY <1>2 DEF GraphInv, GraphNamesAreAbsolute, RewriteForRetrieval
<1>3. CASE Raise
  BY <1>3 DEF GraphInv, GraphNamesAreAbsolute, Raise
<1>4. CASE Augment
  BY <1>4, GraphAugment
<1>5. CASE LeaveUndated
  BY <1>5 DEF GraphInv, GraphNamesAreAbsolute, LeaveUndated
<1>6. CASE Extract
  BY <1>6, GraphExtract
<1>7. CASE Repair
  BY <1>7, GraphRepair
<1>8. CASE WriteUnrepaired
  BY <1>8 DEF GraphInv, GraphNamesAreAbsolute, WriteUnrepaired
<1>9. CASE FallBack
  BY <1>9 DEF GraphInv, GraphNamesAreAbsolute, FallBack
<1>10. CASE ExtractRaw
  BY <1>10 DEF GraphInv, GraphNamesAreAbsolute, ExtractRaw
<1>11. CASE UNCHANGED textVars
  BY <1>11 DEF GraphInv, GraphNamesAreAbsolute, textVars
<1> QED BY <1>1, <1>2, <1>3, <1>4, <1>5, <1>6, <1>7, <1>8, <1>9, <1>10, <1>11 DEF TextNext

LEMMA GraphStarts == TextInit => GraphInv
BY DEF TextInit, GraphInv, GraphNamesAreAbsolute, Range

\* Whatever a repaired turn's model named, times of its own invention among them,
\* for any texts, hints, reference time, calendar and policy: no time is left in
\* brackets or relative to the turn, unless its name has a date besides or nothing
\* that resolves; the turn's markers are there, and no relationship hangs in the
\* air (_repair_temporal_entities).  A turn that is not repaired is not claimed.
THEOREM GraphNamesStayAbsolute == TextSpec => []GraphNamesAreAbsolute
<1>1. GraphInv => GraphNamesAreAbsolute
  BY DEF GraphInv
<1> QED BY <1>1, GraphStarts, GraphStep, PTL DEF TextSpec

===============================================================================
