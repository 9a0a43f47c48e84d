----------------------------- MODULE KlinesProofs -----------------------------
(***************************************************************************)
(* A download of klines leaves the bars of its period in the cache,        *)
(* whatever the exchange has, the windows are, and fails on the way.       *)
(* Sections: what an answer is; what windows missing_klines_windows and    *)
(* merge_windows give; what a download keeps; and that every action keeps  *)
(* it.  ComponentsProofs puts the component beside the others.             *)
(***************************************************************************)
EXTENDS MCComponents, FiniteSetTheorems, WellFoundedInduction, TLAPS

-----------------------------------------------------------------------------
(* The newest and the oldest of a set of numbers *)

LEMMA LeastExists ==
    ASSUME NEW S \in SUBSET Nat, S # {}
    PROVE  \E x \in S : \A y \in S : x <= y
<1>1. PICK x \in S : \A y \in S : ~(<<y, x>> \in OpToRel(<, Nat))
  BY NatLessThanWellFounded, WFMin
<1>2. \A y \in S : ~(y < x)
  BY <1>1 DEF OpToRel
<1> QED
  BY <1>2

LEMMA GreatestExists ==
    ASSUME NEW S \in SUBSET Nat, NEW n \in Nat, S # {}, \A y \in S : y <= n
    PROVE  \E x \in S : \A y \in S : x >= y
<1> DEFINE R == {n - y : y \in S}
<1>1. R \in SUBSET Nat /\ R # {}
  <2>1. \A y \in S : n - y \in Nat
    OBVIOUS
  <2> QED
    BY <2>1
<1>2. PICK r \in R : \A q \in R : r <= q
  BY <1>1, LeastExists
<1>3. PICK x \in S : r = n - x
  OBVIOUS
<1> QED
  BY <1>2, <1>3

\* Of numbers up to n, the greatest and the least are what they should be.
LEMMA KlinesMost ==
    ASSUME NEW n \in Nat, NEW S \in SUBSET (0..n), S # {}
    PROVE  /\ Klines!Max(S) \in S /\ \A y \in S : y <= Klines!Max(S)
           /\ Klines!Min(S) \in S /\ \A y \in S : Klines!Min(S) <= y
           /\ Klines!Max(S) \in Nat /\ Klines!Min(S) \in Nat /\ Klines!Max(S) <= n
<1>1. S \in SUBSET Nat /\ \A y \in S : y <= n
  OBVIOUS
<1>2. (\E x \in S : \A y \in S : x >= y) /\ (\E x \in S : \A y \in S : x <= y)
  BY <1>1, GreatestExists, LeastExists
<1>3. Klines!Max(S) \in S /\ \A y \in S : Klines!Max(S) >= y
  BY <1>2 DEF Klines!Max
<1>4. Klines!Min(S) \in S /\ \A y \in S : Klines!Min(S) <= y
  BY <1>2 DEF Klines!Min
<1> QED
  BY <1>1, <1>3, <1>4

\* merge_windows leaves the first window of a set to be fetched first.
LEMMA FirstIs ==
    ASSUME NEW W \in SUBSET (Nat \X Nat), W # {}
    PROVE  Klines!FirstOf(W) \in W /\ \A v \in W : Klines!FirstOf(W)[1] <= v[1]
<1> DEFINE S == {w[1] : w \in W}
<1>1. S \in SUBSET Nat /\ S # {}
  OBVIOUS
<1>2. PICK x \in S : \A y \in S : x <= y
  BY <1>1, LeastExists
<1>3. PICK w \in W : w[1] = x
  OBVIOUS
<1>4. \A v \in W : w[1] <= v[1]
  BY <1>2, <1>3
<1> QED
  BY <1>4 DEF Klines!FirstOf

-----------------------------------------------------------------------------
(* The answers of the exchange *)

LEMMA AnswerIs ==
    ASSUME bar \in Nat, load.since \in Nat
    PROVE  LET there == {b \in Has : load.since <= b /\ b <= bar}
               A == Klines!Answer
           IN  /\ A \subseteq there
               /\ \A b \in there, m \in A : b <= m => b \in A
               /\ there # {} => \E b \in A : \A c \in there : b <= c
               /\ Klines!Cardinality(A) # Batch => Klines!Cardinality(A) < Batch
               /\ Klines!Cardinality(A) < Batch => A = there
<1> DEFINE there == {b \in Has : load.since <= b /\ b <= bar}
           Below(b) == {c \in there : c < b}
           A == Klines!Answer
<1>0. Batch \in Nat /\ Batch > 0
  BY ComponentsBounds
<1>1. there \in SUBSET Nat /\ \A b \in there : b <= bar
  BY ComponentsBounds
<1>2. A = {b \in there : Cardinality(Below(b)) < Batch} /\ Klines!Cardinality(A) = Cardinality(A)
  BY DEF Klines!Answer, Klines!Cardinality, Cardinality
<1>b. \A b, c : c \in Below(b) <=> c \in there /\ c < b
  OBVIOUS
<1> HIDE DEF there, A, Below
<1>a. \A b : b \in A <=> b \in there /\ Cardinality(Below(b)) < Batch
  BY <1>2
<1>3. \A T \in SUBSET there : IsFiniteSet(T) /\ Cardinality(T) \in Nat
  <2> SUFFICES ASSUME NEW T \in SUBSET there PROVE IsFiniteSet(T) /\ Cardinality(T) \in Nat
    OBVIOUS
  <2>1. T \in SUBSET Nat /\ \A b \in T : b <= bar
    BY <1>1
  <2>2. IsFiniteSet(T)
    BY <2>1, FS_BoundedSetOfNaturals
  <2> QED
    BY <2>2, FS_CardinalityType
<1>4. \A T \in SUBSET there : \A U \in SUBSET T : Cardinality(U) <= Cardinality(T)
  BY <1>3, FS_Subset
<1>5. \A b \in there : Below(b) \in SUBSET there
  BY <1>b
<1>6. A \in SUBSET there
  BY <1>a
<1>7. ASSUME NEW b \in there, NEW m \in A, b <= m PROVE b \in A
  <2>0. b \in Nat /\ m \in Nat /\ \A c \in there : c \in Nat
    BY <1>1, <1>6
  <2>a. \A c \in Nat : c < b => c < m
    BY <1>7, <2>0
  <2>1. Below(b) \in SUBSET Below(m)
    BY <1>b, <2>0, <2>a
  <2>2. Cardinality(Below(b)) <= Cardinality(Below(m))
    BY <1>4, <1>5, <1>6, <2>1
  <2>3. Cardinality(Below(b)) \in Nat /\ Cardinality(Below(m)) \in Nat /\ Cardinality(Below(m)) < Batch
    BY <1>a, <1>3, <1>5, <1>6
  <2>4. Cardinality(Below(b)) < Batch
    BY <1>0, <2>2, <2>3
  <2> QED
    BY <1>a, <2>4
<1>8. ASSUME there # {} PROVE \E b \in A : \A c \in there : b <= c
  <2>1. PICK b \in there : \A c \in there : b <= c
    BY <1>1, <1>8, LeastExists
  <2>a. \A c \in there : ~(c < b)
    BY <1>1, <2>1
  <2>2. Below(b) = {}
    BY <1>b, <2>a
  <2>3. Cardinality(Below(b)) = 0
    BY <2>2, FS_EmptySet
  <2>4. b \in A
    BY <1>0, <1>a, <2>3
  <2> QED
    BY <2>1, <2>4
<1>9. Cardinality(A) <= Batch
  <2>1. CASE A = {}
    BY <1>0, <2>1, FS_EmptySet
  <2>2. CASE A # {}
    <3>1. PICK m \in A : \A c \in A : m >= c
      BY <1>1, <1>6, <2>2, GreatestExists
    <3>2. A \in SUBSET (Below(m) \union {m})
      BY <1>1, <1>6, <1>b, <3>1
    <3>3. IsFiniteSet(Below(m)) /\ m \notin Below(m) /\ Cardinality(Below(m)) \in Nat
      BY <1>1, <1>3, <1>5, <1>6, <1>b
    <3>4. /\ IsFiniteSet(Below(m) \union {m})
          /\ Cardinality(Below(m) \union {m}) = Cardinality(Below(m)) + 1
      BY <3>3, FS_AddElement
    <3>5. Cardinality(A) <= Cardinality(Below(m)) + 1
      BY <3>2, <3>4, FS_Subset
    <3>6. Cardinality(Below(m)) < Batch /\ Cardinality(A) \in Nat
      BY <1>a, <1>3, <1>6
    <3> QED
      BY <1>0, <3>3, <3>5, <3>6
  <2> QED
    BY <2>1, <2>2
<1>10. ASSUME Cardinality(A) < Batch PROVE A = there
  <2> SUFFICES ASSUME there \ A # {} PROVE FALSE
    BY <1>6
  <2>1. there \ A \in SUBSET Nat
    BY <1>1
  <2>2. PICK b \in there \ A : \A c \in there \ A : b <= c
    BY <2>1, LeastExists
  <2>a. \A c \in there \ A : ~(c < b)
    BY <1>1, <2>2
  <2>3. Below(b) \in SUBSET A
    BY <1>b, <2>a
  <2>4. Cardinality(Below(b)) <= Cardinality(A)
    BY <1>4, <1>6, <2>3
  <2>5. Cardinality(Below(b)) \in Nat /\ Cardinality(A) \in Nat
    BY <1>3, <1>5, <1>6
  <2>6. Cardinality(Below(b)) < Batch
    BY <1>0, <1>10, <2>4, <2>5
  <2> QED
    BY <1>a, <2>2, <2>6
<1>11. Cardinality(A) # Batch => Cardinality(A) < Batch
  BY <1>0, <1>3, <1>6, <1>9
<1> QED
  BY <1>2, <1>6, <1>7, <1>8, <1>10, <1>11 DEF there, A
-----------------------------------------------------------------------------
(* The windows of bars that are missing *)

Span(w) == w[1]..(w[2] - 1)
Real(w) == w[1] < w[2]

\* Of bars S that are cached: a window before one of them, and one that begins
\* at the last of them, if there is any.
HoleIn(S, w) == w[2] \in S /\ \A b \in S : b < w[1] \/ w[2] <= b
TailOf(S, now, w) == w[2] = now + 2 /\ (S # {} => w[1] \in S /\ \A b \in S : b <= w[1])

\* The hole behind a bar that is not the last one.
Behind(S, from, b) == <<Klines!Max({b + 1, from}), Klines!Min({c \in S : c > b})>>

\* missing_klines_windows, in words of its own: every window is a hole or the
\* tail, each has an end of its own, and what is not cached lies in one of them.
LEMMA WindowsAre ==
    ASSUME NEW now \in Nat, NEW S \in SUBSET (0..now), NEW from \in Nat
    PROVE  LET W == Klines!Windows(S, from, now)
           IN  /\ W \in SUBSET (Nat \X Nat)
               /\ \A w \in W : Real(w) => HoleIn(S, w) \/ TailOf(S, now, w)
               /\ \A v, w \in W : v[2] = w[2] => v = w
               /\ \A b \in from..(now - 1) : b \notin S => \E w \in W : b \in Span(w)
<1>0. ASSUME NEW b \in S, \E c \in S : c > b
      PROVE  \E w \in Nat \X Nat :
                 /\ w = Behind(S, from, b)
                 /\ w[2] \in S /\ w[2] > b /\ \A c \in S : c > b => w[2] <= c
                 /\ w[1] >= b + 1 /\ w[1] >= from /\ (w[1] = b + 1 \/ w[1] = from)
  <2> DEFINE C == {c \in S : c > b}
             D == {b + 1, from}
  <2>1. b \in Nat /\ now \in Nat
    OBVIOUS
  <2>2. C \in SUBSET (0..now) /\ C # {}
    BY <1>0
  <2>3. Klines!Min(C) \in C /\ \A y \in C : Klines!Min(C) <= y
    <3> HIDE DEF C
    <3> QED
      BY <2>2, KlinesMost
  <2>4. b + 1 + from \in Nat /\ D \in SUBSET (0..(b + 1 + from)) /\ D # {}
    BY <2>1
  <2>5. Klines!Max(D) \in D /\ \A y \in D : y <= Klines!Max(D)
    <3> HIDE DEF D
    <3>1. PICK n \in Nat : n = b + 1 + from
      BY <2>4
    <3> QED
      BY <2>4, <3>1, KlinesMost
  <2>6. Behind(S, from, b) = <<Klines!Max(D), Klines!Min(C)>>
    BY DEF Behind
  <2>7. Klines!Min(C) \in S /\ Klines!Min(C) > b /\ \A c \in S : c > b => Klines!Min(C) <= c
    BY <2>3
  <2>8. Klines!Max(D) >= b + 1 /\ Klines!Max(D) >= from /\ Klines!Max(D) \in {b + 1, from}
    BY <2>1, <2>5
  <2>9. Klines!Max(D) \in Nat /\ Klines!Min(C) \in Nat
    <3> HIDE DEF C, D
    <3>1. S \in SUBSET Nat
      OBVIOUS
    <3>2. Klines!Min(C) \in Nat
      BY <2>7, <3>1
    <3>3. b + 1 \in Nat
      BY <2>1
    <3> QED
      BY <2>8, <3>2, <3>3
  <2> HIDE DEF C, D
  <2> QED
    BY <2>6, <2>7, <2>8, <2>9
<1> DEFINE W == Klines!Windows(S, from, now)
<1>1. CASE S = {}
  <2>1. W = {<<from, now + 2>>}
    BY <1>1 DEF Klines!Windows
  <2>2. \A b \in from..(now - 1) : b \in Span(<<from, now + 2>>)
    BY DEF Span
  <2> HIDE DEF W
  <2> QED
    BY <1>1, <2>1, <2>2 DEF TailOf, W
<1>2. CASE S # {}
  <2> DEFINE a == Klines!Min(S)
             m == Klines!Max(S)
             Inner == {x \in S \ {m} : x + 1 \notin S}
             pre == <<from, a>>
             tail == <<m, now + 2>>
  <2>1. /\ m \in S /\ a \in S /\ m \in Nat /\ a \in Nat /\ m <= now
        /\ \A y \in S : a <= y /\ y <= m /\ y \in Nat
    BY <1>2, KlinesMost
  <2>2. W = {pre} \union {Behind(S, from, b) : b \in Inner}
              \union (IF m < now - 1 THEN {tail} ELSE {})
    BY <1>2 DEF Klines!Windows, Klines!GapWindows, Klines!Stale, Behind
  <2> HIDE DEF a, m, W
  <2>3. \A b \in Inner : b \in S /\ b \in Nat /\ b + 1 \notin S /\ \E c \in S : c > b
    BY <2>1
  <2> HIDE DEF Inner
  <2>4. \A b \in Inner :
            /\ Behind(S, from, b) \in Nat \X Nat
            /\ Behind(S, from, b)[2] \in S /\ Behind(S, from, b)[2] > b
            /\ \A c \in S : c > b => Behind(S, from, b)[2] <= c
            /\ Behind(S, from, b)[1] >= b + 1 /\ Behind(S, from, b)[1] >= from
            /\ Behind(S, from, b)[1] = b + 1 \/ Behind(S, from, b)[1] = from
    <3> SUFFICES ASSUME NEW b \in Inner
                 PROVE  /\ Behind(S, from, b) \in Nat \X Nat
                        /\ Behind(S, from, b)[2] \in S /\ Behind(S, from, b)[2] > b
                        /\ \A c \in S : c > b => Behind(S, from, b)[2] <= c
                        /\ Behind(S, from, b)[1] >= b + 1 /\ Behind(S, from, b)[1] >= from
                        /\ Behind(S, from, b)[1] = b + 1 \/ Behind(S, from, b)[1] = from
      OBVIOUS
    <3>1. b \in S /\ \E c \in S : c > b
      BY <2>3
    <3>2. PICK w \in Nat \X Nat :
               /\ w = Behind(S, from, b)
               /\ w[2] \in S /\ w[2] > b /\ \A c \in S : c > b => w[2] <= c
               /\ w[1] >= b + 1 /\ w[1] >= from /\ (w[1] = b + 1 \/ w[1] = from)
      BY <1>0, <3>1
    <3> QED
      BY <3>2
  <2>5. W \in SUBSET (Nat \X Nat)
    <3>1. pre \in Nat \X Nat /\ tail \in Nat \X Nat
      BY <2>1
    <3> QED
      BY <2>2, <2>4, <3>1
  <2>6. HoleIn(S, pre) /\ TailOf(S, now, tail)
    BY <2>1 DEF HoleIn, TailOf
  <2>7. ASSUME NEW b \in Inner PROVE HoleIn(S, Behind(S, from, b))
    <3>1. PICK w \in Nat \X Nat : w = Behind(S, from, b)
      BY <2>4
    <3>2. w[2] \in S /\ w[2] > b /\ w[1] >= b + 1 /\ \A c \in S : c > b => w[2] <= c
      BY <2>4, <3>1
    <3>3. \A c \in S : c \in Nat /\ b \in Nat /\ w[1] \in Nat
      BY <2>1, <2>3
    <3>4. \A c \in S : c < w[1] \/ w[2] <= c
      BY <3>2, <3>3
    <3> QED
      BY <3>1, <3>2, <3>4 DEF HoleIn
  <2>8. ASSUME NEW v \in W, NEW w \in W, v[2] = w[2] PROVE v = w
    <3>1. pre[2] = a /\ tail[2] = now + 2 /\ a < now + 2
      BY <2>1
    <3>2. \A b \in Inner : Behind(S, from, b)[2] > a /\ Behind(S, from, b)[2] < now + 2
      BY <2>1, <2>3, <2>4
    <3>3. ASSUME NEW b \in Inner, NEW c \in Inner, Behind(S, from, b)[2] = Behind(S, from, c)[2]
          PROVE  b = c
      <4>1. PICK e \in S : e = Behind(S, from, b)[2]
        BY <2>4
      <4>2. b < e /\ c < e /\ (\A d \in S : d > b => e <= d) /\ \A d \in S : d > c => e <= d
        BY <2>4, <3>3, <4>1
      <4>3. b \in S /\ c \in S /\ b \in Nat /\ c \in Nat /\ e \in Nat
        BY <2>1, <2>3
      <4> QED
        BY <4>2, <4>3
    <3>4. \A x \in W : x = pre \/ x = tail \/ \E b \in Inner : x = Behind(S, from, b)
      BY <2>2
    <3>5. a \in Nat /\ now + 2 \in Nat /\ \A b \in Inner : Behind(S, from, b)[2] \in Nat
      BY <2>1, <2>4
    <3> HIDE DEF pre, tail
    <3>6. CASE v = pre
      BY <2>8, <3>1, <3>2, <3>4, <3>5, <3>6
    <3>7. CASE v = tail
      BY <2>8, <3>1, <3>2, <3>4, <3>5, <3>7
    <3>8. ASSUME NEW b \in Inner, v = Behind(S, from, b) PROVE v = w
      BY <2>8, <3>1, <3>2, <3>3, <3>4, <3>5, <3>8
    <3> QED
      BY <3>4, <3>6, <3>7, <3>8
  <2>9. ASSUME NEW b \in from..(now - 1), b \notin S PROVE \E w \in W : b \in Span(w)
    <3>0. b \in Nat /\ from <= b /\ b <= now - 1
      OBVIOUS
    <3>1. CASE b < a
      <4>1. b \in Span(pre)
        BY <2>1, <3>0, <3>1 DEF Span
      <4> QED
        BY <2>2, <4>1
    <3>2. CASE b > m
      <4>1. b \in Span(tail) /\ m < now - 1
        BY <2>1, <3>0, <3>2 DEF Span
      <4> QED
        BY <2>2, <4>1
    <3>3. CASE ~(b < a) /\ ~(b > m)
      <4> DEFINE L == {x \in S : x < b}
      <4>1. b # a /\ b # m /\ a < b /\ b < m
        BY <2>1, <2>9, <3>0, <3>3
      <4>0. a \in L
        BY <2>1, <4>1
      <4>a. \A x \in S : x \in Nat
        OBVIOUS
      <4>2. L \in SUBSET Nat /\ a \in L /\ \A x \in L : x <= b
        <5>1. L \in SUBSET Nat
          BY <4>a
        <5>2. \A x \in Nat : x < b => x <= b
          BY <3>0
        <5> QED
          BY <4>0, <4>a, <5>1, <5>2
      <4>3. PICK p \in L : \A x \in L : p >= x
        BY <3>0, <4>2, GreatestExists
      <4>4. p \in S /\ p \in Nat /\ p < b
        BY <4>2, <4>3
      <4>5. p + 1 \notin S
        <5> SUFFICES ASSUME p + 1 \in S PROVE FALSE
          OBVIOUS
        <5>1. p + 1 # b
          BY <2>9
        <5>2. p + 1 < b
          BY <3>0, <4>4, <5>1
        <5>3. p + 1 \in L
          BY <5>2
        <5> QED
          BY <4>3, <4>4, <5>3
      <4>6. p \in Inner
        BY <2>1, <4>1, <4>4, <4>5, <3>0 DEF Inner
      <4>7. PICK w \in Nat \X Nat : w = Behind(S, from, p)
        BY <2>4, <4>6
      <4>8. /\ w \in W /\ w[2] \in S /\ w[2] > p /\ w[1] >= p + 1 /\ w[1] >= from
            /\ w[1] = p + 1 \/ w[1] = from
        BY <2>2, <2>4, <4>6, <4>7
      <4>9. w[2] > b
        <5> SUFFICES ASSUME ~(w[2] > b) PROVE FALSE
          OBVIOUS
        <5>1. w[2] # b /\ w[2] \in Nat
          BY <2>9, <4>8
        <5>2. w[2] < b
          BY <3>0, <5>1
        <5>3. w[2] \in L
          BY <4>8, <5>2
        <5> QED
          BY <4>3, <4>4, <4>8, <5>1, <5>3
      <4>10. w[1] <= b
        BY <3>0, <4>4, <4>8
      <4>11. b \in Span(w)
        BY <3>0, <4>9, <4>10 DEF Span
      <4> QED
        BY <4>8, <4>11
    <3> QED
      BY <3>1, <3>2, <3>3
  <2>10. \A w \in W : Real(w) => HoleIn(S, w) \/ TailOf(S, now, w)
    BY <2>2, <2>6, <2>7
  <2> QED
    BY <2>5, <2>8, <2>9, <2>10 DEF W
<1> QED
  BY <1>1, <1>2

\* Where a window may end: at a cached bar, or behind what is open, and then it
\* takes the last cached bar along.
EndsWell(S, now, w) ==
    \/ w[2] \in S
    \/ w[2] = now + 2 /\ \A b \in S : (\A c \in S : c <= b) => w[1] <= b

\* Two windows do not share a bar.
Apart(v, w) == v = w \/ v[2] <= w[1] \/ w[2] <= v[1]

\* merge_windows, in words of its own: what it leaves is real, ends well, does
\* not overlap, and covers what is not cached.
LEMMA MergedAre ==
    ASSUME NEW now \in Nat, NEW S \in SUBSET (0..now), NEW from \in Nat
    PROVE  LET J == Klines!Merge(Klines!Windows(S, from, now))
           IN  /\ J \in SUBSET (Nat \X Nat)
               /\ \A w \in J : Real(w) /\ EndsWell(S, now, w)
               /\ \A v, w \in J : Apart(v, w)
               /\ \A b \in from..(now - 1) : b \notin S => \E w \in J : b \in Span(w)
<1> DEFINE W == Klines!Windows(S, from, now)
           J == Klines!Merge(W)
           R == {w \in W : w[1] < w[2]}
           T == {w \in R : \E v \in R : v[2] = w[1]}
           Ends == {w[2] : w \in T}
           Joins(v) == \E w \in T : v[2] = w[1]
           Join(v) == IF Joins(v) THEN <<v[1], Klines!Max(Ends)>> ELSE v
<1>1. /\ W \in SUBSET (Nat \X Nat)
      /\ \A w \in W : Real(w) => HoleIn(S, w) \/ TailOf(S, now, w)
      /\ \A v, w \in W : v[2] = w[2] => v = w
      /\ \A b \in from..(now - 1) : b \notin S => \E w \in W : b \in Span(w)
  BY WindowsAre
<1>2. J = {Join(v) : v \in R \ T}
  BY DEF Klines!Merge
<1> HIDE DEF W, J
<1>3. \A w \in R : w \in W /\ w[1] \in Nat /\ w[2] \in Nat /\ w[1] < w[2] /\ w = <<w[1], w[2]>>
  BY <1>1
<1>4. \A w \in R : HoleIn(S, w) \/ TailOf(S, now, w)
  BY <1>1 DEF Real
<1>5. \A b \in S : b \in Nat /\ b <= now
  OBVIOUS
<1>6. \A w \in T : w \in R /\ \E v \in R : v[2] = w[1]
  OBVIOUS
<1>a. \A w \in R : (\E v \in R : v[2] = w[1]) => w \in T
  OBVIOUS
<1>b. \A v, w \in R : v[2] = w[2] => v = w
  BY <1>1
<1>c. \A w \in W : Real(w) => w \in R
  BY DEF Real
<1> HIDE DEF R, T
<1>7. ASSUME NEW t \in T, NEW v \in R, v[2] = t[1]
      PROVE  /\ t \in R /\ HoleIn(S, v) /\ TailOf(S, now, t) /\ v \notin T
             /\ t[1] \in S /\ \A b \in S : b <= t[1]
  <2>1. t \in R /\ t[1] < t[2] /\ t[1] \in Nat /\ t[2] \in Nat /\ v[1] < v[2] /\ v[1] \in Nat /\ v[2] \in Nat
    BY <1>3, <1>6
  <2>2. HoleIn(S, v)
    <3> SUFFICES ASSUME TailOf(S, now, v) PROVE FALSE
      BY <1>4
    <3>1. v[2] = now + 2 /\ t[2] > now + 2
      BY <1>7, <2>1 DEF TailOf
    <3> QED
      BY <1>4, <1>5, <2>1, <3>1 DEF HoleIn, TailOf
  <2>3. TailOf(S, now, t)
    <3> SUFFICES ASSUME HoleIn(S, t) PROVE FALSE
      BY <1>4, <2>1
    <3>1. t[1] \in S
      BY <1>7, <2>2 DEF HoleIn
    <3> QED
      BY <2>1, <3>1 DEF HoleIn
  <2>4. v[2] \in S /\ t[1] \in S
    BY <1>7, <2>2 DEF HoleIn
  <2>5. \A b \in S : b <= t[1]
    BY <2>3, <2>4 DEF TailOf
  <2>6. v \notin T
    <3> SUFFICES ASSUME v \in T PROVE FALSE
      OBVIOUS
    <3>1. PICK u \in R : u[2] = v[1]
      BY <1>6
    <3>2. u[1] < u[2] /\ u[1] \in Nat /\ u[2] \in Nat
      BY <1>3
    <3>3. CASE HoleIn(S, u)
      <4>1. v[1] \in S
        BY <3>1, <3>3 DEF HoleIn
      <4> QED
        BY <2>1, <2>2, <4>1 DEF HoleIn
    <3>4. CASE TailOf(S, now, u)
      BY <1>5, <2>1, <2>4, <3>1, <3>4 DEF TailOf
    <3> QED
      BY <1>4, <3>3, <3>4
  <2> QED
    BY <2>1, <2>2, <2>3, <2>4, <2>5, <2>6
<1>8. \A t \in T : t \in R /\ TailOf(S, now, t) /\ t[2] = now + 2
  BY <1>6, <1>7 DEF TailOf
<1>9. T # {} => Klines!Max(Ends) = now + 2
  <2> SUFFICES ASSUME T # {} PROVE Klines!Max(Ends) = now + 2
    OBVIOUS
  <2>1. Ends = {now + 2}
    BY <1>8
  <2> HIDE DEF Ends
  <2>2. Ends \in SUBSET (0..(now + 2)) /\ Ends # {} /\ now + 2 \in Nat
    BY <2>1
  <2>3. Klines!Max(Ends) \in Ends
    <3>1. PICK n \in Nat : n = now + 2
      BY <2>2
    <3> QED
      BY <2>2, <3>1, KlinesMost
  <2> QED
    BY <2>1, <2>3
<1> HIDE DEF Ends
<1>10. ASSUME NEW v \in R, Joins(v)
       PROVE  /\ Join(v) = <<v[1], now + 2>> /\ v \notin T /\ HoleIn(S, v) /\ T # {}
              /\ v[2] \in S /\ \A b \in S : b <= v[2]
  <2>1. PICK t \in T : v[2] = t[1]
    BY <1>10
  <2>2. /\ v \notin T /\ HoleIn(S, v) /\ t[1] \in S /\ \A b \in S : b <= t[1]
    BY <1>7, <2>1
  <2>3. Join(v) = <<v[1], Klines!Max(Ends)>>
    BY <1>10
  <2>4. v[2] \in S /\ \A b \in S : b <= v[2]
    BY <2>1, <2>2
  <2> QED
    BY <1>9, <2>2, <2>3, <2>4
<1>11. \A v \in R : ~Joins(v) => Join(v) = v
  OBVIOUS
<1>12. \A v, w \in R : HoleIn(S, v) /\ HoleIn(S, w) => v = w \/ v[2] < w[1] \/ w[2] < v[1]
  <2> SUFFICES ASSUME NEW v \in R, NEW w \in R, HoleIn(S, v), HoleIn(S, w), v # w
               PROVE  v[2] < w[1] \/ w[2] < v[1]
    OBVIOUS
  <2>1. v[2] # w[2] /\ v[2] \in S /\ w[2] \in S
    BY <1>b DEF HoleIn
  <2>2. (v[2] < w[1] \/ w[2] <= v[2]) /\ (w[2] < v[1] \/ v[2] <= w[2])
    BY <2>1 DEF HoleIn
  <2>3. v[2] \in Nat /\ w[2] \in Nat /\ v[1] \in Nat /\ w[1] \in Nat
    BY <1>3
  <2> QED
    BY <2>1, <2>2, <2>3
<1>13. \A v, w \in R : TailOf(S, now, v) /\ TailOf(S, now, w) => v = w
  BY <1>b DEF TailOf
<1>14. \A v, w \in R : HoleIn(S, v) /\ TailOf(S, now, w) => v[2] <= w[1]
  BY DEF HoleIn, TailOf
<1> HIDE DEF Join, Joins
<1>15. ASSUME NEW v \in R \ T
       PROVE  /\ Join(v) \in Nat \X Nat /\ Join(v)[1] = v[1] /\ v[2] <= Join(v)[2]
              /\ EndsWell(S, now, Join(v))
  <2>0. v[1] \in Nat /\ v[2] \in Nat /\ v[1] < v[2] /\ v = <<v[1], v[2]>>
    BY <1>3
  <2>1. CASE Joins(v)
    <3>1. Join(v) = <<v[1], now + 2>> /\ v[2] \in S /\ \A b \in S : b <= v[2]
      BY <1>10, <2>1
    <3>2. v[2] <= now
      BY <1>5, <3>1
    <3>3. \A b \in S : (\A c \in S : c <= b) => v[1] <= b
      BY <1>5, <2>0, <3>1
    <3> QED
      BY <2>0, <3>1, <3>2, <3>3 DEF EndsWell
  <2>2. CASE ~Joins(v)
    <3>1. Join(v) = v
      BY <1>11, <2>2
    <3>2. EndsWell(S, now, v)
      BY <1>4, <1>5, <2>0 DEF EndsWell, HoleIn, TailOf
    <3> QED
      BY <2>0, <3>1, <3>2
  <2> QED
    BY <2>1, <2>2
<1>16. ASSUME NEW v \in R \ T, NEW w \in R \ T, v # w
       PROVE  Join(v)[2] <= Join(w)[1] \/ Join(w)[2] <= Join(v)[1]
  <2>0. \A x \in R \ T : /\ x \in R /\ x[1] \in Nat /\ x[2] \in Nat /\ x[1] < x[2] 
                         /\ Join(x)[1] = x[1] /\ Join(x)[2] \in Nat
    BY <1>3, <1>15
  <2>1. ASSUME NEW x \in R \ T, NEW y \in R \ T, x # y, Joins(x)
        PROVE  Join(y)[2] <= Join(x)[1]
    <3>1. /\ x[2] \in S /\ HoleIn(S, x) /\ T # {} /\ \A b \in S : b <= x[2]
      BY <1>10, <2>1
    <3>2. HoleIn(S, y)
      <4> SUFFICES ASSUME TailOf(S, now, y) PROVE FALSE
        BY <1>4
      <4>1. PICK t \in T : TRUE
        BY <3>1
      <4> QED
        BY <1>8, <1>13, <4>1
    <3>3. ~Joins(y)
      <4> SUFFICES ASSUME Joins(y) PROVE FALSE
        OBVIOUS
      <4>1. y[2] \in S /\ \A b \in S : b <= y[2]
        BY <1>10
      <4>2. y[2] = x[2]
        BY <2>0, <3>1, <4>1
      <4> QED
        BY <1>b, <2>1, <4>2
    <3>4. Join(y) = y
      BY <1>11, <3>3
    <3>5. x[2] < y[1] \/ y[2] < x[1]
      BY <1>12, <2>1, <3>1, <3>2
    <3>6. y[2] <= x[2]
      BY <3>1, <3>2 DEF HoleIn
    <3> QED
      BY <2>0, <3>4, <3>5, <3>6
  <2>2. CASE Joins(v)
    BY <1>16, <2>1, <2>2
  <2>3. CASE Joins(w)
    BY <1>16, <2>1, <2>3
  <2>4. CASE ~Joins(v) /\ ~Joins(w)
    <3>1. Join(v) = v /\ Join(w) = w
      BY <1>11, <2>4
    <3>2. v[2] <= w[1] \/ w[2] <= v[1]
      BY <1>4, <1>12, <1>13, <1>14, <1>16, <2>0
    <3> QED
      BY <3>1, <3>2
  <2> QED
    BY <2>2, <2>3, <2>4
<1>17. ASSUME NEW b \in from..(now - 1), b \notin S PROVE \E w \in J : b \in Span(w)
  <2>1. PICK w \in W : b \in Span(w)
    BY <1>1, <1>17
  <2>2. b \in Nat /\ w[1] \in Nat /\ w[2] \in Nat /\ w[1] <= b /\ b < w[2] /\ b < now
    BY <1>1, <2>1 DEF Span
  <2>3. w \in R
    BY <1>c, <2>2 DEF Real
  <2>4. CASE w \notin T
    <3>1. Join(w)[1] = w[1] /\ w[2] <= Join(w)[2] /\ Join(w)[2] \in Nat /\ Join(w) \in J
      BY <1>2, <1>15, <2>3, <2>4
    <3>2. b \in Span(Join(w))
      BY <2>2, <3>1 DEF Span
    <3> QED
      BY <3>1, <3>2
  <2>5. CASE w \in T
    <3>1. PICK v \in R : v[2] = w[1]
      BY <1>6, <2>5
    <3>2. Joins(v)
      BY <2>5, <3>1 DEF Joins
    <3>3. v \notin T /\ Join(v) = <<v[1], now + 2>> /\ v[1] \in Nat /\ v[2] \in Nat /\ v[1] < v[2]
      BY <1>3, <1>10, <3>2
    <3>4. Join(v) \in J
      BY <1>2, <3>3
    <3>5. b \in Span(Join(v))
      BY <2>2, <3>1, <3>3 DEF Span
    <3> QED
      BY <3>4, <3>5
  <2> QED
    BY <2>4, <2>5
<1>18. J \in SUBSET (Nat \X Nat)
  BY <1>2, <1>15
<1>19. ASSUME NEW w \in J PROVE Real(w) /\ EndsWell(S, now, w)
  <2>1. PICK v \in R \ T : w = Join(v)
    BY <1>2
  <2>2. v[1] < v[2] /\ v[1] \in Nat /\ v[2] \in Nat
    BY <1>3
  <2>3. w[1] = v[1] /\ v[2] <= w[2] /\ w[2] \in Nat /\ EndsWell(S, now, w)
    BY <1>15, <2>1
  <2> QED
    BY <2>2, <2>3 DEF Real
<1>20. ASSUME NEW v \in J, NEW w \in J PROVE Apart(v, w)
  <2>1. PICK x \in R \ T : v = Join(x)
    BY <1>2
  <2>2. PICK y \in R \ T : w = Join(y)
    BY <1>2
  <2> QED
    BY <1>16, <2>1, <2>2 DEF Apart
<1> QED
  BY <1>17, <1>18, <1>19, <1>20 DEF J, W

-----------------------------------------------------------------------------
(* The cache and the download *)

BarStates == {"none", "open", "closed"}
Caches == [Klines!Bars -> BarStates]
Fetching == {"fetch", "save"}

\* Bars S are bars of the exchange that had opened when bar n was the open one.
Arrived(S, n) == \A b \in S : b \in Has /\ b <= n

\* The bars that were fetched while open, and not left so, are the last of a cache.
OpenLast(cache, left) ==
    \A b \in Klines!Bars \ left : cache[b] = "open" => \A c \in Klines!In(cache) : c <= b

Gathered(l) == Klines!In(l.base) \union Klines!In(l.new)

\* What the download is asked for is there, or lies in a window to come.
Wanted(l, b) == b \in Has /\ l.from <= b /\ b < l.at

\* The windows to come, and what is fetched of the first one.
Lined(l, wins) ==
    /\ wins \in SUBSET (Nat \X Nat)
    /\ \A w \in wins : Real(w) /\ EndsWell(Klines!In(l.base), l.at, w)
    /\ \A v, w \in wins : Apart(v, w)

Windowed(l) ==
    /\ Lined(l, l.wins) /\ l.wins # {}
    /\ l.since \in Span(Klines!FirstOf(l.wins))
    /\ \A b \in Has : Klines!FirstOf(l.wins)[1] <= b /\ b < l.since => b \in Klines!In(l.new)

\* The last bar of the cache, which may have been open, is fetched again before
\* any bar behind it.
LastAgain(l, new) ==
    \A c \in Klines!In(new), m \in Klines!In(l.base) :
        (\A b \in Klines!In(l.base) : b <= m) /\ m < c => m \in Klines!In(new)

\* What is loaded and fetched: only the end of the fetch can leave an open bar.
Loaded(l, left, now) ==
    /\ Arrived(Klines!In(l.base), l.at) /\ Arrived(Klines!In(l.new), now)
    /\ OpenLast(l.base, left)
    /\ \A b \in Klines!Bars \ left :
          l.new[b] = "open" => l.pc = "save" /\ \A c \in Gathered(l) : c <= b
    /\ LastAgain(l, l.new)
    /\ \A b : Wanted(l, b) => b \in Gathered(l) \/ \E w \in l.wins : b \in Span(w)

Download(l, left, now) ==
    /\ DOMAIN l = {"pc", "from", "at", "base", "wins", "since", "new", "n"}
    /\ l.pc \in {"idle", "fetch", "save", "done"} /\ l.base \in Caches /\ l.new \in Caches
    /\ l.from \in Nat /\ l.at \in 0..now
    /\ l.pc = "fetch" => Windowed(l)
    /\ l.pc = "save" => l.wins = {}
    /\ l.pc \in Fetching => Loaded(l, left, now)

KlinesInv ==
    /\ bar \in Klines!Bars /\ faults \in 0..MaxFaults
    /\ klines \in Caches /\ stuck \in SUBSET Klines!Bars
    /\ Arrived(Klines!In(klines), bar) /\ OpenLast(klines, stuck)
    /\ Download(load, stuck, bar)
    /\ load.pc = "done" => \A b : Wanted(load, b) => b \in Klines!In(klines)

LEMMA BarsAreNumbers == Klines!Bars \in SUBSET Nat /\ \A n \in Klines!Bars : n \in Nat /\ n <= LastBar
  BY ComponentsBounds DEF Klines!Bars

LEMMA InIs ==
    ASSUME NEW c \in Caches
    PROVE  /\ \A b : b \in Klines!In(c) <=> b \in Klines!Bars /\ c[b] # "none"
           /\ Klines!In(c) \in SUBSET Nat
  BY BarsAreNumbers DEF Klines!In

LEMMA NothingIs == Klines!Nothing \in Caches /\ Klines!In(Klines!Nothing) = {}
  BY DEF Klines!Nothing, Klines!In, Caches, BarStates

LEMMA KlinesInit == ASSUME Klines!Init PROVE KlinesInv
<1>1. bar \in Nat /\ bar \in Klines!Bars
  BY ComponentsBounds DEF Klines!Init, Klines!Bars
<1>2. Download(load, stuck, bar) /\ load.pc = "idle"
  BY <1>1, NothingIs DEF Klines!Init, Download, Fetching
<1>3. Arrived(Klines!In(klines), bar) /\ OpenLast(klines, stuck)
  <2>1. klines = Klines!Nothing
    BY DEF Klines!Init
  <2>2. \A b \in Klines!Bars : klines[b] # "open"
    BY <2>1 DEF Klines!Nothing
  <2> QED
    BY <2>1, <2>2, NothingIs DEF Arrived, OpenLast
<1> QED
  BY <1>1, <1>2, <1>3, NothingIs, ComponentsBounds DEF Klines!Init, KlinesInv

\* More bars left, and a later open bar, are no harm.
LEMMA OpenLastGrows ==
    ASSUME NEW c, NEW left, NEW more, left \subseteq more, OpenLast(c, left)
    PROVE  OpenLast(c, more)
  BY DEF OpenLast

\* A save keeps what was loaded and what was fetched.  A bar that was open is the
\* last one, or is counted among those that may be left so.
LEMMA SaveIs ==
    ASSUME KlinesInv, NEW new \in Caches, NEW edge \in SUBSET Klines!Bars, Klines!Save(new, edge),
           OpenLast(load.base, stuck), LastAgain(load, new),
           Arrived(Klines!In(load.base), load.at), Arrived(Klines!In(new), bar),
           \A b \in Klines!Bars \ (stuck \union edge) :
              new[b] = "open" => \A c \in Klines!In(load.base) \union Klines!In(new) : c <= b
    PROVE  /\ klines' \in Caches /\ stuck' \in SUBSET Klines!Bars
           /\ stuck \union edge \subseteq stuck'
           /\ Klines!In(klines') = Klines!In(load.base) \union Klines!In(new)
           /\ OpenLast(klines', stuck') /\ Arrived(Klines!In(klines'), bar)
<1> DEFINE both == Klines!In(load.base) \cap Klines!In(new)
           ordered == Klines!InOrder(load.base, new)
<1>1. stuck' \in SUBSET Klines!Bars /\ stuck \union edge \subseteq stuck'
  BY DEF Klines!Save, Klines!In, KlinesInv
<1>2. load.base \in Caches /\ load.at \in 0..bar /\ bar \in Nat
  BY BarsAreNumbers DEF KlinesInv, Download
<1>3. PICK S \in SUBSET both :
         /\ klines' = [b \in Klines!Bars |-> IF b \in Klines!In(new) \ S THEN new[b] ELSE load.base[b]]
         /\ ordered => S = {}
  BY DEF Klines!Save, Klines!Merged
<1>4. S \subseteq stuck'
  <2>1. CASE ordered
    BY <1>3, <2>1
  <2>2. CASE ~ordered
    <3>1. both \subseteq stuck'
      BY <2>2 DEF Klines!Save
    <3> QED
      BY <3>1
  <2> QED
    BY <2>1, <2>2
<1> HIDE DEF ordered
<1>5. klines' \in Caches
  BY <1>2, <1>3 DEF Caches
<1>6. Klines!In(klines') = Klines!In(load.base) \union Klines!In(new)
  <2>1. \A b \in Klines!Bars : klines'[b] # "none" <=> load.base[b] # "none" \/ new[b] # "none"
    <3>1. \A b \in S : load.base[b] # "none" /\ new[b] # "none"
      BY <1>2, InIs
    <3>2. \A b \in Klines!Bars : b \in Klines!In(new) <=> new[b] # "none"
      BY InIs
    <3> QED
      BY <1>3, <3>1, <3>2
  <2>2. \A b : b \in Klines!In(klines') <=> b \in Klines!In(load.base) \union Klines!In(new)
    BY <1>2, <1>5, <2>1, InIs
  <2> QED
    BY <2>2
<1>7. Arrived(Klines!In(klines'), bar)
  <2>1. \A b \in Klines!In(load.base) \union Klines!In(new) : b \in Nat
    BY <1>2, InIs
  <2> QED
    BY <1>2, <1>6, <2>1 DEF Arrived
<1>8. ASSUME NEW b \in Klines!Bars \ stuck', klines'[b] = "open", NEW c \in Klines!In(klines')
      PROVE  c <= b
  <2>1. CASE b \in Klines!In(new) \ S
    <3>1. new[b] = "open"
      BY <1>3, <1>8, <2>1
    <3> QED
      BY <1>1, <1>6, <1>8, <3>1
  <2>2. CASE b \notin Klines!In(new) \ S
    <3>1. load.base[b] = "open" /\ b \notin Klines!In(new)
      BY <1>3, <1>4, <1>8, <2>2
    <3>2. b \in Klines!In(load.base) /\ \A d \in Klines!In(load.base) : d <= b
      BY <1>1, <1>2, <3>1, InIs DEF OpenLast
    <3>3. \A d \in Klines!In(new) : ~(b < d)
      BY <3>1, <3>2 DEF LastAgain
    <3>4. b \in Nat /\ \A d \in Klines!In(new) : d \in Nat
      BY InIs, BarsAreNumbers
    <3>5. \A d \in Klines!In(new) : d <= b
      BY <3>3, <3>4
    <3> QED
      BY <1>6, <1>8, <3>2, <3>5
  <2> QED
    BY <2>1, <2>2
<1> QED
  BY <1>1, <1>5, <1>6, <1>7, <1>8 DEF OpenLast

LEMMA DownloadGrows ==
    ASSUME NEW l, NEW left, NEW more, left \subseteq more, NEW now \in Nat, NEW later \in Nat, now <= later,
           Download(l, left, now)
    PROVE  Download(l, more, later)
<1>1. ASSUME l.pc \in Fetching PROVE Loaded(l, more, later)
  <2>1. Loaded(l, left, now)
    BY <1>1 DEF Download
  <2>2. OpenLast(l.base, more)
    BY <2>1, OpenLastGrows DEF Loaded
  <2>3. Arrived(Klines!In(l.new), later)
    <3>1. \A b \in Klines!In(l.new) : b \in Nat /\ b \in Has /\ b <= now
      BY <2>1, InIs DEF Download, Loaded, Arrived
    <3>2. \A b \in Nat : b <= now => b <= later
      OBVIOUS
    <3> QED
      BY <3>1, <3>2 DEF Arrived
  <2> QED
    BY <2>1, <2>2, <2>3 DEF Loaded
<1>2. l.at \in 0..later
  BY DEF Download
<1> QED
  BY <1>1, <1>2 DEF Download

-----------------------------------------------------------------------------
(* The actions *)

\* The window is done with: what the download still wants lies in the others.
LEMMA NextWindowIs ==
    ASSUME NEW l, NEW left, NEW now \in Nat,
           DOMAIN l = {"pc", "from", "at", "base", "wins", "since", "new", "n"}, l.pc = "fetch",
           l.base \in Caches, l.new \in Caches, l.from \in Nat, l.at \in 0..now,
           Lined(l, l.wins),
           Arrived(Klines!In(l.base), l.at), Arrived(Klines!In(l.new), now),
           OpenLast(l.base, left), LastAgain(l, l.new),
           NEW rest, rest = l.wins \ {Klines!FirstOf(l.wins)},
           \A b \in Klines!Bars \ left : l.new[b] = "open" => rest = {} /\ \A c \in Gathered(l) : c <= b,
           \A b : Wanted(l, b) => b \in Gathered(l) \/ \E w \in rest : b \in Span(w)
    PROVE  Download(Klines!NextWindow(l), left, now) /\ Klines!NextWindow(l).pc # "done"
<1> DEFINE k == Klines!NextWindow(l)
           first == Klines!FirstOf(rest)
<1>1. CASE rest = {}
  <2>1. k = [l EXCEPT !.pc = "save", !.wins = {}]
    BY <1>1 DEF Klines!NextWindow
  <2>2. /\ k.pc = "save" /\ k.wins = {} /\ k.base = l.base /\ k.new = l.new /\ k.from = l.from /\ k.at = l.at
        /\ DOMAIN k = {"pc", "from", "at", "base", "wins", "since", "new", "n"}
    BY <2>1
  <2> HIDE DEF k
  <2>3. Loaded(k, left, now)
    BY <1>1, <2>2 DEF Loaded, LastAgain, Gathered, Wanted
  <2> QED
    BY <2>2, <2>3 DEF Download, k
<1>2. CASE rest # {}
  <2>1. k = [l EXCEPT !.wins = rest, !.since = first[1]]
    BY <1>2 DEF Klines!NextWindow
  <2>2. /\ k.pc = "fetch" /\ k.wins = rest /\ k.since = first[1]
        /\ k.base = l.base /\ k.new = l.new /\ k.from = l.from /\ k.at = l.at
        /\ DOMAIN k = {"pc", "from", "at", "base", "wins", "since", "new", "n"}
    BY <2>1
  <2>3. rest \in SUBSET (Nat \X Nat) /\ first \in rest
    <3>1. rest \in SUBSET (Nat \X Nat)
      BY DEF Lined
    <3> QED
      BY <1>2, <3>1, FirstIs
  <2>4. first[1] \in Nat /\ first[2] \in Nat /\ first[1] < first[2]
    BY <2>3 DEF Lined, Real
  <2> HIDE DEF k, first
  <2>5. Klines!FirstOf(k.wins) = first
    BY <2>2 DEF first
  <2>6. Windowed(k)
    <3>1. Lined(k, rest)
      BY <2>2, <2>3 DEF Lined
    <3>2. k.since \in Span(first)
      BY <2>2, <2>4 DEF Span
    <3>3. \A b \in Nat : ~(first[1] <= b /\ b < k.since)
      BY <2>2, <2>4
    <3> QED
      BY <1>2, <2>2, <2>5, <3>1, <3>2, <3>3, ComponentsBounds DEF Windowed
  <2>7. Loaded(k, left, now)
    BY <1>2, <2>2 DEF Loaded, LastAgain, Gathered, Wanted
  <2> QED
    BY <2>2, <2>6, <2>7 DEF Download, k
<1> QED
  BY <1>1, <1>2

LEMMA KlinesFetchKeeps == ASSUME KlinesInv, Klines!Fetch PROVE KlinesInv'
<1> DEFINE first == Klines!FirstOf(load.wins)
           rest == load.wins \ {first}
           A == Klines!Answer
           short == Klines!Cardinality(A) < Batch
           df == {b \in A : b < first[2]}
           new == [b \in Klines!Bars |-> IF b \notin df THEN load.new[b]
                                         ELSE IF b = bar THEN "open" ELSE "closed"]
           l == [load EXCEPT !.new = new, !.n = load.n + 1, !.since = Klines!Max(df) + 1]
           edge == {b \in df : b = bar /\ Klines!Cardinality(A) = Batch}
<1>1. load.pc = "fetch" /\ bar' = bar /\ faults' = faults
  BY DEF Klines!Fetch
<1>2. df = {} => load' = Klines!NextWindow(load) /\ klines' = klines /\ stuck' = stuck
  BY DEF Klines!Fetch
<1>3. df # {} =>
        /\ load' = IF l.since >= first[2] \/ short THEN Klines!NextWindow(l) ELSE l
        /\ \/ klines' = klines /\ stuck' = stuck \union edge
           \/ Klines!Save(new, edge)
  BY DEF Klines!Fetch
<1>4. /\ bar \in Nat /\ bar \in Klines!Bars /\ bar <= LastBar /\ load.at \in Nat /\ load.at <= bar
      /\ load.base \in Caches /\ load.new \in Caches /\ load.from \in Nat
      /\ DOMAIN load = {"pc", "from", "at", "base", "wins", "since", "new", "n"}
  BY BarsAreNumbers DEF KlinesInv, Download
<1>5. Windowed(load) /\ Lined(load, load.wins) /\ load.wins # {} /\ Loaded(load, stuck, bar)
  BY <1>1 DEF KlinesInv, Download, Fetching, Windowed
<1>6. /\ first \in load.wins /\ \A v \in load.wins : first[1] <= v[1]
      /\ first[1] \in Nat /\ first[2] \in Nat /\ first[1] < first[2]
      /\ load.since \in Nat /\ first[1] <= load.since /\ load.since < first[2]
  <2>1. load.wins \in SUBSET (Nat \X Nat)
    BY <1>5 DEF Lined
  <2>2. first \in load.wins /\ \A v \in load.wins : first[1] <= v[1]
    BY <1>5, <2>1, FirstIs
  <2>3. load.since \in Span(first)
    BY <1>5 DEF Windowed
  <2> HIDE DEF first
  <2>4. first[1] \in Nat /\ first[2] \in Nat /\ first[1] < first[2]
    BY <1>5, <2>1, <2>2 DEF Lined, Real
  <2> QED
    BY <2>2, <2>3, <2>4 DEF Span
<1>7. /\ \A b \in A : b \in Has /\ b \in Nat /\ load.since <= b /\ b <= bar
      /\ \A b \in Has, m \in A : load.since <= b /\ b <= m => b \in A
      /\ \A b \in Has : load.since <= b /\ b <= bar => \E a \in A : a <= b
      /\ short => \A b \in Has : load.since <= b /\ b <= bar => b \in A
      /\ Klines!Cardinality(A) # Batch => short
  <2> DEFINE there == {b \in Has : load.since <= b /\ b <= bar}
  <2>1. /\ A \subseteq there
        /\ \A b \in there, m \in A : b <= m => b \in A
        /\ there # {} => \E b \in A : \A c \in there : b <= c
        /\ Klines!Cardinality(A) # Batch => short
        /\ short => A = there
    BY <1>4, <1>6, AnswerIs
  <2> HIDE DEF A, short
  <2>2. \A b : b \in there <=> b \in Has /\ load.since <= b /\ b <= bar
    OBVIOUS
  <2>3. \A b \in Has : b \in Nat
    BY ComponentsBounds
  <2> HIDE DEF there
  <2>4. \A b \in A : b \in Has /\ b \in Nat /\ load.since <= b /\ b <= bar
    BY <2>1, <2>2, <2>3
  <2>5. \A b \in Has, m \in A : load.since <= b /\ b <= m => b \in A
    <3>1. \A b, m \in Nat : b <= m /\ m <= bar => b <= bar
      BY <1>4
    <3> QED
      BY <2>1, <2>2, <2>3, <2>4, <3>1
  <2>6. \A b \in Has : load.since <= b /\ b <= bar => \E a \in A : a <= b
    BY <2>1, <2>2
  <2> QED
    BY <2>1, <2>2, <2>4, <2>5, <2>6
<1>8. \A b : b \in df <=> b \in A /\ b < first[2]
  OBVIOUS
<1>a. \A b : b \in edge <=> b \in df /\ b = bar /\ Klines!Cardinality(A) = Batch
  OBVIOUS
<1>b. new \in Caches /\ \A b \in Klines!Bars : new[b] = IF b \notin df THEN load.new[b]
                                                       ELSE IF b = bar THEN "open" ELSE "closed"
  BY <1>4 DEF Caches, BarStates
<1>c. \A b \in Has : b \in Nat
  BY ComponentsBounds
<1>d. /\ l.pc = "fetch" /\ l.new = new /\ l.since = Klines!Max(df) + 1 /\ l.wins = load.wins
      /\ l.base = load.base /\ l.from = load.from /\ l.at = load.at
      /\ DOMAIN l = {"pc", "from", "at", "base", "wins", "since", "new", "n"}
  BY <1>1, <1>4
<1>e. /\ Arrived(Klines!In(load.base), load.at) /\ Arrived(Klines!In(load.new), bar)
      /\ OpenLast(load.base, stuck)
      /\ \A b \in Klines!Bars \ stuck : load.new[b] # "open"
      /\ LastAgain(load, load.new)
      /\ \A b : Wanted(load, b) =>
            b \in Klines!In(load.base) \union Klines!In(load.new) \/ \E w \in load.wins : b \in Span(w)
  BY <1>1, <1>5 DEF Loaded, Gathered
<1>f. \A w \in load.wins : w[1] \in Nat /\ w[2] \in Nat /\ w[1] < w[2]
  BY <1>5 DEF Lined, Real
<1>g. first = Klines!FirstOf(load.wins) /\ rest = load.wins \ {first}
  OBVIOUS
<1> HIDE DEF first, rest, A, short, df, new, l, edge
<1>9. \A b \in df : b \in Has /\ b \in Nat /\ b \in Klines!Bars /\ load.since <= b /\ b <= bar /\ b < first[2]
  <2>1. \A b \in Nat : b <= bar => b \in Klines!Bars
    BY <1>4, ComponentsBounds DEF Klines!Bars
  <2> QED
    BY <1>7, <1>8, <2>1
<1>10. Klines!In(new) = Klines!In(load.new) \union df
  <2>1. \A b : b \in Klines!In(new) <=> b \in Klines!In(load.new) \union df
    BY <1>4, <1>9, <1>b, InIs
  <2> QED
    BY <2>1
<1>11. edge \in SUBSET Klines!Bars
  BY <1>9, <1>a
<1>12. \A b \in Klines!Bars \ (stuck \union edge) : new[b] = "open" => b = bar /\ b \in df /\ short
  BY <1>7, <1>a, <1>b, <1>e
<1>13. Arrived(Klines!In(new), bar)
  BY <1>9, <1>10, <1>e DEF Arrived
<1>14. \A c \in Klines!In(load.base) \union Klines!In(new) : c \in Nat /\ c <= bar
  <2>1. \A c \in Klines!In(load.base) : c \in Nat /\ c <= load.at
    BY <1>4, <1>e, InIs DEF Arrived
  <2>2. \A c \in Klines!In(new) : c \in Nat /\ c <= bar
    BY <1>13, <1>b, InIs DEF Arrived
  <2> QED
    BY <1>4, <2>1, <2>2
<1>15. \A b \in Klines!Bars \ (stuck \union edge) :
          new[b] = "open" => \A c \in Klines!In(load.base) \union Klines!In(new) : c <= b
  BY <1>12, <1>14
<1>16. LastAgain(load, new)
  <2> SUFFICES ASSUME NEW c \in Klines!In(new), NEW m \in Klines!In(load.base), m < c,
                      \A b \in Klines!In(load.base) : b <= m
               PROVE  m \in Klines!In(new)
    BY DEF LastAgain
  <2>1. CASE c \in Klines!In(load.new)
    BY <1>10, <1>e, <2>1 DEF LastAgain
  <2>2. CASE c \in df
    <3>1. m \in Nat /\ m \in Has /\ c \in Nat /\ c < first[2] /\ c \in A
      BY <1>8, <1>9, <1>14, <1>e, <2>2 DEF Arrived
    <3>2. first[1] <= m
      <4>1. EndsWell(Klines!In(load.base), load.at, first)
        BY <1>5, <1>6 DEF Lined
      <4>2. first[2] \notin Klines!In(load.base)
        BY <1>6, <3>1
      <4> QED
        BY <4>1, <4>2 DEF EndsWell
    <3>3. CASE m < load.since
      <4>1. m \in Klines!In(load.new)
        BY <1>5, <1>g, <3>1, <3>2, <3>3 DEF Windowed
      <4> QED
        BY <1>10, <4>1
    <3>4. CASE load.since <= m
      <4>1. m \in A /\ m < first[2]
        BY <1>6, <1>7, <3>1, <3>4
      <4> QED
        BY <1>8, <1>10, <4>1
    <3> QED
      BY <1>6, <3>1, <3>3, <3>4
  <2> QED
    BY <1>10, <2>1, <2>2
<1>17. ASSUME bar \in df PROVE rest = {}
  <2> SUFFICES ASSUME NEW w \in load.wins, w # first PROVE FALSE
    BY <1>g
  <2>1. bar < first[2]
    BY <1>9, <1>17
  <2>2. \A b \in Klines!In(load.base) : b \in Nat /\ b <= load.at
    BY <1>14, <1>e DEF Arrived
  <2>3. first[2] = load.at + 2
    <3>1. EndsWell(Klines!In(load.base), load.at, first)
      BY <1>5, <1>6 DEF Lined
    <3> QED
      BY <1>4, <1>6, <2>1, <2>2, <3>1 DEF EndsWell
  <2>4. w[2] <= load.at + 2
    <3>1. EndsWell(Klines!In(load.base), load.at, w)
      BY <1>5 DEF Lined
    <3> QED
      BY <1>4, <1>f, <2>2, <3>1 DEF EndsWell
  <2>5. Apart(first, w)
    BY <1>5, <1>6 DEF Lined
  <2>6. first[2] <= w[1] \/ w[2] <= first[1]
    BY <2>5 DEF Apart
  <2>7. first[1] <= w[1] /\ w[1] < w[2] /\ w[1] \in Nat /\ w[2] \in Nat
    BY <1>6, <1>f
  <2> QED
    BY <1>4, <1>6, <2>3, <2>4, <2>6, <2>7
<1>18. \A b \in Nat : b \in Span(first) <=> first[1] <= b /\ b < first[2]
  BY <1>6 DEF Span
<1>19. \A b \in Has : first[1] <= b /\ b < load.since => b \in Klines!In(load.new)
  BY <1>5, <1>g DEF Windowed
<1>20. ASSUME NEW fetched, \A b \in Has : load.since <= b /\ b <= bar /\ b < first[2] => b \in fetched
       PROVE  \A b : Wanted(load, b) =>
                  b \in Klines!In(load.base) \union Klines!In(load.new) \union fetched \/ \E w \in rest : b \in Span(w)
  <2> SUFFICES ASSUME NEW b, Wanted(load, b), b \notin Klines!In(load.base) \union Klines!In(load.new),
                      b \in Span(first)
               PROVE  b \in fetched
    BY <1>e, <1>g
  <2>1. b \in Has /\ b \in Nat /\ b < load.at
    BY <1>c DEF Wanted
  <2>2. first[1] <= b /\ b < first[2] /\ ~(b < load.since)
    BY <1>18, <1>19, <2>1
  <2> QED
    BY <1>4, <1>6, <1>20, <2>1, <2>2
<1>21. CASE df = {}
  <2>1. \A b \in Has : ~(load.since <= b /\ b <= bar /\ b < first[2])
    <3> SUFFICES ASSUME NEW b \in Has, load.since <= b, b <= bar, b < first[2] PROVE FALSE
      OBVIOUS
    <3>1. PICK a \in A : a <= b
      BY <1>7
    <3>2. a < first[2]
      BY <1>6, <1>7, <1>c, <3>1
    <3> QED
      BY <1>8, <1>21, <3>1, <3>2
  <2>2. \A b : Wanted(load, b) => b \in Gathered(load) \/ \E w \in rest : b \in Span(w)
    BY <1>20, <2>1 DEF Gathered
  <2>3. Download(Klines!NextWindow(load), stuck, bar) /\ Klines!NextWindow(load).pc # "done"
    <3>1. load.at \in 0..bar
      BY <1>4
    <3> QED
      BY <1>1, <1>4, <1>5, <1>e, <1>g, <2>2, <3>1, NextWindowIs
  <2>4. load' = Klines!NextWindow(load) /\ klines' = klines /\ stuck' = stuck
    BY <1>2, <1>21
  <2> QED
    BY <1>1, <2>3, <2>4 DEF KlinesInv
<1>22. CASE df # {}
  <2> DEFINE left == stuck \union edge
  <2>1. /\ Klines!Max(df) \in df /\ (\A y \in df : y <= Klines!Max(df)) /\ Klines!Max(df) \in Nat
    <3>1. df \in SUBSET (0..bar)
      BY <1>4, <1>9
    <3> QED
      BY <1>4, <1>22, <3>1, KlinesMost
  <2>2. \A b \in Has : load.since <= b /\ b <= Klines!Max(df) => b \in df
    <3> SUFFICES ASSUME NEW b \in Has, load.since <= b, b <= Klines!Max(df) PROVE b \in df
      OBVIOUS
    <3>1. Klines!Max(df) \in A /\ Klines!Max(df) < first[2]
      BY <1>8, <2>1
    <3>2. b \in A /\ b < first[2]
      BY <1>6, <1>7, <1>c, <2>1, <3>1
    <3> QED
      BY <1>8, <3>2
  <2>3. /\ Arrived(Klines!In(l.base), l.at) /\ Arrived(Klines!In(l.new), bar)
        /\ OpenLast(l.base, left) /\ LastAgain(l, l.new) /\ Lined(l, l.wins)
        /\ l.at \in 0..bar
    <3>1. OpenLast(load.base, left)
      BY <1>e, OpenLastGrows
    <3> HIDE DEF left
    <3> QED
      BY <1>4, <1>5, <1>13, <1>16, <1>d, <1>e, <3>1 DEF LastAgain, Lined
  <2>4. Gathered(l) = Klines!In(load.base) \union Klines!In(load.new) \union df
    BY <1>10, <1>d DEF Gathered
  <2>5. \A b : Wanted(l, b) <=> Wanted(load, b)
    BY <1>d DEF Wanted
  <2>6. Download(IF l.since >= first[2] \/ short THEN Klines!NextWindow(l) ELSE l, left, bar)
        /\ (IF l.since >= first[2] \/ short THEN Klines!NextWindow(l) ELSE l).pc # "done"
    <3>1. CASE l.since >= first[2] \/ short
      <4>1. \A b \in Has : load.since <= b /\ b <= bar /\ b < first[2] => b \in df
        <5>1. CASE short
          BY <1>7, <1>8, <5>1
        <5>2. CASE l.since >= first[2]
          <6>1. \A b \in Nat : b < first[2] => b <= Klines!Max(df)
            BY <1>6, <1>d, <2>1, <5>2
          <6> QED
            BY <1>c, <2>2, <6>1
        <5> QED
          BY <3>1, <5>1, <5>2
      <4>2. \A b : Wanted(l, b) => b \in Gathered(l) \/ \E w \in rest : b \in Span(w)
        BY <1>20, <2>4, <2>5, <4>1
      <4>3. \A b \in Klines!Bars \ left : l.new[b] = "open" => rest = {} /\ \A c \in Gathered(l) : c <= b
        <5>1. Gathered(l) = Klines!In(load.base) \union Klines!In(new)
          BY <1>d DEF Gathered
        <5> QED
          BY <1>12, <1>15, <1>17, <1>d, <5>1
      <4>4. rest = l.wins \ {Klines!FirstOf(l.wins)}
        BY <1>d, <1>g
      <4> HIDE DEF left
      <4>5. Download(Klines!NextWindow(l), left, bar) /\ Klines!NextWindow(l).pc # "done"
        BY <1>4, <1>b, <1>d, <2>3, <4>2, <4>3, <4>4, NextWindowIs
      <4> QED
        BY <3>1, <4>5
    <3>2. CASE ~(l.since >= first[2] \/ short)
      <4>1. l.since \in Nat /\ l.since < first[2] /\ first[1] <= l.since /\ l.since = Klines!Max(df) + 1
        BY <1>6, <1>9, <1>d, <2>1, <3>2
      <4>2. l.since \in Span(first)
        BY <1>18, <4>1
      <4>3. \A b \in Has : first[1] <= b /\ b < l.since => b \in Klines!In(l.new)
        <5> SUFFICES ASSUME NEW b \in Has, first[1] <= b, b < l.since PROVE b \in Klines!In(new)
          BY <1>d
        <5>1. b \in Nat /\ b <= Klines!Max(df)
          BY <1>c, <2>1, <4>1
        <5>2. CASE b < load.since
          BY <1>10, <1>19, <5>2
        <5>3. CASE load.since <= b
          BY <1>10, <2>2, <5>1, <5>3
        <5> QED
          BY <1>6, <5>1, <5>2, <5>3
      <4>4. Windowed(l)
        BY <1>5, <1>d, <1>g, <2>3, <4>2, <4>3 DEF Windowed
      <4>5. \A b \in Klines!Bars \ left : l.new[b] # "open"
        BY <1>12, <1>d, <3>2
      <4>6. \A b : Wanted(l, b) => b \in Gathered(l) \/ \E w \in l.wins : b \in Span(w)
        BY <1>d, <1>e, <2>4, <2>5
      <4> HIDE DEF left
      <4>7. Loaded(l, left, bar)
        BY <2>3, <4>5, <4>6 DEF Loaded
      <4>8. Download(l, left, bar)
        BY <1>4, <1>b, <1>d, <2>3, <4>4, <4>7 DEF Download
      <4> QED
        BY <1>d, <3>2, <4>8
    <3> QED
      BY <3>1, <3>2
  <2>7. Download(load', left, bar) /\ load'.pc # "done"
    BY <1>3, <1>22, <2>6
  <2>8. CASE klines' = klines /\ stuck' = left
    <3>1. OpenLast(klines, left)
      BY OpenLastGrows DEF KlinesInv
    <3>2. left \in SUBSET Klines!Bars
      BY <1>11 DEF KlinesInv
    <3> HIDE DEF left
    <3> QED
      BY <1>1, <2>7, <2>8, <3>1, <3>2 DEF KlinesInv
  <2>9. CASE Klines!Save(new, edge)
    <3>1. /\ klines' \in Caches /\ stuck' \in SUBSET Klines!Bars /\ left \subseteq stuck'
          /\ OpenLast(klines', stuck') /\ Arrived(Klines!In(klines'), bar)
      BY <1>11, <1>13, <1>15, <1>16, <1>b, <1>e, <2>9, SaveIs
    <3> HIDE DEF left
    <3>2. Download(load', stuck', bar)
      <4>1. bar <= bar
        BY <1>4
      <4> QED
        BY <1>4, <2>7, <3>1, <4>1, DownloadGrows
    <3> QED
      BY <1>1, <1>4, <2>7, <3>1, <3>2 DEF KlinesInv
  <2> QED
    BY <1>3, <1>22, <2>8, <2>9
<1> QED
  BY <1>21, <1>22

\* A download that does not fetch ends: with a save, or without.
LEMMA KlinesEnds ==
    ASSUME KlinesInv, load.pc \in Fetching, NEW pc \in {"idle", "done"},
           load' = [load EXCEPT !.pc = pc], bar' = bar, faults' \in 0..MaxFaults,
           \/ UNCHANGED <<klines, stuck>> /\ pc = "idle"
           \/ Klines!Save(load.new, {}) /\ (pc = "done" => load.pc = "save")
    PROVE  KlinesInv'
<1>1. bar \in Nat /\ load.new \in Caches /\ Loaded(load, stuck, bar)
  BY BarsAreNumbers DEF KlinesInv, Download
<1>2. /\ load'.pc = pc /\ load'.base = load.base /\ load'.new = load.new
      /\ load'.from = load.from /\ load'.at = load.at
      /\ DOMAIN load' = {"pc", "from", "at", "base", "wins", "since", "new", "n"}
  BY DEF KlinesInv, Download
<1>3. Download(load', stuck', bar)
  BY <1>2 DEF KlinesInv, Download, Fetching
<1>4. \A b : Wanted(load', b) <=> Wanted(load, b)
  BY <1>2 DEF Wanted
<1>5. CASE UNCHANGED <<klines, stuck>> /\ pc = "idle"
  BY <1>2, <1>3, <1>5 DEF KlinesInv
<1>6. CASE Klines!Save(load.new, {}) /\ (pc = "done" => load.pc = "save")
  <2>1. \A b \in Klines!Bars \ (stuck \union {}) :
          load.new[b] = "open" => \A c \in Klines!In(load.base) \union Klines!In(load.new) : c <= b
    BY <1>1 DEF Loaded, Gathered
  <2>2. /\ klines' \in Caches /\ stuck' \in SUBSET Klines!Bars
        /\ Klines!In(klines') = Gathered(load)
        /\ OpenLast(klines', stuck') /\ Arrived(Klines!In(klines'), bar)
    BY <1>1, <1>6, <2>1, SaveIs DEF Loaded, Gathered
  <2>3. pc = "done" => \A b : Wanted(load, b) => b \in Klines!In(klines')
    <3> SUFFICES ASSUME pc = "done" PROVE \A b : Wanted(load, b) => b \in Klines!In(klines')
      OBVIOUS
    <3>1. load.wins = {}
      BY <1>6 DEF KlinesInv, Download
    <3> QED
      BY <1>1, <2>2, <3>1 DEF Loaded
  <2> QED
    BY <1>2, <1>3, <1>4, <2>2, <2>3 DEF KlinesInv
<1> QED
  BY <1>5, <1>6

LEMMA KlinesStartKeeps == ASSUME KlinesInv, NEW from \in Starts, Klines!Start(from) PROVE KlinesInv'
<1> DEFINE S == Klines!In(klines)
           wins == Klines!Merge(Klines!Windows(S, from, bar))
           first == Klines!FirstOf(wins)
           pc == IF wins = {} THEN "done" ELSE "fetch"
           since == IF wins = {} THEN 0 ELSE first[1]
<1>1. UNCHANGED <<bar, klines, stuck, faults>>
  BY DEF Klines!Start
<1>2. load' = [pc |-> pc, from |-> from, at |-> bar, base |-> klines, wins |-> wins, since |-> since,
               new |-> Klines!Nothing, n |-> 0]
  BY DEF Klines!Start
<1>3. bar \in Nat /\ from \in Nat /\ klines \in Caches
  BY BarsAreNumbers, ComponentsBounds DEF KlinesInv
<1>4. S \in SUBSET (0..bar) /\ \A b \in S : b \in Nat
  <2>1. \A b \in S : b \in Nat /\ b <= bar
    BY <1>3, InIs DEF KlinesInv, Arrived
  <2> QED
    BY <1>3, <2>1
<1>5. /\ wins \in SUBSET (Nat \X Nat)
      /\ \A w \in wins : Real(w) /\ EndsWell(S, bar, w)
      /\ \A v, w \in wins : Apart(v, w)
      /\ \A b \in from..(bar - 1) : b \notin S => \E w \in wins : b \in Span(w)
  BY <1>3, <1>4, MergedAre
<1>6. first = Klines!FirstOf(wins) /\ S = Klines!In(klines)
  OBVIOUS
<1>7. /\ load'.pc = pc /\ load'.wins = wins /\ load'.since = since /\ load'.base = klines
      /\ load'.new = Klines!Nothing /\ load'.from = from /\ load'.at = bar
      /\ DOMAIN load' = {"pc", "from", "at", "base", "wins", "since", "new", "n"}
  BY <1>2
<1>8. (wins = {} => pc = "done") /\ (wins # {} => pc = "fetch" /\ since = first[1])
  OBVIOUS
<1> HIDE DEF S, wins, first, pc, since
<1>9. \A b : Wanted(load', b) => b \in S \/ \E w \in wins : b \in Span(w)
  <2> SUFFICES ASSUME NEW b, Wanted(load', b) PROVE b \in S \/ \E w \in wins : b \in Span(w)
    OBVIOUS
  <2>1. b \in Nat /\ from <= b /\ b < bar
    BY <1>7, ComponentsBounds DEF Wanted
  <2>2. b \in from..(bar - 1)
    BY <1>3, <2>1
  <2> QED
    BY <1>5, <2>2
<1>10. bar \in 0..bar
  BY <1>3
<1>11. CASE wins = {}
  <2>1. Download(load', stuck, bar)
    BY <1>3, <1>7, <1>8, <1>10, <1>11, NothingIs DEF Download, Fetching
  <2>2. \A b : Wanted(load', b) => b \in Klines!In(klines)
    BY <1>6, <1>9, <1>11
  <2> QED
    BY <1>1, <2>1, <2>2 DEF KlinesInv
<1>12. CASE wins # {}
  <2>1. first \in wins /\ first[1] \in Nat /\ first[2] \in Nat /\ first[1] < first[2]
    <3>1. first \in wins
      BY <1>5, <1>6, <1>12, FirstIs
    <3> QED
      BY <1>5, <3>1 DEF Real
  <2>2. since \in Span(first)
    BY <1>8, <1>12, <2>1 DEF Span
  <2>3. \A b \in Has : ~(first[1] <= b /\ b < since)
    <3>1. \A b \in Nat : ~(first[1] <= b /\ b < first[1])
      BY <2>1
    <3> QED
      BY <1>8, <1>12, <3>1, ComponentsBounds
  <2>4. Windowed(load')
    BY <1>5, <1>6, <1>7, <1>12, <2>2, <2>3 DEF Windowed, Lined
  <2>5. \A b \in Klines!Bars : Klines!Nothing[b] # "open"
    BY DEF Klines!Nothing
  <2>6. Loaded(load', stuck, bar)
    <3>1. Arrived(Klines!In(load'.base), load'.at) /\ OpenLast(load'.base, stuck)
      BY <1>7 DEF KlinesInv
    <3>2. Klines!In(load'.new) = {} /\ \A b \in Klines!Bars : load'.new[b] # "open"
      BY <1>7, <2>5, NothingIs
    <3>3. Gathered(load') = S
      BY <1>6, <1>7, <3>2 DEF Gathered
    <3> QED
      BY <1>7, <1>9, <3>1, <3>2, <3>3 DEF Loaded, Arrived, LastAgain
  <2>7. Download(load', stuck, bar)
    BY <1>3, <1>7, <1>8, <1>10, <1>12, <2>4, <2>6, NothingIs DEF Download, Fetching
  <2> QED
    BY <1>1, <1>7, <1>8, <1>12, <2>7 DEF KlinesInv
<1> QED
  BY <1>11, <1>12

LEMMA KlinesKeeps == ASSUME KlinesInv, [Klines!Next]_KlineVars PROVE KlinesInv'
<1>0. faults + 1 \in 0..MaxFaults \/ ~(faults < MaxFaults)
  BY ComponentsBounds DEF KlinesInv
<1>1. ASSUME NEW from \in Starts, Klines!Start(from) PROVE KlinesInv'
  BY <1>1, KlinesStartKeeps
<1>2. CASE Klines!Fetch
  BY <1>2, KlinesFetchKeeps
<1>3. CASE Klines!FetchFails
  <2>1. /\ load' = [load EXCEPT !.pc = "idle"] /\ bar' = bar /\ faults' \in 0..MaxFaults
        /\ load.pc \in Fetching
        /\ UNCHANGED <<klines, stuck>> \/ Klines!Save(load.new, {})
    BY <1>0, <1>3 DEF Klines!FetchFails, Fetching
  <2> QED
    BY <2>1, KlinesEnds
<1>4. CASE Klines!Finish
  <2>1. /\ load' = [load EXCEPT !.pc = "done"] /\ bar' = bar /\ faults' \in 0..MaxFaults
        /\ load.pc \in Fetching /\ load.pc = "save" /\ Klines!Save(load.new, {})
    BY <1>4 DEF Klines!Finish, KlinesInv, Fetching
  <2> QED
    BY <2>1, KlinesEnds
<1>5. CASE Klines!Crash
  <2>1. /\ load' = [load EXCEPT !.pc = "idle"] /\ bar' = bar /\ faults' \in 0..MaxFaults
        /\ load.pc \in Fetching /\ UNCHANGED <<klines, stuck>>
    BY <1>0, <1>5 DEF Klines!Crash, Fetching
  <2> QED
    BY <2>1, KlinesEnds
<1>6. CASE Klines!Tick
  <2>1. bar \in Nat /\ bar' = bar + 1 /\ UNCHANGED <<klines, load, stuck, faults>> /\ bar < LastBar
    BY <1>6, BarsAreNumbers DEF Klines!Tick, KlinesInv
  <2>2. bar' \in Klines!Bars /\ bar' \in Nat /\ bar <= bar'
    BY <2>1, ComponentsBounds DEF Klines!Bars
  <2>3. Download(load', stuck', bar')
    <3>1. Download(load, stuck, bar)
      BY DEF KlinesInv
    <3>2. Download(load, stuck, bar')
      BY <2>1, <2>2, <3>1, DownloadGrows
    <3> QED
      BY <2>1, <3>2
  <2>4. Arrived(Klines!In(klines), bar')
    <3>1. \A b \in Klines!In(klines) : b \in Nat /\ b \in Has /\ b <= bar
      BY InIs DEF KlinesInv, Arrived
    <3>2. \A b \in Nat : b <= bar => b <= bar'
      BY <2>1
    <3> QED
      BY <3>1, <3>2 DEF Arrived
  <2> QED
    BY <2>1, <2>2, <2>3, <2>4 DEF KlinesInv
<1>7. CASE UNCHANGED KlineVars
  BY <1>7 DEF KlineVars, KlinesInv
<1> QED
  BY <1>1, <1>2, <1>3, <1>4, <1>5, <1>6, <1>7 DEF Klines!Next

LEMMA KlinesTypeOK == ASSUME KlinesInv PROVE Klines!TypeOK
  BY DEF KlinesInv, Klines!TypeOK, Download, Caches, BarStates

LEMMA KlinesCovered == ASSUME KlinesInv PROVE Klines!DownloadCoversPeriod
<1> SUFFICES ASSUME load.pc = "done"
             PROVE  /\ Has \cap (load.from..(load.at - 1)) \subseteq Klines!In(klines)
                    /\ \A b \in Klines!Bars \ stuck :
                          klines[b] = "open" => b = Klines!Max(Klines!In(klines))
  BY DEF Klines!DownloadCoversPeriod
<1>1. bar \in Nat /\ load.from \in Nat /\ load.at \in Nat /\ klines \in Caches
  BY BarsAreNumbers DEF KlinesInv, Download
<1>2. ASSUME NEW b \in Has, b \in load.from..(load.at - 1) PROVE b \in Klines!In(klines)
  <2>1. Wanted(load, b)
    BY <1>1, <1>2 DEF Wanted
  <2> QED
    BY <2>1 DEF KlinesInv
<1>3. ASSUME NEW b \in Klines!Bars \ stuck, klines[b] = "open"
      PROVE  b = Klines!Max(Klines!In(klines))
  <2>1. b \in Klines!In(klines) /\ \A c \in Klines!In(klines) : c <= b
    BY <1>1, <1>3, InIs DEF KlinesInv, OpenLast
  <2>2. Klines!In(klines) \in SUBSET (0..bar)
    <3>1. \A c \in Klines!In(klines) : c \in Nat /\ c <= bar
      BY <1>1, InIs DEF KlinesInv, Arrived
    <3> QED
      BY <1>1, <3>1
  <2>3. Klines!Max(Klines!In(klines)) \in Klines!In(klines) /\ b <= Klines!Max(Klines!In(klines))
    BY <1>1, <2>1, <2>2, KlinesMost
  <2>4. Klines!Max(Klines!In(klines)) <= b /\ Klines!Max(Klines!In(klines)) \in Nat /\ b \in Nat
    BY <2>1, <2>2, <2>3, BarsAreNumbers
  <2> QED
    BY <2>3, <2>4
<1> QED
  BY <1>2, <1>3
-----------------------------------------------------------------------------
(* What is cached stays *)

\* What a save writes of a bar, but for one that an unordered merge decides.
Newest(base, new, b) == IF new[b] # "none" THEN new[b] ELSE base[b]

\* A cache has nothing that the next save would not write.
Carried(cache, left, base, new) ==
    \A b \in Klines!Bars :
        /\ cache[b] # "none" => Newest(base, new, b) # "none"
        /\ cache[b] = "closed" /\ b \notin left => Newest(base, new, b) = "closed"

\* A bar that was fetched closed is over.
Over(cache, now) == \A b \in Klines!Bars : cache[b] = "closed" => b < now

KeptInv ==
    /\ Over(klines, bar)
    /\ load.pc \in Fetching =>
          Over(load.base, bar) /\ Over(load.new, bar) /\ Carried(klines, stuck, load.base, load.new)

BarsKept ==
    \A b \in Klines!Bars : /\ klines[b] # "none" => klines'[b] # "none"
                           /\ klines[b] = "closed" => klines'[b] = "closed" \/ b \in stuck'

LEMMA SavedIs ==
    ASSUME KlinesInv, NEW new \in Caches, NEW edge, Klines!Save(new, edge), NEW now,
           Over(load.base, now), Over(new, now), Carried(klines, stuck, load.base, new)
    PROVE  BarsKept /\ Over(klines', now) /\ Carried(klines', stuck', load.base, new)
<1> DEFINE both == Klines!In(load.base) \cap Klines!In(new)
           ordered == Klines!InOrder(load.base, new)
<1>1. load.base \in Caches
  BY DEF KlinesInv, Download
<1>2. PICK S \in SUBSET both :
         /\ klines' = [b \in Klines!Bars |-> IF b \in Klines!In(new) \ S THEN new[b] ELSE load.base[b]]
         /\ ordered => S = {}
  BY DEF Klines!Save, Klines!Merged
<1>3. stuck \subseteq stuck' /\ S \subseteq stuck'
  <2>1. stuck \subseteq stuck' /\ (~ordered => both \subseteq stuck')
    BY DEF Klines!Save
  <2> QED
    BY <1>2, <2>1
<1> HIDE DEF ordered
<1>4. ASSUME NEW b \in Klines!Bars
      PROVE  /\ klines'[b] \in {new[b], load.base[b]}
             /\ klines'[b] # "none" <=> Newest(load.base, new, b) # "none"
             /\ b \notin stuck' => klines'[b] = Newest(load.base, new, b)
  <2>1. b \in Klines!In(new) <=> new[b] # "none"
    BY InIs
  <2>2. b \in S => load.base[b] # "none" /\ new[b] # "none"
    BY <1>1, InIs
  <2>3. klines'[b] = IF b \in Klines!In(new) \ S THEN new[b] ELSE load.base[b]
    BY <1>2
  <2>4. CASE b \in S
    BY <1>3, <2>2, <2>3, <2>4 DEF Newest
  <2>5. CASE b \notin S
    BY <2>1, <2>3, <2>5 DEF Newest
  <2> QED
    BY <2>4, <2>5
<1>5. Over(klines', now)
  BY <1>4 DEF Over
<1>6. Carried(klines', stuck', load.base, new)
  BY <1>4 DEF Carried
<1>7. BarsKept
  BY <1>3, <1>4 DEF BarsKept, Carried
<1> QED
  BY <1>5, <1>6, <1>7

LEMMA OverLater ==
    ASSUME NEW c, NEW now \in Nat, NEW later \in Nat, now <= later, Over(c, now)
    PROVE  Over(c, later)
<1>1. \A b \in Klines!Bars : b < now => b < later
  BY BarsAreNumbers
<1> QED
  BY <1>1 DEF Over

LEMMA FetchKeepsBars == ASSUME KlinesInv, KeptInv, Klines!Fetch PROVE KeptInv' /\ BarsKept
<1> DEFINE first == Klines!FirstOf(load.wins)
           A == Klines!Answer
           df == {b \in A : b < first[2]}
           new == [b \in Klines!Bars |-> IF b \notin df THEN load.new[b]
                                         ELSE IF b = bar THEN "open" ELSE "closed"]
           l == [load EXCEPT !.new = new, !.n = load.n + 1, !.since = Klines!Max(df) + 1]
           edge == {b \in df : b = bar /\ Klines!Cardinality(A) = Batch}
<1>1. /\ load.pc = "fetch" /\ bar' = bar /\ bar \in Nat
      /\ load.base \in Caches /\ load.new \in Caches
      /\ DOMAIN load = {"pc", "from", "at", "base", "wins", "since", "new", "n"}
  BY BarsAreNumbers DEF Klines!Fetch, KlinesInv, Download
<1>2. /\ Over(klines, bar) /\ Over(load.base, bar) /\ Over(load.new, bar)
      /\ Carried(klines, stuck, load.base, load.new)
  BY <1>1 DEF KeptInv, Fetching
<1>3. df = {} => load' = Klines!NextWindow(load) /\ klines' = klines /\ stuck' = stuck
  BY DEF Klines!Fetch
<1>4. df # {} =>
        /\ load' \in {Klines!NextWindow(l), l}
        /\ \/ klines' = klines /\ stuck' = stuck \union edge
           \/ Klines!Save(new, edge)
  BY DEF Klines!Fetch
<1>5. \A b \in df : b \in Nat /\ b <= bar
  <2>1. \A b \in A : b \in Has /\ b <= bar
    BY DEF Klines!Answer
  <2> QED
    BY <2>1, ComponentsBounds
<1>6. new \in Caches /\ Over(new, bar)
  <2>1. new \in Caches
    BY <1>1 DEF Caches, BarStates
  <2>2. ASSUME NEW b \in Klines!Bars, new[b] = "closed" PROVE b < bar
    <3>1. b \notin df => load.new[b] = "closed"
      BY <2>2
    <3>2. b \in df => b # bar
      BY <2>2
    <3> HIDE DEF df, new
    <3> QED
      BY <1>1, <1>2, <1>5, <3>1, <3>2 DEF Over
  <2> HIDE DEF new
  <2> QED
    BY <2>1, <2>2 DEF Over
<1>7. Carried(klines, stuck, load.base, new)
  <2>1. ASSUME NEW b \in Klines!Bars
        PROVE  /\ b \notin df => Newest(load.base, new, b) = Newest(load.base, load.new, b)
               /\ b \in df => /\ Newest(load.base, new, b) \in {"open", "closed"}
                              /\ b # bar => Newest(load.base, new, b) = "closed"
    BY DEF Newest
  <2>2. \A b \in Klines!Bars : klines[b] = "closed" => b # bar
    BY <1>1, <1>2, BarsAreNumbers DEF Over
  <2> HIDE DEF new, df
  <2> QED
    BY <1>2, <2>1, <2>2 DEF Carried
<1>8. ASSUME NEW k, load' \in {Klines!NextWindow(k), k}, k \in {load, l}
      PROVE  /\ load'.base = load.base
             /\ k = load => load'.new = load.new
             /\ k = l => load'.new = new
  <2>1. /\ l.base = load.base /\ l.new = new
        /\ DOMAIN l = {"pc", "from", "at", "base", "wins", "since", "new", "n"}
    BY <1>1
  <2>2. DOMAIN k = {"pc", "from", "at", "base", "wins", "since", "new", "n"}
    BY <1>1, <1>8, <2>1
  <2> HIDE DEF l, new, first
  <2>3. Klines!NextWindow(k).base = k.base /\ Klines!NextWindow(k).new = k.new
    BY <2>2 DEF Klines!NextWindow
  <2> QED
    BY <1>8, <2>1, <2>3
<1> HIDE DEF new, l, df, edge
<1>9. CASE df = {}
  <2>1. load'.base = load.base /\ load'.new = load.new
    BY <1>3, <1>8, <1>9
  <2> QED
    BY <1>1, <1>2, <1>3, <1>9, <2>1 DEF KeptInv, BarsKept
<1>10. CASE df # {}
  <2>1. load'.base = load.base /\ load'.new = new
    BY <1>4, <1>8, <1>10
  <2>2. CASE klines' = klines /\ stuck' = stuck \union edge
    <3>1. Carried(klines, stuck', load.base, new)
      BY <1>7, <2>2 DEF Carried
    <3> QED
      BY <1>1, <1>2, <1>6, <2>1, <2>2, <3>1 DEF KeptInv, BarsKept
  <2>3. CASE Klines!Save(new, edge)
    <3>1. BarsKept /\ Over(klines', bar) /\ Carried(klines', stuck', load.base, new)
      BY <1>2, <1>6, <1>7, <2>3, SavedIs
    <3> QED
      BY <1>1, <1>2, <1>6, <2>1, <3>1 DEF KeptInv
  <2> QED
    BY <1>4, <1>10, <2>2, <2>3
<1> QED
  BY <1>9, <1>10

LEMMA StepKeepsBars ==
    ASSUME KlinesInv, KeptInv, [Klines!Next]_KlineVars
    PROVE  KeptInv' /\ BarsKept
<1>0. bar \in Nat /\ klines \in Caches /\ load.new \in Caches
  BY BarsAreNumbers DEF KlinesInv, Download
<1>1. CASE \E from \in Starts : Klines!Start(from)
  <2>1. /\ UNCHANGED <<bar, klines, stuck>>
        /\ load'.base = klines /\ load'.new = Klines!Nothing
    BY <1>1 DEF Klines!Start
  <2>2. Over(Klines!Nothing, bar) /\ Carried(klines, stuck, klines, Klines!Nothing)
    BY DEF Klines!Nothing, Over, Carried, Newest
  <2> QED
    BY <2>1, <2>2 DEF KeptInv, BarsKept
<1>2. CASE Klines!Fetch
  BY <1>2, FetchKeepsBars
<1>3. CASE Klines!FetchFails \/ Klines!Finish \/ Klines!Crash
  <2>1. /\ load.pc \in Fetching /\ load'.pc \in {"idle", "done"} /\ bar' = bar
        /\ UNCHANGED <<klines, stuck>> \/ Klines!Save(load.new, {})
    BY <1>3 DEF Klines!FetchFails, Klines!Finish, Klines!Crash, Fetching, KlinesInv, Download
  <2>2. CASE UNCHANGED <<klines, stuck>>
    BY <2>1, <2>2 DEF KeptInv, BarsKept, Fetching
  <2>3. CASE Klines!Save(load.new, {})
    <3>1. BarsKept /\ Over(klines', bar)
      BY <1>0, <2>1, <2>3, SavedIs DEF KeptInv
    <3> QED
      BY <2>1, <3>1 DEF KeptInv, Fetching
  <2> QED
    BY <2>1, <2>2, <2>3
<1>4. CASE Klines!Tick
  <2>1. bar' \in Nat /\ bar <= bar' /\ UNCHANGED <<klines, load, stuck>>
    BY <1>0, <1>4 DEF Klines!Tick
  <2>2. Over(klines, bar) => Over(klines, bar')
    BY <1>0, <2>1, OverLater
  <2>3. Over(load.base, bar) /\ Over(load.new, bar) => Over(load.base, bar') /\ Over(load.new, bar')
    BY <1>0, <2>1, OverLater
  <2> QED
    BY <2>1, <2>2, <2>3 DEF KeptInv, BarsKept
<1>5. CASE UNCHANGED KlineVars
  BY <1>5 DEF KlineVars, KeptInv, BarsKept
<1> QED
  BY <1>1, <1>2, <1>3, <1>4, <1>5 DEF Klines!Next

LEMMA KeptBegins == ASSUME Klines!Init PROVE KeptInv
  BY DEF Klines!Init, Klines!Nothing, KeptInv, Over, Fetching
=============================================================================
