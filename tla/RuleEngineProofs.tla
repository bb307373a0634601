-------------------------- MODULE RuleEngineProofs --------------------------
(***************************************************************************)
(* The conflict resolution strategies order the activations of an agenda,  *)
(* and placing an activation keeps that order.  From that: the agendas are *)
(* sorted in every state, a match has one activation at most, a breakpoint *)
(* stops a run and a refreshed agenda holds the current saliences.  For    *)
(* any rules, matches, modules and bounds.                                 *)
(***************************************************************************)
EXTENDS RuleEngine, FiniteSetTheorems, WellFoundedInduction, TLAPS

------------------------------------------------------------------------------
(* The order of an agenda.                                                 *)

Below(n) == 0..n

(* A set of numbers has a least element: the intervals below its elements  *)
(* are finite sets, and strict inclusion is well-founded on those.         *)
LEMMA LeastElement ==
  ASSUME NEW T \in SUBSET Nat, T # {}
  PROVE  \E n \in T : \A m \in T : n <= m
<1>. DEFINE Intervals == { Below(n) : n \in T }
<1>. DEFINE R == StrictSubsetOrdering(Nat)
<1>1. Intervals \subseteq FiniteSubsetsOf(Nat)
  <2>. SUFFICES ASSUME NEW n \in T PROVE Below(n) \in FiniteSubsetsOf(Nat)
    OBVIOUS
  <2>1. IsFiniteSet(Below(n))
    BY FS_Interval DEF Below
  <2>. QED BY <2>1 DEF Below, FiniteSubsetsOf
<1>2. PICK b \in Intervals : \A c \in Intervals : ~ (<<c, b>> \in R)
  <2>1. Intervals # {}
    OBVIOUS
  <2>2. IsWellFoundedOn(R, FiniteSubsetsOf(Nat))
    BY FS_StrictSubsetOrderingWellFounded
  <2>. HIDE DEF Intervals, R
  <2>. QED BY <1>1, <2>1, <2>2, WFMin
<1>3. PICK n \in T : b = Below(n)
  OBVIOUS
<1>4. ASSUME NEW m \in T, m < n PROVE FALSE
  <2>1. Below(m) \subseteq Below(n) /\ Below(m) # Below(n)
    BY <1>4 DEF Below
  <2>2. <<Below(m), Below(n)>> \in (SUBSET Nat) \X (SUBSET Nat)
    BY DEF Below
  <2>3. <<Below(m), Below(n)>> \in R
    BY <2>1, <2>2 DEF StrictSubsetOrdering
  <2>. QED BY <2>3, <1>2, <1>3
<1>. QED BY <1>4

------------------------------------------------------------------------------
(* LEX compares sequences of numbers.                                      *)

Numbers == Seq(Nat)

LEMMA NumbersDomain ==
  ASSUME NEW s \in Numbers
  PROVE  /\ Len(s) \in Nat /\ DOMAIN s = 1..Len(s)
         /\ \A k \in DOMAIN s : k \in Nat /\ k > 0 /\ s[k] \in Nat
BY DEF Numbers

(* Where two sequences do not agree, one of them is greater at the first   *)
(* place where they differ.                                                *)
LEMMA FirstDifference ==
  ASSUME NEW s \in Numbers, NEW t \in Numbers, ~SameItems(s, t)
  PROVE  FirstGreater(s, t) \/ FirstGreater(t, s)
<1>. DEFINE Differ == { k \in DOMAIN s \intersect DOMAIN t : s[k] # t[k] }
<1>1. Differ \in SUBSET Nat /\ Differ # {}
  BY DEF SameItems, Numbers
<1>2. PICK k \in Differ : \A j \in Differ : k <= j
  BY <1>1, LeastElement
<1>3. \A j \in 1..(k - 1) : s[j] = t[j]
  <2>. SUFFICES ASSUME NEW j \in 1..(k - 1) PROVE s[j] = t[j]
    OBVIOUS
  <2>1. /\ k \in 1..Len(s) /\ k \in 1..Len(t) /\ Len(s) \in Nat /\ Len(t) \in Nat
        /\ DOMAIN s = 1..Len(s) /\ DOMAIN t = 1..Len(t)
    BY NumbersDomain
  <2>2. j \in 1..Len(s) /\ j \in 1..Len(t) /\ ~ (k <= j)
    <3>. HIDE DEF Differ
    <3>. QED BY <2>1
  <2>. QED BY <1>2, <2>1, <2>2
<1>4. s[k] \in Nat /\ t[k] \in Nat /\ s[k] # t[k]
  BY <1>2 DEF Numbers
<1>5. CASE s[k] > t[k]
  BY <1>2, <1>3, <1>5 DEF FirstGreater
<1>6. CASE t[k] > s[k]
  BY <1>2, <1>3, <1>6 DEF FirstGreater
<1>. QED BY <1>4, <1>5, <1>6

(* The order of the sequences alone, the shorter of two that agree first.  *)
Longer(s, t) == FirstGreater(s, t) \/ (SameItems(s, t) /\ Len(s) > Len(t))

LEMMA LongerAt ==
  ASSUME NEW s \in Numbers, NEW t \in Numbers, NEW k \in Nat,
         k \in 1..Len(s), k \in 1..Len(t), s[k] > t[k],
         \A j \in 1..(k - 1) : s[j] = t[j]
  PROVE  Longer(s, t)
<1>1. k \in DOMAIN s \intersect DOMAIN t
  BY NumbersDomain
<1>. QED BY <1>1 DEF Longer, FirstGreater

LEMMA SameUpTo ==
  ASSUME NEW s \in Numbers, NEW t \in Numbers,
         \A k \in 1..Len(s) : k \in 1..Len(t) => s[k] = t[k]
  PROVE  SameItems(s, t)
<1>1. DOMAIN s = 1..Len(s) /\ DOMAIN t = 1..Len(t)
  BY NumbersDomain
<1>. QED BY <1>1 DEF SameItems

LEMMA LongerAsymmetric ==
  ASSUME NEW s \in Numbers, NEW t \in Numbers, Longer(s, t)
  PROVE  ~Longer(t, s)
<1>1. CASE FirstGreater(s, t)
  <2>. PICK i \in DOMAIN s \intersect DOMAIN t :
              s[i] > t[i] /\ \A k \in 1..(i - 1) : s[k] = t[k]
    BY <1>1 DEF FirstGreater
  <2>1. i \in Nat /\ i > 0 /\ s[i] \in Nat /\ t[i] \in Nat
    BY NumbersDomain
  <2>2. ~SameItems(t, s)
    <3>. SUFFICES t[i] # s[i]
      BY DEF SameItems
    <3>. QED BY <2>1
  <2>3. ASSUME NEW j \in DOMAIN s \intersect DOMAIN t, t[j] > s[j],
               \A k \in 1..(j - 1) : t[k] = s[k]
        PROVE FALSE
    <3>1. j \in Nat /\ j > 0 /\ s[j] \in Nat /\ t[j] \in Nat
      BY NumbersDomain
    <3>2. CASE i < j
      <4>1. i \in 1..(j - 1)
        BY <2>1, <3>1, <3>2
      <4>. QED BY <4>1, <2>1, <2>3
    <3>3. CASE j < i
      <4>1. j \in 1..(i - 1)
        BY <2>1, <3>1, <3>3
      <4>. QED BY <4>1, <3>1, <2>3
    <3>4. CASE i = j
      BY <2>1, <3>4, <2>3
    <3>. QED BY <2>1, <3>1, <3>2, <3>3, <3>4
  <2>. QED BY <2>2, <2>3 DEF Longer, FirstGreater
<1>2. CASE SameItems(s, t) /\ Len(s) > Len(t)
  <2>1. ~FirstGreater(t, s)
    <3>. SUFFICES ASSUME NEW j \in DOMAIN s \intersect DOMAIN t, t[j] > s[j] PROVE FALSE
      BY DEF FirstGreater
    <3>. QED BY <1>2, NumbersDomain DEF SameItems
  <2>. QED BY <1>2, <2>1, NumbersDomain DEF Longer
<1>. QED BY <1>1, <1>2 DEF Longer

(* Between two sequences in order a third one is behind the first or       *)
(* ahead of the second.                                                    *)
LEMMA LongerSplits ==
  ASSUME NEW s \in Numbers, NEW t \in Numbers, NEW u \in Numbers, Longer(s, u)
  PROVE  Longer(s, t) \/ Longer(t, u)
<1>. SUFFICES ASSUME ~Longer(s, t) PROVE Longer(t, u)
  OBVIOUS
<1>0. /\ Len(s) \in Nat /\ DOMAIN s = 1..Len(s) /\ \A k \in 1..Len(s) : s[k] \in Nat
      /\ Len(t) \in Nat /\ DOMAIN t = 1..Len(t) /\ \A k \in 1..Len(t) : t[k] \in Nat
      /\ Len(u) \in Nat /\ DOMAIN u = 1..Len(u) /\ \A k \in 1..Len(u) : u[k] \in Nat
  BY NumbersDomain
<1>. HIDE DEF Numbers
<1>1. CASE SameItems(s, t)
  <2>1. Len(s) <= Len(t)
    BY <1>0, <1>1 DEF Longer
  <2>2. \A k \in 1..Len(s) : k \in 1..Len(t) /\ s[k] = t[k]
    BY <1>0, <1>1, <2>1 DEF SameItems
  <2>3. CASE FirstGreater(s, u)
    <3>. PICK i \in DOMAIN s \intersect DOMAIN u :
                s[i] > u[i] /\ \A j \in 1..(i - 1) : s[j] = u[j]
      BY <2>3 DEF FirstGreater
    <3>1. i \in 1..Len(t) /\ t[i] > u[i]
      BY <1>0, <2>2
    <3>2. \A j \in 1..(i - 1) : t[j] = u[j]
      BY <1>0, <2>2
    <3>3. i \in Nat /\ i \in 1..Len(u)
      BY <1>0
    <3>. QED BY <3>1, <3>2, <3>3, LongerAt
  <2>4. CASE SameItems(s, u) /\ Len(s) > Len(u)
    <3>1. SameItems(t, u)
      <4>1. \A j \in 1..Len(t) : j \in 1..Len(u) => t[j] = u[j]
        BY <1>0, <2>1, <2>2, <2>4 DEF SameItems
      <4>. QED BY <4>1, SameUpTo
    <3>. QED BY <1>0, <3>1, <2>1, <2>4 DEF Longer
  <2>. QED BY <2>3, <2>4 DEF Longer
<1>2. CASE ~SameItems(s, t)
  <2>1. FirstGreater(t, s)
    BY <1>2, FirstDifference DEF Longer
  <2>. PICK k \in DOMAIN t \intersect DOMAIN s :
              t[k] > s[k] /\ \A j \in 1..(k - 1) : t[j] = s[j]
    BY <2>1 DEF FirstGreater
  <2>2. k \in 1..Len(t) /\ k \in 1..Len(s) /\ k \in Nat /\ t[k] \in Nat /\ s[k] \in Nat
    BY <1>0
  <2>3. CASE FirstGreater(s, u)
    <3>. PICK i \in DOMAIN s \intersect DOMAIN u :
                s[i] > u[i] /\ \A j \in 1..(i - 1) : s[j] = u[j]
      BY <2>3 DEF FirstGreater
    <3>1. i \in 1..Len(s) /\ i \in 1..Len(u) /\ i \in Nat /\ s[i] \in Nat /\ u[i] \in Nat
      BY <1>0
    <3>2. CASE k < i
      <4>1. k \in 1..Len(u) /\ s[k] = u[k]
        BY <1>0, <2>2, <3>1, <3>2
      <4>2. \A j \in 1..(k - 1) : t[j] = u[j]
        BY <2>2, <3>1, <3>2
      <4>. QED BY <2>2, <4>1, <4>2, LongerAt
    <3>3. CASE i <= k
      <4>1. i \in 1..Len(t) /\ t[i] >= s[i]
        <5>1. CASE i = k
          BY <5>1, <2>2
        <5>2. CASE i < k
          BY <5>2, <2>2, <3>1
        <5>. QED BY <5>1, <5>2, <3>3, <2>2, <3>1
      <4>2. t[i] \in Nat
        BY <4>1, <1>0
      <4>3. \A j \in 1..(i - 1) : t[j] = u[j]
        BY <2>2, <3>1, <3>3
      <4>4. t[i] > u[i]
        BY <3>1, <4>1, <4>2
      <4>. QED BY <3>1, <4>1, <4>3, <4>4, LongerAt
    <3>. QED BY <2>2, <3>1, <3>2, <3>3
  <2>4. CASE SameItems(s, u) /\ Len(s) > Len(u)
    <3>1. CASE k <= Len(u)
      <4>1. k \in 1..Len(u)
        BY <1>0, <2>2, <3>1
      <4>2. \A j \in 1..k : j \in DOMAIN s \intersect DOMAIN u
        BY <1>0, <2>2, <4>1
      <4>3. \A j \in 1..k : s[j] = u[j]
        BY <4>2, <2>4 DEF SameItems
      <4>4. t[k] > u[k]
        BY <4>3, <2>2
      <4>5. \A j \in 1..(k - 1) : t[j] = u[j]
        BY <4>3, <2>2
      <4>. QED BY <4>1, <4>4, <4>5, <2>2, LongerAt
    <3>2. CASE k > Len(u)
      <4>1. SameItems(t, u)
        <5>1. \A j \in 1..Len(u) : j \in DOMAIN s \intersect DOMAIN u /\ j \in 1..(k - 1)
          BY <1>0, <2>2, <3>2
        <5>2. \A j \in 1..Len(u) : s[j] = u[j] /\ t[j] = s[j]
          BY <5>1, <2>4 DEF SameItems
        <5>3. \A j \in 1..Len(t) : j \in 1..Len(u) => t[j] = u[j]
          BY <5>2
        <5>. QED BY <5>3, SameUpTo
      <4>2. Len(t) > Len(u)
        BY <1>0, <2>2, <3>2
      <4>. QED BY <4>1, <4>2 DEF Longer
    <3>. QED BY <1>0, <2>2, <3>1, <3>2
  <2>. QED BY <2>3, <2>4 DEF Longer
<1>. QED BY <1>1, <1>2

------------------------------------------------------------------------------
(* SortPartialMatch() ends with the items in order: among the arrangements *)
(* take one of which no other has fewer items out of order; exchanging two *)
(* neighbours that are out of order would leave fewer.                     *)

OutOfOrder(b, p) ==
  { e \in (DOMAIN b) \X (DOMAIN b) :
      /\ b[e[1]] < b[e[2]]
      /\ \E i, j \in DOMAIN b : i < j /\ Movable(b, i, j) /\ p[i] = e[1] /\ p[j] = e[2] }

LEMMA MovableTransitive ==
  ASSUME NEW b \in Numbers, NEW i \in DOMAIN b, NEW j \in DOMAIN b, NEW k \in DOMAIN b,
         Movable(b, i, j), Movable(b, j, k)
  PROVE  Movable(b, i, k) /\ Movable(b, j, i)
<1>. DEFINE D == DOMAIN b
<1>1. D \subseteq Nat
  BY NumbersDomain
<1>2. CASE i = j
  BY <1>2 DEF Movable
<1>3. CASE j = k
  BY <1>3, <1>1 DEF Movable
<1>4. CASE i # j /\ j # k
  <2>1. \A n \in D : (i <= n /\ n <= j) \/ (j <= n /\ n <= i) => b[n] # 0
    BY <1>4 DEF Movable
  <2>2. \A n \in D : (j <= n /\ n <= k) \/ (k <= n /\ n <= j) => b[n] # 0
    BY <1>4 DEF Movable
  <2>3. \A n \in D : (i <= n /\ n <= k) \/ (k <= n /\ n <= i) => b[n] # 0
    BY <1>1, <2>1, <2>2
  <2>. QED BY <2>1, <2>3 DEF Movable
<1>. QED BY <1>2, <1>3, <1>4

Exchanged(p, i, j) == [p EXCEPT ![i] = p[j], ![j] = p[i]]

LEMMA NeighboursOutOfOrder ==
  ASSUME NEW b \in Numbers, NEW p \in Arrangements(b), ~Descends(b, p)
  PROVE  \E i \in DOMAIN b : /\ i + 1 \in DOMAIN b /\ Movable(b, i, i + 1)
                            /\ b[p[i]] < b[p[i + 1]]
<1>. DEFINE D == DOMAIN b
<1>0. /\ D \subseteq Nat /\ D = 1..Len(b) /\ Len(b) \in Nat
      /\ \A x \in D : b[x] \in Nat /\ p[x] \in D
  BY NumbersDomain DEF Arrangements
<1>. DEFINE Wrong(i, j) == i < j /\ Movable(b, i, j) /\ b[p[i]] < b[p[j]]
<1>. DEFINE Gaps == { g \in Nat : \E i, j \in D : Wrong(i, j) /\ g = j - i }
<1>1. \E i, j \in D : Wrong(i, j)
  BY <1>0 DEF Descends
<1>2. Gaps \in SUBSET Nat /\ Gaps # {}
  <2>. PICK i \in D, j \in D : Wrong(i, j)
    BY <1>1
  <2>1. j - i \in Nat
    BY <1>0
  <2>. QED BY <2>1
<1>3. PICK g \in Gaps : \A h \in Gaps : g <= h
  BY <1>2, LeastElement
<1>4. PICK i \in D, j \in D : Wrong(i, j) /\ g = j - i
  OBVIOUS
<1>5. i \in Nat /\ j \in Nat /\ i < j /\ i \in 1..Len(b) /\ j \in 1..Len(b)
  BY <1>0, <1>4
<1>6. Movable(b, i, j) /\ b[p[i]] < b[p[j]]
  BY <1>4
<1>7. ASSUME NEW k \in D, NEW l \in D, Wrong(k, l) PROVE j - i <= l - k
  <2>1. k < l /\ k \in Nat /\ l \in Nat
    BY <1>7, <1>0
  <2>2. l - k \in Nat
    BY <2>1
  <2>3. l - k \in Gaps
    BY <1>7, <2>2
  <2>. HIDE DEF Gaps, Wrong
  <2>. QED BY <2>3, <1>3, <1>4
<1>. HIDE DEF Gaps
<1>8. CASE j = i + 1
  BY <1>4, <1>8
<1>9. CASE j # i + 1
  <2>1. i + 1 \in D /\ i < i + 1 /\ i + 1 < j
    <3>. HIDE DEF D, Wrong
    <3>. QED BY <1>0, <1>5, <1>9
  <2>2. \A n \in D : i <= n /\ n <= j => b[n] # 0
    BY <1>5, <1>6 DEF Movable
  <2>3. Movable(b, i, i + 1) /\ Movable(b, i + 1, j)
    <3>. HIDE DEF Wrong
    <3>1. \A n \in D : (i <= n /\ n <= i + 1) \/ (i + 1 <= n /\ n <= i) => i <= n /\ n <= j
      BY <1>0, <1>5, <2>1
    <3>2. \A n \in D : (i + 1 <= n /\ n <= j) \/ (j <= n /\ n <= i + 1) => i <= n /\ n <= j
      BY <1>0, <1>5, <2>1
    <3>. QED BY <2>2, <3>1, <3>2 DEF Movable
  <2>4. ~Wrong(i, i + 1)
    <3>. SUFFICES ASSUME Wrong(i, i + 1) PROVE FALSE
      OBVIOUS
    <3>1. j - i <= (i + 1) - i
      BY <1>7, <2>1
    <3>. HIDE DEF Wrong, D
    <3>. QED BY <3>1, <2>1, <1>5
  <2>5. ~Wrong(i + 1, j)
    <3>. SUFFICES ASSUME Wrong(i + 1, j) PROVE FALSE
      OBVIOUS
    <3>1. j - i <= j - (i + 1)
      BY <1>7, <2>1
    <3>. HIDE DEF Wrong, D
    <3>. QED BY <3>1, <1>5
  <2>6. ~ (b[p[i]] < b[p[i + 1]]) /\ ~ (b[p[i + 1]] < b[p[j]])
    BY <2>1, <2>3, <2>4, <2>5
  <2>7. b[p[i]] \in Nat /\ b[p[i + 1]] \in Nat /\ b[p[j]] \in Nat
    BY <1>0, <2>1
  <2>. QED BY <1>6, <2>6, <2>7
<1>. QED BY <1>8, <1>9

LEMMA ExchangeIsArrangement ==
  ASSUME NEW b \in Numbers, NEW p \in Arrangements(b), NEW i \in DOMAIN b,
         i + 1 \in DOMAIN b, Movable(b, i, i + 1)
  PROVE  Exchanged(p, i, i + 1) \in Arrangements(b)
<1>. DEFINE D == DOMAIN b
<1>. DEFINE q == Exchanged(p, i, i + 1)
<1>0. i \in Nat /\ p \in [D -> D]
  BY NumbersDomain DEF Arrangements
<1>1. q \in [D -> D] /\ q[i] = p[i + 1] /\ q[i + 1] = p[i]
      /\ \A k \in D : k # i /\ k # i + 1 => q[k] = p[k]
  BY <1>0 DEF Exchanged
<1>2. \A k, l \in D : q[k] = q[l] => k = l
  <2>1. \A k, l \in D : p[k] = p[l] => k = l
    BY DEF Arrangements
  <2>. SUFFICES ASSUME NEW k \in D, NEW l \in D, q[k] = q[l] PROVE k = l
    OBVIOUS
  <2>2. i \in D /\ i + 1 \in D /\ i # i + 1
    BY <1>0
  <2>. HIDE DEF q, D
  <2>3. CASE k = i
    BY <1>1, <2>1, <2>2, <2>3
  <2>4. CASE k = i + 1
    BY <1>1, <2>1, <2>2, <2>4
  <2>5. CASE k # i /\ k # i + 1
    BY <1>1, <2>1, <2>2, <2>5
  <2>. QED BY <2>3, <2>4, <2>5
<1>3. ASSUME NEW k \in D PROVE Movable(b, k, q[k])
  <2>1. Movable(b, i, p[i]) /\ Movable(b, i + 1, p[i + 1]) /\ Movable(b, k, p[k])
    BY DEF Arrangements
  <2>2. Movable(b, i + 1, i)
    BY MovableTransitive, <2>1, <1>0
  <2>3. Movable(b, i, p[i + 1]) /\ Movable(b, i + 1, p[i])
    BY MovableTransitive, <2>1, <2>2, <1>0
  <2>. QED BY <1>1, <2>1, <2>3
<1>. QED BY <1>1, <1>2, <1>3 DEF Arrangements

LEMMA ExchangeOrders ==
  ASSUME NEW b \in Numbers, NEW p \in Arrangements(b), NEW i \in DOMAIN b,
         i + 1 \in DOMAIN b, Movable(b, i, i + 1), b[p[i]] < b[p[i + 1]]
  PROVE  /\ OutOfOrder(b, Exchanged(p, i, i + 1)) \subseteq OutOfOrder(b, p)
         /\ OutOfOrder(b, Exchanged(p, i, i + 1)) # OutOfOrder(b, p)
<1>. DEFINE D == DOMAIN b
<1>. DEFINE q == Exchanged(p, i, i + 1)
<1>0. /\ i \in Nat /\ p \in [D -> D] /\ D \subseteq Nat
      /\ \A k, l \in D : p[k] = p[l] => k = l
      /\ \A x \in D : b[x] \in Nat
  BY NumbersDomain DEF Arrangements
<1>1. q \in [D -> D] /\ q[i] = p[i + 1] /\ q[i + 1] = p[i]
      /\ \A k \in D : k # i /\ k # i + 1 => q[k] = p[k]
  BY <1>0 DEF Exchanged
<1>2. Movable(b, i + 1, i)
  <2>1. Movable(b, i + 1, i + 1)
    BY DEF Movable
  <2>. QED BY <2>1, MovableTransitive
<1>. DEFINE Place(k) == IF k = i THEN i + 1 ELSE IF k = i + 1 THEN i ELSE k
<1>3. ASSUME NEW k \in D PROVE Place(k) \in D /\ p[Place(k)] = q[k] /\ Movable(b, Place(k), k)
                                 /\ Movable(b, k, Place(k))
  <2>1. Movable(b, k, k)
    BY DEF Movable
  <2>. QED BY <1>0, <1>1, <1>2, <2>1
<1>4. ASSUME NEW e \in OutOfOrder(b, q) PROVE e \in OutOfOrder(b, p)
  <2>1. PICK k \in D, l \in D : k < l /\ Movable(b, k, l) /\ q[k] = e[1] /\ q[l] = e[2]
    BY DEF OutOfOrder
  <2>2. e \in D \X D /\ b[e[1]] < b[e[2]]
    BY DEF OutOfOrder
  <2>3. Place(k) \in D /\ Place(l) \in D /\ p[Place(k)] = e[1] /\ p[Place(l)] = e[2]
    BY <1>3, <2>1
  <2>4. Movable(b, Place(k), Place(l))
    <3>1. Movable(b, Place(k), l)
      BY <1>3, <2>1, <2>3, MovableTransitive
    <3>. QED BY <3>1, <1>3, <2>3, <2>1, MovableTransitive
  <2>5. Place(k) < Place(l)
    <3>1. ~ (k = i /\ l = i + 1)
      <4>. SUFFICES ASSUME k = i, l = i + 1 PROVE FALSE
        OBVIOUS
      <4>1. e[1] = p[i + 1] /\ e[2] = p[i] /\ b[p[i]] \in Nat /\ b[p[i + 1]] \in Nat
        BY <1>0, <1>1, <2>1
      <4>. QED BY <4>1, <2>2
    <3>2. k \in Nat /\ l \in Nat
      BY <1>0
    <3>. QED BY <3>1, <3>2, <1>0, <2>1
  <2>. HIDE DEF q, Place
  <2>. QED BY <2>2, <2>3, <2>4, <2>5 DEF OutOfOrder
<1>5. <<p[i], p[i + 1]>> \in OutOfOrder(b, p)
  <2>1. <<p[i], p[i + 1]>> \in D \X D /\ i < i + 1
    BY <1>0
  <2>. QED BY <2>1 DEF OutOfOrder
<1>6. <<p[i], p[i + 1]>> \notin OutOfOrder(b, q)
  <2>. SUFFICES ASSUME NEW k \in D, NEW l \in D, k < l, q[k] = p[i], q[l] = p[i + 1]
                PROVE FALSE
    BY DEF OutOfOrder
  <2>1. p[Place(k)] = p[i] /\ p[Place(l)] = p[i + 1] /\ Place(k) \in D /\ Place(l) \in D
    BY <1>3
  <2>2. Place(k) = i /\ Place(l) = i + 1
    BY <1>0, <2>1
  <2>. QED BY <1>0, <2>2
<1>. QED BY <1>4, <1>5, <1>6

LEMMA ArrangementDescends ==
  ASSUME NEW b \in Numbers
  PROVE  \E p \in Arrangements(b) : Descends(b, p)
<1>. DEFINE D == DOMAIN b
<1>. DEFINE Pairs == D \X D
<1>. DEFINE All == { OutOfOrder(b, p) : p \in Arrangements(b) }
<1>. DEFINE R == StrictSubsetOrdering(Pairs)
<1>1. IsFiniteSet(Pairs)
  <2>1. IsFiniteSet(D)
    BY FS_Interval, NumbersDomain
  <2>. QED BY <2>1, FS_Product
<1>2. All \subseteq FiniteSubsetsOf(Pairs)
  <2>. SUFFICES ASSUME NEW p \in Arrangements(b)
                PROVE OutOfOrder(b, p) \in FiniteSubsetsOf(Pairs)
    OBVIOUS
  <2>1. OutOfOrder(b, p) \subseteq Pairs
    BY DEF OutOfOrder
  <2>2. IsFiniteSet(OutOfOrder(b, p))
    BY <1>1, <2>1, FS_Subset
  <2>. QED BY <2>1, <2>2 DEF FiniteSubsetsOf
<1>3. All # {}
  <2>1. [i \in D |-> i] \in Arrangements(b)
    BY DEF Arrangements, Movable
  <2>. QED BY <2>1
<1>4. PICK e \in All : \A d \in All : ~ (<<d, e>> \in R)
  <2>1. IsWellFoundedOn(R, FiniteSubsetsOf(Pairs))
    BY FS_StrictSubsetOrderingWellFounded
  <2>. HIDE DEF All, R
  <2>. QED BY <1>2, <1>3, <2>1, WFMin
<1>5. PICK p \in Arrangements(b) : e = OutOfOrder(b, p)
  OBVIOUS
<1>6. ASSUME ~Descends(b, p) PROVE FALSE
  <2>1. PICK i \in D : i + 1 \in D /\ Movable(b, i, i + 1) /\ b[p[i]] < b[p[i + 1]]
    BY <1>6, NeighboursOutOfOrder
  <2>. DEFINE q == Exchanged(p, i, i + 1)
  <2>2. q \in Arrangements(b)
    BY <2>1, ExchangeIsArrangement
  <2>3. OutOfOrder(b, q) \subseteq e /\ OutOfOrder(b, q) # e
    BY <2>1, <1>5, ExchangeOrders
  <2>4. OutOfOrder(b, q) \in All
    BY <2>2
  <2>5. e \subseteq Pairs /\ OutOfOrder(b, q) \subseteq Pairs
    BY <1>5 DEF OutOfOrder
  <2>6. <<OutOfOrder(b, q), e>> \in R
    BY <2>3, <2>5 DEF StrictSubsetOrdering
  <2>. QED BY <2>4, <2>6, <1>4
<1>. QED BY <1>6

(* The sorted items of a match are the numbers of its items.               *)
LEMMA SortedBasisNumbers ==
  ASSUME NEW m \in Matches PROVE SortedBasis[m] \in Numbers
<1>. DEFINE b == Basis[m]
<1>1. b \in Numbers
  BY MatchesAssumption DEF Numbers
<1>. DEFINE p == CHOOSE p \in Arrangements(b) : Descends(b, p)
<1>2. p \in Arrangements(b)
  BY <1>1, ArrangementDescends
<1>3. p \in [DOMAIN b -> DOMAIN b]
  BY <1>2 DEF Arrangements
<1>4. SortedBasis[m] = [i \in DOMAIN b |-> b[p[i]]]
  BY DEF SortedBasis, SortPartialMatch
<1>5. DOMAIN b = 1..Len(b) /\ Len(b) \in Nat /\ \A k \in DOMAIN b : b[k] \in Nat
  BY <1>1, NumbersDomain
<1>. HIDE DEF b, p
<1>6. [i \in DOMAIN b |-> b[p[i]]] \in [1..Len(b) -> Nat]
  BY <1>3, <1>5
<1>. QED BY <1>4, <1>5, <1>6 DEF Numbers
------------------------------------------------------------------------------
(* The strategies.                                                         *)

LEMMA ComplexityNumber ==
  ASSUME NEW a \in Activation PROVE ComplexityOf(a) \in Nat
<1>1. a.basis \in Matches
  BY DEF Activation
<1>2. RuleOf[a.basis] \in Rules
  BY <1>1, MatchesAssumption
<1>. QED BY <1>2, RulesAssumption DEF ComplexityOf

LEMMA FirstItemNumber ==
  ASSUME NEW a \in Activation PROVE FirstItem(a) \in Nat
<1>1. a.basis \in Matches
  BY DEF Activation
<1>2. Basis[a.basis] \in Seq(Nat) /\ Basis[a.basis] # <<>>
  BY <1>1, MatchesAssumption
<1>. QED BY <1>2 DEF FirstItem

(* ComparePartialMatches() in terms of the order of the sequences.         *)
LEMMA GreaterLonger ==
  ASSUME NEW a \in Activation, NEW b \in Activation
  PROVE  LET s == SortedBasis[a.basis]
             t == SortedBasis[b.basis]
         IN  /\ s \in Numbers /\ t \in Numbers
             /\ Greater(a, b) <=> \/ Longer(s, t)
                                  \/ /\ ~Longer(s, t) /\ ~Longer(t, s)
                                     /\ ComplexityOf(a) > ComplexityOf(b)
<1>. DEFINE s == SortedBasis[a.basis]
<1>. DEFINE t == SortedBasis[b.basis]
<1>1. s \in Numbers /\ t \in Numbers
  BY SortedBasisNumbers DEF Activation
<1>2. Greater(a, b) <=> \/ Longer(s, t)
                        \/ SameItems(s, t) /\ Len(s) = Len(t) /\ ComplexityOf(a) > ComplexityOf(b)
  BY DEF Greater, Longer
<1>. HIDE DEF s, t
<1>3. SameItems(s, t) /\ Len(s) = Len(t) <=> ~Longer(s, t) /\ ~Longer(t, s)
  <2>1. Len(s) \in Nat /\ Len(t) \in Nat
    BY <1>1, NumbersDomain
  <2>2. ASSUME SameItems(s, t), Len(s) = Len(t) PROVE ~Longer(s, t) /\ ~Longer(t, s)
    <3>1. ASSUME NEW k \in DOMAIN s \intersect DOMAIN t PROVE s[k] \in Nat /\ s[k] = t[k]
      BY <1>1, <2>2, NumbersDomain DEF SameItems
    <3>2. ~FirstGreater(s, t) /\ ~FirstGreater(t, s)
      BY <3>1 DEF FirstGreater
    <3>. QED BY <2>1, <2>2, <3>2 DEF Longer
  <2>3. ASSUME ~Longer(s, t), ~Longer(t, s) PROVE SameItems(s, t) /\ Len(s) = Len(t)
    <3>1. SameItems(s, t)
      BY <1>1, <2>3, FirstDifference DEF Longer
    <3>2. SameItems(t, s)
      BY <3>1 DEF SameItems
    <3>. QED BY <2>1, <2>3, <3>1, <3>2 DEF Longer
  <2>. QED BY <2>2, <2>3
<1>4. Greater(a, b) <=> \/ Longer(s, t)
                        \/ ~Longer(s, t) /\ ~Longer(t, s) /\ ComplexityOf(a) > ComplexityOf(b)
  BY <1>2, <1>3
<1>. QED BY <1>1, <1>4 DEF s, t

LEMMA GreaterAsymmetric ==
  ASSUME NEW a \in Activation, NEW b \in Activation, Greater(a, b)
  PROVE  ~Greater(b, a)
<1>. DEFINE s == SortedBasis[a.basis]
<1>. DEFINE t == SortedBasis[b.basis]
<1>1. s \in Numbers /\ t \in Numbers
  BY SortedBasisNumbers DEF Activation
<1>2. Greater(a, b) <=> \/ Longer(s, t)
                        \/ ~Longer(s, t) /\ ~Longer(t, s) /\ ComplexityOf(a) > ComplexityOf(b)
  BY GreaterLonger
<1>3. Greater(b, a) <=> \/ Longer(t, s)
                        \/ ~Longer(t, s) /\ ~Longer(s, t) /\ ComplexityOf(b) > ComplexityOf(a)
  BY GreaterLonger
<1>4. ComplexityOf(a) \in Nat /\ ComplexityOf(b) \in Nat
  BY ComplexityNumber
<1>. HIDE DEF s, t
<1>5. Longer(s, t) => ~Longer(t, s)
  BY <1>1, LongerAsymmetric
<1>6. ~ (ComplexityOf(a) > ComplexityOf(b) /\ ComplexityOf(b) > ComplexityOf(a))
  BY <1>4
<1>. QED BY <1>2, <1>3, <1>5, <1>6

LEMMA GreaterSplits ==
  ASSUME NEW a \in Activation, NEW b \in Activation, NEW c \in Activation, Greater(a, c)
  PROVE  Greater(a, b) \/ Greater(b, c)
<1>. DEFINE s == SortedBasis[a.basis]
<1>. DEFINE t == SortedBasis[b.basis]
<1>. DEFINE u == SortedBasis[c.basis]
<1>1. s \in Numbers /\ t \in Numbers /\ u \in Numbers
  BY SortedBasisNumbers DEF Activation
<1>2. Greater(a, b) <=> \/ Longer(s, t)
                        \/ ~Longer(s, t) /\ ~Longer(t, s) /\ ComplexityOf(a) > ComplexityOf(b)
  BY GreaterLonger
<1>3. Greater(b, c) <=> \/ Longer(t, u)
                        \/ ~Longer(t, u) /\ ~Longer(u, t) /\ ComplexityOf(b) > ComplexityOf(c)
  BY GreaterLonger
<1>4. Greater(a, c) <=> \/ Longer(s, u)
                        \/ ~Longer(s, u) /\ ~Longer(u, s) /\ ComplexityOf(a) > ComplexityOf(c)
  BY GreaterLonger
<1>5. ComplexityOf(a) \in Nat /\ ComplexityOf(b) \in Nat /\ ComplexityOf(c) \in Nat
  BY ComplexityNumber
<1>. HIDE DEF s, t, u
<1>6. Longer(s, u) => Longer(s, t) \/ Longer(t, u)
  BY <1>1, LongerSplits
<1>7. Longer(t, s) => Longer(t, u) \/ Longer(u, s)
  BY <1>1, LongerSplits
<1>8. Longer(u, t) => Longer(u, s) \/ Longer(s, t)
  BY <1>1, LongerSplits
<1>9. ComplexityOf(a) > ComplexityOf(c) =>
        ComplexityOf(a) > ComplexityOf(b) \/ ComplexityOf(b) > ComplexityOf(c)
  BY <1>5
<1>. QED BY <1>2, <1>3, <1>4, <1>6, <1>7, <1>8, <1>9

(* What a strategy prefers is a strict weak order.                         *)
LEMMA PreferredAsymmetric ==
  ASSUME NEW st \in Strategies, NEW a \in Activation, NEW b \in Activation, Preferred(st, a, b)
  PROVE  ~Preferred(st, b, a)
<1>1. /\ a.timetag \in Nat /\ b.timetag \in Nat /\ a.random \in Int /\ b.random \in Int
      /\ ComplexityOf(a) \in Nat /\ ComplexityOf(b) \in Nat
      /\ FirstItem(a) \in Nat /\ FirstItem(b) \in Nat
  BY ComplexityNumber, FirstItemNumber, NumbersAssumption DEF Activation
<1>2. Greater(a, b) => ~Greater(b, a)
  BY GreaterAsymmetric
<1>3. CASE st = "lex"
  BY <1>2, <1>3 DEF Preferred
<1>4. CASE st = "mea"
  BY <1>1, <1>2, <1>4 DEF Preferred
<1>5. CASE st \notin {"lex", "mea"}
  BY <1>1, <1>5 DEF Preferred
<1>. QED BY <1>3, <1>4, <1>5

LEMMA PreferredSplits ==
  ASSUME NEW st \in Strategies, NEW a \in Activation, NEW b \in Activation,
         NEW c \in Activation, Preferred(st, a, c)
  PROVE  Preferred(st, a, b) \/ Preferred(st, b, c)
<1>1. /\ a.timetag \in Nat /\ b.timetag \in Nat /\ c.timetag \in Nat
      /\ a.random \in Int /\ b.random \in Int /\ c.random \in Int
      /\ ComplexityOf(a) \in Nat /\ ComplexityOf(b) \in Nat /\ ComplexityOf(c) \in Nat
      /\ FirstItem(a) \in Nat /\ FirstItem(b) \in Nat /\ FirstItem(c) \in Nat
  BY ComplexityNumber, FirstItemNumber, NumbersAssumption DEF Activation
<1>2. Greater(a, c) => Greater(a, b) \/ Greater(b, c)
  BY GreaterSplits
<1>3. CASE st = "lex"
  BY <1>2, <1>3 DEF Preferred
<1>4. CASE st = "mea"
  BY <1>1, <1>2, <1>4 DEF Preferred
<1>5. CASE st \notin {"lex", "mea"}
  BY <1>1, <1>5 DEF Preferred
<1>. QED BY <1>3, <1>4, <1>5

(* Of two activations of different age one stays ahead of the other, ...   *)
LEMMA StaysAheadTotal ==
  ASSUME NEW st \in Strategies, NEW a \in Activation, NEW b \in Activation,
         a.timetag # b.timetag, ~StaysAhead(st, a, b)
  PROVE  StaysAhead(st, b, a)
<1>1. a.salience \in Int /\ b.salience \in Int /\ a.timetag \in Nat /\ b.timetag \in Nat
  BY NumbersAssumption DEF Activation
<1>. QED BY <1>1, PreferredAsymmetric DEF StaysAhead

(* ... which is an order.                                                  *)
LEMMA StaysAheadTransitive ==
  ASSUME NEW st \in Strategies, NEW a \in Activation, NEW b \in Activation,
         NEW c \in Activation, StaysAhead(st, a, b), StaysAhead(st, b, c)
  PROVE  StaysAhead(st, a, c)
<1>1. /\ a.salience \in Int /\ b.salience \in Int /\ c.salience \in Int
      /\ a.timetag \in Nat /\ b.timetag \in Nat /\ c.timetag \in Nat
  BY NumbersAssumption DEF Activation
<1>2. CASE a.salience = b.salience /\ b.salience = c.salience
  <2>. DEFINE P(x, y) == Preferred(st, x, y)
  <2>1. P(a, b) \/ (~P(b, a) /\ a.timetag < b.timetag)
    BY <1>1, <1>2 DEF StaysAhead
  <2>2. P(b, c) \/ (~P(c, b) /\ b.timetag < c.timetag)
    BY <1>1, <1>2 DEF StaysAhead
  <2>3. /\ P(a, b) => P(a, c) \/ P(c, b)
        /\ P(b, c) => P(b, a) \/ P(a, c)
        /\ P(c, a) => P(c, b) \/ P(b, a)
    BY PreferredSplits
  <2>4. /\ P(a, b) => ~P(b, a)
        /\ P(b, c) => ~P(c, b)
    BY PreferredAsymmetric
  <2>. HIDE DEF P
  <2>5. P(a, c) \/ (~P(c, a) /\ a.timetag < c.timetag)
    BY <1>1, <2>1, <2>2, <2>3, <2>4
  <2>. QED BY <1>2, <2>5 DEF StaysAhead, P
<1>3. CASE a.salience > c.salience
  BY <1>3 DEF StaysAhead
<1>. QED BY <1>1, <1>2, <1>3 DEF StaysAhead

------------------------------------------------------------------------------
(* The list.                                                               *)

DifferentAges(q) == \A i, j \in DOMAIN q : q[i].timetag = q[j].timetag => i = j

LEMMA ActivationsDomain ==
  ASSUME NEW q \in Seq(Activation)
  PROVE  /\ Len(q) \in Nat /\ DOMAIN q = 1..Len(q)
         /\ \A k \in 1..Len(q) : k \in Nat /\ k > 0 /\ q[k] \in Activation
OBVIOUS

(* The search for a place ends, behind all that stays ahead.               *)
LEMMA PlaceFound ==
  ASSUME NEW st, NEW q \in Seq(Activation), NEW a
  PROVE  LET n == PlaceOf(st, q, a)
         IN  /\ n \in 1..(Len(q) + 1)
             /\ n <= Len(q) => ~StaysAhead(st, q[n], a)
             /\ \A k \in 1..(n - 1) : StaysAhead(st, q[k], a)
<1>. DEFINE L == Len(q)
<1>. DEFINE Ahead(k) == StaysAhead(st, q[k], a)
<1>. DEFINE Stops == { n \in 1..(L + 1) : n <= L => ~Ahead(n) }
<1>1. L \in Nat
  OBVIOUS
<1>. HIDE DEF L, Ahead
<1>2. Stops \in SUBSET Nat /\ L + 1 \in Stops
  BY <1>1
<1>3. PICK n \in Stops : \A m \in Stops : n <= m
  BY <1>2, LeastElement
<1>4. \A k \in 1..(n - 1) : Ahead(k)
  <2>. SUFFICES ASSUME NEW k \in 1..(n - 1) PROVE Ahead(k)
    OBVIOUS
  <2>1. k \in 1..(L + 1) /\ k < n /\ k <= L
    BY <1>1, <1>3
  <2>2. k \notin Stops
    <3>. HIDE DEF Stops
    <3>. QED BY <1>1, <1>2, <1>3, <2>1
  <2>. QED BY <2>1, <2>2
<1>5. n \in 1..(L + 1) /\ (n <= L => ~Ahead(n))
  OBVIOUS
<1>. DEFINE Found(m) == /\ m <= L => ~Ahead(m)
                        /\ \A k \in 1..(m - 1) : Ahead(k)
<1>6. PlaceOf(st, q, a) = CHOOSE m \in 1..(L + 1) : Found(m)
  BY DEF PlaceOf, L, Ahead
<1>7. Found(n)
  BY <1>4, <1>5
<1>. HIDE DEF Found
<1>8. PlaceOf(st, q, a) \in 1..(L + 1) /\ Found(PlaceOf(st, q, a))
  BY <1>5, <1>6, <1>7
<1>. QED BY <1>8 DEF Found, L, Ahead

LEMMA Inserted ==
  ASSUME NEW q \in Seq(Activation), NEW a \in Activation, NEW n \in 1..(Len(q) + 1)
  PROVE  LET r == InsertAt(q, n, a)
         IN  /\ r \in Seq(Activation) /\ Len(r) = Len(q) + 1
             /\ \A k \in 1..(n - 1) : r[k] = q[k]
             /\ r[n] = a
             /\ \A k \in (n + 1)..(Len(q) + 1) : r[k] = q[k - 1]
<1>. DEFINE L == Len(q)
<1>. DEFINE r == InsertAt(q, n, a)
<1>1. L \in Nat /\ \A k \in 1..L : q[k] \in Activation
  BY ActivationsDomain
<1>2. r = [k \in 1..(L + 1) |-> IF k < n THEN q[k] ELSE IF k = n THEN a ELSE q[k - 1]]
  BY DEF InsertAt
<1>3. n \in Nat /\ 1 <= n /\ n <= L + 1
  BY <1>1
<1>. HIDE DEF L, r
<1>4. \A k \in 1..(L + 1) : r[k] \in Activation
  <2>. SUFFICES ASSUME NEW k \in 1..(L + 1) PROVE r[k] \in Activation
    OBVIOUS
  <2>1. CASE k < n
    BY <1>1, <1>2, <1>3, <2>1
  <2>2. CASE k = n
    BY <1>1, <1>2, <1>3, <2>2
  <2>3. CASE k > n
    <3>1. k - 1 \in 1..L
      BY <1>1, <1>3, <2>3
    <3>. QED BY <1>1, <1>2, <1>3, <2>3, <3>1
  <2>. QED BY <1>1, <1>3, <2>1, <2>2, <2>3
<1>5. r \in [1..(L + 1) -> Activation]
  BY <1>2, <1>4
<1>6. r \in Seq(Activation) /\ Len(r) = L + 1
  BY <1>1, <1>5
<1>7. /\ \A k \in 1..(n - 1) : r[k] = q[k]
      /\ r[n] = a
      /\ \A k \in (n + 1)..(L + 1) : r[k] = q[k - 1]
  BY <1>1, <1>2, <1>3
<1>. QED BY <1>6, <1>7 DEF L, r

(* Placing an activation adds it to the list and nothing else.             *)
LEMMA Placed ==
  ASSUME NEW st, NEW q \in Seq(Activation), NEW a \in Activation
  PROVE  LET r == PlaceActivation(st, q, a)
         IN  /\ r \in Seq(Activation) /\ r # <<>>
             /\ \A k \in DOMAIN r : r[k] = a \/ \E i \in DOMAIN q : r[k] = q[i]
<1>. DEFINE L == Len(q)
<1>. DEFINE n == PlaceOf(st, q, a)
<1>. DEFINE r == PlaceActivation(st, q, a)
<1>1. n \in 1..(L + 1)
  BY PlaceFound
<1>2. r = InsertAt(q, n, a)
  BY DEF PlaceActivation
<1>. HIDE DEF n, r
<1>3. /\ r \in Seq(Activation) /\ Len(r) = L + 1
      /\ \A k \in 1..(n - 1) : r[k] = q[k]
      /\ r[n] = a
      /\ \A k \in (n + 1)..(L + 1) : r[k] = q[k - 1]
  <2>1. \A m \in 1..(L + 1) : LET x == InsertAt(q, m, a)
                                IN  /\ x \in Seq(Activation) /\ Len(x) = L + 1
                                    /\ \A k \in 1..(m - 1) : x[k] = q[k]
                                    /\ x[m] = a
                                    /\ \A k \in (m + 1)..(L + 1) : x[k] = q[k - 1]
    BY Inserted
  <2>. HIDE DEF L
  <2>. QED BY <1>1, <1>2, <2>1
<1>4. L \in Nat /\ DOMAIN q = 1..L /\ DOMAIN r = 1..(L + 1)
  BY <1>3, ActivationsDomain
<1>. HIDE DEF L
<1>5. ASSUME NEW k \in DOMAIN r PROVE r[k] = a \/ \E i \in DOMAIN q : r[k] = q[i]
  <2>1. CASE k < n
    <3>1. k \in 1..(n - 1) /\ k \in DOMAIN q
      BY <1>1, <1>4, <2>1
    <3>. QED BY <1>3, <3>1
  <2>2. CASE k = n
    BY <1>3, <2>2
  <2>3. CASE k > n
    <3>1. k \in (n + 1)..(L + 1) /\ k - 1 \in DOMAIN q
      BY <1>1, <1>4, <2>3
    <3>. QED BY <1>3, <3>1
  <2>. QED BY <1>1, <1>4, <2>1, <2>2, <2>3
<1>6. r # <<>>
  <2>1. Len(r) # 0
    BY <1>3, <1>4
  <2>. QED BY <2>1
<1>. QED BY <1>3, <1>5, <1>6 DEF r

(* It keeps the ages different and the list in order.                      *)
THEOREM PlacedInOrder ==
  ASSUME NEW st \in Strategies, NEW q \in Seq(Activation), NEW a \in Activation,
         DifferentAges(q), \A k \in DOMAIN q : q[k].timetag # a.timetag,
         Sorted(st, q)
  PROVE  DifferentAges(PlaceActivation(st, q, a)) /\ Sorted(st, PlaceActivation(st, q, a))
<1>. DEFINE L == Len(q)
<1>. DEFINE n == PlaceOf(st, q, a)
<1>. DEFINE r == PlaceActivation(st, q, a)
<1>1. n \in 1..(L + 1)
  BY PlaceFound
<1>2. /\ n <= L => ~StaysAhead(st, q[n], a)
      /\ \A k \in 1..(n - 1) : StaysAhead(st, q[k], a)
  BY PlaceFound
<1>3. r = InsertAt(q, n, a)
  BY DEF PlaceActivation
<1>. HIDE DEF n, r
<1>4. /\ r \in Seq(Activation) /\ Len(r) = L + 1
      /\ \A k \in 1..(n - 1) : r[k] = q[k]
      /\ r[n] = a
      /\ \A k \in (n + 1)..(L + 1) : r[k] = q[k - 1]
  <2>1. \A m \in 1..(L + 1) : LET x == InsertAt(q, m, a)
                                IN  /\ x \in Seq(Activation) /\ Len(x) = L + 1
                                    /\ \A k \in 1..(m - 1) : x[k] = q[k]
                                    /\ x[m] = a
                                    /\ \A k \in (m + 1)..(L + 1) : x[k] = q[k - 1]
    BY Inserted
  <2>. HIDE DEF L
  <2>. QED BY <1>1, <1>3, <2>1
<1>5. /\ L \in Nat /\ DOMAIN q = 1..L /\ DOMAIN r = 1..(L + 1)
      /\ \A k \in 1..L : q[k] \in Activation
  BY <1>4, ActivationsDomain
<1>. HIDE DEF L
<1>6. n \in Nat /\ 1 <= n /\ n <= L + 1
  BY <1>1, <1>5
<1>7. \A i, j \in 1..L : i < j => StaysAhead(st, q[i], q[j])
  BY <1>5 DEF Sorted
<1>8. \A k \in n..L : StaysAhead(st, a, q[k])
  <2>. SUFFICES ASSUME NEW k \in n..L PROVE StaysAhead(st, a, q[k])
    OBVIOUS
  <2>1. n \in 1..L /\ k \in 1..L /\ (k = n \/ n < k)
    BY <1>5, <1>6
  <2>2. StaysAhead(st, a, q[n])
    BY <1>2, <1>5, <1>6, <2>1, StaysAheadTotal
  <2>. QED BY <1>5, <1>7, <2>1, <2>2, StaysAheadTransitive
<1>9. ASSUME NEW i \in DOMAIN r, NEW j \in DOMAIN r, i < j
      PROVE  StaysAhead(st, r[i], r[j]) /\ r[i].timetag # r[j].timetag
  <2>0. i \in Nat /\ j \in Nat /\ 1 <= i /\ j <= L + 1
    BY <1>5
  <2>1. CASE j < n
    <3>1. i \in 1..(n - 1) /\ j \in 1..(n - 1) /\ i \in 1..L /\ j \in 1..L /\ i # j
      BY <1>5, <1>6, <1>9, <2>0, <2>1
    <3>. QED BY <1>4, <1>5, <1>7, <1>9, <3>1 DEF DifferentAges
  <2>2. CASE j = n
    <3>1. i \in 1..(n - 1) /\ i \in 1..L
      BY <1>5, <1>6, <1>9, <2>0, <2>2
    <3>. QED BY <1>2, <1>4, <1>5, <2>2, <3>1
  <2>3. CASE i = n
    <3>1. j \in (n + 1)..(L + 1) /\ j - 1 \in n..L /\ j - 1 \in 1..L
      BY <1>5, <1>6, <1>9, <2>0, <2>3
    <3>. QED BY <1>4, <1>5, <1>8, <2>3, <3>1
  <2>4. CASE i < n /\ n < j
    <3>1. /\ i \in 1..(n - 1) /\ j \in (n + 1)..(L + 1) /\ i \in 1..L /\ j - 1 \in 1..L
          /\ i < j - 1 /\ i # j - 1
      BY <1>5, <1>6, <1>9, <2>0, <2>4
    <3>. QED BY <1>4, <1>5, <1>7, <3>1 DEF DifferentAges
  <2>5. CASE n < i
    <3>1. /\ i \in (n + 1)..(L + 1) /\ j \in (n + 1)..(L + 1) /\ i - 1 \in 1..L /\ j - 1 \in 1..L
          /\ i - 1 < j - 1 /\ i - 1 # j - 1
      BY <1>5, <1>6, <1>9, <2>0, <2>5
    <3>. QED BY <1>4, <1>5, <1>7, <3>1 DEF DifferentAges
  <2>. QED BY <1>6, <1>9, <2>0, <2>1, <2>2, <2>3, <2>4, <2>5
<1>10. \A i, j \in DOMAIN r : i # j => i < j \/ j < i
  BY <1>5
<1>11. DifferentAges(r)
  BY <1>9, <1>10 DEF DifferentAges
<1>. QED BY <1>9, <1>11 DEF Sorted, r

(* Taking an activation off the list keeps them, too.                      *)
LEMMA DroppedInOrder ==
  ASSUME NEW st, NEW q \in Seq(Activation), NEW n \in DOMAIN q, DifferentAges(q)
  PROVE  LET r == DropAt(q, n)
         IN  /\ r \in Seq(Activation)
             /\ \A k \in DOMAIN r : \E i \in DOMAIN q : r[k] = q[i]
             /\ DifferentAges(r)
             /\ Sorted(st, q) => Sorted(st, r)
<1>. DEFINE L == Len(q)
<1>. DEFINE r == DropAt(q, n)
<1>1. L \in Nat /\ DOMAIN q = 1..L /\ \A k \in 1..L : q[k] \in Activation
  BY ActivationsDomain
<1>2. r = [k \in 1..(L - 1) |-> IF k < n THEN q[k] ELSE q[k + 1]]
  BY DEF DropAt
<1>. HIDE DEF L, r
<1>3. n \in Nat /\ 1 <= n /\ n <= L /\ L - 1 \in Nat
  BY <1>1
<1>. DEFINE Old(k) == IF k < n THEN k ELSE k + 1
<1>4. DOMAIN r = 1..(L - 1)
  BY <1>2
<1>5. ASSUME NEW k \in DOMAIN r PROVE Old(k) \in DOMAIN q /\ r[k] = q[Old(k)]
  BY <1>1, <1>2, <1>3, <1>4
<1>6. r \in [1..(L - 1) -> Activation]
  BY <1>1, <1>2, <1>4, <1>5
<1>7. r \in Seq(Activation)
  BY <1>3, <1>6
<1>8. ASSUME NEW i \in DOMAIN r, NEW j \in DOMAIN r
      PROVE  (i < j => Old(i) < Old(j)) /\ (Old(i) = Old(j) => i = j)
  BY <1>3, <1>4
<1>. HIDE DEF Old
<1>9. DifferentAges(r)
  BY <1>5, <1>8 DEF DifferentAges
<1>10. Sorted(st, q) => Sorted(st, r)
  BY <1>5, <1>8 DEF Sorted
<1>11. \A k \in DOMAIN r : \E i \in DOMAIN q : r[k] = q[i]
  BY <1>5
<1>. QED BY <1>7, <1>9, <1>10, <1>11 DEF r

LEMMA TailInOrder ==
  ASSUME NEW st, NEW q \in Seq(Activation), q # <<>>, DifferentAges(q)
  PROVE  /\ Tail(q) \in Seq(Activation) /\ Head(q) \in Activation
         /\ \E i \in DOMAIN q : Head(q) = q[i]
         /\ \A k \in DOMAIN Tail(q) : \E i \in DOMAIN q : Tail(q)[k] = q[i]
         /\ \A k \in DOMAIN Tail(q) : Tail(q)[k].timetag # Head(q).timetag
         /\ DifferentAges(Tail(q))
         /\ Sorted(st, q) => Sorted(st, Tail(q))
<1>. DEFINE L == Len(q)
<1>. DEFINE r == Tail(q)
<1>1. L \in Nat /\ DOMAIN q = 1..L /\ L > 0 /\ \A k \in 1..L : q[k] \in Activation
  BY ActivationsDomain
<1>2. r \in Seq(Activation) /\ DOMAIN r = 1..(L - 1) /\ \A k \in 1..(L - 1) : r[k] = q[k + 1]
  OBVIOUS
<1>3. Head(q) = q[1] /\ 1 \in DOMAIN q
  BY <1>1
<1>. HIDE DEF L, r
<1>4. \A k \in DOMAIN r : k + 1 \in DOMAIN q /\ k + 1 # 1 /\ r[k] = q[k + 1]
  BY <1>1, <1>2
<1>5. \A i, j \in DOMAIN r : (i < j => i + 1 < j + 1) /\ (i + 1 = j + 1 => i = j)
  BY <1>1, <1>2
<1>6. DifferentAges(r)
  BY <1>4, <1>5 DEF DifferentAges
<1>7. Sorted(st, q) => Sorted(st, r)
  BY <1>4, <1>5 DEF Sorted
<1>8. \A k \in DOMAIN r : r[k].timetag # q[1].timetag
  BY <1>3, <1>4 DEF DifferentAges
<1>. QED BY <1>1, <1>2, <1>3, <1>4, <1>6, <1>7, <1>8 DEF r

------------------------------------------------------------------------------
(* The engine.                                                             *)

Older(q, t) == \A n \in DOMAIN q : q[n].timetag < t

(* Which loop is under way.                                                *)
Control ==
  /\ pc = "test" => left = <<>> /\ toActivate = {}
  /\ pc = "test" /\ focus # <<>> => agenda[Head(focus)] # <<>>
  /\ toActivate # {} => left = <<>>
  /\ left = <<>> => ~taken
  /\ ~taken => unplaced = <<>>

(* No two activations of a list are of the same age, and the next one is   *)
(* younger than all of them.                                               *)
Ages ==
  /\ \A m \in Modules : DifferentAges(agenda[m]) /\ Older(agenda[m], timetag)
  /\ DifferentAges(unplaced) /\ Older(unplaced, timetag)
  /\ taken => \A n \in DOMAIN agenda[Head(left)], k \in DOMAIN unplaced :
                agenda[Head(left)][n].timetag # unplaced[k].timetag

(* What was refreshed so far has the current salience.                     *)
Current(a) == RuleOf[a.basis] \in Dynamic => a.salience = global
CurrentSoFar ==
  refreshing /\ taken =>
    /\ \A n \in DOMAIN agenda[Head(left)] : Current(agenda[Head(left)][n])
    /\ \A n \in DOMAIN unplaced : Current(unplaced[n])

(* After the first rule of a run, none with a breakpoint is next.          *)
NoBreakNext ==
  pc = "test" /\ rulesFired # 0 /\ ~halted /\ focus # <<>> =>
    RuleOf[Head(agenda[Head(focus)]).basis] \notin breaks

IInv == TypeOK /\ Control /\ Ages /\ AgendaSorted /\ CurrentSoFar /\ NoBreakNext

------------------------------------------------------------------------------
LEMMA NewActivation ==
  ASSUME TypeOK, NEW m \in Matches, NEW id \in RandomIDs
  PROVE  [basis |-> m, salience |-> EvaluateSalience(RuleOf[m]),
          timetag |-> timetag, random |-> id] \in Activation
<1>1. RuleOf[m] \in Rules
  BY MatchesAssumption
<1>2. EvaluateSalience(RuleOf[m]) \in Saliences
  BY <1>1 DEF TypeOK, EvaluateSalience
<1>. QED BY <1>2 DEF Activation, TypeOK

LEMMA RefreshedActivation ==
  ASSUME TypeOK, NEW a \in Activation
  PROVE  /\ Refreshed(a) \in Activation /\ Refreshed(a).timetag = a.timetag
         /\ Refreshed(a).basis = a.basis
         /\ RuleOf[a.basis] \in Dynamic => Refreshed(a).salience = global
<1>1. RuleOf[a.basis] \in Rules
  BY MatchesAssumption DEF Activation
<1>. QED BY <1>1 DEF TypeOK, Refreshed, Activation

LEMMA FocusSeq ==
  ASSUME NEW f \in Seq(Modules), NEW m \in Modules
  PROVE  Focus(f, m) \in Seq(Modules)
BY DEF Focus

(* Run() looks at the first module of the focus stack with an activation.  *)
LEMMA FocusFound ==
  ASSUME TypeOK, NEW f \in Seq(Modules)
  PROVE  /\ FocusToFire(f) \in Seq(Modules)
         /\ FocusToFire(f) # <<>> => agenda[Head(FocusToFire(f))] # <<>>
<1>. DEFINE g == IF f = <<>> THEN <<Main>> ELSE f
<1>. DEFINE stops == { n \in DOMAIN g : agenda[g[n]] # <<>> }
<1>1. g \in Seq(Modules)
  BY ModuleListAssumption
<1>2. FocusToFire(f) = IF stops = {} THEN <<>>
                       ELSE SubSeq(g, CHOOSE n \in stops : \A k \in stops : n <= k, Len(g))
  BY DEF FocusToFire
<1>3. CASE stops = {}
  BY <1>2, <1>3
<1>4. CASE stops # {}
  <2>. DEFINE n == CHOOSE n \in stops : \A k \in stops : n <= k
  <2>1. stops \in SUBSET Nat
    BY <1>1
  <2>2. n \in stops
    <3>. HIDE DEF stops
    <3>. QED BY <2>1, <1>4, LeastElement
  <2>3. n \in 1..Len(g) /\ agenda[g[n]] # <<>>
    <3>. HIDE DEF g, n
    <3>. QED BY <1>1, <2>2
  <2>4. FocusToFire(f) = SubSeq(g, n, Len(g))
    BY <1>2, <1>4
  <2>. HIDE DEF g, n, stops
  <2>5. SubSeq(g, n, Len(g)) \in Seq(Modules) /\ Head(SubSeq(g, n, Len(g))) = g[n]
    BY <1>1, <2>3
  <2>. QED BY <2>3, <2>4, <2>5
<1>. QED BY <1>3, <1>4

LEMMA InitInv == Init => IInv
<1>. SUFFICES ASSUME Init PROVE IInv
  OBVIOUS
<1>1. TypeOK
  <2>1. agenda \in [Modules -> Seq(Activation)] /\ unplaced \in Seq(Activation)
    BY DEF Init
  <2>2. focus \in Seq(Modules) /\ left \in Seq(Modules)
    BY ModuleListAssumption DEF Init
  <2>3. global \in Saliences /\ ruleSalience \in [Rules -> Saliences]
    BY RuleSetsAssumption DEF Init
  <2>4. strategy \in Strategies /\ {evaluation, asked, saved} \subseteq Evaluations
    BY DEF Init, Strategies, Evaluations
  <2>5. {halted, returned, refreshing, taken} \subseteq BOOLEAN
    BY DEF Init
  <2>6. /\ executing \in Activation \union {NoActivation}
        /\ matches \subseteq Matches /\ toActivate \subseteq matches
        /\ timetag \in Nat /\ number \in Int /\ runLimit \in Int /\ rulesFired \in Nat
        /\ actions \in Nat /\ changes \in Nat /\ breaks \subseteq Rules
        /\ pc \in {"idle", "test", "rhs", "next"}
    BY DEF Init
  <2>. QED BY <2>1, <2>2, <2>3, <2>4, <2>5, <2>6 DEF TypeOK
<1>2. Control /\ CurrentSoFar /\ NoBreakNext
  BY DEF Init, Control, CurrentSoFar, NoBreakNext
<1>3. Ages /\ AgendaSorted
  BY DEF Init, Ages, AgendaSorted, DifferentAges, Older, Sorted
<1>. QED BY <1>1, <1>2, <1>3 DEF IInv

(* What a step that leaves the lists alone keeps.                          *)
LEMMA ListsKept ==
  ASSUME IInv, UNCHANGED <<agenda, timetag, strategy, left, taken, unplaced>>
  PROVE  Ages' /\ AgendaSorted'
BY DEF IInv, Ages, AgendaSorted, Settled, DifferentAges, Older, Sorted

------------------------------------------------------------------------------
(* An activation is added while no loop over the agendas is under way.     *)
LEMMA ActivationAdded ==
  ASSUME IInv, left = <<>>, NEW m \in Matches, NEW id \in RandomIDs, AddActivation(m, id),
         UNCHANGED <<strategy, loopVars>>
  PROVE  /\ agenda' \in [Modules -> Seq(Activation)] /\ timetag' \in Nat /\ number' \in Int
         /\ ruleSalience' \in [Rules -> Saliences] /\ focus' \in Seq(Modules)
         /\ Ages' /\ AgendaSorted'
<1>. DEFINE r == RuleOf[m]
<1>. DEFINE mod == ModuleOf[r]
<1>. DEFINE new == [basis |-> m, salience |-> EvaluateSalience(r),
                    timetag |-> timetag, random |-> id]
<1>0. /\ TypeOK /\ Ages /\ AgendaSorted /\ ~taken /\ unplaced = <<>>
      /\ agenda \in [Modules -> Seq(Activation)] /\ timetag \in Nat /\ strategy \in Strategies
  BY DEF IInv, Control, TypeOK
<1>1. r \in Rules /\ mod \in Modules
  BY MatchesAssumption, RulesAssumption
<1>2. new \in Activation /\ new.timetag = timetag /\ EvaluateSalience(r) \in Saliences
  <2>1. new \in Activation
    BY <1>0, NewActivation
  <2>2. EvaluateSalience(r) \in Saliences
    BY <1>0, <1>1 DEF TypeOK, EvaluateSalience
  <2>. QED BY <2>1, <2>2
<1>3. /\ timetag' = timetag + 1 /\ number' = number + 1
      /\ agenda' = [agenda EXCEPT ![mod] = PlaceActivation(strategy, @, new)]
      /\ ruleSalience' = [ruleSalience EXCEPT ![r] = EvaluateSalience(r)]
      /\ focus' = IF r \in AutoFocus THEN Focus(focus, mod) ELSE focus
  BY DEF AddActivation
<1>. HIDE DEF new
<1>4. focus' \in Seq(Modules)
  BY <1>0, <1>1, <1>3, FocusSeq DEF TypeOK
<1>5. timetag' \in Nat /\ number' \in Int /\ ruleSalience' \in [Rules -> Saliences]
  <2>1. number \in Int /\ ruleSalience \in [Rules -> Saliences]
    BY <1>0 DEF TypeOK
  <2>. QED BY <2>1, <1>0, <1>1, <1>2, <1>3
<1>. DEFINE q == agenda[mod]
<1>. DEFINE p == PlaceActivation(strategy, q, new)
<1>6. q \in Seq(Activation) /\ DifferentAges(q) /\ Older(q, timetag) /\ Sorted(strategy, q)
  BY <1>0, <1>1 DEF Ages, AgendaSorted, Settled
<1>7. \A k \in DOMAIN q : q[k].timetag # new.timetag
  BY <1>0, <1>2, <1>6 DEF Older
<1>8. DifferentAges(p) /\ Sorted(strategy, p)
  BY <1>0, <1>2, <1>6, <1>7, PlacedInOrder
<1>9. p \in Seq(Activation) /\ \A k \in DOMAIN p : p[k] = new \/ \E i \in DOMAIN q : p[k] = q[i]
  BY <1>2, <1>6, Placed
<1>10. Older(p, timetag')
  <2>. SUFFICES ASSUME NEW k \in DOMAIN p PROVE p[k].timetag < timetag'
    BY DEF Older
  <2>1. p[k] = new \/ \E i \in DOMAIN q : p[k] = q[i]
    BY <1>9
  <2>. HIDE DEF p, q
  <2>2. CASE p[k] = new
    BY <2>2, <1>0, <1>2, <1>3
  <2>3. CASE \E i \in DOMAIN q : p[k] = q[i]
    <3>. PICK i \in DOMAIN q : p[k] = q[i]
      BY <2>3
    <3>1. q[i] \in Activation /\ q[i].timetag \in Nat /\ q[i].timetag < timetag
      BY <1>6, ActivationsDomain DEF Older, Activation
    <3>. QED BY <3>1, <1>0, <1>3
  <2>. QED BY <2>1, <2>2, <2>3
<1>11. agenda'[mod] = p /\ \A d \in Modules : d # mod => agenda'[d] = agenda[d]
  BY <1>0, <1>1, <1>3
<1>. HIDE DEF p, q, mod
<1>12. agenda' \in [Modules -> Seq(Activation)]
  BY <1>0, <1>3, <1>9, <1>11 DEF p, q
<1>13. ASSUME NEW d \in Modules
       PROVE  DifferentAges(agenda'[d]) /\ Older(agenda'[d], timetag') /\ Sorted(strategy, agenda'[d])
  <2>1. CASE d = mod
    BY <1>8, <1>10, <1>11, <2>1
  <2>2. CASE d # mod
    <3>1. /\ agenda'[d] = agenda[d] /\ DifferentAges(agenda[d]) /\ Older(agenda[d], timetag)
          /\ Sorted(strategy, agenda[d]) /\ agenda[d] \in Seq(Activation)
      BY <1>0, <1>11, <2>2 DEF Ages, AgendaSorted, Settled
    <3>2. ASSUME NEW n \in DOMAIN agenda[d] PROVE agenda[d][n].timetag < timetag'
      <4>1. agenda[d][n] \in Activation
        BY <3>1, ActivationsDomain
      <4>2. agenda[d][n].timetag \in Nat
        BY <4>1 DEF Activation
      <4>. QED BY <4>2, <3>1, <1>0, <1>3 DEF Older
    <3>. QED BY <3>1, <3>2 DEF Older
  <2>. QED BY <2>1, <2>2
<1>14. Ages'
  <2>1. unplaced' = <<>> /\ taken' = FALSE
    BY <1>0 DEF loopVars, TypeOK
  <2>2. (DifferentAges(unplaced) /\ Older(unplaced, timetag))'
    BY <2>1 DEF DifferentAges, Older
  <2>. QED BY <1>13, <2>1, <2>2 DEF Ages, DifferentAges, Older
<1>15. AgendaSorted'
  BY <1>13 DEF AgendaSorted
<1>. QED BY <1>4, <1>5, <1>12, <1>14, <1>15
LEMMA DuringCommand ==
  ASSUME IInv, Command
  PROVE  /\ left = <<>> /\ ~taken /\ unplaced = <<>> /\ toActivate = {}
         /\ pc \in {"idle", "rhs"} /\ actions' \in Nat
<1>1. left = <<>> /\ toActivate = {} /\ pc \in {"idle", "rhs"}
  BY DEF Command, Free
<1>2. ~taken /\ unplaced = <<>>
  BY <1>1 DEF IInv, Control
<1>3. actions \in Nat
  BY DEF IInv, TypeOK
<1>. QED BY <1>1, <1>2, <1>3 DEF Command

(* A command keeps the rest of the invariant.                              *)
LEMMA ControlKept ==
  ASSUME IInv, Command, UNCHANGED <<pc, left, taken, unplaced, toActivate>>
  PROVE  Control' /\ CurrentSoFar' /\ NoBreakNext'
<1>1. /\ left' = <<>> /\ ~taken' /\ unplaced' = <<>> /\ toActivate' = {} /\ pc' # "test"
  BY DuringCommand
<1>. QED BY <1>1 DEF Control, CurrentSoFar, NoBreakNext

LEMMA MatchAppearsKeeps ==
  ASSUME IInv, NEW m \in Matches, NEW id \in RandomIDs, MatchAppears(m, id)
  PROVE  IInv'
<1>1. Command /\ left = <<>> /\ toActivate = {} /\ actions' \in Nat
  BY DuringCommand DEF MatchAppears
<1>2. AddActivation(m, id) /\ UNCHANGED <<strategy, loopVars>>
  BY DEF MatchAppears, settings
<1>3. /\ agenda' \in [Modules -> Seq(Activation)] /\ timetag' \in Nat /\ number' \in Int
      /\ ruleSalience' \in [Rules -> Saliences] /\ focus' \in Seq(Modules)
      /\ Ages' /\ AgendaSorted'
  BY <1>1, <1>2, ActivationAdded
<1>4. TypeOK'
  BY <1>1, <1>3 DEF IInv, TypeOK, MatchAppears, settings, runVars, flags, loopVars
<1>5. Control' /\ CurrentSoFar' /\ NoBreakNext'
  BY <1>1, ControlKept DEF MatchAppears, runVars, loopVars
<1>. QED BY <1>3, <1>4, <1>5 DEF IInv

LEMMA MatchIsGoneKeeps ==
  ASSUME IInv, NEW m \in Matches, MatchIsGone(m)
  PROVE  IInv'
<1>. DEFINE mod == ModuleOf[RuleOf[m]]
<1>1. Command /\ left = <<>> /\ ~taken /\ unplaced = <<>> /\ toActivate = {} /\ actions' \in Nat
  BY DuringCommand DEF MatchIsGone
<1>2. /\ UNCHANGED <<settings, timetag, salienceVars, focus, runVars, flags, loopVars, toActivate>>
      /\ matches' = matches \ {m}
  BY DEF MatchIsGone
<1>3. mod \in Modules /\ TypeOK /\ Ages /\ AgendaSorted
  BY MatchesAssumption, RulesAssumption DEF IInv
<1>4. Control' /\ CurrentSoFar' /\ NoBreakNext'
  BY <1>1, <1>2, ControlKept DEF runVars, loopVars
<1>5. CASE UNCHANGED <<agenda, number>>
  <2>1. TypeOK'
    BY <1>1, <1>2, <1>3, <1>5 DEF TypeOK, settings, salienceVars, runVars, flags, loopVars
  <2>2. Ages' /\ AgendaSorted'
    BY <1>2, <1>5, ListsKept DEF settings, loopVars
  <2>. QED BY <1>4, <2>1, <2>2 DEF IInv
<1>6. CASE \E n \in Listed(m) : /\ agenda' = [agenda EXCEPT ![mod] = DropAt(@, n)]
                                /\ number' = number - 1
  <2>. PICK n \in Listed(m) : /\ agenda' = [agenda EXCEPT ![mod] = DropAt(@, n)]
                              /\ number' = number - 1
    BY <1>6
  <2>. DEFINE q == agenda[mod]
  <2>. DEFINE p == DropAt(q, n)
  <2>1. q \in Seq(Activation) /\ n \in DOMAIN q /\ DifferentAges(q) /\ Older(q, timetag)
        /\ Sorted(strategy, q) /\ agenda \in [Modules -> Seq(Activation)]
    BY <1>1, <1>3 DEF TypeOK, Listed, Ages, AgendaSorted, Settled
  <2>2. p \in Seq(Activation) /\ DifferentAges(p) /\ Sorted(strategy, p)
        /\ \A k \in DOMAIN p : \E i \in DOMAIN q : p[k] = q[i]
    BY <2>1, DroppedInOrder
  <2>3. Older(p, timetag)
    BY <2>1, <2>2 DEF Older
  <2>4. agenda'[mod] = p /\ \A d \in Modules : d # mod => agenda'[d] = agenda[d]
    BY <1>3, <2>1
  <2>5. agenda' \in [Modules -> Seq(Activation)] /\ number' \in Int
    <3>. HIDE DEF p, q, mod
    <3>1. number \in Int
      BY <1>3 DEF TypeOK
    <3>. QED BY <3>1, <1>3, <2>1, <2>2 DEF p, q
  <2>. HIDE DEF p, q, mod
  <2>6. ASSUME NEW d \in Modules
        PROVE  DifferentAges(agenda'[d]) /\ Older(agenda'[d], timetag) /\ Sorted(strategy, agenda'[d])
    BY <1>1, <1>3, <2>2, <2>3, <2>4 DEF Ages, AgendaSorted, Settled
  <2>7. strategy' = strategy /\ timetag' = timetag /\ unplaced' = <<>> /\ ~taken'
    BY <1>1, <1>2 DEF settings, loopVars
  <2>8. Ages'
    BY <2>6, <2>7 DEF Ages, DifferentAges, Older
  <2>9. AgendaSorted'
    BY <2>6, <2>7 DEF AgendaSorted
  <2>10. TypeOK'
    BY <1>1, <1>2, <1>3, <2>5 DEF TypeOK, settings, salienceVars, runVars, flags, loopVars
  <2>. QED BY <1>4, <2>8, <2>9, <2>10 DEF IInv
<1>. QED BY <1>5, <1>6 DEF MatchIsGone

LEMMA RefreshKeeps ==
  ASSUME IInv, NEW r \in Rules, Refresh(r)
  PROVE  IInv'
<1>1. Command /\ left = <<>> /\ ~taken /\ unplaced = <<>> /\ pc # "test" /\ actions' \in Nat
  BY DuringCommand DEF Refresh
<1>2. toActivate' \subseteq matches
  BY DEF Refresh, Fired
<1>3. TypeOK'
  BY <1>1, <1>2 DEF IInv, TypeOK, Refresh, settings, listVars, salienceVars, runVars, flags, loopVars
<1>4. Ages' /\ AgendaSorted'
  BY ListsKept DEF Refresh, settings, listVars, loopVars
<1>5. Control' /\ CurrentSoFar' /\ NoBreakNext'
  BY <1>1 DEF Refresh, loopVars, runVars, Control, CurrentSoFar, NoBreakNext
<1>. QED BY <1>3, <1>4, <1>5 DEF IInv

LEMMA RefreshNextKeeps ==
  ASSUME IInv, NEW m \in Matches, NEW id \in RandomIDs, RefreshNext(m, id)
  PROVE  IInv'
<1>1. left = <<>> /\ ~taken /\ unplaced = <<>> /\ pc # "test"
  BY DEF IInv, Control, RefreshNext
<1>2. /\ UNCHANGED <<settings, evaluation, matches, runVars, flags, actions, loopVars>>
      /\ toActivate' = toActivate \ {m}
  BY DEF RefreshNext
<1>3. Control' /\ CurrentSoFar' /\ NoBreakNext'
  BY <1>1, <1>2 DEF loopVars, runVars, Control, CurrentSoFar, NoBreakNext
<1>4. CASE AddActivation(m, id)
  <2>1. /\ agenda' \in [Modules -> Seq(Activation)] /\ timetag' \in Nat /\ number' \in Int
        /\ ruleSalience' \in [Rules -> Saliences] /\ focus' \in Seq(Modules)
        /\ Ages' /\ AgendaSorted'
    BY <1>1, <1>2, <1>4, ActivationAdded DEF settings
  <2>2. TypeOK'
    BY <1>2, <2>1 DEF IInv, TypeOK, settings, runVars, flags, loopVars
  <2>. QED BY <1>3, <2>1, <2>2 DEF IInv
<1>5. CASE UNCHANGED <<listVars, ruleSalience, focus>>
  <2>1. TypeOK'
    BY <1>2, <1>5 DEF IInv, TypeOK, settings, listVars, runVars, flags, loopVars
  <2>2. Ages' /\ AgendaSorted'
    BY <1>2, <1>5, ListsKept DEF settings, listVars, loopVars
  <2>. QED BY <1>3, <2>1, <2>2 DEF IInv
<1>. QED BY <1>4, <1>5 DEF RefreshNext
LEMMA FocusKeeps ==
  ASSUME IInv, (\E m \in Modules : FocusCommand(m)) \/ FocusStackCommand
  PROVE  IInv'
<1>1. /\ Command
      /\ UNCHANGED <<settings, listVars, salienceVars, matches, runVars, flags, loopVars, toActivate>>
  BY DEF FocusCommand, FocusStackCommand
<1>2. actions' \in Nat /\ focus \in Seq(Modules) /\ Main \in Modules
  BY <1>1, DuringCommand, ModuleListAssumption DEF IInv, TypeOK
<1>3. focus' \in Seq(Modules)
  <2>1. CASE \E m \in Modules : FocusCommand(m)
    BY <1>2, <2>1, FocusSeq DEF FocusCommand
  <2>2. CASE FocusStackCommand
    <3>1. Pop(focus) \in Seq(Modules)
      BY <1>2 DEF Pop
    <3>2. Focus(<<>>, Main) \in Seq(Modules) /\ <<>> \in Seq(Modules)
      BY <1>2 DEF Focus
    <3>3. focus' = Pop(focus) \/ focus' = <<>> \/ focus' = Focus(<<>>, Main)
      BY <2>2 DEF FocusStackCommand
    <3>. QED BY <3>1, <3>2, <3>3
  <2>. QED BY <2>1, <2>2
<1>4. TypeOK'
  BY <1>1, <1>2, <1>3 DEF IInv, TypeOK, settings, listVars, salienceVars, runVars, flags, loopVars
<1>5. Ages' /\ AgendaSorted'
  BY <1>1, ListsKept DEF settings, listVars, loopVars
<1>6. Control' /\ CurrentSoFar' /\ NoBreakNext'
  BY <1>1, ControlKept DEF runVars, loopVars
<1>. QED BY <1>4, <1>5, <1>6 DEF IInv

LEMMA FlagKeeps ==
  ASSUME IInv, Halt \/ Return
  PROVE  IInv'
<1>1. /\ Command
      /\ UNCHANGED <<settings, listVars, salienceVars, matches, focus, runVars, loopVars, toActivate>>
  BY DEF Halt, Return
<1>2. actions' \in Nat
  BY <1>1, DuringCommand
<1>3. {halted', returned'} \subseteq BOOLEAN
  BY DEF IInv, TypeOK, Halt, Return
<1>4. TypeOK'
  BY <1>1, <1>2, <1>3 DEF IInv, TypeOK, settings, listVars, salienceVars, runVars, loopVars
<1>5. Ages' /\ AgendaSorted'
  BY <1>1, ListsKept DEF settings, listVars, loopVars
<1>6. Control' /\ CurrentSoFar' /\ NoBreakNext'
  BY <1>1, ControlKept DEF runVars, loopVars
<1>. QED BY <1>4, <1>5, <1>6 DEF IInv

LEMMA SettingKeeps ==
  ASSUME IInv, \/ \E r \in Breakable : Breakpoint(r)
               \/ \E v \in Saliences : BindGlobal(v)
               \/ \E e \in Evaluations : SetSalienceEvaluation(e)
  PROVE  IInv'
<1>1. /\ Command /\ changes' = changes + 1
      /\ UNCHANGED <<strategy, listVars, ruleSalience, matches, focus, runVars, flags,
                     loopVars, toActivate>>
  BY DEF Breakpoint, BindGlobal, SetSalienceEvaluation, Change, salienceVars
<1>2. actions' \in Nat /\ changes' \in Nat
  BY <1>1, DuringCommand DEF IInv, TypeOK
<1>3. /\ breaks' \subseteq Rules /\ global' \in Saliences
      /\ evaluation' \in Evaluations /\ asked' \in Evaluations
  BY RuleSetsAssumption DEF IInv, TypeOK, Breakpoint, BindGlobal, SetSalienceEvaluation, salienceVars
<1>4. TypeOK'
  BY <1>1, <1>2, <1>3 DEF IInv, TypeOK, listVars, runVars, flags, loopVars
<1>5. Ages' /\ AgendaSorted'
  BY <1>1, ListsKept DEF listVars, loopVars
<1>6. Control' /\ CurrentSoFar' /\ NoBreakNext'
  BY <1>1, ControlKept DEF runVars, loopVars
<1>. QED BY <1>4, <1>5, <1>6 DEF IInv

------------------------------------------------------------------------------
(* The loops over the agendas.                                             *)

LEMMA LoopStarts ==
  ASSUME IInv, \/ \E st \in TriedStrategies : SetStrategy(st)
               \/ \E m \in Modules : RefreshAgenda(m)
  PROVE  IInv'
<1>1. /\ Command
      /\ UNCHANGED <<asked, global, breaks, listVars, salienceVars, matches, focus,
                     runVars, flags, taken, unplaced, saved, toActivate>>
  BY DEF SetStrategy, RefreshAgenda, settings, Change
<1>2. left = <<>> /\ ~taken /\ unplaced = <<>> /\ toActivate = {} /\ pc # "test"
      /\ actions' \in Nat
  BY <1>1, DuringCommand
<1>3. /\ left' \in Seq(Modules) /\ changes' \in Nat /\ refreshing' \in BOOLEAN
      /\ strategy' \in Strategies
  <2>1. changes \in Nat /\ strategy \in Strategies
    BY DEF IInv, TypeOK
  <2>2. CASE \E st \in TriedStrategies : SetStrategy(st)
    <3>. PICK st \in TriedStrategies : SetStrategy(st)
      BY <2>2
    <3>1. left' = ModuleList /\ refreshing' = FALSE /\ strategy' = st /\ changes' = changes + 1
      BY DEF SetStrategy, Change
    <3>2. st \in Strategies /\ ModuleList \in Seq(Modules)
      BY ModuleListAssumption, RuleSetsAssumption
    <3>3. refreshing' \in BOOLEAN
      BY <3>1
    <3>4. left' \in Seq(Modules) /\ strategy' \in Strategies
      BY <3>1, <3>2
    <3>5. changes' \in Nat
      BY <2>1, <3>1
    <3>. QED BY <3>3, <3>4, <3>5
  <2>3. CASE \E m \in Modules : RefreshAgenda(m)
    <3>. PICK m \in Modules : RefreshAgenda(m)
      BY <2>3
    <3>1. left' = <<m>> /\ refreshing' = TRUE /\ strategy' = strategy /\ changes' = changes
      BY DEF RefreshAgenda, settings
    <3>. QED BY <2>1, <3>1
  <2>. QED BY <2>2, <2>3
<1>4. TypeOK'
  BY <1>1, <1>2, <1>3 DEF IInv, TypeOK, listVars, salienceVars, runVars, flags
<1>5. Ages'
  BY <1>1, <1>2 DEF IInv, Ages, DifferentAges, Older, listVars
<1>6. AgendaSorted'
  <2>1. CASE \E st \in TriedStrategies : SetStrategy(st)
    <3>1. \A m \in Modules : ~Settled(m)'
      <4>. SUFFICES ASSUME NEW m \in Modules PROVE ~Settled(m)'
        OBVIOUS
      <4>1. \E i \in DOMAIN ModuleList : ModuleList[i] = m
        BY ModuleListAssumption
      <4>. QED BY <4>1, <1>1, <1>2, <2>1 DEF Settled, SetStrategy
    <3>. QED BY <3>1 DEF AgendaSorted
  <2>2. CASE \E m \in Modules : RefreshAgenda(m)
    <3>1. strategy' = strategy /\ agenda' = agenda
      BY <2>2 DEF RefreshAgenda, settings, listVars
    <3>2. \A m \in Modules : Sorted(strategy, agenda[m])
      BY <1>2 DEF IInv, AgendaSorted, Settled
    <3>. QED BY <3>1, <3>2 DEF AgendaSorted, Sorted
  <2>. QED BY <2>1, <2>2
<1>7. Control' /\ CurrentSoFar' /\ NoBreakNext'
  BY <1>1, <1>2 DEF Control, CurrentSoFar, NoBreakNext, runVars
<1>. QED BY <1>4, <1>5, <1>6, <1>7 DEF IInv

LEMMA LeaveAgendaKeeps ==
  ASSUME IInv, LeaveAgenda
  PROVE  IInv'
<1>1. /\ left # <<>> /\ taken /\ unplaced = <<>> /\ left' = Tail(left) /\ taken' = FALSE
      /\ UNCHANGED <<settings, listVars, ruleSalience, matches, focus, runVars, flags,
                     actions, unplaced, toActivate>>
  BY DEF LeaveAgenda, NextModule
<1>2. pc # "test" /\ toActivate = {} /\ left \in Seq(Modules)
  BY <1>1 DEF IInv, Control, TypeOK
<1>3. /\ left' \in Seq(Modules) /\ evaluation' \in Evaluations /\ saved' \in Evaluations
      /\ refreshing' \in BOOLEAN
  <2>1. /\ evaluation \in Evaluations /\ saved \in Evaluations /\ refreshing \in BOOLEAN
        /\ "when-defined" \in Evaluations
    BY DEF IInv, TypeOK, Evaluations
  <2>2. left' \in Seq(Modules)
    BY <1>1, <1>2
  <2>. QED BY <2>1, <2>2 DEF LeaveAgenda
<1>4. TypeOK'
  BY <1>1, <1>3 DEF IInv, TypeOK, settings, listVars, runVars, flags
<1>5. Ages'
  BY <1>1 DEF IInv, Ages, DifferentAges, Older, listVars
<1>6. AgendaSorted'
  <2>. SUFFICES ASSUME NEW m \in Modules, Settled(m)' PROVE Sorted(strategy, agenda[m])
    BY <1>1 DEF AgendaSorted, Sorted, settings, listVars
  <2>1. \A n \in DOMAIN Tail(left) : Tail(left)[n] # m
    BY <1>1 DEF Settled
  <2>2. m # Head(left) => \A n \in DOMAIN left : left[n] # m
    <3>. SUFFICES ASSUME m # Head(left), NEW n \in DOMAIN left, left[n] = m PROVE FALSE
      OBVIOUS
    <3>1. n \in Nat /\ n > 1 /\ n <= Len(left)
      BY <1>1, <1>2
    <3>2. n - 1 \in DOMAIN Tail(left) /\ Tail(left)[n - 1] = left[n]
      BY <1>1, <1>2, <3>1
    <3>. QED BY <2>1, <3>2
  <2>. QED BY <1>1, <2>2 DEF IInv, AgendaSorted, Settled
<1>7. Control' /\ CurrentSoFar' /\ NoBreakNext'
  BY <1>1, <1>2 DEF Control, CurrentSoFar, NoBreakNext, runVars
<1>. QED BY <1>4, <1>5, <1>6, <1>7 DEF IInv

LEMMA TakeAgendaKeeps ==
  ASSUME IInv, TakeAgenda
  PROVE  IInv'
<1>. DEFINE m == Head(left)
<1>1. /\ left # <<>> /\ ~taken /\ taken' = TRUE
      /\ agenda' = [agenda EXCEPT ![m] = <<>>]
      /\ UNCHANGED <<settings, timetag, number, matches, focus, runVars, flags, actions,
                     left, refreshing, toActivate>>
  BY DEF TakeAgenda
<1>2. /\ \/ ~refreshing /\ unplaced' = agenda[m] /\ UNCHANGED <<salienceVars, saved>>
         \/ /\ refreshing
            /\ unplaced' = [n \in DOMAIN agenda[m] |-> Refreshed(agenda[m][n])]
            /\ ruleSalience' = [r \in Rules |->
                 IF r \in Dynamic /\ \E n \in DOMAIN agenda[m] : RuleOf[agenda[m][n].basis] = r
                   THEN global ELSE ruleSalience[r]]
            /\ saved' = evaluation /\ evaluation' = "when-activated"
  BY DEF TakeAgenda
<1>3. /\ pc # "test" /\ toActivate = {} /\ m \in Modules /\ TypeOK /\ Ages /\ AgendaSorted
      /\ agenda \in [Modules -> Seq(Activation)] /\ timetag \in Nat
  BY <1>1 DEF IInv, Control, TypeOK
<1>. DEFINE q == agenda[m]
<1>4. q \in Seq(Activation) /\ DifferentAges(q) /\ Older(q, timetag)
  BY <1>3 DEF Ages
<1>. HIDE DEF m, q
<1>5. /\ unplaced' \in Seq(Activation) /\ DOMAIN unplaced' = DOMAIN q
      /\ \A n \in DOMAIN q : unplaced'[n].timetag = q[n].timetag
      /\ refreshing => \A n \in DOMAIN q : unplaced'[n] = Refreshed(q[n])
  <2>1. Len(q) \in Nat /\ DOMAIN q = 1..Len(q) /\ \A n \in DOMAIN q : q[n] \in Activation
    BY <1>4, ActivationsDomain
  <2>2. CASE ~refreshing
    BY <1>2, <1>4, <2>2 DEF q
  <2>3. CASE refreshing
    <3>1. unplaced' = [n \in DOMAIN q |-> Refreshed(q[n])]
      BY <1>2, <2>3 DEF q
    <3>2. \A n \in DOMAIN q : Refreshed(q[n]) \in Activation /\ Refreshed(q[n]).timetag = q[n].timetag
      BY <1>3, <2>1, RefreshedActivation
    <3>3. unplaced' \in [1..Len(q) -> Activation]
      BY <2>1, <3>1, <3>2
    <3>4. unplaced' \in Seq(Activation)
      BY <2>1, <3>3
    <3>. QED BY <3>1, <3>2, <3>4
  <2>. QED BY <2>2, <2>3
<1>6. agenda' \in [Modules -> Seq(Activation)] /\ agenda'[m] = <<>>
      /\ \A d \in Modules : d # m => agenda'[d] = agenda[d]
  BY <1>1, <1>3 DEF m
<1>7. /\ ruleSalience' \in [Rules -> Saliences] /\ evaluation' \in Evaluations
      /\ saved' \in Evaluations
  <2>1. /\ ruleSalience \in [Rules -> Saliences] /\ evaluation \in Evaluations
        /\ saved \in Evaluations /\ global \in Saliences
    BY <1>3 DEF TypeOK
  <2>2. CASE ~refreshing
    BY <1>2, <2>1, <2>2 DEF salienceVars
  <2>3. CASE refreshing
    <3>1. saved' = evaluation /\ evaluation' = "when-activated"
      BY <1>2, <2>3
    <3>2. ruleSalience' \in [Rules -> Saliences]
      BY <1>2, <2>1, <2>3
    <3>. QED BY <2>1, <3>1, <3>2 DEF Evaluations
  <2>. QED BY <2>2, <2>3
<1>8. TypeOK'
  BY <1>1, <1>3, <1>5, <1>6, <1>7 DEF TypeOK, settings, runVars, flags
<1>9. Ages'
  <2>1. DifferentAges(unplaced') /\ Older(unplaced', timetag)
    BY <1>4, <1>5 DEF DifferentAges, Older
  <2>2. \A d \in Modules : DifferentAges(agenda'[d]) /\ Older(agenda'[d], timetag)
    <3>1. DifferentAges(<<>>) /\ Older(<<>>, timetag)
      BY DEF DifferentAges, Older
    <3>. QED BY <3>1, <1>3, <1>6 DEF Ages
  <2>3. timetag' = timetag /\ left' = left /\ DOMAIN agenda'[m] = {}
    BY <1>1, <1>6
  <2>4. \A n \in DOMAIN agenda'[Head(left')], k \in DOMAIN unplaced' :
          agenda'[Head(left')][n].timetag # unplaced'[k].timetag
    BY <2>3 DEF m
  <2>. QED BY <2>1, <2>2, <2>3, <2>4 DEF Ages, DifferentAges, Older
<1>10. AgendaSorted'
  <2>. SUFFICES ASSUME NEW d \in Modules, Settled(d)' PROVE Sorted(strategy, agenda'[d])
    BY <1>1 DEF AgendaSorted, Sorted, settings
  <2>1. CASE d = m
    BY <1>6, <2>1 DEF Sorted
  <2>2. CASE d # m
    <3>1. Settled(d)
      BY <1>1, <2>2 DEF Settled, m
    <3>. QED BY <1>3, <1>6, <2>2, <3>1 DEF AgendaSorted
  <2>. QED BY <2>1, <2>2
<1>11. CurrentSoFar'
  <2>. SUFFICES ASSUME refreshing
                PROVE  /\ \A n \in DOMAIN agenda'[m] : RuleOf[agenda'[m][n].basis] \in Dynamic =>
                                                         agenda'[m][n].salience = global'
                       /\ \A n \in DOMAIN unplaced' : RuleOf[unplaced'[n].basis] \in Dynamic =>
                                                        unplaced'[n].salience = global'
    BY <1>1 DEF CurrentSoFar, Current, m
  <2>1. DOMAIN agenda'[m] = {} /\ global' = global
    BY <1>1, <1>6 DEF settings
  <2>2. ASSUME NEW n \in DOMAIN q, RuleOf[Refreshed(q[n]).basis] \in Dynamic
        PROVE  Refreshed(q[n]).salience = global
    <3>1. q[n] \in Activation
      BY <1>4, ActivationsDomain
    <3>. QED BY <2>2, <3>1, <1>3, RefreshedActivation
  <2>. QED BY <1>5, <2>1, <2>2
<1>12. Control' /\ NoBreakNext'
  BY <1>1, <1>3 DEF Control, NoBreakNext, runVars
<1>. QED BY <1>8, <1>9, <1>10, <1>11, <1>12 DEF IInv
LEMMA PlaceNextKeeps ==
  ASSUME IInv, PlaceNext
  PROVE  IInv'
<1>. DEFINE m == Head(left)
<1>. DEFINE q == agenda[m]
<1>. DEFINE a == Head(unplaced)
<1>. DEFINE p == PlaceActivation(strategy, q, a)
<1>1. /\ left # <<>> /\ taken /\ unplaced # <<>>
      /\ agenda' = [agenda EXCEPT ![m] = p]
      /\ unplaced' = Tail(unplaced)
      /\ UNCHANGED <<settings, timetag, number, salienceVars, matches, focus, runVars,
                     flags, actions, left, refreshing, taken, saved, toActivate>>
  BY DEF PlaceNext
<1>2. /\ pc # "test" /\ toActivate = {} /\ m \in Modules /\ TypeOK /\ Ages /\ AgendaSorted
      /\ agenda \in [Modules -> Seq(Activation)] /\ unplaced \in Seq(Activation)
      /\ strategy \in Strategies
  BY <1>1 DEF IInv, Control, TypeOK
<1>3. /\ q \in Seq(Activation) /\ DifferentAges(q) /\ Older(q, timetag) /\ Sorted(strategy, q)
      /\ DifferentAges(unplaced) /\ Older(unplaced, timetag)
      /\ \A n \in DOMAIN q, k \in DOMAIN unplaced : q[n].timetag # unplaced[k].timetag
  BY <1>1, <1>2 DEF Ages, AgendaSorted, Settled
<1>4. /\ unplaced' \in Seq(Activation) /\ a \in Activation
      /\ \E i \in DOMAIN unplaced : a = unplaced[i]
      /\ \A k \in DOMAIN unplaced' : \E i \in DOMAIN unplaced : unplaced'[k] = unplaced[i]
      /\ \A k \in DOMAIN unplaced' : unplaced'[k].timetag # a.timetag
      /\ DifferentAges(unplaced')
  BY <1>1, <1>2, <1>3, TailInOrder
<1>. HIDE DEF m, q, a
<1>5. \A k \in DOMAIN q : q[k].timetag # a.timetag
  BY <1>3, <1>4
<1>6. DifferentAges(p) /\ Sorted(strategy, p)
  BY <1>2, <1>3, <1>4, <1>5, PlacedInOrder
<1>7. p \in Seq(Activation) /\ \A k \in DOMAIN p : p[k] = a \/ \E i \in DOMAIN q : p[k] = q[i]
  BY <1>3, <1>4, Placed
<1>. HIDE DEF p
<1>8. /\ agenda' \in [Modules -> Seq(Activation)] /\ agenda'[m] = p
      /\ \A d \in Modules : d # m => agenda'[d] = agenda[d]
  BY <1>1, <1>2, <1>7
<1>9. TypeOK'
  BY <1>1, <1>2, <1>4, <1>8 DEF TypeOK, settings, salienceVars, runVars, flags
<1>10. Older(p, timetag) /\ Older(unplaced', timetag)
  BY <1>3, <1>4, <1>7 DEF Older
<1>11. \A n \in DOMAIN p, k \in DOMAIN unplaced' : p[n].timetag # unplaced'[k].timetag
  <2>. SUFFICES ASSUME NEW n \in DOMAIN p, NEW k \in DOMAIN unplaced'
                PROVE  p[n].timetag # unplaced'[k].timetag
    OBVIOUS
  <2>1. CASE p[n] = a
    BY <1>4, <2>1
  <2>2. CASE \E i \in DOMAIN q : p[n] = q[i]
    BY <1>3, <1>4, <2>2
  <2>. QED BY <1>7, <2>1, <2>2
<1>12. Ages'
  <2>1. timetag' = timetag /\ Head(left') = m
    BY <1>1 DEF m
  <2>2. \A d \in Modules : DifferentAges(agenda'[d]) /\ Older(agenda'[d], timetag)
    BY <1>2, <1>6, <1>8, <1>10 DEF Ages
  <2>. QED BY <1>4, <1>8, <1>10, <1>11, <2>1, <2>2 DEF Ages, DifferentAges, Older
<1>13. AgendaSorted'
  <2>. SUFFICES ASSUME NEW d \in Modules, Settled(d)' PROVE Sorted(strategy, agenda'[d])
    BY <1>1 DEF AgendaSorted, Sorted, settings
  <2>1. CASE d = m
    BY <1>6, <1>8, <2>1
  <2>2. CASE d # m
    <3>1. Settled(d)
      BY <1>1 DEF Settled
    <3>. QED BY <1>2, <1>8, <2>2, <3>1 DEF AgendaSorted
  <2>. QED BY <2>1, <2>2
<1>14. CurrentSoFar'
  <2>. SUFFICES ASSUME refreshing
                PROVE  /\ \A n \in DOMAIN p : Current(p[n])
                       /\ \A n \in DOMAIN unplaced' : Current(unplaced'[n])
    BY <1>1, <1>8 DEF CurrentSoFar, Current, m, settings
  <2>1. /\ \A n \in DOMAIN q : Current(q[n])
        /\ \A n \in DOMAIN unplaced : Current(unplaced[n])
    BY <1>1 DEF IInv, CurrentSoFar, q, m
  <2>. QED BY <1>4, <1>7, <2>1
<1>15. Control' /\ NoBreakNext'
  BY <1>1, <1>2 DEF Control, NoBreakNext, runVars
<1>. QED BY <1>9, <1>12, <1>13, <1>14, <1>15 DEF IInv

------------------------------------------------------------------------------
(* Run().                                                                  *)

LEMMA EndOfActionsKeeps ==
  ASSUME IInv, EndOfActions
  PROVE  IInv'
<1>1. /\ left = <<>> /\ toActivate = {} /\ pc' = "next" /\ actions' = 0
      /\ executing' = NoActivation /\ number' = number - 1
      /\ UNCHANGED <<settings, agenda, timetag, salienceVars, matches, focus, runLimit,
                     rulesFired, flags, taken, unplaced, saved, toActivate>>
  BY DEF EndOfActions, Free
<1>2. ~taken /\ unplaced = <<>> /\ TypeOK /\ number \in Int
  BY <1>1 DEF IInv, Control, TypeOK
<1>3. \/ left' = ModuleList /\ refreshing' = TRUE
      \/ left' = left /\ refreshing' = refreshing
  BY DEF EndOfActions
<1>4. left' \in Seq(Modules) /\ number' \in Int
  <2>1. left' \in Seq(Modules)
    BY <1>2, <1>3, ModuleListAssumption DEF TypeOK
  <2>2. number' \in Int
    BY <1>1, <1>2
  <2>. QED BY <2>1, <2>2
<1>5. refreshing' \in BOOLEAN
  BY <1>2, <1>3 DEF TypeOK
<1>6. TypeOK'
  BY <1>1, <1>2, <1>4, <1>5 DEF TypeOK, settings, salienceVars, flags
<1>7. Ages'
  BY <1>1, <1>2 DEF IInv, Ages, DifferentAges, Older
<1>8. AgendaSorted'
  <2>. SUFFICES ASSUME NEW d \in Modules PROVE Sorted(strategy, agenda[d])
    BY <1>1 DEF AgendaSorted, Sorted, settings
  <2>. QED BY <1>1 DEF IInv, AgendaSorted, Settled
<1>9. Control' /\ CurrentSoFar' /\ NoBreakNext'
  BY <1>1, <1>2 DEF Control, CurrentSoFar, NoBreakNext
<1>. QED BY <1>6, <1>7, <1>8, <1>9 DEF IInv

LEMMA RunKeeps ==
  ASSUME IInv, NEW limit \in Limits, Run(limit)
  PROVE  IInv'
<1>1. /\ left = <<>> /\ toActivate = {} /\ pc' = "test" /\ runLimit' = limit
      /\ rulesFired' = 0 /\ halted' = FALSE /\ focus' = FocusToFire(focus)
      /\ UNCHANGED <<settings, listVars, salienceVars, matches, executing, returned,
                     actions, loopVars, toActivate>>
  BY DEF Run, Free
<1>2. TypeOK /\ ~taken /\ focus \in Seq(Modules) /\ runLimit' \in Int
  BY <1>1, RuleSetsAssumption DEF IInv, Control, TypeOK
<1>3. focus' \in Seq(Modules) /\ (focus' # <<>> => agenda[Head(focus')] # <<>>)
  BY <1>1, <1>2, FocusFound
<1>4. TypeOK'
  BY <1>1, <1>2, <1>3 DEF TypeOK, settings, listVars, salienceVars, loopVars
<1>5. Ages' /\ AgendaSorted'
  BY <1>1, ListsKept DEF settings, listVars, loopVars
<1>6. Control' /\ CurrentSoFar' /\ NoBreakNext'
  BY <1>1, <1>2, <1>3 DEF IInv, Control, CurrentSoFar, NoBreakNext, listVars, loopVars
<1>. QED BY <1>4, <1>5, <1>6 DEF IInv

LEMMA NextActivationKeeps ==
  ASSUME IInv, NextActivation
  PROVE  IInv'
<1>1. /\ left = <<>> /\ toActivate = {} /\ pc' = "test" /\ returned' = FALSE
      /\ focus' = FocusToFire(IF returned THEN Pop(focus) ELSE focus)
      /\ halted' = (halted \/ StopsAt(focus'))
      /\ UNCHANGED <<settings, listVars, salienceVars, matches, executing, runLimit,
                     rulesFired, actions, loopVars, toActivate>>
  BY DEF NextActivation, Free
<1>2. TypeOK /\ ~taken /\ focus \in Seq(Modules) /\ Pop(focus) \in Seq(Modules)
  BY <1>1 DEF IInv, Control, TypeOK, Pop
<1>3. focus' \in Seq(Modules) /\ (focus' # <<>> => agenda[Head(focus')] # <<>>)
  BY <1>1, <1>2, FocusFound
<1>4. halted' \in BOOLEAN
  BY <1>1
<1>5. TypeOK'
  BY <1>1, <1>2, <1>3, <1>4 DEF TypeOK, settings, listVars, salienceVars, loopVars
<1>6. Ages' /\ AgendaSorted'
  BY <1>1, ListsKept DEF settings, listVars, loopVars
<1>7. Control' /\ CurrentSoFar'
  BY <1>1, <1>2, <1>3 DEF IInv, Control, CurrentSoFar, listVars, loopVars
<1>8. NoBreakNext'
  <2>. SUFFICES ASSUME ~halted', focus' # <<>>
                PROVE  RuleOf[Head(agenda[Head(focus')]).basis] \notin breaks
    BY <1>1 DEF NoBreakNext, listVars, settings
  <2>1. ~StopsAt(focus')
    BY <1>1
  <2>. QED BY <2>1 DEF StopsAt
<1>. QED BY <1>5, <1>6, <1>7, <1>8 DEF IInv

LEMMA EndOfRunKeeps ==
  ASSUME IInv, EndOfRun
  PROVE  IInv'
<1>1. /\ pc' = "idle" /\ runLimit' = 0 /\ rulesFired' = 0 /\ halted' = FALSE
      /\ UNCHANGED <<settings, listVars, salienceVars, matches, focus, executing,
                     returned, actions, loopVars, toActivate>>
  BY DEF EndOfRun
<1>2. TypeOK'
  <2>1. runLimit' \in Int /\ rulesFired' \in Nat /\ pc' \in {"idle", "test", "rhs", "next"}
    BY <1>1
  <2>2. halted' \in BOOLEAN
    BY <1>1
  <2>. QED BY <1>1, <2>1, <2>2 DEF IInv, TypeOK, settings, listVars, salienceVars, loopVars
<1>3. Ages' /\ AgendaSorted'
  BY <1>1, ListsKept DEF settings, listVars, loopVars
<1>4. Control' /\ CurrentSoFar' /\ NoBreakNext'
  BY <1>1 DEF IInv, Control, CurrentSoFar, NoBreakNext, listVars, loopVars, EndOfRun
<1>. QED BY <1>2, <1>3, <1>4 DEF IInv

LEMMA FireKeeps ==
  ASSUME IInv, Fire
  PROVE  IInv'
<1>. DEFINE m == Head(focus)
<1>. DEFINE q == agenda[m]
<1>1. /\ pc = "test" /\ focus # <<>> /\ pc' = "rhs" /\ actions' = 0
      /\ executing' = Head(q) /\ agenda' = [agenda EXCEPT ![m] = Tail(q)]
      /\ rulesFired' = rulesFired + 1
      /\ runLimit' = IF runLimit > 0 THEN runLimit - 1 ELSE runLimit
      /\ UNCHANGED <<settings, timetag, number, salienceVars, matches, focus, flags,
                     loopVars, toActivate>>
  BY DEF Fire, GoesOn
<1>2. /\ TypeOK /\ Ages /\ AgendaSorted /\ left = <<>> /\ ~taken /\ unplaced = <<>>
      /\ toActivate = {} /\ q # <<>>
      /\ m \in Modules /\ agenda \in [Modules -> Seq(Activation)]
  BY <1>1 DEF IInv, Control, TypeOK
<1>3. q \in Seq(Activation) /\ DifferentAges(q) /\ Older(q, timetag) /\ Sorted(strategy, q)
  BY <1>2 DEF Ages, AgendaSorted, Settled
<1>. HIDE DEF m, q
<1>4. /\ Tail(q) \in Seq(Activation) /\ Head(q) \in Activation
      /\ \A k \in DOMAIN Tail(q) : \E i \in DOMAIN q : Tail(q)[k] = q[i]
      /\ DifferentAges(Tail(q)) /\ Sorted(strategy, Tail(q))
  BY <1>2, <1>3, TailInOrder
<1>5. Older(Tail(q), timetag)
  BY <1>3, <1>4 DEF Older
<1>6. /\ agenda' \in [Modules -> Seq(Activation)] /\ agenda'[m] = Tail(q)
      /\ \A d \in Modules : d # m => agenda'[d] = agenda[d]
  BY <1>1, <1>2, <1>4
<1>7. rulesFired' \in Nat /\ runLimit' \in Int
  BY <1>1, <1>2 DEF TypeOK
<1>8. TypeOK'
  BY <1>1, <1>2, <1>4, <1>6, <1>7 DEF TypeOK, settings, salienceVars, flags, loopVars
<1>9. ASSUME NEW d \in Modules
      PROVE  DifferentAges(agenda'[d]) /\ Older(agenda'[d], timetag) /\ Sorted(strategy, agenda'[d])
  <2>1. CASE d = m
    BY <1>3, <1>4, <1>5, <1>6, <2>1
  <2>2. CASE d # m
    BY <1>2, <1>6, <2>2 DEF Ages, AgendaSorted, Settled
  <2>. QED BY <2>1, <2>2
<1>10. strategy' = strategy /\ timetag' = timetag /\ unplaced' = <<>> /\ ~taken' /\ left' = <<>>
       /\ toActivate' = {}
  BY <1>1, <1>2 DEF settings, loopVars
<1>11. Ages' /\ AgendaSorted'
  BY <1>9, <1>10 DEF Ages, AgendaSorted, DifferentAges, Older
<1>12. Control' /\ CurrentSoFar' /\ NoBreakNext'
  BY <1>1, <1>10 DEF Control, CurrentSoFar, NoBreakNext
<1>. QED BY <1>8, <1>11, <1>12 DEF IInv

LEMMA StutterKeeps ==
  ASSUME IInv, UNCHANGED vars
  PROVE  IInv'
<1>1. TypeOK' /\ Control' /\ CurrentSoFar' /\ NoBreakNext'
  BY DEF IInv, TypeOK, Control, CurrentSoFar, Current, NoBreakNext, vars, settings, listVars,
         salienceVars, runVars, flags, loopVars
<1>2. Ages' /\ AgendaSorted'
  BY ListsKept DEF vars, settings, listVars, loopVars
<1>. QED BY <1>1, <1>2 DEF IInv

LEMMA NextKeeps == IInv /\ [Next]_vars => IInv'
<1>. SUFFICES ASSUME IInv, [Next]_vars PROVE IInv'
  OBVIOUS
<1>1. CASE UNCHANGED vars
  BY <1>1, StutterKeeps
<1>2. CASE Engine
  <2>1. CASE \E m \in Matches, id \in RandomIDs : RefreshNext(m, id)
    BY <2>1, RefreshNextKeeps
  <2>. QED BY <1>2, <2>1, FireKeeps, EndOfActionsKeeps, NextActivationKeeps, EndOfRunKeeps,
              TakeAgendaKeeps, PlaceNextKeeps, LeaveAgendaKeeps DEF Engine
<1>3. CASE \E limit \in Limits : Run(limit)
  BY <1>3, RunKeeps
<1>4. CASE \E m \in Matches, id \in RandomIDs : MatchAppears(m, id)
  BY <1>4, MatchAppearsKeeps
<1>5. CASE \E m \in Matches : MatchIsGone(m)
  BY <1>5, MatchIsGoneKeeps
<1>6. CASE \E r \in Rules : Refresh(r)
  BY <1>6, RefreshKeeps
<1>7. CASE (\E m \in Modules : FocusCommand(m)) \/ FocusStackCommand
  BY <1>7, FocusKeeps
<1>8. CASE Halt \/ Return
  BY <1>8, FlagKeeps
<1>9. CASE \/ \E r \in Breakable : Breakpoint(r)
           \/ \E v \in Saliences : BindGlobal(v)
           \/ \E e \in Evaluations : SetSalienceEvaluation(e)
  BY <1>9, SettingKeeps
<1>10. CASE \/ \E st \in TriedStrategies : SetStrategy(st)
            \/ \E m \in Modules : RefreshAgenda(m)
  BY <1>10, LoopStarts
<1>. QED BY <1>1, <1>2, <1>3, <1>4, <1>5, <1>6, <1>7, <1>8, <1>9, <1>10 DEF Next

LEMMA Invariance == Spec => []IInv
BY InitInv, NextKeeps, PTL DEF Spec

------------------------------------------------------------------------------
(* The variables of the engine have their types, in every state.           *)
THEOREM TypeCorrect == Spec => []TypeOK
<1>1. IInv => TypeOK
  BY DEF IInv
<1>. QED BY <1>1, Invariance, PTL

(* PlaceActivation() and ReorderAgenda() keep every agenda sorted that is  *)
(* not being reordered, under every strategy: the activation that fires    *)
(* comes before all others of its module.                                  *)
THEOREM AlwaysSorted == Spec => []AgendaSorted
<1>1. IInv => AgendaSorted
  BY DEF IInv
<1>. QED BY <1>1, Invariance, PTL

(* Run() fires no rule with a breakpoint but as the first one.             *)
THEOREM BreakpointsStop == Spec => BreakpointStopsRun
<1>1. ASSUME IInv, [Next]_vars
      PROVE  [pc = "test" /\ pc' = "rhs" /\ RuleOf[executing'.basis] \in breaks
                => rulesFired = 0]_vars
  <2>. SUFFICES ASSUME pc = "test", pc' = "rhs", RuleOf[executing'.basis] \in breaks, Next
                PROVE  rulesFired = 0
    BY <1>1 DEF vars, runVars
  <2>1. left = <<>> /\ toActivate = {}
    BY <1>1 DEF IInv, Control
  <2>2. Fire
    <3>1. ~Command
      BY DEF Command
    <3>2. ~ (TakeAgenda \/ PlaceNext \/ LeaveAgenda)
      BY <2>1 DEF TakeAgenda, PlaceNext, LeaveAgenda
    <3>3. \A m \in Matches, id \in RandomIDs : ~RefreshNext(m, id)
      BY <2>1 DEF RefreshNext
    <3>4. ~EndOfActions /\ ~NextActivation /\ ~EndOfRun
      BY DEF EndOfActions, NextActivation, EndOfRun
    <3>5. \A limit \in Limits : ~Run(limit)
      BY DEF Run
    <3>6. Engine
      BY <3>1, <3>5 DEF Next, MatchAppears, MatchIsGone, Refresh, FocusCommand, RefreshAgenda,
                        FocusStackCommand, Halt, Return, Breakpoint, BindGlobal,
                        SetSalienceEvaluation, SetStrategy, Change
    <3>. QED BY <3>2, <3>3, <3>4, <3>6 DEF Engine
  <2>. QED BY <1>1, <2>2 DEF Fire, GoesOn, IInv, NoBreakNext
<1>. QED BY <1>1, Invariance, PTL DEF Spec, BreakpointStopsRun

(* RefreshAgenda() leaves no activation with a salience of the past.       *)
THEOREM RefreshIsCurrent == Spec => RefreshedIsCurrent
<1>1. ASSUME IInv, [Next]_vars
      PROVE  [LeaveAgenda /\ refreshing =>
                \A a \in Elements(agenda[Head(left)]) :
                  RuleOf[a.basis] \in Dynamic => a.salience = global]_vars
  BY <1>1 DEF IInv, CurrentSoFar, Current, LeaveAgenda, Elements
<1>. QED BY <1>1, Invariance, PTL DEF Spec, RefreshedIsCurrent

------------------------------------------------------------------------------
(* One activation for a match.  Every step adds one activation, takes one  *)
(* away, or moves and refreshes them: the ages tell them apart.            *)

Known == \A a \in Pending : a.basis \in matches /\ a.timetag < timetag
Unique == \A a, b \in Pending : a.basis = b.basis \/ a.timetag = b.timetag => a = b
InPlace == /\ \A d \in Modules : \A a \in Elements(agenda[d]) : ModuleOf[RuleOf[a.basis]] = d
           /\ \A a \in Elements(unplaced) : ModuleOf[RuleOf[a.basis]] = Head(left)
Busy == IF executing = NoActivation THEN 0 ELSE 1
Counted == IsFiniteSet(Pending) /\ number = Cardinality(Pending) + Busy

(* The matches that refresh is to activate have no activation; one         *)
(* activation is executing while the actions of its rule are.              *)
Awaited == \A m \in toActivate : \A a \in Pending : a.basis # m
Executes == executing # NoActivation <=> pc = "rhs"

One == Known /\ Unique /\ InPlace /\ Counted /\ Awaited /\ Executes

(* The lists as sets.                                                      *)
LEMMA ElementsPlaced ==
  ASSUME NEW st, NEW q \in Seq(Activation), NEW a \in Activation
  PROVE  Elements(PlaceActivation(st, q, a)) = Elements(q) \union {a}
<1>. DEFINE n == PlaceOf(st, q, a)
<1>. DEFINE r == PlaceActivation(st, q, a)
<1>. DEFINE L == Len(q)
<1>1. n \in 1..(L + 1) /\ r = InsertAt(q, n, a)
  BY PlaceFound DEF PlaceActivation
<1>. HIDE DEF n, r
<1>2. /\ r \in Seq(Activation) /\ Len(r) = L + 1
      /\ \A k \in 1..(n - 1) : r[k] = q[k]
      /\ r[n] = a
      /\ \A k \in (n + 1)..(L + 1) : r[k] = q[k - 1]
  <2>1. \A m \in 1..(L + 1) : LET x == InsertAt(q, m, a)
                                IN  /\ x \in Seq(Activation) /\ Len(x) = L + 1
                                    /\ \A k \in 1..(m - 1) : x[k] = q[k]
                                    /\ x[m] = a
                                    /\ \A k \in (m + 1)..(L + 1) : x[k] = q[k - 1]
    BY Inserted
  <2>. HIDE DEF L
  <2>. QED BY <1>1, <2>1
<1>3. L \in Nat /\ DOMAIN q = 1..L /\ DOMAIN r = 1..(L + 1)
  BY <1>2, ActivationsDomain
<1>4. \A k \in DOMAIN r : r[k] = a \/ \E i \in DOMAIN q : r[k] = q[i]
  BY Placed DEF r
<1>. HIDE DEF L
<1>5. ASSUME NEW i \in 1..L PROVE \E k \in 1..(L + 1) : r[k] = q[i]
  <2>1. CASE i < n
    <3>1. i \in 1..(n - 1) /\ i \in 1..(L + 1)
      BY <1>1, <1>3, <2>1
    <3>. QED BY <1>2, <3>1
  <2>2. CASE ~(i < n)
    <3>1. i + 1 \in (n + 1)..(L + 1) /\ i + 1 \in 1..(L + 1) /\ (i + 1) - 1 = i
      BY <1>1, <1>3, <2>2
    <3>. QED BY <1>2, <3>1
  <2>. QED BY <2>1, <2>2
<1>6. n \in DOMAIN r
  BY <1>1, <1>3
<1>7. \A x \in Elements(r) : x \in Elements(q) \union {a}
  BY <1>4 DEF Elements, r
<1>8. \A x \in Elements(q) \union {a} : x \in Elements(r)
  <2>1. a \in Elements(r)
    BY <1>2, <1>6 DEF Elements
  <2>2. \A i \in 1..L : q[i] \in Elements(r)
    BY <1>3, <1>5 DEF Elements
  <2>. QED BY <1>3, <2>1, <2>2 DEF Elements
<1>. QED BY <1>7, <1>8 DEF r

LEMMA ElementsDropped ==
  ASSUME NEW q \in Seq(Activation), NEW n \in DOMAIN q, DifferentAges(q)
  PROVE  Elements(DropAt(q, n)) = Elements(q) \ {q[n]} /\ q[n] \in Elements(q)
<1>. DEFINE r == DropAt(q, n)
<1>. DEFINE L == Len(q)
<1>1. L \in Nat /\ DOMAIN q = 1..L
  BY ActivationsDomain
<1>2. r = [k \in 1..(L - 1) |-> IF k < n THEN q[k] ELSE q[k + 1]]
  BY DEF DropAt
<1>. HIDE DEF r, L
<1>3. DOMAIN r = 1..(L - 1)
  BY <1>2
<1>4. \A i \in DOMAIN q : i # n => q[i] # q[n]
  BY DEF DifferentAges
<1>5. ASSUME NEW k \in DOMAIN r PROVE r[k] \in Elements(q) \ {q[n]}
  <2>1. CASE k < n
    <3>1. k \in 1..L /\ k # n /\ r[k] = q[k]
      BY <1>1, <1>2, <1>3, <2>1
    <3>. QED BY <1>1, <1>4, <3>1 DEF Elements
  <2>2. CASE ~(k < n)
    <3>1. k + 1 \in 1..L /\ k + 1 # n /\ r[k] = q[k + 1]
      BY <1>1, <1>2, <1>3, <2>2
    <3>. QED BY <1>1, <1>4, <3>1 DEF Elements
  <2>. QED BY <2>1, <2>2
<1>6. ASSUME NEW i \in DOMAIN q, i # n PROVE q[i] \in Elements(r)
  <2>1. CASE i < n
    <3>1. i \in 1..(L - 1) /\ r[i] = q[i]
      BY <1>1, <1>2, <2>1
    <3>. QED BY <1>3, <3>1 DEF Elements
  <2>2. CASE ~(i < n)
    <3>1. i - 1 \in 1..(L - 1) /\ ~(i - 1 < n) /\ (i - 1) + 1 = i
      BY <1>1, <1>6, <2>2
    <3>2. r[i - 1] = q[i]
      BY <1>2, <3>1
    <3>. QED BY <1>3, <3>1, <3>2 DEF Elements
  <2>. QED BY <2>1, <2>2
<1>7. \A a \in Elements(r) : a \in Elements(q) \ {q[n]}
  BY <1>5 DEF Elements
<1>8. \A a \in Elements(q) \ {q[n]} : a \in Elements(r)
  BY <1>6 DEF Elements
<1>9. q[n] \in Elements(q)
  BY DEF Elements
<1>. QED BY <1>7, <1>8, <1>9 DEF r

LEMMA ElementsTail ==
  ASSUME NEW q \in Seq(Activation), q # <<>>, DifferentAges(q)
  PROVE  /\ Elements(Tail(q)) = Elements(q) \ {Head(q)}
         /\ Head(q) \in Elements(q) /\ Head(q) \in Activation
<1>1. /\ Head(q) \in Activation /\ \E i \in DOMAIN q : Head(q) = q[i]
      /\ \A k \in DOMAIN Tail(q) : \E i \in DOMAIN q : Tail(q)[k] = q[i]
      /\ \A k \in DOMAIN Tail(q) : Tail(q)[k].timetag # Head(q).timetag
  BY TailInOrder
<1>2. ASSUME NEW i \in DOMAIN q, q[i] # Head(q) PROVE \E k \in DOMAIN Tail(q) : Tail(q)[k] = q[i]
  <2>1. Len(q) \in Nat /\ DOMAIN q = 1..Len(q) /\ Head(q) = q[1]
    BY ActivationsDomain
  <2>2. DOMAIN Tail(q) = 1..(Len(q) - 1) /\ \A k \in 1..(Len(q) - 1) : Tail(q)[k] = q[k + 1]
    OBVIOUS
  <2>3. i # 1
    BY <1>2, <2>1
  <2>4. i - 1 \in 1..(Len(q) - 1) /\ (i - 1) + 1 = i
    BY <2>1, <2>3
  <2>. QED BY <2>2, <2>4
<1>3. \A a \in Elements(Tail(q)) : a \in Elements(q) \ {Head(q)}
  BY <1>1 DEF Elements
<1>4. \A a \in Elements(q) \ {Head(q)} : a \in Elements(Tail(q))
  BY <1>2 DEF Elements
<1>. QED BY <1>1, <1>3, <1>4 DEF Elements

LEMMA NoElements == Elements(<<>>) = {}
BY DEF Elements

LEMMA ElementsActivations ==
  ASSUME NEW q \in Seq(Activation), NEW a \in Elements(q)
  PROVE  a \in Activation /\ a.basis \in Matches /\ a.timetag \in Nat
<1>1. a \in Activation
  BY ActivationsDomain DEF Elements
<1>. QED BY <1>1 DEF Activation

LEMMA PendingMembers ==
  /\ \A d \in Modules : \A a \in Elements(agenda[d]) : a \in Pending
  /\ \A a \in Elements(unplaced) : a \in Pending
  /\ \A a \in Pending : (\E d \in Modules : a \in Elements(agenda[d])) \/ a \in Elements(unplaced)
<1>1. \A a : a \in Pending <=> \/ a \in UNION { Elements(agenda[m]) : m \in Modules }
                            \/ a \in Elements(unplaced)
  BY DEF Pending
<1>2. \A a : a \in UNION { Elements(agenda[m]) : m \in Modules }
               <=> \E d \in Modules : a \in Elements(agenda[d])
  OBVIOUS
<1>. QED BY <1>1, <1>2

LEMMA PendingNext ==
  ASSUME NEW a
  PROVE  a \in Pending' <=> \/ \E d \in Modules : a \in Elements(agenda'[d])
                            \/ a \in Elements(unplaced')
<1>1. Pending' = (UNION { Elements(agenda[m])' : m \in Modules }) \union Elements(unplaced)'
  BY DEF Pending
<1>2. \A d \in Modules : Elements(agenda[d])' = Elements(agenda'[d])
  BY DEF Elements
<1>3. Elements(unplaced)' = Elements(unplaced')
  BY DEF Elements
<1>4. a \in UNION { Elements(agenda[m])' : m \in Modules }
        <=> \E d \in Modules : a \in Elements(agenda[d])'
  OBVIOUS
<1>. QED BY <1>1, <1>2, <1>3, <1>4

LEMMA PendingActivations ==
  ASSUME TypeOK, NEW a \in Pending
  PROVE  a \in Activation /\ a.basis \in Matches /\ a.timetag \in Nat
BY PendingMembers, ElementsActivations DEF TypeOK

(* An activation of m is on the agenda of the module of m.                 *)
LEMMA ListedThere ==
  ASSUME TypeOK, InPlace, unplaced = <<>>, NEW m, NEW a \in Pending, a.basis = m
  PROVE  \E n \in Listed(m) : agenda[ModuleOf[RuleOf[m]]][n] = a
<1>1. PICK d \in Modules : a \in Elements(agenda[d])
  BY PendingMembers, NoElements
<1>2. d = ModuleOf[RuleOf[m]]
  BY <1>1 DEF InPlace
<1>. QED BY <1>1, <1>2 DEF Listed, Elements

------------------------------------------------------------------------------
LEMMA OneStays ==
  ASSUME One, UNCHANGED <<agenda, unplaced, matches, timetag, number, executing>>,
         pc' = "rhs" <=> pc = "rhs", unplaced # <<>> => left' = left,
         \A m \in toActivate' : \A a \in Pending : a.basis # m
  PROVE  One'
<1>1. Pending' = Pending /\ Busy' = Busy
  BY DEF Pending, Busy, Elements
<1>2. (Known /\ Unique /\ Counted /\ Awaited /\ Executes)'
  BY <1>1 DEF One, Known, Unique, Counted, Awaited, Executes
<1>3. InPlace'
  <2>1. unplaced = <<>> => Elements(unplaced) = {}
    BY NoElements
  <2>. QED BY <2>1 DEF One, InPlace, Elements
<1>. QED BY <1>2, <1>3 DEF One

(* AddActivation() adds one activation to those that are to fire.          *)
LEMMA PendingAdded ==
  ASSUME TypeOK, NEW m \in Matches, NEW id \in RandomIDs, AddActivation(m, id),
         UNCHANGED unplaced
  PROVE  Pending' = Pending \union {[basis |-> m, salience |-> EvaluateSalience(RuleOf[m]),
                                     timetag |-> timetag, random |-> id]}
<1>. DEFINE mod == ModuleOf[RuleOf[m]]
<1>. DEFINE new == [basis |-> m, salience |-> EvaluateSalience(RuleOf[m]),
                    timetag |-> timetag, random |-> id]
<1>1. agenda' = [agenda EXCEPT ![mod] = PlaceActivation(strategy, agenda[mod], new)]
  BY DEF AddActivation
<1>2. new \in Activation
  BY NewActivation
<1>3. mod \in Modules /\ agenda \in [Modules -> Seq(Activation)]
  BY MatchesAssumption, RulesAssumption DEF TypeOK
<1>. HIDE DEF new, mod
<1>4. /\ Elements(agenda'[mod]) = Elements(agenda[mod]) \union {new}
      /\ \A d \in Modules : d # mod => agenda'[d] = agenda[d]
  BY <1>1, <1>2, <1>3, ElementsPlaced
<1>5. \A a : a \in Pending' => a \in Pending \union {new}
  BY <1>3, <1>4, PendingMembers, PendingNext
<1>6. \A a \in Pending : a \in Pending'
  BY <1>3, <1>4, PendingMembers, PendingNext
<1>7. new \in Pending'
  BY <1>3, <1>4, PendingNext
<1>8. Pending' = Pending \union {new}
  BY <1>5, <1>6, <1>7
<1>. QED BY <1>8 DEF new

(* AddActivation() for a match without one.                                *)
LEMMA OneAdded ==
  ASSUME TypeOK, One, left = <<>>, unplaced = <<>>, NEW m \in Matches, NEW id \in RandomIDs,
         AddActivation(m, id), UNCHANGED <<executing, pc, unplaced, left>>,
         \A a \in Pending : a.basis # m,
         m \in matches', matches \subseteq matches', m \notin toActivate',
         \A x \in toActivate' : \A a \in Pending : a.basis # x
  PROVE  One'
<1>. DEFINE mod == ModuleOf[RuleOf[m]]
<1>. DEFINE new == [basis |-> m, salience |-> EvaluateSalience(RuleOf[m]),
                    timetag |-> timetag, random |-> id]
<1>1. /\ timetag' = timetag + 1 /\ number' = number + 1
      /\ agenda' = [agenda EXCEPT ![mod] = PlaceActivation(strategy, agenda[mod], new)]
  BY DEF AddActivation
<1>2. new \in Activation /\ new.basis = m /\ new.timetag = timetag
  BY NewActivation
<1>3. mod \in Modules /\ agenda \in [Modules -> Seq(Activation)] /\ timetag \in Nat
  BY MatchesAssumption, RulesAssumption DEF TypeOK
<1>4. Pending' = Pending \union {new}
  BY PendingAdded
<1>. HIDE DEF new, mod
<1>5. /\ Elements(agenda'[mod]) = Elements(agenda[mod]) \union {new}
      /\ \A d \in Modules : d # mod => agenda'[d] = agenda[d]
  BY <1>1, <1>2, <1>3, ElementsPlaced
<1>6. new \notin Pending
  BY <1>2
<1>7. \A a \in Pending : a.timetag \in Nat /\ a.timetag < timetag /\ a.basis \in matches
  BY PendingActivations DEF One, Known
<1>8. Known'
  BY <1>1, <1>2, <1>3, <1>4, <1>7 DEF Known
<1>9. Unique'
  <2>1. \A a \in Pending : a.timetag # new.timetag /\ a.basis # new.basis
    BY <1>2, <1>3, <1>7
  <2>. QED BY <1>4, <2>1 DEF One, Unique
<1>10. InPlace'
  <2>1. Elements(unplaced') = {}
    BY NoElements
  <2>. QED BY <1>2, <1>5, <2>1 DEF One, InPlace, mod
<1>11. Counted'
  <2>1. IsFiniteSet(Pending') /\ Cardinality(Pending') = Cardinality(Pending) + 1
    BY <1>4, <1>6, FS_AddElement DEF One, Counted
  <2>2. Cardinality(Pending) \in Nat /\ Busy' = Busy /\ Busy \in Nat
    BY FS_CardinalityType DEF One, Counted, Busy
  <2>. QED BY <1>1, <2>1, <2>2 DEF One, Counted
<1>12. Awaited' /\ Executes'
  BY <1>2, <1>4 DEF One, Awaited, Executes
<1>. QED BY <1>8, <1>9, <1>10, <1>11, <1>12 DEF One

(* An activation leaves the agenda of its module.                          *)
LEMMA PendingDropped ==
  ASSUME TypeOK, One, NEW d \in Modules, NEW a \in Elements(agenda[d]), unplaced = <<>>,
         unplaced' = unplaced, Elements(agenda'[d]) = Elements(agenda[d]) \ {a},
         \A e \in Modules : e # d => agenda'[e] = agenda[e]
  PROVE  /\ a \in Pending /\ Pending' = Pending \ {a} /\ InPlace'
         /\ IsFiniteSet(Pending') /\ Cardinality(Pending') = Cardinality(Pending) - 1
         /\ Cardinality(Pending) \in Nat
<1>1. a \in Pending
  BY PendingMembers
<1>2. \A e \in Modules : e # d => a \notin Elements(agenda[e])
  BY DEF One, InPlace
<1>3. Elements(unplaced) = {}
  BY NoElements
<1>4. Pending' = Pending \ {a}
  <2>1. \A e \in Modules : Elements(agenda'[e]) = Elements(agenda[e]) \ {a}
    BY <1>2
  <2>2. \A x : x \in Pending' => x \in Pending \ {a}
    BY <1>3, <2>1, PendingMembers, PendingNext
  <2>3. \A x \in Pending \ {a} : x \in Pending'
    BY <1>3, <2>1, PendingMembers, PendingNext
  <2>. QED BY <2>2, <2>3
<1>5. InPlace'
  BY <1>3 DEF One, InPlace
<1>6. /\ IsFiniteSet(Pending') /\ Cardinality(Pending') = Cardinality(Pending) - 1
      /\ Cardinality(Pending) \in Nat
  BY <1>1, <1>4, FS_RemoveElement, FS_CardinalityType DEF One, Counted
<1>. QED BY <1>1, <1>4, <1>5, <1>6

LEMMA MatchAppearsOne ==
  ASSUME IInv, One, NEW m \in Matches, NEW id \in RandomIDs, MatchAppears(m, id)
  PROVE  One'
<1>1. TypeOK /\ left = <<>> /\ unplaced = <<>> /\ toActivate = {}
  BY DuringCommand DEF MatchAppears, IInv
<1>2. /\ m \notin matches /\ matches' = matches \union {m} /\ AddActivation(m, id)
      /\ UNCHANGED <<executing, pc, unplaced, left, toActivate>>
  BY DEF MatchAppears, runVars, loopVars
<1>3. \A a \in Pending : a.basis # m
  BY <1>2 DEF One, Known
<1>. QED BY <1>1, <1>2, <1>3, OneAdded

LEMMA RefreshNextOne ==
  ASSUME IInv, One, NEW m \in Matches, NEW id \in RandomIDs, RefreshNext(m, id)
  PROVE  One'
<1>1. TypeOK /\ left = <<>> /\ unplaced = <<>> /\ m \in toActivate /\ m \in matches
  BY DEF RefreshNext, IInv, Control, TypeOK
<1>2. /\ toActivate' = toActivate \ {m} /\ matches' = matches
      /\ UNCHANGED <<executing, pc, unplaced, left>>
  BY DEF RefreshNext, runVars, loopVars
<1>3. \A x \in toActivate : \A a \in Pending : a.basis # x
  BY DEF One, Awaited
<1>4. CASE AddActivation(m, id)
  BY <1>1, <1>2, <1>3, <1>4, OneAdded
<1>5. CASE UNCHANGED <<listVars, ruleSalience, focus>>
  BY <1>2, <1>3, <1>5, OneStays DEF listVars
<1>. QED BY <1>4, <1>5 DEF RefreshNext

LEMMA MatchIsGoneOne ==
  ASSUME IInv, One, NEW m \in Matches, MatchIsGone(m)
  PROVE  One'
<1>. DEFINE mod == ModuleOf[RuleOf[m]]
<1>1. /\ TypeOK /\ left = <<>> /\ unplaced = <<>> /\ toActivate = {} /\ Ages /\ InPlace
      /\ matches' = matches \ {m} /\ mod \in Modules /\ agenda \in [Modules -> Seq(Activation)]
      /\ UNCHANGED <<timetag, executing, pc, unplaced, left, toActivate>>
  BY DuringCommand, MatchesAssumption, RulesAssumption
     DEF MatchIsGone, IInv, One, TypeOK, runVars, loopVars
<1>2. CASE Listed(m) = {} /\ UNCHANGED <<agenda, number>>
  <2>1. \A a \in Pending : a.basis # m
    BY <1>1, <1>2, ListedThere
  <2>2. Pending' = Pending /\ Busy' = Busy
    BY <1>1, <1>2 DEF Pending, Busy, Elements
  <2>3. Known'
    BY <1>1, <2>1, <2>2 DEF One, Known
  <2>4. (Unique /\ InPlace /\ Counted /\ Awaited /\ Executes)'
    BY <1>1, <1>2, <2>2 DEF One, Unique, InPlace, Counted, Awaited, Executes, Elements
  <2>. QED BY <2>3, <2>4 DEF One
<1>3. ASSUME NEW n \in Listed(m), agenda' = [agenda EXCEPT ![mod] = DropAt(@, n)],
             number' = number - 1
      PROVE  One'
  <2>. DEFINE q == agenda[mod]
  <2>. DEFINE a == q[n]
  <2>1. q \in Seq(Activation) /\ n \in DOMAIN q /\ a.basis = m /\ DifferentAges(q)
    BY <1>1, <1>3 DEF Listed, Ages
  <2>2. Elements(DropAt(q, n)) = Elements(q) \ {a} /\ a \in Elements(q)
    BY <2>1, ElementsDropped
  <2>3. agenda'[mod] = DropAt(q, n) /\ \A e \in Modules : e # mod => agenda'[e] = agenda[e]
    BY <1>1, <1>3
  <2>. HIDE DEF a, q, mod
  <2>4. /\ a \in Pending /\ Pending' = Pending \ {a} /\ InPlace'
        /\ IsFiniteSet(Pending') /\ Cardinality(Pending') = Cardinality(Pending) - 1
        /\ Cardinality(Pending) \in Nat
    BY <1>1, <2>2, <2>3, PendingDropped DEF q
  <2>5. \A b \in Pending' : b.basis # m
    BY <2>1, <2>4 DEF One, Unique
  <2>6. Known' /\ Unique'
    BY <1>1, <2>4, <2>5 DEF One, Known, Unique
  <2>7. Counted'
    <3>1. Busy' = Busy /\ Busy \in Nat
      BY <1>1 DEF Busy
    <3>. QED BY <1>3, <2>4, <3>1 DEF One, Counted
  <2>8. Awaited' /\ Executes'
    BY <1>1 DEF One, Awaited, Executes
  <2>. QED BY <2>4, <2>6, <2>7, <2>8 DEF One
<1>. QED BY <1>2, <1>3 DEF MatchIsGone

LEMMA RefreshOne ==
  ASSUME IInv, One, NEW r \in Rules, Refresh(r)
  PROVE  One'
<1>1. /\ TypeOK /\ unplaced = <<>> /\ InPlace /\ toActivate' = Fired(r)
      /\ UNCHANGED <<agenda, unplaced, matches, timetag, number, executing, pc>>
  BY DuringCommand DEF Refresh, IInv, One, runVars, loopVars, listVars
<1>2. \A m \in toActivate' : \A a \in Pending : a.basis # m
  BY <1>1, ListedThere DEF Fired
<1>. QED BY <1>1, <1>2, OneStays

(* A step that touches neither the lists nor the matches.                  *)
LEMMA OtherOne ==
  ASSUME IInv, One,
         \/ UNCHANGED vars
         \/ (\E m \in Modules : FocusCommand(m) \/ RefreshAgenda(m)) \/ FocusStackCommand
         \/ Halt \/ Return \/ (\E limit \in Limits : Run(limit)) \/ NextActivation \/ EndOfRun
         \/ (\E r \in Breakable : Breakpoint(r)) \/ (\E v \in Saliences : BindGlobal(v))
         \/ (\E e \in Evaluations : SetSalienceEvaluation(e))
         \/ (\E st \in TriedStrategies : SetStrategy(st)) \/ LeaveAgenda
  PROVE  One'
<1>1. \A m \in toActivate : \A a \in Pending : a.basis # m
  BY DEF One, Awaited
<1>2. CASE UNCHANGED vars
  BY <1>1, <1>2, OneStays DEF vars, settings, listVars, runVars, loopVars
<1>3. CASE (\E m \in Modules : FocusCommand(m)) \/ FocusStackCommand
  BY <1>1, <1>3, OneStays DEF FocusCommand, FocusStackCommand, settings, listVars, runVars, loopVars
<1>4. CASE Halt \/ Return
  BY <1>1, <1>4, OneStays DEF Halt, Return, settings, listVars, runVars, loopVars
<1>5. CASE (\E limit \in Limits : Run(limit)) \/ NextActivation \/ EndOfRun
  BY <1>1, <1>5, OneStays DEF Run, NextActivation, EndOfRun, settings, listVars, loopVars
<1>6. CASE \/ \E r \in Breakable : Breakpoint(r)
           \/ \E v \in Saliences : BindGlobal(v)
           \/ \E e \in Evaluations : SetSalienceEvaluation(e)
  BY <1>1, <1>6, OneStays DEF Breakpoint, BindGlobal, SetSalienceEvaluation, listVars, runVars, loopVars
<1>7. CASE (\E m \in Modules : RefreshAgenda(m)) \/ \E st \in TriedStrategies : SetStrategy(st)
  <2>1. unplaced = <<>>
    BY <1>7, DuringCommand DEF RefreshAgenda, SetStrategy, Change
  <2>. QED BY <1>1, <1>7, <2>1, OneStays DEF RefreshAgenda, SetStrategy, settings, listVars, runVars
<1>8. CASE LeaveAgenda
  BY <1>1, <1>8, OneStays DEF LeaveAgenda, settings, listVars, runVars
<1>. QED BY <1>2, <1>3, <1>4, <1>5, <1>6, <1>7, <1>8

LEMMA EndOfActionsOne ==
  ASSUME IInv, One, EndOfActions
  PROVE  One'
<1>1. /\ pc = "rhs" /\ left = <<>> /\ toActivate = {} /\ pc' = "next" /\ executing' = NoActivation
      /\ number' = number - 1 /\ unplaced = <<>>
      /\ UNCHANGED <<agenda, unplaced, matches, timetag, toActivate>>
  BY DEF EndOfActions, Free, IInv, Control
<1>2. Pending' = Pending /\ Busy = 1 /\ Busy' = 0
  BY <1>1 DEF Pending, Busy, Elements, One, Executes
<1>3. Counted'
  <2>1. Cardinality(Pending) \in Nat
    BY FS_CardinalityType DEF One, Counted
  <2>. QED BY <1>1, <1>2, <2>1 DEF One, Counted
<1>4. (Known /\ Unique /\ Awaited /\ Executes)'
  BY <1>1, <1>2 DEF One, Known, Unique, Awaited, Executes
<1>5. InPlace'
  <2>1. Elements(unplaced') = {}
    BY <1>1, NoElements
  <2>. QED BY <1>1, <2>1 DEF One, InPlace, Elements
<1>. QED BY <1>3, <1>4, <1>5 DEF One

(* The activation that fires is counted on while it executes.              *)
LEMMA FireOne ==
  ASSUME IInv, One, Fire
  PROVE  One'
<1>. DEFINE d == Head(focus)
<1>. DEFINE q == agenda[d]
<1>. DEFINE a == Head(q)
<1>1. /\ pc = "test" /\ pc' = "rhs" /\ executing' = a /\ agenda' = [agenda EXCEPT ![d] = Tail(q)]
      /\ TypeOK /\ Ages /\ unplaced = <<>> /\ toActivate = {} /\ q # <<>> /\ d \in Modules
      /\ agenda \in [Modules -> Seq(Activation)]
      /\ UNCHANGED <<unplaced, matches, timetag, number, left, toActivate>>
  BY DEF Fire, GoesOn, IInv, Control, TypeOK, loopVars
<1>2. q \in Seq(Activation) /\ DifferentAges(q)
  BY <1>1 DEF Ages
<1>. HIDE DEF d
<1>3. Elements(Tail(q)) = Elements(q) \ {a} /\ a \in Elements(q) /\ a \in Activation
  BY <1>1, <1>2, ElementsTail
<1>4. agenda'[d] = Tail(q) /\ \A e \in Modules : e # d => agenda'[e] = agenda[e]
  BY <1>1
<1>. HIDE DEF a, q
<1>5. /\ a \in Pending /\ Pending' = Pending \ {a} /\ InPlace'
      /\ IsFiniteSet(Pending') /\ Cardinality(Pending') = Cardinality(Pending) - 1
      /\ Cardinality(Pending) \in Nat
  BY <1>1, <1>3, <1>4, PendingDropped DEF q
<1>6. Known' /\ Unique' /\ Awaited'
  BY <1>1, <1>5 DEF One, Known, Unique, Awaited
<1>7. executing' # NoActivation /\ executing = NoActivation
  BY <1>1, <1>3, RuleSetsAssumption DEF One, Executes
<1>8. Counted' /\ Executes'
  <2>1. Busy = 0 /\ Busy' = 1
    BY <1>7 DEF Busy
  <2>. QED BY <1>1, <1>5, <1>7, <2>1 DEF One, Counted, Executes
<1>. QED BY <1>5, <1>6, <1>8 DEF One

(* ReorderAgenda() moves an activation from what it took to the agenda.    *)
LEMMA PlaceNextMoves ==
  ASSUME IInv, PlaceNext
  PROVE  LET d == Head(left)
             a == Head(unplaced)
         IN  /\ d \in Modules /\ a \in Elements(unplaced)
             /\ Elements(unplaced') = Elements(unplaced) \ {a}
             /\ Elements(agenda'[d]) = Elements(agenda[d]) \union {a}
             /\ \A e \in Modules : e # d => agenda'[e] = agenda[e]
             /\ Pending' = Pending
<1>. DEFINE d == Head(left)
<1>. DEFINE q == agenda[d]
<1>. DEFINE a == Head(unplaced)
<1>1. /\ agenda' = [agenda EXCEPT ![d] = PlaceActivation(strategy, q, a)] /\ unplaced' = Tail(unplaced)
      /\ TypeOK /\ Ages /\ unplaced # <<>> /\ d \in Modules
      /\ agenda \in [Modules -> Seq(Activation)] /\ unplaced \in Seq(Activation)
  BY DEF PlaceNext, IInv, TypeOK
<1>2. Elements(unplaced') = Elements(unplaced) \ {a} /\ a \in Elements(unplaced) /\ a \in Activation
  BY <1>1, ElementsTail DEF Ages
<1>. HIDE DEF d, a
<1>3. Elements(agenda'[d]) = Elements(q) \union {a} /\ \A e \in Modules : e # d => agenda'[e] = agenda[e]
  BY <1>1, <1>2, ElementsPlaced
<1>. HIDE DEF q
<1>4. \A x : x \in Pending' => x \in Pending
  BY <1>1, <1>2, <1>3, PendingMembers, PendingNext DEF q
<1>5. \A x \in Pending : x \in Pending'
  BY <1>1, <1>2, <1>3, PendingMembers, PendingNext DEF q
<1>6. Pending' = Pending
  BY <1>4, <1>5
<1>. QED BY <1>1, <1>2, <1>3, <1>6 DEF d, a, q

LEMMA PlaceNextOne ==
  ASSUME IInv, One, PlaceNext
  PROVE  One'
<1>. DEFINE d == Head(left)
<1>. DEFINE a == Head(unplaced)
<1>1. UNCHANGED <<matches, timetag, number, executing, pc, left, toActivate>>
  BY DEF PlaceNext, runVars
<1>2. /\ d \in Modules /\ a \in Elements(unplaced)
      /\ Elements(unplaced') = Elements(unplaced) \ {a}
      /\ Elements(agenda'[d]) = Elements(agenda[d]) \union {a}
      /\ \A e \in Modules : e # d => agenda'[e] = agenda[e]
      /\ Pending' = Pending
  BY PlaceNextMoves
<1>. HIDE DEF d, a
<1>3. InPlace'
  <2>1. ModuleOf[RuleOf[a.basis]] = d /\ left' = left
    BY <1>1, <1>2 DEF One, InPlace, d
  <2>. QED BY <1>2, <2>1 DEF One, InPlace, d
<1>4. Busy' = Busy
  BY <1>1 DEF Busy
<1>5. (Known /\ Unique /\ Counted /\ Awaited /\ Executes)'
  BY <1>1, <1>2, <1>4 DEF One, Known, Unique, Counted, Awaited, Executes
<1>. QED BY <1>3, <1>5 DEF One

LEMMA SameCount ==
  ASSUME NEW P, NEW Q, NEW g \in [P -> Q], IsFiniteSet(P),
         \A a, b \in P : g[a] = g[b] => a = b,
         \A c \in Q : \E a \in P : g[a] = c
  PROVE  IsFiniteSet(Q) /\ Cardinality(Q) = Cardinality(P)
<1>1. g \in Bijection(P, Q)
  BY DEF Bijection, Injection, Surjection, IsInjective
<1>2. ExistsBijection(P, Q)
  BY <1>1 DEF ExistsBijection
<1>. QED BY <1>2, FS_Bijection

(* The agenda that is taken is as long refreshed as it was before, for     *)
(* Refreshed() gives no activation another age.                            *)
LEMMA TakeAgendaOne ==
  ASSUME IInv, One, TakeAgenda
  PROVE  One'
<1>. DEFINE d == Head(left)
<1>. DEFINE q == agenda[d]
<1>. DEFINE After(a) == IF refreshing THEN Refreshed(a) ELSE a
<1>1. /\ agenda' = [agenda EXCEPT ![d] = <<>>] /\ unplaced = <<>>
      /\ TypeOK /\ d \in Modules /\ agenda \in [Modules -> Seq(Activation)]
      /\ UNCHANGED <<matches, timetag, number, executing, pc, left, toActivate>>
  BY DEF TakeAgenda, IInv, Control, TypeOK, runVars
<1>2. q \in Seq(Activation) /\ DOMAIN unplaced' = DOMAIN q
      /\ \A n \in DOMAIN q : unplaced'[n] = After(q[n])
  BY <1>1 DEF TakeAgenda
<1>3. \A a \in Activation : After(a).timetag = a.timetag /\ After(a).basis = a.basis
  BY <1>1, RefreshedActivation
<1>4. agenda'[d] = <<>> /\ \A e \in Modules : e # d => agenda'[e] = agenda[e]
  BY <1>1
<1>. HIDE DEF d, q, After
<1>5. /\ \A a \in Elements(q) : After(a) \in Elements(unplaced')
      /\ \A c \in Elements(unplaced') : \E a \in Elements(q) : c = After(a)
  BY <1>2 DEF Elements
<1>6. \A e \in Modules : e # d => \A a \in Elements(agenda[e]) : a \notin Elements(q)
  BY <1>1 DEF One, InPlace, q
<1>7. Elements(unplaced) = {} /\ Elements(agenda'[d]) = {}
  BY <1>1, <1>4, NoElements
<1>8. \A a \in Pending : a \in Activation /\ a.timetag < timetag /\ a.basis \in matches
  BY <1>1, PendingActivations DEF One, Known
<1>9. PICK g : g = [a \in Pending |-> IF a \in Elements(q) THEN After(a) ELSE a]
  OBVIOUS
<1>10. \A a \in Pending : g[a].timetag = a.timetag /\ g[a].basis = a.basis
  BY <1>3, <1>8, <1>9
<1>11. ASSUME NEW a \in Pending PROVE g[a] \in Pending'
  <2>1. CASE a \in Elements(q)
    BY <1>5, <1>9, <2>1, PendingNext
  <2>2. CASE a \notin Elements(q)
    <3>1. PICK e \in Modules : a \in Elements(agenda[e])
      BY <1>7, PendingMembers
    <3>2. e # d
      BY <2>2, <3>1 DEF q
    <3>3. a \in Elements(agenda'[e])
      BY <1>4, <3>1, <3>2
    <3>. QED BY <1>9, <2>2, <3>3, PendingNext
  <2>. QED BY <2>1, <2>2
<1>12. ASSUME NEW c \in Pending' PROVE \E a \in Pending : g[a] = c
  <2>1. CASE c \in Elements(unplaced')
    <3>1. PICK a \in Elements(q) : c = After(a)
      BY <1>5, <2>1
    <3>2. a \in Pending
      BY <1>1, <3>1, PendingMembers DEF q
    <3>. QED BY <1>9, <3>1, <3>2
  <2>2. CASE c \notin Elements(unplaced')
    <3>1. PICK e \in Modules : c \in Elements(agenda'[e])
      BY <2>2, PendingNext
    <3>2. e # d /\ c \in Elements(agenda[e])
      BY <1>4, <1>7, <3>1
    <3>3. c \notin Elements(q) /\ c \in Pending
      BY <1>6, <3>2, PendingMembers
    <3>. QED BY <1>9, <3>3
  <2>. QED BY <2>1, <2>2
<1>13. \A a, b \in Pending : g[a].basis = g[b].basis \/ g[a].timetag = g[b].timetag => a = b
  BY <1>10 DEF One, Unique
<1>14. Counted'
  <2>1. g \in [Pending -> Pending']
    BY <1>9, <1>11
  <2>2. IsFiniteSet(Pending)
    BY DEF One, Counted
  <2>3. \A a, b \in Pending : g[a] = g[b] => a = b
    BY <1>13
  <2>4. IsFiniteSet(Pending') /\ Cardinality(Pending') = Cardinality(Pending)
    BY <1>12, <2>1, <2>2, <2>3, SameCount
  <2>5. Busy' = Busy
    BY <1>1 DEF Busy
  <2>. QED BY <1>1, <2>4, <2>5 DEF One, Counted
<1>15. Known'
  <2>. SUFFICES ASSUME NEW c \in Pending' PROVE c.basis \in matches' /\ c.timetag < timetag'
    BY DEF Known
  <2>. PICK a \in Pending : g[a] = c
    BY <1>12
  <2>. QED BY <1>1, <1>8, <1>10
<1>16. Unique'
  <2>. SUFFICES ASSUME NEW c \in Pending', NEW e \in Pending', c.basis = e.basis \/ c.timetag = e.timetag
                PROVE  c = e
    BY DEF Unique
  <2>1. PICK a \in Pending : g[a] = c
    BY <1>12
  <2>2. PICK b \in Pending : g[b] = e
    BY <1>12
  <2>. QED BY <1>13, <2>1, <2>2
<1>17. Awaited'
  <2>. SUFFICES ASSUME NEW m \in toActivate', NEW c \in Pending' PROVE c.basis # m
    BY DEF Awaited
  <2>. PICK a \in Pending : g[a] = c
    BY <1>12
  <2>. QED BY <1>1, <1>10 DEF One, Awaited
<1>18. InPlace'
  <2>1. \A e \in Modules : \A a \in Elements(agenda'[e]) : ModuleOf[RuleOf[a.basis]] = e
    BY <1>4, <1>7 DEF One, InPlace
  <2>2. \A c \in Elements(unplaced') : ModuleOf[RuleOf[c.basis]] = d
    <3>. SUFFICES ASSUME NEW c \in Elements(unplaced') PROVE ModuleOf[RuleOf[c.basis]] = d
      OBVIOUS
    <3>1. PICK a \in Elements(q) : c = After(a)
      BY <1>5
    <3>2. a \in Activation
      BY <1>2, ElementsActivations
    <3>3. c.basis = a.basis
      BY <1>3, <3>1, <3>2
    <3>. QED BY <1>1, <3>3 DEF One, InPlace, q
  <2>3. Head(left') = d
    BY <1>1 DEF d
  <2>. QED BY <2>1, <2>2, <2>3 DEF InPlace, Elements
<1>19. Executes'
  BY <1>1 DEF One, Executes
<1>. QED BY <1>14, <1>15, <1>16, <1>17, <1>18, <1>19 DEF One

LEMMA OneInit == Init => One
<1>. SUFFICES ASSUME Init PROVE One
  OBVIOUS
<1>1. Pending = {}
  <2>1. \A d \in Modules : Elements(agenda[d]) = {}
    BY NoElements DEF Init
  <2>2. Elements(unplaced) = {}
    BY NoElements DEF Init
  <2>. QED BY <2>1, <2>2, PendingMembers
<1>2. Counted
  <2>1. Busy = 0 /\ number = 0
    BY DEF Init, Busy
  <2>2. IsFiniteSet({}) /\ Cardinality({}) = 0
    BY FS_EmptySet
  <2>. QED BY <1>1, <2>1, <2>2 DEF Counted
<1>3. InPlace
  BY NoElements DEF Init, InPlace
<1>4. Known /\ Unique /\ Awaited /\ Executes
  BY <1>1 DEF Init, Known, Unique, Awaited, Executes
<1>. QED BY <1>2, <1>3, <1>4 DEF One

LEMMA OneStep == IInv /\ One /\ [Next]_vars => One'
<1>. SUFFICES ASSUME IInv, One, [Next]_vars PROVE One'
  OBVIOUS
<1>1. CASE Engine
  <2>1. CASE \E m \in Matches, id \in RandomIDs : RefreshNext(m, id)
    BY <2>1, RefreshNextOne
  <2>. QED BY <1>1, <2>1, FireOne, EndOfActionsOne, OtherOne, TakeAgendaOne, PlaceNextOne DEF Engine
<1>2. CASE \E m \in Matches, id \in RandomIDs : MatchAppears(m, id)
  BY <1>2, MatchAppearsOne
<1>3. CASE \E m \in Matches : MatchIsGone(m)
  BY <1>3, MatchIsGoneOne
<1>4. CASE \E r \in Rules : Refresh(r)
  BY <1>4, RefreshOne
<1>. QED BY <1>1, <1>2, <1>3, <1>4, OtherOne DEF Next

(* AddActivation(), RemoveActivation(), Run(), refresh and                 *)
(* ReorderAgenda() leave every match with one activation at most, on the   *)
(* agenda of its module, and count the activations right: as long as a     *)
(* loop is under way, too.                                                 *)
THEOREM OneActivationEach == Spec => []OneActivation
<1>1. Init => IInv /\ One
  BY InitInv, OneInit
<1>2. IInv /\ One /\ [Next]_vars => (IInv /\ One)'
  <2>1. IInv /\ One /\ [Next]_vars => IInv'
    BY NextKeeps
  <2>2. IInv /\ One /\ [Next]_vars => One'
    BY OneStep
  <2>. QED BY <2>1, <2>2
<1>3. IInv /\ One => OneActivation
  BY DEF One, OneActivation, Known, Unique, InPlace, Counted, Busy
<1>. QED BY <1>1, <1>2, <1>3, PTL DEF Spec
------------------------------------------------------------------------------
(* The engine implements ConflictSet: the lists are sets of activations,   *)
(* and their order is the one in which ConflictSet lets them fire.         *)

(* Refresh is done with before the next rule is looked for.                *)
Awaiting == toActivate # {} => pc # "next"
CSInv == IInv /\ One /\ Awaiting

LEMMA AwaitingStep == IInv /\ Awaiting /\ [Next]_vars => Awaiting'
<1>. SUFFICES ASSUME IInv, Awaiting, [Next]_vars PROVE Awaiting'
  OBVIOUS
<1>1. CASE pc' # "next"
  BY <1>1 DEF Awaiting
<1>2. CASE EndOfActions
  BY <1>2 DEF EndOfActions, Free, Awaiting
<1>3. CASE pc' = pc /\ toActivate' \subseteq toActivate
  BY <1>3 DEF Awaiting
<1>4. CASE \E r \in Rules : Refresh(r)
  <2>1. Command /\ pc' = pc
    BY <1>4 DEF Refresh, runVars
  <2>. QED BY <2>1, DuringCommand DEF Awaiting
<1>5. CASE Engine
  <2>1. CASE \E m \in Matches, id \in RandomIDs : RefreshNext(m, id)
    BY <2>1, <1>3 DEF RefreshNext, runVars
  <2>2. CASE TakeAgenda \/ PlaceNext \/ LeaveAgenda
    BY <2>2, <1>3 DEF TakeAgenda, PlaceNext, LeaveAgenda, runVars
  <2>3. CASE Fire \/ NextActivation \/ EndOfRun
    BY <2>3, <1>1 DEF Fire, NextActivation, EndOfRun
  <2>. QED BY <1>2, <1>5, <2>1, <2>2, <2>3 DEF Engine
<1>6. CASE UNCHANGED vars
  BY <1>3, <1>6 DEF vars, runVars
<1>7. CASE \E limit \in Limits : Run(limit)
  BY <1>1, <1>7 DEF Run
<1>8. CASE (\E m \in Matches, id \in RandomIDs : MatchAppears(m, id)) \/ \E m \in Matches : MatchIsGone(m)
  BY <1>3, <1>8 DEF MatchAppears, MatchIsGone, runVars
<1>9. CASE (\E m \in Modules : FocusCommand(m) \/ RefreshAgenda(m)) \/ FocusStackCommand \/ Halt \/ Return
  BY <1>3, <1>9 DEF FocusCommand, RefreshAgenda, FocusStackCommand, Halt, Return, runVars
<1>10. CASE \/ \E r \in Breakable : Breakpoint(r)
            \/ \E v \in Saliences : BindGlobal(v)
            \/ \E e \in Evaluations : SetSalienceEvaluation(e)
            \/ \E st \in TriedStrategies : SetStrategy(st)
  BY <1>3, <1>10 DEF Breakpoint, BindGlobal, SetSalienceEvaluation, SetStrategy, runVars
<1>. QED BY <1>4, <1>5, <1>6, <1>7, <1>8, <1>9, <1>10 DEF Next

(* The order of the list is that of ConflictSet.                           *)
LEMMA SameTypes == CS!Activation = Activation /\ CS!Strategies = Strategies
BY DEF CS!Activation, Activation, CS!Strategies, Strategies

LEMMA SameBasis == CS!SortedBasis = SortedBasis
BY Zenon DEF CS!SortedBasis, SortedBasis, CS!SortPartialMatch, SortPartialMatch,
             CS!Arrangements, Arrangements, CS!Descends, Descends, CS!Movable, Movable

LEMMA SameOrder ==
  ASSUME NEW st, NEW a, NEW b
  PROVE  CS!StaysAhead(st, a, b) <=> StaysAhead(st, a, b)
<1>1. \A x, y : CS!Greater(x, y) <=> Greater(x, y)
  <2>1. \A s, t : CS!FirstGreater(s, t) <=> FirstGreater(s, t)
    BY DEF CS!FirstGreater, FirstGreater
  <2>2. \A s, t : CS!SameItems(s, t) <=> SameItems(s, t)
    BY DEF CS!SameItems, SameItems
  <2>3. \A x : CS!ComplexityOf(x) = ComplexityOf(x)
    BY DEF CS!ComplexityOf, ComplexityOf
  <2>. QED BY SameBasis, <2>1, <2>2, <2>3 DEF CS!Greater, Greater
<1>2. \A x : CS!FirstItem(x) = FirstItem(x) /\ CS!ComplexityOf(x) = ComplexityOf(x)
  BY DEF CS!FirstItem, FirstItem, CS!ComplexityOf, ComplexityOf
<1>3. \A x, y : CS!Preferred(st, x, y) <=> Preferred(st, x, y)
  BY <1>1, <1>2 DEF CS!Preferred, Preferred
<1>. QED BY <1>3, Zenon DEF CS!StaysAhead, StaysAhead

(* The activations of a module are those on its agenda, but while it is    *)
(* taken apart.                                                            *)
LEMMA PendingOfAgenda ==
  ASSUME InPlace, unplaced = <<>>, NEW d \in Modules
  PROVE  CS!PendingOf(d) = Elements(agenda[d])
<1>1. Elements(unplaced) = {}
  BY NoElements
<1>2. \A a \in Elements(agenda[d]) : a \in Pending /\ ModuleOf[RuleOf[a.basis]] = d
  BY PendingMembers DEF InPlace
<1>3. \A a \in Pending : ModuleOf[RuleOf[a.basis]] = d => a \in Elements(agenda[d])
  BY <1>1, PendingMembers DEF InPlace
<1>. QED BY <1>2, <1>3 DEF CS!PendingOf, CS!ModuleOfActivation

(* Steps that ConflictSet does not see.                                    *)
LEMMA Unseen ==
  ASSUME Pending' = Pending, UNCHANGED <<strategy, focus, pc, executing>>
  PROVE  UNCHANGED CS!vars
BY DEF CS!vars

LEMMA SamePending ==
  ASSUME UNCHANGED <<agenda, unplaced>>
  PROVE  Pending' = Pending
BY DEF Pending, Elements

LEMMA Activates ==
  ASSUME TypeOK, One, NEW m \in Matches, NEW id \in RandomIDs, AddActivation(m, id),
         UNCHANGED <<strategy, pc, executing, unplaced>>, pc \in {"idle", "rhs"},
         \A a \in Pending : a.basis # m
  PROVE  CS!Next
<1>. DEFINE mod == ModuleOf[RuleOf[m]]
<1>. DEFINE new == [basis |-> m, salience |-> EvaluateSalience(RuleOf[m]),
                    timetag |-> timetag, random |-> id]
<1>1. Pending' = Pending \union {new}
  BY PendingAdded
<1>2. new \in CS!Activation /\ new.basis = m /\ new.timetag = timetag
  BY NewActivation, SameTypes
<1>3. focus' = IF RuleOf[m] \in AutoFocus THEN Focus(focus, mod) ELSE focus
  BY DEF AddActivation
<1>. HIDE DEF new
<1>4. \A b \in Pending : b.basis # new.basis /\ b.timetag < new.timetag
  BY <1>2 DEF One, Known
<1>5. new \in Pending' \ Pending
  BY <1>1, <1>2
<1>6. CS!ModuleOfActivation(new) = mod
  BY <1>2 DEF CS!ModuleOfActivation
<1>7. focus' = IF RuleOf[new.basis] \in AutoFocus
                    /\ (focus # <<>> => Head(focus) # CS!ModuleOfActivation(new))
                 THEN <<CS!ModuleOfActivation(new)>> \o focus ELSE focus
  BY <1>2, <1>3, <1>6 DEF Focus
<1>8. CS!Activate(new)
  BY <1>1, <1>2, <1>4, <1>7 DEF CS!Activate, CS!AtCommand
<1>. QED BY <1>5, <1>8 DEF CS!Next

LEMMA ActivatesMatch ==
  ASSUME CSInv, NEW m \in Matches, NEW id \in RandomIDs, MatchAppears(m, id)
  PROVE  CS!Next
<1>1. TypeOK /\ One /\ pc \in {"idle", "rhs"}
  BY DuringCommand DEF CSInv, IInv, MatchAppears
<1>2. AddActivation(m, id) /\ m \notin matches /\ UNCHANGED <<strategy, pc, executing, unplaced>>
  BY DEF MatchAppears, settings, runVars, loopVars
<1>3. \A a \in Pending : a.basis # m
  BY <1>1, <1>2 DEF One, Known
<1>. QED BY <1>1, <1>2, <1>3, Activates

LEMMA ActivatesRefreshed ==
  ASSUME CSInv, NEW m \in Matches, NEW id \in RandomIDs, RefreshNext(m, id)
  PROVE  CS!Next \/ UNCHANGED CS!vars
<1>1. /\ TypeOK /\ One /\ m \in toActivate
      /\ UNCHANGED <<strategy, pc, executing, unplaced>>
  BY DEF CSInv, IInv, RefreshNext, settings, runVars, loopVars
<1>2. pc \in {"idle", "rhs"}
  BY <1>1 DEF CSInv, IInv, Control, Awaiting, TypeOK
<1>3. CASE AddActivation(m, id)
  <2>1. \A a \in Pending : a.basis # m
    BY <1>1 DEF One, Awaited
  <2>. QED BY <1>1, <1>2, <1>3, <2>1, Activates
<1>4. CASE UNCHANGED <<listVars, ruleSalience, focus>>
  BY <1>1, <1>4, SamePending, Unseen DEF listVars
<1>. QED BY <1>3, <1>4 DEF RefreshNext

LEMMA Deactivates ==
  ASSUME CSInv, NEW m \in Matches, MatchIsGone(m)
  PROVE  CS!Next \/ UNCHANGED CS!vars
<1>. DEFINE d == ModuleOf[RuleOf[m]]
<1>. DEFINE q == agenda[d]
<1>1. /\ TypeOK /\ One /\ Ages /\ unplaced = <<>> /\ pc \in {"idle", "rhs"} /\ d \in Modules
      /\ agenda \in [Modules -> Seq(Activation)]
      /\ UNCHANGED <<strategy, focus, pc, executing, unplaced>>
  BY DuringCommand, MatchesAssumption, RulesAssumption
     DEF MatchIsGone, CSInv, IInv, TypeOK, settings, runVars, loopVars
<1>2. CASE UNCHANGED agenda
  BY <1>1, <1>2, SamePending, Unseen
<1>3. ASSUME NEW n \in Listed(m), agenda' = [agenda EXCEPT ![d] = DropAt(@, n)]
      PROVE  CS!Next
  <2>. DEFINE a == q[n]
  <2>1. q \in Seq(Activation) /\ n \in DOMAIN q /\ DifferentAges(q)
    BY <1>1, <1>3 DEF Listed, Ages
  <2>2. Elements(DropAt(q, n)) = Elements(q) \ {a} /\ a \in Elements(q)
    BY <2>1, ElementsDropped
  <2>3. agenda'[d] = DropAt(q, n) /\ \A e \in Modules : e # d => agenda'[e] = agenda[e]
    BY <1>1, <1>3
  <2>. HIDE DEF a, q, d
  <2>4. a \in Pending /\ Pending' = Pending \ {a}
    BY <1>1, <2>2, <2>3, PendingDropped DEF q
  <2>5. CS!Deactivate(a)
    BY <1>1, <2>4 DEF CS!Deactivate, CS!AtCommand
  <2>. QED BY <2>4, <2>5 DEF CS!Next
<1>. QED BY <1>2, <1>3 DEF MatchIsGone

LEMMA SetsStrategy ==
  ASSUME CSInv, NEW st \in TriedStrategies, SetStrategy(st)
  PROVE  CS!Next
<1>1. /\ pc \in {"idle", "rhs"} /\ strategy' = st
      /\ UNCHANGED <<agenda, unplaced, focus, pc, executing>>
  BY DuringCommand DEF CSInv, SetStrategy, Change, listVars, runVars
<1>2. st \in CS!Strategies
  BY SameTypes, RuleSetsAssumption
<1>3. CS!SetStrategy(st)
  BY <1>1, SamePending DEF CS!SetStrategy, CS!AtCommand
<1>. QED BY <1>2, <1>3 DEF CS!Next

LEMMA ChangesFocus ==
  ASSUME CSInv, (\E m \in Modules : FocusCommand(m)) \/ FocusStackCommand
  PROVE  CS!Next \/ UNCHANGED CS!vars
<1>1. /\ pc \in {"idle", "rhs"} /\ UNCHANGED <<agenda, unplaced, strategy, pc, executing>>
  BY DuringCommand DEF CSInv, FocusCommand, FocusStackCommand, settings, listVars, runVars, loopVars
<1>2. Pending' = Pending
  BY <1>1, SamePending
<1>3. \/ focus' = focus
      \/ focus' \in { <<m>> \o focus : m \in Modules } \union { <<>>, <<Main>> }
                      \union (IF focus = <<>> THEN {} ELSE { Tail(focus) })
  <2>1. CASE \E m \in Modules : FocusCommand(m)
    BY <2>1 DEF FocusCommand, Focus
  <2>2. CASE FocusStackCommand
    <3>1. <<Main>> \o <<>> = <<Main>>
      BY ModuleListAssumption
    <3>. QED BY <2>2, <3>1 DEF FocusStackCommand, Pop, Focus
  <2>. QED BY <2>1, <2>2
<1>4. CASE focus' = focus
  BY <1>1, <1>2, <1>4, Unseen
<1>5. CASE focus' # focus
  <2>1. CS!ChangeFocus
    BY <1>1, <1>2, <1>3, <1>5 DEF CS!ChangeFocus, CS!AtCommand
  <2>. QED BY <2>1 DEF CS!Next
<1>. QED BY <1>4, <1>5

(* An agenda that is taken apart to be placed anew loses nothing; one that *)
(* is refreshed gets the saliences of its rules.                           *)
LEMMA TakesAgenda ==
  ASSUME CSInv, TakeAgenda
  PROVE  CS!Next \/ UNCHANGED CS!vars
<1>. DEFINE d == Head(left)
<1>. DEFINE q == agenda[d]
<1>1. /\ agenda' = [agenda EXCEPT ![d] = <<>>] /\ unplaced = <<>> /\ pc # "test" /\ InPlace
      /\ TypeOK /\ d \in Modules /\ agenda \in [Modules -> Seq(Activation)]
      /\ UNCHANGED <<strategy, focus, pc, executing>>
  BY DEF TakeAgenda, CSInv, IInv, One, Control, TypeOK, settings, runVars
<1>2. agenda'[d] = <<>> /\ \A e \in Modules : e # d => agenda'[e] = agenda[e]
  BY <1>1
<1>3. CS!PendingOf(d) = Elements(q)
  BY <1>1, PendingOfAgenda
<1>4. CASE unplaced' = q
  <2>1. Elements(agenda'[d]) = {} /\ Elements(unplaced) = {}
    BY <1>1, <1>2, NoElements
  <2>. HIDE DEF d
  <2>2. \A a : a \in Pending' <=> a \in Pending
    BY <1>1, <1>2, <1>4, <2>1, PendingMembers, PendingNext
  <2>3. Pending' = Pending
    BY <2>2
  <2>. QED BY <1>1, <2>3, Unseen
<1>5. CASE unplaced' = [n \in DOMAIN q |-> Refreshed(q[n])]
  <2>1. PICK salience : salience = [r \in Rules |-> IF r \in Dynamic THEN global ELSE ruleSalience[r]]
    OBVIOUS
  <2>2. salience \in [Rules -> Saliences]
    BY <1>1, <2>1 DEF TypeOK
  <2>3. ASSUME NEW a \in Activation PROVE Refreshed(a) = [a EXCEPT !.salience = salience[RuleOf[a.basis]]]
    <3>1. RuleOf[a.basis] \in Rules
      BY MatchesAssumption DEF Activation
    <3>. QED BY <2>1, <3>1 DEF Refreshed
  <2>4. q \in Seq(Activation)
    BY <1>1
  <2>5. \A a \in Elements(q) : a \in Activation
    BY <2>4, ElementsActivations
  <2>6. Elements(unplaced') = { [a EXCEPT !.salience = salience[RuleOf[a.basis]]] : a \in Elements(q) }
    <3>1. \A n \in DOMAIN q : Refreshed(q[n]) = [q[n] EXCEPT !.salience = salience[RuleOf[q[n].basis]]]
      BY <2>3, <2>5 DEF Elements
    <3>. HIDE DEF q, d
    <3>2. \A n \in DOMAIN q : unplaced'[n] = [q[n] EXCEPT !.salience = salience[RuleOf[q[n].basis]]]
      BY <1>5, <3>1
    <3>3. DOMAIN unplaced' = DOMAIN q
      BY <1>5
    <3>. QED BY <3>2, <3>3 DEF Elements
  <2>7. Pending' = (Pending \ Elements(q)) \union Elements(unplaced')
    <3>1. Elements(agenda'[d]) = {} /\ Elements(unplaced) = {}
      BY <1>1, <1>2, NoElements
    <3>2. \A e \in Modules : e # d => \A a \in Elements(agenda[e]) : a \notin Elements(q)
      BY <1>1 DEF InPlace
    <3>. HIDE DEF d
    <3>3. \A a : a \in Pending' => a \in (Pending \ Elements(q)) \union Elements(unplaced')
      BY <1>1, <1>2, <3>1, <3>2, PendingMembers, PendingNext
    <3>4. \A a \in Pending \ Elements(q) : a \in Pending'
      BY <1>1, <1>2, <3>1, PendingMembers, PendingNext
    <3>5. \A a \in Elements(unplaced') : a \in Pending'
      BY PendingNext
    <3>. QED BY <3>3, <3>4, <3>5
  <2>. HIDE DEF d, q
  <2>8. CS!Evaluate(d)
    BY <1>1, <1>3, <2>2, <2>6, <2>7 DEF CS!Evaluate
  <2>. QED BY <1>1, <2>8 DEF CS!Next
<1>. QED BY <1>4, <1>5 DEF TakeAgenda

(* What NextActivationToFire() leaves of the focus stack.                  *)
LEMMA FocusSelected ==
  ASSUME TypeOK, NEW f \in Seq(Modules)
  PROVE  LET g == IF f = <<>> THEN <<Main>> ELSE f
         IN  /\ g \in Seq(Modules)
             /\ \E n \in 1..(Len(g) + 1) :
                  /\ FocusToFire(f) = SubSeq(g, n, Len(g))
                  /\ \A k \in 1..(n - 1) : k \in DOMAIN g /\ agenda[g[k]] = <<>>
                  /\ n <= Len(g) => n \in DOMAIN g /\ agenda[g[n]] # <<>>
<1>. DEFINE g == IF f = <<>> THEN <<Main>> ELSE f
<1>. DEFINE stops == { n \in DOMAIN g : agenda[g[n]] # <<>> }
<1>1. g \in Seq(Modules)
  BY ModuleListAssumption
<1>2. FocusToFire(f) = IF stops = {} THEN <<>>
                       ELSE SubSeq(g, CHOOSE n \in stops : \A k \in stops : n <= k, Len(g))
  BY DEF FocusToFire
<1>. HIDE DEF g
<1>3. Len(g) \in Nat /\ DOMAIN g = 1..Len(g)
  BY <1>1
<1>4. CASE stops = {}
  <2>. DEFINE n == Len(g) + 1
  <2>1. n \in 1..(Len(g) + 1) /\ ~(n <= Len(g)) /\ n - 1 = Len(g)
    BY <1>3
  <2>2. SubSeq(g, n, Len(g)) = <<>>
    BY <1>1, <1>3
  <2>3. \A k \in 1..(n - 1) : k \in DOMAIN g /\ agenda[g[k]] = <<>>
    BY <1>3, <1>4, <2>1
  <2>. HIDE DEF n
  <2>4. FocusToFire(f) = SubSeq(g, n, Len(g))
    BY <1>2, <1>4, <2>2
  <2>. QED BY <1>1, <2>1, <2>3, <2>4 DEF g
<1>5. CASE stops # {}
  <2>. DEFINE n == CHOOSE n \in stops : \A k \in stops : n <= k
  <2>1. stops \in SUBSET Nat
    BY <1>3
  <2>2. n \in stops /\ \A k \in stops : n <= k
    <3>. HIDE DEF stops
    <3>. QED BY <2>1, <1>5, LeastElement
  <2>3. FocusToFire(f) = SubSeq(g, n, Len(g))
    BY <1>2, <1>5
  <2>. HIDE DEF n
  <2>4. n \in 1..Len(g) /\ n \in 1..(Len(g) + 1) /\ n \in DOMAIN g /\ agenda[g[n]] # <<>>
    BY <1>3, <2>2
  <2>5. \A k \in 1..(n - 1) : k \in DOMAIN g /\ agenda[g[k]] = <<>>
    <3>. SUFFICES ASSUME NEW k \in 1..(n - 1) PROVE k \in DOMAIN g /\ agenda[g[k]] = <<>>
      OBVIOUS
    <3>1. k \in DOMAIN g /\ ~(n <= k)
      BY <1>3, <2>4
    <3>. QED BY <2>2, <3>1
  <2>. QED BY <1>1, <2>3, <2>4, <2>5 DEF g
<1>. QED BY <1>4, <1>5

LEMMA Selects ==
  ASSUME CSInv, (\E limit \in Limits : Run(limit)) \/ NextActivation
  PROVE  CS!Next
<1>1. /\ TypeOK /\ InPlace /\ unplaced = <<>> /\ pc \in {"idle", "next"} /\ pc' = "test"
      /\ focus \in Seq(Modules) /\ UNCHANGED <<agenda, unplaced, strategy, executing>>
  BY DEF Run, NextActivation, Free, CSInv, IInv, One, Control, TypeOK, settings, listVars, loopVars
<1>2. PICK f \in {focus, IF focus = <<>> THEN focus ELSE Tail(focus)} :
             focus' = FocusToFire(f) /\ (pc = "idle" => f = focus)
  BY DEF Run, NextActivation, Pop
<1>3. f \in Seq(Modules)
  BY <1>1, <1>2
<1>. DEFINE g == IF f = <<>> THEN <<Main>> ELSE f
<1>4. g \in Seq(Modules)
  BY <1>1, <1>3, FocusSelected
<1>5. PICK n \in 1..(Len(g) + 1) :
             /\ FocusToFire(f) = SubSeq(g, n, Len(g))
             /\ \A k \in 1..(n - 1) : k \in DOMAIN g /\ agenda[g[k]] = <<>>
             /\ n <= Len(g) => n \in DOMAIN g /\ agenda[g[n]] # <<>>
  BY <1>1, <1>3, FocusSelected
<1>. HIDE DEF g
<1>6. ASSUME NEW k \in DOMAIN g PROVE CS!PendingOf(g[k]) = {} <=> agenda[g[k]] = <<>>
  <2>1. g[k] \in Modules
    BY <1>4
  <2>2. CS!PendingOf(g[k]) = Elements(agenda[g[k]]) /\ agenda[g[k]] \in Seq(Activation)
    BY <1>1, <2>1, PendingOfAgenda DEF TypeOK
  <2>3. CASE agenda[g[k]] = <<>>
    BY <2>2, <2>3, NoElements
  <2>4. CASE agenda[g[k]] # <<>>
    <3>1. 1 \in DOMAIN agenda[g[k]]
      BY <2>2, <2>4
    <3>. QED BY <2>2, <2>4, <3>1 DEF Elements
  <2>. QED BY <2>3, <2>4
<1>7. /\ focus' = SubSeq(g, n, Len(g))
      /\ \A k \in 1..(n - 1) : CS!PendingOf(g[k]) = {}
      /\ n <= Len(g) => CS!PendingOf(g[n]) # {}
  BY <1>2, <1>5, <1>6
<1>8. Pending' = Pending
  BY <1>1, SamePending
<1>9. CS!Select
  BY <1>1, <1>2, <1>7, <1>8 DEF CS!Select, g
<1>. QED BY <1>9 DEF CS!Next

(* The first of a sorted agenda comes before all others.                   *)
LEMMA Fires ==
  ASSUME CSInv, Fire
  PROVE  CS!Next
<1>. DEFINE d == Head(focus)
<1>. DEFINE q == agenda[d]
<1>. DEFINE a == Head(q)
<1>1. /\ pc = "test" /\ pc' = "rhs" /\ executing' = a /\ agenda' = [agenda EXCEPT ![d] = Tail(q)]
      /\ TypeOK /\ One /\ Ages /\ AgendaSorted /\ left = <<>> /\ unplaced = <<>>
      /\ focus # <<>> /\ q # <<>> /\ d \in Modules
      /\ agenda \in [Modules -> Seq(Activation)]
      /\ UNCHANGED <<unplaced, strategy, focus>>
  BY DEF Fire, GoesOn, CSInv, IInv, Control, TypeOK, settings, loopVars
<1>2. q \in Seq(Activation) /\ DifferentAges(q) /\ Sorted(strategy, q)
  BY <1>1 DEF Ages, AgendaSorted, Settled
<1>3. CS!PendingOf(d) = Elements(q)
  BY <1>1, PendingOfAgenda DEF One
<1>. HIDE DEF d
<1>4. Elements(Tail(q)) = Elements(q) \ {a} /\ a \in Elements(q)
  BY <1>1, <1>2, ElementsTail
<1>5. agenda'[d] = Tail(q) /\ \A e \in Modules : e # d => agenda'[e] = agenda[e]
  BY <1>1
<1>6. ASSUME NEW b \in Elements(q), b # a PROVE CS!StaysAhead(strategy, a, b)
  <2>1. PICK n \in DOMAIN q : b = q[n]
    BY DEF Elements
  <2>2. a = q[1] /\ 1 \in DOMAIN q /\ DOMAIN q = 1..Len(q) /\ Len(q) \in Nat
    BY <1>1, <1>2
  <2>3. 1 < n
    BY <1>6, <2>1, <2>2
  <2>4. StaysAhead(strategy, q[1], q[n])
    BY <1>2, <2>2, <2>3 DEF Sorted
  <2>. QED BY <2>1, <2>2, <2>4, SameOrder
<1>. HIDE DEF a, q
<1>7. a \in Pending /\ Pending' = Pending \ {a}
  BY <1>1, <1>4, <1>5, PendingDropped DEF q
<1>8. CS!Fire(a)
  BY <1>1, <1>3, <1>4, <1>6, <1>7 DEF CS!Fire, d
<1>. QED BY <1>7, <1>8 DEF CS!Next

LEMMA ConflictSetStep ==
  CSInv /\ [Next]_vars => CS!Next \/ UNCHANGED CS!vars
<1>. SUFFICES ASSUME CSInv, [Next]_vars PROVE CS!Next \/ UNCHANGED CS!vars
  OBVIOUS
<1>0. IInv
  BY DEF CSInv
<1>1. CASE UNCHANGED <<agenda, unplaced, strategy, focus, pc, executing>>
  BY <1>1, SamePending, Unseen
<1>2. CASE Engine
  <2>1. CASE \E m \in Matches, id \in RandomIDs : RefreshNext(m, id)
    BY <2>1, ActivatesRefreshed
  <2>2. CASE PlaceNext
    <3>1. Pending' = Pending
      BY <1>0, <2>2, PlaceNextMoves
    <3>. QED BY <2>2, <3>1, Unseen DEF PlaceNext, settings, runVars
  <2>3. CASE LeaveAgenda
    BY <2>3, <1>1 DEF LeaveAgenda, settings, listVars, runVars
  <2>4. CASE EndOfActions
    <3>1. /\ pc = "rhs" /\ pc' = "next" /\ executing' = NoActivation
          /\ UNCHANGED <<agenda, unplaced, strategy, focus>>
      BY <2>4 DEF EndOfActions, settings
    <3>2. CS!Finish
      BY <3>1, SamePending DEF CS!Finish
    <3>. QED BY <3>2 DEF CS!Next
  <2>5. CASE EndOfRun
    <3>1. pc = "test" /\ pc' = "idle" /\ UNCHANGED <<agenda, unplaced, strategy, focus, executing>>
      BY <2>5 DEF EndOfRun, settings, listVars, loopVars
    <3>2. CS!EndOfRun
      BY <3>1, SamePending DEF CS!EndOfRun
    <3>. QED BY <3>2 DEF CS!Next
  <2>. QED BY <1>2, <2>1, <2>2, <2>3, <2>4, <2>5, Fires, Selects, TakesAgenda DEF Engine
<1>3. CASE \E r \in Rules : Refresh(r)
  BY <1>3, <1>1 DEF Refresh, settings, listVars, runVars, loopVars
<1>4. CASE (\E m \in Modules : RefreshAgenda(m)) \/ Halt \/ Return
  BY <1>4, <1>1 DEF RefreshAgenda, Halt, Return, settings, listVars, runVars, loopVars
<1>5. CASE \/ \E r \in Breakable : Breakpoint(r)
           \/ \E v \in Saliences : BindGlobal(v)
           \/ \E e \in Evaluations : SetSalienceEvaluation(e)
  BY <1>5, <1>1 DEF Breakpoint, BindGlobal, SetSalienceEvaluation, listVars, runVars, loopVars
<1>6. CASE UNCHANGED vars
  BY <1>6, <1>1 DEF vars, settings, listVars, runVars, loopVars
<1>. QED BY <1>2, <1>3, <1>4, <1>5, <1>6, ActivatesMatch, Deactivates, SetsStrategy, ChangesFocus,
            Selects DEF Next

LEMMA ConflictSetInit == Init => CS!Init
<1>. SUFFICES ASSUME Init PROVE CS!Init
  OBVIOUS
<1>1. Pending = {}
  <2>1. \A d \in Modules : Elements(agenda[d]) = {}
    BY NoElements DEF Init
  <2>2. Elements(unplaced) = {}
    BY NoElements DEF Init
  <2>. QED BY <2>1, <2>2, PendingMembers
<1>. QED BY <1>1 DEF Init, CS!Init

(* Whatever the rules, the matches and the commands: Run() fires of the    *)
(* module in focus the activation that comes before all its others, takes  *)
(* the focus from no module that has something to fire, and reordering and *)
(* refreshing agendas neither loses nor doubles what is to fire.           *)
THEOREM ImplementsConflictSet == Spec => FiresInOrder
<1>1. Init => CSInv
  BY InitInv, OneInit DEF CSInv, Init, Awaiting
<1>2. CSInv /\ [Next]_vars => CSInv'
  <2>1. IInv /\ [Next]_vars => IInv'
    BY NextKeeps
  <2>2. IInv /\ One /\ [Next]_vars => One'
    BY OneStep
  <2>3. IInv /\ Awaiting /\ [Next]_vars => Awaiting'
    BY AwaitingStep
  <2>. QED BY <2>1, <2>2, <2>3 DEF CSInv
<1>3. Init => CS!Init
  BY ConflictSetInit
<1>4. CSInv /\ [Next]_vars => [CS!Next]_(CS!vars)
  BY ConflictSetStep
<1>. QED BY <1>1, <1>2, <1>3, <1>4, PTL DEF Spec, FiresInOrder, CS!Spec
==============================================================================
