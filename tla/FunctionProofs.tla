---------------------------- MODULE FunctionProofs ----------------------------
(***************************************************************************)
(* Proofs about the merge of documents, their structured diff and the line *)
(* diff.  MergeIsCellByCell, MergeTwiceIsMergeOnce and DiffIsExact are     *)
(* about any documents, HunksLead and KeptIsLongest about any texts,       *)
(* whatever they say and however long, and not only about the inputs of    *)
(* MCFunctions.  What they need to know of lists is proved first.          *)
(***************************************************************************)
EXTENDS MCFunctions, WellFoundedInduction, FiniteSetTheorems, TLAPS

-----------------------------------------------------------------------------
(* Naturals and lists: the least of some numbers, induction up to a bound, *)
(* the function a fold is defined by, and what a filter leaves of a list.  *)

LEMMA LeastOfNaturals ==
  ASSUME NEW T \in SUBSET Nat, T # {}
  PROVE  \E m \in T : \A k \in T : m <= k
<1>1. PICK m \in T : \A k \in T : <<k, m>> \notin OpToRel(<, Nat)
  BY NatLessThanWellFounded, WFMin
<1>2. \A k \in T : ~(k < m)
  BY <1>1 DEF OpToRel
<1> QED BY <1>2

\* What holds at 0, and one further whenever it holds, holds up to n.
LEMMA UpTo ==
  ASSUME NEW n \in Nat, NEW good, 0 \in good,
         \A k \in Nat : k < n /\ k \in good => k + 1 \in good
  PROVE  \A k \in 0 .. n : k \in good
<1> DEFINE bad == {k \in 0 .. n : k \notin good}
<1> SUFFICES ASSUME bad # {} PROVE FALSE
  OBVIOUS
<1>1. bad \in SUBSET Nat
  OBVIOUS
<1>2. PICK k \in bad : \A j \in bad : k <= j
  BY <1>1, LeastOfNaturals
<1>3. k \in Nat /\ k <= n /\ k # 0 /\ k \notin good
  BY <1>2
<1>4. k - 1 \in Nat /\ k - 1 < n /\ k - 1 + 1 = k /\ k - 1 \in 0 .. n /\ ~(k <= k - 1)
  BY <1>3
<1>5. k - 1 \notin bad
  <2> HIDE DEF bad
  <2> QED BY <1>2, <1>4
<1>6. k - 1 \in good
  BY <1>4, <1>5
<1> QED BY <1>3, <1>4, <1>6

\* The greatest of the first numbers.
LEMMA GreatestOfSome ==
  ASSUME NEW m \in Nat, NEW s \in SUBSET (1 .. m), s # {}
  PROVE  /\ Max(s) \in s /\ \A y \in s : y <= Max(s)
         /\ Max(s) \in 1 .. m /\ s \ {Max(s)} \in SUBSET (1 .. m - 1)
<1> DEFINE Bounds == {b \in Nat : \A y \in s : y <= b}
<1>1. PICK b \in Bounds : \A c \in Bounds : b <= c
  <2>1. m \in Bounds
    OBVIOUS
  <2> QED BY <2>1, LeastOfNaturals
<1>2. b \in s
  <2> SUFFICES ASSUME b \notin s PROVE FALSE
    OBVIOUS
  <2>1. PICK x : x \in s
    OBVIOUS
  <2>2. x \in Nat /\ x >= 1 /\ x <= b
    BY <2>1
  <2>3. \A y \in s : y <= b - 1
    OBVIOUS
  <2>4. b - 1 \in Bounds
    BY <2>2, <2>3
  <2> QED BY <1>1, <2>4
<1>3. b \in s /\ \A y \in s : b >= y
  BY <1>2
<1>4. \A x \in s : (\A y \in s : x >= y) => x = b
  BY <1>3
<1>5. Max(s) = b
  BY <1>3, <1>4 DEF Max
<1>6. b \in Nat /\ 1 <= b /\ b <= m
  BY <1>2
<1>7. ASSUME NEW y \in s \ {b} PROVE y \in 1 .. m - 1
  <2>1. y \in Nat /\ 1 <= y /\ y <= b /\ y # b
    BY <1>3
  <2> HIDE DEF Bounds
  <2> QED BY <1>6, <2>1
<1> HIDE DEF Bounds
<1> QED BY <1>3, <1>5, <1>6, <1>7

LEMMA GreatestIsLast ==
  ASSUME NEW k \in Nat, k # 0
  PROVE  Max(1 .. k) = k /\ (1 .. k) \ {k} = 1 .. k - 1
<1>1. 1 .. k \in SUBSET (1 .. k) /\ 1 .. k # {} /\ k \in 1 .. k
  OBVIOUS
<1>2. Max(1 .. k) \in 1 .. k /\ \A y \in 1 .. k : y <= Max(1 .. k)
  BY <1>1, GreatestOfSome
<1>3. Max(1 .. k) = k
  BY <1>1, <1>2
<1>4. ASSUME NEW y PROVE y \in (1 .. k) \ {k} <=> y \in 1 .. k - 1
  OBVIOUS
<1> QED BY <1>3, <1>4

\* Each of the first n places has a map of T, and g is what they make of base,
\* for every set of these places.
Maps(f, n, T) == f \in [1 .. n -> [T -> T]]

Folded(g, f, n, T, base) ==
  /\ g \in [SUBSET (1 .. n) -> T] /\ g[{}] = base
  /\ \A s \in SUBSET (1 .. n) : s # {} => g[s] = f[Max(s)][g[s \ {Max(s)}]]

\* The function a fold is defined by exists, when the folded operation has values.
LEMMA FoldExists ==
  ASSUME NEW n \in Nat, NEW T, NEW base \in T, NEW f, Maps(f, n, T)
  PROVE  \E g : Folded(g, f, n, T, base)
<1>0. f \in [1 .. n -> [T -> T]]
  BY DEF Maps
<1> DEFINE Step(g, s) == IF s = {} THEN base ELSE f[Max(s)][g[s \ {Max(s)}]]
           Built(m, g) == /\ g \in [SUBSET (1 .. m) -> T]
                          /\ g = [s \in SUBSET (1 .. m) |-> Step(g, s)]
           good == {m \in Nat : m <= n => \E g : Built(m, g)}
<1>1. 0 \in good
  <2> DEFINE g == [s \in SUBSET (1 .. 0) |-> base]
  <2>1. \A s \in SUBSET (1 .. 0) : s = {}
    OBVIOUS
  <2>2. \A s \in SUBSET (1 .. 0) : Step(g, s) = base
    BY <2>1
  <2>3. Built(0, g)
    <3> HIDE DEF Step
    <3> QED BY <2>2
  <2> QED BY <2>3
<1>2. ASSUME NEW k \in Nat, k < n, k \in good PROVE k + 1 \in good
  <2>1. PICK g : Built(k, g)
    <3> HIDE DEF Built
    <3> QED BY <1>2
  <2> DEFINE h == [s \in SUBSET (1 .. k + 1) |-> Step(g, s)]
  <2>2. ASSUME NEW s \in SUBSET (1 .. k + 1), s # {}
        PROVE  /\ Max(s) \in 1 .. n /\ s \ {Max(s)} \in SUBSET (1 .. k)
               /\ g[s \ {Max(s)}] \in T /\ Step(g, s) \in T
    <3>1. /\ Max(s) \in 1 .. k + 1 /\ s \ {Max(s)} \in SUBSET (1 .. k + 1 - 1)
      <4>1. k + 1 \in Nat
        OBVIOUS
      <4> HIDE DEF Step, Built, good
      <4> QED BY <2>2, <4>1, GreatestOfSome
    <3>2. k + 1 - 1 = k /\ 1 .. k + 1 \subseteq 1 .. n
      BY <1>2
    <3>3. Max(s) \in 1 .. n /\ s \ {Max(s)} \in SUBSET (1 .. k)
      BY <3>1, <3>2
    <3>4. g[s \ {Max(s)}] \in T
      BY <2>1, <3>3
    <3>5. f[Max(s)][g[s \ {Max(s)}]] \in T
      BY <1>0, <3>3, <3>4
    <3> QED BY <2>2, <3>3, <3>4, <3>5
  <2>3. ASSUME NEW s \in SUBSET (1 .. k) PROVE h[s] = g[s]
    <3>1. s \in SUBSET (1 .. k + 1)
      OBVIOUS
    <3>2. g[s] = Step(g, s)
      BY <2>1
    <3> QED BY <3>1, <3>2
  <2>4. ASSUME NEW s \in SUBSET (1 .. k + 1) PROVE Step(g, s) = Step(h, s)
    <3>1. CASE s = {}
      BY <3>1
    <3>2. CASE s # {}
      <4>1. h[s \ {Max(s)}] = g[s \ {Max(s)}]
        BY <2>2, <2>3, <3>2
      <4> QED BY <4>1
    <3> QED BY <3>1, <3>2
  <2>5. \A s \in SUBSET (1 .. k + 1) : Step(g, s) \in T
    BY <2>2
  <2>6. Built(k + 1, h)
    <3> HIDE DEF Step
    <3> QED BY <2>4, <2>5
  <2> HIDE DEF Built
  <2> QED BY <2>6
<1>3. n \in good
  <2> HIDE DEF good
  <2>1. \A k \in 0 .. n : k \in good
    BY <1>1, <1>2, UpTo
  <2> QED BY <2>1
<1>4. PICK g : Built(n, g)
  <2> HIDE DEF Built
  <2> QED BY <1>3
<1>5. \A s \in SUBSET (1 .. n) : g[s] = Step(g, s)
  BY <1>4
<1>6. {} \in SUBSET (1 .. n) /\ g \in [SUBSET (1 .. n) -> T]
  BY <1>4
<1> QED BY <1>5, <1>6 DEF Folded

-----------------------------------------------------------------------------
\* The first k places, as far as they are in K, in order.
InPlaces(r, s, K, k) ==
  \E at \in [DOMAIN r -> K \cap (1 .. k)] :
    /\ \A j \in DOMAIN r : r[j] = s[at[j]]
    /\ \A i, j \in DOMAIN r : i < j => at[i] < at[j]
    /\ \A m \in K \cap (1 .. k) : \E j \in DOMAIN r : at[j] = m

LEMMA OnePlaceMore ==
  ASSUME NEW S, NEW s \in Seq(S), NEW r \in Seq(S), NEW K, NEW k \in Nat, k < Len(s),
         InPlaces(r, s, K, k)
  PROVE  InPlaces(IF k + 1 \in K THEN Append(r, s[k + 1]) ELSE r, s, K, k + 1)
<1>1. PICK at \in [DOMAIN r -> K \cap (1 .. k)] :
        /\ \A j \in DOMAIN r : r[j] = s[at[j]]
        /\ \A i, j \in DOMAIN r : i < j => at[i] < at[j]
        /\ \A m \in K \cap (1 .. k) : \E j \in DOMAIN r : at[j] = m
  BY DEF InPlaces
<1>2. /\ k + 1 \in Nat /\ 1 .. k \subseteq 1 .. k + 1 /\ k + 1 \in 1 .. k + 1
      /\ \A m \in 1 .. k + 1 : m \in 1 .. k \/ m = k + 1
      /\ \A m \in 1 .. k : m < k + 1
  OBVIOUS
<1>3. CASE k + 1 \notin K
  <2>1. K \cap (1 .. k + 1) = K \cap (1 .. k)
    BY <1>2, <1>3
  <2>2. at \in [DOMAIN r -> K \cap (1 .. k + 1)]
    BY <2>1
  <2>3. InPlaces(r, s, K, k + 1)
    BY <1>1, <2>1, <2>2 DEF InPlaces
  <2> QED BY <1>3, <2>3
<1>4. CASE k + 1 \in K
  <2> DEFINE n == Len(r)
             q == Append(r, s[k + 1])
             to == [j \in 1 .. n + 1 |-> IF j = n + 1 THEN k + 1 ELSE at[j]]
  <2>1. /\ n \in Nat /\ DOMAIN r = 1 .. n /\ DOMAIN q = 1 .. n + 1 /\ n + 1 \in 1 .. n + 1
        /\ q[n + 1] = s[k + 1] /\ \A j \in 1 .. n : q[j] = r[j]
    OBVIOUS
  <2> HIDE DEF q, n
  <2>2. /\ \A j \in 1 .. n + 1 : j \in 1 .. n \/ j = n + 1
        /\ \A j \in 1 .. n : j # n + 1 /\ j \in 1 .. n + 1
        /\ \A i, j \in 1 .. n + 1 : i < j => i \in 1 .. n
    BY <2>1
  <2>3. \A j \in 1 .. n : to[j] = at[j] /\ at[j] \in K /\ at[j] \in 1 .. k
    BY <2>1, <2>2
  <2>4. to[n + 1] = k + 1
    BY <2>1
  <2> HIDE DEF to
  <2>5. to \in [1 .. n + 1 -> K \cap (1 .. k + 1)]
    <3>1. \A j \in 1 .. n + 1 : to[j] \in K \cap (1 .. k + 1)
      BY <1>2, <1>4, <2>2, <2>3, <2>4
    <3> QED BY <3>1 DEF to
  <2>6. \A j \in 1 .. n + 1 : q[j] = s[to[j]]
    BY <1>1, <2>1, <2>2, <2>3, <2>4
  <2>7. ASSUME NEW i \in 1 .. n + 1, NEW j \in 1 .. n + 1, i < j PROVE to[i] < to[j]
    <3>1. i \in 1 .. n
      BY <2>2, <2>7
    <3>2. CASE j \in 1 .. n
      BY <1>1, <2>1, <2>3, <2>7, <3>1, <3>2
    <3>3. CASE j = n + 1
      BY <1>2, <2>3, <2>4, <3>1, <3>3
    <3> QED BY <2>2, <3>2, <3>3
  <2>8. ASSUME NEW m \in K \cap (1 .. k + 1) PROVE \E j \in 1 .. n + 1 : to[j] = m
    <3>1. CASE m \in 1 .. k
      <4>1. PICK j \in 1 .. n : at[j] = m
        BY <1>1, <2>1, <3>1
      <4> QED BY <2>2, <2>3, <4>1
    <3>2. CASE m = k + 1
      BY <2>1, <2>4, <3>2
    <3> QED BY <1>2, <3>1, <3>2
  <2>9. InPlaces(q, s, K, k + 1)
    <3>1. DOMAIN q = 1 .. n + 1
      BY <2>1
    <3>2. /\ to \in [DOMAIN q -> K \cap (1 .. k + 1)]
          /\ \A j \in DOMAIN q : q[j] = s[to[j]]
          /\ \A i, j \in DOMAIN q : i < j => to[i] < to[j]
          /\ \A m \in K \cap (1 .. k + 1) : \E j \in DOMAIN q : to[j] = m
      BY <3>1, <2>5, <2>6, <2>7, <2>8
    <3> QED BY <3>2 DEF InPlaces
  <2> QED BY <1>4, <2>9 DEF q
<1> QED BY <1>3, <1>4

\* The filter goes element by element.
LEMMA PickedOneByOne ==
  ASSUME NEW S, NEW s \in Seq(S), NEW K
  PROVE  \E run : /\ run[0] = <<>>
                  /\ \A k \in Nat : k < Len(s) =>
                       run[k + 1] = IF k + 1 \in K THEN Append(run[k], s[k + 1]) ELSE run[k]
                  /\ Picked(s, K) = run[Len(s)]
<1> DEFINE n == Len(s)
           Step(g, k) == IF k = 0 THEN <<>> ELSE IF k \in K THEN Append(g[k - 1], s[k]) ELSE g[k - 1]
           Upto(m, g) == g = [k \in 0 .. m |-> Step(g, k)]
           some == {m \in Nat : \E g : Upto(m, g)}
<1>0. n \in Nat /\ \A k \in 1 .. n : s[k] \in S
  OBVIOUS
<1>1. 0 \in some
  <2> DEFINE g == [k \in 0 .. 0 |-> <<>>]
  <2>1. \A k \in 0 .. 0 : Step(g, k) = <<>>
    OBVIOUS
  <2>2. Upto(0, g)
    <3> HIDE DEF Step
    <3> QED BY <2>1
  <2> QED BY <2>2
<1>2. ASSUME NEW m \in Nat, m \in some PROVE m + 1 \in some
  <2>1. PICK g : Upto(m, g)
    BY <1>2
  <2> DEFINE h == [k \in 0 .. m + 1 |-> Step(g, k)]
  <2>2. ASSUME NEW k \in 0 .. m PROVE h[k] = g[k]
    <3>1. k \in 0 .. m + 1
      OBVIOUS
    <3>2. g[k] = Step(g, k)
      BY <2>1
    <3> HIDE DEF Step
    <3> QED BY <3>1, <3>2
  <2>3. ASSUME NEW k \in 0 .. m + 1 PROVE Step(g, k) = Step(h, k)
    <3>1. CASE k = 0
      BY <3>1
    <3>2. CASE k # 0
      <4>1. k - 1 \in 0 .. m
        BY <3>2
      <4>2. h[k - 1] = g[k - 1]
        BY <2>2, <4>1
      <4> QED BY <4>2
    <3> QED BY <3>1, <3>2
  <2>4. Upto(m + 1, h)
    <3> HIDE DEF Step
    <3> QED BY <2>3
  <2> HIDE DEF Upto
  <2> QED BY <2>4
<1>3. \E g : Upto(n, g)
  <2> HIDE DEF some
  <2>1. \A k \in 0 .. n : k \in some
    BY <1>0, <1>1, <1>2, UpTo
  <2>2. n \in some
    BY <1>0, <2>1
  <2> HIDE DEF Upto
  <2> QED BY <2>2 DEF some
<1> DEFINE picked == CHOOSE g : g = [k \in 0 .. n |-> IF k = 0 THEN <<>>
                                       ELSE IF k \in K THEN Append(g[k - 1], s[k]) ELSE g[k - 1]]
<1>4. Picked(s, K) = picked[n]
  BY DEF Picked
<1>5. picked = [k \in 0 .. n |-> Step(picked, k)]
  BY <1>3
<1> HIDE DEF picked
<1>a. picked[0] = <<>> /\ \A k \in 0 .. n : picked[k] = Step(picked, k)
  <2>1. 0 \in 0 .. n
    BY <1>0
  <2> HIDE DEF Step
  <2>2. \A k \in 0 .. n : picked[k] = Step(picked, k)
    BY <1>5
  <2> QED BY <2>1, <2>2 DEF Step
<1>6. ASSUME NEW k \in Nat, k < n
      PROVE  picked[k + 1] = IF k + 1 \in K THEN Append(picked[k], s[k + 1]) ELSE picked[k]
  <2>1. k + 1 \in 0 .. n /\ k + 1 # 0 /\ k + 1 - 1 = k
    BY <1>0, <1>6
  <2> QED BY <1>a, <2>1
<1> QED BY <1>4, <1>6, <1>a

LEMMA PickedInOrder ==
  ASSUME NEW S, NEW s \in Seq(S), NEW K
  PROVE  Picked(s, K) \in Seq(S) /\ InPlaces(Picked(s, K), s, K, Len(s))
<1> DEFINE n == Len(s)
<1>0. n \in Nat /\ \A k \in 1 .. n : s[k] \in S
  OBVIOUS
<1>1. PICK run : /\ run[0] = <<>>
                 /\ \A k \in Nat : k < n =>
                      run[k + 1] = IF k + 1 \in K THEN Append(run[k], s[k + 1]) ELSE run[k]
                 /\ Picked(s, K) = run[n]
  BY PickedOneByOne
<1> DEFINE good == {k \in Nat : k <= n => run[k] \in Seq(S) /\ InPlaces(run[k], s, K, k)}
<1>2. 0 \in good
  <2>1. InPlaces(<<>>, s, K, 0)
    <3> DEFINE at == [j \in {} |-> 0]
    <3>1. DOMAIN <<>> = {} /\ 1 .. 0 = {} /\ at \in [{} -> K \cap (1 .. 0)]
      OBVIOUS
    <3> QED BY <3>1 DEF InPlaces
  <2>2. <<>> \in Seq(S)
    OBVIOUS
  <2>3. run[0] \in Seq(S) /\ InPlaces(run[0], s, K, 0)
    BY <1>1, <2>1, <2>2
  <2> QED BY <2>3
<1>3. ASSUME NEW k \in Nat, k < n, k \in good PROVE k + 1 \in good
  <2>1. run[k + 1] = IF k + 1 \in K THEN Append(run[k], s[k + 1]) ELSE run[k]
    BY <1>1, <1>3
  <2>2. run[k] \in Seq(S) /\ InPlaces(run[k], s, K, k)
    BY <1>3
  <2>3. InPlaces(run[k + 1], s, K, k + 1)
    BY <1>3, <2>1, <2>2, OnePlaceMore
  <2>4. s[k + 1] \in S
    BY <1>0, <1>3
  <2>5. run[k + 1] \in Seq(S)
    BY <2>1, <2>2, <2>4
  <2> QED BY <2>3, <2>5
<1>4. n \in good
  <2> HIDE DEF good
  <2>1. \A k \in 0 .. n : k \in good
    BY <1>0, <1>2, <1>3, UpTo
  <2> QED BY <1>0, <2>1
<1> QED BY <1>1, <1>4

\* A filter that lets everything through, and one that lets nothing through.
LEMMA PickedAll ==
  ASSUME NEW S, NEW s \in Seq(S), NEW K, DOMAIN s \subseteq K
  PROVE  Picked(s, K) = s
<1> DEFINE n == Len(s)
           upto(k) == [i \in 1 .. k |-> s[i]]
<1>0. n \in Nat /\ DOMAIN s = 1 .. n /\ \A k \in 1 .. n : s[k] \in S /\ k \in K
  OBVIOUS
<1>1. PICK run : /\ run[0] = <<>>
                 /\ \A k \in Nat : k < n =>
                      run[k + 1] = IF k + 1 \in K THEN Append(run[k], s[k + 1]) ELSE run[k]
                 /\ Picked(s, K) = run[n]
  BY PickedOneByOne
<1> DEFINE good == {k \in Nat : k <= n => run[k] = upto(k)}
<1>2. 0 \in good
  <2>1. upto(0) = <<>>
    OBVIOUS
  <2> QED BY <1>1, <2>1
<1>3. ASSUME NEW k \in Nat, k < n, k \in good PROVE k + 1 \in good
  <2>1. k + 1 \in 1 .. n /\ k <= n
    BY <1>0, <1>3
  <2>2. run[k + 1] = Append(upto(k), s[k + 1])
    BY <1>0, <1>1, <1>3, <2>1
  <2>3. upto(k) \in Seq(S) /\ Len(upto(k)) = k
    BY <1>0, <2>1
  <2>4. Append(upto(k), s[k + 1]) = upto(k + 1)
    <3> DEFINE longer == Append(upto(k), s[k + 1])
    <3>1. s[k + 1] \in S
      BY <1>0, <2>1
    <3>2. longer \in Seq(S) /\ Len(longer) = k + 1
      BY <2>3, <3>1
    <3>3. ASSUME NEW i \in 1 .. k + 1 PROVE longer[i] = s[i]
      BY <2>3, <3>1, <3>3
    <3>4. longer = [i \in 1 .. k + 1 |-> longer[i]]
      <4> HIDE DEF longer
      <4> QED BY <3>2
    <3> HIDE DEF longer
    <3> QED BY <3>3, <3>4 DEF longer
  <2>5. run[k + 1] = upto(k + 1)
    BY <2>2, <2>4
  <2> HIDE DEF upto
  <2> QED BY <2>5
<1>4. n \in good
  <2> HIDE DEF good
  <2>1. \A k \in 0 .. n : k \in good
    BY <1>0, <1>2, <1>3, UpTo
  <2> QED BY <1>0, <2>1
<1>5. Picked(s, K) = upto(n)
  BY <1>1, <1>4
<1>6. upto(n) = s
  BY <1>0
<1> QED BY <1>5, <1>6

LEMMA PickedNone ==
  ASSUME NEW S, NEW s \in Seq(S), NEW K, K \cap DOMAIN s = {}
  PROVE  Picked(s, K) = <<>>
<1> DEFINE r == Picked(s, K)
<1>1. r \in Seq(S) /\ InPlaces(r, s, K, Len(s)) /\ DOMAIN s = 1 .. Len(s)
  BY PickedInOrder
<1>2. PICK at : at \in [DOMAIN r -> {}]
  BY <1>1 DEF InPlaces
<1> HIDE DEF r
<1>3. DOMAIN r = {}
  BY <1>2
<1>4. r = <<>>
  BY <1>1, <1>3
<1> QED BY <1>4 DEF r

-----------------------------------------------------------------------------
(* One cell of a step.                                                     *)

LEMMA CellOfStep ==
  ASSUME NEW d, NEW id, NEW field, id \in DOMAIN d.steps
  PROVE  Cell(d, id, field) = {Canon(field, d.steps[id][field])}
BY DEF Cell

LEMMA CellIsThere ==
  ASSUME NEW d, NEW id, NEW field
  PROVE  id \in DOMAIN d.steps <=> Cell(d, id, field) # {}
BY DEF Cell

LEMMA SameValueSameCell ==
  ASSUME NEW d, NEW e, NEW id, NEW field, id \in DOMAIN d.steps, id \in DOMAIN e.steps,
         d.steps[id][field] = e.steps[id][field]
  PROVE  Cell(d, id, field) = Cell(e, id, field)
<1>1. Cell(d, id, field) = {Canon(field, d.steps[id][field])}
  BY CellOfStep
<1>2. Cell(e, id, field) = {Canon(field, d.steps[id][field])}
  BY CellOfStep
<1> QED BY <1>1, <1>2

\* Two documents have the same in a cell.
LEMMA SameCell ==
  ASSUME NEW d, NEW e, NEW id, NEW field
  PROVE  /\ id \in DOMAIN d.steps /\ id \in DOMAIN e.steps =>
              (Cell(d, id, field) = Cell(e, id, field)
                 <=> SameField(field, d.steps[id], e.steps[id]))
         /\ Cell(d, id, field) = Cell(e, id, field) =>
              (id \in DOMAIN d.steps <=> id \in DOMAIN e.steps)
<1>1. ASSUME id \in DOMAIN d.steps, id \in DOMAIN e.steps
      PROVE  Cell(d, id, field) = Cell(e, id, field)
               <=> SameField(field, d.steps[id], e.steps[id])
  <2> DEFINE x == Canon(field, d.steps[id][field])
             y == Canon(field, e.steps[id][field])
  <2>1. Cell(d, id, field) = {x} /\ Cell(e, id, field) = {y}
    BY <1>1, CellOfStep
  <2>2. SameField(field, d.steps[id], e.steps[id]) <=> x = y
    BY DEF SameField
  <2> HIDE DEF x, y
  <2> QED BY <2>1, <2>2
<1>2. ASSUME Cell(d, id, field) = Cell(e, id, field)
      PROVE  id \in DOMAIN d.steps <=> id \in DOMAIN e.steps
  BY <1>2, CellIsThere
<1> QED BY <1>1, <1>2

\* The sides changed the cell, each to something else.
ClashAt(base, ours, theirs, id, field) ==
  /\ Cell(ours, id, field) # Cell(base, id, field)
  /\ Cell(theirs, id, field) # Cell(base, id, field)
  /\ Cell(ours, id, field) # Cell(theirs, id, field)

\* With the step on both sides, the clash is a conflict on the field.
LEMMA FieldClash ==
  ASSUME NEW base, NEW ours, NEW theirs, NEW id, NEW field \in StepFields,
         id \in DOMAIN ours.steps, id \in DOMAIN theirs.steps
  PROVE  ClashAt(base, ours, theirs, id, field) <=> <<id, field>> \in FieldConflicts(base, ours, theirs)
<1>1. ASSUME NEW side, id \in DOMAIN side.steps
      PROVE  Untouched(base, side, id, field) <=> Cell(side, id, field) = Cell(base, id, field)
  BY <1>1, SameCell DEF Untouched
<1>2. SameField(field, ours.steps[id], theirs.steps[id])
        <=> Cell(ours, id, field) = Cell(theirs, id, field)
  BY SameCell
<1>3. <<id, field>> \in FieldConflicts(base, ours, theirs) <=>
        /\ ~Untouched(base, ours, id, field) /\ ~Untouched(base, theirs, id, field)
        /\ ~SameField(field, ours.steps[id], theirs.steps[id])
  BY DEF FieldConflicts
<1> QED BY <1>1, <1>2, <1>3 DEF ClashAt

\* With the step on one side, it is a conflict on the step.
LEMMA StepClash ==
  ASSUME NEW base, NEW gone, NEW kept, NEW id,
         id \notin DOMAIN gone.steps, id \in DOMAIN kept.steps
  PROVE  /\ (\E field \in StepFields : ClashAt(base, gone, kept, id, field))
              <=> id \in StepConflicts(base, gone, kept)
         /\ (\E field \in StepFields : ClashAt(base, kept, gone, id, field))
              <=> id \in StepConflicts(base, kept, gone)
<1>1. /\ id \in StepConflicts(base, gone, kept) <=>
           id \in DOMAIN base.steps /\ ~SameStep(kept.steps[id], base.steps[id])
      /\ id \in StepConflicts(base, kept, gone) <=>
           id \in DOMAIN base.steps /\ ~SameStep(kept.steps[id], base.steps[id])
  BY DEF StepConflicts
<1>2. ASSUME NEW field \in StepFields
      PROVE  LET changed == /\ id \in DOMAIN base.steps
                            /\ ~SameField(field, kept.steps[id], base.steps[id])
             IN  /\ ClashAt(base, gone, kept, id, field) <=> changed
                 /\ ClashAt(base, kept, gone, id, field) <=> changed
  <2>1. Cell(gone, id, field) = {} /\ Cell(kept, id, field) # {}
    BY CellIsThere
  <2>2. Cell(base, id, field) # {} <=> id \in DOMAIN base.steps
    BY CellIsThere
  <2>3. id \in DOMAIN base.steps =>
          (Cell(kept, id, field) = Cell(base, id, field)
             <=> SameField(field, kept.steps[id], base.steps[id]))
    BY SameCell
  <2> QED BY <2>1, <2>2, <2>3 DEF ClashAt
<1> QED BY <1>1, <1>2 DEF SameStep

\* A conflict is on a field of a step, on a step or on the title.
LEMMA ConflictsOfStep ==
  ASSUME NEW base, NEW ours, NEW theirs, NEW id, id # "document"
  PROVE  (\E c \in Conflicts(base, ours, theirs) : c[1] = id) <=>
           \/ \E field \in StepFields : <<id, field>> \in FieldConflicts(base, ours, theirs)
           \/ id \in StepConflicts(base, ours, theirs)
<1>1. ASSUME NEW c \in FieldConflicts(base, ours, theirs), c[1] = id
      PROVE  \E field \in StepFields : <<id, field>> \in FieldConflicts(base, ours, theirs)
  BY <1>1 DEF FieldConflicts
<1>2. FieldConflicts(base, ours, theirs) \subseteq Conflicts(base, ours, theirs)
  BY DEF Conflicts
<1>3. id \in StepConflicts(base, ours, theirs) => <<id, "step">> \in Conflicts(base, ours, theirs)
  BY DEF Conflicts
<1>4. ASSUME NEW c \in Conflicts(base, ours, theirs), c[1] = id
      PROVE  \/ c \in FieldConflicts(base, ours, theirs)
             \/ id \in StepConflicts(base, ours, theirs)
  BY <1>4 DEF Conflicts
<1> QED BY <1>1, <1>2, <1>3, <1>4

LEMMA ClashIsConflict ==
  ASSUME NEW base, NEW ours, NEW theirs, NEW id, id # "document"
  PROVE  (\E field \in StepFields : ClashAt(base, ours, theirs, id, field))
           <=> \E c \in Conflicts(base, ours, theirs) : c[1] = id
<1>0. (\E c \in Conflicts(base, ours, theirs) : c[1] = id) <=>
        \/ \E field \in StepFields : <<id, field>> \in FieldConflicts(base, ours, theirs)
        \/ id \in StepConflicts(base, ours, theirs)
  BY ConflictsOfStep
<1>1. CASE id \in DOMAIN ours.steps /\ id \in DOMAIN theirs.steps
  <2>1. id \notin StepConflicts(base, ours, theirs)
    BY <1>1 DEF StepConflicts
  <2> QED BY <1>1, <2>1, FieldClash, <1>0
<1>2. CASE ~(id \in DOMAIN ours.steps /\ id \in DOMAIN theirs.steps)
  <2>1. \A field : <<id, field>> \notin FieldConflicts(base, ours, theirs)
    BY <1>2 DEF FieldConflicts
  <2>2. CASE id \in DOMAIN ours.steps \/ id \in DOMAIN theirs.steps
    <3>1. (\E field \in StepFields : ClashAt(base, ours, theirs, id, field))
            <=> id \in StepConflicts(base, ours, theirs)
      <4>1. CASE id \in DOMAIN ours.steps /\ id \notin DOMAIN theirs.steps
        BY <4>1, StepClash
      <4>2. CASE id \notin DOMAIN ours.steps /\ id \in DOMAIN theirs.steps
        BY <4>2, StepClash
      <4> QED BY <1>2, <2>2, <4>1, <4>2
    <3>2. (\E c \in Conflicts(base, ours, theirs) : c[1] = id)
            <=> id \in StepConflicts(base, ours, theirs)
      BY <1>0, <2>1
    <3> QED BY <3>1, <3>2
  <2>3. CASE id \notin DOMAIN ours.steps /\ id \notin DOMAIN theirs.steps
    <3>1. id \notin StepConflicts(base, ours, theirs)
      BY <2>3 DEF StepConflicts
    <3>2. \A field : ~ClashAt(base, ours, theirs, id, field)
      BY <2>3, CellIsThere DEF ClashAt
    <3> QED BY <2>1, <3>1, <3>2, <1>0
  <2> QED BY <2>2, <2>3
<1> QED BY <1>1, <1>2

\* Without a clash a cell of the merge is what the side that changed it has.
LEMMA MergedCell ==
  ASSUME NEW base, NEW ours, NEW theirs, NEW id, NEW field \in StepFields,
         ~ClashAt(base, ours, theirs, id, field)
  PROVE  Cell(Merged(base, ours, theirs), id, field) =
           IF Cell(ours, id, field) # Cell(base, id, field) THEN Cell(ours, id, field)
           ELSE Cell(theirs, id, field)
<1> DEFINE merged == Merged(base, ours, theirs)
<1>1. /\ DOMAIN merged.steps = MergedIds(base, ours, theirs)
      /\ id \in DOMAIN merged.steps => merged.steps[id] = MergedStep(base, ours, theirs, id)
  BY DEF Merged
<1> HIDE DEF merged
<1> SUFFICES Cell(merged, id, field) =
               IF Cell(ours, id, field) # Cell(base, id, field) THEN Cell(ours, id, field)
               ELSE Cell(theirs, id, field)
  BY DEF merged
<1>2. id \in DOMAIN merged.steps <=>
        \/ id \in DOMAIN ours.steps /\ id \in DOMAIN theirs.steps
        \/ /\ id \in DOMAIN ours.steps \/ id \in DOMAIN theirs.steps
           /\ id \notin DOMAIN base.steps
  BY <1>1 DEF MergedIds
<1>3. CASE id \in DOMAIN ours.steps /\ id \in DOMAIN theirs.steps
  <2>1. merged.steps[id][field] = MergedField(base, ours, theirs, id, field)
    BY <1>1, <1>2, <1>3 DEF MergedStep
  <2>2. CASE Untouched(base, ours, id, field)
    <3>1. Cell(merged, id, field) = Cell(theirs, id, field)
      BY <1>2, <1>3, <2>1, <2>2, SameValueSameCell DEF MergedField
    <3>2. Cell(ours, id, field) = Cell(base, id, field)
      BY <1>3, <2>2, SameCell DEF Untouched
    <3> QED BY <3>1, <3>2
  <2>3. CASE ~Untouched(base, ours, id, field)
    <3>1. Cell(merged, id, field) = Cell(ours, id, field)
      BY <1>2, <1>3, <2>1, <2>3, SameValueSameCell DEF MergedField
    <3>2. Cell(ours, id, field) # Cell(base, id, field)
      BY <1>3, <2>3, SameCell DEF Untouched
    <3> QED BY <3>1, <3>2
  <2> QED BY <2>2, <2>3
<1>4. CASE id \in DOMAIN ours.steps /\ id \notin DOMAIN theirs.steps
  <2>1. Cell(theirs, id, field) = {} /\ Cell(ours, id, field) # {}
    BY <1>4, CellIsThere
  <2>2. CASE id \in DOMAIN base.steps
    <3>1. Cell(merged, id, field) = {} /\ Cell(base, id, field) # {}
      BY <1>2, <1>4, <2>2, CellIsThere
    <3> QED BY <2>1, <3>1 DEF ClashAt
  <2>3. CASE id \notin DOMAIN base.steps
    <3>1. Cell(base, id, field) = {}
      BY <2>3, CellIsThere
    <3>2. id \in DOMAIN merged.steps /\ merged.steps[id] = ours.steps[id]
      BY <1>1, <1>2, <1>4, <2>3 DEF MergedStep
    <3>3. Cell(merged, id, field) = Cell(ours, id, field)
      BY <1>4, <3>2, SameValueSameCell
    <3> QED BY <2>1, <3>1, <3>3
  <2> QED BY <2>2, <2>3
<1>5. CASE id \notin DOMAIN ours.steps /\ id \in DOMAIN theirs.steps
  <2>1. Cell(ours, id, field) = {}
    BY <1>5, CellIsThere
  <2>2. CASE id \in DOMAIN base.steps
    <3>1. Cell(merged, id, field) = {} /\ Cell(base, id, field) # {}
      BY <1>2, <1>5, <2>2, CellIsThere
    <3> QED BY <2>1, <3>1
  <2>3. CASE id \notin DOMAIN base.steps
    <3>1. Cell(base, id, field) = {}
      BY <2>3, CellIsThere
    <3>2. id \in DOMAIN merged.steps /\ merged.steps[id] = theirs.steps[id]
      BY <1>1, <1>2, <1>5, <2>3 DEF MergedStep
    <3>3. Cell(merged, id, field) = Cell(theirs, id, field)
      BY <1>5, <3>2, SameValueSameCell
    <3> QED BY <2>1, <3>1, <3>3
  <2> QED BY <2>2, <2>3
<1>6. CASE id \notin DOMAIN ours.steps /\ id \notin DOMAIN theirs.steps
  BY <1>2, <1>6, CellIsThere
<1> QED BY <1>3, <1>4, <1>5, <1>6

\* Of any three documents: there is a conflict on a step exactly when the two
\* sides changed one of its fields, or its being there, to different things;
\* and the merge has every field of a step without conflict as the side that
\* changed it has it, and as the base has it if neither did (mergeDocuments).
THEOREM MergeIsCellByCell ==
  ASSUME NEW base, NEW ours, NEW theirs, NEW id, id # "document"
  PROVE  LET conflict == \E c \in Conflicts(base, ours, theirs) : c[1] = id
         IN  /\ conflict <=> \E field \in StepFields : ClashAt(base, ours, theirs, id, field)
             /\ ~conflict =>
                  \A field \in StepFields :
                    Cell(Merged(base, ours, theirs), id, field) =
                      IF Cell(ours, id, field) # Cell(base, id, field) THEN Cell(ours, id, field)
                      ELSE Cell(theirs, id, field)
BY ClashIsConflict, MergedCell

-----------------------------------------------------------------------------
(* The structured diff.                                                    *)

\* Of any two documents: the diff is empty exactly when they have the same
\* title, the same texts and, citations' hashes aside, the same in every field
\* of every step (diffDocuments).
THEOREM DiffIsExact ==
  ASSUME NEW old, NEW new
  PROVE  DiffDocuments(old, new) = DiffDocuments(old, old) <=>
           /\ old.title = new.title
           /\ Texts(old.entries) = Texts(new.entries)
           /\ \A id \in DOMAIN old.steps \cup DOMAIN new.steps, field \in StepFields :
                Cell(old, id, field) = Cell(new, id, field)
<1>1. DiffDocuments(old, old) = [added |-> {}, removed |-> {}, changed |-> {},
                                 entriesAdded |-> {}, entriesRemoved |-> {}, title |-> FALSE]
  BY DEF DiffDocuments, ChangedFields, SameField
<1>2. DiffDocuments(old, new) = DiffDocuments(old, old) <=>
        /\ DOMAIN old.steps = DOMAIN new.steps
        /\ ChangedFields(old, new) = {}
        /\ Texts(old.entries) = Texts(new.entries)
        /\ old.title = new.title
  BY <1>1 DEF DiffDocuments
<1>3. DOMAIN old.steps = DOMAIN new.steps /\ ChangedFields(old, new) = {} <=>
        \A id \in DOMAIN old.steps \cup DOMAIN new.steps, field \in StepFields :
          Cell(old, id, field) = Cell(new, id, field)
  <2>1. ASSUME DOMAIN old.steps = DOMAIN new.steps, ChangedFields(old, new) = {},
               NEW id \in DOMAIN old.steps, NEW field \in StepFields
        PROVE  Cell(old, id, field) = Cell(new, id, field)
    <3>1. SameField(field, old.steps[id], new.steps[id])
      <4>1. <<id, field>> \notin ChangedFields(old, new)
        BY <2>1
      <4> QED BY <2>1, <4>1 DEF ChangedFields
    <3> QED BY <2>1, <3>1, SameCell
  <2>2. ASSUME \A id \in DOMAIN old.steps \cup DOMAIN new.steps, field \in StepFields :
                 Cell(old, id, field) = Cell(new, id, field)
        PROVE  DOMAIN old.steps = DOMAIN new.steps /\ ChangedFields(old, new) = {}
    <3>1. \A id \in DOMAIN old.steps \cup DOMAIN new.steps :
            id \in DOMAIN old.steps <=> id \in DOMAIN new.steps
      BY <2>2, SameCell DEF StepFields
    <3>2. ASSUME NEW id \in DOMAIN old.steps \cap DOMAIN new.steps, NEW field \in StepFields
          PROVE  SameField(field, old.steps[id], new.steps[id])
      BY <2>2, SameCell
    <3> QED BY <3>1, <3>2 DEF ChangedFields
  <2> QED BY <2>1, <2>2
<1> QED BY <1>2, <1>3

-----------------------------------------------------------------------------
(* Entries, by their texts.                                                *)

Distinct(entries) ==
  \A i, j \in DOMAIN entries : entries[i].text = entries[j].text => i = j

\* What is picked by its texts has those of them that were there.
LEMMA PickedByTexts ==
  ASSUME NEW E, NEW es \in Seq(E), NEW T
  PROVE  LET r == Picked(es, With(es, T))
         IN  /\ r \in Seq(E) /\ Texts(r) = Texts(es) \cap T
             /\ Distinct(es) => Distinct(r)
<1> DEFINE K == With(es, T)
           r == Picked(es, K)
<1>1. r \in Seq(E) /\ InPlaces(r, es, K, Len(es))
  BY PickedInOrder
<1> HIDE DEF r, K
<1>2. PICK at \in [DOMAIN r -> K \cap (1 .. Len(es))] :
        /\ \A j \in DOMAIN r : r[j] = es[at[j]]
        /\ \A i, j \in DOMAIN r : i < j => at[i] < at[j]
        /\ \A m \in K \cap (1 .. Len(es)) : \E j \in DOMAIN r : at[j] = m
  BY <1>1 DEF InPlaces
<1>3. DOMAIN es = 1 .. Len(es) /\ DOMAIN r \subseteq Nat
  BY <1>1
<1>4. K = {i \in DOMAIN es : es[i].text \in T}
  BY DEF K, With
<1>5. \A j \in DOMAIN r : at[j] \in DOMAIN es /\ es[at[j]].text \in T /\ r[j].text = es[at[j]].text
  BY <1>2, <1>3, <1>4
<1>6. \A m \in DOMAIN es : es[m].text \in T => \E j \in DOMAIN r : at[j] = m
  BY <1>2, <1>3, <1>4
<1>7. Texts(r) = Texts(es) \cap T
  <2>1. ASSUME NEW j \in DOMAIN r PROVE r[j].text \in Texts(es) \cap T
    BY <1>5 DEF Texts
  <2>2. ASSUME NEW m \in DOMAIN es, es[m].text \in T PROVE es[m].text \in Texts(r)
    <3>1. PICK j \in DOMAIN r : at[j] = m
      BY <1>6, <2>2
    <3>2. r[j].text = es[m].text
      BY <1>5, <3>1
    <3> QED BY <3>2 DEF Texts
  <2> QED BY <2>1, <2>2 DEF Texts
<1>8. ASSUME Distinct(es), NEW i \in DOMAIN r, NEW j \in DOMAIN r, r[i].text = r[j].text
      PROVE  i = j
  <2>1. at[i] = at[j]
    BY <1>5, <1>8 DEF Distinct
  <2>2. at[i] \in Nat /\ i \in Nat /\ j \in Nat
    BY <1>3, <1>5
  <2>3. ~(i < j) /\ ~(j < i)
    BY <1>2, <2>1, <2>2
  <2> QED BY <2>2, <2>3
<1> QED BY <1>1, <1>7, <1>8 DEF Distinct, r, K

LEMMA JoinedTexts ==
  ASSUME NEW E, NEW es \in Seq(E), NEW fs \in Seq(E)
  PROVE  /\ es \o fs \in Seq(E) /\ Texts(es \o fs) = Texts(es) \cup Texts(fs)
         /\ Distinct(es) /\ Distinct(fs) /\ Texts(es) \cap Texts(fs) = {} => Distinct(es \o fs)
<1> DEFINE n == Len(es)
           m == Len(fs)
           all == es \o fs
<1>1. /\ n \in Nat /\ m \in Nat /\ DOMAIN es = 1 .. n /\ DOMAIN fs = 1 .. m
      /\ all \in Seq(E) /\ DOMAIN all = 1 .. n + m
      /\ \A i \in 1 .. n + m : all[i] = IF i <= n THEN es[i] ELSE fs[i - n]
  OBVIOUS
<1> HIDE DEF n, m, all
<1>2. /\ \A i \in 1 .. n : i \in 1 .. n + m /\ i <= n
      /\ \A i \in 1 .. m : n + i \in 1 .. n + m /\ ~(n + i <= n) /\ n + i - n = i
      /\ \A i \in 1 .. n + m : ~(i <= n) => i - n \in 1 .. m
      /\ \A i \in 1 .. n + m : i <= n => i \in 1 .. n
  BY <1>1
<1>3. /\ \A i \in 1 .. n : all[i] = es[i]
      /\ \A i \in 1 .. m : all[n + i] = fs[i]
  BY <1>1, <1>2
<1>4. Texts(all) = Texts(es) \cup Texts(fs)
  <2>1. ASSUME NEW i \in 1 .. n + m PROVE all[i].text \in Texts(es) \cup Texts(fs)
    <3>1. CASE i <= n
      <4>1. i \in DOMAIN es /\ all[i] = es[i]
        BY <1>1, <1>2, <3>1
      <4> QED BY <4>1 DEF Texts
    <3>2. CASE ~(i <= n)
      <4>1. i - n \in DOMAIN fs /\ all[i] = fs[i - n]
        BY <1>1, <1>2, <3>2
      <4> QED BY <4>1 DEF Texts
    <3> QED BY <3>1, <3>2
  <2>2. ASSUME NEW i \in 1 .. n PROVE es[i].text \in Texts(all)
    BY <1>1, <1>2, <1>3 DEF Texts
  <2>3. ASSUME NEW i \in 1 .. m PROVE fs[i].text \in Texts(all)
    BY <1>1, <1>2, <1>3 DEF Texts
  <2> QED BY <1>1, <2>1, <2>2, <2>3 DEF Texts
<1>5. ASSUME Distinct(es), Distinct(fs), Texts(es) \cap Texts(fs) = {},
             NEW i \in 1 .. n + m, NEW j \in 1 .. n + m, all[i].text = all[j].text
      PROVE  i = j
  <2>0. \A k \in 1 .. n, l \in 1 .. m : es[k].text # fs[l].text
    BY <1>1, <1>5 DEF Texts
  <2>1. CASE i <= n /\ j <= n
    BY <1>1, <1>2, <1>5, <2>1 DEF Distinct
  <2>2. CASE ~(i <= n) /\ ~(j <= n)
    <3>1. i - n = j - n
      <4>1. i - n \in DOMAIN fs /\ j - n \in DOMAIN fs
        BY <1>1, <1>2, <2>2
      <4>2. fs[i - n].text = fs[j - n].text
        BY <1>1, <1>5, <2>2
      <4> QED BY <1>5, <4>1, <4>2 DEF Distinct
    <3> QED BY <1>1, <3>1
  <2>3. CASE i <= n /\ ~(j <= n)
    BY <1>1, <1>2, <1>5, <2>0, <2>3
  <2>4. CASE ~(i <= n) /\ j <= n
    BY <1>1, <1>2, <1>5, <2>0, <2>4
  <2> QED BY <2>1, <2>2, <2>3, <2>4
<1> QED BY <1>1, <1>4, <1>5 DEF Distinct, all

\* Keyed by their texts, entries keep them and have each once, the last with it;
\* entries with distinct texts stay as they are.
LEMMA EntriesByText ==
  ASSUME NEW E, NEW es \in Seq(E)
  PROVE  /\ EntriesOf(es) \in Seq(E) /\ Texts(EntriesOf(es)) = Texts(es)
         /\ Distinct(EntriesOf(es))
         /\ Distinct(es) => EntriesOf(es) = es
         /\ EntriesOf(es) \in Seq(Latest(es))
<1> DEFINE n == Len(es)
           First == {i \in DOMAIN es : \A j \in 1 .. i - 1 : es[j].text # es[i].text}
           IsLast(i, text) == /\ es[i].text = text
                              /\ \A j \in DOMAIN es : j > i => es[j].text # text
           LastWith(text) == CHOOSE i \in DOMAIN es : IsLast(i, text)
           latest == [i \in DOMAIN es |-> es[LastWith(es[i].text)]]
           r == Picked(latest, First)
<1>1. EntriesOf(es) = r
  BY DEF EntriesOf
<1>2. n \in Nat /\ DOMAIN es = 1 .. n /\ \A i \in 1 .. n : es[i] \in E /\ i \in Nat
  OBVIOUS
<1>3. ASSUME NEW i \in DOMAIN es
      PROVE  LastWith(es[i].text) \in DOMAIN es /\ IsLast(LastWith(es[i].text), es[i].text)
  <2> DEFINE alike == {j \in 1 .. n : es[j].text = es[i].text}
  <2>1. alike \in SUBSET (1 .. n) /\ alike # {}
    BY <1>2
  <2>2. Max(alike) \in alike /\ \A y \in alike : y <= Max(alike)
    <3> HIDE DEF alike, n
    <3> QED BY <1>2, <2>1, GreatestOfSome
  <2>3. PICK m \in 1 .. n : es[m].text = es[i].text /\ \A y \in alike : y <= m
    BY <2>2
  <2>4. IsLast(m, es[i].text)
    BY <1>2, <2>3
  <2> HIDE DEF IsLast
  <2>5. \E k \in DOMAIN es : IsLast(k, es[i].text)
    BY <1>2, <2>3, <2>4
  <2> QED BY <2>5
<1>4. ASSUME NEW i \in DOMAIN es
      PROVE  /\ latest[i] \in E /\ latest[i].text = es[i].text
             /\ Distinct(es) => latest[i] = es[i]
  <2> DEFINE k == LastWith(es[i].text)
  <2>1. k \in DOMAIN es /\ es[k].text = es[i].text
    BY <1>3
  <2>2. latest[i] = es[k]
    OBVIOUS
  <2> HIDE DEF k, latest
  <2> QED BY <1>2, <2>1, <2>2 DEF Distinct
<1>5. latest \in Seq(E) /\ Len(latest) = n /\ DOMAIN latest = 1 .. n
  <2> HIDE DEF LastWith
  <2>1. latest \in [1 .. n -> E]
    BY <1>2, <1>4
  <2> HIDE DEF latest
  <2> QED BY <1>2, <2>1
<1>6. ASSUME NEW i \in DOMAIN es
      PROVE  \E k \in First : k <= i /\ es[k].text = es[i].text
  <2> DEFINE alike == {j \in 1 .. n : es[j].text = es[i].text}
  <2>1. alike \in SUBSET Nat /\ i \in alike
    BY <1>2
  <2>2. PICK k \in alike : \A j \in alike : k <= j
    <3> HIDE DEF alike
    <3> QED BY <2>1, LeastOfNaturals
  <2>3. \A j \in 1 .. k - 1 : es[j].text # es[k].text
    BY <1>2, <2>2
  <2> QED BY <1>2, <2>1, <2>2, <2>3
<1>7. r \in Seq(E) /\ InPlaces(r, latest, First, n)
  <2> HIDE DEF latest, First, n
  <2>1. Picked(latest, First) \in Seq(E) /\ InPlaces(Picked(latest, First), latest, First, Len(latest))
    BY <1>5, PickedInOrder
  <2> QED BY <1>5, <2>1
<1> HIDE DEF latest, r
<1>8. PICK at \in [DOMAIN r -> First \cap (1 .. n)] :
        /\ \A j \in DOMAIN r : r[j] = latest[at[j]]
        /\ \A i, j \in DOMAIN r : i < j => at[i] < at[j]
        /\ \A m \in First \cap (1 .. n) : \E j \in DOMAIN r : at[j] = m
  BY <1>7 DEF InPlaces
<1>9. \A j \in DOMAIN r : /\ at[j] \in DOMAIN es /\ at[j] \in First
                          /\ r[j].text = es[at[j]].text
  <2> HIDE DEF First, n
  <2> QED BY <1>2, <1>4, <1>8
<1>10. Texts(r) = Texts(es)
  <2>1. ASSUME NEW j \in DOMAIN r PROVE r[j].text \in Texts(es)
    BY <1>9 DEF Texts
  <2>2. ASSUME NEW i \in DOMAIN es PROVE es[i].text \in Texts(r)
    <3>1. PICK k \in First : es[k].text = es[i].text
      BY <1>6
    <3>2. k \in First \cap (1 .. n)
      BY <1>2, <3>1
    <3>3. PICK j \in DOMAIN r : at[j] = k
      BY <1>8, <3>2
    <3>4. r[j].text = es[i].text
      BY <1>9, <3>1, <3>3
    <3> QED BY <3>4 DEF Texts
  <2> QED BY <2>1, <2>2 DEF Texts
<1>11. Distinct(r)
  <2> SUFFICES ASSUME NEW i \in DOMAIN r, NEW j \in DOMAIN r, r[i].text = r[j].text
               PROVE  i = j
    BY DEF Distinct
  <2>1. at[i] \in First /\ at[j] \in First /\ es[at[i]].text = es[at[j]].text
    BY <1>9
  <2>2. at[i] \in 1 .. n /\ at[j] \in 1 .. n
    BY <1>2, <1>9
  <2>3. ~(at[i] < at[j]) /\ ~(at[j] < at[i])
    BY <1>2, <2>1, <2>2
  <2>4. i \in Nat /\ j \in Nat
    BY <1>7
  <2>5. ~(i < j) /\ ~(j < i)
    <3> HIDE DEF First, n
    <3> QED BY <1>8, <2>3
  <2> QED BY <2>4, <2>5
<1>12. ASSUME Distinct(es) PROVE r = es
  <2>1. latest = es
    <3>1. DOMAIN latest = DOMAIN es /\ \A i \in DOMAIN es : latest[i] = es[i]
      BY <1>2, <1>4, <1>5, <1>12
    <3>2. es = [i \in DOMAIN es |-> es[i]]
      OBVIOUS
    <3>3. latest = [i \in DOMAIN latest |-> latest[i]]
      BY DEF latest
    <3> QED BY <3>1, <3>2, <3>3
  <2>2. DOMAIN latest \subseteq First
    BY <1>2, <1>5, <1>12 DEF Distinct
  <2>3. Picked(latest, First) = latest
    <3> HIDE DEF First
    <3> QED BY <1>5, <2>2, PickedAll
  <2> QED BY <2>1, <2>3 DEF r
<1>13. r \in Seq(Latest(es))
  <2>1. ASSUME NEW j \in DOMAIN r PROVE r[j] \in Latest(es)
    <3>0. at[j] \in DOMAIN es
      BY <1>9
    <3>1. PICK k \in DOMAIN es : k = LastWith(es[at[j]].text) /\ IsLast(k, es[at[j]].text)
      <4> HIDE DEF LastWith, IsLast
      <4> QED BY <1>3, <3>0
    <3>2. r[j] = es[k]
      <4>1. r[j] = latest[at[j]]
        BY <1>8
      <4>2. latest[at[j]] = es[LastWith(es[at[j]].text)]
        <5> HIDE DEF LastWith
        <5> QED BY <3>0 DEF latest
      <4> HIDE DEF LastWith
      <4> QED BY <3>1, <4>1, <4>2
    <3>3. \A l \in DOMAIN es : l > k => es[l].text # es[k].text
      BY <3>1
    <3> QED BY <3>2, <3>3 DEF Latest
  <2>2. r \in [1 .. Len(r) -> Latest(es)] /\ Len(r) \in Nat
    BY <1>7, <2>1
  <2> HIDE DEF r
  <2> QED BY <2>2
<1> QED BY <1>1, <1>7, <1>10, <1>11, <1>12, <1>13

-----------------------------------------------------------------------------
\* The texts that either side has and neither side removed.
TextsOfBoth(b, o, t) ==
  (Texts(o) \cap Texts(t)) \cup ((Texts(o) \cup Texts(t)) \ Texts(b))

\* An entry comes as one side has it, the first when it has the text.
FromASide(m, o, t) ==
  \A i \in DOMAIN m : m[i] \in Latest(IF m[i].text \in Texts(o) THEN o ELSE t)

\* The merged entries: their texts, each once, and where each is from.
LEMMA MergedTexts ==
  ASSUME NEW E, NEW b, NEW o \in Seq(E), NEW t \in Seq(E)
  PROVE  LET m == MergeEntries(b, o, t)
         IN  /\ m \in Seq(E) /\ Distinct(m)
             /\ Texts(m) = TextsOfBoth(b, o, t)
             /\ FromASide(m, o, t)
<1> DEFINE here == EntriesOf(o)
           there == EntriesOf(t)
           kept == Picked(here, With(here, Texts(t) \cup (Texts(o) \ Texts(b))))
           new == Picked(there, With(there, Texts(t) \ (Texts(o) \cup Texts(b))))
<1>1. /\ here \in Seq(E) /\ Texts(here) = Texts(o) /\ Distinct(here)
      /\ there \in Seq(E) /\ Texts(there) = Texts(t) /\ Distinct(there)
      /\ here \in Seq(Latest(o)) /\ there \in Seq(Latest(t))
  BY EntriesByText
<1> HIDE DEF here, there
<1>2. /\ kept \in Seq(E) /\ Distinct(kept)
      /\ Texts(kept) = Texts(o) \cap (Texts(t) \cup (Texts(o) \ Texts(b)))
  BY <1>1, PickedByTexts
<1>3. /\ new \in Seq(E) /\ Distinct(new)
      /\ Texts(new) = Texts(t) \cap (Texts(t) \ (Texts(o) \cup Texts(b)))
  BY <1>1, PickedByTexts
<1>4. MergeEntries(b, o, t) = kept \o new
  BY DEF MergeEntries, here, there
<1> HIDE DEF kept, new
<1>5. Texts(kept) \cap Texts(new) = {}
  BY <1>2, <1>3
<1>6. /\ kept \o new \in Seq(E) /\ Distinct(kept \o new)
      /\ Texts(kept \o new) = Texts(kept) \cup Texts(new)
  BY <1>2, <1>3, <1>5, JoinedTexts
<1>7. Texts(kept) \cup Texts(new) = TextsOfBoth(b, o, t)
  BY <1>2, <1>3 DEF TextsOfBoth
<1>8. kept \in Seq(Latest(o)) /\ new \in Seq(Latest(t))
  BY <1>1, PickedByTexts DEF kept, new
<1>9. FromASide(kept \o new, o, t)
  <2>1. /\ \A i \in DOMAIN kept : kept[i] \in Latest(o) /\ kept[i].text \in Texts(kept)
        /\ \A i \in DOMAIN new : new[i] \in Latest(t) /\ new[i].text \in Texts(new)
    BY <1>8 DEF Texts
  <2>2. \A i \in DOMAIN kept : kept[i] \in Latest(IF kept[i].text \in Texts(o) THEN o ELSE t)
    BY <1>2, <2>1
  <2>3. \A i \in DOMAIN new : new[i] \in Latest(IF new[i].text \in Texts(o) THEN o ELSE t)
    BY <1>3, <2>1
  <2>4. ASSUME NEW i \in DOMAIN (kept \o new)
        PROVE  \/ \E j \in DOMAIN kept : (kept \o new)[i] = kept[j]
               \/ \E j \in DOMAIN new : (kept \o new)[i] = new[j]
    <3>1. /\ DOMAIN kept = 1 .. Len(kept) /\ DOMAIN new = 1 .. Len(new)
          /\ Len(kept) \in Nat /\ Len(new) \in Nat /\ i \in 1 .. Len(kept) + Len(new)
          /\ (kept \o new)[i] = IF i <= Len(kept) THEN kept[i] ELSE new[i - Len(kept)]
      BY <1>2, <1>3
    <3>2. CASE i <= Len(kept)
      <4>1. i \in DOMAIN kept /\ (kept \o new)[i] = kept[i]
        BY <3>1, <3>2
      <4> QED BY <4>1
    <3>3. CASE ~(i <= Len(kept))
      <4>1. i - Len(kept) \in DOMAIN new /\ (kept \o new)[i] = new[i - Len(kept)]
        BY <3>1, <3>3
      <4> QED BY <4>1
    <3> QED BY <3>2, <3>3
  <2> QED BY <2>2, <2>3, <2>4 DEF FromASide
<1> QED BY <1>4, <1>6, <1>7, <1>9

\* Merging the same branch once more adds nothing and takes nothing away.
LEMMA MergedOnceMore ==
  ASSUME NEW E, NEW b, NEW o \in Seq(E), NEW t \in Seq(E)
  PROVE  MergeEntries(b, MergeEntries(b, o, t), t) = MergeEntries(b, o, t)
<1>0. LET m == MergeEntries(b, o, t)
      IN  /\ m \in Seq(E) /\ Distinct(m)
          /\ Texts(m) = TextsOfBoth(b, o, t)
  BY MergedTexts
<1> DEFINE m == MergeEntries(b, o, t)
           there == EntriesOf(t)
           stay == With(m, Texts(t) \cup (Texts(m) \ Texts(b)))
           come == With(there, Texts(t) \ (Texts(m) \cup Texts(b)))
<1>1. /\ m \in Seq(E) /\ Distinct(m)
      /\ Texts(m) = TextsOfBoth(b, o, t)
  BY <1>0
<1>2. EntriesOf(m) = m /\ there \in Seq(E)
  BY <1>1, EntriesByText
<1>3. MergeEntries(b, m, t) = Picked(EntriesOf(m), With(EntriesOf(m), Texts(t) \cup (Texts(m) \ Texts(b))))
                              \o Picked(there, come)
  BY DEF MergeEntries
<1> HIDE DEF m, there
<1>4. DOMAIN m \subseteq stay
  <2>1. \A i \in DOMAIN m : m[i].text \in Texts(m)
    BY DEF Texts
  <2>2. Texts(m) \subseteq Texts(t) \cup (Texts(m) \ Texts(b))
    BY <1>1 DEF TextsOfBoth
  <2> QED BY <2>1, <2>2 DEF With
<1>5. Picked(m, stay) = m
  <2> HIDE DEF stay
  <2> QED BY <1>1, <1>4, PickedAll
<1>6. come = {}
  <2>1. Texts(t) \ (Texts(m) \cup Texts(b)) = {}
    BY <1>1 DEF TextsOfBoth
  <2> QED BY <2>1 DEF With
<1>7. Picked(there, come) = <<>>
  <2> HIDE DEF come
  <2> QED BY <1>2, <1>6, PickedNone
<1>8. MergeEntries(b, m, t) = m \o <<>>
  BY <1>2, <1>3, <1>5, <1>7
<1>9. m \o <<>> = m
  BY <1>1
<1> QED BY <1>8, <1>9 DEF m

LEMMA EachTextOnce ==
  ASSUME NEW E, NEW es \in Seq(E), Distinct(es)
  PROVE  Cardinality(Texts(es)) = Len(es)
<1> DEFINE text == [i \in 1 .. Len(es) |-> es[i].text]
<1>1. Len(es) \in Nat /\ DOMAIN es = 1 .. Len(es)
  OBVIOUS
<1>2. text \in Bijection(1 .. Len(es), Texts(es))
  BY <1>1 DEF Bijection, Injection, IsInjective, Surjection, Texts, Distinct
<1>3. IsFiniteSet(1 .. Len(es)) /\ Cardinality(1 .. Len(es)) = Len(es)
  <2> DEFINE n == Len(es)
  <2> HIDE DEF n
  <2>1. n \in Nat
    BY <1>1 DEF n
  <2>2. IsFiniteSet(1 .. n) /\ Cardinality(1 .. n) = IF 1 > n THEN 0 ELSE n - 1 + 1
    BY <2>1, FS_Interval
  <2>3. IsFiniteSet(1 .. n) /\ Cardinality(1 .. n) = n
    BY <2>1, <2>2
  <2> QED BY <2>3 DEF n
<1> HIDE DEF text
<1>4. ExistsBijection(1 .. Len(es), Texts(es))
  BY <1>2 DEF ExistsBijection
<1> QED BY <1>3, <1>4, FS_Bijection

-----------------------------------------------------------------------------
(* A branch merged twice.                                                  *)

LEMMA NoConflictNoClash ==
  ASSUME NEW base, NEW ours, NEW theirs, NEW id, NEW field \in StepFields,
         Conflicts(base, ours, theirs) = {}
  PROVE  ~ClashAt(base, ours, theirs, id, field)
<1>1. FieldConflicts(base, ours, theirs) = {} /\ StepConflicts(base, ours, theirs) = {}
  BY DEF Conflicts
<1>2. CASE id \in DOMAIN ours.steps /\ id \in DOMAIN theirs.steps
  BY <1>1, <1>2, FieldClash
<1>3. CASE id \in DOMAIN ours.steps /\ id \notin DOMAIN theirs.steps
  BY <1>1, <1>3, StepClash
<1>4. CASE id \notin DOMAIN ours.steps /\ id \in DOMAIN theirs.steps
  BY <1>1, <1>4, StepClash
<1>5. CASE id \notin DOMAIN ours.steps /\ id \notin DOMAIN theirs.steps
  BY <1>5, CellIsThere DEF ClashAt
<1> QED BY <1>2, <1>3, <1>4, <1>5

LEMMA NoClashNoConflict ==
  ASSUME NEW base, NEW ours, NEW theirs,
         \A id : \A field \in StepFields : ~ClashAt(base, ours, theirs, id, field),
         ~TitleConflict(base, ours, theirs)
  PROVE  Conflicts(base, ours, theirs) = {}
<1>1. FieldConflicts(base, ours, theirs) = {}
  <2> SUFFICES ASSUME NEW c \in FieldConflicts(base, ours, theirs) PROVE FALSE
    OBVIOUS
  <2>1. PICK id, field : /\ c = <<id, field>> /\ field \in StepFields
                         /\ id \in DOMAIN ours.steps /\ id \in DOMAIN theirs.steps
    BY DEF FieldConflicts
  <2>2. ClashAt(base, ours, theirs, id, field)
    BY <2>1, FieldClash
  <2> QED BY <2>1, <2>2
<1>2. StepConflicts(base, ours, theirs) = {}
  <2> SUFFICES ASSUME NEW id \in StepConflicts(base, ours, theirs) PROVE FALSE
    OBVIOUS
  <2>1. \/ id \notin DOMAIN ours.steps /\ id \in DOMAIN theirs.steps
        \/ id \in DOMAIN ours.steps /\ id \notin DOMAIN theirs.steps
    BY DEF StepConflicts
  <2>2. \E field \in StepFields : ClashAt(base, ours, theirs, id, field)
    BY <2>1, StepClash
  <2> QED BY <2>2
<1> QED BY <1>1, <1>2 DEF Conflicts

\* Of any three documents that merge without a conflict: merging the same branch
\* once more into what came out of it has no conflict and changes nothing.  What
\* was taken from the branch was taken as the branch has it (mergeDocuments).
THEOREM MergeTwiceIsMergeOnce ==
  ASSUME NEW E, NEW base, NEW ours, NEW theirs,
         ours.entries \in Seq(E), theirs.entries \in Seq(E),
         Conflicts(base, ours, theirs) = {}
  PROVE  LET m == Merged(base, ours, theirs)
         IN  /\ Conflicts(base, m, theirs) = {}
             /\ SameDocument(Merged(base, m, theirs), m)
<1> DEFINE m == Merged(base, ours, theirs)
           again == Merged(base, m, theirs)
<1>1. /\ m.title = IF ours.title = base.title THEN theirs.title ELSE ours.title
      /\ m.entries = MergeEntries(base.entries, ours.entries, theirs.entries)
      /\ again.title = IF m.title = base.title THEN theirs.title ELSE m.title
      /\ again.entries = MergeEntries(base.entries, m.entries, theirs.entries)
  BY DEF Merged
<1>2. ASSUME NEW id, NEW field \in StepFields
      PROVE  /\ ~ClashAt(base, ours, theirs, id, field)
             /\ Cell(m, id, field) =
                  IF Cell(ours, id, field) # Cell(base, id, field) THEN Cell(ours, id, field)
                  ELSE Cell(theirs, id, field)
  BY NoConflictNoClash, MergedCell
<1> HIDE DEF m
<1>3. ASSUME NEW id, NEW field \in StepFields PROVE ~ClashAt(base, m, theirs, id, field)
  BY <1>2 DEF ClashAt
<1>4. ASSUME NEW id, NEW field \in StepFields PROVE Cell(again, id, field) = Cell(m, id, field)
  <2>1. Cell(again, id, field) =
          IF Cell(m, id, field) # Cell(base, id, field) THEN Cell(m, id, field)
          ELSE Cell(theirs, id, field)
    BY <1>3, MergedCell
  <2> HIDE DEF again
  <2> QED BY <1>2, <2>1
<1> HIDE DEF again
<1>5. ~TitleConflict(base, ours, theirs)
  BY DEF Conflicts
<1>6. ~TitleConflict(base, m, theirs) /\ again.title = m.title
  BY <1>1, <1>5 DEF TitleConflict
<1>7. Conflicts(base, m, theirs) = {}
  BY <1>3, <1>6, NoClashNoConflict
<1>8. again.entries = m.entries
  BY <1>1, MergedOnceMore
<1>9. ASSUME NEW id PROVE id \in DOMAIN again.steps <=> id \in DOMAIN m.steps
  <2>1. Cell(again, id, "order") = Cell(m, id, "order")
    BY <1>4 DEF StepFields
  <2> QED BY <2>1, CellIsThere
<1>10. DOMAIN again.steps = DOMAIN m.steps
  BY <1>9
<1>11. ASSUME NEW id \in DOMAIN again.steps PROVE SameStep(again.steps[id], m.steps[id])
  BY <1>4, <1>10, SameCell DEF SameStep
<1>12. SameDocument(again, m)
  BY <1>6, <1>8, <1>10, <1>11 DEF SameDocument, SameEntry
<1> QED BY <1>7, <1>12 DEF m, again

-----------------------------------------------------------------------------
(* The inputs of MCFunctions, and what was computed of one.                *)

InputInv ==
  /\ given.kind = "merge" =>
       \A d \in {given.base, given.ours, given.theirs} :
         DOMAIN d.steps \subseteq {"s1", "s2"} /\ d.entries \in Seq(Entry)
  /\ IsMerge =>
       /\ given.kind = "merge"
       /\ got.conflicts = Conflicts(given.base, given.ours, given.theirs)
       /\ got.merged = Merged(given.base, given.ours, given.theirs)
       /\ got.diff = DiffDocuments(given.base, given.theirs)

LEMMA InputsStay == Spec => []InputInv
<1>1. Init => InputInv
  <2> SUFFICES ASSUME Init PROVE InputInv
    OBVIOUS
  <2>1. ~IsMerge
    BY DEF Init, IsMerge, Nothing
  <2>2. ASSUME NEW d \in StepDocuments \cup EntryDocuments
        PROVE  DOMAIN d.steps \subseteq {"s1", "s2"} /\ d.entries \in Seq(Entry)
    <3>1. ASSUME NEW f \in StepMaps PROVE DOMAIN f \subseteq {"s1", "s2"}
      BY DEF StepMaps
    <3>2. d.steps \in StepMaps \/ d.steps = <<>>
      BY DEF StepDocuments, EntryDocuments
    <3>3. d.entries = <<>> \/ d.entries \in Lists(Entry, MaxEntries)
      BY DEF StepDocuments, EntryDocuments
    <3>4. ASSUME NEW es \in Lists(Entry, MaxEntries) PROVE es \in Seq(Entry)
      <4>1. PICK k \in 0 .. MaxEntries : es \in [1 .. k -> Entry]
        BY DEF Lists
      <4>2. k \in Nat
        BY <4>1, FunctionsAssumption
      <4> QED BY <4>1, <4>2
    <3>5. <<>> \in Seq(Entry) /\ DOMAIN <<>> = {}
      OBVIOUS
    <3>6. d.entries \in Seq(Entry)
      BY <3>3, <3>4, <3>5
    <3>7. DOMAIN d.steps \subseteq {"s1", "s2"}
      BY <3>1, <3>2, <3>5
    <3> QED BY <3>6, <3>7
  <2>3. given.kind = "merge" =>
          {given.base, given.ours, given.theirs} \subseteq StepDocuments \cup EntryDocuments
    BY DEF Init
  <2> QED BY <2>1, <2>2, <2>3 DEF InputInv
<1>2. InputInv /\ [Next]_vars => InputInv'
  <2> SUFFICES ASSUME InputInv, [Next]_vars PROVE InputInv'
    OBVIOUS
  <2>1. CASE Merge
    BY <2>1 DEF Merge, InputInv, IsMerge
  <2>2. CASE Compare \/ Read
    BY <2>2 DEF Compare, Read, InputInv, IsMerge
  <2>3. CASE UNCHANGED vars
    BY <2>3 DEF vars, InputInv, IsMerge
  <2> QED BY <2>1, <2>2, <2>3 DEF Next
<1> QED BY <1>1, <1>2, PTL DEF Spec

\* What is in a patch.
LEMMA PatchOfCells ==
  ASSUME NEW base, NEW side
  PROVE  /\ \A cell \in Cells :
              Cell(side, cell[1], cell[2]) # Cell(base, cell[1], cell[2]) =>
                <<cell, Cell(side, cell[1], cell[2])>> \in Patch(base, side)
         /\ \A x \in Patch(base, side) :
              /\ x[1] \in Cells
              /\ x[2] = Cell(side, x[1][1], x[1][2])
              /\ x[2] # Cell(base, x[1][1], x[1][2])
BY DEF Patch

LEMMA ClashOfPatches ==
  ASSUME NEW base, NEW ours, NEW theirs
  PROVE  Clash(Patch(base, ours), Patch(base, theirs))
           <=> \E cell \in Cells : ClashAt(base, ours, theirs, cell[1], cell[2])
<1>1. ASSUME NEW x \in Patch(base, ours), NEW y \in Patch(base, theirs), x[1] = y[1], x[2] # y[2]
      PROVE  x[1] \in Cells /\ ClashAt(base, ours, theirs, x[1][1], x[1][2])
  BY <1>1, PatchOfCells DEF ClashAt
<1>2. ASSUME NEW cell \in Cells, ClashAt(base, ours, theirs, cell[1], cell[2])
      PROVE  Clash(Patch(base, ours), Patch(base, theirs))
  <2> DEFINE x == <<cell, Cell(ours, cell[1], cell[2])>>
             y == <<cell, Cell(theirs, cell[1], cell[2])>>
  <2>1. x \in Patch(base, ours) /\ y \in Patch(base, theirs)
    BY <1>2, PatchOfCells DEF ClashAt
  <2>2. x[1] = y[1] /\ x[2] # y[2]
    BY <1>2 DEF ClashAt
  <2> QED BY <2>1, <2>2 DEF Clash
<1>3. Clash(Patch(base, ours), Patch(base, theirs)) =>
        \E cell \in Cells : ClashAt(base, ours, theirs, cell[1], cell[2])
  BY <1>1 DEF Clash
<1> QED BY <1>2, <1>3

\* Without a clash the patches say one thing of a cell, if they say any.
LEMMA PatchedCell ==
  ASSUME NEW cell \in Cells, ~ClashAt(given.base, given.ours, given.theirs, cell[1], cell[2])
  PROVE  Patched(cell) =
           IF Cell(given.ours, cell[1], cell[2]) # Cell(given.base, cell[1], cell[2])
           THEN Cell(given.ours, cell[1], cell[2])
           ELSE Cell(given.theirs, cell[1], cell[2])
<1> DEFINE P == Patch(given.base, given.ours)
           Q == Patch(given.base, given.theirs)
           said == {x \in P \cup Q : x[1] = cell}
           b == Cell(given.base, cell[1], cell[2])
           o == Cell(given.ours, cell[1], cell[2])
           t == Cell(given.theirs, cell[1], cell[2])
<1>1. Patched(cell) = IF said = {} THEN b ELSE (CHOOSE x \in said : TRUE)[2]
  BY DEF Patched
<1>2. \A x \in said : x[2] # b /\ x[2] \in {o, t}
  BY PatchOfCells
<1>3. /\ o # b => <<cell, o>> \in said
      /\ t # b => <<cell, t>> \in said
  BY PatchOfCells
<1>4. o = b \/ t = b \/ o = t
  BY DEF ClashAt
<1>5. Patched(cell) = IF o # b THEN o ELSE t
  <2> HIDE DEF said, b, o, t
  <2>1. CASE said = {}
    BY <1>1, <1>3, <2>1
  <2>2. CASE said # {}
    <3>1. (CHOOSE x \in said : TRUE) \in said
      BY <2>2
    <3> QED BY <1>1, <1>2, <1>4, <2>2, <3>1
  <2> QED BY <2>1, <2>2
<1> QED BY <1>5

\* Whatever two documents one branches from: the merge's conflicts on steps are
\* the cells both sides changed, and without one the merged steps are the base's
\* under the changes of both sides (mergeDocuments, the steps).
THEOREM StepsMerge == Spec => []StepsTakeBothSides
<1>1. ASSUME InputInv, IsMerge PROVE StepsTakeBothSides
  <2>0. PICK base, ours, theirs : base = given.base /\ ours = given.ours /\ theirs = given.theirs
    OBVIOUS
  <2> DEFINE P == Patch(base, ours)
             Q == Patch(base, theirs)
             Clashes == \E c \in Cells : ClashAt(base, ours, theirs, c[1], c[2])
  <2>1. /\ got.conflicts = Conflicts(base, ours, theirs)
        /\ got.merged = Merged(base, ours, theirs)
        /\ \A d \in {base, ours, theirs} : DOMAIN d.steps \subseteq {"s1", "s2"}
    BY <1>1, <2>0 DEF InputInv
  <2>2. Clash(P, Q) <=> Clashes
    BY PatchOfCells, ClashOfPatches
  <2>3. ({c \in got.conflicts : c[1] # "document"} = {}) <=> ~Clashes
    <3>1. ASSUME NEW c \in got.conflicts, c[1] # "document" PROVE Clashes
      <4>1. PICK id : id = c[1] /\ id # "document"
        BY <3>1
      <4>2. PICK field \in StepFields : ClashAt(base, ours, theirs, id, field)
        BY <2>1, <3>1, <4>1, ClashIsConflict
      <4>3. id \in {"s1", "s2"}
        BY <2>1, <4>2, CellIsThere DEF ClashAt
      <4>4. <<id, field>> \in Cells
        BY <4>3 DEF Cells
      <4> QED BY <4>2, <4>4
    <3>2. ASSUME NEW cell \in Cells, ClashAt(base, ours, theirs, cell[1], cell[2])
          PROVE  \E c \in got.conflicts : c[1] # "document"
      <4>1. PICK id, field : id = cell[1] /\ field = cell[2]
        OBVIOUS
      <4>2. id # "document" /\ field \in StepFields
        BY <4>1 DEF Cells
      <4>3. PICK c \in Conflicts(base, ours, theirs) : c[1] = id
        BY <3>2, <4>1, <4>2, ClashIsConflict
      <4> QED BY <2>1, <4>2, <4>3
    <3> QED BY <3>1, <3>2
  <2>4. ASSUME ~Clashes, NEW cell \in Cells
        PROVE  Cell(got.merged, cell[1], cell[2]) = Patched(cell)
    <3>1. PICK id, field : id = cell[1] /\ field = cell[2]
      OBVIOUS
    <3>2. field \in StepFields
      BY <3>1 DEF Cells
    <3>3. ~ClashAt(base, ours, theirs, id, field)
      BY <2>4, <3>1
    <3>4. Cell(got.merged, id, field) =
            IF Cell(ours, id, field) # Cell(base, id, field) THEN Cell(ours, id, field)
            ELSE Cell(theirs, id, field)
      BY <2>1, <3>2, <3>3, MergedCell
    <3>5. Patched(cell) =
            IF Cell(ours, id, field) # Cell(base, id, field) THEN Cell(ours, id, field)
            ELSE Cell(theirs, id, field)
      BY <2>0, <3>1, <3>3, PatchedCell
    <3> QED BY <3>1, <3>4, <3>5
  <2>5. Clean <=> ~Clash(P, Q)
    BY <2>0 DEF Clean
  <2> HIDE DEF Clashes, P, Q
  <2>6. Clean = ({c \in got.conflicts : c[1] # "document"} = {})
    BY <2>2, <2>3, <2>5 DEF Clean
  <2>7. Clean => \A c \in Cells : Cell(got.merged, c[1], c[2]) = Patched(c)
    BY <2>2, <2>4, <2>5
  <2> QED BY <2>6, <2>7 DEF StepsTakeBothSides
<1>2. InputInv => StepsTakeBothSides
  BY <1>1 DEF StepsTakeBothSides
<1> QED BY <1>2, InputsStay, PTL

\* Whatever two documents one branches from: the merged entries are those that
\* either side has and neither removed, one of each text, each as one side has it;
\* and merging the branch once more changes nothing (mergeDocuments, the sections).
THEOREM EntriesMerge == Spec => []EntriesTakeBothSides
<1>1. ASSUME InputInv, IsMerge PROVE EntriesTakeBothSides
  <2>0. PICK base, ours, theirs : base = given.base /\ ours = given.ours /\ theirs = given.theirs
    OBVIOUS
  <2> DEFINE b == base.entries
             o == ours.entries
             t == theirs.entries
             merged == Merged(base, ours, theirs)
  <2>1. /\ got.conflicts = Conflicts(base, ours, theirs) /\ got.merged = merged
        /\ o \in Seq(Entry) /\ t \in Seq(Entry)
    BY <1>1, <2>0 DEF InputInv
  <2>2. merged.entries = MergeEntries(b, o, t)
    BY DEF Merged
  <2>3. /\ merged.entries \in Seq(Entry) /\ Distinct(merged.entries)
        /\ Texts(merged.entries) = TextsOfBoth(b, o, t)
        /\ FromASide(merged.entries, o, t)
    BY <2>1, <2>2, MergedTexts
  <2>4. Cardinality(Texts(merged.entries)) = Len(merged.entries)
    BY <2>3, EachTextOnce
  <2>5. got.conflicts = {} =>
          /\ Conflicts(base, merged, theirs) = {}
          /\ SameDocument(Merged(base, merged, theirs), merged)
    BY <2>1, MergeTwiceIsMergeOnce
  <2> HIDE DEF merged
  <2> QED BY <2>0, <2>1, <2>3, <2>4, <2>5 DEF EntriesTakeBothSides, TextsOfBoth, FromASide
<1>2. InputInv => EntriesTakeBothSides
  BY <1>1 DEF EntriesTakeBothSides
<1> QED BY <1>2, InputsStay, PTL

\* Whatever document is made of another: their diff is empty exactly when they
\* say the same in every step, title and text (diffDocuments).
THEOREM DiffsAreExact == Spec => []DiffTellsThemApart
<1>1. ASSUME InputInv, IsMerge PROVE DiffTellsThemApart
  <2> DEFINE same == \A c \in Cells : Cell(given.base, c[1], c[2]) = Cell(given.theirs, c[1], c[2])
             differ == \A id \in DOMAIN given.base.steps \cup DOMAIN given.theirs.steps,
                          field \in StepFields :
                         Cell(given.base, id, field) = Cell(given.theirs, id, field)
  <2>1. /\ got.diff = DiffDocuments(given.base, given.theirs)
        /\ DOMAIN given.base.steps \subseteq {"s1", "s2"}
        /\ DOMAIN given.theirs.steps \subseteq {"s1", "s2"}
    BY <1>1 DEF InputInv
  <2>2. same => differ
    <3>1. ASSUME same, NEW id \in {"s1", "s2"}, NEW field \in StepFields
          PROVE  Cell(given.base, id, field) = Cell(given.theirs, id, field)
      <4>1. <<id, field>> \in Cells
        BY DEF Cells
      <4> QED BY <3>1, <4>1
    <3> QED BY <2>1, <3>1
  <2>3. differ => same
    <3>1. ASSUME differ, NEW cell \in Cells
          PROVE  Cell(given.base, cell[1], cell[2]) = Cell(given.theirs, cell[1], cell[2])
      <4>1. cell[2] \in StepFields
        BY DEF Cells
      <4> QED BY <3>1, <4>1, CellIsThere
    <3> QED BY <3>1
  <2>4. got.diff = DiffDocuments(given.base, given.base) <=>
          /\ given.base.title = given.theirs.title
          /\ Texts(given.base.entries) = Texts(given.theirs.entries)
          /\ differ
    BY <2>1, DiffIsExact
  <2> HIDE DEF differ
  <2>5. got.diff = DiffDocuments(given.base, given.base) <=>
          /\ given.base.title = given.theirs.title
          /\ Texts(given.base.entries) = Texts(given.theirs.entries)
          /\ same
    BY <2>2, <2>3, <2>4
  <2> QED BY <2>5 DEF DiffTellsThemApart
<1>2. InputInv => DiffTellsThemApart
  BY <1>1 DEF DiffTellsThemApart
<1> QED BY <1>2, InputsStay, PTL

-----------------------------------------------------------------------------
(* The line diff is defined by recursion over a place in each text: what   *)
(* holds of every place, and that the function so defined is one, by the   *)
(* lines that are left.                                                    *)

\* What follows for an element from those of smaller measure holds of all.
LEMMA ByMeasure ==
  ASSUME NEW D, NEW mu \in [D -> Nat], NEW good,
         \A p \in D : (\A d \in D : mu[d] < mu[p] => d \in good) => p \in good
  PROVE  \A p \in D : p \in good
<1> DEFINE bad == {p \in D : p \notin good}
           sizes == {mu[p] : p \in bad}
<1> SUFFICES ASSUME bad # {} PROVE FALSE
  OBVIOUS
<1>1. sizes \in SUBSET Nat /\ sizes # {}
  OBVIOUS
<1>2. PICK m \in sizes : \A k \in sizes : m <= k
  <2> HIDE DEF sizes
  <2> QED BY <1>1, LeastOfNaturals
<1>3. PICK p \in bad : m = mu[p]
  BY <1>2
<1>4. ASSUME NEW d \in D, mu[d] < mu[p] PROVE d \in good
  <2> SUFFICES ASSUME d \in bad PROVE FALSE
    OBVIOUS
  <2>1. mu[d] \in sizes /\ mu[d] \in Nat /\ mu[p] \in Nat
    OBVIOUS
  <2>2. mu[p] <= mu[d]
    BY <1>2, <1>3, <2>1
  <2> QED BY <1>4, <2>1, <2>2
<1> QED BY <1>3, <1>4

\* F says what a function from D to V is at p, from what it is where the measure
\* is smaller.
Recursion(D, V, mu, bound, F) ==
  /\ mu \in [D -> Nat] /\ bound \in Nat /\ \A p \in D : mu[p] < bound
  /\ V # {}
  /\ \A p \in D, g \in [D -> V] : F[p][g] \in V
  /\ \A p \in D, g, h \in [D -> V] :
       (\A d \in D : mu[d] < mu[p] => g[d] = h[d]) => F[p][g] = F[p][h]

\* A function defined by recursion exists.
LEMMA RecursionExists ==
  ASSUME NEW D, NEW V, NEW mu, NEW bound, NEW F, Recursion(D, V, mu, bound, F)
  PROVE  \E g \in [D -> V] : \A p \in D : g[p] = F[p][g]
<1> USE DEF Recursion
<1> DEFINE Upto(k, g) == \A p \in D : mu[p] < k => g[p] = F[p][g]
           good == {k \in Nat : \E g \in [D -> V] : Upto(k, g)}
<1>1. 0 \in good
  <2>1. PICK v : v \in V
    OBVIOUS
  <2> DEFINE g == [p \in D |-> v]
  <2>2. g \in [D -> V] /\ Upto(0, g)
    BY <2>1
  <2> QED BY <2>2
<1>2. ASSUME NEW k \in Nat, k < bound, k \in good PROVE k + 1 \in good
  <2>1. PICK g \in [D -> V] : Upto(k, g)
    BY <1>2
  <2> DEFINE h == [p \in D |-> IF mu[p] < k THEN g[p] ELSE F[p][g]]
  <2>2. h \in [D -> V]
    OBVIOUS
  <2>3. \A p \in D : mu[p] < k => h[p] = g[p]
    OBVIOUS
  <2>4. ASSUME NEW p \in D, mu[p] < k + 1 PROVE h[p] = F[p][h]
    <3>1. mu[p] \in Nat /\ mu[p] <= k
      BY <2>4
    <3>2. \A d \in D : mu[d] < mu[p] => mu[d] < k
      BY <3>1
    <3>3. h[p] = F[p][g]
      BY <2>1
    <3> HIDE DEF h
    <3>4. \A d \in D : mu[d] < mu[p] => g[d] = h[d]
      BY <2>3, <3>2
    <3>5. F[p][g] = F[p][h]
      BY <2>2, <3>4
    <3> QED BY <3>3, <3>5
  <2>5. Upto(k + 1, h)
    BY <2>4
  <2> HIDE DEF h, Upto
  <2> QED BY <2>2, <2>5
<1>3. bound \in good
  <2> HIDE DEF good
  <2>1. \A k \in 0 .. bound : k \in good
    BY <1>1, <1>2, UpTo
  <2> QED BY <2>1
<1>4. PICK g \in [D -> V] : Upto(bound, g)
  BY <1>3
<1> QED BY <1>4

-----------------------------------------------------------------------------
(* The table of lengths and the operations (lcsOps).                       *)

\* How many lines the two texts still have from a place on.
Left(before, after) ==
  [p \in Places(before, after) |-> (Len(before) + 1 - p[1]) + (Len(after) + 1 - p[2])]

\* One line further there are fewer left.
LEMMA LeftGoesDown ==
  ASSUME NEW S, NEW a \in Seq(S), NEW b \in Seq(S)
  PROVE  /\ Left(a, b) \in [Places(a, b) -> Nat]
         /\ \A p \in Places(a, b) : Left(a, b)[p] < Len(a) + Len(b) + 1
         /\ \A i \in 1 .. Len(a) + 1, j \in 1 .. Len(b) + 1 :
              /\ <<i, j>> \in Places(a, b)
              /\ i <= Len(a) => /\ <<i + 1, j>> \in Places(a, b)
                                /\ Left(a, b)[<<i + 1, j>>] < Left(a, b)[<<i, j>>]
              /\ j <= Len(b) => /\ <<i, j + 1>> \in Places(a, b)
                                /\ Left(a, b)[<<i, j + 1>>] < Left(a, b)[<<i, j>>]
              /\ i <= Len(a) /\ j <= Len(b) => 
                                /\ <<i + 1, j + 1>> \in Places(a, b)
                                /\ Left(a, b)[<<i + 1, j + 1>>] < Left(a, b)[<<i, j>>]
<1> DEFINE D == Places(a, b)
           mu == Left(a, b)
<1>1. Len(a) \in Nat /\ Len(b) \in Nat
  OBVIOUS
<1>2. \A i \in 1 .. Len(a) + 1, j \in 1 .. Len(b) + 1 :
        <<i, j>> \in D /\ mu[<<i, j>>] = (Len(a) + 1 - i) + (Len(b) + 1 - j)
  BY <1>1 DEF Left, Places
<1>3. \A p \in D : p = <<p[1], p[2]>> /\ p[1] \in 1 .. Len(a) + 1 /\ p[2] \in 1 .. Len(b) + 1
  BY DEF Places
<1>4. DOMAIN mu = D /\ mu = [p \in D |-> mu[p]]
  BY DEF Left
<1> HIDE DEF D, mu
<1>5. \A i \in 1 .. Len(a) + 1, j \in 1 .. Len(b) + 1 :
        mu[<<i, j>>] \in Nat /\ mu[<<i, j>>] < Len(a) + Len(b) + 1
  <2> TAKE i \in 1 .. Len(a) + 1, j \in 1 .. Len(b) + 1
  <2>1. mu[<<i, j>>] = (Len(a) + 1 - i) + (Len(b) + 1 - j)
    BY <1>2
  <2> QED BY <1>1, <2>1
<1>6. \A p \in D : mu[p] \in Nat /\ mu[p] < Len(a) + Len(b) + 1
  BY <1>3, <1>5
<1>7. mu \in [D -> Nat]
  BY <1>4, <1>6
<1>8. ASSUME NEW i \in 1 .. Len(a) + 1, NEW j \in 1 .. Len(b) + 1, i <= Len(a)
      PROVE  <<i + 1, j>> \in D /\ mu[<<i + 1, j>>] < mu[<<i, j>>]
  <2>1. i + 1 \in 1 .. Len(a) + 1
    BY <1>1, <1>8
  <2>2. <<i + 1, j>> \in D /\ mu[<<i + 1, j>>] = (Len(a) + 1 - (i + 1)) + (Len(b) + 1 - j)
    BY <1>2, <2>1
  <2>3. mu[<<i, j>>] = (Len(a) + 1 - i) + (Len(b) + 1 - j)
    BY <1>2
  <2>4. (Len(a) + 1 - (i + 1)) + (Len(b) + 1 - j) < (Len(a) + 1 - i) + (Len(b) + 1 - j)
    BY <1>1
  <2> QED BY <2>2, <2>3, <2>4
<1>9. ASSUME NEW i \in 1 .. Len(a) + 1, NEW j \in 1 .. Len(b) + 1, j <= Len(b)
      PROVE  <<i, j + 1>> \in D /\ mu[<<i, j + 1>>] < mu[<<i, j>>]
  <2>1. j + 1 \in 1 .. Len(b) + 1
    BY <1>1, <1>9
  <2>2. <<i, j + 1>> \in D /\ mu[<<i, j + 1>>] = (Len(a) + 1 - i) + (Len(b) + 1 - (j + 1))
    BY <1>2, <2>1
  <2>3. mu[<<i, j>>] = (Len(a) + 1 - i) + (Len(b) + 1 - j)
    BY <1>2
  <2>4. (Len(a) + 1 - i) + (Len(b) + 1 - (j + 1)) < (Len(a) + 1 - i) + (Len(b) + 1 - j)
    BY <1>1
  <2> QED BY <2>2, <2>3, <2>4
<1>10. ASSUME NEW i \in 1 .. Len(a) + 1, NEW j \in 1 .. Len(b) + 1, i <= Len(a), j <= Len(b)
       PROVE  <<i + 1, j + 1>> \in D /\ mu[<<i + 1, j + 1>>] < mu[<<i, j>>]
  <2>1. i + 1 \in 1 .. Len(a) + 1 /\ j + 1 \in 1 .. Len(b) + 1
    BY <1>1, <1>10
  <2>2. <<i + 1, j + 1>> \in D /\ mu[<<i + 1, j + 1>>] = (Len(a) + 1 - (i + 1)) + (Len(b) + 1 - (j + 1))
    BY <1>2, <2>1
  <2>3. mu[<<i, j>>] = (Len(a) + 1 - i) + (Len(b) + 1 - j)
    BY <1>2
  <2>4. (Len(a) + 1 - (i + 1)) + (Len(b) + 1 - (j + 1)) < (Len(a) + 1 - i) + (Len(b) + 1 - j)
    BY <1>1
  <2> QED BY <2>2, <2>3, <2>4
<1> QED BY <1>2, <1>6, <1>7, <1>8, <1>9, <1>10 DEF D, mu

Larger(m, n) == IF m > n THEN m ELSE n

\* The table at a place, as lcsOps fills it.
TableAt(before, after, i, j) ==
  /\ Table(before, after)[<<i, j>>] \in Nat
  /\ Table(before, after)[<<i, j>>] =
       IF i > Len(before) \/ j > Len(after) THEN 0
       ELSE IF before[i] = after[j] THEN 1 + Table(before, after)[<<i + 1, j + 1>>]
       ELSE Larger(Table(before, after)[<<i + 1, j>>], Table(before, after)[<<i, j + 1>>])

LEMMA TableGoesBack ==
  ASSUME NEW S, NEW a \in Seq(S), NEW b \in Seq(S)
  PROVE  \A i \in 1 .. Len(a) + 1, j \in 1 .. Len(b) + 1 : TableAt(a, b, i, j)
<1> DEFINE m == Len(a)
           n == Len(b)
           D == Places(a, b)
           mu == Left(a, b)
           Body(g, p) == IF p[1] > m \/ p[2] > n THEN 0
                         ELSE IF a[p[1]] = b[p[2]] THEN 1 + g[<<p[1] + 1, p[2] + 1>>]
                         ELSE Larger(g[<<p[1] + 1, p[2]>>], g[<<p[1], p[2] + 1>>])
           F == [p \in D |-> [g \in [D -> Nat] |-> Body(g, p)]]
<1>1. m \in Nat /\ n \in Nat
  OBVIOUS
<1>2. /\ mu \in [D -> Nat] /\ m + n + 1 \in Nat /\ \A p \in D : mu[p] < m + n + 1
      /\ \A i \in 1 .. m + 1, j \in 1 .. n + 1 :
           /\ <<i, j>> \in D
           /\ i <= m => <<i + 1, j>> \in D /\ mu[<<i + 1, j>>] < mu[<<i, j>>]
           /\ j <= n => <<i, j + 1>> \in D /\ mu[<<i, j + 1>>] < mu[<<i, j>>]
           /\ i <= m /\ j <= n => <<i + 1, j + 1>> \in D /\ mu[<<i + 1, j + 1>>] < mu[<<i, j>>]
  <2>1. m + n + 1 \in Nat
    BY <1>1
  <2> HIDE DEF m, n, D, mu
  <2>2. mu \in [D -> Nat] /\ \A p \in D : mu[p] < m + n + 1
    BY LeftGoesDown DEF m, n, D, mu
  <2>3. ASSUME NEW i \in 1 .. m + 1, NEW j \in 1 .. n + 1
        PROVE  /\ <<i, j>> \in D
               /\ i <= m => <<i + 1, j>> \in D /\ mu[<<i + 1, j>>] < mu[<<i, j>>]
               /\ j <= n => <<i, j + 1>> \in D /\ mu[<<i, j + 1>>] < mu[<<i, j>>]
               /\ i <= m /\ j <= n => <<i + 1, j + 1>> \in D /\ mu[<<i + 1, j + 1>>] < mu[<<i, j>>]
    BY LeftGoesDown DEF m, n, D, mu
  <2> QED BY <2>1, <2>2, <2>3
<1>3. \A p \in D : p = <<p[1], p[2]>> /\ p[1] \in 1 .. m + 1 /\ p[2] \in 1 .. n + 1
  BY DEF Places
<1> HIDE DEF D, mu, m, n
<1>4. ASSUME NEW p \in D
      PROVE  ~(p[1] > m \/ p[2] > n) =>
               /\ <<p[1] + 1, p[2]>> \in D /\ mu[<<p[1] + 1, p[2]>>] < mu[p]
               /\ <<p[1], p[2] + 1>> \in D /\ mu[<<p[1], p[2] + 1>>] < mu[p]
               /\ <<p[1] + 1, p[2] + 1>> \in D /\ mu[<<p[1] + 1, p[2] + 1>>] < mu[p]
  <2>1. ~(p[1] > m \/ p[2] > n) => p[1] <= m /\ p[2] <= n
    BY <1>1, <1>3
  <2> QED BY <1>2, <1>3, <2>1
<1>5. ASSUME NEW p \in D, NEW g \in [D -> Nat] PROVE Body(g, p) \in Nat
  BY <1>4 DEF Larger
<1>6. ASSUME NEW p \in D, NEW g, NEW h, \A d \in D : mu[d] < mu[p] => g[d] = h[d]
      PROVE  Body(g, p) = Body(h, p)
  BY <1>4, <1>6
<1>7. \A p \in D, g \in [D -> Nat] : F[p][g] = Body(g, p)
  OBVIOUS
<1> HIDE DEF Body, F
<1>8. PICK f \in [D -> Nat] : \A p \in D : f[p] = F[p][f]
  <2>1. \A p \in D, g \in [D -> Nat] : F[p][g] \in Nat
    BY <1>5, <1>7
  <2>2. \A p \in D, g, h \in [D -> Nat] :
           (\A d \in D : mu[d] < mu[p] => g[d] = h[d]) => F[p][g] = F[p][h]
    <3> SUFFICES ASSUME NEW p \in D, NEW g \in [D -> Nat], NEW h \in [D -> Nat],
                        \A d \in D : mu[d] < mu[p] => g[d] = h[d]
                 PROVE  F[p][g] = F[p][h]
      OBVIOUS
    <3>1. Body(g, p) = Body(h, p)
      BY <1>6
    <3> QED BY <1>7, <3>1
  <2>3. Nat # {}
    OBVIOUS
  <2>4. Recursion(D, Nat, mu, m + n + 1, F)
    BY <1>2, <2>1, <2>2, <2>3 DEF Recursion
  <2> QED BY <2>4, RecursionExists
<1>9. f = [p \in D |-> Body(f, p)]
  BY <1>7, <1>8
<1> DEFINE table == CHOOSE g : g = [p \in D |-> Body(g, p)]
<1>10. Table(a, b) = table
  BY DEF Table, Body, D, m, n, Larger
<1>11. table = [p \in D |-> Body(table, p)]
  BY <1>9
<1> HIDE DEF table
<1>12. \A p \in D : table[p] = Body(table, p)
  BY <1>11
<1>13. \A p \in D : table[p] = f[p]
  <2> DEFINE good == {p \in D : table[p] = f[p]}
  <2>1. ASSUME NEW p \in D, \A d \in D : mu[d] < mu[p] => d \in good PROVE p \in good
    <3>1. \A d \in D : mu[d] < mu[p] => table[d] = f[d]
      BY <2>1
    <3>2. Body(table, p) = Body(f, p)
      BY <1>6, <3>1
    <3>3. table[p] = f[p]
      BY <1>7, <1>8, <1>12, <3>2
    <3> QED BY <3>3
  <2> HIDE DEF good
  <2>2. \A p \in D : p \in good
    BY <1>2, <2>1, ByMeasure
  <2> QED BY <2>2 DEF good
<1>14. ASSUME NEW i \in 1 .. m + 1, NEW j \in 1 .. n + 1
       PROVE  /\ table[<<i, j>>] \in Nat
              /\ table[<<i, j>>] =
                   IF i > m \/ j > n THEN 0
                   ELSE IF a[i] = b[j] THEN 1 + table[<<i + 1, j + 1>>]
                   ELSE Larger(table[<<i + 1, j>>], table[<<i, j + 1>>])
  <2>1. <<i, j>> \in D /\ <<i, j>>[1] = i /\ <<i, j>>[2] = j
    BY <1>2
  <2> QED BY <1>8, <1>12, <1>13, <2>1 DEF Body
<1> QED BY <1>10, <1>14 DEF TableAt, m, n

\* The operations on texts whose lines are in S.
OpsOn(S) ==
  {op \in [type : {"equal", "delete", "insert"}, a : Nat, b : Nat, line : S] :
     IsChange(op) = (op.a = 0 \/ op.b = 0)}

\* What lcsOps pushes is one of them.
LEMMA OpsAreOps ==
  ASSUME NEW S, NEW line \in S, NEW i \in Nat \ {0}, NEW j \in Nat \ {0}
  PROVE  Equal(i, j, line) \in OpsOn(S) /\ Delete(i, line) \in OpsOn(S) /\ Insert(j, line) \in OpsOn(S)
BY DEF OpsOn, Equal, Delete, Insert, IsChange

\* The operations from each place on, as lcsOps goes.
GoBack(O, S, a, b) ==
  \A i \in 1 .. Len(a) + 1, j \in 1 .. Len(b) + 1 :
    /\ O[<<i, j>>] \in Seq(OpsOn(S))
    /\ O[<<i, j>>] =
         IF i > Len(a)
         THEN IF j > Len(b) THEN <<>> ELSE <<Insert(j, b[j])>> \o O[<<i, j + 1>>]
         ELSE IF j > Len(b) THEN <<Delete(i, a[i])>> \o O[<<i + 1, j>>]
         ELSE IF a[i] = b[j] THEN <<Equal(i, j, a[i])>> \o O[<<i + 1, j + 1>>]
         ELSE IF Table(a, b)[<<i + 1, j>>] >= Table(a, b)[<<i, j + 1>>]
              THEN <<Delete(i, a[i])>> \o O[<<i + 1, j>>]
              ELSE <<Insert(j, b[j])>> \o O[<<i, j + 1>>]

\* The operations are such a function's at the start of both texts.
LEMMA OpsGoBack ==
  ASSUME NEW S, NEW a \in Seq(S), NEW b \in Seq(S)
  PROVE  \E O : LcsOps(a, b) = O[<<1, 1>>] /\ GoBack(O, S, a, b)
<1> DEFINE m == Len(a)
           n == Len(b)
           D == Places(a, b)
           V == Seq(OpsOn(S))
           T == Table(a, b)
           mu == Left(a, b)
           Body(g, p) ==
             IF p[1] > m
             THEN IF p[2] > n THEN <<>> ELSE <<Insert(p[2], b[p[2]])>> \o g[<<p[1], p[2] + 1>>]
             ELSE IF p[2] > n THEN <<Delete(p[1], a[p[1]])>> \o g[<<p[1] + 1, p[2]>>]
             ELSE IF a[p[1]] = b[p[2]] THEN <<Equal(p[1], p[2], a[p[1]])>> \o g[<<p[1] + 1, p[2] + 1>>]
             ELSE IF T[<<p[1] + 1, p[2]>>] >= T[<<p[1], p[2] + 1>>]
                  THEN <<Delete(p[1], a[p[1]])>> \o g[<<p[1] + 1, p[2]>>]
                  ELSE <<Insert(p[2], b[p[2]])>> \o g[<<p[1], p[2] + 1>>]
           F == [p \in D |-> [g \in [D -> V] |-> Body(g, p)]]
<1>1. /\ m \in Nat /\ n \in Nat /\ \A i \in 1 .. m : a[i] \in S /\ \A j \in 1 .. n : b[j] \in S
  OBVIOUS
<1>b. \A j \in 1 .. n : b[j] \in S
  OBVIOUS
<1>2. /\ mu \in [D -> Nat] /\ m + n + 1 \in Nat /\ \A p \in D : mu[p] < m + n + 1
      /\ \A i \in 1 .. m + 1, j \in 1 .. n + 1 :
           /\ <<i, j>> \in D
           /\ i <= m => <<i + 1, j>> \in D /\ mu[<<i + 1, j>>] < mu[<<i, j>>]
           /\ j <= n => <<i, j + 1>> \in D /\ mu[<<i, j + 1>>] < mu[<<i, j>>]
           /\ i <= m /\ j <= n => <<i + 1, j + 1>> \in D /\ mu[<<i + 1, j + 1>>] < mu[<<i, j>>]
  <2>1. m + n + 1 \in Nat
    BY <1>1
  <2> HIDE DEF m, n, D, mu
  <2>2. mu \in [D -> Nat] /\ \A p \in D : mu[p] < m + n + 1
    BY LeftGoesDown DEF m, n, D, mu
  <2>3. ASSUME NEW i \in 1 .. m + 1, NEW j \in 1 .. n + 1
        PROVE  /\ <<i, j>> \in D
               /\ i <= m => <<i + 1, j>> \in D /\ mu[<<i + 1, j>>] < mu[<<i, j>>]
               /\ j <= n => <<i, j + 1>> \in D /\ mu[<<i, j + 1>>] < mu[<<i, j>>]
               /\ i <= m /\ j <= n => <<i + 1, j + 1>> \in D /\ mu[<<i + 1, j + 1>>] < mu[<<i, j>>]
    BY LeftGoesDown DEF m, n, D, mu
  <2> QED BY <2>1, <2>2, <2>3
<1>3. \A p \in D : p = <<p[1], p[2]>> /\ p[1] \in 1 .. m + 1 /\ p[2] \in 1 .. n + 1
  BY DEF Places
<1> HIDE DEF D, mu, m, n, V, T
<1>4. ASSUME NEW p \in D
      PROVE  /\ p[1] \in Nat \ {0} /\ p[2] \in Nat \ {0}
             /\ ~(p[1] > m) =>
                  /\ <<p[1] + 1, p[2]>> \in D /\ mu[<<p[1] + 1, p[2]>>] < mu[p]
                  /\ p[1] \in 1 .. m /\ a[p[1]] \in S
             /\ ~(p[2] > n) =>
                  /\ <<p[1], p[2] + 1>> \in D /\ mu[<<p[1], p[2] + 1>>] < mu[p]
                  /\ p[2] \in 1 .. n /\ b[p[2]] \in S
             /\ ~(p[1] > m) /\ ~(p[2] > n) =>
                  <<p[1] + 1, p[2] + 1>> \in D /\ mu[<<p[1] + 1, p[2] + 1>>] < mu[p]
  <2>1. /\ ~(p[1] > m) => p[1] <= m /\ p[1] \in 1 .. m
        /\ ~(p[2] > n) => p[2] <= n /\ p[2] \in 1 .. n
        /\ p[1] \in Nat \ {0} /\ p[2] \in Nat \ {0}
    BY <1>1, <1>3
  <2> QED BY <1>1, <1>b, <1>2, <1>3, <2>1
<1>5. ASSUME NEW p \in D, NEW g \in [D -> V] PROVE Body(g, p) \in V
  <2>1. /\ ~(p[1] > m) => Delete(p[1], a[p[1]]) \in OpsOn(S)
        /\ ~(p[2] > n) => Insert(p[2], b[p[2]]) \in OpsOn(S)
        /\ ~(p[1] > m) /\ ~(p[2] > n) => Equal(p[1], p[2], a[p[1]]) \in OpsOn(S)
    BY <1>4, OpsAreOps
  <2>2. /\ ~(p[1] > m) => g[<<p[1] + 1, p[2]>>] \in V
        /\ ~(p[2] > n) => g[<<p[1], p[2] + 1>>] \in V
        /\ ~(p[1] > m) /\ ~(p[2] > n) => g[<<p[1] + 1, p[2] + 1>>] \in V
    BY <1>4
  <2>3. \A op \in OpsOn(S), s \in V : <<op>> \o s \in V
    BY DEF V
  <2>4. <<>> \in V
    BY DEF V
  <2> QED BY <2>1, <2>2, <2>3, <2>4
<1>6. ASSUME NEW p \in D, NEW g, NEW h, \A d \in D : mu[d] < mu[p] => g[d] = h[d]
      PROVE  Body(g, p) = Body(h, p)
  BY <1>4, <1>6
<1>7. \A p \in D, g \in [D -> V] : F[p][g] = Body(g, p)
  OBVIOUS
<1> HIDE DEF Body, F
<1>8. PICK f \in [D -> V] : \A p \in D : f[p] = F[p][f]
  <2>1. \A p \in D, g \in [D -> V] : F[p][g] \in V
    BY <1>5, <1>7
  <2>2. \A p \in D, g, h \in [D -> V] :
           (\A d \in D : mu[d] < mu[p] => g[d] = h[d]) => F[p][g] = F[p][h]
    <3> SUFFICES ASSUME NEW p \in D, NEW g \in [D -> V], NEW h \in [D -> V],
                        \A d \in D : mu[d] < mu[p] => g[d] = h[d]
                 PROVE  F[p][g] = F[p][h]
      OBVIOUS
    <3>1. Body(g, p) = Body(h, p)
      BY <1>6
    <3> QED BY <1>7, <3>1
  <2>3. V # {}
    <3>1. <<>> \in V
      BY DEF V
    <3> QED BY <3>1
  <2>4. Recursion(D, V, mu, m + n + 1, F)
    BY <1>2, <2>1, <2>2, <2>3 DEF Recursion
  <2> QED BY <2>4, RecursionExists
<1>9. f = [p \in D |-> Body(f, p)]
  BY <1>7, <1>8
<1> DEFINE ops == CHOOSE g : g = [p \in D |-> Body(g, p)]
<1>10. LcsOps(a, b) = ops[<<1, 1>>]
  BY DEF LcsOps, Body, D, m, n, T
<1>11. ops = [p \in D |-> Body(ops, p)]
  BY <1>9
<1> HIDE DEF ops
<1>12. \A p \in D : ops[p] = Body(ops, p)
  BY <1>11
<1>13. \A p \in D : ops[p] = f[p]
  <2> DEFINE good == {p \in D : ops[p] = f[p]}
  <2>1. ASSUME NEW p \in D, \A d \in D : mu[d] < mu[p] => d \in good PROVE p \in good
    <3>1. \A d \in D : mu[d] < mu[p] => ops[d] = f[d]
      BY <2>1
    <3>2. Body(ops, p) = Body(f, p)
      BY <1>6, <3>1
    <3>3. ops[p] = f[p]
      BY <1>7, <1>8, <1>12, <3>2
    <3> QED BY <3>3
  <2> HIDE DEF good
  <2>2. \A p \in D : p \in good
    BY <1>2, <2>1, ByMeasure
  <2> QED BY <2>2 DEF good
<1>14. ASSUME NEW i \in 1 .. m + 1, NEW j \in 1 .. n + 1
       PROVE  /\ ops[<<i, j>>] \in V
              /\ ops[<<i, j>>] =
                   IF i > m THEN IF j > n THEN <<>> ELSE <<Insert(j, b[j])>> \o ops[<<i, j + 1>>]
                   ELSE IF j > n THEN <<Delete(i, a[i])>> \o ops[<<i + 1, j>>]
                   ELSE IF a[i] = b[j] THEN <<Equal(i, j, a[i])>> \o ops[<<i + 1, j + 1>>]
                   ELSE IF T[<<i + 1, j>>] >= T[<<i, j + 1>>]
                        THEN <<Delete(i, a[i])>> \o ops[<<i + 1, j>>]
                        ELSE <<Insert(j, b[j])>> \o ops[<<i, j + 1>>]
  <2>1. <<i, j>> \in D /\ <<i, j>>[1] = i /\ <<i, j>>[2] = j
    BY <1>2
  <2>2. ops[<<i, j>>] \in V
    BY <1>8, <1>13, <2>1
  <2>3. ops[<<i, j>>] = Body(ops, <<i, j>>)
    BY <1>12, <2>1
  <2> QED BY <2>1, <2>2, <2>3 DEF Body
<1> QED BY <1>10, <1>14 DEF m, n, V, T, GoBack

\* The operations go through what a text still has from a line on, which is at
\* where[k] after k of them: an operation that names a line of the text names
\* and shows the one it has come to.
Tells(ops, side, where, text, from) ==
  /\ where \in [0 .. Len(ops) -> 1 .. Len(text) + 1]
  /\ where[0] = from
  /\ where[Len(ops)] = Len(text) + 1
  /\ \A k \in 1 .. Len(ops) :
       IF ops[k][side] = 0 THEN where[k] = where[k - 1]
       ELSE /\ ops[k][side] = where[k - 1]
            /\ where[k - 1] \in 1 .. Len(text)
            /\ where[k] = where[k - 1] + 1
            /\ ops[k].line = text[where[k - 1]]

\* At the end of a text nothing is left to tell.
LEMMA NoOpsTell ==
  ASSUME NEW S, NEW text \in Seq(S), NEW side
  PROVE  \E where : Tells(<<>>, side, where, text, Len(text) + 1)
<1> DEFINE where == [k \in 0 .. 0 |-> Len(text) + 1]
<1>1. Len(<<>>) = 0 /\ Len(text) \in Nat
  OBVIOUS
<1>2. Tells(<<>>, side, where, text, Len(text) + 1)
  BY <1>1 DEF Tells
<1> QED BY <1>2

\* One operation in front.
LEMMA OpsInFront ==
  ASSUME NEW O, NEW ops \in Seq(O), NEW op \in O
  PROVE  /\ <<op>> \o ops \in Seq(O)
         /\ Len(<<op>> \o ops) = Len(ops) + 1
         /\ (<<op>> \o ops)[1] = op
         /\ \A k \in 1 .. Len(ops) : (<<op>> \o ops)[k + 1] = ops[k]
OBVIOUS

\* With it the operations go through one line more, if it is of this text.
Moves(op, side, text, from, next) ==
  \/ op[side] = 0 /\ next = from
  \/ /\ op[side] = from /\ from \in 1 .. Len(text)
     /\ next = from + 1 /\ op.line = text[from]

LEMMA OneOpMore ==
  ASSUME NEW S, NEW text \in Seq(S), NEW O, NEW ops \in Seq(O), NEW op \in O, NEW side,
         NEW from \in 1 .. Len(text) + 1, NEW next, NEW where, Tells(ops, side, where, text, next),
         Moves(op, side, text, from, next)
  PROVE  \E w : Tells(<<op>> \o ops, side, w, text, from)
<1> DEFINE n == Len(ops)
           more == <<op>> \o ops
           w == [k \in 0 .. n + 1 |-> IF k = 0 THEN from ELSE where[k - 1]]
<1>1. n \in Nat /\ Len(text) \in Nat /\ from \in Nat /\ from # 0
  OBVIOUS
<1>2. Len(more) = n + 1 /\ more[1] = op /\ \A k \in 1 .. n : more[k + 1] = ops[k]
  BY OpsInFront
<1>3. /\ where \in [0 .. n -> 1 .. Len(text) + 1] /\ where[0] = next /\ where[n] = Len(text) + 1
      /\ \A k \in 1 .. n :
           IF ops[k][side] = 0 THEN where[k] = where[k - 1]
           ELSE /\ ops[k][side] = where[k - 1]
                /\ where[k - 1] \in 1 .. Len(text)
                /\ where[k] = where[k - 1] + 1
                /\ ops[k].line = text[where[k - 1]]
  BY DEF Tells
<1> HIDE DEF more, n
<1>4. w[0] = from /\ \A k \in 0 .. n : w[k + 1] = where[k]
  <2>1. 0 \in 0 .. n + 1 /\ \A k \in 0 .. n : k + 1 \in 0 .. n + 1 /\ k + 1 # 0 /\ (k + 1) - 1 = k
    BY <1>1
  <2> QED BY <2>1
<1>5. w \in [0 .. n + 1 -> 1 .. Len(text) + 1]
  <2>1. \A k \in 0 .. n + 1 : k = 0 \/ k - 1 \in 0 .. n
    BY <1>1
  <2> QED BY <1>3, <2>1
<1> HIDE DEF w
<1>6. ASSUME NEW k \in 1 .. n + 1
      PROVE  IF more[k][side] = 0 THEN w[k] = w[k - 1]
             ELSE /\ more[k][side] = w[k - 1]
                  /\ w[k - 1] \in 1 .. Len(text)
                  /\ w[k] = w[k - 1] + 1
                  /\ more[k].line = text[w[k - 1]]
  <2>1. CASE k = 1
    <3>1. w[1] = next
      <4>1. 0 \in 0 .. n /\ 0 + 1 = 1
        BY <1>1
      <4> QED BY <1>3, <1>4, <4>1
    <3>2. w[k - 1] = from /\ w[k] = next /\ more[k] = op
      BY <1>2, <1>4, <2>1, <3>1
    <3> QED BY <1>1, <3>2 DEF Moves
  <2>2. CASE k # 1
    <3> DEFINE j == k - 1
    <3>1. j \in 1 .. n /\ j + 1 = k /\ j - 1 \in 0 .. n /\ (j - 1) + 1 = k - 1 /\ j \in 0 .. n
      BY <1>1, <2>2
    <3>2. w[j + 1] = where[j] /\ w[(j - 1) + 1] = where[j - 1] /\ more[j + 1] = ops[j]
      BY <1>2, <1>4, <3>1
    <3>3. w[k] = where[j] /\ w[k - 1] = where[j - 1] /\ more[k] = ops[j]
      BY <3>1, <3>2
    <3> HIDE DEF j
    <3> QED BY <1>3, <3>1, <3>3
  <2> QED BY <2>1, <2>2
<1>7. w[n + 1] = Len(text) + 1
  <2>1. n \in 0 .. n
    BY <1>1
  <2> QED BY <1>3, <1>4, <2>1
<1>8. Tells(more, side, w, text, from)
  BY <1>2, <1>4, <1>5, <1>6, <1>7 DEF Tells
<1> QED BY <1>8 DEF more

\* count[k] operations after the first k leave a line as it is.
Keeps(ops, count) ==
  /\ count \in [0 .. Len(ops) -> Nat]
  /\ count[Len(ops)] = 0
  /\ \A k \in 1 .. Len(ops) : count[k - 1] = count[k] + (IF IsChange(ops[k]) THEN 0 ELSE 1)

\* And they keep one line more, unless it is a change.
LEMMA OneOpMoreKeeps ==
  ASSUME NEW O, NEW ops \in Seq(O), NEW op \in O, NEW count, Keeps(ops, count)
  PROVE  \E c : /\ Keeps(<<op>> \o ops, c)
                /\ c[0] = count[0] + (IF IsChange(op) THEN 0 ELSE 1)
<1> DEFINE n == Len(ops)
           more == <<op>> \o ops
           kept(o) == IF IsChange(o) THEN 0 ELSE 1
           c == [k \in 0 .. n + 1 |-> IF k = 0 THEN count[0] + kept(op) ELSE count[k - 1]]
<1>1. n \in Nat
  OBVIOUS
<1>2. Len(more) = n + 1 /\ more[1] = op /\ \A k \in 1 .. n : more[k + 1] = ops[k]
  BY OpsInFront
<1>3. /\ count \in [0 .. n -> Nat] /\ count[n] = 0
      /\ \A k \in 1 .. n : count[k - 1] = count[k] + kept(ops[k])
  BY DEF Keeps
<1>a. kept(op) \in Nat
  OBVIOUS
<1>b. count[0] \in Nat
  BY <1>1, <1>3
<1> HIDE DEF more, n, kept
<1>4. c[0] = count[0] + kept(op) /\ \A k \in 0 .. n : c[k + 1] = count[k]
  <2>1. 0 \in 0 .. n + 1 /\ \A k \in 0 .. n : k + 1 \in 0 .. n + 1 /\ k + 1 # 0 /\ (k + 1) - 1 = k
    BY <1>1
  <2> QED BY <2>1
<1>5. c \in [0 .. n + 1 -> Nat]
  <2>1. \A k \in 0 .. n + 1 : k = 0 \/ k - 1 \in 0 .. n
    BY <1>1
  <2>2. count[0] + kept(op) \in Nat
    BY <1>a, <1>b
  <2> QED BY <1>3, <2>1, <2>2
<1> HIDE DEF c
<1>6. ASSUME NEW k \in 1 .. n + 1
      PROVE  c[k - 1] = c[k] + kept(more[k])
  <2>1. CASE k = 1
    <3>1. c[1] = count[0]
      <4>1. 0 \in 0 .. n /\ 0 + 1 = 1
        BY <1>1
      <4> QED BY <1>4, <4>1
    <3> QED BY <1>2, <1>4, <2>1, <3>1
  <2>2. CASE k # 1
    <3> DEFINE j == k - 1
    <3>1. j \in 1 .. n /\ j + 1 = k /\ j - 1 \in 0 .. n /\ (j - 1) + 1 = k - 1 /\ j \in 0 .. n
      BY <1>1, <2>2
    <3>2. c[j + 1] = count[j] /\ c[(j - 1) + 1] = count[j - 1] /\ more[j + 1] = ops[j]
      BY <1>2, <1>4, <3>1
    <3>3. c[k] = count[j] /\ c[k - 1] = count[j - 1] /\ more[k] = ops[j]
      BY <3>1, <3>2
    <3> HIDE DEF j
    <3> QED BY <1>3, <3>1, <3>3
  <2> QED BY <2>1, <2>2
<1>7. c[n + 1] = 0
  <2>1. n \in 0 .. n
    BY <1>1
  <2> QED BY <1>3, <1>4, <2>1
<1>8. Keeps(more, c)
  BY <1>2, <1>5, <1>6, <1>7 DEF Keeps, kept
<1> QED BY <1>4, <1>8 DEF more, kept

\* Operations that lead from what before has after i to what after has after j,
\* and leave n lines as they are.
LeadsOver(ops, before, after, i, j, n) ==
  /\ \E where : Tells(ops, "a", where, before, i)
  /\ \E where : Tells(ops, "b", where, after, j)
  /\ \E count : Keeps(ops, count) /\ count[0] = n

\* lcsOps leads from one text to the other and keeps as many lines as its table says.
LEMMA OpsLead ==
  ASSUME NEW S, NEW a \in Seq(S), NEW b \in Seq(S)
  PROVE  /\ LcsOps(a, b) \in Seq(OpsOn(S))
         /\ LeadsOver(LcsOps(a, b), a, b, 1, 1, Table(a, b)[<<1, 1>>])
<1> DEFINE m == Len(a)
           n == Len(b)
           T == Table(a, b)
           D == Places(a, b)
<1>1. m \in Nat /\ n \in Nat /\ \A i \in 1 .. m : a[i] \in S
  OBVIOUS
<1>2. \A j \in 1 .. n : b[j] \in S
  OBVIOUS
<1>3. \A i \in 1 .. m + 1, j \in 1 .. n + 1 :
           /\ T[<<i, j>>] \in Nat
           /\ T[<<i, j>>] =
                IF i > m \/ j > n THEN 0
                ELSE IF a[i] = b[j] THEN 1 + T[<<i + 1, j + 1>>]
                ELSE Larger(T[<<i + 1, j>>], T[<<i, j + 1>>])
  <2> HIDE DEF T, m, n
  <2> TAKE i \in 1 .. m + 1, j \in 1 .. n + 1
  <2>1. TableAt(a, b, i, j)
    BY TableGoesBack DEF m, n
  <2> QED BY <2>1 DEF TableAt, T, m, n
<1>4. PICK O : LcsOps(a, b) = O[<<1, 1>>] /\ GoBack(O, S, a, b)
  BY OpsGoBack
<1>a. ASSUME NEW i \in 1 .. m + 1, NEW j \in 1 .. n + 1
      PROVE  /\ O[<<i, j>>] \in Seq(OpsOn(S))
             /\ O[<<i, j>>] =
                  IF i > m
                  THEN IF j > n THEN <<>> ELSE <<Insert(j, b[j])>> \o O[<<i, j + 1>>]
                  ELSE IF j > n THEN <<Delete(i, a[i])>> \o O[<<i + 1, j>>]
                  ELSE IF a[i] = b[j] THEN <<Equal(i, j, a[i])>> \o O[<<i + 1, j + 1>>]
                  ELSE IF T[<<i + 1, j>>] >= T[<<i, j + 1>>]
                       THEN <<Delete(i, a[i])>> \o O[<<i + 1, j>>]
                       ELSE <<Insert(j, b[j])>> \o O[<<i, j + 1>>]
  <2> HIDE DEF T, m, n
  <2> QED BY <1>4 DEF GoBack, T, m, n
<1> DEFINE done(i, j) == LeadsOver(O[<<i, j>>], a, b, i, j, T[<<i, j>>])
           good == {p \in D : done(p[1], p[2])}
           mu == Left(a, b)
<1>5. /\ mu \in [D -> Nat]
      /\ \A i \in 1 .. m + 1, j \in 1 .. n + 1 :
           /\ <<i, j>> \in D
           /\ i <= m => <<i + 1, j>> \in D /\ mu[<<i + 1, j>>] < mu[<<i, j>>]
           /\ j <= n => <<i, j + 1>> \in D /\ mu[<<i, j + 1>>] < mu[<<i, j>>]
           /\ i <= m /\ j <= n => <<i + 1, j + 1>> \in D /\ mu[<<i + 1, j + 1>>] < mu[<<i, j>>]
  <2> HIDE DEF m, n, D, mu
  <2>2. mu \in [D -> Nat]
    BY LeftGoesDown DEF m, n, D, mu
  <2>3. ASSUME NEW i \in 1 .. m + 1, NEW j \in 1 .. n + 1
        PROVE  /\ <<i, j>> \in D
               /\ i <= m => <<i + 1, j>> \in D /\ mu[<<i + 1, j>>] < mu[<<i, j>>]
               /\ j <= n => <<i, j + 1>> \in D /\ mu[<<i, j + 1>>] < mu[<<i, j>>]
               /\ i <= m /\ j <= n => <<i + 1, j + 1>> \in D /\ mu[<<i + 1, j + 1>>] < mu[<<i, j>>]
    BY LeftGoesDown DEF m, n, D, mu
  <2> QED BY <2>2, <2>3
<1>6. \A p \in D : p = <<p[1], p[2]>> /\ p[1] \in 1 .. m + 1 /\ p[2] \in 1 .. n + 1
  BY DEF Places
<1> HIDE DEF m, n, D, mu, T, done
\* One operation in front of those from the next place.
<1>7. ASSUME NEW i \in 1 .. m + 1, NEW j \in 1 .. n + 1, NEW k, NEW l, NEW op \in OpsOn(S),
             NEW rest \in Seq(OpsOn(S)), NEW t \in Nat, NEW s, LeadsOver(rest, a, b, k, l, s),
             Moves(op, "a", a, i, k), Moves(op, "b", b, j, l),
             t = s + (IF IsChange(op) THEN 0 ELSE 1)
      PROVE  LeadsOver(<<op>> \o rest, a, b, i, j, t)
  <2>1. \E where : Tells(<<op>> \o rest, "a", where, a, i)
    <3>1. PICK where : Tells(rest, "a", where, a, k)
      BY <1>7 DEF LeadsOver
    <3>2. i \in 1 .. Len(a) + 1
      BY DEF m
    <3> QED BY <1>7, <3>1, <3>2, OneOpMore
  <2>2. \E where : Tells(<<op>> \o rest, "b", where, b, j)
    <3>1. PICK where : Tells(rest, "b", where, b, l)
      BY <1>7 DEF LeadsOver
    <3>2. j \in 1 .. Len(b) + 1
      BY DEF n
    <3> QED BY <1>7, <3>1, <3>2, OneOpMore
  <2>3. \E count : Keeps(<<op>> \o rest, count) /\ count[0] = t
    <3>1. PICK count : Keeps(rest, count) /\ count[0] = s
      BY <1>7 DEF LeadsOver
    <3>2. PICK c : Keeps(<<op>> \o rest, c) /\ c[0] = count[0] + (IF IsChange(op) THEN 0 ELSE 1)
      BY <3>1, OneOpMoreKeeps
    <3> QED BY <1>7, <3>1, <3>2
  <2> QED BY <2>1, <2>2, <2>3 DEF LeadsOver
<1>8. ASSUME NEW i \in 1 .. m + 1, NEW j \in 1 .. n + 1,
             \A d \in D : mu[d] < mu[<<i, j>>] => done(d[1], d[2])
      PROVE  done(i, j)
  <2>1. i \in Nat \ {0} /\ j \in Nat \ {0}
    BY <1>1
  <2>2. ASSUME ~(i > m) PROVE i <= m /\ i \in 1 .. m /\ i + 1 \in 1 .. m + 1
    BY <1>1, <2>2
  <2>3. ASSUME ~(j > n) PROVE j <= n /\ j \in 1 .. n /\ j + 1 \in 1 .. n + 1
    BY <1>1, <2>3
  <2>4. ~(i > m) => done(i + 1, j)
    BY <1>5, <1>8, <2>2
  <2>5. ~(j > n) => done(i, j + 1)
    BY <1>5, <1>8, <2>3
  <2>6. ~(i > m) /\ ~(j > n) => done(i + 1, j + 1)
    BY <1>5, <1>8, <2>2, <2>3
  <2>7. /\ T[<<i, j>>] \in Nat /\ O[<<i, j>>] \in Seq(OpsOn(S))
        /\ ~(i > m) => T[<<i + 1, j>>] \in Nat /\ O[<<i + 1, j>>] \in Seq(OpsOn(S))
        /\ ~(j > n) => T[<<i, j + 1>>] \in Nat /\ O[<<i, j + 1>>] \in Seq(OpsOn(S))
        /\ ~(i > m) /\ ~(j > n) => T[<<i + 1, j + 1>>] \in Nat /\ O[<<i + 1, j + 1>>] \in Seq(OpsOn(S))
    BY <1>3, <1>a, <2>2, <2>3
  \* An insertion.
  <2>8. ASSUME ~(j > n), O[<<i, j>>] = <<Insert(j, b[j])>> \o O[<<i, j + 1>>],
               T[<<i, j>>] = T[<<i, j + 1>>]
        PROVE  done(i, j)
    <3> DEFINE op == Insert(j, b[j])
    <3>1. op \in OpsOn(S) /\ op.a = 0 /\ op.b = j /\ op.line = b[j] /\ IsChange(op)
      BY <1>2, <2>1, <2>3, <2>8, OpsAreOps DEF Insert, IsChange
    <3> HIDE DEF op
    <3>2. LeadsOver(O[<<i, j + 1>>], a, b, i, j + 1, T[<<i, j + 1>>])
      BY <2>5, <2>8 DEF done
    <3>3. T[<<i, j>>] = T[<<i, j + 1>>] + (IF IsChange(op) THEN 0 ELSE 1)
      BY <2>7, <2>8, <3>1
    <3>4. Moves(op, "a", a, i, i) /\ Moves(op, "b", b, j, j + 1)
      BY <2>3, <2>8, <3>1 DEF Moves, n
    <3>5. T[<<i, j>>] \in Nat /\ O[<<i, j + 1>>] \in Seq(OpsOn(S)) /\ op \in OpsOn(S)
      BY <2>7, <2>8, <3>1
    <3>6. LeadsOver(<<op>> \o O[<<i, j + 1>>], a, b, i, j, T[<<i, j>>])
      BY <1>7, <3>2, <3>3, <3>4, <3>5
    <3> QED BY <2>8, <3>6 DEF done, op
  \* A deletion.
  <2>9. ASSUME ~(i > m), O[<<i, j>>] = <<Delete(i, a[i])>> \o O[<<i + 1, j>>],
               T[<<i, j>>] = T[<<i + 1, j>>]
        PROVE  done(i, j)
    <3> DEFINE op == Delete(i, a[i])
    <3>1. op \in OpsOn(S) /\ op.a = i /\ op.b = 0 /\ op.line = a[i] /\ IsChange(op)
      BY <1>1, <2>1, <2>2, <2>9, OpsAreOps DEF Delete, IsChange
    <3> HIDE DEF op
    <3>2. LeadsOver(O[<<i + 1, j>>], a, b, i + 1, j, T[<<i + 1, j>>])
      BY <2>4, <2>9 DEF done
    <3>3. T[<<i, j>>] = T[<<i + 1, j>>] + (IF IsChange(op) THEN 0 ELSE 1)
      BY <2>7, <2>9, <3>1
    <3>4. Moves(op, "a", a, i, i + 1) /\ Moves(op, "b", b, j, j)
      BY <2>2, <2>9, <3>1 DEF Moves, m
    <3>5. T[<<i, j>>] \in Nat /\ O[<<i + 1, j>>] \in Seq(OpsOn(S)) /\ op \in OpsOn(S)
      BY <2>7, <2>9, <3>1
    <3>6. LeadsOver(<<op>> \o O[<<i + 1, j>>], a, b, i, j, T[<<i, j>>])
      BY <1>7, <3>2, <3>3, <3>4, <3>5
    <3> QED BY <2>9, <3>6 DEF done, op
  <2>10. CASE i > m /\ j > n
    <3>1. i = m + 1 /\ j = n + 1
      BY <1>1, <2>10
    <3>2. O[<<i, j>>] = <<>> /\ T[<<i, j>>] = 0
      BY <1>3, <1>a, <2>10
    <3>3. \E where : Tells(<<>>, "a", where, a, i)
      BY <3>1, NoOpsTell DEF m
    <3>4. \E where : Tells(<<>>, "b", where, b, j)
      BY <3>1, NoOpsTell DEF n
    <3>5. \E count : Keeps(<<>>, count) /\ count[0] = 0
      <4> DEFINE count == [k \in 0 .. 0 |-> 0]
      <4>1. Keeps(<<>>, count) /\ count[0] = 0
        BY DEF Keeps
      <4> QED BY <4>1
    <3> QED BY <3>2, <3>3, <3>4, <3>5 DEF done, LeadsOver
  <2>11. CASE i > m /\ ~(j > n)
    <3>1. O[<<i, j>>] = <<Insert(j, b[j])>> \o O[<<i, j + 1>>]
      BY <1>a, <2>11
    <3>2. T[<<i, j>>] = 0 /\ T[<<i, j + 1>>] = 0
      BY <1>3, <2>3, <2>11
    <3> QED BY <2>8, <2>11, <3>1, <3>2
  <2>12. CASE ~(i > m) /\ j > n
    <3>1. O[<<i, j>>] = <<Delete(i, a[i])>> \o O[<<i + 1, j>>]
      BY <1>a, <2>12
    <3>2. T[<<i, j>>] = 0 /\ T[<<i + 1, j>>] = 0
      BY <1>3, <2>2, <2>12
    <3> QED BY <2>9, <2>12, <3>1, <3>2
  <2>13. CASE ~(i > m) /\ ~(j > n) /\ a[i] = b[j]
    <3> DEFINE op == Equal(i, j, a[i])
    <3>1. /\ op \in OpsOn(S) /\ op.a = i /\ op.b = j /\ op.line = a[i] /\ op.line = b[j] 
          /\ ~IsChange(op)
      BY <1>1, <2>1, <2>2, <2>13, OpsAreOps DEF Equal, IsChange
    <3>a. O[<<i, j>>] = <<op>> \o O[<<i + 1, j + 1>>]
      BY <1>a, <2>13
    <3> HIDE DEF op
    <3>2. LeadsOver(O[<<i + 1, j + 1>>], a, b, i + 1, j + 1, T[<<i + 1, j + 1>>])
      BY <2>6, <2>13 DEF done
    <3>3. T[<<i, j>>] = T[<<i + 1, j + 1>>] + (IF IsChange(op) THEN 0 ELSE 1)
      <4>1. T[<<i, j>>] = 1 + T[<<i + 1, j + 1>>]
        BY <1>3, <2>13
      <4> QED BY <2>7, <2>13, <3>1, <4>1
    <3>4. Moves(op, "a", a, i, i + 1) /\ Moves(op, "b", b, j, j + 1)
      BY <2>2, <2>3, <2>13, <3>1 DEF Moves, m, n
    <3>5. T[<<i, j>>] \in Nat /\ O[<<i + 1, j + 1>>] \in Seq(OpsOn(S)) /\ op \in OpsOn(S)
      BY <2>7, <2>13, <3>1
    <3>6. LeadsOver(<<op>> \o O[<<i + 1, j + 1>>], a, b, i, j, T[<<i, j>>])
      BY <1>7, <3>2, <3>3, <3>4, <3>5
    <3> QED BY <3>a, <3>6 DEF done
  <2>14. CASE ~(i > m) /\ ~(j > n) /\ a[i] # b[j]
    <3>1. T[<<i, j>>] = Larger(T[<<i + 1, j>>], T[<<i, j + 1>>])
      BY <1>3, <2>14
    <3>2. CASE T[<<i + 1, j>>] >= T[<<i, j + 1>>]
      <4>1. O[<<i, j>>] = <<Delete(i, a[i])>> \o O[<<i + 1, j>>]
        BY <1>a, <2>14, <3>2
      <4>2. T[<<i, j>>] = T[<<i + 1, j>>]
        BY <2>7, <2>14, <3>1, <3>2 DEF Larger
      <4> QED BY <2>9, <2>14, <4>1, <4>2
    <3>3. CASE ~(T[<<i + 1, j>>] >= T[<<i, j + 1>>])
      <4>1. O[<<i, j>>] = <<Insert(j, b[j])>> \o O[<<i, j + 1>>]
        BY <1>a, <2>14, <3>3
      <4>2. T[<<i, j>>] = T[<<i, j + 1>>]
        BY <2>7, <2>14, <3>1, <3>3 DEF Larger
      <4> QED BY <2>8, <2>14, <4>1, <4>2
    <3> QED BY <3>2, <3>3
  <2> QED BY <2>10, <2>11, <2>12, <2>13, <2>14
<1>9. ASSUME NEW p \in D, \A d \in D : mu[d] < mu[p] => d \in good PROVE p \in good
  <2>1. \A d \in D : mu[d] < mu[<<p[1], p[2]>>] => done(d[1], d[2])
    BY <1>6, <1>9
  <2> QED BY <1>6, <1>8, <2>1
<1>10. \A p \in D : p \in good
  <2> HIDE DEF good
  <2> QED BY <1>5, <1>9, ByMeasure
<1>11. 1 \in 1 .. m + 1 /\ 1 \in 1 .. n + 1
  BY <1>1
<1>12. <<1, 1>> \in D /\ <<1, 1>>[1] = 1 /\ <<1, 1>>[2] = 1
  BY <1>5, <1>11
<1>13. done(1, 1)
  BY <1>10, <1>12
<1> QED BY <1>4, <1>a, <1>11, <1>13 DEF done, T

-----------------------------------------------------------------------------
(* A slice of the operations shows the lines between two places of a text. *)

\* A counter that goes up at the members of A counts them.
LEMMA CountedUp ==
  ASSUME NEW n \in Nat, NEW A \in SUBSET (1 .. n), NEW c \in [0 .. n -> Int],
         \A k \in 1 .. n : c[k] = c[k - 1] + (IF k \in A THEN 1 ELSE 0)
  PROVE  Cardinality(A) = c[n] - c[0]
<1> DEFINE upto(k) == A \cap (1 .. k)
           good == {k \in Nat : k <= n => /\ IsFiniteSet(upto(k))
                                          /\ Cardinality(upto(k)) = c[k] - c[0]}
<1>1. 0 \in good
  <2>1. upto(0) = {}
    OBVIOUS
  <2>2. c[0] \in Int /\ c[0] - c[0] = 0
    <3>1. 0 \in 0 .. n
      OBVIOUS
    <3>2. c[0] \in Int
      BY <3>1
    <3> QED BY <3>2
  <2>3. IsFiniteSet({}) /\ Cardinality({}) = 0
    BY FS_EmptySet
  <2> HIDE DEF upto
  <2> QED BY <2>1, <2>2, <2>3
<1>2. ASSUME NEW k \in Nat, k < n, k \in good PROVE k + 1 \in good
  <2>1. k + 1 \in 1 .. n /\ (k + 1) - 1 = k /\ k \in 0 .. n /\ k + 1 \in 0 .. n /\ 0 \in 0 .. n
    BY <1>2
  <2>2. c[k] \in Int /\ c[k + 1] \in Int /\ c[0] \in Int
    BY <2>1
  <2>3. c[k + 1] = c[k] + (IF k + 1 \in A THEN 1 ELSE 0)
    BY <2>1
  <2>4. IsFiniteSet(upto(k)) /\ Cardinality(upto(k)) = c[k] - c[0]
    BY <1>2
  <2>5. /\ k + 1 \in A => upto(k + 1) = upto(k) \cup {k + 1}
        /\ k + 1 \notin A => upto(k + 1) = upto(k)
        /\ k + 1 \notin upto(k)
    <3>1. \A x \in 1 .. k + 1 : x \in 1 .. k \/ x = k + 1
      BY <2>1
    <3>2. 1 .. k \subseteq 1 .. k + 1 /\ k + 1 \in 1 .. k + 1 /\ k + 1 \notin 1 .. k
      BY <2>1
    <3> QED BY <3>1, <3>2
  <2> HIDE DEF upto
  <2>6. CASE k + 1 \in A
    <3>1. IsFiniteSet(upto(k + 1)) /\ Cardinality(upto(k + 1)) = Cardinality(upto(k)) + 1
      BY <2>4, <2>5, <2>6, FS_AddElement
    <3> QED BY <2>2, <2>3, <2>4, <2>6, <3>1
  <2>7. CASE k + 1 \notin A
    BY <2>2, <2>3, <2>4, <2>5, <2>7
  <2> QED BY <2>6, <2>7
<1>3. n \in good
  <2> HIDE DEF good
  <2>1. \A k \in 0 .. n : k \in good
    BY <1>1, <1>2, UpTo
  <2> QED BY <2>1
<1>4. upto(n) = A
  OBVIOUS
<1>5. n <= n
  OBVIOUS
<1> HIDE DEF upto
<1> QED BY <1>3, <1>4, <1>5

\* What a list has from one place up to another.
LEMMA SliceOf ==
  ASSUME NEW S, NEW s \in Seq(S), NEW lo \in 1 .. Len(s) + 1, NEW hi \in lo .. Len(s) + 1
  PROVE  /\ SubSeq(s, lo, hi - 1) \in Seq(S)
         /\ Len(SubSeq(s, lo, hi - 1)) = hi - lo
         /\ \A k \in 1 .. hi - lo : /\ SubSeq(s, lo, hi - 1)[k] = s[(lo - 1) + k]
                                    /\ (lo - 1) + k \in 1 .. Len(s)
<1>1. Len(s) \in Nat /\ \A i \in 1 .. Len(s) : s[i] \in S
  OBVIOUS
<1>2. \A i \in lo .. hi - 1 : i \in 1 .. Len(s)
  BY <1>1
<1> QED BY <1>1, <1>2

\* Lists are equal that are as long and have the same at every place.
LEMMA SameLists ==
  ASSUME NEW S, NEW s \in Seq(S), NEW t \in Seq(S), Len(s) = Len(t),
         \A k \in 1 .. Len(s) : s[k] = t[k]
  PROVE  s = t
OBVIOUS

\* The operations do not go back in a text.
LEMMA WhereGoesUp ==
  ASSUME NEW S, NEW text \in Seq(S), NEW O, NEW ops \in Seq(O), NEW side, NEW where, NEW from,
         Tells(ops, side, where, text, from),
         NEW k \in 0 .. Len(ops), NEW l \in 0 .. Len(ops), k <= l
  PROVE  where[k] <= where[l]
<1> DEFINE n == Len(ops)
           good == {d \in Nat : k + d <= n => where[k] <= where[k + d]}
<1>1. n \in Nat /\ k \in Nat /\ Len(text) \in Nat
  OBVIOUS
<1>2. \A x \in 0 .. n : where[x] \in Nat
  <2>1. where \in [0 .. n -> 1 .. Len(text) + 1]
    BY DEF Tells
  <2>2. \A y \in 1 .. Len(text) + 1 : y \in Nat
    BY <1>1
  <2> HIDE DEF n
  <2> QED BY <2>1, <2>2
<1>3. \A x \in 1 .. n : where[x] = where[x - 1] \/ where[x] = where[x - 1] + 1
  BY DEF Tells
<1> HIDE DEF n
<1>4. 0 \in good
  BY <1>1, <1>2
<1>5. ASSUME NEW d \in Nat, d < n - k, d \in good PROVE d + 1 \in good
  <2>1. /\ k + d \in 0 .. n /\ k + (d + 1) \in 1 .. n /\ (k + (d + 1)) - 1 = k + d /\ k + d <= n
        /\ k + (d + 1) \in 0 .. n
    BY <1>1, <1>5
  <2>2. where[k] <= where[k + d] /\ where[k] \in Nat /\ where[k + d] \in Nat /\ where[k + (d + 1)] \in Nat
    BY <1>2, <1>5, <2>1 DEF n
  <2>3. where[k + (d + 1)] = where[k + d] \/ where[k + (d + 1)] = where[k + d] + 1
    BY <1>3, <2>1
  <2> QED BY <2>2, <2>3
<1>6. \A d \in 0 .. n - k : d \in good
  <2>1. n - k \in Nat
    BY <1>1 DEF n
  <2> HIDE DEF good
  <2> QED BY <1>4, <1>5, <2>1, UpTo
<1>7. l - k \in 0 .. n - k /\ k + (l - k) = l /\ l <= n
  BY <1>1 DEF n
<1> QED BY <1>6, <1>7

\* A slice counts and shows the lines of a text that it goes through.
LEMMA SideOfSlice ==
  ASSUME NEW S, NEW text \in Seq(S), NEW ops \in Seq(OpsOn(S)), NEW side, NEW where, NEW from,
         Tells(ops, side, where, text, from),
         NEW lo \in 1 .. Len(ops) + 1, NEW hi \in lo .. Len(ops) + 1
  PROVE  /\ LinesOf(SubSeq(ops, lo, hi - 1), side) = SubSeq(text, where[lo - 1], where[hi - 1] - 1)
         /\ CountOf(SubSeq(ops, lo, hi - 1), side) = where[hi - 1] - where[lo - 1]
<1> DEFINE n == hi - lo
           slice == SubSeq(ops, lo, hi - 1)
           K == {k \in DOMAIN slice : slice[k][side] # 0}
           at(k) == where[(lo - 1) + k]
<1>1. /\ Len(ops) \in Nat /\ Len(text) \in Nat /\ n \in Nat /\ lo \in Nat /\ hi \in Nat
      /\ (lo - 1) + n = hi - 1 /\ (lo - 1) + 0 = lo - 1
  OBVIOUS
<1>2. /\ slice \in Seq(OpsOn(S)) /\ Len(slice) = n /\ DOMAIN slice = 1 .. n
      /\ \A k \in 1 .. n : slice[k] = ops[(lo - 1) + k] /\ (lo - 1) + k \in 1 .. Len(ops)
  <2>1. /\ slice \in Seq(OpsOn(S)) /\ Len(slice) = n
        /\ \A k \in 1 .. n : slice[k] = ops[(lo - 1) + k] /\ (lo - 1) + k \in 1 .. Len(ops)
    BY SliceOf
  <2> QED BY <2>1
<1>3. \A k \in 0 .. n : at(k) \in 1 .. Len(text) + 1
  <2>1. \A k \in 0 .. n : (lo - 1) + k \in 0 .. Len(ops)
    BY <1>1
  <2> QED BY <2>1 DEF Tells
<1>4. ASSUME NEW k \in 1 .. n
      PROVE  /\ k \notin K => at(k) = at(k - 1)
             /\ k \in K => /\ slice[k][side] = at(k - 1)
                           /\ at(k) = at(k - 1) + 1
                           /\ at(k - 1) \in 1 .. Len(text)
                           /\ slice[k].line = text[at(k - 1)]
  <2> DEFINE x == (lo - 1) + k
  <2>1. x \in 1 .. Len(ops) /\ slice[k] = ops[x] /\ x - 1 = (lo - 1) + (k - 1) /\ k \in DOMAIN slice
    BY <1>1, <1>2
  <2> HIDE DEF x, slice
  <2>2. IF ops[x][side] = 0 THEN where[x] = where[x - 1]
        ELSE /\ ops[x][side] = where[x - 1]
             /\ where[x - 1] \in 1 .. Len(text)
             /\ where[x] = where[x - 1] + 1
             /\ ops[x].line = text[where[x - 1]]
    BY <2>1 DEF Tells
  <2>3. at(k) = where[x] /\ at(k - 1) = where[x - 1]
    BY <2>1 DEF x
  <2> HIDE DEF at
  <2> QED BY <2>1, <2>2, <2>3
<1>5. K \in SUBSET (1 .. n)
  BY <1>2
<1> HIDE DEF slice, K, n
<1>a. PICK run : /\ run[0] = <<>>
                 /\ \A k \in Nat : k < Len(slice) =>
                      run[k + 1] = IF k + 1 \in K THEN Append(run[k], slice[k + 1]) ELSE run[k]
                 /\ Picked(slice, K) = run[Len(slice)]
  BY <1>2, PickedOneByOne
<1>6. /\ run[0] = <<>>
      /\ \A k \in Nat : k < n =>
           run[k + 1] = IF k + 1 \in K THEN Append(run[k], slice[k + 1]) ELSE run[k]
      /\ Picked(slice, K) = run[n]
  BY <1>2, <1>a
<1> DEFINE good == {k \in Nat : k <= n =>
                      /\ run[k] \in Seq(OpsOn(S))
                      /\ Len(run[k]) = at(k) - at(0)
                      /\ \A x \in 1 .. at(k) - at(0) : run[k][x].line = text[(at(0) - 1) + x]}
<1> HIDE DEF at
<1>7. 0 \in good
  <2>1. at(0) \in Nat /\ at(0) - at(0) = 0
    <3>1. 0 \in 0 .. n
      BY <1>1
    <3>2. at(0) \in 1 .. Len(text) + 1
      BY <1>3, <3>1
    <3> QED BY <1>1, <3>2
  <2>2. <<>> \in Seq(OpsOn(S)) /\ Len(<<>>) = 0
    OBVIOUS
  <2>3. 1 .. at(0) - at(0) = {}
    BY <2>1
  <2> QED BY <1>6, <2>1, <2>2, <2>3
<1>8. ASSUME NEW k \in Nat, k < n, k \in good PROVE k + 1 \in good
  <2>1. k + 1 \in 1 .. n /\ (k + 1) - 1 = k /\ k \in 0 .. n /\ k + 1 \in 0 .. n /\ 0 \in 0 .. n /\ k <= n
    BY <1>1, <1>8
  <2>2. at(0) \in Nat /\ at(k) \in Nat /\ at(k + 1) \in Nat
    BY <1>1, <1>3, <2>1
  <2>3. /\ run[k] \in Seq(OpsOn(S)) /\ Len(run[k]) = at(k) - at(0)
        /\ \A x \in 1 .. at(k) - at(0) : run[k][x].line = text[(at(0) - 1) + x]
    BY <1>8, <2>1
  <2>4. CASE k + 1 \notin K
    <3>1. at(k + 1) = at(k)
      BY <1>4, <2>1, <2>4
    <3>2. run[k + 1] = run[k]
      BY <1>6, <1>8, <2>4
    <3> QED BY <2>3, <3>1, <3>2
  <2>5. CASE k + 1 \in K
    <3>1. at(k + 1) = at(k) + 1 /\ slice[k + 1].line = text[at(k)] /\ slice[k + 1] \in OpsOn(S)
      <4>1. slice[k + 1] \in OpsOn(S)
        BY <1>2, <2>1
      <4> QED BY <1>4, <2>1, <2>5, <4>1
    <3>2. run[k + 1] = Append(run[k], slice[k + 1])
      BY <1>6, <1>8, <2>5
    <3> DEFINE e == slice[k + 1]
               r == run[k]
    <3>3. /\ Append(r, e) \in Seq(OpsOn(S)) /\ Len(Append(r, e)) = Len(r) + 1
          /\ Append(r, e)[Len(r) + 1] = e /\ \A x \in 1 .. Len(r) : Append(r, e)[x] = r[x]
      BY <2>3, <3>1
    <3>4. ASSUME NEW x \in 1 .. at(k + 1) - at(0) PROVE run[k + 1][x].line = text[(at(0) - 1) + x]
      <4>1. x \in 1 .. at(k) - at(0) \/ (x = Len(r) + 1 /\ (at(0) - 1) + x = at(k))
        <5> DEFINE c == at(0)
                   d == at(k)
        <5>1. Len(r) = d - c /\ c \in Nat /\ d \in Nat /\ x \in 1 .. (d + 1) - c
          BY <2>2, <2>3, <3>1
        <5> HIDE DEF c, d, r
        <5>2. x \in 1 .. d - c \/ (x = (d - c) + 1 /\ (c - 1) + x = d)
          BY <5>1
        <5> QED BY <5>1, <5>2 DEF c, d
      <4>2. CASE x \in 1 .. at(k) - at(0)
        BY <2>3, <3>2, <3>3, <4>2
      <4>3. CASE x = Len(r) + 1 /\ (at(0) - 1) + x = at(k)
        BY <3>1, <3>2, <3>3, <4>3
      <4> QED BY <4>1, <4>2, <4>3
    <3>5. Len(run[k + 1]) = at(k + 1) - at(0)
      BY <2>2, <2>3, <3>1, <3>2, <3>3
    <3>6. run[k + 1] \in Seq(OpsOn(S))
      BY <3>2, <3>3
    <3> QED BY <3>4, <3>5, <3>6
  <2> QED BY <2>4, <2>5
<1>9. n \in good
  <2> HIDE DEF good
  <2>1. \A k \in 0 .. n : k \in good
    BY <1>1, <1>7, <1>8, UpTo
  <2> QED BY <1>1, <2>1
<1>10. at(0) = where[lo - 1] /\ at(n) = where[hi - 1]
  BY <1>1 DEF at
<1>11. at(0) \in 1 .. Len(text) + 1 /\ at(n) \in 1 .. Len(text) + 1 /\ at(0) <= at(n)
  <2>1. 0 \in 0 .. n /\ n \in 0 .. n /\ n <= n
    BY <1>1
  <2>2. Len(run[n]) = at(n) - at(0) /\ run[n] \in Seq(OpsOn(S))
    BY <1>9, <2>1
  <2>3. Len(run[n]) \in Nat
    BY <2>2
  <2>4. at(0) \in 1 .. Len(text) + 1 /\ at(n) \in 1 .. Len(text) + 1
    BY <1>3, <2>1
  <2> QED BY <1>1, <2>2, <2>3, <2>4
<1>12. LinesOf(slice, side) = SubSeq(text, at(0), at(n) - 1)
  <2> DEFINE kept == run[n]
             lines == [x \in DOMAIN kept |-> kept[x].line]
             t == SubSeq(text, at(0), at(n) - 1)
             d == at(n) - at(0)
  <2>1. kept \in Seq(OpsOn(S)) /\ Len(kept) = d /\ \A x \in 1 .. d : kept[x].line = text[(at(0) - 1) + x]
    BY <1>1, <1>9
  <2>2. DOMAIN kept = 1 .. d /\ d \in Nat /\ \A x \in 1 .. d : kept[x] \in OpsOn(S)
    BY <2>1
  <2>3. LinesOf(slice, side) = lines
    <3>1. K = {k \in DOMAIN slice : slice[k][side] # 0}
      BY DEF K
    <3> QED BY <1>6, <3>1 DEF LinesOf
  <2>4. at(n) \in at(0) .. Len(text) + 1
    BY <1>1, <1>11
  <2>5. /\ t \in Seq(S) /\ Len(t) = d /\ \A x \in 1 .. d : t[x] = text[(at(0) - 1) + x]
    BY <1>11, <2>4, SliceOf
  <2> HIDE DEF kept, t, d
  <2>6. lines \in Seq(S) /\ Len(lines) = d /\ \A x \in 1 .. d : lines[x] = kept[x].line
    <3>1. \A x \in 1 .. d : kept[x].line \in S
      BY <2>2 DEF OpsOn
    <3>2. lines = [x \in 1 .. d |-> kept[x].line]
      BY <2>2
    <3> QED BY <2>2, <3>1, <3>2
  <2>7. lines = t
    <3> HIDE DEF lines
    <3>1. \A x \in 1 .. d : lines[x] = t[x]
      BY <2>1, <2>5, <2>6
    <3> QED BY <2>5, <2>6, <3>1, SameLists
  <2> QED BY <2>3, <2>7 DEF t
<1>13. CountOf(slice, side) = at(n) - at(0)
  <2> DEFINE c == [k \in 0 .. n |-> at(k)]
  <2>1. c \in [0 .. n -> Int]
    BY <1>1, <1>3
  <2>2. 0 \in 0 .. n /\ n \in 0 .. n
    BY <1>1
  <2>3. c[0] = at(0) /\ c[n] = at(n)
    BY <2>2
  <2>4. ASSUME NEW k \in 1 .. n PROVE c[k] = c[k - 1] + (IF k \in K THEN 1 ELSE 0)
    <3>1. k \in 0 .. n /\ k - 1 \in 0 .. n
      BY <1>1
    <3>2. c[k] = at(k) /\ c[k - 1] = at(k - 1) /\ at(k) \in Int /\ at(k - 1) \in Int
      BY <1>1, <1>3, <3>1
    <3> HIDE DEF c
    <3> QED BY <1>4, <3>2
  <2> HIDE DEF c
  <2>5. Cardinality(K) = c[n] - c[0]
    BY <1>1, <1>5, <2>1, <2>4, CountedUp
  <2> QED BY <2>3, <2>5 DEF CountOf, K
<1> QED BY <1>10, <1>12, <1>13 DEF slice

-----------------------------------------------------------------------------
(* The hunks (unifiedDiff).                                                *)

\* What unifiedDiff looks for and computes at a change, by name.
Quiet(ops, end, context) ==
  \A k \in end .. end + 2 * context : k \in DOMAIN ops => ~IsChange(ops[k])

StartOf(index, context) == IF index > context THEN index - context ELSE 1

StopOf(ops, index, context) ==
  LET end == ChangesEnd(ops, index, context)
  IN  IF end + context > Len(ops) + 1 THEN Len(ops) + 1 ELSE end + context

\* A hunk's changes end, after the change it starts with, where it is quiet.
LEMMA ChangesDoEnd ==
  ASSUME NEW O, NEW ops \in Seq(O), NEW context \in Nat, NEW index \in 1 .. Len(ops), IsChange(ops[index])
  PROVE  /\ ChangesEnd(ops, index, context) \in index + 1 .. Len(ops) + 1
         /\ Quiet(ops, ChangesEnd(ops, index, context), context)
<1> DEFINE n == Len(ops)
           ends == {e \in index .. n + 1 : Quiet(ops, e, context)}
           end == ChangesEnd(ops, index, context)
<1>1. n \in Nat /\ index \in Nat /\ DOMAIN ops = 1 .. n /\ index \in 1 .. n
  OBVIOUS
<1>2. Quiet(ops, n + 1, context)
  <2>1. \A k \in n + 1 .. (n + 1) + 2 * context : k \notin 1 .. n
    BY <1>1
  <2> QED BY <1>1, <2>1 DEF Quiet
<1>3. ends \in SUBSET Nat /\ n + 1 \in ends
  BY <1>1, <1>2
<1>4. PICK e \in ends : \A f \in ends : e <= f
  <2> HIDE DEF ends
  <2> QED BY <1>3, LeastOfNaturals
<1>5. ASSUME NEW f \in index .. e - 1 PROVE ~Quiet(ops, f, context)
  <2>1. f \in index .. n + 1 /\ ~(e <= f)
    BY <1>1, <1>4
  <2> QED BY <1>4, <2>1
<1>6. /\ end \in index .. n + 1 /\ Quiet(ops, end, context)
  <2>1. /\ e \in index .. n + 1 /\ Quiet(ops, e, context)
        /\ \A f \in index .. e - 1 : ~Quiet(ops, f, context)
    BY <1>4, <1>5
  <2> DEFINE P(x) == Quiet(ops, x, context) /\ \A f \in index .. x - 1 : ~Quiet(ops, f, context)
  <2>2. end = CHOOSE x \in index .. n + 1 : P(x)
    BY DEF ChangesEnd, Quiet
  <2>3. \E x \in index .. n + 1 : P(x)
    BY <2>1
  <2> HIDE DEF end, n
  <2>4. end \in index .. n + 1 /\ P(end)
    BY <2>2, <2>3
  <2> QED BY <2>4
<1>7. ~Quiet(ops, index, context)
  <2>1. index \in index .. index + 2 * context
    BY <1>1
  <2> QED BY <1>1, <2>1 DEF Quiet
<1>8. end # index
  <2> HIDE DEF end
  <2> QED BY <1>6, <1>7
<1> HIDE DEF end
<1> QED BY <1>1, <1>6, <1>8 DEF end

\* A hunk goes beyond its change, and no other change comes soon after it.
LEMMA HunkStops ==
  ASSUME NEW O, NEW ops \in Seq(O), NEW context \in Nat \ {0}, NEW index \in 1 .. Len(ops), IsChange(ops[index])
  PROVE  /\ StopOf(ops, index, context) \in index + 1 .. Len(ops) + 1
         /\ \A k \in StopOf(ops, index, context) - 1 .. StopOf(ops, index, context) + context :
              StopOf(ops, index, context) <= Len(ops) /\ k \in 1 .. Len(ops) => ~IsChange(ops[k])
<1> DEFINE n == Len(ops)
           end == ChangesEnd(ops, index, context)
           stop == StopOf(ops, index, context)
<1>1. n \in Nat /\ index \in Nat /\ DOMAIN ops = 1 .. n /\ context \in Nat /\ context # 0
  OBVIOUS
<1>2. end \in index + 1 .. n + 1 /\ Quiet(ops, end, context)
  BY <1>1, ChangesDoEnd
<1>3. stop = IF end + context > n + 1 THEN n + 1 ELSE end + context
  BY DEF StopOf
<1> HIDE DEF n, end, stop
<1>4. stop \in index + 1 .. n + 1
  BY <1>1, <1>2, <1>3
<1>5. ASSUME NEW k \in stop - 1 .. stop + context, stop <= n, k \in 1 .. n
      PROVE  ~IsChange(ops[k])
  <2>1. stop = end + context
    BY <1>1, <1>3, <1>5
  <2>2. k \in end .. end + 2 * context
    BY <1>1, <1>2, <2>1
  <2> QED BY <1>1, <1>2, <1>5, <2>2 DEF Quiet
<1> QED BY <1>4, <1>5 DEF n, stop

HunksOn(S) == {Hunk(slice) : slice \in Seq(OpsOn(S))}

\* The hunks from each operation on, as unifiedDiff goes.
CutBack(H, S, ops, context) ==
  \A index \in 1 .. Len(ops) + 1 :
    /\ H[index] \in Seq(HunksOn(S))
    /\ H[index] =
         IF index > Len(ops) THEN <<>>
         ELSE IF ~IsChange(ops[index]) THEN H[index + 1]
         ELSE <<Hunk(SubSeq(ops, StartOf(index, context), StopOf(ops, index, context) - 1))>>
                \o H[StopOf(ops, index, context)]

\* The hunks are such a function's at the first operation.
LEMMA HunksGoBack ==
  ASSUME NEW S, NEW a, NEW b, LcsOps(a, b) \in Seq(OpsOn(S)), NEW context \in Nat \ {0}
  PROVE  \E H : UnifiedDiff(a, b, context) = H[1] /\ CutBack(H, S, LcsOps(a, b), context)
<1> DEFINE ops == LcsOps(a, b)
           n == Len(ops)
           D == 1 .. n + 1
           V == Seq(HunksOn(S))
           mu == [k \in D |-> n + 1 - k]
           start(k) == StartOf(k, context)
           stop(k) == StopOf(ops, k, context)
           Body(g, k) == IF k > n THEN <<>>
                         ELSE IF ~IsChange(ops[k]) THEN g[k + 1]
                         ELSE <<Hunk(SubSeq(ops, start(k), stop(k) - 1))>> \o g[stop(k)]
           F == [k \in D |-> [g \in [D -> V] |-> Body(g, k)]]
<1>1. n \in Nat
  OBVIOUS
<1>2. ASSUME NEW k \in D, ~(k > n)
      PROVE  k \in 1 .. n /\ k + 1 \in D
  BY <1>1, <1>2
<1>3. ASSUME NEW k \in D, ~(k > n), IsChange(ops[k])
      PROVE  /\ stop(k) \in D /\ stop(k) > k
             /\ Hunk(SubSeq(ops, start(k), stop(k) - 1)) \in HunksOn(S)
  <2>1. k \in 1 .. n
    BY <1>2, <1>3
  <2>2. stop(k) \in k + 1 .. n + 1
    BY <1>3, <2>1, HunkStops
  <2> HIDE DEF ops, stop
  <2>3. start(k) \in 1 .. k
    BY <1>1, <2>1 DEF StartOf
  <2> HIDE DEF start
  <2>4. start(k) \in 1 .. n + 1 /\ stop(k) \in start(k) .. n + 1 /\ stop(k) \in D /\ stop(k) > k
    BY <1>1, <2>1, <2>2, <2>3
  <2>5. SubSeq(ops, start(k), stop(k) - 1) \in Seq(OpsOn(S))
    BY <2>4, SliceOf DEF ops
  <2> QED BY <2>4, <2>5 DEF HunksOn
<1>4. /\ mu \in [D -> Nat] /\ n + 1 \in Nat /\ \A p \in D : mu[p] < n + 1
      /\ \A k, l \in D : l > k => mu[l] < mu[k]
  BY <1>1
<1> HIDE DEF ops, n, D, V, mu, start, stop
<1>5. ASSUME NEW p \in D, NEW g \in [D -> V] PROVE Body(g, p) \in V
  <2>1. \A h \in HunksOn(S), s \in V : <<h>> \o s \in V
    BY DEF V
  <2>2. <<>> \in V
    BY DEF V
  <2>3. ~(p > n) => g[p + 1] \in V
    BY <1>2
  <2>4. ~(p > n) /\ IsChange(ops[p]) => g[stop(p)] \in V
    BY <1>3
  <2> QED BY <1>3, <2>1, <2>2, <2>3, <2>4
<1>6. ASSUME NEW p \in D, NEW g, NEW h, \A d \in D : mu[d] < mu[p] => g[d] = h[d]
      PROVE  Body(g, p) = Body(h, p)
  <2>1. ~(p > n) => p + 1 \in D /\ mu[p + 1] < mu[p]
    <3>1. p + 1 > p
      BY DEF D
    <3> QED BY <1>2, <1>4, <3>1
  <2>2. ~(p > n) /\ IsChange(ops[p]) => stop(p) \in D /\ mu[stop(p)] < mu[p]
    BY <1>3, <1>4
  <2> QED BY <1>6, <2>1, <2>2
<1>7. \A p \in D, g \in [D -> V] : F[p][g] = Body(g, p)
  OBVIOUS
<1> HIDE DEF Body, F
<1>8. PICK f \in [D -> V] : \A p \in D : f[p] = F[p][f]
  <2>1. \A p \in D, g \in [D -> V] : F[p][g] \in V
    BY <1>5, <1>7
  <2>2. \A p \in D, g, h \in [D -> V] :
           (\A d \in D : mu[d] < mu[p] => g[d] = h[d]) => F[p][g] = F[p][h]
    <3> SUFFICES ASSUME NEW p \in D, NEW g \in [D -> V], NEW h \in [D -> V],
                        \A d \in D : mu[d] < mu[p] => g[d] = h[d]
                 PROVE  F[p][g] = F[p][h]
      OBVIOUS
    <3>1. Body(g, p) = Body(h, p)
      BY <1>6
    <3> QED BY <1>7, <3>1
  <2>3. V # {}
    <3>1. <<>> \in V
      BY DEF V
    <3> QED BY <3>1
  <2>4. Recursion(D, V, mu, n + 1, F)
    BY <1>4, <2>1, <2>2, <2>3 DEF Recursion
  <2> QED BY <2>4, RecursionExists
<1>9. f = [p \in D |-> Body(f, p)]
  BY <1>7, <1>8
<1> DEFINE hunks == CHOOSE g : g = [p \in D |-> Body(g, p)]
<1>10. UnifiedDiff(a, b, context) = hunks[1]
  BY DEF UnifiedDiff, Body, D, n, ops, start, stop, StartOf, StopOf
<1>11. hunks = [p \in D |-> Body(hunks, p)]
  BY <1>9
<1> HIDE DEF hunks
<1>12. \A p \in D : hunks[p] = Body(hunks, p)
  BY <1>11
<1>13. \A p \in D : hunks[p] = f[p]
  <2> DEFINE good == {p \in D : hunks[p] = f[p]}
  <2>1. ASSUME NEW p \in D, \A d \in D : mu[d] < mu[p] => d \in good PROVE p \in good
    <3>1. \A d \in D : mu[d] < mu[p] => hunks[d] = f[d]
      BY <2>1
    <3>2. Body(hunks, p) = Body(f, p)
      BY <1>6, <3>1
    <3>3. hunks[p] = f[p]
      BY <1>7, <1>8, <1>12, <3>2
    <3> QED BY <3>3
  <2> HIDE DEF good
  <2>2. \A p \in D : p \in good
    BY <1>4, <2>1, ByMeasure
  <2> QED BY <2>2 DEF good
<1>14. ASSUME NEW index \in 1 .. n + 1
       PROVE  /\ hunks[index] \in V
              /\ hunks[index] =
                   IF index > n THEN <<>>
                   ELSE IF ~IsChange(ops[index]) THEN hunks[index + 1]
                   ELSE <<Hunk(SubSeq(ops, start(index), stop(index) - 1))>> \o hunks[stop(index)]
  <2>1. index \in D
    BY DEF D
  <2> QED BY <1>8, <1>12, <1>13, <2>1 DEF Body
<1>15. CutBack(hunks, S, ops, context)
  BY <1>14 DEF CutBack, n, V, start, stop
<1> QED BY <1>10, <1>15 DEF ops

\* The hunks hs cut from ops all that changes from an operation on: hunk n is
\* opened by the change first[n], which no change comes right before, and goes up
\* to stop[n]; between a hunk and the one before it is an operation of neither.
CutsOut(hs, ops, context, from, first, stop) ==
  /\ first \in [1 .. Len(hs) -> 1 .. Len(ops)]
  /\ stop \in [0 .. Len(hs) -> 1 .. Len(ops) + 1]
  /\ stop[0] = from
  /\ \A n \in 1 .. Len(hs) :
       /\ stop[n - 1] <= first[n] /\ first[n] < stop[n]
       /\ IsChange(ops[first[n]])
       /\ first[n] = 1 \/ ~IsChange(ops[first[n] - 1])
       /\ hs[n] = Hunk(SubSeq(ops, StartOf(first[n], context), stop[n] - 1))
       /\ n > 1 => stop[n - 1] < StartOf(first[n], context)
       /\ \A k \in stop[n - 1] .. first[n] - 1 : ~IsChange(ops[k])
  /\ \A k \in stop[Len(hs)] .. Len(ops) : ~IsChange(ops[k])

\* Behind the last operation nothing is left to cut.
LEMMA NothingToCut ==
  ASSUME NEW O, NEW ops \in Seq(O), NEW context
  PROVE  \E first, stop : CutsOut(<<>>, ops, context, Len(ops) + 1, first, stop)
<1> DEFINE n == Len(ops)
           first == [k \in 1 .. 0 |-> 1]
           stop == [k \in 0 .. 0 |-> n + 1]
<1>1. n \in Nat /\ Len(<<>>) = 0
  OBVIOUS
<1>2. 1 .. 0 = {} /\ first \in [1 .. 0 -> 1 .. n]
  OBVIOUS
<1>3. stop \in [0 .. 0 -> 1 .. n + 1] /\ stop[0] = n + 1
  BY <1>1
<1>4. n + 1 .. n = {}
  BY <1>1
<1> HIDE DEF first, stop, n
<1>5. CutsOut(<<>>, ops, context, n + 1, first, stop)
  BY <1>1, <1>2, <1>3, <1>4 DEF CutsOut, n
<1> QED BY <1>5 DEF n

\* What does not change before the first change is no part of a hunk.
LEMMA CutFromBefore ==
  ASSUME NEW O, NEW ops \in Seq(O), NEW context, NEW X, NEW hs \in Seq(X), NEW index \in 1 .. Len(ops),
         ~IsChange(ops[index]), NEW first, NEW stop, CutsOut(hs, ops, context, index + 1, first, stop)
  PROVE  \E s : CutsOut(hs, ops, context, index, first, s)
<1> DEFINE n == Len(ops)
           m == Len(hs)
           s == [k \in 0 .. m |-> IF k = 0 THEN index ELSE stop[k]]
<1>1. n \in Nat /\ m \in Nat /\ index \in 1 .. n /\ index \in Nat
  OBVIOUS
<1>2. /\ first \in [1 .. m -> 1 .. n]
      /\ stop \in [0 .. m -> 1 .. n + 1]
      /\ stop[0] = index + 1
      /\ \A k \in stop[m] .. n : ~IsChange(ops[k])
  BY DEF CutsOut
<1>3. ASSUME NEW i \in 1 .. m
      PROVE  /\ stop[i - 1] <= first[i] /\ first[i] < stop[i]
             /\ IsChange(ops[first[i]])
             /\ first[i] = 1 \/ ~IsChange(ops[first[i] - 1])
             /\ hs[i] = Hunk(SubSeq(ops, StartOf(first[i], context), stop[i] - 1))
             /\ i > 1 => stop[i - 1] < StartOf(first[i], context)
             /\ \A k \in stop[i - 1] .. first[i] - 1 : ~IsChange(ops[k])
  BY DEF CutsOut
<1> HIDE DEF n, m
<1>4. s[0] = index /\ \A k \in 1 .. m : s[k] = stop[k]
  BY <1>1
<1>5. s \in [0 .. m -> 1 .. n + 1]
  <2>1. index \in 1 .. n + 1
    BY <1>1
  <2> QED BY <1>2, <2>1
<1>a. \A k \in 0 .. m : stop[k] \in Nat
  BY <1>1, <1>2
<1> HIDE DEF s
<1>6. ASSUME NEW i \in 1 .. m
      PROVE  /\ s[i - 1] <= first[i] /\ first[i] < s[i]
             /\ IsChange(ops[first[i]])
             /\ first[i] = 1 \/ ~IsChange(ops[first[i] - 1])
             /\ hs[i] = Hunk(SubSeq(ops, StartOf(first[i], context), s[i] - 1))
             /\ i > 1 => s[i - 1] < StartOf(first[i], context)
             /\ \A k \in s[i - 1] .. first[i] - 1 : ~IsChange(ops[k])
  <2>1. s[i] = stop[i] /\ first[i] \in Nat /\ i \in Nat
    BY <1>1, <1>2, <1>4
  <2>2. CASE i = 1
    <3>1. s[i - 1] = index /\ stop[i - 1] = index + 1
      BY <1>2, <1>4, <2>2
    <3>2. index <= first[i]
      BY <1>1, <1>3, <2>1, <3>1
    <3>3. \A k \in index .. first[i] - 1 : k = index \/ k \in index + 1 .. first[i] - 1
      BY <1>1, <2>1
    <3>4. \A k \in index .. first[i] - 1 : ~IsChange(ops[k])
      BY <1>3, <3>1, <3>3
    <3> QED BY <1>3, <2>1, <2>2, <3>1, <3>2, <3>4
  <2>3. CASE i # 1
    <3>1. i - 1 \in 1 .. m
      BY <1>1, <2>3
    <3>2. s[i - 1] = stop[i - 1]
      BY <1>4, <3>1
    <3> QED BY <1>3, <2>1, <3>2
  <2> QED BY <2>2, <2>3
<1>7. \A k \in s[m] .. n : ~IsChange(ops[k])
  <2>1. CASE m = 0
    <3>1. s[m] = index /\ stop[m] = index + 1
      BY <1>2, <1>4, <2>1
    <3>2. \A k \in index .. n : k = index \/ k \in index + 1 .. n
      BY <1>1
    <3> QED BY <1>2, <3>1, <3>2
  <2>2. CASE m # 0
    <3>1. m \in 1 .. m
      BY <1>1, <2>2
    <3> QED BY <1>2, <1>4, <3>1
  <2> QED BY <2>1, <2>2
<1>8. CutsOut(hs, ops, context, index, first, s)
  BY <1>2, <1>4, <1>5, <1>6, <1>7 DEF CutsOut, n, m
<1> QED BY <1>8

\* One hunk in front.
LEMMA OneHunkMore ==
  ASSUME NEW O, NEW ops \in Seq(O), NEW context \in Nat \ {0}, NEW X, NEW hs \in Seq(X), NEW index \in 1 .. Len(ops),
         IsChange(ops[index]), index = 1 \/ ~IsChange(ops[index - 1]),
         NEW h \in X, h = Hunk(SubSeq(ops, StartOf(index, context), StopOf(ops, index, context) - 1)),
         NEW first, NEW stop, CutsOut(hs, ops, context, StopOf(ops, index, context), first, stop)
  PROVE  \E f, s : CutsOut(<<h>> \o hs, ops, context, index, f, s)
<1> DEFINE n == Len(ops)
           m == Len(hs)
           more == <<h>> \o hs
           end == StopOf(ops, index, context)
           f == [k \in 1 .. m + 1 |-> IF k = 1 THEN index ELSE first[k - 1]]
           s == [k \in 0 .. m + 1 |-> IF k = 0 THEN index ELSE stop[k - 1]]
<1>1. n \in Nat /\ m \in Nat /\ index \in 1 .. n /\ index \in Nat /\ context \in Nat
  OBVIOUS
<1>2. /\ first \in [1 .. m -> 1 .. n]
      /\ stop \in [0 .. m -> 1 .. n + 1]
      /\ stop[0] = end
      /\ \A k \in stop[m] .. n : ~IsChange(ops[k])
  BY DEF CutsOut
<1>3. ASSUME NEW i \in 1 .. m
      PROVE  /\ stop[i - 1] <= first[i] /\ first[i] < stop[i]
             /\ IsChange(ops[first[i]])
             /\ first[i] = 1 \/ ~IsChange(ops[first[i] - 1])
             /\ hs[i] = Hunk(SubSeq(ops, StartOf(first[i], context), stop[i] - 1))
             /\ i > 1 => stop[i - 1] < StartOf(first[i], context)
             /\ \A k \in stop[i - 1] .. first[i] - 1 : ~IsChange(ops[k])
  BY DEF CutsOut
<1>4. /\ end \in index + 1 .. n + 1
      /\ \A k \in end - 1 .. end + context : end <= n /\ k \in 1 .. n => ~IsChange(ops[k])
  BY HunkStops
<1>5. Len(more) = m + 1 /\ more[1] = h /\ \A k \in 1 .. m : more[k + 1] = hs[k]
  BY OpsInFront
<1> HIDE DEF n, m, end, more
<1>6. f[1] = index /\ \A k \in 1 .. m : f[k + 1] = first[k]
  <2>1. 1 \in 1 .. m + 1 /\ \A k \in 1 .. m : k + 1 \in 1 .. m + 1 /\ k + 1 # 1 /\ (k + 1) - 1 = k
    BY <1>1
  <2> QED BY <2>1
<1>7. s[0] = index /\ \A k \in 0 .. m : s[k + 1] = stop[k]
  <2>1. 0 \in 0 .. m + 1 /\ \A k \in 0 .. m : k + 1 \in 0 .. m + 1 /\ k + 1 # 0 /\ (k + 1) - 1 = k
    BY <1>1
  <2> QED BY <2>1
<1>8. f \in [1 .. m + 1 -> 1 .. n] /\ s \in [0 .. m + 1 -> 1 .. n + 1]
  <2>1. /\ \A k \in 1 .. m + 1 : k = 1 \/ k - 1 \in 1 .. m
        /\ \A k \in 0 .. m + 1 : k = 0 \/ k - 1 \in 0 .. m
        /\ index \in 1 .. n + 1
    BY <1>1
  <2> QED BY <1>1, <1>2, <2>1
<1> HIDE DEF f, s
<1>9. ASSUME NEW i \in 1 .. m + 1
      PROVE  /\ s[i - 1] <= f[i] /\ f[i] < s[i]
             /\ IsChange(ops[f[i]])
             /\ f[i] = 1 \/ ~IsChange(ops[f[i] - 1])
             /\ more[i] = Hunk(SubSeq(ops, StartOf(f[i], context), s[i] - 1))
             /\ i > 1 => s[i - 1] < StartOf(f[i], context)
             /\ \A k \in s[i - 1] .. f[i] - 1 : ~IsChange(ops[k])
  <2>1. CASE i = 1
    <3>1. 0 \in 0 .. m /\ 0 + 1 = 1 /\ i - 1 = 0
      BY <1>1, <2>1
    <3>2. s[1] = end
      BY <1>2, <1>7, <3>1
    <3>3. s[i - 1] = index /\ f[i] = index /\ s[i] = end /\ more[i] = h
      BY <1>5, <1>6, <1>7, <2>1, <3>1, <3>2
    <3>4. index < end /\ index .. index - 1 = {}
      BY <1>1, <1>4
    <3> QED BY <1>1, <2>1, <3>3, <3>4 DEF end
  <2>2. CASE i # 1
    <3> DEFINE j == i - 1
    <3>1. j \in 1 .. m /\ j + 1 = i /\ j - 1 \in 0 .. m /\ (j - 1) + 1 = i - 1 /\ j \in 0 .. m
      BY <1>1, <2>2
    <3>2. f[j + 1] = first[j] /\ s[j + 1] = stop[j] /\ s[(j - 1) + 1] = stop[j - 1] /\ more[j + 1] = hs[j]
      BY <1>5, <1>6, <1>7, <3>1
    <3>3. f[i] = first[j] /\ s[i] = stop[j] /\ s[i - 1] = stop[j - 1] /\ more[i] = hs[j]
      BY <3>1, <3>2
    <3> HIDE DEF j
    <3>4. stop[j - 1] < StartOf(first[j], context)
      <4>1. CASE j = 1
        <5>1. stop[j - 1] = end /\ end <= first[j] /\ first[j] \in 1 .. n /\ IsChange(ops[first[j]])
          <6>1. stop[0] = stop[j - 1]
            BY <4>1
          <6> QED BY <1>2, <1>3, <3>1, <6>1
        <5>2. end \in Nat /\ first[j] \in Nat /\ end <= n
          BY <1>1, <1>4, <5>1
        <5>3. ~(first[j] \in end - 1 .. end + context)
          BY <1>4, <5>1, <5>2
        <5>4. first[j] > end + context
          BY <1>1, <5>1, <5>2, <5>3
        <5> QED BY <1>1, <5>1, <5>2, <5>4 DEF StartOf
      <4>2. CASE j # 1
        <5>1. j > 1
          BY <1>1, <3>1, <4>2
        <5> QED BY <1>3, <3>1, <5>1
      <4> QED BY <4>1, <4>2
    <3> QED BY <1>3, <3>1, <3>3, <3>4
  <2> QED BY <2>1, <2>2
<1>10. \A k \in s[m + 1] .. n : ~IsChange(ops[k])
  <2>1. m \in 0 .. m
    BY <1>1
  <2> QED BY <1>2, <1>7, <2>1
<1>11. CutsOut(more, ops, context, index, f, s)
  BY <1>5, <1>7, <1>8, <1>9, <1>10 DEF CutsOut, n
<1> QED BY <1>11 DEF more

\* unifiedDiff cuts all that changes.
LEMMA HunksAreCut ==
  ASSUME NEW S, NEW a, NEW b, NEW context \in Nat \ {0}, LcsOps(a, b) \in Seq(OpsOn(S))
  PROVE  /\ UnifiedDiff(a, b, context) \in Seq(HunksOn(S))
         /\ \E first, stop : CutsOut(UnifiedDiff(a, b, context), LcsOps(a, b), context, 1, first, stop)
<1> DEFINE ops == LcsOps(a, b)
           n == Len(ops)
           D == 1 .. n + 1
<1>1. n \in Nat /\ ops \in Seq(OpsOn(S))
  OBVIOUS
<1>2. PICK H : UnifiedDiff(a, b, context) = H[1] /\ CutBack(H, S, ops, context)
  BY HunksGoBack
<1> DEFINE fresh(index) == index > n \/ index = 1 \/ ~IsChange(ops[index - 1])
           done(index) == \E first, stop : CutsOut(H[index], ops, context, index, first, stop)
           good == {index \in D : fresh(index) => done(index)}
           mu == [k \in D |-> n + 1 - k]
<1> HIDE DEF ops
<1>3. ASSUME NEW index \in D
      PROVE  /\ H[index] \in Seq(HunksOn(S))
             /\ H[index] =
                  IF index > n THEN <<>>
                  ELSE IF ~IsChange(ops[index]) THEN H[index + 1]
                  ELSE <<Hunk(SubSeq(ops, StartOf(index, context), StopOf(ops, index, context) - 1))>>
                         \o H[StopOf(ops, index, context)]
  BY <1>2 DEF CutBack
<1>4. mu \in [D -> Nat] /\ \A k, l \in D : l > k => mu[l] < mu[k]
  BY <1>1
<1>5. ASSUME NEW index \in D, \A d \in D : mu[d] < mu[index] => d \in good, fresh(index)
      PROVE  done(index)
  <2>1. CASE index > n
    <3>0. H[index] = <<>>
      BY <1>3, <2>1
    <3>1. index = n + 1 /\ H[index] = <<>>
      <4> HIDE DEF n
      <4>1. index = n + 1
        BY <1>1, <2>1
      <4> QED BY <3>0, <4>1
    <3>2. \E first, stop : CutsOut(<<>>, ops, context, n + 1, first, stop)
      BY <1>1, NothingToCut
    <3> QED BY <3>1, <3>2
  <2>2. CASE ~(index > n) /\ ~IsChange(ops[index])
    <3>1. index \in 1 .. n /\ index + 1 \in D /\ index + 1 > index /\ (index + 1) - 1 = index
      BY <1>1, <2>2
    <3>2. H[index] = H[index + 1] /\ H[index] \in Seq(HunksOn(S))
      BY <1>3, <2>2
    <3>3. fresh(index + 1) /\ index + 1 \in good
      BY <1>4, <1>5, <2>2, <3>1
    <3>4. PICK first, stop : CutsOut(H[index], ops, context, index + 1, first, stop)
      BY <3>2, <3>3
    <3>5. \E s : CutsOut(H[index], ops, context, index, first, s)
      BY <1>1, <2>2, <3>1, <3>2, <3>4, CutFromBefore
    <3> QED BY <3>5
  <2>3. CASE ~(index > n) /\ IsChange(ops[index])
    <3> DEFINE end == StopOf(ops, index, context)
               h == Hunk(SubSeq(ops, StartOf(index, context), end - 1))
    <3>1. index \in 1 .. n /\ index \in Nat
      BY <1>1, <2>3
    <3>2. /\ end \in index + 1 .. n + 1
          /\ \A k \in end - 1 .. end + context : end <= n /\ k \in 1 .. n => ~IsChange(ops[k])
      BY <1>1, <2>3, <3>1, HunkStops
    <3>3. H[index] = <<h>> \o H[end]
      BY <1>3, <2>3
    <3> HIDE DEF end
    <3>4. end \in D /\ end > index /\ end \in Nat
      BY <1>1, <3>1, <3>2
    <3>5. fresh(end)
      <4> SUFFICES ASSUME ~(end > n) PROVE ~IsChange(ops[end - 1])
        OBVIOUS
      <4>1. end <= n /\ end - 1 \in 1 .. n /\ end - 1 \in end - 1 .. end + context
        BY <1>1, <3>1, <3>2, <3>4
      <4> QED BY <3>2, <4>1
    <3>6. H[end] \in Seq(HunksOn(S)) /\ end \in good
      BY <1>3, <1>4, <1>5, <3>4
    <3>7. PICK first, stop : CutsOut(H[end], ops, context, end, first, stop)
      BY <3>5, <3>6
    <3>8. h \in HunksOn(S)
      <4>1. StartOf(index, context) \in 1 .. index
        BY <3>1 DEF StartOf
      <4>2. StartOf(index, context) \in 1 .. n + 1 /\ end \in StartOf(index, context) .. n + 1
        BY <1>1, <3>1, <3>2, <3>4, <4>1
      <4>3. SubSeq(ops, StartOf(index, context), end - 1) \in Seq(OpsOn(S))
        BY <1>1, <4>2, SliceOf
      <4> QED BY <4>3 DEF HunksOn
    <3>9. index = 1 \/ ~IsChange(ops[index - 1])
      BY <1>5, <2>3
    <3>10. \E f, s : CutsOut(<<h>> \o H[end], ops, context, index, f, s)
      BY <1>1, <2>3, <3>1, <3>6, <3>7, <3>8, <3>9, OneHunkMore DEF end
    <3> QED BY <3>3, <3>10
  <2> QED BY <2>1, <2>2, <2>3
<1>6. \A p \in D : p \in good
  <2>1. ASSUME NEW p \in D, \A d \in D : mu[d] < mu[p] => d \in good PROVE p \in good
    BY <1>5, <2>1
  <2> HIDE DEF good, mu, D
  <2> QED BY <1>4, <2>1, ByMeasure
<1>7. 1 \in D /\ fresh(1)
  BY <1>1
<1>8. done(1) /\ H[1] \in Seq(HunksOn(S))
  BY <1>3, <1>6, <1>7
<1> QED BY <1>2, <1>8 DEF ops

-----------------------------------------------------------------------------
(* The hunks applied.                                                      *)

\* A hunk's header says where the hunk's lines are.
LEMMA HeaderOfSlice ==
  ASSUME NEW S, NEW text \in Seq(S), NEW ops \in Seq(OpsOn(S)), NEW side \in {"a", "b"}, NEW where,
         Tells(ops, side, where, text, 1),
         NEW lo \in 1 .. Len(ops) + 1, NEW hi \in lo .. Len(ops) + 1,
         lo = 1 \/ \E k \in lo .. hi - 1 : ~IsChange(ops[k])
  PROVE  FirstOf(SubSeq(ops, lo, hi - 1), side) = where[lo - 1]
<1> DEFINE n == hi - lo
           slice == SubSeq(ops, lo, hi - 1)
<1>1. /\ Len(ops) \in Nat /\ Len(text) \in Nat /\ n \in Nat /\ lo \in Nat /\ hi \in Nat /\ lo # 0
  OBVIOUS
<1>2. /\ DOMAIN slice = 1 .. n
      /\ \A k \in 1 .. n : slice[k] = ops[(lo - 1) + k] /\ (lo - 1) + k \in 1 .. Len(ops)
  <2>1. /\ slice \in Seq(OpsOn(S)) /\ Len(slice) = n
        /\ \A k \in 1 .. n : slice[k] = ops[(lo - 1) + k] /\ (lo - 1) + k \in 1 .. Len(ops)
    BY SliceOf
  <2> QED BY <2>1
<1>3. /\ where[0] = 1
      /\ \A k \in 1 .. Len(ops) : IF ops[k][side] = 0 THEN where[k] = where[k - 1] ELSE ops[k][side] = where[k - 1]
  BY DEF Tells
<1>4. \A k \in 1 .. Len(ops) : ops[k] \in OpsOn(S)
  OBVIOUS
<1> HIDE DEF slice, n
<1>5. CASE \E k \in DOMAIN slice : slice[k][side] # 0
  <2> DEFINE named == {k \in DOMAIN slice : slice[k][side] # 0}
             P(k) == slice[k][side] # 0 /\ \A l \in 1 .. k - 1 : slice[l][side] = 0
             x == CHOOSE k \in DOMAIN slice : P(k)
  <2>1. named \in SUBSET Nat /\ named # {}
    <3>1. \A k \in 1 .. n : k \in Nat
      OBVIOUS
    <3>2. DOMAIN slice \subseteq Nat
      BY <1>2, <3>1
    <3> QED BY <1>5, <3>2
  <2>2. PICK k \in named : \A l \in named : k <= l
    <3> HIDE DEF named
    <3> QED BY <2>1, LeastOfNaturals
  <2>3. k \in DOMAIN slice /\ P(k)
    <3>1. \A l \in 1 .. k - 1 : l \in DOMAIN slice /\ ~(k <= l)
      BY <1>1, <1>2, <2>2
    <3> QED BY <2>2, <3>1
  <2>4. FirstOf(slice, side) = slice[x][side]
    BY <1>5 DEF FirstOf
  <2>5. x \in DOMAIN slice /\ P(x)
    <3> HIDE DEF P
    <3> QED BY <2>3
  <2> HIDE DEF x
  <2>6. x \in 1 .. n /\ slice[x][side] # 0 /\ \A l \in 1 .. x - 1 : slice[l][side] = 0
    BY <1>2, <2>5
  <2> DEFINE good == {l \in Nat : where[(lo - 1) + l] = where[lo - 1]}
  <2>7. 0 \in good
    <3>1. (lo - 1) + 0 = lo - 1
      BY <1>1
    <3> QED BY <3>1
  <2>8. ASSUME NEW l \in Nat, l < x - 1, l \in good PROVE l + 1 \in good
    <3>1. /\ l + 1 \in 1 .. x - 1 /\ l + 1 \in 1 .. n /\ ((lo - 1) + (l + 1)) - 1 = (lo - 1) + l
      BY <1>1, <2>6, <2>8
    <3>2. slice[l + 1][side] = 0 /\ slice[l + 1] = ops[(lo - 1) + (l + 1)] /\ (lo - 1) + (l + 1) \in 1 .. Len(ops)
      BY <1>2, <2>6, <3>1
    <3>3. where[(lo - 1) + (l + 1)] = where[(lo - 1) + l]
      BY <1>3, <3>1, <3>2
    <3> QED BY <2>8, <3>3
  <2>9. \A l \in 0 .. x - 1 : l \in good
    <3>1. x - 1 \in Nat
      BY <1>1, <2>6
    <3> HIDE DEF good
    <3> QED BY <2>7, <2>8, <3>1, UpTo
  <2>10. where[(lo - 1) + (x - 1)] = where[lo - 1]
    <3>1. x - 1 \in 0 .. x - 1
      BY <1>1, <2>6
    <3> QED BY <2>9, <3>1
  <2>11. slice[x][side] = where[(lo - 1) + (x - 1)]
    <3>1. ((lo - 1) + x) - 1 = (lo - 1) + (x - 1)
      BY <1>1, <2>6
    <3> QED BY <1>2, <1>3, <2>6, <3>1
  <2> QED BY <2>4, <2>10, <2>11 DEF slice
<1>6. CASE ~\E k \in DOMAIN slice : slice[k][side] # 0
  <2>1. FirstOf(slice, side) = 1
    BY <1>6 DEF FirstOf
  <2>2. lo = 1
    <3> SUFFICES ASSUME lo # 1 PROVE FALSE
      OBVIOUS
    <3>1. PICK k \in lo .. hi - 1 : ~IsChange(ops[k])
      OBVIOUS
    <3>2. k - (lo - 1) \in 1 .. n /\ (lo - 1) + (k - (lo - 1)) = k /\ k \in 1 .. Len(ops)
      BY <1>1 DEF n
    <3>3. slice[k - (lo - 1)] = ops[k]
      BY <1>2, <3>2
    <3>4. ops[k].a # 0 /\ ops[k].b # 0
      BY <1>4, <3>1, <3>2 DEF OpsOn
    <3> QED BY <1>2, <1>6, <3>2, <3>3, <3>4
  <2> QED BY <1>3, <2>1, <2>2 DEF slice
<1> QED BY <1>5, <1>6

\* The hunks are applied one by one, last one first.
LEMMA HunksOneByOne ==
  ASSUME NEW text, NEW X, NEW hunks \in Seq(X)
  PROVE  \E rest : /\ rest[0] = text
                   /\ \A k \in Nat : k < Len(hunks) =>
                        rest[k + 1] = Replace(rest[k], hunks[Len(hunks) - k].aStart, hunks[Len(hunks) - k].aCount,
                                              LinesOf(hunks[Len(hunks) - k].ops, "b"))
                   /\ Applied(text, hunks) = rest[Len(hunks)]
<1> DEFINE n == Len(hunks)
           Step(g, k) == IF k = 0 THEN text
                         ELSE Replace(g[k - 1], hunks[n + 1 - k].aStart, hunks[n + 1 - k].aCount,
                                      LinesOf(hunks[n + 1 - k].ops, "b"))
           Upto(m, g) == g = [k \in 0 .. m |-> Step(g, k)]
           some == {m \in Nat : \E g : Upto(m, g)}
<1>0. n \in Nat
  OBVIOUS
<1>1. 0 \in some
  <2> DEFINE g == [k \in 0 .. 0 |-> text]
  <2>1. \A k \in 0 .. 0 : Step(g, k) = text
    OBVIOUS
  <2>2. Upto(0, g)
    <3> HIDE DEF Step
    <3> QED BY <2>1
  <2> QED BY <2>2
<1>2. ASSUME NEW m \in Nat, m \in some PROVE m + 1 \in some
  <2>1. PICK g : Upto(m, g)
    BY <1>2
  <2> DEFINE h == [k \in 0 .. m + 1 |-> Step(g, k)]
  <2>2. ASSUME NEW k \in 0 .. m PROVE h[k] = g[k]
    <3>1. k \in 0 .. m + 1
      OBVIOUS
    <3>2. g[k] = Step(g, k)
      BY <2>1
    <3> HIDE DEF Step
    <3> QED BY <3>1, <3>2
  <2>3. ASSUME NEW k \in 0 .. m + 1 PROVE Step(g, k) = Step(h, k)
    <3>1. CASE k = 0
      BY <3>1
    <3>2. CASE k # 0
      <4>1. k - 1 \in 0 .. m
        BY <3>2
      <4>2. h[k - 1] = g[k - 1]
        BY <2>2, <4>1
      <4> QED BY <4>2
    <3> QED BY <3>1, <3>2
  <2>4. Upto(m + 1, h)
    <3> HIDE DEF Step
    <3> QED BY <2>3
  <2> HIDE DEF Upto
  <2> QED BY <2>4
<1>3. \E g : Upto(n, g)
  <2> HIDE DEF some
  <2>1. \A k \in 0 .. n : k \in some
    BY <1>0, <1>1, <1>2, UpTo
  <2>2. n \in some
    BY <1>0, <2>1
  <2> HIDE DEF Upto
  <2> QED BY <2>2 DEF some
<1> DEFINE rest == CHOOSE g : g = [k \in 0 .. n |-> IF k = 0 THEN text
                         ELSE Replace(g[k - 1], hunks[n + 1 - k].aStart, hunks[n + 1 - k].aCount,
                                      LinesOf(hunks[n + 1 - k].ops, "b"))]
<1>4. Applied(text, hunks) = rest[n]
  BY DEF Applied
<1>5. rest = [k \in 0 .. n |-> Step(rest, k)]
  BY <1>3
<1> HIDE DEF rest
<1>a. rest[0] = text /\ \A k \in 0 .. n : rest[k] = Step(rest, k)
  <2>1. 0 \in 0 .. n
    BY <1>0
  <2> HIDE DEF Step
  <2>2. \A k \in 0 .. n : rest[k] = Step(rest, k)
    BY <1>5
  <2> QED BY <2>1, <2>2 DEF Step
<1>6. ASSUME NEW k \in Nat, k < n
      PROVE  rest[k + 1] = Replace(rest[k], hunks[n - k].aStart, hunks[n - k].aCount, LinesOf(hunks[n - k].ops, "b"))
  <2>1. k + 1 \in 0 .. n /\ k + 1 # 0 /\ (k + 1) - 1 = k /\ n + 1 - (k + 1) = n - k
    BY <1>0, <1>6
  <2> QED BY <1>a, <2>1
<1> QED BY <1>4, <1>6, <1>a

\* What two lists have that are joined.
IsJoin(r, S, s, t, m, n) ==
  /\ r \in Seq(S)
  /\ Len(r) = m + n
  /\ \A x \in 1 .. m + n : r[x] = IF x <= m THEN s[x] ELSE t[x - m]

LEMMA JoinOf ==
  ASSUME NEW S, NEW s \in Seq(S), NEW t \in Seq(S), NEW m, NEW n, Len(s) = m, Len(t) = n
  PROVE  IsJoin(s \o t, S, s, t, m, n)
BY DEF IsJoin

\* The old text up to a line and the new one from a line on.
Spliced(before, after, i, j) == SubSeq(before, 1, i - 1) \o SubSeq(after, j, Len(after))

\* What such a text has at each place.
IsSplice(s, S, before, after, i, j) ==
  /\ s \in Seq(S)
  /\ Len(s) = (i - 1) + (Len(after) + 1 - j)
  /\ \A x \in 1 .. (i - 1) + (Len(after) + 1 - j) :
       s[x] = IF x < i THEN before[x] ELSE after[(x - i) + j]

LEMMA SpliceOf ==
  ASSUME NEW S, NEW a \in Seq(S), NEW b \in Seq(S), NEW i \in 1 .. Len(a) + 1, NEW j \in 1 .. Len(b) + 1
  PROVE  IsSplice(Spliced(a, b, i, j), S, a, b, i, j)
<1> DEFINE s == SubSeq(a, 1, i - 1)
           t == SubSeq(b, j, Len(b))
<1>1. Len(a) \in Nat /\ Len(b) \in Nat /\ i \in Nat /\ j \in Nat /\ i >= 1 /\ j >= 1
  OBVIOUS
<1>2. s \in Seq(S) /\ Len(s) = i - 1 /\ \A k \in 1 .. i - 1 : s[k] = a[k]
  <2>1. 1 \in 1 .. Len(a) + 1 /\ i \in 1 .. Len(a) + 1 /\ \A k \in 1 .. i - 1 : (1 - 1) + k = k
    BY <1>1
  <2> QED BY <2>1, SliceOf
<1>3. t \in Seq(S) /\ Len(t) = Len(b) + 1 - j /\ \A k \in 1 .. Len(b) + 1 - j : t[k] = b[(j - 1) + k]
  <2>1. Len(b) + 1 \in j .. Len(b) + 1 /\ (Len(b) + 1) - 1 = Len(b)
    BY <1>1
  <2> QED BY <2>1, SliceOf
<1> HIDE DEF s, t
<1>4. /\ s \o t \in Seq(S) /\ Len(s \o t) = (i - 1) + (Len(b) + 1 - j)
      /\ \A x \in 1 .. (i - 1) + (Len(b) + 1 - j) :
           (s \o t)[x] = IF x <= i - 1 THEN s[x] ELSE t[x - (i - 1)]
  <2> DEFINE c == i - 1
             d == Len(b) + 1 - j
  <2>1. Len(s) = c /\ Len(t) = d
    BY <1>2, <1>3
  <2> HIDE DEF c, d
  <2>2. /\ s \o t \in Seq(S) /\ Len(s \o t) = c + d
        /\ \A x \in 1 .. c + d : (s \o t)[x] = IF x <= c THEN s[x] ELSE t[x - c]
    <3>1. IsJoin(s \o t, S, s, t, c, d)
      BY <1>2, <1>3, <2>1, JoinOf
    <3> QED BY <3>1 DEF IsJoin
  <2> QED BY <2>2 DEF c, d
<1>5. ASSUME NEW x \in 1 .. (i - 1) + (Len(b) + 1 - j)
      PROVE  (s \o t)[x] = IF x < i THEN a[x] ELSE b[(x - i) + j]
  <2>1. CASE x < i
    <3>1. x <= i - 1 /\ x \in 1 .. i - 1
      BY <1>1, <2>1
    <3> QED BY <1>2, <1>4, <2>1, <3>1
  <2>2. CASE ~(x < i)
    <3>1. ~(x <= i - 1) /\ x - (i - 1) \in 1 .. Len(b) + 1 - j /\ (j - 1) + (x - (i - 1)) = (x - i) + j
      BY <1>1, <2>2
    <3> QED BY <1>3, <1>4, <2>2, <3>1
  <2> QED BY <2>1, <2>2
<1> QED BY <1>4, <1>5 DEF IsSplice, Spliced, s, t

\* A line that both texts have may be told of either.
LEMMA SpliceSlides ==
  ASSUME NEW S, NEW a \in Seq(S), NEW b \in Seq(S), NEW i \in 1 .. Len(a), NEW j \in 1 .. Len(b), a[i] = b[j]
  PROVE  Spliced(a, b, i + 1, j + 1) = Spliced(a, b, i, j)
<1> DEFINE s == Spliced(a, b, i + 1, j + 1)
           t == Spliced(a, b, i, j)
           n == (i - 1) + (Len(b) + 1 - j)
<1>1. /\ Len(a) \in Nat /\ Len(b) \in Nat /\ i \in 1 .. Len(a) + 1 /\ j \in 1 .. Len(b) + 1
      /\ i + 1 \in 1 .. Len(a) + 1 /\ j + 1 \in 1 .. Len(b) + 1
      /\ ((i + 1) - 1) + (Len(b) + 1 - (j + 1)) = n
  OBVIOUS
<1>2. t \in Seq(S) /\ Len(t) = n /\ \A x \in 1 .. n : t[x] = IF x < i THEN a[x] ELSE b[(x - i) + j]
  <2>1. IsSplice(t, S, a, b, i, j)
    BY <1>1, SpliceOf
  <2> HIDE DEF t
  <2> QED BY <2>1 DEF IsSplice
<1>3. /\ s \in Seq(S) /\ Len(s) = n
      /\ \A x \in 1 .. n : s[x] = IF x < i + 1 THEN a[x] ELSE b[(x - (i + 1)) + (j + 1)]
  <2> DEFINE i1 == i + 1
             j1 == j + 1
             n1 == (i1 - 1) + (Len(b) + 1 - j1)
  <2>1. i1 \in 1 .. Len(a) + 1 /\ j1 \in 1 .. Len(b) + 1 /\ n1 = n
    BY <1>1
  <2>2. s = Spliced(a, b, i1, j1)
    OBVIOUS
  <2> HIDE DEF i1, j1, s
  <2>3. IsSplice(s, S, a, b, i1, j1)
    BY <2>1, <2>2, SpliceOf
  <2>4. /\ s \in Seq(S) /\ Len(s) = n1
        /\ \A x \in 1 .. n1 : s[x] = IF x < i1 THEN a[x] ELSE b[(x - i1) + j1]
    BY <2>3 DEF IsSplice
  <2> HIDE DEF n, n1
  <2> QED BY <2>1, <2>4 DEF i1, j1
<1> HIDE DEF s, t
<1>4. ASSUME NEW x \in 1 .. n PROVE s[x] = t[x]
  <2>1. CASE x < i
    <3>1. x < i + 1
      BY <1>1, <2>1
    <3> QED BY <1>2, <1>3, <2>1, <3>1
  <2>2. CASE x = i
    <3>1. x < i + 1 /\ ~(x < i) /\ (x - i) + j = j
      BY <1>1, <2>2
    <3> QED BY <1>2, <1>3, <2>2, <3>1
  <2>3. CASE x > i
    <3>1. ~(x < i + 1) /\ ~(x < i) /\ (x - (i + 1)) + (j + 1) = (x - i) + j
      BY <1>1, <2>3
    <3> QED BY <1>2, <1>3, <3>1
  <2>4. x < i \/ x = i \/ x > i
    BY <1>1
  <2> QED BY <2>1, <2>2, <2>3, <2>4
<1> HIDE DEF n
<1>5. s = t
  BY <1>2, <1>3, <1>4, SameLists
<1> QED BY <1>5 DEF s, t

\* What is replaced by the new text's lines is of the new text.
LEMMA SpliceReplaced ==
  ASSUME NEW S, NEW a \in Seq(S), NEW b \in Seq(S),
         NEW i \in 1 .. Len(a) + 1, NEW j \in 1 .. Len(b) + 1, NEW h \in 1 .. i, NEW l \in 1 .. j
  PROVE  Replace(Spliced(a, b, i, j), h, i - h, SubSeq(b, l, j - 1)) = Spliced(a, b, h, l)
<1> DEFINE s == Spliced(a, b, i, j)
           t == Spliced(a, b, h, l)
           m == (i - 1) + (Len(b) + 1 - j)
           n == (h - 1) + (Len(b) + 1 - l)
           x1 == SubSeq(s, 1, h - 1)
           x2 == SubSeq(b, l, j - 1)
           x3 == SubSeq(s, h + (i - h), Len(s))
           r == (x1 \o x2) \o x3
<1>1. /\ Len(a) \in Nat /\ Len(b) \in Nat /\ i \in Nat /\ j \in Nat /\ h \in Nat /\ l \in Nat
      /\ h \in 1 .. Len(a) + 1 /\ l \in 1 .. Len(b) + 1 /\ h <= i /\ l <= j /\ h >= 1 /\ l >= 1
      /\ i <= Len(a) + 1 /\ j <= Len(b) + 1
  OBVIOUS
<1>2. s \in Seq(S) /\ Len(s) = m /\ \A x \in 1 .. m : s[x] = IF x < i THEN a[x] ELSE b[(x - i) + j]
  <2>1. IsSplice(s, S, a, b, i, j)
    BY <1>1, SpliceOf
  <2> HIDE DEF s
  <2> QED BY <2>1 DEF IsSplice
<1>3. t \in Seq(S) /\ Len(t) = n /\ \A x \in 1 .. n : t[x] = IF x < h THEN a[x] ELSE b[(x - h) + l]
  <2>1. IsSplice(t, S, a, b, h, l)
    BY <1>1, SpliceOf
  <2> HIDE DEF t
  <2> QED BY <2>1 DEF IsSplice
<1> HIDE DEF s, t
<1>4. x1 \in Seq(S) /\ Len(x1) = h - 1 /\ \A x \in 1 .. h - 1 : x1[x] = a[x]
  <2>1. 1 \in 1 .. Len(s) + 1 /\ h \in 1 .. Len(s) + 1
    BY <1>1, <1>2
  <2>2. x1 \in Seq(S) /\ Len(x1) = h - 1 /\ \A x \in 1 .. h - 1 : x1[x] = s[(1 - 1) + x]
    BY <1>2, <2>1, SliceOf
  <2>3. ASSUME NEW x \in 1 .. h - 1 PROVE x1[x] = a[x]
    <3>1. (1 - 1) + x = x /\ x \in 1 .. m /\ x < i
      BY <1>1
    <3> QED BY <1>2, <2>2, <3>1
  <2> QED BY <2>2, <2>3
<1>5. x2 \in Seq(S) /\ Len(x2) = j - l /\ \A x \in 1 .. j - l : x2[x] = b[(l - 1) + x]
  <2>1. j \in l .. Len(b) + 1
    BY <1>1
  <2> QED BY <1>1, <2>1, SliceOf
<1>6. x3 \in Seq(S) /\ Len(x3) = Len(b) + 1 - j /\ \A x \in 1 .. Len(b) + 1 - j : x3[x] = b[(j - 1) + x]
  <2>1. h + (i - h) = i /\ i \in 1 .. Len(s) + 1 /\ Len(s) + 1 \in i .. Len(s) + 1 /\ (Len(s) + 1) - 1 = Len(s)
    BY <1>1, <1>2
  <2> DEFINE end == Len(s) + 1
  <2>a. x3 = SubSeq(s, i, end - 1) /\ i \in 1 .. Len(s) + 1 /\ end \in i .. Len(s) + 1
    BY <2>1
  <2> HIDE DEF x3, end
  <2>b. /\ SubSeq(s, i, end - 1) \in Seq(S) /\ Len(SubSeq(s, i, end - 1)) = end - i
        /\ \A x \in 1 .. end - i : SubSeq(s, i, end - 1)[x] = s[(i - 1) + x]
    BY <1>2, <2>a, SliceOf
  <2>2. x3 \in Seq(S) /\ Len(x3) = (Len(s) + 1) - i /\ \A x \in 1 .. (Len(s) + 1) - i : x3[x] = s[(i - 1) + x]
    BY <2>a, <2>b DEF end
  <2>3. (Len(s) + 1) - i = Len(b) + 1 - j
    BY <1>1, <1>2
  <2>4. ASSUME NEW x \in 1 .. Len(b) + 1 - j PROVE x3[x] = b[(j - 1) + x]
    <3>1. (i - 1) + x \in 1 .. m /\ ~((i - 1) + x < i) /\ (((i - 1) + x) - i) + j = (j - 1) + x
      BY <1>1
    <3> QED BY <1>2, <2>2, <2>3, <3>1
  <2> QED BY <2>2, <2>3, <2>4
<1> HIDE DEF x1, x2, x3
<1>7. /\ x1 \o x2 \in Seq(S) /\ Len(x1 \o x2) = (h - 1) + (j - l)
      /\ \A x \in 1 .. (h - 1) + (j - l) : (x1 \o x2)[x] = IF x <= h - 1 THEN x1[x] ELSE x2[x - (h - 1)]
  <2> DEFINE c == h - 1
             d == j - l
  <2>1. Len(x1) = c /\ Len(x2) = d
    BY <1>4, <1>5
  <2> HIDE DEF c, d
  <2>2. /\ x1 \o x2 \in Seq(S) /\ Len(x1 \o x2) = c + d
        /\ \A x \in 1 .. c + d : (x1 \o x2)[x] = IF x <= c THEN x1[x] ELSE x2[x - c]
    <3>1. IsJoin(x1 \o x2, S, x1, x2, c, d)
      BY <1>4, <1>5, <2>1, JoinOf
    <3> QED BY <3>1 DEF IsJoin
  <2> QED BY <2>2 DEF c, d
<1> DEFINE y == x1 \o x2
<1> HIDE DEF y
<1>8. /\ r \in Seq(S) /\ Len(r) = n
      /\ \A x \in 1 .. n : r[x] = IF x <= (h - 1) + (j - l) THEN y[x] ELSE x3[x - ((h - 1) + (j - l))]
  <2>1. ((h - 1) + (j - l)) + (Len(b) + 1 - j) = n
    BY <1>1
  <2>2. y \in Seq(S) /\ Len(y) = (h - 1) + (j - l) /\ r = y \o x3
    BY <1>7 DEF y
  <2> HIDE DEF r, n
  <2>3. /\ y \o x3 \in Seq(S) /\ Len(y \o x3) = n
        /\ \A x \in 1 .. n : (y \o x3)[x] = IF x <= (h - 1) + (j - l) THEN y[x] ELSE x3[x - ((h - 1) + (j - l))]
    <3> DEFINE c == (h - 1) + (j - l)
               d == Len(b) + 1 - j
    <3>1. Len(y) = c /\ Len(x3) = d /\ c + d = n /\ y \in Seq(S) /\ x3 \in Seq(S)
      BY <1>6, <2>1, <2>2
    <3> HIDE DEF c, d
    <3>2. /\ y \o x3 \in Seq(S) /\ Len(y \o x3) = c + d
          /\ \A x \in 1 .. c + d : (y \o x3)[x] = IF x <= c THEN y[x] ELSE x3[x - c]
      <4>1. IsJoin(y \o x3, S, y, x3, c, d)
        BY <3>1, JoinOf
      <4> QED BY <4>1 DEF IsJoin
    <3> QED BY <3>1, <3>2 DEF c
  <2> QED BY <2>2, <2>3
<1> HIDE DEF r
<1>9. ASSUME NEW x \in 1 .. n PROVE r[x] = t[x]
  <2>1. CASE x < h
    <3>1. x <= (h - 1) + (j - l) /\ x <= h - 1 /\ x \in 1 .. h - 1 /\ x \in 1 .. (h - 1) + (j - l)
      BY <1>1, <2>1
    <3>2. r[x] = y[x]
      BY <1>8, <3>1
    <3>3. y[x] = x1[x] /\ x1[x] = a[x]
      BY <1>4, <1>7, <3>1 DEF y
    <3> QED BY <1>3, <2>1, <3>2, <3>3
  <2>2. CASE ~(x < h) /\ x <= (h - 1) + (j - l)
    <3>1. /\ ~(x <= h - 1) /\ x - (h - 1) \in 1 .. j - l /\ x \in 1 .. (h - 1) + (j - l)
          /\ (l - 1) + (x - (h - 1)) = (x - h) + l
      <4>1. x \in Nat /\ x >= 1
        OBVIOUS
      <4> HIDE DEF n, m
      <4>2. ~(x <= h - 1) /\ x \in 1 .. (h - 1) + (j - l)
        BY <1>1, <2>2, <4>1
      <4>3. x - (h - 1) \in 1 .. j - l
        BY <1>1, <2>2, <4>1
      <4>4. (l - 1) + (x - (h - 1)) = (x - h) + l
        BY <1>1, <4>1
      <4> QED BY <4>2, <4>3, <4>4
    <3>2. r[x] = y[x]
      BY <1>8, <2>2
    <3>3. y[x] = x2[x - (h - 1)]
      BY <1>7, <3>1 DEF y
    <3>4. x2[x - (h - 1)] = b[(x - h) + l]
      BY <1>5, <3>1
    <3> QED BY <1>3, <2>2, <3>2, <3>3, <3>4
  <2>3. CASE ~(x <= (h - 1) + (j - l))
    <3>1. /\ ~(x < h) /\ x - ((h - 1) + (j - l)) \in 1 .. Len(b) + 1 - j
          /\ (j - 1) + (x - ((h - 1) + (j - l))) = (x - h) + l
      BY <1>1, <2>3
    <3>2. r[x] = x3[x - ((h - 1) + (j - l))]
      BY <1>8, <2>3
    <3>3. x3[x - ((h - 1) + (j - l))] = b[(x - h) + l]
      BY <1>6, <3>1
    <3> QED BY <1>3, <3>1, <3>2, <3>3
  <2> QED BY <2>1, <2>2, <2>3
<1> HIDE DEF n, m
<1>10. r = t
  BY <1>3, <1>8, <1>9, SameLists
<1>11. Replace(s, h, i - h, x2) = r
  BY DEF Replace, r, x1, x3
<1> QED BY <1>10, <1>11 DEF s, t, x2

\* Over lines that stay the old text and the new one may be exchanged.
LEMMA KeptLinesSlide ==
  ASSUME NEW S, NEW a \in Seq(S), NEW b \in Seq(S), NEW ops \in Seq(OpsOn(S)), NEW p, NEW q,
         Tells(ops, "a", p, a, 1), Tells(ops, "b", q, b, 1),
         NEW k \in 0 .. Len(ops), NEW l \in 0 .. Len(ops), k <= l,
         \A x \in k + 1 .. l : ~IsChange(ops[x])
  PROVE  Spliced(a, b, p[l], q[l]) = Spliced(a, b, p[k], q[k])
<1> DEFINE n == Len(ops)
           t(x) == Spliced(a, b, p[x], q[x])
           good == {d \in Nat : k + d <= l => t(k + d) = t(k)}
<1>1. n \in Nat /\ k \in Nat /\ l \in Nat /\ l <= n
  OBVIOUS
<1>2. ASSUME NEW x \in 1 .. n, ~IsChange(ops[x]) PROVE t(x) = t(x - 1)
  <2>1. ops[x] \in OpsOn(S)
    OBVIOUS
  <2>2. ops[x].a # 0 /\ ops[x].b # 0
    BY <1>2, <2>1 DEF OpsOn
  <2>3. ops[x]["a"] # 0 /\ ops[x]["b"] # 0
    BY <2>2
  <2>4. p[x - 1] \in 1 .. Len(a) /\ p[x] = p[x - 1] + 1 /\ ops[x].line = a[p[x - 1]]
    BY <2>3 DEF Tells
  <2>5. q[x - 1] \in 1 .. Len(b) /\ q[x] = q[x - 1] + 1 /\ ops[x].line = b[q[x - 1]]
    BY <2>3 DEF Tells
  <2>6. a[p[x - 1]] = b[q[x - 1]]
    BY <2>4, <2>5
  <2>7. Spliced(a, b, p[x - 1] + 1, q[x - 1] + 1) = Spliced(a, b, p[x - 1], q[x - 1])
    BY <2>4, <2>5, <2>6, SpliceSlides
  <2> QED BY <2>4, <2>5, <2>7
<1> HIDE DEF n, t
<1>3. 0 \in good
  <2>1. k + 0 = k
    BY <1>1
  <2> QED BY <2>1
<1>4. ASSUME NEW d \in Nat, d < l - k, d \in good PROVE d + 1 \in good
  <2>1. k + (d + 1) \in k + 1 .. l /\ k + (d + 1) \in 1 .. n /\ (k + (d + 1)) - 1 = k + d /\ k + d <= l
    BY <1>1, <1>4
  <2>2. t(k + (d + 1)) = t(k + d)
    BY <1>2, <2>1
  <2> QED BY <1>4, <2>1, <2>2
<1>5. \A d \in 0 .. l - k : d \in good
  <2>1. l - k \in Nat
    BY <1>1
  <2> HIDE DEF good
  <2> QED BY <1>3, <1>4, <2>1, UpTo
<1>6. PICK d \in 0 .. l - k : k + d = l
  <2>1. l - k \in 0 .. l - k /\ k + (l - k) = l
    BY <1>1
  <2> QED BY <2>1
<1>7. t(l) = t(k)
  <2>1. d \in good /\ k + d <= l
    BY <1>1, <1>5, <1>6
  <2>2. t(k + d) = t(k)
    BY <2>1
  <2> QED BY <1>6, <2>2
<1> QED BY <1>7 DEF t

\* Of equal texts every line stays.
LEMMA EqualTextsStay ==
  ASSUME NEW S, NEW a \in Seq(S)
  PROVE  \A k \in 1 .. Len(LcsOps(a, a)) : ~IsChange(LcsOps(a, a)[k])
<1> DEFINE n == Len(a)
           stay(ops) == \A k \in 1 .. Len(ops) : ~IsChange(ops[k])
<1>1. n \in Nat /\ \A i \in 1 .. n : a[i] \in S
  OBVIOUS
<1>2. PICK O : LcsOps(a, a) = O[<<1, 1>>] /\ GoBack(O, S, a, a)
  BY OpsGoBack
<1>3. ASSUME NEW i \in 1 .. n + 1
      PROVE  /\ O[<<i, i>>] \in Seq(OpsOn(S))
             /\ i > n => O[<<i, i>>] = <<>>
             /\ ~(i > n) => O[<<i, i>>] = <<Equal(i, i, a[i])>> \o O[<<i + 1, i + 1>>]
  BY <1>2 DEF GoBack
<1> DEFINE at(d) == O[<<n + 1 - d, n + 1 - d>>]
           good == {d \in Nat : d <= n => stay(at(d))}
<1> HIDE DEF n
<1>4. 0 \in good
  <2>1. n + 1 - 0 \in 1 .. n + 1 /\ n + 1 - 0 > n
    BY <1>1
  <2>2. at(0) = <<>>
    BY <1>3, <2>1
  <2> QED BY <2>2
<1>5. ASSUME NEW d \in Nat, d < n, d \in good PROVE d + 1 \in good
  <2> DEFINE i == n + 1 - (d + 1)
  <2>1. i \in 1 .. n + 1 /\ ~(i > n) /\ i + 1 = n + 1 - d /\ i + 1 \in 1 .. n + 1 /\ i \in Nat \ {0} /\ d <= n /\ i \in 1 .. n
    BY <1>1, <1>5
  <2>2. at(d + 1) = <<Equal(i, i, a[i])>> \o at(d)
    BY <1>3, <2>1
  <2> DEFINE op == Equal(i, i, a[i])
             ops == at(d)
  <2>3. op \in OpsOn(S) /\ ~IsChange(op)
    BY <1>1, <2>1, OpsAreOps DEF Equal, IsChange
  <2>4. ops \in Seq(OpsOn(S)) /\ stay(ops)
    BY <1>3, <1>5, <2>1
  <2>b. at(d + 1) = <<op>> \o ops
    BY <2>2
  <2> HIDE DEF op, ops, at
  <2>5. /\ Len(<<op>> \o ops) = Len(ops) + 1 /\ (<<op>> \o ops)[1] = op /\ Len(ops) \in Nat
        /\ \A k \in 1 .. Len(ops) : (<<op>> \o ops)[k + 1] = ops[k]
    BY <2>3, <2>4, OpsInFront
  <2>6. ASSUME NEW k \in 1 .. Len(ops) + 1 PROVE ~IsChange((<<op>> \o ops)[k])
    <3>1. CASE k = 1
      BY <2>3, <2>5, <3>1
    <3>2. CASE k # 1
      <4>1. k - 1 \in 1 .. Len(ops) /\ (k - 1) + 1 = k
        BY <2>5, <3>2
      <4> QED BY <2>4, <2>5, <4>1
    <3> QED BY <3>1, <3>2
  <2>7. stay(<<op>> \o ops)
    BY <2>5, <2>6
  <2>8. stay(at(d + 1))
    <3> HIDE DEF stay
    <3> QED BY <2>b, <2>7
  <2> QED BY <2>8
<1>6. \A d \in 0 .. n : d \in good
  <2> HIDE DEF good
  <2> QED BY <1>1, <1>4, <1>5, UpTo
<1>7. n \in 0 .. n /\ n <= n /\ n + 1 - n = 1
  BY <1>1
<1>8. stay(O[<<1, 1>>])
  BY <1>6, <1>7
<1> QED BY <1>2, <1>8

\* A hunk is where its header says, with the lines that it stands for.
Stands(h, before, after, i, k, j, l) ==
  /\ 1 <= i /\ i <= k /\ k <= Len(before) + 1 /\ 1 <= j /\ j <= l /\ l <= Len(after) + 1
  /\ h.aStart = i /\ h.aCount = k - i /\ LinesOf(h.ops, "a") = SubSeq(before, i, k - 1)
  /\ h.bStart = j /\ h.bCount = l - j /\ LinesOf(h.ops, "b") = SubSeq(after, j, l - 1)

\* A slice of the operations, bounded by a line that stays, makes such a hunk.
LEMMA HunkStands ==
  ASSUME NEW S, NEW a \in Seq(S), NEW b \in Seq(S), NEW ops \in Seq(OpsOn(S)), NEW p, NEW q,
         Tells(ops, "a", p, a, 1), Tells(ops, "b", q, b, 1),
         NEW lo \in 1 .. Len(ops) + 1, NEW hi \in lo .. Len(ops) + 1,
         lo = 1 \/ \E k \in lo .. hi - 1 : ~IsChange(ops[k])
  PROVE  Stands(Hunk(SubSeq(ops, lo, hi - 1)), a, b, p[lo - 1], p[hi - 1], q[lo - 1], q[hi - 1])
<1> DEFINE slice == SubSeq(ops, lo, hi - 1)
           h == Hunk(slice)
<1>1. /\ lo - 1 \in 0 .. Len(ops) /\ hi - 1 \in 0 .. Len(ops) /\ lo - 1 <= hi - 1
      /\ Len(ops) \in Nat /\ Len(a) \in Nat /\ Len(b) \in Nat
  OBVIOUS
<1>2. /\ LinesOf(slice, "a") = SubSeq(a, p[lo - 1], p[hi - 1] - 1)
      /\ CountOf(slice, "a") = p[hi - 1] - p[lo - 1]
  BY SideOfSlice
<1>3. /\ LinesOf(slice, "b") = SubSeq(b, q[lo - 1], q[hi - 1] - 1)
      /\ CountOf(slice, "b") = q[hi - 1] - q[lo - 1]
  BY SideOfSlice
<1>4. FirstOf(slice, "a") = p[lo - 1]
  BY HeaderOfSlice
<1>5. FirstOf(slice, "b") = q[lo - 1]
  BY HeaderOfSlice
<1>6. p[lo - 1] <= p[hi - 1] /\ q[lo - 1] <= q[hi - 1]
  BY <1>1, WhereGoesUp
<1>7. /\ p[lo - 1] \in 1 .. Len(a) + 1 /\ p[hi - 1] \in 1 .. Len(a) + 1
      /\ q[lo - 1] \in 1 .. Len(b) + 1 /\ q[hi - 1] \in 1 .. Len(b) + 1
  BY <1>1 DEF Tells
<1> HIDE DEF slice
<1>8. /\ h.aStart = FirstOf(slice, "a") /\ h.aCount = CountOf(slice, "a") /\ h.ops = slice
      /\ h.bStart = FirstOf(slice, "b") /\ h.bCount = CountOf(slice, "b")
  BY DEF Hunk
<1> HIDE DEF h
<1> DEFINE i == p[lo - 1]
           k == p[hi - 1]
           j == q[lo - 1]
           l == q[hi - 1]
<1>9. /\ h.aStart = i /\ h.aCount = k - i /\ LinesOf(h.ops, "a") = SubSeq(a, i, k - 1)
      /\ h.bStart = j /\ h.bCount = l - j /\ LinesOf(h.ops, "b") = SubSeq(b, j, l - 1)
  BY <1>2, <1>3, <1>4, <1>5, <1>8
<1>10. i <= k /\ j <= l /\ i \in 1 .. Len(a) + 1 /\ k \in 1 .. Len(a) + 1
  BY <1>6, <1>7
<1>11. j \in 1 .. Len(b) + 1 /\ l \in 1 .. Len(b) + 1
  BY <1>7
<1> HIDE DEF i, k, j, l
<1>12. 1 <= i /\ k <= Len(a) + 1 /\ 1 <= j /\ l <= Len(b) + 1
  BY <1>1, <1>10, <1>11
<1>13. Stands(h, a, b, i, k, j, l)
  BY <1>9, <1>10, <1>12 DEF Stands
<1> QED BY <1>13 DEF h, slice, i, k, j, l

\* The hunks between two texts: each is where its header says, none touches the one before it.
HunksStand(hunks, before, after) ==
  \A n \in DOMAIN hunks :
    /\ hunks[n].aStart + hunks[n].aCount - 1 <= Len(before)
    /\ hunks[n].bStart + hunks[n].bCount - 1 <= Len(after)
    /\ SubSeq(before, hunks[n].aStart, hunks[n].aStart + hunks[n].aCount - 1) = LinesOf(hunks[n].ops, "a")
    /\ SubSeq(after, hunks[n].bStart, hunks[n].bStart + hunks[n].bCount - 1) = LinesOf(hunks[n].ops, "b")
    /\ n > 1 => hunks[n - 1].aStart + hunks[n - 1].aCount < hunks[n].aStart

\* Of any two texts, the hunks of unifiedDiff stand where their headers say and
\* apart from one another, lead from the old text to the new one, and are none
\* exactly when nothing has changed.
THEOREM HunksLead ==
  ASSUME NEW S, NEW a \in Seq(S), NEW b \in Seq(S), NEW context \in Nat \ {0}
  PROVE  /\ HunksStand(UnifiedDiff(a, b, context), a, b)
         /\ Applied(a, UnifiedDiff(a, b, context)) = b
         /\ UnifiedDiff(a, b, context) = <<>> <=> a = b
<1> DEFINE ops == LcsOps(a, b)
           hs == UnifiedDiff(a, b, context)
           L == Len(ops)
           N == Len(hs)
<1>1. ops \in Seq(OpsOn(S)) /\ LeadsOver(ops, a, b, 1, 1, Table(a, b)[<<1, 1>>])
  BY OpsLead
<1>2. PICK p : Tells(ops, "a", p, a, 1)
  BY <1>1 DEF LeadsOver
<1>3. PICK q : Tells(ops, "b", q, b, 1)
  BY <1>1 DEF LeadsOver
<1>4. hs \in Seq(HunksOn(S)) /\ \E first, stop : CutsOut(hs, ops, context, 1, first, stop)
  BY <1>1, HunksAreCut
<1>5. PICK first, stop : CutsOut(hs, ops, context, 1, first, stop)
  BY <1>4
<1> DEFINE t(x) == Spliced(a, b, p[x], q[x])
           lo(n) == StartOf(first[n], context)
           hi(n) == stop[n]
<1> HIDE DEF ops, hs
<1>6. L \in Nat /\ N \in Nat /\ DOMAIN hs = 1 .. N /\ context \in Nat /\ context >= 1 /\ Len(a) \in Nat /\ Len(b) \in Nat
  BY <1>1, <1>4
<1>7. /\ first \in [1 .. N -> 1 .. L] /\ stop \in [0 .. N -> 1 .. L + 1] /\ stop[0] = 1
      /\ \A k \in stop[N] .. L : ~IsChange(ops[k])
  BY <1>5 DEF CutsOut
<1>8. ASSUME NEW n \in 1 .. N
      PROVE  /\ stop[n - 1] <= first[n] /\ first[n] < stop[n]
             /\ IsChange(ops[first[n]])
             /\ first[n] = 1 \/ ~IsChange(ops[first[n] - 1])
             /\ hs[n] = Hunk(SubSeq(ops, lo(n), stop[n] - 1))
             /\ n > 1 => stop[n - 1] < lo(n)
             /\ \A k \in stop[n - 1] .. first[n] - 1 : ~IsChange(ops[k])
  BY <1>5 DEF CutsOut
<1> HIDE DEF L, N
\* The bounds of a hunk.
<1>9. ASSUME NEW n \in 1 .. N
      PROVE  /\ lo(n) \in 1 .. L + 1 /\ hi(n) \in lo(n) .. L + 1 /\ lo(n) <= first[n]
             /\ stop[n - 1] \in 1 .. L + 1 /\ stop[n - 1] <= lo(n)
             /\ lo(n) = 1 \/ \E k \in lo(n) .. hi(n) - 1 : ~IsChange(ops[k])
  <2>1. /\ first[n] \in 1 .. L /\ stop[n] \in 1 .. L + 1 /\ stop[n - 1] \in 1 .. L + 1
        /\ first[n] < stop[n]
    <3>1. n - 1 \in 0 .. N /\ n \in 0 .. N
      BY <1>6
    <3> QED BY <1>7, <1>8, <3>1
  <2> DEFINE x == first[n]
             y == stop[n]
  <2>2. lo(n) = IF x > context THEN x - context ELSE 1
    BY DEF StartOf
  <2> HIDE DEF x, y
  <2>a. x \in 1 .. L /\ y \in 1 .. L + 1 /\ x < y
    BY <2>1 DEF x, y
  <2>b. lo(n) \in 1 .. L + 1 /\ y \in lo(n) .. L + 1 /\ lo(n) <= x
    <3> DEFINE l == lo(n)
    <3> HIDE DEF l
    <3>1. l = IF x > context THEN x - context ELSE 1
      BY <2>2 DEF l
    <3>2. l \in 1 .. L + 1 /\ y \in l .. L + 1 /\ l <= x
      BY <1>6, <2>a, <3>1
    <3> QED BY <3>2 DEF l
  <2>3. stop[n - 1] <= lo(n)
    <3>1. CASE n = 1
      <4>1. n - 1 = 0 /\ stop[n - 1] = 1
        BY <1>7, <3>1
      <4> QED BY <2>b, <4>1
    <3>2. CASE n # 1
      <4>1. n > 1
        BY <1>6, <3>2
      <4>2. stop[n - 1] < lo(n)
        BY <1>8, <4>1
      <4> QED BY <1>6, <2>1, <2>b, <4>2
    <3> QED BY <3>1, <3>2
  <2>4. ASSUME lo(n) # 1 PROVE \E k \in lo(n) .. y - 1 : ~IsChange(ops[k])
    <3>1. x > context /\ lo(n) = x - context
      BY <2>2, <2>4
    <3>2. x # 1 /\ x - 1 \in x - context .. y - 1
      BY <1>6, <2>a, <3>1
    <3>3. ~IsChange(ops[x - 1])
      BY <1>8, <3>2 DEF x
    <3> QED BY <3>1, <3>2, <3>3
  <2> QED BY <2>1, <2>b, <2>3, <2>4 DEF x, y
<1>10. ASSUME NEW n \in 1 .. N
       PROVE  Stands(hs[n], a, b, p[lo(n) - 1], p[hi(n) - 1], q[lo(n) - 1], q[hi(n) - 1])
  <2> DEFINE l == lo(n)
             h == hi(n)
  <2> HIDE DEF l, h
  <2>1. /\ l \in 1 .. Len(ops) + 1 /\ h \in l .. Len(ops) + 1
        /\ l = 1 \/ \E k \in l .. h - 1 : ~IsChange(ops[k])
    BY <1>9 DEF L, l, h
  <2>2. Stands(Hunk(SubSeq(ops, l, h - 1)), a, b, p[l - 1], p[h - 1], q[l - 1], q[h - 1])
    BY <1>1, <1>2, <1>3, <2>1, HunkStands
  <2> QED BY <1>8, <2>2 DEF l, h
<1> HIDE DEF lo, hi
<1>11. ASSUME NEW n \in 1 .. N
       PROVE  /\ lo(n) - 1 \in 0 .. L /\ hi(n) - 1 \in 0 .. L /\ stop[n - 1] - 1 \in 0 .. L
              /\ hi(n) = stop[n] /\ stop[n - 1] - 1 <= lo(n) - 1
              /\ lo(n) \in Nat /\ hi(n) \in Nat /\ stop[n - 1] \in Nat
  <2>1. /\ lo(n) \in 1 .. L + 1 /\ hi(n) \in lo(n) .. L + 1
        /\ stop[n - 1] \in 1 .. L + 1 /\ stop[n - 1] <= lo(n)
    BY <1>9
  <2>2. hi(n) = stop[n]
    BY DEF hi
  <2> DEFINE x == lo(n)
             y == hi(n)
             z == stop[n - 1]
  <2>3. x \in 1 .. L + 1 /\ y \in x .. L + 1 /\ z \in 1 .. L + 1 /\ z <= x
    BY <2>1
  <2> HIDE DEF x, y, z
  <2>4. x \in Nat /\ y \in Nat /\ z \in Nat
    BY <1>6, <2>3
  <2>5. x - 1 \in 0 .. L /\ y - 1 \in 0 .. L /\ z - 1 \in 0 .. L /\ z - 1 <= x - 1
    BY <1>6, <2>3, <2>4
  <2> QED BY <2>2, <2>4, <2>5 DEF x, y, z
\* Where the hunks stand.
<1>12. HunksStand(hs, a, b)
  <2>1. ASSUME NEW n \in 1 .. N
        PROVE  /\ hs[n].aStart + hs[n].aCount - 1 <= Len(a)
               /\ hs[n].bStart + hs[n].bCount - 1 <= Len(b)
               /\ SubSeq(a, hs[n].aStart, hs[n].aStart + hs[n].aCount - 1) = LinesOf(hs[n].ops, "a")
               /\ SubSeq(b, hs[n].bStart, hs[n].bStart + hs[n].bCount - 1) = LinesOf(hs[n].ops, "b")
    <3> DEFINE i == p[lo(n) - 1]
               k == p[hi(n) - 1]
               j == q[lo(n) - 1]
               l == q[hi(n) - 1]
    <3>1. Stands(hs[n], a, b, i, k, j, l)
      BY <1>10
    <3>2. i \in Nat /\ k \in Nat /\ j \in Nat /\ l \in Nat
      <4>1. p \in [0 .. L -> 1 .. Len(a) + 1]
        BY <1>2 DEF Tells, L
      <4>2. q \in [0 .. L -> 1 .. Len(b) + 1]
        BY <1>3 DEF Tells, L
      <4>3. lo(n) - 1 \in 0 .. L /\ hi(n) - 1 \in 0 .. L
        BY <1>11
      <4>4. i \in 1 .. Len(a) + 1 /\ k \in 1 .. Len(a) + 1
        BY <4>1, <4>3
      <4>5. j \in 1 .. Len(b) + 1 /\ l \in 1 .. Len(b) + 1
        BY <4>2, <4>3
      <4> HIDE DEF i, k, j, l
      <4> QED BY <1>6, <4>4, <4>5
    <3> HIDE DEF i, k, j, l
    <3>3. hs[n].aStart + hs[n].aCount - 1 = k - 1 /\ hs[n].bStart + hs[n].bCount - 1 = l - 1
      BY <3>1, <3>2 DEF Stands
    <3>4. k - 1 <= Len(a) /\ l - 1 <= Len(b)
      BY <1>6, <3>1, <3>2 DEF Stands
    <3>5. /\ LinesOf(hs[n].ops, "a") = SubSeq(a, hs[n].aStart, k - 1)
          /\ LinesOf(hs[n].ops, "b") = SubSeq(b, hs[n].bStart, l - 1)
      BY <3>1 DEF Stands
    <3> QED BY <3>3, <3>4, <3>5
  <2>2. ASSUME NEW n \in 1 .. N, n > 1
        PROVE  hs[n - 1].aStart + hs[n - 1].aCount < hs[n].aStart
    <3> DEFINE m == n - 1
               e == stop[m]
    <3>1. m \in 1 .. N /\ m = n - 1
      BY <1>6, <2>2
    <3> HIDE DEF m
    <3>2. hi(m) = e /\ e < lo(n) /\ e <= first[n] - 1
      <4>1. e < lo(n) /\ lo(n) <= first[n] /\ first[n] \in 1 .. L
        BY <1>7, <1>8, <1>9, <2>2, <3>1 DEF lo
      <4>2. hi(m) = e
        BY <3>1 DEF hi
      <4>3. e \in Nat /\ lo(n) \in Nat
        BY <1>11, <3>1
      <4> QED BY <1>6, <4>1, <4>2, <4>3
    <3>3. /\ e \in 1 .. L /\ e - 1 \in 0 .. L /\ lo(n) - 1 \in 0 .. L /\ e <= lo(n) - 1
          /\ e \in stop[n - 1] .. first[n] - 1 /\ e \in 0 .. L
      <4>1. e \in 1 .. L + 1 /\ lo(n) \in 1 .. L + 1 /\ first[n] \in 1 .. L /\ e = stop[n - 1]
        BY <1>7, <1>9, <3>1
      <4> HIDE DEF e
      <4>2. lo(n) \in Nat /\ e \in Nat /\ L \in Nat /\ first[n] \in Nat
        BY <1>6, <4>1
      <4>3. e < lo(n) /\ e <= first[n] - 1 /\ 1 <= e /\ lo(n) <= L + 1 /\ first[n] <= L
        BY <1>6, <3>2, <4>1
      <4> HIDE DEF lo
      <4>4. e \in 1 .. L /\ e - 1 \in 0 .. L /\ lo(n) - 1 \in 0 .. L /\ e <= lo(n) - 1 /\ e \in 0 .. L
        BY <4>2, <4>3
      <4>5. e \in stop[n - 1] .. first[n] - 1
        BY <4>1, <4>2, <4>3
      <4> QED BY <4>4, <4>5
    <3> HIDE DEF e
    <3>4. ~IsChange(ops[e])
      BY <1>8, <3>3
    <3>5. p[e] = p[e - 1] + 1
      <4>1. ops[e] \in OpsOn(S)
        BY <1>1, <3>3 DEF L
      <4>2. ops[e]["a"] # 0
        BY <3>4, <4>1 DEF OpsOn
      <4> QED BY <1>2, <3>3, <4>2 DEF Tells, L
    <3>6. p[e] <= p[lo(n) - 1]
      BY <1>1, <1>2, <3>3, WhereGoesUp DEF L
    <3>7. hs[n].aStart = p[lo(n) - 1]
      BY <1>10 DEF Stands
    <3>8. hs[m].aStart + hs[m].aCount = p[e - 1]
      <4> DEFINE i == p[lo(m) - 1]
                 k == p[hi(m) - 1]
      <4>1. hs[m].aStart = i /\ hs[m].aCount = k - i
        BY <1>10, <3>1 DEF Stands
      <4>2. i \in Nat /\ k \in Nat
        <5>1. p \in [0 .. L -> 1 .. Len(a) + 1]
          BY <1>2 DEF Tells, L
        <5> QED BY <1>6, <1>11, <3>1, <5>1
      <4>3. k = p[e - 1]
        BY <3>2
      <4> HIDE DEF i, k
      <4> QED BY <4>1, <4>2, <4>3
    <3>9. p[e] \in Nat /\ p[e - 1] \in Nat /\ p[lo(n) - 1] \in Nat
      <4>1. p \in [0 .. L -> 1 .. Len(a) + 1]
        BY <1>2 DEF Tells, L
      <4> QED BY <1>6, <3>3, <4>1
    <3> QED BY <3>1, <3>5, <3>6, <3>7, <3>8, <3>9
  <2> QED BY <1>6, <2>1, <2>2 DEF HunksStand
\* The hunks applied, last one first.
<1>13. PICK rest : /\ rest[0] = a
                   /\ \A k \in Nat : k < Len(hs) =>
                        rest[k + 1] = Replace(rest[k], hs[Len(hs) - k].aStart, hs[Len(hs) - k].aCount,
                                              LinesOf(hs[Len(hs) - k].ops, "b"))
                   /\ Applied(a, hs) = rest[Len(hs)]
  BY <1>4, HunksOneByOne
<1>14. ASSUME NEW k \in 0 .. L, NEW l \in 0 .. L, k <= l, \A x \in k + 1 .. l : ~IsChange(ops[x])
       PROVE  t(l) = t(k)
  BY <1>1, <1>2, <1>3, <1>14, KeptLinesSlide DEF L
<1>15. t(L) = a /\ t(0) = b
  <2>1. p[L] = Len(a) + 1 /\ q[L] = Len(b) + 1 /\ p[0] = 1 /\ q[0] = 1
    BY <1>2, <1>3 DEF Tells, L
  <2>2. Spliced(a, b, Len(a) + 1, Len(b) + 1) = a
    <3> DEFINE i == Len(a) + 1
               j == Len(b) + 1
               s == Spliced(a, b, i, j)
    <3>1. i \in 1 .. Len(a) + 1 /\ j \in 1 .. Len(b) + 1 /\ (i - 1) + (Len(b) + 1 - j) = Len(a)
      BY <1>6
    <3>2. \A x \in 1 .. Len(a) : x < i
      BY <1>6
    <3> HIDE DEF i, j
    <3>3. /\ s \in Seq(S) /\ Len(s) = (i - 1) + (Len(b) + 1 - j)
          /\ \A x \in 1 .. (i - 1) + (Len(b) + 1 - j) : s[x] = IF x < i THEN a[x] ELSE b[(x - i) + j]
      <4>1. IsSplice(s, S, a, b, i, j)
        BY <3>1, SpliceOf
      <4> HIDE DEF s
      <4> QED BY <4>1 DEF IsSplice
    <3> HIDE DEF s
    <3>4. s = a
      BY <3>1, <3>2, <3>3, SameLists
    <3> QED BY <3>4 DEF s, i, j
  <2>3. Spliced(a, b, 1, 1) = b
    <3> DEFINE i == 1
               j == 1
               n == (i - 1) + (Len(b) + 1 - j)
               s == Spliced(a, b, i, j)
    <3>1. i \in 1 .. Len(a) + 1 /\ j \in 1 .. Len(b) + 1
      BY <1>6
    <3>2. n = Len(b) /\ \A x \in 1 .. Len(b) : ~(x < i) /\ (x - i) + j = x
      BY <1>6
    <3> HIDE DEF i, j
    <3>3. /\ s \in Seq(S) /\ Len(s) = n
          /\ \A x \in 1 .. n : s[x] = IF x < i THEN a[x] ELSE b[(x - i) + j]
      <4>1. IsSplice(s, S, a, b, i, j)
        BY <3>1, SpliceOf
      <4> HIDE DEF s
      <4> QED BY <4>1 DEF IsSplice
    <3> HIDE DEF s, n
    <3>4. s = b
      BY <3>2, <3>3, SameLists
    <3> QED BY <3>4 DEF s, i, j
  <2> QED BY <2>1, <2>2, <2>3
<1> DEFINE good == {k \in Nat : k <= N => rest[k] = t(stop[N - k] - 1)}
<1> HIDE DEF t
<1>16. 0 \in good
  <2> DEFINE e == stop[N]
  <2>1. e \in 1 .. L + 1
    BY <1>6, <1>7
  <2>2. \A x \in e .. L : ~IsChange(ops[x])
    BY <1>7
  <2> HIDE DEF e
  <2>3. e - 1 \in 0 .. L /\ L \in 0 .. L /\ e - 1 <= L /\ (e - 1) + 1 = e
    BY <1>6, <2>1
  <2>4. t(L) = t(e - 1)
    BY <1>14, <2>2, <2>3
  <2>5. N - 0 = N
    BY <1>6
  <2> QED BY <1>13, <1>15, <2>4, <2>5 DEF e
<1>17. ASSUME NEW k \in Nat, k < N, k \in good PROVE k + 1 \in good
  <2> DEFINE n == N - k
  <2>1. n \in 1 .. N /\ N - (k + 1) = n - 1 /\ k <= N
    BY <1>6, <1>17
  <2>2. rest[k] = t(hi(n) - 1)
    BY <1>11, <1>17, <2>1
  <2>3. rest[k + 1] = Replace(rest[k], hs[n].aStart, hs[n].aCount, LinesOf(hs[n].ops, "b"))
    BY <1>13, <1>17 DEF N
  <2> HIDE DEF n
  <2>4. rest[k + 1] = t(lo(n) - 1)
    <3> DEFINE i == p[lo(n) - 1]
               j == p[hi(n) - 1]
               l == q[lo(n) - 1]
               m == q[hi(n) - 1]
    <3>1. Stands(hs[n], a, b, i, j, l, m)
      BY <1>10, <2>1
    <3>2. i \in Nat /\ j \in Nat /\ l \in Nat /\ m \in Nat
      <4>1. p \in [0 .. L -> 1 .. Len(a) + 1]
        BY <1>2 DEF Tells, L
      <4>2. q \in [0 .. L -> 1 .. Len(b) + 1]
        BY <1>3 DEF Tells, L
      <4>3. lo(n) - 1 \in 0 .. L /\ hi(n) - 1 \in 0 .. L
        BY <1>11, <2>1
      <4>4. i \in 1 .. Len(a) + 1 /\ j \in 1 .. Len(a) + 1
        BY <4>1, <4>3
      <4>5. l \in 1 .. Len(b) + 1 /\ m \in 1 .. Len(b) + 1
        BY <4>2, <4>3
      <4> QED BY <1>6, <4>4, <4>5
    <3>3. t(hi(n) - 1) = Spliced(a, b, j, m) /\ t(lo(n) - 1) = Spliced(a, b, i, l)
      BY DEF t
    <3> HIDE DEF i, j, l, m
    <3>4. /\ hs[n].aStart = i /\ hs[n].aCount = j - i /\ LinesOf(hs[n].ops, "b") = SubSeq(b, l, m - 1)
          /\ 1 <= i /\ i <= j /\ j <= Len(a) + 1 /\ 1 <= l /\ l <= m /\ m <= Len(b) + 1
      BY <3>1 DEF Stands
    <3>5. j \in 1 .. Len(a) + 1 /\ m \in 1 .. Len(b) + 1 /\ i \in 1 .. j /\ l \in 1 .. m
      BY <1>6, <3>2, <3>4
    <3>6. Replace(Spliced(a, b, j, m), i, j - i, SubSeq(b, l, m - 1)) = Spliced(a, b, i, l)
      BY <3>5, SpliceReplaced
    <3> QED BY <2>2, <2>3, <3>3, <3>4, <3>6
  <2>5. t(lo(n) - 1) = t(stop[n - 1] - 1)
    <3> DEFINE x == stop[n - 1] - 1
               y == lo(n) - 1
    <3>1. x \in 0 .. L /\ y \in 0 .. L /\ x <= y
      BY <1>11, <2>1
    <3>2. \A z \in x + 1 .. y : z \in stop[n - 1] .. first[n] - 1
      <4>1. lo(n) <= first[n] /\ first[n] \in 1 .. L
        BY <1>7, <1>9, <2>1
      <4>2. stop[n - 1] \in Nat /\ lo(n) \in Nat
        BY <1>11, <2>1
      <4> QED BY <1>6, <4>1, <4>2
    <3> HIDE DEF x, y
    <3>3. \A z \in x + 1 .. y : ~IsChange(ops[z])
      BY <1>8, <2>1, <3>2
    <3>4. t(y) = t(x)
      BY <1>14, <3>1, <3>3
    <3> QED BY <3>4 DEF x, y
  <2> QED BY <2>1, <2>4, <2>5
<1>18. Applied(a, hs) = b
  <2>1. \A k \in 0 .. N : k \in good
    <3> HIDE DEF good
    <3> QED BY <1>6, <1>16, <1>17, UpTo
  <2>2. N \in 0 .. N /\ N <= N /\ N - N = 0
    BY <1>6
  <2>3. rest[N] = t(stop[0] - 1)
    BY <2>1, <2>2
  <2>4. stop[0] - 1 = 0
    BY <1>7
  <2> QED BY <1>13, <1>15, <2>3, <2>4 DEF N
\* No hunk exactly when nothing changed.
<1>19. hs = <<>> <=> a = b
  <2>1. ASSUME hs = <<>> PROVE a = b
    <3>1. Len(hs) = 0
      BY <2>1
    <3>2. Applied(a, hs) = a
      BY <1>13, <3>1
    <3> QED BY <1>18, <3>2
  <2>2. ASSUME a = b PROVE hs = <<>>
    <3>1. \A k \in 1 .. L : ~IsChange(ops[k])
      BY <2>2, EqualTextsStay DEF L, ops
    <3>2. N = 0
      <4> SUFFICES ASSUME N # 0 PROVE FALSE
        OBVIOUS
      <4>1. 1 \in 1 .. N
        BY <1>6
      <4>2. first[1] \in 1 .. L /\ IsChange(ops[first[1]])
        BY <1>7, <1>8, <4>1
      <4> QED BY <3>1, <4>2
    <3> QED BY <1>4, <3>2 DEF N
  <2> QED BY <2>1, <2>2
<1> QED BY <1>12, <1>18, <1>19 DEF hs

-----------------------------------------------------------------------------
(* The lines that stay.                                                    *)

\* Places of a text, in order.
Ascends(at, m, text) ==
  /\ at \in [1 .. m -> 1 .. Len(text)]
  /\ \A x \in 1 .. m, y \in 1 .. m : x < y => at[x] < at[y]

\* No common subsequence is longer than the table says.
LEMMA CommonIsShort ==
  ASSUME NEW S, NEW a \in Seq(S), NEW b \in Seq(S), NEW c \in Nat, NEW f, NEW g,
         Ascends(f, c, a), Ascends(g, c, b), \A x \in 1 .. c : a[f[x]] = b[g[x]]
  PROVE  c <= Table(a, b)[<<1, 1>>]
<1> DEFINE m == Len(a)
           n == Len(b)
           T == Table(a, b)
           D == Places(a, b)
           mu == Left(a, b)
<1>1. m \in Nat /\ n \in Nat
  OBVIOUS
<1>2. ASSUME NEW i \in 1 .. m + 1, NEW j \in 1 .. n + 1
      PROVE  /\ T[<<i, j>>] \in Nat
             /\ T[<<i, j>>] =
                  IF i > m \/ j > n THEN 0
                  ELSE IF a[i] = b[j] THEN 1 + T[<<i + 1, j + 1>>]
                  ELSE Larger(T[<<i + 1, j>>], T[<<i, j + 1>>])
  <2> HIDE DEF T, m, n
  <2>1. TableAt(a, b, i, j)
    BY TableGoesBack DEF m, n
  <2> QED BY <2>1 DEF TableAt, T, m, n
<1>3. /\ mu \in [D -> Nat]
      /\ \A i \in 1 .. m + 1, j \in 1 .. n + 1 :
           /\ <<i, j>> \in D
           /\ i <= m => <<i + 1, j>> \in D /\ mu[<<i + 1, j>>] < mu[<<i, j>>]
           /\ j <= n => <<i, j + 1>> \in D /\ mu[<<i, j + 1>>] < mu[<<i, j>>]
           /\ i <= m /\ j <= n => <<i + 1, j + 1>> \in D /\ mu[<<i + 1, j + 1>>] < mu[<<i, j>>]
  <2> HIDE DEF m, n, D, mu
  <2>2. mu \in [D -> Nat]
    BY LeftGoesDown DEF m, n, D, mu
  <2>3. ASSUME NEW i \in 1 .. m + 1, NEW j \in 1 .. n + 1
        PROVE  /\ <<i, j>> \in D
               /\ i <= m => <<i + 1, j>> \in D /\ mu[<<i + 1, j>>] < mu[<<i, j>>]
               /\ j <= n => <<i, j + 1>> \in D /\ mu[<<i, j + 1>>] < mu[<<i, j>>]
               /\ i <= m /\ j <= n => <<i + 1, j + 1>> \in D /\ mu[<<i + 1, j + 1>>] < mu[<<i, j>>]
    BY LeftGoesDown DEF m, n, D, mu
  <2> QED BY <2>2, <2>3
<1>4. \A p \in D : p = <<p[1], p[2]>> /\ p[1] \in 1 .. m + 1 /\ p[2] \in 1 .. n + 1
  BY DEF Places
<1>5. ASSUME NEW x \in 1 .. c PROVE f[x] \in 1 .. m /\ g[x] \in 1 .. n
  BY DEF Ascends
<1>6. ASSUME NEW x \in 1 .. c, x + 1 \in 1 .. c PROVE f[x] < f[x + 1] /\ g[x] < g[x + 1]
  BY <1>6 DEF Ascends
\* The rest of the common lines, from the x-th on, is behind i and j.
<1> DEFINE behind(x, i, j) == x = c + 1 \/ (f[x] >= i /\ g[x] >= j)
           done(i, j) == \A x \in 1 .. c + 1 : behind(x, i, j) => (c + 1) - x <= T[<<i, j>>]
           good == {p \in D : done(p[1], p[2])}
<1> HIDE DEF m, n, D, mu, T
<1>7. ASSUME NEW i \in 1 .. m + 1, NEW j \in 1 .. n + 1,
             \A d \in D : mu[d] < mu[<<i, j>>] => done(d[1], d[2])
      PROVE  done(i, j)
  <2> SUFFICES ASSUME NEW x \in 1 .. c + 1, behind(x, i, j) PROVE (c + 1) - x <= T[<<i, j>>]
    OBVIOUS
  <2>0. T[<<i, j>>] \in Nat
    BY <1>2
  <2>1. T[<<i, j>>] \in Nat /\ x \in Nat
    <3> HIDE DEF behind
    <3> QED BY <2>0
  <2>2. CASE x = c + 1
    BY <2>1, <2>2
  <2>3. CASE x # c + 1
    <3>1. x \in 1 .. c /\ f[x] >= i /\ g[x] >= j /\ f[x] \in 1 .. m /\ g[x] \in 1 .. n
      <4>1. x \in 1 .. c
        BY <2>3
      <4> QED BY <1>5, <2>3, <4>1
    <3>2. i <= m /\ j <= n /\ i + 1 \in 1 .. m + 1 /\ j + 1 \in 1 .. n + 1
      BY <1>1, <3>1
    <3>3. /\ T[<<i + 1, j>>] \in Nat /\ T[<<i, j + 1>>] \in Nat /\ T[<<i + 1, j + 1>>] \in Nat
      BY <1>2, <3>2
    <3>4. done(i + 1, j) /\ done(i, j + 1) /\ done(i + 1, j + 1)
      <4> HIDE DEF done
      <4>1. <<i + 1, j>> \in D /\ mu[<<i + 1, j>>] < mu[<<i, j>>]
        BY <1>3, <3>2
      <4>2. <<i, j + 1>> \in D /\ mu[<<i, j + 1>>] < mu[<<i, j>>]
        BY <1>3, <3>2
      <4>3. <<i + 1, j + 1>> \in D /\ mu[<<i + 1, j + 1>>] < mu[<<i, j>>]
        BY <1>3, <3>2
      <4> QED BY <1>7, <4>1, <4>2, <4>3
    <3>5. CASE a[i] = b[j]
      <4>1. T[<<i, j>>] = 1 + T[<<i + 1, j + 1>>]
        <5>1. ~(i > m \/ j > n)
          BY <1>1, <3>2
        <5> QED BY <1>2, <3>5, <5>1
      <4>2. x + 1 \in 1 .. c + 1
        BY <3>1
      <4>3. behind(x + 1, i + 1, j + 1)
        <5>1. CASE x + 1 = c + 1
          BY <5>1
        <5>2. CASE x + 1 # c + 1
          <6>1. x + 1 \in 1 .. c
            BY <4>2, <5>2
          <6>2. f[x + 1] > f[x] /\ g[x + 1] > g[x] /\ f[x + 1] \in Nat /\ g[x + 1] \in Nat
            BY <1>5, <1>6, <3>1, <6>1
          <6>3. f[x + 1] >= i + 1 /\ g[x + 1] >= j + 1
            BY <3>1, <6>2
          <6> QED BY <6>3
        <5> QED BY <5>1, <5>2
      <4> HIDE DEF behind
      <4>4. (c + 1) - (x + 1) <= T[<<i + 1, j + 1>>]
        BY <3>4, <4>2, <4>3
      <4> QED BY <2>1, <3>3, <4>1, <4>4
    <3>6. CASE a[i] # b[j]
      <4>1. T[<<i, j>>] = Larger(T[<<i + 1, j>>], T[<<i, j + 1>>])
        <5>1. ~(i > m \/ j > n)
          BY <1>1, <3>2
        <5> QED BY <1>2, <3>6, <5>1
      <4>2. T[<<i + 1, j>>] <= T[<<i, j>>] /\ T[<<i, j + 1>>] <= T[<<i, j>>]
        BY <3>3, <4>1 DEF Larger
      <4>3. f[x] # i \/ g[x] # j
        BY <3>1, <3>6
      <4>4. behind(x, i + 1, j) \/ behind(x, i, j + 1)
        BY <3>1, <4>3
      <4> HIDE DEF behind
      <4>5. (c + 1) - x <= T[<<i + 1, j>>] \/ (c + 1) - x <= T[<<i, j + 1>>]
        BY <3>4, <4>4
      <4> QED BY <2>1, <3>3, <4>2, <4>5
    <3> QED BY <3>5, <3>6
  <2> QED BY <2>2, <2>3
<1> HIDE DEF done
<1>8. ASSUME NEW p \in D, \A d \in D : mu[d] < mu[p] => d \in good PROVE p \in good
  <2>1. \A d \in D : mu[d] < mu[<<p[1], p[2]>>] => done(d[1], d[2])
    BY <1>4, <1>8
  <2> QED BY <1>4, <1>7, <2>1
<1>9. \A p \in D : p \in good
  <2> HIDE DEF good
  <2> QED BY <1>3, <1>8, ByMeasure
<1>10. 1 \in 1 .. m + 1 /\ 1 \in 1 .. n + 1
  BY <1>1
<1>11. done(1, 1)
  <2>1. <<1, 1>> \in D /\ <<1, 1>>[1] = 1 /\ <<1, 1>>[2] = 1
    BY <1>3, <1>10
  <2> QED BY <1>9, <2>1
<1>12. 1 \in 1 .. c + 1 /\ behind(1, 1, 1)
  <2>1. CASE c = 0
    BY <2>1
  <2>2. CASE c # 0
    <3>1. 1 \in 1 .. c
      BY <2>2
    <3> QED BY <1>1, <1>5, <3>1
  <2> QED BY <2>1, <2>2
<1>13. (c + 1) - 1 <= T[<<1, 1>>]
  <2> HIDE DEF behind
  <2> QED BY <1>11, <1>12 DEF done
<1>14. (c + 1) - 1 = c
  OBVIOUS
<1> QED BY <1>13, <1>14 DEF T

-----------------------------------------------------------------------------
\* Of any two texts, the lines lcsOps leaves as they are form a longest common
\* subsequence: no two filters of the texts that leave the same lines leave more.
THEOREM KeptIsLongest ==
  ASSUME NEW S, NEW a \in Seq(S), NEW b \in Seq(S),
         NEW s \in Subsequences(a) \cap Subsequences(b)
  PROVE  Len(s) <= Cardinality({k \in DOMAIN LcsOps(a, b) : ~IsChange(LcsOps(a, b)[k])})
<1> DEFINE ops == LcsOps(a, b)
           n == Len(ops)
           kept == {k \in 1 .. n : ~IsChange(ops[k])}
<1>1. ops \in Seq(OpsOn(S)) /\ LeadsOver(ops, a, b, 1, 1, Table(a, b)[<<1, 1>>])
  BY OpsLead
<1>2. n \in Nat /\ DOMAIN ops = 1 .. n
  BY <1>1
<1> HIDE DEF ops, n
<1>3. PICK count : Keeps(ops, count) /\ count[0] = Table(a, b)[<<1, 1>>]
  BY <1>1 DEF LeadsOver
<1>4. /\ count \in [0 .. n -> Nat] /\ count[n] = 0
      /\ \A k \in 1 .. n : count[k - 1] = count[k] + (IF IsChange(ops[k]) THEN 0 ELSE 1)
  BY <1>3 DEF Keeps, n
<1>5. Cardinality(kept) = count[0]
  <2> DEFINE c == [k \in 0 .. n |-> count[0] - count[k]]
  <2>1. 0 \in 0 .. n /\ n \in 0 .. n /\ \A k \in 1 .. n : k - 1 \in 0 .. n /\ k \in 0 .. n
    BY <1>2
  <2>2. count[0] \in Nat /\ \A k \in 0 .. n : count[k] \in Nat
    BY <1>4, <2>1
  <2>3. c \in [0 .. n -> Int]
    BY <2>2
  <2>4. ASSUME NEW k \in 1 .. n
        PROVE  c[k] = c[k - 1] + (IF k \in kept THEN 1 ELSE 0)
    <3>1. c[k] = count[0] - count[k] /\ c[k - 1] = count[0] - count[k - 1]
      BY <2>1
    <3>2. count[k] \in Nat /\ count[k - 1] \in Nat
      BY <2>1, <2>2
    <3>3. count[k - 1] = count[k] + (IF IsChange(ops[k]) THEN 0 ELSE 1)
      BY <1>4
    <3>4. k \in kept <=> ~IsChange(ops[k])
      OBVIOUS
    <3> HIDE DEF c, kept
    <3>5. CASE k \in kept
      BY <2>2, <3>1, <3>2, <3>3, <3>4, <3>5
    <3>6. CASE k \notin kept
      BY <2>2, <3>1, <3>2, <3>3, <3>4, <3>6
    <3> QED BY <3>5, <3>6
  <2>5. c[n] = count[0] /\ c[0] = 0
    BY <1>4, <2>1, <2>2
  <2>6. kept \in SUBSET (1 .. n)
    OBVIOUS
  <2> HIDE DEF c, kept
  <2>7. Cardinality(kept) = c[n] - c[0]
    BY <1>2, <2>3, <2>4, <2>6, CountedUp
  <2> QED BY <2>2, <2>5, <2>7
<1>6. PICK K \in SUBSET DOMAIN a : s = Picked(a, K)
  BY DEF Subsequences
<1>7. PICK J \in SUBSET DOMAIN b : s = Picked(b, J)
  BY DEF Subsequences
<1>8. s \in Seq(S) /\ InPlaces(s, a, K, Len(a)) /\ InPlaces(s, b, J, Len(b))
  BY <1>6, <1>7, PickedInOrder
<1>9. Len(s) \in Nat /\ DOMAIN s = 1 .. Len(s)
  BY <1>8
<1>10. PICK f \in [DOMAIN s -> K \cap (1 .. Len(a))] :
         /\ \A x \in DOMAIN s : s[x] = a[f[x]]
         /\ \A x, y \in DOMAIN s : x < y => f[x] < f[y]
  BY <1>8 DEF InPlaces
<1>11. PICK g \in [DOMAIN s -> J \cap (1 .. Len(b))] :
         /\ \A x \in DOMAIN s : s[x] = b[g[x]]
         /\ \A x, y \in DOMAIN s : x < y => g[x] < g[y]
  BY <1>8 DEF InPlaces
<1>12. Ascends(f, Len(s), a) /\ Ascends(g, Len(s), b)
  BY <1>9, <1>10, <1>11 DEF Ascends
<1>13. \A x \in 1 .. Len(s) : a[f[x]] = b[g[x]]
  BY <1>9, <1>10, <1>11
<1>14. Len(s) <= Table(a, b)[<<1, 1>>]
  <2> DEFINE c == Len(s)
  <2>1. c \in Nat /\ Ascends(f, c, a) /\ Ascends(g, c, b) /\ \A x \in 1 .. c : a[f[x]] = b[g[x]]
    BY <1>9, <1>12, <1>13
  <2> HIDE DEF c
  <2>2. c <= Table(a, b)[<<1, 1>>]
    BY <2>1, CommonIsShort
  <2> QED BY <2>2 DEF c
<1>15. kept = {k \in DOMAIN ops : ~IsChange(ops[k])}
  BY <1>2
<1> HIDE DEF kept
<1>16. Len(s) <= Cardinality(kept)
  BY <1>3, <1>5, <1>14
<1> QED BY <1>15, <1>16 DEF ops

-----------------------------------------------------------------------------
(* Every pair of texts of the runs is compared once.                       *)

LinesInv ==
  /\ given.kind = "lines" =>
       given.before \in Lists({"p", "q"}, MaxText) /\ given.after \in Lists({"p", "q"}, MaxText)
  /\ IsLines => /\ given.kind = "lines"
                /\ got.ops = LcsOps(given.before, given.after)
                /\ got.hunks = UnifiedDiff(given.before, given.after, Context)

\* What is compared and what came of it, in every state.
LEMMA LinesStay == Spec => []LinesInv
<1>1. Init => LinesInv
  BY DEF Init, LinesInv, IsLines, Nothing
<1>2. LinesInv /\ [Next]_vars => LinesInv'
  <2> SUFFICES ASSUME LinesInv, [Next]_vars PROVE LinesInv'
    OBVIOUS
  <2>1. CASE Merge \/ Read
    BY <2>1 DEF Merge, Read, LinesInv, IsLines
  <2>2. CASE Compare
    BY <2>2 DEF Compare, LinesInv, IsLines
  <2>3. CASE UNCHANGED vars
    BY <2>3 DEF vars, LinesInv, IsLines
  <2> QED BY <2>1, <2>2, <2>3 DEF Next
<1> QED BY <1>1, <1>2, PTL DEF Spec

\* Whatever two texts are compared: the recorded hunks stand where their headers
\* say, neither overlap nor touch, turn the old text into the new one, are none
\* only for equal texts, and show no line as changed that could have stayed
\* (lcsOps, unifiedDiff).
THEOREM DiffsLead == Spec => []DiffLeadsToTheNewText
<1>1. ASSUME LinesInv, IsLines PROVE DiffLeadsToTheNewText
  <2> DEFINE a == given.before
             b == given.after
             S == {"p", "q"}
             ops == LcsOps(a, b)
             hs == UnifiedDiff(a, b, Context)
  <2>1. got.ops = ops /\ got.hunks = hs
    BY <1>1 DEF LinesInv
  <2>2. ASSUME NEW text \in Lists(S, MaxText) PROVE text \in Seq(S)
    <3>1. PICK k \in 0 .. MaxText : text \in [1 .. k -> S]
      BY DEF Lists
    <3>2. k \in Nat
      BY <3>1, FunctionsAssumption
    <3> QED BY <3>1, <3>2
  <2>3. a \in Seq(S) /\ b \in Seq(S)
    BY <1>1, <2>2 DEF LinesInv
  <2>4. Context \in Nat \ {0}
    BY FunctionsAssumption
  <2> HIDE DEF a, b, S
  <2>5. HunksStand(hs, a, b) /\ Applied(a, hs) = b /\ (hs = <<>> <=> a = b)
    BY <2>3, <2>4, HunksLead
  <2>6. \A s \in Subsequences(a) \cap Subsequences(b) :
          Len(s) <= Cardinality({k \in DOMAIN ops : ~IsChange(ops[k])})
    BY <2>3, KeptIsLongest
  <2> HIDE DEF ops, hs
  <2> QED BY <2>1, <2>5, <2>6 DEF DiffLeadsToTheNewText, HunksStand, a, b
<1>2. LinesInv => DiffLeadsToTheNewText
  BY <1>1 DEF DiffLeadsToTheNewText
<1> QED BY <1>2, LinesStay, PTL
=============================================================================
