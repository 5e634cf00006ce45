-------------------------- MODULE NexusBenchProofs --------------------------
(***************************************************************************)
(* NexusBench.tla for any workers, samples, prompts, thresholds and        *)
(* limits.  The first part is about data: sets, the folds and the sums of  *)
(* the library.  The load test, the cache and the records of the corpus    *)
(* follow, each with its part of the invariant, then the bench.            *)
(***************************************************************************)
EXTENDS NexusBench, FiniteSetTheorems, SequenceTheorems, TLAPS

(* Sets that gain or lose one element, or nothing. *)
LEMMA Gains ==
    ASSUME NEW S, NEW x, IsFiniteSet(S), x \notin S
    PROVE  /\ IsFiniteSet(S \cup {x})
           /\ Cardinality(S) \in Nat
           /\ Cardinality(S \cup {x}) = Cardinality(S) + 1
    BY FS_AddElement, FS_CardinalityType

LEMMA Loses ==
    ASSUME NEW S, NEW x, IsFiniteSet(S), x \in S
    PROVE  /\ IsFiniteSet(S \ {x})
           /\ Cardinality(S) \in Nat
           /\ Cardinality(S \ {x}) \in Nat
           /\ Cardinality(S \ {x}) = Cardinality(S) - 1
    BY FS_RemoveElement, FS_CardinalityType

----------------------------------------------------------------------------
(***************************************************************************)
(* Induction and folds.  The folds of the library are recursive functions  *)
(* on the subsets of a sequence's domain; FoldExists shows that there is   *)
(* one, from which each fold of the model gets its steps.                  *)
(***************************************************************************)

LEMMA NatSetInduction ==
    ASSUME NEW S, 0 \in S, \A n \in Nat : n \in S => n + 1 \in S
    PROVE  \A n \in Nat : n \in S
<1>. DEFINE T == Nat \ S
            R == OpToRel(<, Nat)
<1>1. SUFFICES ASSUME T # {} PROVE FALSE
  OBVIOUS
<1>2. R = {ss \in Nat \X Nat : ss[1] < ss[2]}
  BY DEF OpToRel
<1>3. IsWellFoundedOn(R, Nat)
  BY NatLessThanWellFounded, Zenon
<1>4. T \subseteq Nat
  OBVIOUS
<1>. HIDE DEF R
<1>5. PICK x \in T : \A y \in T : ~ (<<y, x>> \in R)
  <2>. HIDE DEF T
  <2>. QED BY <1>1, <1>3, <1>4, WFMin, Zenon
<1>6. x # 0 /\ x - 1 \in Nat
  OBVIOUS
<1>7. x - 1 \notin T
  <2>1. SUFFICES ASSUME x - 1 \in T PROVE FALSE
    OBVIOUS
  <2>2. <<x - 1, x>> \in R
    BY <1>2, <1>6
  <2>. QED BY <1>5, <2>1, <2>2
<1>. QED BY <1>6, <1>7

LEMMA UpTo ==
    ASSUME NEW n \in Nat, NEW S, 0 \in S, \A k \in 1..n : k - 1 \in S => k \in S
    PROVE  \A k \in 0..n : k \in S
<1>. DEFINE T == {k \in Nat : k <= n => k \in S}
<1>1. 0 \in T
  OBVIOUS
<1>2. ASSUME NEW k \in Nat, k \in T PROVE k + 1 \in T
  <2>1. SUFFICES ASSUME k + 1 <= n PROVE k + 1 \in S
    OBVIOUS
  <2>2. k + 1 \in 1..n /\ (k + 1) - 1 = k /\ k \in S
    BY <1>2, <2>1
  <2>. QED BY <2>2
<1>3. \A k \in Nat : k \in T
  <2>. HIDE DEF T
  <2>. QED BY <1>1, <1>2, NatSetInduction
<1>. QED BY <1>3

LEMMA MaxOf ==
    ASSUME NEW n \in Nat, NEW s \in SUBSET (1..n), s # {}
    PROVE  Max(s) \in s /\ \A y \in s : y <= Max(s)
<1>. DEFINE S == {k \in Nat : \A u \in SUBSET (1..k) : u # {} => \E x \in u : \A y \in u : x >= y}
<1>1. 0 \in S
  <2>1. \A u \in SUBSET (1..0) : u = {}
    OBVIOUS
  <2>. QED BY <2>1
<1>2. ASSUME NEW k \in Nat, k \in S PROVE k + 1 \in S
  <2>1. SUFFICES ASSUME NEW u \in SUBSET (1..(k + 1)), u # {} PROVE \E x \in u : \A y \in u : x >= y
    OBVIOUS
  <2>2. CASE k + 1 \in u
    BY <2>2
  <2>3. CASE k + 1 \notin u
    <3>1. u \in SUBSET (1..k)
      BY <2>3
    <3>. QED BY <1>2, <2>1, <3>1
  <2>. QED BY <2>2, <2>3
<1>3. n \in S
  <2>. HIDE DEF S
  <2>. QED BY <1>1, <1>2, NatSetInduction
<1>4. \E x \in s : \A y \in s : x >= y
  BY <1>3
<1>5. Max(s) \in s /\ \A y \in s : Max(s) >= y
  BY <1>4, Zenon DEF Max
<1>. QED BY <1>5

Folding(V, base, n, step, k) ==
    \E g \in [SUBSET (1..k) -> V] :
        \A s \in SUBSET (1..k) :
            g[s] = IF s = {} THEN base ELSE step[<<g[s \ {Max(s)}], Max(s)>>]

LEMMA FoldExists ==
    ASSUME NEW V, NEW base \in V, NEW n \in Nat, NEW step \in [V \X (1..n) -> V]
    PROVE  Folding(V, base, n, step, n)
<1>. DEFINE S == {k \in Nat : k <= n => Folding(V, base, n, step, k)}
<1>1. 0 \in S
  <2>1. SUBSET (1..0) = {{}}
    OBVIOUS
  <2>2. [s \in SUBSET (1..0) |-> base] \in [SUBSET (1..0) -> V]
    OBVIOUS
  <2>3. \A s \in SUBSET (1..0) : [t \in SUBSET (1..0) |-> base][s] = base /\ s = {}
    BY <2>1
  <2>4. Folding(V, base, n, step, 0)
    BY <2>2, <2>3 DEF Folding
  <2>. QED BY <2>4
<1>2. ASSUME NEW k \in Nat, k \in S PROVE k + 1 \in S
  <2>1. SUFFICES ASSUME k + 1 <= n PROVE Folding(V, base, n, step, k + 1)
    OBVIOUS
  <2>2. PICK g \in [SUBSET (1..k) -> V] :
           \A s \in SUBSET (1..k) :
               g[s] = IF s = {} THEN base ELSE step[<<g[s \ {Max(s)}], Max(s)>>]
    <3>1. Folding(V, base, n, step, k)
      BY <1>2, <2>1
    <3>. QED BY <3>1 DEF Folding
  <2>. DEFINE h == [s \in SUBSET (1..(k + 1)) |->
                      IF k + 1 \in s THEN step[<<g[s \ {k + 1}], k + 1>>] ELSE g[s]]
  <2>3. ASSUME NEW s \in SUBSET (1..(k + 1)) PROVE s \ {k + 1} \in SUBSET (1..k)
    OBVIOUS
  <2>4. h \in [SUBSET (1..(k + 1)) -> V]
    <3>1. SUFFICES ASSUME NEW s \in SUBSET (1..(k + 1))
                   PROVE  (IF k + 1 \in s THEN step[<<g[s \ {k + 1}], k + 1>>] ELSE g[s]) \in V
      OBVIOUS
    <3>2. CASE k + 1 \in s
      <4>1. <<g[s \ {k + 1}], k + 1>> \in V \X (1..n)
        BY <2>1, <2>3
      <4>. QED BY <3>2, <4>1
    <3>3. CASE k + 1 \notin s
      <4>1. s \in SUBSET (1..k)
        BY <2>3, <3>3
      <4>. QED BY <3>3, <4>1
    <3>. QED BY <3>2, <3>3
  <2>5. ASSUME NEW s \in SUBSET (1..(k + 1))
        PROVE  h[s] = IF s = {} THEN base ELSE step[<<h[s \ {Max(s)}], Max(s)>>]
    <3>1. CASE k + 1 \in s
      <4>1. Max(s) \in s /\ \A y \in s : y <= Max(s)
        <5>1. s # {} /\ k + 1 \in Nat
          BY <3>1
        <5>. QED BY <5>1, MaxOf, Zenon
      <4>2. Max(s) = k + 1
        <5>1. Max(s) \in 1..(k + 1) /\ k + 1 <= Max(s)
          BY <3>1, <4>1
        <5>. QED BY <5>1
      <4>3. h[s \ {k + 1}] = g[s \ {k + 1}]
        BY <2>3
      <4>. QED BY <3>1, <4>2, <4>3
    <3>2. CASE k + 1 \notin s /\ s # {}
      <4>1. s \in SUBSET (1..k)
        BY <2>3, <3>2
      <4>2. Max(s) \in s
        BY <3>2, <4>1, MaxOf
      <4>. HIDE DEF h
      <4>3. s \ {Max(s)} \in SUBSET (1..k) /\ k + 1 \notin s \ {Max(s)} /\ s \ {Max(s)} \in SUBSET (1..(k + 1))
        BY <3>2, <4>1
      <4>4. h[s \ {Max(s)}] = g[s \ {Max(s)}]
        BY <4>3 DEF h
      <4>5. h[s] = g[s]
        BY <3>2 DEF h
      <4>6. g[s] = step[<<g[s \ {Max(s)}], Max(s)>>]
        BY <2>2, <3>2, <4>1
      <4>. QED BY <3>2, <4>4, <4>5, <4>6, Zenon
    <3>3. CASE s = {}
      BY <2>2, <3>3
    <3>. QED BY <3>1, <3>2, <3>3
  <2>. HIDE DEF h
  <2>6. Folding(V, base, n, step, k + 1)
    BY <2>4, <2>5 DEF Folding
  <2>. QED BY <2>6
<1>3. n \in S
  <2>. HIDE DEF S
  <2>. QED BY <1>1, <1>2, NatSetInduction
<1>. QED BY <1>3

(* The whole of 1..k without its greatest is 1..(k - 1). *)
LEMMA Prefix ==
    ASSUME NEW n \in Nat, NEW k \in 1..n
    PROVE  /\ 1..k \in SUBSET (1..n) /\ 1..k # {} /\ Max(1..k) = k
           /\ (1..k) \ {k} = 1..(k - 1)
<1>1. 1..k \in SUBSET (1..k) /\ 1..k # {} /\ k \in 1..k
  OBVIOUS
<1>2. k \in Nat
  OBVIOUS
<1>3. Max(1..k) \in 1..k /\ \A y \in 1..k : y <= Max(1..k)
  BY <1>1, <1>2, MaxOf, Zenon
<1>4. k <= Max(1..k)
  BY <1>1, <1>3, Zenon
<1>5. Max(1..k) = k
  BY <1>2, <1>3, <1>4
<1>. QED BY <1>1, <1>5

(* What such a function gives for 1..0, 1..1, ... is what the fold has     *)
(* after each element.                                                     *)
Folds(V, base, n, step, it) ==
    /\ base \in V /\ n \in Nat /\ step \in [V \X (1..n) -> V]
    /\ it[{}] = base
    /\ \A k \in 1..n : it[1..(k - 1)] \in V => it[1..k] = step[<<it[1..(k - 1)], k>>]

Steps(V, base, n, step, end) ==
    \E r \in [0..n -> V] :
        /\ r[0] = base
        /\ \A k \in 1..n : r[k] = step[<<r[k - 1], k>>]
        /\ end = r[n]

LEMMA FoldSteps ==
    ASSUME NEW V, NEW base, NEW n, NEW step, NEW it, Folds(V, base, n, step, it)
    PROVE  Steps(V, base, n, step, it[1..n])
<1>0. /\ base \in V /\ n \in Nat /\ step \in [V \X (1..n) -> V]
      /\ it[{}] = base
      /\ \A k \in 1..n : it[1..(k - 1)] \in V => it[1..k] = step[<<it[1..(k - 1)], k>>]
  BY Zenon DEF Folds
<1>. DEFINE r == [k \in 0..n |-> it[1..k]]
            S == {k \in 0..n : r[k] \in V}
<1>1. r[0] = base
  <2>1. 0 \in 0..n /\ 1..0 = {}
    BY <1>0
  <2>. QED BY <1>0, <2>1
<1>2. ASSUME NEW k \in 1..n PROVE k \in 0..n /\ k - 1 \in 0..n
  BY <1>0
<1>3. ASSUME NEW k \in 1..n, r[k - 1] \in V
      PROVE  r[k] = step[<<r[k - 1], k>>] /\ r[k] \in V
  <2>1. r[k] = it[1..k] /\ r[k - 1] = it[1..(k - 1)]
    BY <1>2, Zenon
  <2>2. r[k] = step[<<r[k - 1], k>>]
    BY <1>0, <1>3, <2>1, Zenon
  <2>. HIDE DEF r
  <2>3. <<r[k - 1], k>> \in V \X (1..n)
    BY <1>3
  <2>. QED BY <1>0, <2>2, <2>3, Zenon
<1>4. \A k \in 0..n : k \in S
  <2>1. 0 \in S
    BY <1>0, <1>1
  <2>2. \A k \in 1..n : k - 1 \in S => k \in S
    BY <1>2, <1>3, Zenon
  <2>. HIDE DEF S
  <2>. QED BY <1>0, <2>1, <2>2, UpTo
<1>5. r \in [0..n -> V]
  BY <1>4
<1>6. \A k \in 1..n : r[k] = step[<<r[k - 1], k>>]
  BY <1>2, <1>3, <1>4
<1>7. it[1..n] = r[n]
  BY <1>0
<1>. HIDE DEF r
<1>. QED BY <1>1, <1>5, <1>6, <1>7, Zenon DEF Steps

----------------------------------------------------------------------------
(***************************************************************************)
(* Sums over finite sets.  The library adds the elements up in the order   *)
(* of CHOOSE; the sum is the same in every order.                          *)
(***************************************************************************)

Pick(s) == CHOOSE x \in s : TRUE

Sums(f, D, g) ==
    \A s \in SUBSET D : g[s] = IF s = {} THEN 0 ELSE f[Pick(s)] + g[s \ {Pick(s)}]

LEMMA PickIsIn == ASSUME NEW s, s # {} PROVE Pick(s) \in s
    BY DEF Pick

(* Induction over the size of the subsets of a finite set. *)
LEMMA SubsetInduction ==
    ASSUME NEW D, IsFiniteSet(D), NEW P \in SUBSET SUBSET D, {} \in P,
           \A s \in SUBSET D : s # {} /\ (\A y \in s : s \ {y} \in P) => s \in P
    PROVE  \A s \in SUBSET D : s \in P
<1>. DEFINE S == {n \in Nat : \A s \in SUBSET D : Cardinality(s) = n => s \in P}
<1>1. \A s \in SUBSET D : IsFiniteSet(s) /\ Cardinality(s) \in Nat
  BY FS_Subset, FS_CardinalityType
<1>2. 0 \in S
  BY <1>1, FS_EmptySet
<1>3. ASSUME NEW n \in Nat, n \in S PROVE n + 1 \in S
  <2>1. SUFFICES ASSUME NEW s \in SUBSET D, Cardinality(s) = n + 1 PROVE s \in P
    OBVIOUS
  <2>2. s # {}
    BY <2>1, FS_EmptySet
  <2>3. ASSUME NEW y \in s PROVE s \ {y} \in P
    <3>1. Cardinality(s \ {y}) = n
      BY <1>1, <2>1, Loses
    <3>. QED BY <1>3, <3>1
  <2>. QED BY <2>2, <2>3
<1>4. \A n \in Nat : n \in S
  <2>. HIDE DEF S
  <2>. QED BY <1>2, <1>3, NatSetInduction
<1>. QED BY <1>1, <1>4

LEMMA SumsAgree ==
    ASSUME NEW D, IsFiniteSet(D), NEW f, NEW g, NEW h, Sums(f, D, g), Sums(f, D, h)
    PROVE  \A s \in SUBSET D : g[s] = h[s]
<1>. DEFINE P == {s \in SUBSET D : g[s] = h[s]}
<1>1. {} \in P
  BY DEF Sums
<1>2. ASSUME NEW s \in SUBSET D, s # {}, \A y \in s : s \ {y} \in P PROVE s \in P
  <2>1. g[s \ {Pick(s)}] = h[s \ {Pick(s)}]
    BY <1>2, PickIsIn
  <2>2. /\ g[s] = f[Pick(s)] + g[s \ {Pick(s)}]
        /\ h[s] = f[Pick(s)] + h[s \ {Pick(s)}]
    BY <1>2, Zenon DEF Sums
  <2>. QED BY <2>1, <2>2
<1>3. \A s \in SUBSET D : s \in P
  <2>. HIDE DEF P
  <2>1. P \in SUBSET SUBSET D
    BY DEF P
  <2>. QED BY <1>1, <1>2, <2>1, SubsetInduction
<1>. QED BY <1>3

Summing(f, D, n) ==
    \E g \in [SUBSET D -> Nat] :
        \A s \in SUBSET D :
            Cardinality(s) <= n =>
                g[s] = IF s = {} THEN 0 ELSE f[Pick(s)] + g[s \ {Pick(s)}]

LEMMA SumExists ==
    ASSUME NEW D, IsFiniteSet(D), NEW f, \A x \in D : f[x] \in Nat
    PROVE  \E g \in [SUBSET D -> Nat] : Sums(f, D, g)
<1>. DEFINE S == {n \in Nat : Summing(f, D, n)}
<1>1. \A s \in SUBSET D : /\ IsFiniteSet(s) /\ Cardinality(s) \in Nat
                          /\ Cardinality(s) <= Cardinality(D) /\ Cardinality(D) \in Nat
  BY FS_Subset, FS_CardinalityType
<1>2. ASSUME NEW s \in SUBSET D, s # {}
      PROVE  /\ s \ {Pick(s)} \in SUBSET D
             /\ Cardinality(s \ {Pick(s)}) = Cardinality(s) - 1
             /\ f[Pick(s)] \in Nat
  BY <1>1, <1>2, PickIsIn, Loses
<1>3. 0 \in S
  <2>1. \A s \in SUBSET D : Cardinality(s) <= 0 => s = {}
    BY <1>1, FS_EmptySet
  <2>2. [s \in SUBSET D |-> 0] \in [SUBSET D -> Nat]
    OBVIOUS
  <2>3. \A s \in SUBSET D : Cardinality(s) <= 0 =>
           [t \in SUBSET D |-> 0][s] =
              IF s = {} THEN 0 ELSE f[Pick(s)] + [t \in SUBSET D |-> 0][s \ {Pick(s)}]
    BY <2>1
  <2>. QED BY <2>2, <2>3, Zenon DEF Summing
<1>4. ASSUME NEW n \in Nat, n \in S PROVE n + 1 \in S
  <2>1. PICK g \in [SUBSET D -> Nat] :
           \A s \in SUBSET D :
              Cardinality(s) <= n => g[s] = IF s = {} THEN 0 ELSE f[Pick(s)] + g[s \ {Pick(s)}]
    BY <1>4 DEF Summing
  <2>. DEFINE h == [s \in SUBSET D |->
                      IF Cardinality(s) <= n THEN g[s]
                      ELSE IF s = {} THEN 0 ELSE f[Pick(s)] + g[s \ {Pick(s)}]]
  <2>2. h \in [SUBSET D -> Nat]
    <3>1. ASSUME NEW s \in SUBSET D
          PROVE  (IF Cardinality(s) <= n THEN g[s]
                  ELSE IF s = {} THEN 0 ELSE f[Pick(s)] + g[s \ {Pick(s)}]) \in Nat
      <4>1. s # {} => f[Pick(s)] \in Nat /\ g[s \ {Pick(s)}] \in Nat
        BY <1>2
      <4>. QED BY <4>1
    <3>. QED BY <3>1
  <2>3. ASSUME NEW s \in SUBSET D, Cardinality(s) <= n + 1
        PROVE  h[s] = IF s = {} THEN 0 ELSE f[Pick(s)] + h[s \ {Pick(s)}]
    <3>1. CASE s = {}
      <4>1. Cardinality(s) <= n
        BY <3>1, FS_EmptySet
      <4>. QED BY <2>1, <3>1, <4>1
    <3>2. CASE s # {}
      <4>1. s \ {Pick(s)} \in SUBSET D /\ Cardinality(s \ {Pick(s)}) <= n
        BY <1>1, <1>2, <2>3, <3>2
      <4>2. h[s \ {Pick(s)}] = g[s \ {Pick(s)}]
        BY <4>1
      <4>3. h[s] = f[Pick(s)] + g[s \ {Pick(s)}]
        BY <2>1, <3>2
      <4>. QED BY <3>2, <4>2, <4>3, Zenon
    <3>. QED BY <3>1, <3>2
  <2>. HIDE DEF h
  <2>4. Summing(f, D, n + 1)
    BY <2>2, <2>3 DEF Summing
  <2>. QED BY <2>4
<1>5. Summing(f, D, Cardinality(D))
  <2>1. \A n \in Nat : n \in S
    <3>. HIDE DEF S
    <3>. QED BY <1>3, <1>4, NatSetInduction
  <2>2. Cardinality(D) \in Nat
    BY <1>1
  <2>. QED BY <2>1, <2>2
<1>. QED BY <1>1, <1>5 DEF Summing, Sums

LEMMA SumIs ==
    ASSUME NEW D, IsFiniteSet(D), NEW f, NEW g, Sums(f, D, g), NEW s \in SUBSET D,
           \A x \in D : f[x] \in Nat
    PROVE  SumFunctionOnSet(f, s) = g[s]
<1>. DEFINE Iter(it) == it = [u \in SUBSET s |-> IF u = {} THEN 0
                                                 ELSE f[Pick(u)] + it[u \ {Pick(u)}]]
            it == CHOOSE x : Iter(x)
<1>1. SumFunctionOnSet(f, s) = it[s]
  BY Zenon DEF SumFunctionOnSet, FoldFunctionOnSet, MapThenFoldSet, Pick
<1>2. IsFiniteSet(s)
  BY FS_Subset
<1>3. PICK h \in [SUBSET s -> Nat] : Sums(f, s, h)
  BY <1>2, SumExists
<1>4. Iter(h)
  <2>1. h = [u \in SUBSET s |-> h[u]]
    OBVIOUS
  <2>. QED BY <1>3, <2>1 DEF Sums
<1>5. Iter(it)
  <2>. HIDE DEF Iter
  <2>. QED BY <1>4, Zenon
<1>6. Sums(f, s, it)
  <2>. HIDE DEF it
  <2>. QED BY <1>5 DEF Sums
<1>7. Sums(f, s, g)
  BY DEF Sums
<1>8. it[s] = g[s]
  <2>. HIDE DEF it
  <2>. QED BY <1>2, <1>6, <1>7, SumsAgree
<1>. QED BY <1>1, <1>8

Removes(f, D, g) == \A s \in SUBSET D : \A y \in s : g[s] = f[y] + g[s \ {y}]

LEMMA SumRemoves ==
    ASSUME NEW D, IsFiniteSet(D), NEW f, \A x \in D : f[x] \in Nat,
           NEW g \in [SUBSET D -> Nat], Sums(f, D, g)
    PROVE  Removes(f, D, g)
<1>. DEFINE P == {s \in SUBSET D : \A y \in s : g[s] = f[y] + g[s \ {y}]}
<1>1. {} \in P
  OBVIOUS
<1>2. ASSUME NEW s \in SUBSET D, s # {}, \A y \in s : s \ {y} \in P PROVE s \in P
  <2>1. SUFFICES ASSUME NEW y \in s PROVE g[s] = f[y] + g[s \ {y}]
    OBVIOUS
  <2>. DEFINE x == Pick(s)
  <2>2. x \in s
    BY <1>2, PickIsIn
  <2>3. g[s] = f[x] + g[s \ {x}]
    BY <1>2 DEF Sums
  <2>. HIDE DEF x
  <2>4. CASE x = y
    BY <2>3, <2>4
  <2>5. CASE x # y
    <3>. DEFINE rest == (s \ {y}) \ {x}
    <3>1. g[s \ {x}] = f[y] + g[rest]
      <4>1. g[s \ {x}] = f[y] + g[(s \ {x}) \ {y}]
        BY <1>2, <2>2, <2>5
      <4>2. (s \ {x}) \ {y} = rest
        OBVIOUS
      <4>. QED BY <4>1, <4>2
    <3>2. g[s \ {y}] = f[x] + g[rest]
      BY <1>2, <2>2, <2>5
    <3>3. f[x] \in Nat /\ f[y] \in Nat /\ g[rest] \in Nat
      BY <2>2
    <3>. HIDE DEF rest
    <3>. QED BY <2>3, <3>1, <3>2, <3>3
  <2>. QED BY <2>4, <2>5
<1>3. \A s \in SUBSET D : s \in P
  <2>. HIDE DEF P
  <2>1. P \in SUBSET SUBSET D
    BY DEF P
  <2>. QED BY <1>1, <1>2, <2>1, SubsetInduction
<1>. QED BY <1>3 DEF Removes

(* What the rest of the proof uses of sums. *)
LEMMA SumFacts ==
    ASSUME NEW D, IsFiniteSet(D), NEW f, \A x \in D : f[x] \in Nat
    PROVE  /\ SumFunctionOnSet(f, {}) = 0
           /\ \A s \in SUBSET D : SumFunctionOnSet(f, s) \in Nat
           /\ \A s \in SUBSET D : \A y \in s :
                 SumFunctionOnSet(f, s) = f[y] + SumFunctionOnSet(f, s \ {y})
<1>1. PICK g \in [SUBSET D -> Nat] : Sums(f, D, g)
  BY SumExists
<1>2. \A s \in SUBSET D : SumFunctionOnSet(f, s) = g[s]
  BY <1>1, SumIs
<1>3. g[{}] = 0 /\ {} \in SUBSET D
  BY <1>1 DEF Sums
<1>4. \A s \in SUBSET D : \A y \in s : g[s] = f[y] + g[s \ {y}]
  <2>1. Removes(f, D, g)
    BY <1>1, SumRemoves
  <2>. QED BY <2>1 DEF Removes
<1>5. \A s \in SUBSET D : \A y \in s : s \ {y} \in SUBSET D
  OBVIOUS
<1>. QED BY <1>2, <1>3, <1>4, <1>5

LEMMA SumSplit ==
    ASSUME NEW D, IsFiniteSet(D), NEW f, \A x \in D : f[x] \in Nat, NEW y \in D
    PROVE  SumFunctionOnSet(f, D) = f[y] + SumFunctionOnSet(f, D \ {y})
<1>1. D \in SUBSET D
  OBVIOUS
<1>. QED BY <1>1, SumFacts

LEMMA SumMonotone ==
    ASSUME NEW D, IsFiniteSet(D), NEW f, \A x \in D : f[x] \in Nat,
           NEW s \in SUBSET D, NEW t \in SUBSET s
    PROVE  SumFunctionOnSet(f, t) <= SumFunctionOnSet(f, s)
<1>. DEFINE P == {u \in SUBSET D : \A t2 \in SUBSET u :
                     SumFunctionOnSet(f, t2) <= SumFunctionOnSet(f, u)}
<1>1. {} \in P
  <2>1. SumFunctionOnSet(f, {}) <= SumFunctionOnSet(f, {})
    BY SumFacts
  <2>2. \A t2 \in SUBSET {} : t2 = {}
    OBVIOUS
  <2>. QED BY <2>1, <2>2, Zenon
<1>2. ASSUME NEW u \in SUBSET D, u # {}, \A y \in u : u \ {y} \in P PROVE u \in P
  <2>1. SUFFICES ASSUME NEW t2 \in SUBSET u
                 PROVE  SumFunctionOnSet(f, t2) <= SumFunctionOnSet(f, u)
    OBVIOUS
  <2>2. CASE t2 = u
    BY <2>2, SumFacts
  <2>3. CASE t2 # u
    <3>1. PICK y \in u : y \notin t2
      BY <2>3
    <3>2. t2 \in SUBSET (u \ {y}) /\ u \ {y} \in P
      BY <1>2, <3>1
    <3>3. SumFunctionOnSet(f, t2) <= SumFunctionOnSet(f, u \ {y})
      BY <3>2
    <3>4. /\ SumFunctionOnSet(f, u) = f[y] + SumFunctionOnSet(f, u \ {y})
          /\ SumFunctionOnSet(f, u \ {y}) \in Nat /\ SumFunctionOnSet(f, t2) \in Nat
          /\ f[y] \in Nat
      <4>1. u \ {y} \in SUBSET D /\ t2 \in SUBSET D
        OBVIOUS
      <4>. QED BY <4>1, SumFacts
    <3>. QED BY <3>3, <3>4
  <2>. QED BY <2>2, <2>3
<1>3. \A u \in SUBSET D : u \in P
  <2>. HIDE DEF P
  <2>1. P \in SUBSET SUBSET D
    BY DEF P
  <2>. QED BY <1>1, <1>2, <2>1, SubsetInduction
<1>. QED BY <1>3

(* Functions that agree on a set have the same sum over it. *)
LEMMA SumCongruent ==
    ASSUME NEW D, IsFiniteSet(D), NEW f, \A x \in D : f[x] \in Nat,
           NEW h, \A x \in D : h[x] = f[x]
    PROVE  SumFunctionOnSet(h, D) = SumFunctionOnSet(f, D)
<1>1. PICK g \in [SUBSET D -> Nat] : Sums(f, D, g)
  BY SumExists
<1>2. Sums(h, D, g)
  <2>1. \A s \in SUBSET D : s # {} => h[Pick(s)] = f[Pick(s)]
    BY PickIsIn
  <2>. QED BY <1>1, <2>1 DEF Sums
<1>3. D \in SUBSET D /\ \A x \in D : h[x] \in Nat
  OBVIOUS
<1>. QED BY <1>1, <1>2, <1>3, SumIs

LEMMA BagSum ==
    ASSUME NEW f, IsFiniteSet(DOMAIN f), \A x \in DOMAIN f : f[x] \in Nat
    PROVE  BagCardinality(f) = SumFunctionOnSet(f, DOMAIN f)
    BY Zenon DEF BagCardinality, Sum, SumFunctionOnSet, FoldFunctionOnSet, MapThenFoldSet

----------------------------------------------------------------------------
(***************************************************************************)
(* The load test.  A time that was measured is on its way until its worker *)
(* has appended it: EverySampleCounts holds at the end because no worker   *)
(* has one on its way when the wait group lets the caller go.              *)
(***************************************************************************)

LoadTypes ==
    /\ ctxDone \in BOOLEAN
    /\ loadPc \in [Workers -> {"new", "check", "call", "proxy", "measured", "append", "exited"}]
    /\ overhead \in [Workers -> Times \cup {0}]
    /\ slice = [w \in Workers |-> slice[w]]
    /\ mu \in Workers \cup {Nobody}
    /\ overheads \in Seq(Times)
    /\ measured \in [Times -> Nat]

Running == {w \in Workers : loadPc[w] \notin {"new", "exited"}}

(* The wait group counts the workers that run, and the caller is let go    *)
(* only when all have exited.                                              *)
GroupCounts ==
    /\ wg = Cardinality(Running)
    /\ result # {} => \A w \in Workers : loadPc[w] = "exited"

(* The mutex is held from the reading of the slice to the storing. *)
Locked == \A w \in Workers :
    /\ loadPc[w] = "append" <=> mu = w
    /\ loadPc[w] = "append" => slice[w] = overheads
    /\ loadPc[w] \in {"measured", "append"} => overhead[w] \in Times

Samples(t) == {i \in DOMAIN overheads : overheads[i] = t}
Pending(t) == {w \in Workers : loadPc[w] \in {"measured", "append"} /\ overhead[w] = t}

Counted == \A t \in Times : measured[t] = Cardinality(Samples(t)) + Cardinality(Pending(t))

RequestsBounded == Len(overheads) + Cardinality(Requests) <= MaxRequests

LoadInv == LoadTypes /\ GroupCounts /\ Locked /\ Counted /\ RequestsBounded

LEMMA WorkersFinite ==
    ASSUME NEW S \in SUBSET Workers
    PROVE  IsFiniteSet(S) /\ Cardinality(S) \in Nat
    BY LoadAssumption, FS_Subset, FS_CardinalityType

LEMMA SamplesFinite ==
    ASSUME NEW s \in Seq(Times), NEW t
    PROVE  LET S == {i \in DOMAIN s : s[i] = t}
           IN  IsFiniteSet(S) /\ Cardinality(S) \in Nat /\ Cardinality(S) <= Len(s)
<1>. DEFINE S == {i \in DOMAIN s : s[i] = t}
<1>1. DOMAIN s = 1..Len(s) /\ Len(s) \in Nat
  BY LenProperties
<1>2. IsFiniteSet(1..Len(s)) /\ Cardinality(1..Len(s)) = Len(s)
  BY <1>1, FS_Interval
<1>3. S \in SUBSET (1..Len(s))
  BY <1>1
<1>. HIDE DEF S
<1>4. IsFiniteSet(S) /\ Cardinality(S) \in Nat /\ Cardinality(S) <= Len(s)
  BY <1>2, <1>3, FS_Subset, FS_CardinalityType
<1>. QED BY <1>4 DEF S

(* One sample more. *)
HowOften(s, t) == Cardinality({i \in DOMAIN s : s[i] = t})

LEMMA SampleAppended ==
    ASSUME NEW s \in Seq(Times), NEW x \in Times, NEW t
    PROVE  HowOften(Append(s, x), t) = HowOften(s, t) + (IF x = t THEN 1 ELSE 0)
<1>. DEFINE s2 == Append(s, x)
            S  == {i \in DOMAIN s : s[i] = t}
            S2 == {i \in DOMAIN s2 : s2[i] = t}
<1>1. /\ s2 \in Seq(Times) /\ Len(s) \in Nat /\ Len(s2) = Len(s) + 1
      /\ \A i \in 1..Len(s) : s2[i] = s[i]
      /\ s2[Len(s) + 1] = x
  OBVIOUS
<1>. HIDE DEF s2
<1>2. DOMAIN s = 1..Len(s) /\ DOMAIN s2 = 1..(Len(s) + 1)
  BY <1>1, LenProperties
<1>3. IsFiniteSet(S) /\ Cardinality(S) \in Nat
  BY SamplesFinite
<1>4. Len(s) + 1 \notin S
  BY <1>1, <1>2
<1>5. S2 = IF x = t THEN S \cup {Len(s) + 1} ELSE S
  BY <1>1, <1>2
<1>. HIDE DEF S, S2
<1>6. Cardinality(S2) = Cardinality(S) + (IF x = t THEN 1 ELSE 0)
  <2>1. CASE x = t
    BY <1>3, <1>4, <1>5, <2>1, Gains
  <2>2. CASE x # t
    BY <1>3, <1>5, <2>2
  <2>. QED BY <2>1, <2>2
<1>. QED BY <1>6, Zenon DEF S, S2, s2, HowOften

----------------------------------------------------------------------------
(* What a step of one worker leaves of the invariant.                      *)

Moves(w, place) == loadPc' = [loadPc EXCEPT ![w] = place]

LEMMA MovesEffect ==
    ASSUME LoadTypes, NEW w \in Workers, NEW place,
           place \in {"new", "check", "call", "proxy", "measured", "append", "exited"},
           Moves(w, place)
    PROVE  /\ loadPc' \in [Workers -> {"new", "check", "call", "proxy", "measured", "append", "exited"}]
           /\ loadPc'[w] = place
           /\ \A v \in Workers : v # w => loadPc'[v] = loadPc[v]
    BY DEF LoadTypes, Moves

(* A worker that runs on stays counted. *)
LEMMA GroupKept ==
    ASSUME LoadInv, NEW w \in Workers, loadPc[w] \notin {"new", "exited"},
           NEW place, place \in {"check", "call", "proxy", "measured", "append"},
           Moves(w, place), UNCHANGED <<wg, result>>
    PROVE  GroupCounts'
<1>1. /\ loadPc'[w] = place
      /\ \A v \in Workers : v # w => loadPc'[v] = loadPc[v]
  BY MovesEffect DEF LoadInv
<1>2. Running' = Running
  BY <1>1 DEF Running
<1>3. result = {}
  BY DEF LoadInv, GroupCounts
<1>. QED BY <1>2, <1>3 DEF LoadInv, GroupCounts

(* A move that neither enters nor leaves a request keeps their number. *)
LEMMA BoundKept ==
    ASSUME LoadInv, NEW w \in Workers,
           NEW place, place \in {"new", "check", "call", "proxy", "measured", "append", "exited"},
           place \in {"call", "proxy", "measured", "append"}
             <=> loadPc[w] \in {"call", "proxy", "measured", "append"},
           Moves(w, place), UNCHANGED overheads
    PROVE  RequestsBounded'
<1>1. /\ loadPc'[w] = place
      /\ \A v \in Workers : v # w => loadPc'[v] = loadPc[v]
  BY MovesEffect DEF LoadInv
<1>2. Requests' = Requests
  BY <1>1 DEF Requests
<1>. QED BY <1>2 DEF LoadInv, RequestsBounded

(* A move between places without a time on its way keeps the count. *)
LEMMA CountKept ==
    ASSUME LoadInv, NEW w \in Workers,
           NEW place, place \in {"new", "check", "call", "proxy", "measured", "append", "exited"},
           place \in {"measured", "append"} <=> loadPc[w] \in {"measured", "append"},
           Moves(w, place), UNCHANGED <<overhead, overheads, measured>>
    PROVE  Counted'
<1>1. /\ loadPc'[w] = place
      /\ \A v \in Workers : v # w => loadPc'[v] = loadPc[v]
  BY MovesEffect DEF LoadInv
<1>2. \A t \in Times : Pending(t)' = Pending(t)
  BY <1>1 DEF Pending
<1>3. \A t \in Times : Samples(t)' = Samples(t)
  BY DEF Samples
<1>. QED BY <1>2, <1>3 DEF LoadInv, Counted

----------------------------------------------------------------------------
LEMMA SpawnInv == ASSUME LoadInv, NEW w \in Workers, Spawn(w) PROVE LoadInv'
<1>1. /\ loadPc[w] = "new" /\ wg' = wg + 1 /\ Moves(w, "check")
      /\ UNCHANGED <<ctxDone, overhead, overheads, mu, slice, result, measured>>
  BY DEF Spawn, MoveTo, Moves, sharedVars
<1>2. /\ loadPc' \in [Workers -> {"new", "check", "call", "proxy", "measured", "append", "exited"}]
      /\ loadPc'[w] = "check"
      /\ \A v \in Workers : v # w => loadPc'[v] = loadPc[v]
  BY <1>1, MovesEffect DEF LoadInv
<1>3. LoadTypes'
  BY <1>1, <1>2 DEF LoadInv, LoadTypes
<1>4. GroupCounts'
  <2>1. Running' = Running \cup {w} /\ w \notin Running /\ Running \in SUBSET Workers
    BY <1>1, <1>2 DEF Running
  <2>2. Cardinality(Running') = Cardinality(Running) + 1
    BY <2>1, WorkersFinite, Gains
  <2>3. result' = {}
    BY <1>1 DEF LoadInv, GroupCounts
  <2>. QED BY <1>1, <2>2, <2>3 DEF LoadInv, GroupCounts
<1>5. Locked'
  BY <1>1, <1>2 DEF LoadInv, Locked
<1>6. Counted' /\ RequestsBounded'
  BY <1>1, CountKept, BoundKept
<1>. QED BY <1>3, <1>4, <1>5, <1>6 DEF LoadInv

LEMMA ExpireInv == ASSUME LoadInv, Expire PROVE LoadInv'
<1>1. /\ ctxDone' = TRUE
      /\ UNCHANGED <<wg, loadPc, overhead, overheads, mu, slice, result, measured>>
  BY DEF Expire, sharedVars
<1>. QED BY <1>1 DEF LoadInv, LoadTypes, GroupCounts, Running, Locked, Counted, Samples,
                     Pending, RequestsBounded, Requests

LEMMA CheckInv == ASSUME LoadInv, NEW w \in Workers, Check(w) PROVE LoadInv'
<1>1. /\ loadPc[w] = "check"
      /\ UNCHANGED <<ctxDone, overhead, overheads, mu, slice, result, measured>>
  BY DEF Check, sharedVars
<1>2. CASE wg' = wg - 1 /\ Moves(w, "exited")
  <2>1. /\ loadPc' \in [Workers -> {"new", "check", "call", "proxy", "measured", "append", "exited"}]
        /\ loadPc'[w] = "exited"
        /\ \A v \in Workers : v # w => loadPc'[v] = loadPc[v]
    BY <1>2, MovesEffect DEF LoadInv
  <2>2. LoadTypes'
    BY <1>1, <2>1 DEF LoadInv, LoadTypes
  <2>3. GroupCounts'
    <3>1. Running' = Running \ {w} /\ w \in Running /\ Running \in SUBSET Workers
      BY <1>1, <2>1 DEF Running
    <3>2. Cardinality(Running') = Cardinality(Running) - 1
      BY <3>1, WorkersFinite, Loses
    <3>3. result' = {}
      BY <1>1 DEF LoadInv, GroupCounts
    <3>. QED BY <1>2, <3>2, <3>3 DEF LoadInv, GroupCounts
  <2>4. Locked'
    BY <1>1, <2>1 DEF LoadInv, Locked
  <2>5. Counted' /\ RequestsBounded'
    BY <1>1, <1>2, CountKept, BoundKept
  <2>. QED BY <2>2, <2>3, <2>4, <2>5 DEF LoadInv
<1>3. CASE /\ Len(overheads) + Cardinality(Requests) < MaxRequests
           /\ Moves(w, "call") /\ UNCHANGED wg
  <2>1. /\ loadPc' \in [Workers -> {"new", "check", "call", "proxy", "measured", "append", "exited"}]
        /\ loadPc'[w] = "call"
        /\ \A v \in Workers : v # w => loadPc'[v] = loadPc[v]
    BY <1>3, MovesEffect DEF LoadInv
  <2>2. LoadTypes'
    BY <1>1, <2>1 DEF LoadInv, LoadTypes
  <2>3. GroupCounts' /\ Counted'
    BY <1>1, <1>3, GroupKept, CountKept
  <2>4. Locked'
    BY <1>1, <2>1 DEF LoadInv, Locked
  <2>5. RequestsBounded'
    <3>1. Requests' = Requests \cup {w} /\ w \notin Requests /\ Requests \in SUBSET Workers
      BY <1>1, <2>1 DEF Requests
    <3>2. /\ Cardinality(Requests) \in Nat
          /\ Cardinality(Requests') = Cardinality(Requests) + 1
      BY <3>1, WorkersFinite, Gains
    <3>3. Len(overheads) \in Nat /\ MaxRequests \in Nat
      BY LoadAssumption DEF LoadInv, LoadTypes
    <3>. QED BY <1>1, <1>3, <3>2, <3>3 DEF RequestsBounded
  <2>. QED BY <2>2, <2>3, <2>4, <2>5 DEF LoadInv
<1>. QED BY <1>2, <1>3 DEF Check, MoveTo, Moves

LEMMA MeasureInv ==
    ASSUME LoadInv, NEW w \in Workers, loadPc[w] \in {"call", "proxy"},
           NEW times \in SUBSET Times, Measure(w, times)
    PROVE  LoadInv'
<1>1. PICK t \in times :
         /\ overhead' = [overhead EXCEPT ![w] = t]
         /\ measured' = [measured EXCEPT ![t] = @ + 1]
  BY DEF Measure
<1>2. t \in Times /\ Moves(w, "measured")
      /\ UNCHANGED <<ctxDone, wg, overheads, mu, slice, result>>
  BY DEF Measure, MoveTo, Moves, sharedVars
<1>3. /\ loadPc' \in [Workers -> {"new", "check", "call", "proxy", "measured", "append", "exited"}]
      /\ loadPc'[w] = "measured"
      /\ \A v \in Workers : v # w => loadPc'[v] = loadPc[v]
  BY <1>2, MovesEffect DEF LoadInv
<1>4. /\ overhead' \in [Workers -> Times \cup {0}]
      /\ overhead'[w] = t
      /\ \A v \in Workers : v # w => overhead'[v] = overhead[v]
  BY <1>1, <1>2 DEF LoadInv, LoadTypes
<1>5. /\ measured' \in [Times -> Nat]
      /\ \A u \in Times : measured'[u] = measured[u] + (IF u = t THEN 1 ELSE 0)
  BY <1>1, <1>2 DEF LoadInv, LoadTypes
<1>6. LoadTypes'
  BY <1>2, <1>3, <1>4, <1>5 DEF LoadInv, LoadTypes
<1>7. GroupCounts' /\ RequestsBounded'
  BY <1>2, GroupKept, BoundKept
<1>8. Locked'
  BY <1>2, <1>3, <1>4 DEF LoadInv, Locked
<1>9. Counted'
  <2>1. SUFFICES ASSUME NEW u \in Times
                 PROVE  measured'[u] = Cardinality(Samples(u)') + Cardinality(Pending(u)')
    BY DEF Counted
  <2>2. measured[u] = Cardinality(Samples(u)) + Cardinality(Pending(u)) /\ measured[u] \in Nat
    BY DEF LoadInv, Counted, LoadTypes
  <2>3. Samples(u)' = Samples(u)
    BY <1>2 DEF Samples
  <2>4. Cardinality(Samples(u)) \in Nat
    BY SamplesFinite DEF Samples, LoadInv, LoadTypes
  <2>5. /\ w \notin Pending(u) /\ Pending(u) \in SUBSET Workers
        /\ Pending(u)' = IF u = t THEN Pending(u) \cup {w} ELSE Pending(u)
    BY <1>3, <1>4 DEF Pending
  <2>6. /\ Cardinality(Pending(u)) \in Nat
        /\ Cardinality(Pending(u)') = Cardinality(Pending(u)) + (IF u = t THEN 1 ELSE 0)
    <3>1. CASE u = t
      BY <2>5, <3>1, WorkersFinite, Gains
    <3>2. CASE u # t
      BY <2>5, <3>2, WorkersFinite
    <3>. QED BY <3>1, <3>2
  <2>. QED BY <1>5, <2>2, <2>3, <2>4, <2>6
<1>. QED BY <1>6, <1>7, <1>8, <1>9 DEF LoadInv

LEMMA CallInv == ASSUME LoadInv, NEW w \in Workers, Call(w) PROVE LoadInv'
<1>1. loadPc[w] = "call"
  BY DEF Call
<1>2. CASE Measure(w, FastTimes)
  BY <1>1, <1>2, MeasureInv DEF Times
<1>3. CASE Moves(w, "proxy") /\ UNCHANGED <<ctxDone, wg, overhead, overheads, mu, slice, result, measured>>
  <2>1. /\ loadPc' \in [Workers -> {"new", "check", "call", "proxy", "measured", "append", "exited"}]
        /\ loadPc'[w] = "proxy"
        /\ \A v \in Workers : v # w => loadPc'[v] = loadPc[v]
    BY <1>3, MovesEffect DEF LoadInv
  <2>2. LoadTypes'
    BY <1>3, <2>1 DEF LoadInv, LoadTypes
  <2>3. GroupCounts' /\ Counted' /\ RequestsBounded'
    BY <1>1, <1>3, GroupKept, CountKept, BoundKept
  <2>4. Locked'
    BY <1>1, <1>3, <2>1 DEF LoadInv, Locked
  <2>. QED BY <2>2, <2>3, <2>4 DEF LoadInv
<1>. QED BY <1>2, <1>3 DEF Call, MoveTo, Moves, sharedVars

LEMMA LockInv == ASSUME LoadInv, NEW w \in Workers, Lock(w) PROVE LoadInv'
<1>1. /\ loadPc[w] = "measured" /\ mu = Nobody /\ mu' = w
      /\ slice' = [slice EXCEPT ![w] = overheads]
      /\ Moves(w, "append")
      /\ UNCHANGED <<ctxDone, wg, overhead, overheads, result, measured>>
  BY DEF Lock, MutexFree, MoveTo, Moves
<1>2. /\ loadPc' \in [Workers -> {"new", "check", "call", "proxy", "measured", "append", "exited"}]
      /\ loadPc'[w] = "append"
      /\ \A v \in Workers : v # w => loadPc'[v] = loadPc[v]
  BY <1>1, MovesEffect DEF LoadInv
<1>3. LoadTypes'
  BY <1>1, <1>2 DEF LoadInv, LoadTypes
<1>4. GroupCounts' /\ Counted' /\ RequestsBounded'
  BY <1>1, GroupKept, CountKept, BoundKept
<1>5. Locked'
  <2>1. /\ slice'[w] = overheads
        /\ \A v \in Workers : v # w => slice'[v] = slice[v] /\ loadPc[v] # "append"
    BY <1>1, LoadAssumption DEF LoadInv, LoadTypes, Locked
  <2>. QED BY <1>1, <1>2, <2>1 DEF LoadInv, Locked
<1>. QED BY <1>3, <1>4, <1>5 DEF LoadInv

LEMMA AppendInv == ASSUME LoadInv, NEW w \in Workers, AppendSample(w) PROVE LoadInv'
<1>1. /\ loadPc[w] = "append"
      /\ overheads' = Append(slice[w], overhead[w])
      /\ slice' = [slice EXCEPT ![w] = << >>]
      /\ mu' = Nobody
      /\ Moves(w, "check")
      /\ UNCHANGED <<ctxDone, wg, overhead, result, measured>>
  BY DEF AppendSample, MoveTo, Moves
<1>2. /\ mu = w /\ slice[w] = overheads /\ overhead[w] \in Times
      /\ \A v \in Workers : v # w => loadPc[v] # "append"
      /\ overheads \in Seq(Times) /\ Len(overheads) \in Nat
  BY <1>1 DEF LoadInv, LoadTypes, Locked
<1>3. /\ overheads' = Append(overheads, overhead[w])
      /\ overheads' \in Seq(Times) /\ Len(overheads') = Len(overheads) + 1
  BY <1>1, <1>2
<1>4. /\ loadPc' \in [Workers -> {"new", "check", "call", "proxy", "measured", "append", "exited"}]
      /\ loadPc'[w] = "check"
      /\ \A v \in Workers : v # w => loadPc'[v] = loadPc[v]
  BY <1>1, MovesEffect DEF LoadInv
<1>5. LoadTypes'
  BY <1>1, <1>3, <1>4 DEF LoadInv, LoadTypes
<1>6. GroupCounts'
  BY <1>1, GroupKept
<1>7. Locked'
  BY <1>1, <1>2, <1>4, LoadAssumption DEF LoadInv, Locked
<1>8. Counted'
  <2>1. SUFFICES ASSUME NEW t \in Times
                 PROVE  measured'[t] = Cardinality(Samples(t)') + Cardinality(Pending(t)')
    BY DEF Counted
  <2>2. measured'[t] = Cardinality(Samples(t)) + Cardinality(Pending(t))
    BY <1>1 DEF LoadInv, Counted
  <2>3. Cardinality(Samples(t)') = Cardinality(Samples(t)) + (IF overhead[w] = t THEN 1 ELSE 0)
    <3>1. Cardinality(Samples(t)') = HowOften(overheads', t)
      BY Zenon DEF Samples, HowOften
    <3>2. Cardinality(Samples(t)) = HowOften(overheads, t)
      BY Zenon DEF Samples, HowOften
    <3>. QED BY <1>2, <1>3, <3>1, <3>2, SampleAppended
  <2>4. Cardinality(Samples(t)) \in Nat
    BY <1>2, SamplesFinite DEF Samples
  <2>5. /\ Pending(t) \in SUBSET Workers
        /\ overhead[w] = t => w \in Pending(t)
        /\ Pending(t)' = IF overhead[w] = t THEN Pending(t) \ {w} ELSE Pending(t)
    BY <1>1, <1>4 DEF Pending
  <2>6. /\ Cardinality(Pending(t)) \in Nat
        /\ Cardinality(Pending(t)') = Cardinality(Pending(t)) - (IF overhead[w] = t THEN 1 ELSE 0)
    <3>1. CASE overhead[w] = t
      BY <2>5, <3>1, WorkersFinite, Loses
    <3>2. CASE overhead[w] # t
      BY <2>5, <3>2, WorkersFinite
    <3>. QED BY <3>1, <3>2
  <2>. QED BY <2>2, <2>3, <2>4, <2>6
<1>9. RequestsBounded'
  <2>1. Requests' = Requests \ {w} /\ w \in Requests /\ Requests \in SUBSET Workers
    BY <1>1, <1>4 DEF Requests
  <2>2. /\ Cardinality(Requests) \in Nat
        /\ Cardinality(Requests') = Cardinality(Requests) - 1
    BY <2>1, WorkersFinite, Loses
  <2>3. MaxRequests \in Nat
    BY LoadAssumption
  <2>. QED BY <1>2, <1>3, <2>2, <2>3 DEF LoadInv, RequestsBounded
<1>. QED BY <1>5, <1>6, <1>7, <1>8, <1>9 DEF LoadInv

LEMMA WaitInv == ASSUME LoadInv, Wait PROVE LoadInv'
<1>1. /\ Started /\ wg = 0
      /\ UNCHANGED <<ctxDone, wg, loadPc, overhead, overheads, mu, slice, measured>>
  BY DEF Wait, sharedVars
<1>2. Running = {}
  <2>1. Running \in SUBSET Workers
    BY DEF Running
  <2>. QED BY <1>1, <2>1, WorkersFinite, FS_EmptySet DEF LoadInv, GroupCounts
<1>3. \A w \in Workers : loadPc[w] = "exited"
  BY <1>1, <1>2 DEF Running, Started
<1>. QED BY <1>1, <1>3 DEF LoadInv, LoadTypes, GroupCounts, Running, Locked, Counted, Samples,
                           Pending, RequestsBounded, Requests

LEMMA LoadNextInv == ASSUME LoadInv, LoadNext PROVE LoadInv'
<1>1. ASSUME NEW w \in Workers, Spawn(w) \/ Worker(w) \/ Finish(w) PROVE LoadInv'
  <2>1. CASE Spawn(w)        BY <2>1, SpawnInv
  <2>2. CASE Check(w)        BY <2>2, CheckInv
  <2>3. CASE Call(w)         BY <2>3, CallInv
  <2>4. CASE Abort(w)        BY <2>4, MeasureInv DEF Abort, Times
  <2>5. CASE Lock(w)         BY <2>5, LockInv
  <2>6. CASE AppendSample(w) BY <2>6, AppendInv
  <2>7. CASE Finish(w)       BY <2>7, MeasureInv DEF Finish, Times
  <2>. QED BY <1>1, <2>1, <2>2, <2>3, <2>4, <2>5, <2>6, <2>7 DEF Worker
<1>. QED BY <1>1, ExpireInv, WaitInv DEF LoadNext

(* A load test that begins, the first time or anew. *)
LEMMA LoadInitInv == LoadInit => LoadInv
<1>. SUFFICES ASSUME LoadInit PROVE LoadInv
  OBVIOUS
<1>1. LoadTypes
  BY EmptySeq DEF LoadInit, LoadTypes
<1>2. Running = {} /\ Requests = {} /\ \A t \in Times : Pending(t) = {}
  BY DEF LoadInit, Running, Requests, Pending
<1>3. \A t \in Times : Samples(t) = {}
  BY DEF LoadInit, Samples
<1>4. Len(overheads) = 0
  BY DEF LoadInit
<1>5. GroupCounts
  BY <1>2, FS_EmptySet DEF LoadInit, GroupCounts
<1>6. Locked
  BY LoadAssumption DEF LoadInit, Locked
<1>7. Counted
  <2>1. \A t \in Times : measured[t] = 0
    BY DEF LoadInit
  <2>2. \A t \in Times : Cardinality(Samples(t)) = 0 /\ Cardinality(Pending(t)) = 0
    BY <1>2, <1>3, FS_EmptySet
  <2>. QED BY <2>1, <2>2 DEF Counted
<1>8. RequestsBounded
  BY <1>2, <1>4, FS_EmptySet, LoadAssumption DEF RequestsBounded
<1>. QED BY <1>1, <1>5, <1>6, <1>7, <1>8 DEF LoadInv

----------------------------------------------------------------------------
(***************************************************************************)
(* The cache.  The search goes through the candidates that the index lists *)
(* and keeps the best so far; the order of scores is strict, so that the   *)
(* best so far is in the end the best of all.                              *)
(***************************************************************************)

(* A score is added up dimension by dimension. *)
LEMMA DotSteps ==
    ASSUME NEW v \in Vector, NEW w \in Vector
    PROVE  \E r \in [0..Dims -> Nat] :
              /\ r[0] = 0
              /\ \A k \in 1..Dims : r[k] = r[k - 1] + v[k] * w[k]
              /\ Dot(v, w) = r[Dims]
<1>. DEFINE D == [i \in DOMAIN v |-> i]
            Iter(g) == g = [s \in SUBSET DOMAIN D |->
                              IF s = {} THEN 0
                              ELSE g[s \ {Max(s)}] + v[D[Max(s)]] * w[D[Max(s)]]]
            it == CHOOSE g : Iter(g)
            step == [x \in Nat \X (1..Dims) |-> x[1] + v[x[2]] * w[x[2]]]
<1>1. Dims \in Nat /\ DOMAIN v = 1..Dims /\ DOMAIN D = 1..Dims
  BY CacheAssumption DEF Vector, Dim
<1>2. \A i \in 1..Dims : v[i] \in Nat /\ w[i] \in Nat /\ D[i] = i
  BY <1>1 DEF Vector, Dim
<1>3. step \in [Nat \X (1..Dims) -> Nat]
  <2>1. ASSUME NEW x \in Nat \X (1..Dims) PROVE x[1] + v[x[2]] * w[x[2]] \in Nat
    <3>1. x[1] \in Nat /\ x[2] \in 1..Dims
      OBVIOUS
    <3>2. v[x[2]] \in Nat /\ w[x[2]] \in Nat
      BY <1>2, <3>1
    <3>. QED BY <3>1, <3>2
  <2>. QED BY <2>1
<1>4. \A a \in Nat, i \in 1..Dims : step[<<a, i>>] = a + v[i] * w[i]
  OBVIOUS
<1>. HIDE DEF step
<1>5. PICK g \in [SUBSET (1..Dims) -> Nat] :
         \A s \in SUBSET (1..Dims) :
            g[s] = IF s = {} THEN 0 ELSE step[<<g[s \ {Max(s)}], Max(s)>>]
  <2>1. Folding(Nat, 0, Dims, step, Dims)
    BY <1>1, <1>3, FoldExists
  <2>. QED BY <2>1 DEF Folding
<1>6. Iter(g)
  <2>1. ASSUME NEW s \in SUBSET (1..Dims), s # {}
        PROVE  g[s] = g[s \ {Max(s)}] + v[D[Max(s)]] * w[D[Max(s)]]
    <3>1. Max(s) \in 1..Dims /\ g[s \ {Max(s)}] \in Nat
      <4>1. Max(s) \in 1..Dims /\ s \ {Max(s)} \in SUBSET (1..Dims)
        BY <1>1, <2>1, MaxOf
      <4>. QED BY <4>1
    <3>2. D[Max(s)] = Max(s)
      BY <1>2, <3>1
    <3>3. g[s] = step[<<g[s \ {Max(s)}], Max(s)>>]
      BY <1>5, <2>1
    <3>. HIDE DEF D
    <3>. QED BY <1>4, <3>1, <3>2, <3>3
  <2>2. g = [s \in SUBSET (1..Dims) |-> g[s]]
    OBVIOUS
  <2>. QED BY <1>1, <1>5, <2>1, <2>2
<1>7. Iter(it)
  <2>. HIDE DEF Iter
  <2>. QED BY <1>6, Zenon
<1>8. Dot(v, w) = it[1..Dims]
  <2>1. Dot(v, w) = it[DOMAIN D]
    BY Zenon DEF Dot, FoldLeftDomain, FoldLeft, MapThenFoldSet
  <2>. QED BY <1>1, <2>1
<1>9. \A s \in SUBSET (1..Dims) :
           it[s] = IF s = {} THEN 0 ELSE it[s \ {Max(s)}] + v[D[Max(s)]] * w[D[Max(s)]]
  BY <1>1, <1>7
<1>. HIDE DEF it, D, Iter
<1>10. it[{}] = 0
  BY <1>9
<1>11. ASSUME NEW k \in 1..Dims PROVE it[1..k] = it[1..(k - 1)] + v[k] * w[k]
  <2>1. /\ 1..k \in SUBSET (1..Dims) /\ 1..k # {} /\ Max(1..k) = k
        /\ (1..k) \ {k} = 1..(k - 1)
    BY <1>1, Prefix
  <2>2. it[1..k] = it[1..(k - 1)] + v[D[k]] * w[D[k]]
    BY <1>9, <2>1
  <2>. QED BY <1>2, <2>2
<1>12. PICK r \in [0..Dims -> Nat] :
              /\ r[0] = 0
              /\ \A k \in 1..Dims : r[k] = step[<<r[k - 1], k>>]
              /\ it[1..Dims] = r[Dims]
  <2>1. \A k \in 1..Dims : it[1..(k - 1)] \in Nat => it[1..k] = step[<<it[1..(k - 1)], k>>]
    BY <1>4, <1>11
  <2>2. Folds(Nat, 0, Dims, step, it)
    BY <1>1, <1>3, <1>10, <2>1 DEF Folds
  <2>3. Steps(Nat, 0, Dims, step, it[1..Dims])
    BY <2>2, FoldSteps, Zenon
  <2>. QED BY <2>3 DEF Steps
<1>13. \A k \in 1..Dims : r[k - 1] \in Nat
  BY <1>1
<1>. QED BY <1>4, <1>8, <1>12, <1>13

(* A score is a whole number, and no less than any of its parts. *)
LEMMA DotNat ==
    ASSUME NEW v \in Vector, NEW w \in Vector
    PROVE  /\ Dot(v, w) \in Nat
           /\ Dot(v, w) > 0 <=> \E i \in Dim : v[i] > 0 /\ w[i] > 0
<1>1. PICK r \in [0..Dims -> Nat] :
              /\ r[0] = 0
              /\ \A k \in 1..Dims : r[k] = r[k - 1] + v[k] * w[k]
              /\ Dot(v, w) = r[Dims]
  BY DotSteps
<1>2. Dims \in Nat /\ Dim = 1..Dims
  BY CacheAssumption DEF Dim
<1>3. ASSUME NEW k \in 1..Dims
      PROVE  v[k] \in Nat /\ w[k] \in Nat /\ k - 1 \in 0..Dims
             /\ v[k] * w[k] \in Nat /\ (v[k] * w[k] > 0 <=> v[k] > 0 /\ w[k] > 0)
  <2>1. v[k] \in Nat /\ w[k] \in Nat /\ k - 1 \in 0..Dims
    BY <1>2 DEF Vector
  <2>2. \A a, b \in Nat : a * b \in Nat /\ (a * b > 0 <=> a > 0 /\ b > 0)
    OBVIOUS
  <2>. QED BY <2>1, <2>2
<1>. DEFINE S == {k \in 0..Dims : r[k] > 0 <=> \E i \in 1..k : v[i] > 0 /\ w[i] > 0}
<1>4. 0 \in S
  BY <1>1, <1>2
<1>5. ASSUME NEW k \in 1..Dims, k - 1 \in S PROVE k \in S
  <2>1. r[k] = r[k - 1] + v[k] * w[k] /\ r[k - 1] \in Nat /\ v[k] * w[k] \in Nat
    BY <1>1, <1>3
  <2>2. r[k] > 0 <=> r[k - 1] > 0 \/ v[k] * w[k] > 0
    BY <2>1
  <2>3. \A i : i \in 1..k <=> i \in 1..(k - 1) \/ i = k
    OBVIOUS
  <2>4. k \in 0..Dims
    BY <1>2
  <2>. QED BY <1>3, <1>5, <2>2, <2>3, <2>4
<1>6. Dims \in S
  <2>1. \A k \in 0..Dims : k \in S
    <3>. HIDE DEF S
    <3>. QED BY <1>2, <1>4, <1>5, UpTo
  <2>. QED BY <1>2, <2>1
<1>. QED BY <1>1, <1>2, <1>6

----------------------------------------------------------------------------
(* The candidates. *)

LEMMA ConcatToSet ==
    ASSUME NEW X, NEW a \in Seq(X), NEW b \in Seq(X)
    PROVE  ToSet(a \o b) = ToSet(a) \cup ToSet(b)
<1>1. /\ a \o b \in Seq(X) /\ Len(a) \in Nat /\ Len(b) \in Nat
      /\ Len(a \o b) = Len(a) + Len(b)
      /\ \A i \in 1..(Len(a) + Len(b)) : (a \o b)[i] = IF i <= Len(a) THEN a[i] ELSE b[i - Len(a)]
  BY ConcatProperties, LenProperties
<1>2. DOMAIN (a \o b) = 1..(Len(a) + Len(b)) /\ DOMAIN a = 1..Len(a) /\ DOMAIN b = 1..Len(b)
  BY <1>1, LenProperties
<1>3. ASSUME NEW i \in 1..Len(a) PROVE i \in 1..(Len(a) + Len(b)) /\ (a \o b)[i] = a[i]
  BY <1>1
<1>4. ASSUME NEW i \in 1..Len(b)
      PROVE  Len(a) + i \in 1..(Len(a) + Len(b)) /\ (a \o b)[Len(a) + i] = b[i]
  BY <1>1
<1>5. ASSUME NEW i \in 1..(Len(a) + Len(b)), i > Len(a) PROVE i - Len(a) \in 1..Len(b)
  BY <1>1, <1>5
<1>. QED BY <1>1, <1>2, <1>3, <1>4, <1>5 DEF ToSet

(* Flattened, sequences keep their elements. *)
Flattening(f, q, k) == \A i \in 1..k : f[i] = IF i = 1 THEN q[i] ELSE f[i - 1] \o q[i]

LEMMA FlattenExists ==
    ASSUME NEW X, NEW n \in Nat, NEW q \in [1..n -> Seq(X)]
    PROVE  \E f \in [1..n -> Seq(X)] : Flattening(f, q, n)
<1>. DEFINE S == {k \in 0..n : \E f \in [1..k -> Seq(X)] : Flattening(f, q, k)}
<1>1. 0 \in S
  <2>1. [i \in 1..0 |-> << >>] \in [1..0 -> Seq(X)]
    OBVIOUS
  <2>2. \A f : Flattening(f, q, 0)
    BY DEF Flattening
  <2>3. \E f \in [1..0 -> Seq(X)] : Flattening(f, q, 0)
    BY <2>1, <2>2, Zenon
  <2>4. 0 \in 0..n
    OBVIOUS
  <2>. QED BY <2>3, <2>4, Zenon
<1>2. ASSUME NEW k \in 1..n, k - 1 \in S PROVE k \in S
  <2>1. PICK f \in [1..(k - 1) -> Seq(X)] : Flattening(f, q, k - 1)
    BY <1>2
  <2>. DEFINE last == IF k = 1 THEN q[k] ELSE f[k - 1] \o q[k]
              h == [i \in 1..k |-> IF i = k THEN last ELSE f[i]]
  <2>2. last \in Seq(X)
    <3>1. CASE k = 1
      BY <3>1
    <3>2. CASE k # 1
      <4>1. f[k - 1] \in Seq(X) /\ q[k] \in Seq(X)
        BY <3>2
      <4>. QED BY <3>2, <4>1, ConcatProperties
    <3>. QED BY <3>1, <3>2
  <2>3. h \in [1..k -> Seq(X)]
    <3>. HIDE DEF last
    <3>. QED BY <2>2
  <2>4. ASSUME NEW i \in 1..k PROVE h[i] = IF i = 1 THEN q[i] ELSE h[i - 1] \o q[i]
    <3>1. CASE i = k /\ k = 1
      BY <3>1
    <3>2. CASE i = k /\ k # 1
      <4>1. h[i - 1] = f[k - 1] /\ h[i] = last
        BY <3>2
      <4>2. h[i] = f[k - 1] \o q[k]
        BY <3>2, <4>1
      <4>. HIDE DEF h
      <4>. QED BY <3>2, <4>1, <4>2
    <3>3. CASE i # k
      <4>1. i \in 1..(k - 1) /\ (i # 1 => i - 1 \in 1..k /\ i - 1 # k)
        BY <3>3
      <4>2. f[i] = IF i = 1 THEN q[i] ELSE f[i - 1] \o q[i]
        BY <2>1, <4>1 DEF Flattening
      <4>3. h[i] = f[i] /\ (i # 1 => h[i - 1] = f[i - 1])
        BY <3>3, <4>1
      <4>. HIDE DEF h
      <4>. QED BY <4>2, <4>3
    <3>. QED BY <3>1, <3>2, <3>3
  <2>. HIDE DEF h
  <2>5. Flattening(h, q, k)
    BY <2>4 DEF Flattening
  <2>6. k \in 0..n
    OBVIOUS
  <2>. QED BY <2>3, <2>5, <2>6
<1>3. \A k \in 0..n : k \in S
  <2>. HIDE DEF S
  <2>. QED BY <1>1, <1>2, UpTo
<1>4. n \in S
  <2>. HIDE DEF S
  <2>. QED BY <1>3
<1>. QED BY <1>4

LEMMA Flattened ==
    ASSUME NEW X, NEW n \in Nat \ {0}, NEW q \in [1..n -> Seq(X)]
    PROVE  /\ FlattenSeq(q) \in Seq(X)
           /\ \A x : x \in ToSet(FlattenSeq(q)) <=> \E i \in 1..n : x \in ToSet(q[i])
<1>. DEFINE Flat(f) == f = [i \in 1..Len(q) |-> IF i = 1 THEN q[i] ELSE f[i - 1] \o q[i]]
            fl == CHOOSE f : Flat(f)
<1>1. Len(q) = n /\ n # 0
  OBVIOUS
<1>2. \E f : Flat(f)
  <2>1. PICK f \in [1..n -> Seq(X)] : Flattening(f, q, n)
    BY FlattenExists
  <2>2. \A i \in 1..n : f[i] = IF i = 1 THEN q[i] ELSE f[i - 1] \o q[i]
    BY <2>1 DEF Flattening
  <2>3. Flat(f)
    BY <1>1, <2>2
  <2>. QED BY <2>3
<1>3. Flat(fl)
  <2>. HIDE DEF Flat
  <2>. QED BY <1>2, Zenon
<1>4. FlattenSeq(q) = fl[n]
  <2>1. FlattenSeq(q) = fl[Len(q)]
    BY <1>1, Zenon DEF FlattenSeq
  <2>. QED BY <1>1, <2>1
<1>5. Flattening(fl, q, n)
  BY <1>1, <1>3 DEF Flattening
<1>. HIDE DEF fl, Flat
<1>. DEFINE Holds(k) == /\ fl[k] \in Seq(X)
                        /\ \A x : x \in ToSet(fl[k]) <=> \E i \in 1..k : x \in ToSet(q[i])
            S == {k \in 0..n : k # 0 => Holds(k)}
<1>6. 0 \in S
  OBVIOUS
<1>7. ASSUME NEW k \in 1..n, k - 1 \in S PROVE k \in S
  <2>0. k \in 0..n
    OBVIOUS
  <2>1. CASE k = 1
    <3>1. fl[1] = q[1] /\ \A i : i \in 1..1 <=> i = 1
      BY <1>5 DEF Flattening
    <3>. QED BY <2>1, <3>1
  <2>2. CASE k # 1
    <3>1. fl[k] = fl[k - 1] \o q[k]
      BY <1>5, <2>2 DEF Flattening
    <3>2. Holds(k - 1)
      BY <1>7, <2>2
    <3>3. fl[k - 1] \in Seq(X) /\ q[k] \in Seq(X)
      BY <3>2
    <3>4. fl[k] \in Seq(X)
      BY <3>1, <3>3, ConcatProperties
    <3>5. ToSet(fl[k]) = ToSet(fl[k - 1]) \cup ToSet(q[k])
      BY <3>1, <3>3, ConcatToSet
    <3>6. \A i : i \in 1..k <=> i \in 1..(k - 1) \/ i = k
      OBVIOUS
    <3>7. Holds(k)
      BY <3>2, <3>4, <3>5, <3>6
    <3>. HIDE DEF Holds
    <3>. QED BY <2>0, <3>7
  <2>. QED BY <2>1, <2>2
<1>8. Holds(n)
  <2>1. \A k \in 0..n : k \in S
    <3>. HIDE DEF S
    <3>. QED BY <1>6, <1>7, UpTo
  <2>2. n \in S /\ n # 0
    <3>. HIDE DEF S
    <3>. QED BY <2>1
  <2>. HIDE DEF Holds
  <2>. QED BY <2>2
<1>. QED BY <1>4, <1>8

(* The candidates are gathered one by one, each once. *)
LEMMA CandidateSteps ==
    ASSUME NEW X, NEW q \in Seq(X)
    PROVE  LET fold == FoldLeft(LAMBDA found, id : IF Contains(found, id) THEN found
                                                   ELSE Append(found, id), << >>, q)
           IN  fold \in Seq(X) /\ ToSet(fold) = ToSet(q)
<1>. DEFINE n == Len(q)
            Add(found, id) == IF Contains(found, id) THEN found ELSE Append(found, id)
            Iter(g) == g = [s \in SUBSET DOMAIN q |->
                              IF s = {} THEN << >> ELSE Add(g[s \ {Max(s)}], q[Max(s)])]
            it == CHOOSE g : Iter(g)
            step == [x \in Seq(X) \X (1..n) |-> Add(x[1], q[x[2]])]
<1>1. n \in Nat /\ DOMAIN q = 1..n /\ \A i \in 1..n : q[i] \in X
  BY LenProperties
<1>2. ASSUME NEW f \in Seq(X), NEW x \in X
      PROVE  Add(f, x) \in Seq(X) /\ ToSet(Add(f, x)) = ToSet(f) \cup {x}
  <2>1. CASE Contains(f, x)
    BY <2>1, LenProperties DEF Contains, ToSet
  <2>2. CASE ~Contains(f, x)
    <3>1. Append(f, x) \in Seq(X) /\ Len(Append(f, x)) = Len(f) + 1 /\ Len(f) \in Nat
          /\ (\A i \in 1..Len(f) : Append(f, x)[i] = f[i]) /\ Append(f, x)[Len(f) + 1] = x
      OBVIOUS
    <3>2. DOMAIN Append(f, x) = 1..(Len(f) + 1) /\ DOMAIN f = 1..Len(f)
      BY <3>1, LenProperties
    <3>3. \A i : i \in 1..(Len(f) + 1) <=> i \in 1..Len(f) \/ i = Len(f) + 1
      BY <3>1
    <3>4. ToSet(Append(f, x)) = ToSet(f) \cup {x}
      BY <3>1, <3>2, <3>3 DEF ToSet
    <3>. QED BY <2>2, <3>1, <3>4
  <2>. QED BY <2>1, <2>2
<1>. HIDE DEF Add
<1>3. step \in [Seq(X) \X (1..n) -> Seq(X)]
  <2>1. ASSUME NEW x \in Seq(X) \X (1..n) PROVE Add(x[1], q[x[2]]) \in Seq(X)
    <3>1. x[1] \in Seq(X) /\ x[2] \in 1..n
      OBVIOUS
    <3>2. q[x[2]] \in X
      BY <1>1, <3>1
    <3>. QED BY <1>2, <3>1, <3>2, Zenon
  <2>. QED BY <2>1
<1>4. \A f \in Seq(X), i \in 1..n : step[<<f, i>>] = Add(f, q[i])
  OBVIOUS
<1>5. << >> \in Seq(X)
  BY EmptySeq
<1>. HIDE DEF step, n
<1>6. PICK g \in [SUBSET (1..n) -> Seq(X)] :
         \A s \in SUBSET (1..n) :
            g[s] = IF s = {} THEN << >> ELSE step[<<g[s \ {Max(s)}], Max(s)>>]
  <2>1. Folding(Seq(X), << >>, n, step, n)
    BY <1>1, <1>3, <1>5, FoldExists
  <2>. QED BY <2>1, Zenon DEF Folding
<1>7. Iter(g)
  <2>1. ASSUME NEW s \in SUBSET (1..n), s # {}
        PROVE  g[s] = Add(g[s \ {Max(s)}], q[Max(s)])
    <3>1. Max(s) \in 1..n /\ s \ {Max(s)} \in SUBSET (1..n)
      BY <1>1, <2>1, MaxOf
    <3>2. g[s \ {Max(s)}] \in Seq(X)
      BY <3>1, Zenon
    <3>. QED BY <1>4, <1>6, <2>1, <3>1, <3>2, Zenon
  <2>2. g = [s \in SUBSET (1..n) |-> g[s]]
    OBVIOUS
  <2>. QED BY <1>1, <1>6, <2>1, <2>2
<1>8. Iter(it)
  <2>. HIDE DEF Iter
  <2>. QED BY <1>7, Zenon
<1>. DEFINE fold == FoldLeft(LAMBDA found, id : IF Contains(found, id) THEN found
                                                ELSE Append(found, id), << >>, q)
<1>9. fold = it[1..n]
  <2>1. fold = it[DOMAIN q]
    BY Zenon DEF FoldLeft, MapThenFoldSet, Add
  <2>. HIDE DEF fold, it
  <2>. QED BY <1>1, <2>1
<1>10. \A s \in SUBSET (1..n) :
           it[s] = IF s = {} THEN << >> ELSE Add(it[s \ {Max(s)}], q[Max(s)])
  BY <1>1, <1>8
<1>. HIDE DEF it, Iter, fold
<1>11. it[{}] = << >>
  BY <1>10
<1>12. ASSUME NEW k \in 1..n PROVE it[1..k] = Add(it[1..(k - 1)], q[k])
  <2>1. /\ 1..k \in SUBSET (1..n) /\ 1..k # {} /\ Max(1..k) = k
        /\ (1..k) \ {k} = 1..(k - 1)
    BY <1>1, Prefix
  <2>. QED BY <1>10, <2>1
<1>13. PICK r \in [0..n -> Seq(X)] :
              /\ r[0] = << >>
              /\ \A k \in 1..n : r[k] = step[<<r[k - 1], k>>]
              /\ it[1..n] = r[n]
  <2>1. \A k \in 1..n : it[1..(k - 1)] \in Seq(X) => it[1..k] = step[<<it[1..(k - 1)], k>>]
    BY <1>4, <1>12
  <2>2. Folds(Seq(X), << >>, n, step, it)
    BY <1>1, <1>3, <1>5, <1>11, <2>1, Zenon DEF Folds
  <2>3. Steps(Seq(X), << >>, n, step, it[1..n])
    BY <2>2, FoldSteps, Zenon
  <2>. QED BY <2>3, Zenon DEF Steps
<1>. DEFINE S == {k \in 0..n : \A x : x \in ToSet(r[k]) <=> \E i \in 1..k : x = q[i]}
<1>14. 0 \in S
  <2>1. ToSet(r[0]) = {}
    BY <1>13 DEF ToSet
  <2>. QED BY <1>1, <2>1
<1>15. ASSUME NEW k \in 1..n, k - 1 \in S PROVE k \in S
  <2>1. k \in 0..n /\ r[k - 1] \in Seq(X)
    BY <1>1
  <2>2. ToSet(r[k]) = ToSet(r[k - 1]) \cup {q[k]}
    <3>1. r[k] = Add(r[k - 1], q[k])
      BY <1>4, <1>13, <2>1
    <3>2. q[k] \in X
      BY <1>1
    <3>. QED BY <1>2, <2>1, <3>1, <3>2
  <2>3. \A i : i \in 1..k <=> i \in 1..(k - 1) \/ i = k
    BY <1>1
  <2>. QED BY <1>15, <2>1, <2>2, <2>3
<1>16. n \in S
  <2>. HIDE DEF S
  <2>1. \A k \in 0..n : k \in S
    BY <1>1, <1>14, <1>15, UpTo
  <2>. QED BY <1>1, <2>1
<1>17. r[n] \in Seq(X) /\ ToSet(r[n]) = ToSet(q)
  BY <1>1, <1>16 DEF ToSet
<1>. QED BY <1>9, <1>13, <1>17 DEF fold

----------------------------------------------------------------------------
NonZero(v) == \E i \in Dim : v[i] > 0

Entry == [Vector : Vector, Response : {p.gt : p \in Prompts}, Timestamp : Nat]

CacheTypes ==
    /\ SemanticEntries \in Seq(Entry)
    /\ \A id \in DOMAIN SemanticEntries :
          /\ NonZero(SemanticEntries[id].Vector)
          /\ SemanticEntries[id].Timestamp < now
    /\ InvertedIndex \in [Dim -> Seq(Nat)]
    /\ now = Window + queries
    /\ queries \in Nat

IDs == DOMAIN SemanticEntries

LEMMA EntryFields ==
    ASSUME CacheTypes
    PROVE  /\ IDs = 1..Len(SemanticEntries) /\ Len(SemanticEntries) \in Nat
           /\ \A id \in IDs :
                 /\ SemanticEntries[id] \in Entry
                 /\ SemanticEntries[id].Vector \in Vector
                 /\ NonZero(SemanticEntries[id].Vector)
                 /\ SemanticEntries[id].Timestamp \in Nat
                 /\ SemanticEntries[id].Timestamp < now
<1>1. IDs = 1..Len(SemanticEntries) /\ Len(SemanticEntries) \in Nat
  BY LenProperties, Zenon DEF CacheTypes, IDs
<1>2. ASSUME NEW id \in IDs PROVE SemanticEntries[id] \in Entry
  BY <1>1, <1>2, LenProperties, Zenon DEF CacheTypes
<1>3. \A e \in Entry : e.Vector \in Vector /\ e.Timestamp \in Nat
  BY Zenon DEF Entry
<1>. QED BY <1>1, <1>2, <1>3, Zenon DEF CacheTypes, IDs

LEMMA PromptVector ==
    ASSUME NEW prompt \in Prompts
    PROVE  prompt.vec \in Vector /\ NonZero(prompt.vec)
    BY PromptsAssumption DEF NonZero

(* The candidates are the entries with a score above zero. *)
LEMMA CandidatesAre ==
    ASSUME CacheTypes, IndexComplete, NEW vec \in Vector
    PROVE  /\ FindCandidates(vec) \in Seq(Nat)
           /\ ToSet(FindCandidates(vec)) = {id \in IDs : Dot(vec, SemanticEntries[id].Vector) > 0}
<1>. DEFINE lists == [i \in Dim |-> IF vec[i] > 0 THEN InvertedIndex[i] ELSE << >>]
            flat  == FlattenSeq(lists)
<1>1. lists \in [1..Dims -> Seq(Nat)] /\ Dims \in Nat \ {0} /\ Dim = 1..Dims
  BY EmptySeq, CacheAssumption DEF CacheTypes, Dim
<1>2. ASSUME NEW i \in Dim
      PROVE  ToSet(lists[i]) = {id \in IDs : vec[i] > 0 /\ SemanticEntries[id].Vector[i] > 0}
  <2>1. CASE vec[i] > 0
    BY <2>1 DEF IndexComplete, IDs
  <2>2. CASE ~(vec[i] > 0)
    BY <2>2 DEF ToSet
  <2>. QED BY <2>1, <2>2
<1>. HIDE DEF lists
<1>3. flat \in Seq(Nat) /\ \A x : x \in ToSet(flat) <=> \E i \in 1..Dims : x \in ToSet(lists[i])
  <2>1. Dims \in Nat \ {0} /\ lists \in [1..Dims -> Seq(Nat)]
    BY <1>1
  <2>. QED BY ONLY <2>1, Flattened
<1>4. ToSet(flat) = {id \in IDs : Dot(vec, SemanticEntries[id].Vector) > 0}
  <2>1. \A id \in IDs : /\ id \in Nat
                        /\ Dot(vec, SemanticEntries[id].Vector) > 0
                             <=> \E i \in Dim : vec[i] > 0 /\ SemanticEntries[id].Vector[i] > 0
    BY EntryFields, DotNat
  <2>2. \A x : x \in ToSet(flat) <=> x \in IDs /\ \E i \in Dim : vec[i] > 0 /\ SemanticEntries[x].Vector[i] > 0
    <3>. HIDE DEF flat
    <3>1. \A x : x \in ToSet(flat) <=> \E i \in Dim : x \in ToSet(lists[i])
      BY <1>1, <1>3, Zenon
    <3>2. \A x : \A i \in Dim : x \in ToSet(lists[i])
             <=> x \in IDs /\ vec[i] > 0 /\ SemanticEntries[x].Vector[i] > 0
      BY <1>2
    <3>. QED BY <3>1, <3>2, Zenon
  <2>. QED BY <2>1, <2>2, Zenon
<1>. HIDE DEF flat
<1>5. FindCandidates(vec) \in Seq(Nat) /\ ToSet(FindCandidates(vec)) = ToSet(flat)
  BY <1>3, CandidateSteps, Zenon DEF FindCandidates, flat, lists
<1>. QED BY <1>4, <1>5

----------------------------------------------------------------------------
(* The search, candidate by candidate. *)
Goes(prompt, t, best, id) == ~Expired(SemanticEntries[id], t) /\ Better(prompt.vec, best, id)

LEMMA SearchSteps ==
    ASSUME CacheTypes, IndexComplete, NEW prompt \in Prompts, NEW t
    PROVE  LET q == FindCandidates(prompt.vec)
           IN  \E r \in [0..Len(q) -> IDs \cup {NoMatch}] :
                  /\ r[0] = NoMatch
                  /\ \A k \in 1..Len(q) :
                        r[k] = IF Goes(prompt, t, r[k - 1], q[k]) THEN q[k] ELSE r[k - 1]
                  /\ FindBestMatch(prompt, t) = r[Len(q)]
<1>. DEFINE q == FindCandidates(prompt.vec)
            n == Len(q)
            V == IDs \cup {NoMatch}
            Go(best, id) == IF Goes(prompt, t, best, id) THEN id ELSE best
            Iter(g) == g = [s \in SUBSET DOMAIN q |->
                              IF s = {} THEN NoMatch ELSE Go(g[s \ {Max(s)}], q[Max(s)])]
            it == CHOOSE g : Iter(g)
            step == [x \in V \X (1..n) |-> Go(x[1], q[x[2]])]
<1>1. n \in Nat /\ DOMAIN q = 1..n /\ \A i \in 1..n : q[i] \in V
  BY CandidatesAre, PromptVector, LenProperties DEF ToSet
<1>2. \A b, x \in V : Go(b, x) \in V
  BY Zenon
<1>3. NoMatch \in V
  BY Zenon
<1>4. FindBestMatch(prompt, t) = it[1..n]
  <2>1. FindBestMatch(prompt, t) = it[DOMAIN q]
    BY Zenon DEF FindBestMatch, FoldLeft, MapThenFoldSet, Goes
  <2>. HIDE DEF it
  <2>. QED BY <1>1, <2>1
<1>. HIDE DEF Go, V, q, n
<1>5. step \in [V \X (1..n) -> V]
  <2>1. ASSUME NEW x \in V \X (1..n) PROVE Go(x[1], q[x[2]]) \in V
    <3>1. x[1] \in V /\ x[2] \in 1..n
      OBVIOUS
    <3>2. q[x[2]] \in V
      BY <1>1, <3>1
    <3>. QED BY <1>2, <3>1, <3>2, Zenon
  <2>. QED BY <2>1
<1>6. \A b \in V, i \in 1..n : step[<<b, i>>] = Go(b, q[i])
  OBVIOUS
<1>. HIDE DEF step
<1>7. PICK g \in [SUBSET (1..n) -> V] :
         \A s \in SUBSET (1..n) :
            g[s] = IF s = {} THEN NoMatch ELSE step[<<g[s \ {Max(s)}], Max(s)>>]
  <2>1. Folding(V, NoMatch, n, step, n)
    BY <1>1, <1>3, <1>5, FoldExists
  <2>. QED BY <2>1, Zenon DEF Folding
<1>8. Iter(g)
  <2>1. ASSUME NEW s \in SUBSET (1..n), s # {}
        PROVE  g[s] = Go(g[s \ {Max(s)}], q[Max(s)])
    <3>1. Max(s) \in 1..n /\ s \ {Max(s)} \in SUBSET (1..n)
      BY <1>1, <2>1, MaxOf
    <3>2. g[s \ {Max(s)}] \in V
      BY <3>1, Zenon
    <3>. QED BY <1>6, <1>7, <2>1, <3>1, <3>2, Zenon
  <2>2. g = [s \in SUBSET (1..n) |-> g[s]]
    OBVIOUS
  <2>. QED BY <1>1, <1>7, <2>1, <2>2
<1>9. Iter(it)
  <2>. HIDE DEF Iter
  <2>. QED BY <1>8, Zenon
<1>10. \A s \in SUBSET (1..n) :
           it[s] = IF s = {} THEN NoMatch ELSE Go(it[s \ {Max(s)}], q[Max(s)])
  BY <1>1, <1>9
<1>. HIDE DEF it, Iter
<1>11. it[{}] = NoMatch
  BY <1>10
<1>12. ASSUME NEW k \in 1..n PROVE it[1..k] = Go(it[1..(k - 1)], q[k])
  <2>1. /\ 1..k \in SUBSET (1..n) /\ 1..k # {} /\ Max(1..k) = k
        /\ (1..k) \ {k} = 1..(k - 1)
    BY <1>1, Prefix
  <2>. QED BY <1>10, <2>1
<1>13. Steps(V, NoMatch, n, step, it[1..n])
  <2>1. \A k \in 1..n : it[1..(k - 1)] \in V => it[1..k] = step[<<it[1..(k - 1)], k>>]
    BY <1>6, <1>12
  <2>2. Folds(V, NoMatch, n, step, it)
    BY <1>1, <1>3, <1>5, <1>11, <2>1, Zenon DEF Folds
  <2>. QED BY <2>2, FoldSteps, Zenon
<1>14. PICK r \in [0..n -> V] :
              /\ r[0] = NoMatch
              /\ \A k \in 1..n : r[k] = step[<<r[k - 1], k>>]
              /\ it[1..n] = r[n]
  BY <1>13, Zenon DEF Steps
<1>15. \A k \in 1..n : r[k] = Go(r[k - 1], q[k])
  <2>1. ASSUME NEW k \in 1..n PROVE r[k - 1] \in V
    BY <1>1
  <2>. QED BY <1>6, <1>14, <2>1, Zenon
<1>. QED BY <1>4, <1>14, <1>15, Zenon DEF Go, V, q, n

----------------------------------------------------------------------------
(* Scores, as fractions of whole numbers.                                  *)

LEMMA NormPositive ==
    ASSUME NEW v \in Vector, NonZero(v)
    PROVE  Dot(v, v) \in Nat /\ Dot(v, v) > 0
    BY DotNat DEF NonZero

LEMMA ProductsNat == \A a, b \in Nat : a * b \in Nat /\ (a > 0 /\ b > 0 => a * b > 0)
    OBVIOUS

LEMMA SquareNat ==
    ASSUME NEW v \in Vector, NEW w \in Vector
    PROVE  Dot(v, w) * Dot(v, w) \in Nat
    BY DotNat, ProductsNat, Zenon

(* a/B > x/X is a strict order. *)
LEMMA FractionsTransitive ==
    ASSUME NEW a \in Nat, NEW b \in Nat, NEW x \in Nat,
           NEW A \in Nat, NEW B \in Nat, NEW X \in Nat, A > 0, B > 0, X > 0,
           a * B <= b * A, b * X <= x * B
    PROVE  a * X <= x * A
<1>1. (a * B) * X <= (b * A) * X
  <2>1. \A p, q, z \in Nat : p <= q => p * z <= q * z
    OBVIOUS
  <2>. QED BY <2>1, ProductsNat
<1>2. (b * X) * A <= (x * B) * A
  <2>1. \A p, q, z \in Nat : p <= q => p * z <= q * z
    OBVIOUS
  <2>. QED BY <2>1, ProductsNat
<1>3. (a * X) * B <= (x * A) * B
  <2>1. (a * X) * B = (a * B) * X /\ (b * A) * X = (b * X) * A /\ (x * A) * B = (x * B) * A
    OBVIOUS
  <2>2. /\ (a * B) * X \in Nat /\ (b * A) * X \in Nat /\ (b * X) * A \in Nat /\ (x * B) * A \in Nat
    BY ProductsNat
  <2>. QED BY <1>1, <1>2, <2>1, <2>2
<1>4. \A p, q \in Nat : p * B <= q * B => p <= q
  OBVIOUS
<1>. QED BY <1>3, <1>4, ProductsNat

Nearer(v, w, u) == Dot(v, w) * Dot(v, w) * Dot(u, u) <= Dot(v, u) * Dot(v, u) * Dot(w, w)

LEMMA CloserOrNot ==
    ASSUME NEW v \in Vector, NEW w \in Vector, NEW u \in Vector
    PROVE  ~Closer(v, w, u) <=> Nearer(v, w, u)
<1>1. /\ Dot(v, w) * Dot(v, w) * Dot(u, u) \in Nat
      /\ Dot(v, u) * Dot(v, u) * Dot(w, w) \in Nat
  BY DotNat, SquareNat, ProductsNat, Zenon
<1>. QED BY <1>1 DEF Closer, Nearer

LEMMA NotCloserTransitive ==
    ASSUME NEW v \in Vector, NEW w \in Vector, NEW b \in Vector, NEW u \in Vector,
           NonZero(w), NonZero(b), NonZero(u), ~Closer(v, w, b), ~Closer(v, b, u)
    PROVE  ~Closer(v, w, u)
<1>1. Nearer(v, w, b) /\ Nearer(v, b, u)
  BY CloserOrNot
<1>2. /\ Dot(v, w) * Dot(v, w) \in Nat /\ Dot(v, b) * Dot(v, b) \in Nat /\ Dot(v, u) * Dot(v, u) \in Nat
      /\ Dot(w, w) \in Nat /\ Dot(b, b) \in Nat /\ Dot(u, u) \in Nat
      /\ Dot(w, w) > 0 /\ Dot(b, b) > 0 /\ Dot(u, u) > 0
  BY SquareNat, NormPositive
<1>. DEFINE a == Dot(v, w) * Dot(v, w)
            e == Dot(v, b) * Dot(v, b)
            x == Dot(v, u) * Dot(v, u)
            W == Dot(w, w)
            B == Dot(b, b)
            U == Dot(u, u)
<1>3. a * U <= x * W
  <2>1. a * B <= e * W /\ e * U <= x * B
    BY <1>1 DEF Nearer
  <2>2. a \in Nat /\ e \in Nat /\ x \in Nat /\ W \in Nat /\ B \in Nat /\ U \in Nat
        /\ W > 0 /\ B > 0 /\ U > 0
    BY <1>2
  <2>. HIDE DEF a, e, x, W, B, U
  <2>. QED BY ONLY <2>1, <2>2, FractionsTransitive
<1>4. Nearer(v, w, u)
  BY <1>3 DEF Nearer
<1>. QED BY <1>4, CloserOrNot

LEMMA CloserIsStrict ==
    ASSUME NEW v \in Vector, NEW w \in Vector, NEW u \in Vector
    PROVE  /\ ~Closer(v, w, w)
           /\ Closer(v, w, u) => ~Closer(v, u, w)
<1>1. /\ Dot(v, w) * Dot(v, w) * Dot(u, u) \in Nat
      /\ Dot(v, u) * Dot(v, u) * Dot(w, w) \in Nat
      /\ Dot(v, w) * Dot(v, w) * Dot(w, w) \in Nat
  BY DotNat, SquareNat, ProductsNat, Zenon
<1>. QED BY <1>1 DEF Closer

(* Who is not closer than an entry below a threshold is below it too. *)
LEMMA BelowPassesOn ==
    ASSUME NEW v \in Vector, NEW w \in Vector, NEW b \in Vector, NonZero(v), NonZero(w), NonZero(b),
           NEW num \in Nat, NEW den \in Nat,
           ~Closer(v, w, b), ~AtLeast(v, b, num, den)
    PROVE  ~AtLeast(v, w, num, den)
<1>. DEFINE d == Dot(v, w) * Dot(v, w)
            e == Dot(v, b) * Dot(v, b)
            N == num * num * Dot(v, v)
            D == den * den
            W == Dot(w, w)
            B == Dot(b, b)
<1>1. d \in Nat /\ e \in Nat /\ N \in Nat /\ D \in Nat /\ W \in Nat /\ B \in Nat /\ W > 0 /\ B > 0
  BY SquareNat, NormPositive, DotNat, ProductsNat
<1>2. d * B <= e * W
  BY CloserOrNot DEF Nearer
<1>3. d * D \in Nat /\ e * D \in Nat /\ N * W \in Nat /\ N * B \in Nat
  BY <1>1, ProductsNat, Zenon
<1>4. \A a, s, t \in Nat : a * s * t = a * (s * t)
  OBVIOUS
<1>5. AtLeast(v, w, num, den) <=> d * D >= N * W
  <2>1. d * den * den = d * D
    BY <1>1, <1>4
  <2>. QED BY <2>1 DEF AtLeast
<1>6. AtLeast(v, b, num, den) <=> e * D >= N * B
  <2>1. e * den * den = e * D
    BY <1>1, <1>4
  <2>. QED BY <2>1 DEF AtLeast
<1>. HIDE DEF d, e, N, D, W, B
<1>7. \A p, q, z \in Nat : /\ p <= q => p * z <= q * z
                           /\ p < q /\ z > 0 => p * z < q * z
  OBVIOUS
<1>8. (d * B) * D <= (e * W) * D
  <2>1. d * B \in Nat /\ e * W \in Nat
    BY <1>1, ProductsNat
  <2>. QED BY <1>1, <1>2, <1>7, <2>1
<1>9. (e * D) * W < (N * B) * W
  <2>1. e * D < N * B
    BY <1>3, <1>6
  <2>. QED BY <1>1, <1>3, <1>7, <2>1
<1>10. (d * D) * B < (N * W) * B
  <2>1. /\ (d * D) * B = (d * B) * D
        /\ (e * W) * D = (e * D) * W
        /\ (N * W) * B = (N * B) * W
    BY <1>1
  <2>2. (d * D) * B \in Nat /\ (e * D) * W \in Nat /\ (N * W) * B \in Nat
    BY <1>1, <1>3, ProductsNat
  <2>. QED BY <1>8, <1>9, <2>1, <2>2
<1>11. ~(d * D >= N * W)
  <2>1. SUFFICES ASSUME d * D >= N * W PROVE FALSE
    OBVIOUS
  <2>2. (N * W) * B <= (d * D) * B
    BY <1>1, <1>3, <1>7, <2>1
  <2>3. (N * W) * B \in Nat /\ (d * D) * B \in Nat
    BY <1>1, <1>3, ProductsNat
  <2>. QED BY <1>10, <2>2, <2>3
<1>. QED BY <1>5, <1>11

(* Nothing in common is below every threshold above zero. *)
LEMMA NothingInCommon ==
    ASSUME NEW v \in Vector, NEW w \in Vector, NonZero(v), NonZero(w),
           NEW num \in Nat \ {0}, NEW den \in Nat, ~(Dot(v, w) > 0)
    PROVE  ~AtLeast(v, w, num, den)
<1>1. Dot(v, w) = 0
  BY DotNat
<1>2. num * num * Dot(v, v) * Dot(w, w) > 0 /\ num * num * Dot(v, v) * Dot(w, w) \in Nat
  <2>1. num \in Nat /\ num > 0 /\ Dot(v, v) \in Nat /\ Dot(v, v) > 0 /\ Dot(w, w) \in Nat /\ Dot(w, w) > 0
    BY NormPositive
  <2>2. num * num \in Nat /\ num * num > 0
    BY <2>1, ProductsNat, Zenon
  <2>3. num * num * Dot(v, v) \in Nat /\ num * num * Dot(v, v) > 0
    BY <2>1, <2>2, ProductsNat, Zenon
  <2>. QED BY <2>1, <2>3, ProductsNat, Zenon
<1>3. Dot(v, w) * Dot(v, w) * den * den = 0
  BY <1>1
<1>. QED BY <1>2, <1>3 DEF AtLeast

(* A higher threshold is harder to reach. *)
LEMMA AtLeastFalls ==
    ASSUME NEW v \in Vector, NEW w \in Vector,
           NEW hn \in Nat, NEW hd \in Nat, NEW ln \in Nat, NEW ld \in Nat, hn > 0,
           ln * hd <= hn * ld, AtLeast(v, w, hn, hd)
    PROVE  AtLeast(v, w, ln, ld)
<1>. DEFINE d == Dot(v, w) * Dot(v, w)
            N == Dot(v, v) * Dot(w, w)
<1>1. d \in Nat /\ N \in Nat
  BY SquareNat, DotNat, ProductsNat
<1>2. \A num, den \in Nat : AtLeast(v, w, num, den) <=> (num * num) * N <= d * (den * den)
  <2>1. \A num, den \in Nat : d * den * den = d * (den * den)
    BY <1>1
  <2>2. \A num, den \in Nat : num * num * Dot(v, v) * Dot(w, w) = (num * num) * N
    <3>1. \A m, p, q \in Nat : m * p * q = m * (p * q)
      OBVIOUS
    <3>2. Dot(v, v) \in Nat /\ Dot(w, w) \in Nat /\ \A num \in Nat : num * num \in Nat
      BY DotNat
    <3>. QED BY <3>1, <3>2
  <2>3. \A num, den \in Nat : d * (den * den) \in Nat /\ (num * num) * N \in Nat
    BY <1>1, ProductsNat
  <2>. QED BY <2>1, <2>2, <2>3 DEF AtLeast
<1>. HIDE DEF d, N
<1>3. (hn * hn) * N <= d * (hd * hd)
  BY <1>2
<1>4. \A p, q, z \in Nat : p <= q => p * z <= q * z
  OBVIOUS
<1>5. (ln * hd) * (ln * hd) <= (hn * ld) * (hn * ld)
  <2>1. \A p, q \in Nat : p <= q => p * p <= q * q
    OBVIOUS
  <2>. QED BY <2>1, ProductsNat
<1>6. ((hn * hn) * N) * (ln * ln) <= (d * (hd * hd)) * (ln * ln)
  BY <1>1, <1>3, <1>4, ProductsNat
<1>7. ((ln * hd) * (ln * hd)) * d <= ((hn * ld) * (hn * ld)) * d
  BY <1>1, <1>4, <1>5, ProductsNat
<1>8. ((ln * ln) * N) * (hn * hn) <= (d * (ld * ld)) * (hn * hn)
  <2>1. /\ ((ln * ln) * N) * (hn * hn) = ((hn * hn) * N) * (ln * ln)
        /\ (d * (hd * hd)) * (ln * ln) = ((ln * hd) * (ln * hd)) * d
        /\ (d * (ld * ld)) * (hn * hn) = ((hn * ld) * (hn * ld)) * d
    BY <1>1
  <2>2. /\ ((hn * hn) * N) * (ln * ln) \in Nat /\ (d * (hd * hd)) * (ln * ln) \in Nat
        /\ ((hn * ld) * (hn * ld)) * d \in Nat
    BY <1>1, ProductsNat
  <2>. QED BY <1>6, <1>7, <2>1, <2>2
<1>9. \A p, q, z \in Nat : z > 0 /\ p * z <= q * z => p <= q
  OBVIOUS
<1>10. (ln * ln) * N <= d * (ld * ld)
  <2>1. (ln * ln) * N \in Nat /\ d * (ld * ld) \in Nat /\ hn * hn \in Nat /\ hn * hn > 0
    BY <1>1, ProductsNat
  <2>. QED BY <1>8, <1>9, <2>1
<1>. QED BY <1>2, <1>10

----------------------------------------------------------------------------
(* The search finds the best of the live entries.                          *)

Live(prompt, t) == {id \in IDs : /\ ~Expired(SemanticEntries[id], t)
                                 /\ Dot(prompt.vec, SemanticEntries[id].Vector) > 0}

IsExact(vec, id) == AtLeast(vec, SemanticEntries[id].Vector, ExactNum, ExactDen)

NoneCloser(vec, id, seen) ==
    \A j \in seen : ~Closer(vec, SemanticEntries[j].Vector, SemanticEntries[id].Vector)

BestOf(vec, best, seen) ==
    IF best = NoMatch THEN seen = {}
    ELSE best \in seen /\ (IsExact(vec, best) \/ NoneCloser(vec, best, seen))

LEMMA BestOfOneMore ==
    ASSUME CacheTypes, NEW vec \in Vector, NEW seen \in SUBSET IDs, NEW x \in IDs,
           NEW best \in IDs \cup {NoMatch}, BestOf(vec, best, seen)
    PROVE  BestOf(vec, IF Better(vec, best, x) THEN x ELSE best, seen \cup {x})
<1>1. \A j \in IDs : /\ SemanticEntries[j].Vector \in Vector
                     /\ NonZero(SemanticEntries[j].Vector)
                     /\ j # NoMatch
  BY EntryFields DEF NoMatch
<1>2. \A j \in IDs : ~Closer(vec, SemanticEntries[j].Vector, SemanticEntries[j].Vector)
  BY <1>1, CloserIsStrict
<1>3. CASE best = NoMatch
  <2>1. Better(vec, best, x) /\ seen = {}
    BY <1>3, Zenon DEF Better, BestOf
  <2>2. NoneCloser(vec, x, seen \cup {x})
    BY <1>2, <2>1 DEF NoneCloser
  <2>. QED BY <1>1, <2>1, <2>2 DEF BestOf
<1>4. CASE best # NoMatch
  <2>1. best \in IDs /\ best \in seen /\ (IsExact(vec, best) \/ NoneCloser(vec, best, seen))
    BY <1>4 DEF BestOf
  <2>2. CASE IsExact(vec, best)
    <3>1. ~Better(vec, best, x)
      BY <1>4, <2>2 DEF Better, IsExact
    <3>. QED BY <1>4, <2>1, <2>2, <3>1 DEF BestOf
  <2>3. CASE /\ ~IsExact(vec, best)
             /\ Closer(vec, SemanticEntries[x].Vector, SemanticEntries[best].Vector)
    <3>1. Better(vec, best, x)
      BY <2>3, Zenon DEF Better, IsExact
    <3>2. ASSUME NEW j \in seen
          PROVE  ~Closer(vec, SemanticEntries[j].Vector, SemanticEntries[x].Vector)
      <4>1. ~Closer(vec, SemanticEntries[j].Vector, SemanticEntries[best].Vector)
        BY <2>1, <2>3 DEF NoneCloser
      <4>2. ~Closer(vec, SemanticEntries[best].Vector, SemanticEntries[x].Vector)
        BY <1>1, <2>1, <2>3, CloserIsStrict
      <4>. QED BY <1>1, <2>1, <4>1, <4>2, NotCloserTransitive
    <3>3. NoneCloser(vec, x, seen \cup {x})
      BY <1>2, <3>2 DEF NoneCloser
    <3>. QED BY <1>1, <3>1, <3>3 DEF BestOf
  <2>4. CASE /\ ~IsExact(vec, best)
             /\ ~Closer(vec, SemanticEntries[x].Vector, SemanticEntries[best].Vector)
    <3>1. ~Better(vec, best, x)
      BY <1>4, <2>4, Zenon DEF Better
    <3>2. NoneCloser(vec, best, seen \cup {x})
      BY <2>1, <2>4 DEF NoneCloser
    <3>. QED BY <1>4, <2>1, <3>1, <3>2 DEF BestOf
  <2>. QED BY <2>2, <2>3, <2>4
<1>. QED BY <1>3, <1>4

LEMMA MatchFound ==
    ASSUME CacheTypes, IndexComplete, NEW prompt \in Prompts, NEW t
    PROVE  BestOf(prompt.vec, FindBestMatch(prompt, t), Live(prompt, t))
<1>. DEFINE q == FindCandidates(prompt.vec)
            n == Len(q)
            Seen(k) == {id \in IDs : ~Expired(SemanticEntries[id], t) /\ \E i \in 1..k : id = q[i]}
<1>1. PICK r \in [0..n -> IDs \cup {NoMatch}] :
         /\ r[0] = NoMatch
         /\ \A k \in 1..n :
               r[k] = IF Goes(prompt, t, r[k - 1], q[k]) THEN q[k] ELSE r[k - 1]
         /\ FindBestMatch(prompt, t) = r[n]
  BY SearchSteps
<1>2. /\ n \in Nat
      /\ \A i \in 1..n : q[i] \in IDs
      /\ ToSet(q) = {q[i] : i \in 1..n}
      /\ ToSet(q) = {id \in IDs : Dot(prompt.vec, SemanticEntries[id].Vector) > 0}
  <2>1. q \in Seq(Nat) /\ ToSet(q) = {id \in IDs : Dot(prompt.vec, SemanticEntries[id].Vector) > 0}
    BY CandidatesAre, PromptVector
  <2>2. n \in Nat /\ DOMAIN q = 1..n
    BY <2>1, LenProperties
  <2>3. ToSet(q) = {q[i] : i \in 1..n}
    BY <2>2, Zenon DEF ToSet
  <2>. QED BY <2>1, <2>2, <2>3
<1>. HIDE DEF q, n
<1>. DEFINE S == {k \in 0..n : BestOf(prompt.vec, r[k], Seen(k))}
<1>3. 0 \in S
  <2>1. Seen(0) = {}
    OBVIOUS
  <2>2. 0 \in 0..n
    BY <1>2
  <2>. QED BY <1>1, <2>1, <2>2, Zenon DEF BestOf
<1>4. ASSUME NEW k \in 1..n, k - 1 \in S PROVE k \in S
  <2>1. k \in 0..n /\ k - 1 \in 0..n /\ q[k] \in IDs /\ r[k - 1] \in IDs \cup {NoMatch}
    BY <1>2
  <2>2. BestOf(prompt.vec, r[k - 1], Seen(k - 1))
    BY <1>4
  <2>3. r[k] = IF Goes(prompt, t, r[k - 1], q[k]) THEN q[k] ELSE r[k - 1]
    BY <1>1, Zenon
  <2>4. Seen(k) = IF Expired(SemanticEntries[q[k]], t) THEN Seen(k - 1) ELSE Seen(k - 1) \cup {q[k]}
    <3>1. \A i : i \in 1..k <=> i \in 1..(k - 1) \/ i = k
      BY <1>2
    <3>. QED BY <2>1, <3>1
  <2>5. Seen(k - 1) \in SUBSET IDs
    OBVIOUS
  <2>. HIDE DEF Seen
  <2>6. CASE Expired(SemanticEntries[q[k]], t)
    <3>1. r[k] = r[k - 1] /\ Seen(k) = Seen(k - 1)
      BY <2>3, <2>4, <2>6, Zenon DEF Goes
    <3>2. BestOf(prompt.vec, r[k], Seen(k))
      BY <2>2, <3>1
    <3>. QED BY <2>1, <3>2
  <2>7. CASE ~Expired(SemanticEntries[q[k]], t)
    <3>1. r[k] = IF Better(prompt.vec, r[k - 1], q[k]) THEN q[k] ELSE r[k - 1]
      BY <2>3, <2>7, Zenon DEF Goes
    <3>2. Seen(k) = Seen(k - 1) \cup {q[k]}
      BY <2>4, <2>7, Zenon
    <3>3. BestOf(prompt.vec, IF Better(prompt.vec, r[k - 1], q[k]) THEN q[k] ELSE r[k - 1],
                 Seen(k - 1) \cup {q[k]})
      BY <2>1, <2>2, <2>5, BestOfOneMore, PromptVector, Zenon
    <3>4. BestOf(prompt.vec, r[k], Seen(k))
      BY <3>1, <3>2, <3>3, Zenon
    <3>. QED BY <2>1, <3>4
  <2>. QED BY <2>6, <2>7
<1>5. BestOf(prompt.vec, r[n], Seen(n))
  <2>. HIDE DEF S
  <2>1. \A k \in 0..n : k \in S
    BY <1>2, <1>3, <1>4, UpTo
  <2>2. n \in S
    BY <1>2, <2>1
  <2>. QED BY <2>2 DEF S
<1>6. Seen(n) = Live(prompt, t)
  BY <1>2 DEF Live
<1>. HIDE DEF Seen
<1>. QED BY <1>1, <1>5, <1>6

(* In the words of the model. *)
LEMMA MatchIsFound ==
    ASSUME CacheTypes, IndexComplete, NEW prompt \in Prompts, NEW t \in Nat
    PROVE  IsBestMatch(FindBestMatch(prompt, t), prompt, t)
<1>1. Live(prompt, t) = {j \in DOMAIN SemanticEntries :
                           /\ t - SemanticEntries[j].Timestamp <= Window
                           /\ Dot(prompt.vec, SemanticEntries[j].Vector) > 0}
  <2>1. \A id \in IDs : ~Expired(SemanticEntries[id], t) <=> t - SemanticEntries[id].Timestamp <= Window
    BY EntryFields, CacheAssumption DEF Expired
  <2>. QED BY <2>1 DEF Live, IDs
<1>2. BestOf(prompt.vec, FindBestMatch(prompt, t), Live(prompt, t))
  BY MatchFound
<1>. QED BY <1>1, <1>2, Zenon DEF IsBestMatch, BestOf, IsExact, NoneCloser

----------------------------------------------------------------------------
(* A prompt is stored.                                                     *)

LEMMA AppendFacts ==
    ASSUME NEW X, NEW s \in Seq(X), NEW x \in X
    PROVE  /\ Append(s, x) \in Seq(X) /\ Len(s) \in Nat
           /\ DOMAIN s = 1..Len(s) /\ DOMAIN Append(s, x) = 1..(Len(s) + 1)
           /\ \A i \in 1..Len(s) : Append(s, x)[i] = s[i]
           /\ Append(s, x)[Len(s) + 1] = x
           /\ ToSet(Append(s, x)) = ToSet(s) \cup {x}
<1>1. /\ Append(s, x) \in Seq(X) /\ Len(Append(s, x)) = Len(s) + 1 /\ Len(s) \in Nat
      /\ (\A i \in 1..Len(s) : Append(s, x)[i] = s[i]) /\ Append(s, x)[Len(s) + 1] = x
  OBVIOUS
<1>2. DOMAIN Append(s, x) = 1..(Len(s) + 1) /\ DOMAIN s = 1..Len(s)
  BY <1>1, LenProperties
<1>3. \A i : i \in 1..(Len(s) + 1) <=> i \in 1..Len(s) \/ i = Len(s) + 1
  BY <1>1
<1>4. ToSet(Append(s, x)) = ToSet(s) \cup {x}
  BY <1>1, <1>2, <1>3 DEF ToSet
<1>. QED BY <1>1, <1>2, <1>4

New(prompt) == [Vector |-> prompt.vec, Response |-> prompt.gt, Timestamp |-> now]

LEMMA StoredEntry ==
    ASSUME CacheTypes, NEW prompt \in Prompts, SetSemantic(prompt, prompt.gt, now)
    PROVE  /\ SemanticEntries' \in Seq(Entry)
           /\ IDs' = IDs \cup {Len(SemanticEntries) + 1}
           /\ Len(SemanticEntries) + 1 \in Nat
           /\ \A id \in IDs : id \in Nat /\ id < Len(SemanticEntries) + 1
           /\ \A id \in IDs : SemanticEntries'[id] = SemanticEntries[id]
           /\ SemanticEntries'[Len(SemanticEntries) + 1] = New(prompt)
<1>1. now \in Nat
  BY CacheAssumption DEF CacheTypes
<1>2. New(prompt) \in Entry
  BY <1>1, PromptVector, Zenon DEF New, Entry
<1>3. SemanticEntries \in Seq(Entry) /\ SemanticEntries' = Append(SemanticEntries, New(prompt))
  BY Zenon DEF SetSemantic, New, CacheTypes
<1>. DEFINE s == SemanticEntries
<1>4. /\ Append(s, New(prompt)) \in Seq(Entry) /\ Len(s) \in Nat
      /\ DOMAIN s = 1..Len(s) /\ DOMAIN Append(s, New(prompt)) = 1..(Len(s) + 1)
      /\ \A i \in 1..Len(s) : Append(s, New(prompt))[i] = s[i]
      /\ Append(s, New(prompt))[Len(s) + 1] = New(prompt)
  <2>1. SemanticEntries \in Seq(Entry)
    BY <1>3
  <2>. HIDE DEF New
  <2>. QED BY ONLY <1>2, <2>1, AppendFacts
<1>5. /\ IDs = 1..Len(s) /\ IDs' = 1..(Len(s) + 1) /\ Len(s) \in Nat
      /\ SemanticEntries' \in Seq(Entry)
      /\ \A i \in 1..Len(s) : SemanticEntries'[i] = s[i]
      /\ SemanticEntries'[Len(s) + 1] = New(prompt)
  BY <1>3, <1>4, Zenon DEF IDs
<1>6. \A i : i \in 1..(Len(s) + 1) <=> i \in 1..Len(s) \/ i = Len(s) + 1
  BY <1>5
<1>7. \A i \in 1..Len(s) : i \in Nat /\ i < Len(s) + 1
  BY <1>5
<1>8. IDs' = IDs \cup {Len(s) + 1}
  BY <1>5, <1>6
<1>9. Len(s) + 1 \in Nat
  BY <1>5
<1>. QED BY <1>5, <1>7, <1>8, <1>9, Zenon

LEMMA StoreKeepsTypes ==
    ASSUME CacheTypes, NEW prompt \in Prompts, SetSemantic(prompt, prompt.gt, now),
           now' = now + 1, queries' = queries + 1
    PROVE  CacheTypes'
<1>1. now \in Nat /\ queries \in Nat /\ Window \in Nat /\ now = Window + queries
  BY CacheAssumption DEF CacheTypes
<1>2. ASSUME NEW id \in IDs'
      PROVE  NonZero(SemanticEntries'[id].Vector) /\ SemanticEntries'[id].Timestamp < now'
  <2>1. CASE id \in IDs
    <3>1. SemanticEntries'[id] = SemanticEntries[id]
      BY <2>1, StoredEntry
    <3>2. NonZero(SemanticEntries[id].Vector) /\ SemanticEntries[id].Timestamp \in Nat
          /\ SemanticEntries[id].Timestamp < now
      BY <2>1, EntryFields
    <3>. QED BY <1>1, <3>1, <3>2
  <2>2. CASE id = Len(SemanticEntries) + 1
    <3>1. SemanticEntries'[id] = New(prompt)
      BY <2>2, StoredEntry
    <3>2. SemanticEntries'[id].Vector = prompt.vec /\ SemanticEntries'[id].Timestamp = now
      BY <3>1 DEF New
    <3>. QED BY <1>1, <3>2, PromptVector
  <2>. QED BY <1>2, <2>1, <2>2, StoredEntry
<1>3. InvertedIndex' \in [Dim -> Seq(Nat)]
  <2>1. ASSUME NEW i \in Dim
        PROVE  (IF prompt.vec[i] > 0 THEN Append(InvertedIndex[i], Len(SemanticEntries) + 1)
                                     ELSE InvertedIndex[i]) \in Seq(Nat)
    <3>1. InvertedIndex[i] \in Seq(Nat) /\ Len(SemanticEntries) + 1 \in Nat
      BY StoredEntry DEF CacheTypes
    <3>. QED BY <3>1, AppendFacts
  <2>. QED BY <2>1 DEF SetSemantic
<1>4. now' = Window + queries' /\ queries' \in Nat
  BY <1>1
<1>5. SemanticEntries' \in Seq(Entry)
  BY StoredEntry
<1>. QED BY <1>2, <1>3, <1>4, <1>5, Zenon DEF CacheTypes, IDs

LEMMA StoreKeepsIndex ==
    ASSUME CacheTypes, IndexComplete, NEW prompt \in Prompts,
           SetSemantic(prompt, prompt.gt, now)
    PROVE  IndexComplete'
<1>. DEFINE new == Len(SemanticEntries) + 1
<1>1. /\ IDs' = IDs \cup {new} /\ new \in Nat
      /\ \A id \in IDs : id \in Nat /\ id < new
      /\ \A id \in IDs : SemanticEntries'[id].Vector = SemanticEntries[id].Vector
      /\ SemanticEntries'[new].Vector = prompt.vec
  <2>1. New(prompt).Vector = prompt.vec
    BY DEF New
  <2>. QED BY <2>1, StoredEntry, Zenon
<1>. HIDE DEF new
<1>2. SUFFICES ASSUME NEW i \in Dim
               PROVE  /\ ToSet(InvertedIndex'[i]) = {id \in IDs' : SemanticEntries'[id].Vector[i] > 0}
                      /\ \A a, b \in DOMAIN InvertedIndex'[i] :
                            a < b => InvertedIndex'[i][a] < InvertedIndex'[i][b]
  BY Zenon DEF IndexComplete, IDs
<1>. DEFINE s == InvertedIndex[i]
<1>3. /\ s \in Seq(Nat) /\ ToSet(s) = {id \in IDs : SemanticEntries[id].Vector[i] > 0}
      /\ \A a, b \in DOMAIN s : a < b => s[a] < s[b]
  BY DEF CacheTypes, IndexComplete, IDs
<1>4. InvertedIndex'[i] = IF prompt.vec[i] > 0 THEN Append(s, new) ELSE s
  BY Zenon DEF SetSemantic, new
<1>. HIDE DEF s
<1>5. CASE ~(prompt.vec[i] > 0)
  <2>1. InvertedIndex'[i] = s
    BY <1>4, <1>5, Zenon
  <2>2. ASSUME NEW id PROVE id \in IDs' /\ SemanticEntries'[id].Vector[i] > 0
                        <=> id \in IDs /\ SemanticEntries[id].Vector[i] > 0
    <3>1. CASE id = new
      BY <1>1, <1>5, <3>1
    <3>2. CASE id # new
      BY <1>1, <3>2, Zenon
    <3>. QED BY <3>1, <3>2
  <2>. QED BY <1>3, <2>1, <2>2
<1>6. CASE prompt.vec[i] > 0
  <2>1. InvertedIndex'[i] = Append(s, new)
    BY <1>4, <1>6, Zenon
  <2>2. /\ Append(s, new) \in Seq(Nat) /\ Len(s) \in Nat
        /\ DOMAIN s = 1..Len(s) /\ DOMAIN Append(s, new) = 1..(Len(s) + 1)
        /\ \A k \in 1..Len(s) : Append(s, new)[k] = s[k]
        /\ Append(s, new)[Len(s) + 1] = new
        /\ ToSet(Append(s, new)) = ToSet(s) \cup {new}
    <3>1. new \in Nat /\ s \in Seq(Nat)
      BY <1>1, <1>3, Zenon
    <3>. QED BY ONLY <3>1, AppendFacts
  <2>3. ToSet(InvertedIndex'[i]) = {id \in IDs' : SemanticEntries'[id].Vector[i] > 0}
    <3>1. ASSUME NEW id PROVE id \in IDs' /\ SemanticEntries'[id].Vector[i] > 0
                          <=> (id \in IDs /\ SemanticEntries[id].Vector[i] > 0) \/ id = new
      <4>1. CASE id = new
        <5>1. id \in IDs' /\ SemanticEntries'[id].Vector = prompt.vec
          BY <1>1, <4>1, Zenon
        <5>. QED BY <1>6, <4>1, <5>1, Zenon
      <4>2. CASE id # new
        BY <1>1, <4>2, Zenon
      <4>. QED BY <4>1, <4>2
    <3>. QED BY <1>3, <2>1, <2>2, <3>1
  <2>4. ASSUME NEW a \in 1..(Len(s) + 1), NEW b \in 1..(Len(s) + 1), a < b
        PROVE  Append(s, new)[a] < Append(s, new)[b]
    <3>1. a \in 1..Len(s) /\ Append(s, new)[a] = s[a]
      BY <2>2, <2>4
    <3>2. CASE b \in 1..Len(s)
      <4>1. s[a] < s[b]
        BY <1>3, <2>2, <2>4, <3>1, <3>2
      <4>. QED BY <2>2, <3>1, <3>2, <4>1
    <3>3. CASE b = Len(s) + 1
      <4>1. s[a] \in ToSet(s)
        BY <2>2, <3>1, Zenon DEF ToSet
      <4>2. s[a] < new
        BY <1>1, <1>3, <4>1
      <4>. QED BY <2>2, <3>1, <3>3, <4>2
    <3>. QED BY <2>2, <3>2, <3>3
  <2>. QED BY <2>1, <2>2, <2>3, <2>4
<1>. QED BY <1>5, <1>6

LEMMA StoreKeepsApart ==
    ASSUME CacheTypes, IndexComplete, NoNearDuplicates, NEW prompt \in Prompts, Store(prompt),
           SetSemantic(prompt, prompt.gt, now)
    PROVE  NoNearDuplicates'
<1>. DEFINE new == Len(SemanticEntries) + 1
<1>1. /\ IDs' = IDs \cup {new} /\ new \in Nat
      /\ \A id \in IDs : id \in Nat /\ id < new
      /\ \A id \in IDs : SemanticEntries'[id] = SemanticEntries[id]
      /\ SemanticEntries'[new].Vector = prompt.vec
      /\ SemanticEntries'[new].Timestamp = now
  <2>1. New(prompt).Vector = prompt.vec /\ New(prompt).Timestamp = now
    BY DEF New
  <2>. QED BY <2>1, StoredEntry, Zenon
<1>. HIDE DEF new
<1>. DEFINE v == prompt.vec
            best == FindBestMatch(prompt, now)
<1>2. /\ v \in Vector /\ NonZero(v)
      /\ \A j \in IDs : /\ SemanticEntries[j].Vector \in Vector
                        /\ NonZero(SemanticEntries[j].Vector)
  BY EntryFields, PromptVector
<1>3. /\ StoreNum \in Nat \ {0} /\ StoreDen \in Nat \ {0} /\ ExactNum \in Nat \ {0} /\ ExactDen \in Nat
      /\ StoreNum * ExactDen <= ExactNum * StoreDen
  BY CacheAssumption, PromptsAssumption
<1>4. best = NoMatch \/ ~AtLeast(v, SemanticEntries[best].Vector, StoreNum, StoreDen)
  BY Zenon DEF Store, SemanticHit
<1>5. BestOf(v, best, Live(prompt, now))
  BY MatchFound
<1>. HIDE DEF best, v
<1>6. ASSUME NEW i \in IDs, ~Expired(SemanticEntries[i], now)
      PROVE  ~AtLeast(v, SemanticEntries[i].Vector, StoreNum, StoreDen)
  <2>1. CASE ~(Dot(v, SemanticEntries[i].Vector) > 0)
    BY <1>2, <1>3, <2>1, NothingInCommon
  <2>2. CASE Dot(v, SemanticEntries[i].Vector) > 0
    <3>1. i \in Live(prompt, now)
      BY <1>6, <2>2 DEF Live, v
    <3>2. best # NoMatch /\ best \in IDs
          /\ (IsExact(v, best) \/ NoneCloser(v, best, Live(prompt, now)))
      BY <1>5, <3>1 DEF BestOf, Live
    <3>3. ~AtLeast(v, SemanticEntries[best].Vector, StoreNum, StoreDen)
      BY <1>4, <3>2
    <3>4. ~IsExact(v, best)
      <4>1. SUFFICES ASSUME AtLeast(v, SemanticEntries[best].Vector, ExactNum, ExactDen) PROVE FALSE
        BY DEF IsExact
      <4>2. ExactNum \in Nat /\ ExactNum > 0 /\ StoreNum \in Nat /\ StoreDen \in Nat
        BY <1>3
      <4>3. AtLeast(v, SemanticEntries[best].Vector, StoreNum, StoreDen)
        BY <1>2, <1>3, <3>2, <4>1, <4>2, AtLeastFalls
      <4>. QED BY <3>3, <4>3
    <3>5. ~Closer(v, SemanticEntries[i].Vector, SemanticEntries[best].Vector)
      BY <3>1, <3>2, <3>4 DEF NoneCloser
    <3>6. StoreNum \in Nat /\ StoreDen \in Nat
      BY <1>3
    <3>. QED BY <1>2, <3>2, <3>3, <3>5, <3>6, BelowPassesOn
  <2>. QED BY <2>1, <2>2
<1>7. SUFFICES ASSUME NEW i \in IDs', NEW j \in IDs', i < j,
                      ~Expired(SemanticEntries'[i], SemanticEntries'[j].Timestamp)
               PROVE  ~AtLeast(SemanticEntries'[j].Vector, SemanticEntries'[i].Vector,
                               StoreNum, StoreDen)
  BY Zenon DEF NoNearDuplicates, IDs
<1>8. i \in IDs /\ SemanticEntries'[i] = SemanticEntries[i]
  BY <1>1, <1>7
<1>9. CASE j \in IDs
  <2>1. SemanticEntries'[j] = SemanticEntries[j]
    BY <1>1, <1>9
  <2>2. ~Expired(SemanticEntries[i], SemanticEntries[j].Timestamp)
    BY <1>7, <1>8, <2>1, Zenon
  <2>. QED BY <1>7, <1>8, <1>9, <2>1, <2>2 DEF NoNearDuplicates, IDs
<1>10. CASE j = new
  <2>1. SemanticEntries'[j].Vector = v /\ SemanticEntries'[j].Timestamp = now
    BY <1>1, <1>10 DEF v
  <2>2. ~Expired(SemanticEntries[i], now)
    BY <1>7, <1>8, <2>1, Zenon
  <2>. QED BY <1>6, <1>8, <2>1, <2>2, Zenon
<1>. QED BY <1>1, <1>9, <1>10

----------------------------------------------------------------------------
(***************************************************************************)
(* The records, the curve and the working point.                           *)
(***************************************************************************)

RecordTypes ==
    /\ IsFiniteSet(Records)
    /\ \A rec \in Records : records[rec] \in Nat
    /\ Records \subseteq Record
    /\ BagCardinality(records) = queries

(* A record that reaches a threshold reaches all lower ones. *)
LowerToo == \A rec \in Records, lo, hi \in ToSet(Thresholds) :
                lo < hi /\ hi \in rec.BestSim => lo \in rec.BestSim

(* What is reported is the choice from the records of the whole corpus. *)
Chosen ==
    /\ chosen \in 0..Len(Thresholds)
    /\ reported # {} => /\ CorpusEnded
                        /\ Choose # 0
                        /\ chosen = Choose
                        /\ reported = {FinalFigures(Thresholds[chosen])}

PrefixTypes ==
    \A key \in DOMAIN PrefixMap : PrefixMap[key].Timestamp \in 0..(now - 1)

CorpusInv == /\ CacheTypes /\ queries <= MaxQueries
             /\ PrefixTypes
             /\ IndexComplete
             /\ NoNearDuplicates
             /\ RecordTypes
             /\ LowerToo
             /\ Chosen

LEMMA DivisionFacts ==
    ASSUME NEW x \in Nat, NEW d \in Nat, d > 0
    PROVE  /\ x \div d \in Nat
           /\ (x \div d) * d <= x
           /\ x < (x \div d) * d + d
    BY SMTT(30)

LEMMA Round3Facts ==
    ASSUME NEW a \in Nat, NEW b \in Nat \ {0}
    PROVE  /\ Round3(a, b) \in Nat
           /\ \A c \in Nat : a <= c => Round3(a, b) <= Round3(c, b)
           /\ \A m \in Nat : Round3(a, b) <= m => 2000 * a <= (2 * m + 1) * b
<1>. DEFINE d == 2 * b
            x(c) == 2000 * c + b
<1>1. d \in Nat /\ d > 0 /\ \A c \in Nat : x(c) \in Nat /\ Round3(c, b) = x(c) \div d
  BY DEF Round3
<1>. HIDE DEF d, x
<1>2. \A c \in Nat : /\ Round3(c, b) \in Nat
                     /\ Round3(c, b) * d <= x(c)
                     /\ x(c) < Round3(c, b) * d + d
  <2>1. SUFFICES ASSUME NEW c \in Nat
                 PROVE  /\ x(c) \div d \in Nat
                        /\ (x(c) \div d) * d <= x(c)
                        /\ x(c) < (x(c) \div d) * d + d
    BY <1>1
  <2>2. x(c) \in Nat /\ d \in Nat /\ d > 0
    BY <1>1
  <2>. QED BY ONLY <2>2, DivisionFacts
<1>3. ASSUME NEW c \in Nat, a <= c PROVE Round3(a, b) <= Round3(c, b)
  <2>1. x(a) <= x(c) /\ x(a) \in Nat /\ x(c) \in Nat
    BY <1>3 DEF x
  <2>2. \A p, q \in Nat : p * d < q * d + d => p <= q
    <3>1. ASSUME NEW p \in Nat, NEW q \in Nat, q + 1 <= p PROVE q * d + d <= p * d
      <4>1. (q + 1) * d <= p * d
        <5>1. \A u, v, z \in Nat : u <= v => u * z <= v * z
          OBVIOUS
        <5>. QED BY <1>1, <3>1, <5>1
      <4>. QED BY <1>1, <4>1
    <3>2. \A p, q \in Nat : p * d \in Nat /\ q * d \in Nat
      BY <1>1, ProductsNat
    <3>. QED BY <1>1, <3>1, <3>2
  <2>3. Round3(a, b) * d \in Nat /\ Round3(c, b) * d \in Nat
    BY <1>1, <1>2, ProductsNat
  <2>4. Round3(a, b) * d < Round3(c, b) * d + d
    BY <1>1, <1>2, <2>1, <2>3
  <2>. QED BY <1>2, <2>2, <2>4
<1>4. ASSUME NEW m \in Nat, Round3(a, b) <= m PROVE 2000 * a <= (2 * m + 1) * b
  <2>1. Round3(a, b) * d <= m * d /\ Round3(a, b) * d \in Nat /\ m * d \in Nat
    <3>1. \A u, v, z \in Nat : u <= v => u * z <= v * z
      OBVIOUS
    <3>. QED BY <1>1, <1>2, <1>4, <3>1, ProductsNat
  <2>2. x(a) < m * d + d /\ x(a) \in Nat
    BY <1>1, <1>2, <2>1
  <2>3. m * d = 2 * (m * b) /\ m * b \in Nat /\ (2 * m + 1) * b = 2 * (m * b) + b
    BY DEF d
  <2>. QED BY <2>2, <2>3 DEF x, d
<1>. QED BY <1>2, <1>3, <1>4

LEMMA CountFacts ==
    ASSUME RecordTypes
    PROVE  /\ \A s \in SUBSET Records : Count(s) \in Nat
           /\ \A s \in SUBSET Records : \A t \in SUBSET s : Count(t) <= Count(s)
    BY SumFacts, SumMonotone DEF RecordTypes, Count

----------------------------------------------------------------------------
(* The curve falls. *)

AllHits(th) == SemHits(th) \cup {rec \in Records : rec.PrefixHit}
FalseHits(th) == {rec \in SemHits(th) : ~rec.Correct}

LEMMA CurvePoints ==
    ASSUME RecordTypes, NEW th
    PROVE  /\ SemHits(th) \in SUBSET Records
           /\ AllHits(th) \in SUBSET Records
           /\ FalseHits(th) \in SUBSET AllHits(th)
           /\ Count(SemHits(th)) \in Nat /\ Count(AllHits(th)) \in Nat /\ Count(FalseHits(th)) \in Nat
           /\ Count(FalseHits(th)) <= Count(AllHits(th))
           /\ TradeoffPoint(th) = Figures(Count(SemHits(th)), Count(AllHits(th)), Count(FalseHits(th)))
<1>1. /\ SemHits(th) \in SUBSET Records
      /\ AllHits(th) \in SUBSET Records
      /\ FalseHits(th) \in SUBSET AllHits(th)
      /\ FalseHits(th) \in SUBSET Records
  BY DEF SemHits, AllHits, FalseHits
<1>2. TradeoffPoint(th) = Figures(Count(SemHits(th)), Count(AllHits(th)), Count(FalseHits(th)))
  BY Zenon DEF TradeoffPoint, AllHits, FalseHits
<1>. QED BY <1>1, <1>2, CountFacts

LEMMA ThresholdFacts ==
    /\ Len(Thresholds) \in Nat /\ DOMAIN Thresholds = 1..Len(Thresholds)
    /\ \A i \in 1..Len(Thresholds) : /\ Thresholds[i] \in 1..100
                                     /\ Thresholds[i] \in ToSet(Thresholds)
    /\ \A i, j \in 1..Len(Thresholds) : i < j => Thresholds[i] < Thresholds[j]
<1>1. Thresholds \in Seq(1..100)
  BY PromptsAssumption
<1>2. Len(Thresholds) \in Nat /\ DOMAIN Thresholds = 1..Len(Thresholds)
  BY <1>1, LenProperties
<1>. QED BY <1>1, <1>2, PromptsAssumption DEF ToSet

LEMMA CurveFalls ==
    ASSUME RecordTypes, LowerToo, queries \in Nat \ {0},
           NEW i \in 1..Len(Thresholds), NEW j \in 1..Len(Thresholds), i < j
    PROVE  ~Improves(CalcTradeoffCurve[j], CalcTradeoffCurve[i])
<1>. DEFINE hi == Thresholds[j]
            lo == Thresholds[i]
<1>1. lo < hi /\ lo \in ToSet(Thresholds) /\ hi \in ToSet(Thresholds)
  BY ThresholdFacts
<1>2. CalcTradeoffCurve[j] = TradeoffPoint(hi) /\ CalcTradeoffCurve[i] = TradeoffPoint(lo)
  BY ThresholdFacts, Zenon DEF CalcTradeoffCurve
<1>. HIDE DEF hi, lo
<1>3. AllHits(hi) \in SUBSET AllHits(lo)
  BY <1>1 DEF AllHits, SemHits, LowerToo
<1>4. /\ AllHits(lo) \in SUBSET Records
      /\ Count(AllHits(hi)) \in Nat /\ Count(AllHits(lo)) \in Nat
      /\ TradeoffPoint(hi).Combined = Round3(Count(AllHits(hi)), queries)
      /\ TradeoffPoint(lo).Combined = Round3(Count(AllHits(lo)), queries)
  BY CurvePoints DEF Figures
<1>5. Count(AllHits(hi)) <= Count(AllHits(lo))
  BY <1>3, <1>4, CountFacts
<1>6. /\ Round3(Count(AllHits(hi)), queries) <= Round3(Count(AllHits(lo)), queries)
      /\ Round3(Count(AllHits(hi)), queries) \in Nat /\ Round3(Count(AllHits(lo)), queries) \in Nat
  <2>1. \A a \in Nat : /\ Round3(a, queries) \in Nat
                       /\ \A c \in Nat : a <= c => Round3(a, queries) <= Round3(c, queries)
    BY Round3Facts
  <2>. QED BY <1>4, <1>5, <2>1, Zenon
<1>. QED BY <1>2, <1>4, <1>6 DEF Improves

Takes(best, i) == /\ Works(CalcTradeoffCurve[i])
                  /\ best = 0 \/ Improves(CalcTradeoffCurve[i], CalcTradeoffCurve[best])

LEMMA ChoiceSteps ==
    \E r \in [0..Len(Thresholds) -> 0..Len(Thresholds)] :
        /\ r[0] = 0
        /\ \A k \in 1..Len(Thresholds) : r[k] = IF Takes(r[k - 1], k) THEN k ELSE r[k - 1]
        /\ Choose = r[Len(Thresholds)]
<1>. DEFINE n == Len(Thresholds)
            V == 0..n
            D == [i \in DOMAIN CalcTradeoffCurve |-> i]
            Go(best, i) == IF Takes(best, i) THEN i ELSE best
            Iter(g) == g = [s \in SUBSET DOMAIN D |->
                              IF s = {} THEN 0 ELSE Go(g[s \ {Max(s)}], D[Max(s)])]
            it == CHOOSE g : Iter(g)
            step == [x \in V \X (1..n) |-> Go(x[1], x[2])]
<1>1. n \in Nat /\ DOMAIN D = 1..n /\ \A i \in 1..n : D[i] = i
  BY ThresholdFacts DEF CalcTradeoffCurve
<1>2. Choose = it[1..n]
  <2>1. Choose = it[DOMAIN D]
    BY Zenon DEF Choose, FoldLeftDomain, FoldLeft, MapThenFoldSet, Takes
  <2>. HIDE DEF it
  <2>. QED BY <1>1, <2>1
<1>3. \A b \in V, i \in 1..n : Go(b, i) \in V
  <2>1. \A i \in 1..n : i \in 0..n
    OBVIOUS
  <2>. QED BY <2>1, Zenon
<1>4. 0 \in V
  BY <1>1
<1>. HIDE DEF Go, V, n, D
<1>5. step \in [V \X (1..n) -> V]
  <2>1. ASSUME NEW x \in V \X (1..n) PROVE Go(x[1], x[2]) \in V
    <3>1. x[1] \in V /\ x[2] \in 1..n
      OBVIOUS
    <3>. QED BY <1>3, <3>1, Zenon
  <2>. QED BY <2>1
<1>6. \A b \in V, i \in 1..n : step[<<b, i>>] = Go(b, i)
  OBVIOUS
<1>. HIDE DEF step
<1>7. PICK g \in [SUBSET (1..n) -> V] :
         \A s \in SUBSET (1..n) :
            g[s] = IF s = {} THEN 0 ELSE step[<<g[s \ {Max(s)}], Max(s)>>]
  <2>1. Folding(V, 0, n, step, n)
    BY <1>1, <1>4, <1>5, FoldExists
  <2>. QED BY <2>1, Zenon DEF Folding
<1>8. Iter(g)
  <2>1. ASSUME NEW s \in SUBSET (1..n), s # {}
        PROVE  g[s] = Go(g[s \ {Max(s)}], D[Max(s)])
    <3>1. Max(s) \in 1..n /\ s \ {Max(s)} \in SUBSET (1..n)
      BY <1>1, <2>1, MaxOf
    <3>2. g[s \ {Max(s)}] \in V /\ D[Max(s)] = Max(s)
      BY <1>1, <3>1, Zenon
    <3>. QED BY <1>6, <1>7, <2>1, <3>1, <3>2, Zenon
  <2>2. g = [s \in SUBSET (1..n) |-> g[s]]
    OBVIOUS
  <2>. QED BY <1>1, <1>7, <2>1, <2>2
<1>9. Iter(it)
  <2>. HIDE DEF Iter
  <2>. QED BY <1>8, Zenon
<1>10. \A s \in SUBSET (1..n) :
           it[s] = IF s = {} THEN 0 ELSE Go(it[s \ {Max(s)}], D[Max(s)])
  BY <1>1, <1>9
<1>. HIDE DEF it, Iter
<1>11. it[{}] = 0
  BY <1>10
<1>12. ASSUME NEW k \in 1..n PROVE it[1..k] = Go(it[1..(k - 1)], k)
  <2>1. /\ 1..k \in SUBSET (1..n) /\ 1..k # {} /\ Max(1..k) = k
        /\ (1..k) \ {k} = 1..(k - 1)
    BY <1>1, Prefix
  <2>2. it[1..k] = Go(it[1..(k - 1)], D[k])
    BY <1>10, <2>1
  <2>. QED BY <1>1, <2>2
<1>13. Steps(V, 0, n, step, it[1..n])
  <2>1. \A k \in 1..n : it[1..(k - 1)] \in V => it[1..k] = step[<<it[1..(k - 1)], k>>]
    BY <1>6, <1>12
  <2>2. Folds(V, 0, n, step, it)
    BY <1>1, <1>4, <1>5, <1>11, <2>1, Zenon DEF Folds
  <2>. QED BY <2>2, FoldSteps, Zenon
<1>14. PICK r \in [0..n -> V] :
              /\ r[0] = 0
              /\ \A k \in 1..n : r[k] = step[<<r[k - 1], k>>]
              /\ it[1..n] = r[n]
  BY <1>13, Zenon DEF Steps
<1>15. \A k \in 1..n : r[k] = Go(r[k - 1], k)
  <2>1. ASSUME NEW k \in 1..n PROVE r[k - 1] \in V
    BY <1>1
  <2>. QED BY <1>6, <1>14, <2>1, Zenon
<1>. QED BY <1>2, <1>14, <1>15, Zenon DEF Go, V, n

(* The choice is the first point that works. *)
LEMMA ChoiceIsFirst ==
    ASSUME RecordTypes, LowerToo, queries \in Nat \ {0}
    PROVE  /\ Choose \in 0..Len(Thresholds)
           /\ Choose # 0 => /\ Works(CalcTradeoffCurve[Choose])
                            /\ \A i \in 1..(Choose - 1) : ~Works(CalcTradeoffCurve[i])
<1>. DEFINE n == Len(Thresholds)
            First(best, k) ==
                IF best = 0 THEN \A i \in 1..k : ~Works(CalcTradeoffCurve[i])
                ELSE /\ best \in 1..k
                     /\ Works(CalcTradeoffCurve[best])
                     /\ \A i \in 1..(best - 1) : ~Works(CalcTradeoffCurve[i])
<1>1. PICK r \in [0..n -> 0..n] :
         /\ r[0] = 0
         /\ \A k \in 1..n : r[k] = IF Takes(r[k - 1], k) THEN k ELSE r[k - 1]
         /\ Choose = r[n]
  BY ChoiceSteps
<1>2. n \in Nat
  BY ThresholdFacts
<1>. DEFINE S == {k \in 0..n : First(r[k], k)}
<1>3. 0 \in S
  BY <1>1, <1>2
<1>4. ASSUME NEW k \in 1..n, k - 1 \in S PROVE k \in S
  <2>1. k \in 0..n /\ k - 1 \in 0..n /\ r[k - 1] \in 0..n /\ First(r[k - 1], k - 1)
    BY <1>2, <1>4
  <2>2. r[k] = IF Takes(r[k - 1], k) THEN k ELSE r[k - 1]
    BY <1>1, Zenon
  <2>3. \A i : i \in 1..k <=> i \in 1..(k - 1) \/ i = k
    BY <1>2
  <2>4. k # 0 /\ k \in 1..k
    BY <1>2
  <2>5. CASE r[k - 1] = 0
    <3>1. \A i \in 1..(k - 1) : ~Works(CalcTradeoffCurve[i])
      BY <2>1, <2>5
    <3>2. CASE Works(CalcTradeoffCurve[k])
      <4>1. r[k] = k
        BY <2>2, <2>5, <3>2, Zenon DEF Takes
      <4>2. First(r[k], k)
        BY <2>4, <3>1, <3>2, <4>1
      <4>. QED BY <2>1, <4>2
    <3>3. CASE ~Works(CalcTradeoffCurve[k])
      <4>1. r[k] = 0
        BY <2>2, <2>5, <3>3, Zenon DEF Takes
      <4>2. First(r[k], k)
        BY <2>3, <3>1, <3>3, <4>1
      <4>. QED BY <2>1, <4>2
    <3>. QED BY <3>2, <3>3
  <2>6. CASE r[k - 1] # 0
    <3>1. r[k - 1] \in 1..n /\ r[k - 1] < k /\ r[k - 1] \in 1..(k - 1)
      BY <1>2, <2>1, <2>6
    <3>2. ~Takes(r[k - 1], k)
      BY <2>6, <3>1, CurveFalls DEF Takes
    <3>3. r[k] = r[k - 1]
      BY <2>2, <3>2, Zenon
    <3>4. First(r[k], k)
      BY <2>1, <2>3, <2>6, <3>1, <3>3
    <3>. QED BY <2>1, <3>4
  <2>. QED BY <2>5, <2>6
<1>5. First(r[n], n) /\ r[n] \in 0..n
  <2>1. n \in S
    <3>. HIDE DEF S
    <3>1. \A k \in 0..n : k \in S
      BY <1>2, <1>3, <1>4, UpTo
    <3>. QED BY <1>2, <3>1
  <2>. QED BY <1>2, <2>1
<1>. QED BY <1>1, <1>5

----------------------------------------------------------------------------
(* The steps of the corpus.                                                *)

LEMMA RecordAdded ==
    ASSUME RecordTypes, queries \in Nat, NEW rec \in Record,
           records' = records (+) SetToBag({rec}), queries' = queries + 1
    PROVE  RecordTypes' /\ Records' = Records \cup {rec}
<1>. DEFINE D == Records
<1>1. D = DOMAIN records /\ Records' = DOMAIN records'
  BY Zenon DEF Records, BagToSet
<1>2. records' = [e \in D \cup {rec} |-> (IF e \in D THEN records[e] ELSE 0)
                                         + (IF e \in {rec} THEN 1 ELSE 0)]
  BY <1>1 DEF (+), SetToBag
<1>3. Records' = D \cup {rec} /\ DOMAIN records' = D \cup {rec}
  BY <1>1, <1>2
<1>4. IsFiniteSet(D) /\ IsFiniteSet(D \cup {rec}) /\ \A e \in D : records[e] \in Nat
  BY FS_AddElement DEF RecordTypes
<1>. HIDE DEF D
<1>5. \A e \in D \cup {rec} : records'[e] \in Nat
  BY <1>2, <1>4
<1>6. BagCardinality(records) = SumFunctionOnSet(records, D)
  BY <1>1, <1>4, BagSum
<1>7. BagCardinality(records') = SumFunctionOnSet(records', D \cup {rec})
  BY <1>3, <1>4, <1>5, BagSum
<1>8. SumFunctionOnSet(records', D \cup {rec})
         = records'[rec] + SumFunctionOnSet(records', D \ {rec})
  <2>. DEFINE E == D \cup {rec}
  <2>1. rec \in E /\ E \ {rec} = D \ {rec}
    OBVIOUS
  <2>2. IsFiniteSet(E) /\ \A e \in E : records'[e] \in Nat
    BY <1>4, <1>5
  <2>. HIDE DEF E
  <2>3. SumFunctionOnSet(records', E) = records'[rec] + SumFunctionOnSet(records', E \ {rec})
    BY <2>1, <2>2, SumSplit
  <2>. QED BY <2>1, <2>3 DEF E
<1>9. SumFunctionOnSet(records', D \ {rec}) = SumFunctionOnSet(records, D \ {rec})
  <2>1. IsFiniteSet(D \ {rec})
    BY <1>4, FS_Subset
  <2>2. \A e \in D \ {rec} : records[e] \in Nat /\ records'[e] = records[e]
    BY <1>2, <1>4
  <2>. QED BY <2>1, <2>2, SumCongruent
<1>10. SumFunctionOnSet(records, D \ {rec}) \in Nat
  <2>1. D \ {rec} \in SUBSET D
    OBVIOUS
  <2>. QED BY <1>4, <2>1, SumFacts
<1>11. BagCardinality(records') = BagCardinality(records) + 1
  <2>1. CASE rec \in D
    <3>1. records'[rec] = records[rec] + 1 /\ records[rec] \in Nat
      BY <1>2, <1>4, <2>1
    <3>2. SumFunctionOnSet(records, D) = records[rec] + SumFunctionOnSet(records, D \ {rec})
      BY <1>4, <2>1, SumSplit
    <3>. QED BY <1>6, <1>7, <1>8, <1>9, <1>10, <3>1, <3>2
  <2>2. CASE rec \notin D
    <3>1. records'[rec] = 1 /\ D \ {rec} = D
      BY <1>2, <2>2
    <3>. QED BY <1>6, <1>7, <1>8, <1>9, <1>10, <3>1
  <2>. QED BY <2>1, <2>2
<1>12. Records \subseteq Record /\ BagCardinality(records) = queries
  BY DEF RecordTypes
<1>. QED BY <1>3, <1>4, <1>5, <1>11, <1>12 DEF RecordTypes, D

LEMMA QueryRecordFacts ==
    ASSUME CacheTypes, IndexComplete, NEW prompt \in Prompts
    PROVE  /\ QueryRecord(prompt) \in Record
           /\ \A lo, hi \in ToSet(Thresholds) :
                 lo < hi /\ hi \in QueryRecord(prompt).BestSim => lo \in QueryRecord(prompt).BestSim
<1>1. QueryRecord(prompt).BestSim = {th \in ToSet(Thresholds) : SemanticHit(prompt, now, th, 100)}
  BY DEF QueryRecord
<1>2. QueryRecord(prompt) \in Record
  BY DEF QueryRecord, Record
<1>3. ASSUME NEW lo \in ToSet(Thresholds), NEW hi \in ToSet(Thresholds), lo < hi,
             SemanticHit(prompt, now, hi, 100)
      PROVE  SemanticHit(prompt, now, lo, 100)
  <2>. DEFINE best == FindBestMatch(prompt, now)
  <2>1. best # NoMatch /\ AtLeast(prompt.vec, SemanticEntries[best].Vector, hi, 100)
    BY <1>3, Zenon DEF SemanticHit
  <2>2. best \in IDs
    BY <2>1, MatchFound DEF BestOf, Live
  <2>3. SemanticEntries[best].Vector \in Vector /\ prompt.vec \in Vector
    BY <2>2, EntryFields, PromptVector
  <2>. DEFINE hundred == 100
  <2>4. lo \in Nat /\ hi \in Nat /\ hi > 0 /\ hundred \in Nat /\ lo * hundred <= hi * hundred
    <3>1. lo \in 1..100 /\ hi \in 1..100
      BY ThresholdFacts DEF ToSet
    <3>. QED BY <1>3, <3>1
  <2>5. AtLeast(prompt.vec, SemanticEntries[best].Vector, hi, hundred)
    BY <2>1
  <2>. HIDE DEF best, hundred
  <2>6. AtLeast(prompt.vec, SemanticEntries[best].Vector, lo, hundred)
    BY <2>3, <2>4, <2>5, AtLeastFalls
  <2>. QED BY <2>1, <2>6, Zenon DEF SemanticHit, best, hundred
<1>. QED BY <1>1, <1>2, <1>3

LEMMA QueryKeeps ==
    ASSUME CorpusInv, NEW prompt \in Prompts, Query(prompt)
    PROVE  CorpusInv'
<1>1. /\ queries < MaxQueries /\ queries' = queries + 1 /\ now' = now + 1
      /\ records' = records (+) SetToBag({QueryRecord(prompt)})
      /\ UNCHANGED <<chosen, reported>>
  BY DEF Query
<1>2. /\ CacheTypes /\ IndexComplete /\ NoNearDuplicates /\ PrefixTypes
      /\ RecordTypes /\ LowerToo /\ Chosen
  BY DEF CorpusInv
<1>3. queries \in Nat /\ now \in Nat /\ MaxQueries \in Nat
  BY <1>2, CacheAssumption, PromptsAssumption DEF CacheTypes
<1>4. ASSUME Store(prompt), SetPrefix(prompt, prompt.gt, now), SetSemantic(prompt, prompt.gt, now)
      PROVE  CacheTypes' /\ IndexComplete' /\ NoNearDuplicates' /\ PrefixTypes'
  <2>1. CacheTypes' /\ IndexComplete' /\ NoNearDuplicates'
    BY <1>1, <1>2, <1>4, StoreKeepsTypes, StoreKeepsIndex, StoreKeepsApart
  <2>2. PrefixTypes'
    <3>1. PrefixMap' = [key \in DOMAIN PrefixMap \cup {prompt.prefix} |->
                          IF key = prompt.prefix
                          THEN [Response |-> prompt.gt, Timestamp |-> now]
                          ELSE PrefixMap[key]]
      BY <1>4, Zenon DEF SetPrefix
    <3>2. \A key \in DOMAIN PrefixMap : PrefixMap[key].Timestamp \in 0..(now - 1)
      BY <1>2 DEF PrefixTypes
    <3>3. \A ts \in 0..(now - 1) : ts \in 0..(now' - 1)
      BY <1>1, <1>3
    <3>4. now \in 0..(now' - 1)
      BY <1>1, <1>3
    <3>. QED BY <3>1, <3>2, <3>3, <3>4 DEF PrefixTypes
  <2>. QED BY <2>1, <2>2
<1>5. ASSUME UNCHANGED cacheVars
      PROVE  CacheTypes' /\ IndexComplete' /\ NoNearDuplicates' /\ PrefixTypes'
  <2>0. UNCHANGED <<PrefixMap, SemanticEntries, InvertedIndex>>
    BY <1>5 DEF cacheVars
  <2>1. CacheTypes'
    <3>1. now' = Window + queries' /\ queries' \in Nat
      BY <1>1, <1>2, <1>3, CacheAssumption DEF CacheTypes
    <3>2. \A id \in DOMAIN SemanticEntries : SemanticEntries[id].Timestamp < now'
      BY <1>1, <1>3, EntryFields, <1>2 DEF IDs
    <3>. QED BY <1>2, <2>0, <3>1, <3>2, Zenon DEF CacheTypes
  <2>2. IndexComplete' /\ NoNearDuplicates'
    BY <1>2, <2>0, Zenon DEF IndexComplete, NoNearDuplicates
  <2>3. PrefixTypes'
    <3>1. \A ts \in 0..(now - 1) : ts \in 0..(now' - 1)
      BY <1>1, <1>3
    <3>. QED BY <1>2, <2>0, <3>1 DEF PrefixTypes
  <2>. QED BY <2>1, <2>2, <2>3
<1>6. CacheTypes' /\ IndexComplete' /\ NoNearDuplicates' /\ PrefixTypes'
  BY <1>4, <1>5, Zenon DEF Query
<1>7. QueryRecord(prompt) \in Record
  BY <1>2, QueryRecordFacts
<1>8. RecordTypes' /\ Records' = Records \cup {QueryRecord(prompt)}
  BY <1>1, <1>2, <1>3, <1>7, RecordAdded
<1>9. LowerToo'
  BY <1>2, <1>8, QueryRecordFacts DEF LowerToo
<1>10. Chosen'
  <2>1. reported = {}
    BY <1>1, <1>2, <1>3 DEF Chosen, CorpusEnded
  <2>. QED BY <1>1, <1>2, <2>1 DEF Chosen
<1>11. queries' <= MaxQueries
  BY <1>1, <1>3
<1>. QED BY <1>6, <1>8, <1>9, <1>10, <1>11 DEF CorpusInv

(* The figures are functions of the records and their number. *)
Choice(curve) ==
    FoldLeftDomain(LAMBDA best, i : IF /\ Works(curve[i])
                                       /\ best = 0 \/ Improves(curve[i], curve[best])
                                    THEN i ELSE best, 0, curve)

LEMMA ReportSame ==
    ASSUME UNCHANGED <<records, queries>>
    PROVE  /\ Choose' = Choose
           /\ FinalFigures(Thresholds[chosen])' = FinalFigures(Thresholds[chosen'])
<1>1. Records' = Records
  BY Zenon DEF Records
<1>2. \A set : Count(set)' = Count(set)
  BY Zenon DEF Count
<1>3. \A s, a, f : Figures(s, a, f)' = Figures(s, a, f)
  BY Zenon DEF Figures
<1>4. \A th : SemHits(th)' = SemHits(th)
  BY <1>1, Zenon DEF SemHits
<1>5. \A th : TradeoffPoint(th)' = TradeoffPoint(th)
  BY <1>1, <1>2, <1>3, <1>4, Zenon DEF TradeoffPoint
<1>6. CalcTradeoffCurve' = CalcTradeoffCurve
  BY <1>5, Zenon DEF CalcTradeoffCurve
<1>7. Choose = Choice(CalcTradeoffCurve) /\ Choose' = Choice(CalcTradeoffCurve')
  BY Zenon DEF Choose, Choice, FoldLeftDomain, FoldLeft, MapThenFoldSet
<1>8. \A th : FinalFigures(th)' = FinalFigures(th)
  BY <1>1, <1>2, <1>3, Zenon DEF FinalFigures
<1>. QED BY <1>6, <1>7, <1>8, Zenon

LEMMA ReportKeeps == ASSUME CorpusInv, Report PROVE CorpusInv'
<1>1. /\ queries = MaxQueries /\ Choose # 0 /\ chosen' = Choose
      /\ reported' = {FinalFigures(Thresholds[Choose])}
      /\ UNCHANGED <<PrefixMap, SemanticEntries, InvertedIndex, now, queries, records>>
  BY DEF Report, CorpusEnded, cacheVars
<1>2. /\ CacheTypes /\ IndexComplete /\ NoNearDuplicates /\ PrefixTypes
      /\ RecordTypes /\ LowerToo
  BY DEF CorpusInv
<1>3. CacheTypes' /\ PrefixTypes' /\ IndexComplete' /\ NoNearDuplicates'
  BY <1>1, <1>2, Zenon DEF CacheTypes, PrefixTypes, IndexComplete, NoNearDuplicates
<1>4. Records' = Records
  BY <1>1, Zenon DEF Records
<1>5. RecordTypes' /\ LowerToo'
  BY <1>1, <1>2, <1>4, Zenon DEF RecordTypes, LowerToo
<1>6. Choose' = Choose
  BY <1>1, ReportSame
<1>7. FinalFigures(Thresholds[chosen])' = FinalFigures(Thresholds[Choose])
  <2>1. FinalFigures(Thresholds[chosen])' = FinalFigures(Thresholds[chosen'])
    BY <1>1, ReportSame
  <2>. QED BY <1>1, <2>1
<1>8. Choose \in 0..Len(Thresholds)
  BY <1>1, <1>2, ChoiceIsFirst, PromptsAssumption
<1>9. Chosen'
  BY <1>1, <1>6, <1>7, <1>8, Zenon DEF Chosen, CorpusEnded
<1>10. queries' <= MaxQueries
  BY <1>1 DEF CorpusInv
<1>. QED BY <1>3, <1>5, <1>9, <1>10 DEF CorpusInv

LEMMA CorpusNextInv == ASSUME CorpusInv, CorpusNext PROVE CorpusInv'
    BY QueryKeeps, ReportKeeps DEF CorpusNext

LEMMA CorpusSame == ASSUME CorpusInv, UNCHANGED corpusVars PROVE CorpusInv'
<1>1. UNCHANGED <<PrefixMap, SemanticEntries, InvertedIndex, now, queries, records, chosen, reported>>
  BY DEF corpusVars, cacheVars
<1>2. CacheTypes' /\ PrefixTypes' /\ IndexComplete' /\ NoNearDuplicates'
  BY <1>1, Zenon DEF CorpusInv, CacheTypes, PrefixTypes, IndexComplete, NoNearDuplicates
<1>3. RecordTypes' /\ LowerToo'
  BY <1>1, Zenon DEF CorpusInv, RecordTypes, LowerToo, Records
<1>4. Chosen'
  <2>1. Choose' = Choose /\ FinalFigures(Thresholds[chosen])' = FinalFigures(Thresholds[chosen'])
    BY <1>1, ReportSame
  <2>. QED BY <1>1, <2>1, Zenon DEF CorpusInv, Chosen, CorpusEnded
<1>5. queries' <= MaxQueries
  BY <1>1 DEF CorpusInv
<1>. QED BY <1>2, <1>3, <1>4, <1>5 DEF CorpusInv

LEMMA CorpusInitInv == ASSUME CorpusInit PROVE CorpusInv
<1>1. /\ PrefixMap = [key \in {} |-> 0] /\ SemanticEntries = << >>
      /\ InvertedIndex = [i \in Dim |-> << >>]
      /\ now = Window /\ queries = 0 /\ records = EmptyBag /\ chosen = 0 /\ reported = {}
  BY DEF CorpusInit, NewCache
<1>2. Window \in Nat /\ MaxQueries \in Nat
  BY CacheAssumption, PromptsAssumption
<1>3. IDs = {}
  BY <1>1 DEF IDs
<1>4. CacheTypes
  <2>1. SemanticEntries \in Seq(Entry)
    BY <1>1, EmptySeq, Zenon
  <2>2. InvertedIndex \in [Dim -> Seq(Nat)]
    BY <1>1, EmptySeq
  <2>3. now = Window + queries /\ queries \in Nat
    BY <1>1, <1>2
  <2>. QED BY <1>3, <2>1, <2>2, <2>3, Zenon DEF CacheTypes, IDs
<1>5. PrefixTypes
  BY <1>1 DEF PrefixTypes
<1>6. IndexComplete
  <2>1. \A i \in Dim : InvertedIndex[i] = << >>
    BY <1>1
  <2>2. ToSet(<< >>) = {} /\ DOMAIN << >> = {}
    BY DEF ToSet
  <2>. QED BY <1>3, <2>1, <2>2 DEF IndexComplete, IDs
<1>7. NoNearDuplicates
  BY <1>3 DEF NoNearDuplicates, IDs
<1>8. Records = {} /\ DOMAIN records = {}
  BY <1>1 DEF Records, EmptyBag, SetToBag, BagToSet
<1>9. RecordTypes
  <2>1. IsFiniteSet(Records)
    BY <1>8, FS_EmptySet
  <2>2. BagCardinality(records) = 0
    BY <1>8, <2>1, BagSum, SumFacts
  <2>. QED BY <1>1, <1>8, <2>1, <2>2 DEF RecordTypes
<1>10. LowerToo
  BY <1>8 DEF LowerToo
<1>11. Chosen
  BY <1>1, ThresholdFacts DEF Chosen
<1>12. queries <= MaxQueries
  BY <1>1, <1>2
<1>. QED BY <1>4, <1>5, <1>6, <1>7, <1>9, <1>10, <1>11, <1>12 DEF CorpusInv

----------------------------------------------------------------------------
(***************************************************************************)
(* The statistics.  The figures are read off the sorted samples; counting  *)
(* samples is the same before and after sorting, which is a bijection.     *)
(***************************************************************************)

(* A set of indices has one with the greatest value. *)
LEMMA GreatestExists ==
    ASSUME NEW D, IsFiniteSet(D), D # {}, NEW s, \A x \in D : s[x] \in Nat
    PROVE  \E m \in D : \A x \in D : s[x] <= s[m]
<1>. DEFINE P == {u \in SUBSET D : u # {} => \E m \in u : \A x \in u : s[x] <= s[m]}
<1>1. {} \in P
  OBVIOUS
<1>2. ASSUME NEW u \in SUBSET D, u # {}, \A y \in u : u \ {y} \in P PROVE u \in P
  <2>1. PICK y \in u : TRUE
    BY <1>2
  <2>2. CASE u \ {y} = {}
    <3>1. \A x \in u : x = y
      BY <2>2
    <3>. QED BY <3>1
  <2>3. CASE u \ {y} # {}
    <3>1. PICK m \in u \ {y} : \A x \in u \ {y} : s[x] <= s[m]
      BY <1>2, <2>3
    <3>2. s[m] \in Nat /\ s[y] \in Nat /\ \A x \in u : s[x] \in Nat
      OBVIOUS
    <3>3. CASE s[y] <= s[m]
      BY <3>1, <3>3
    <3>4. CASE s[m] <= s[y]
      <4>1. \A x \in u : s[x] <= s[y]
        BY <3>1, <3>2, <3>4
      <4>. QED BY <4>1
    <3>. QED BY <3>2, <3>3, <3>4
  <2>. QED BY <2>2, <2>3
<1>3. \A u \in SUBSET D : u \in P
  <2>. HIDE DEF P
  <2>1. P \in SUBSET SUBSET D
    BY DEF P
  <2>. QED BY <1>1, <1>2, <2>1, SubsetInduction
<1>. QED BY <1>3

Rising(s, p, n) == \A i, j \in 1..n : i < j => s[p[i]] <= s[p[j]]
Onto(p, n, D) == /\ p \in [1..n -> D]
                 /\ \A i, j \in 1..n : p[i] = p[j] => i = j
                 /\ \A x \in D : \E i \in 1..n : p[i] = x

LEMMA OrderExists ==
    ASSUME NEW n \in Nat, NEW s, \A x \in 1..n : s[x] \in Nat
    PROVE  \E p : Onto(p, n, 1..n) /\ Rising(s, p, n)
<1>. DEFINE P == {u \in SUBSET (1..n) : \E p : Onto(p, Cardinality(u), u) /\ Rising(s, p, Cardinality(u))}
<1>1. IsFiniteSet(1..n) /\ Cardinality(1..n) = n
  BY FS_Interval
<1>2. {} \in P
  <2>1. Cardinality({}) = 0
    BY FS_EmptySet
  <2>2. Onto([i \in 1..0 |-> 0], 0, {}) /\ Rising(s, [i \in 1..0 |-> 0], 0)
    BY DEF Onto, Rising
  <2>. QED BY <2>1, <2>2
<1>3. ASSUME NEW u \in SUBSET (1..n), u # {}, \A y \in u : u \ {y} \in P PROVE u \in P
  <2>1. IsFiniteSet(u)
    BY <1>1, FS_Subset
  <2>2. \A x \in u : s[x] \in Nat
    OBVIOUS
  <2>3. PICK m \in u : \A x \in u : s[x] <= s[m]
    BY <1>3, <2>1, <2>2, GreatestExists
  <2>. DEFINE k == Cardinality(u)
  <2>4. k \in Nat /\ k > 0 /\ Cardinality(u \ {m}) = k - 1 /\ k - 1 \in Nat
    BY <2>1, Loses
  <2>. HIDE DEF k
  <2>5. PICK q : Onto(q, k - 1, u \ {m}) /\ Rising(s, q, k - 1)
    BY <1>3, <2>4
  <2>. DEFINE p == [i \in 1..k |-> IF i = k THEN m ELSE q[i]]
  <2>6. \A i \in 1..k : i = k \/ i \in 1..(k - 1)
    BY <2>4
  <2>7. /\ p[k] = m /\ k \in 1..k
        /\ \A i \in 1..(k - 1) : i \in 1..k /\ i # k /\ p[i] = q[i] /\ q[i] \in u /\ q[i] # m
    BY <2>4, <2>5 DEF Onto
  <2>8. p \in [1..k -> u]
    BY <2>6, <2>7
  <2>. HIDE DEF p
  <2>9. ASSUME NEW i \in 1..k, NEW j \in 1..k, p[i] = p[j] PROVE i = j
    BY <2>5, <2>6, <2>7, <2>9 DEF Onto
  <2>10. ASSUME NEW x \in u PROVE \E i \in 1..k : p[i] = x
    <3>1. CASE x = m
      BY <2>7, <3>1
    <3>2. CASE x # m
      <4>1. PICK i \in 1..(k - 1) : q[i] = x
        BY <2>5, <3>2 DEF Onto
      <4>. QED BY <2>7, <4>1
    <3>. QED BY <3>1, <3>2
  <2>11. ASSUME NEW i \in 1..k, NEW j \in 1..k, i < j PROVE s[p[i]] <= s[p[j]]
    <3>1. i \in 1..(k - 1)
      BY <2>4, <2>11
    <3>2. CASE j = k
      BY <2>3, <2>7, <3>1, <3>2
    <3>3. CASE j \in 1..(k - 1)
      BY <2>5, <2>7, <2>11, <3>1, <3>3 DEF Rising
    <3>. QED BY <2>6, <3>2, <3>3
  <2>12. Onto(p, k, u) /\ Rising(s, p, k)
    BY <2>8, <2>9, <2>10, <2>11 DEF Onto, Rising
  <2>. QED BY <2>12 DEF k
<1>4. \A u \in SUBSET (1..n) : u \in P
  <2>. HIDE DEF P
  <2>1. P \in SUBSET SUBSET (1..n)
    BY DEF P
  <2>. QED BY <1>1, <1>2, <1>3, <2>1, SubsetInduction
<1>5. 1..n \in P
  <2>. HIDE DEF P
  <2>. QED BY <1>4
<1>. QED BY <1>1, <1>5

LEMMA SortedFacts ==
    ASSUME NEW s \in Seq(Nat)
    PROVE  \E p : /\ Onto(p, Len(s), 1..Len(s))
                  /\ Rising(s, p, Len(s))
                  /\ \A i \in 1..Len(s) : Sorted(s)[i] = s[p[i]]
<1>. DEFINE n == Len(s)
            InOrder(p) == \A i, j \in DOMAIN s : i < j => s[p[i]] <= s[p[j]]
            order == CHOOSE p \in Bijection(DOMAIN s, DOMAIN s) : InOrder(p)
<1>1. n \in Nat /\ DOMAIN s = 1..n /\ \A x \in 1..n : s[x] \in Nat
  BY LenProperties
<1>2. \A p : p \in Bijection(1..n, 1..n) <=> Onto(p, n, 1..n)
  BY DEF Bijection, Injection, IsInjective, Surjection, Onto
<1>. HIDE DEF n
<1>3. PICK p : Onto(p, n, 1..n) /\ Rising(s, p, n)
  BY <1>1, OrderExists
<1>4. p \in Bijection(DOMAIN s, DOMAIN s) /\ InOrder(p)
  BY <1>1, <1>2, <1>3 DEF Rising
<1>5. order \in Bijection(DOMAIN s, DOMAIN s) /\ InOrder(order)
  <2>. HIDE DEF InOrder
  <2>. QED BY <1>4, Zenon
<1>6. \A i \in 1..n : Sorted(s)[i] = s[order[i]]
  <2>1. Sorted(s) = [i \in DOMAIN s |-> s[order[i]]]
    BY Zenon DEF Sorted
  <2>. HIDE DEF order
  <2>. QED BY <1>1, <2>1
<1>7. Onto(order, n, 1..n) /\ Rising(s, order, n)
  <2>. HIDE DEF order
  <2>. QED BY <1>1, <1>2, <1>5 DEF Rising
<1>. HIDE DEF order
<1>. QED BY <1>6, <1>7 DEF n

LEMMA SumOfSamples ==
    ASSUME NEW s \in Seq(Nat)
    PROVE  Sum(s) \in Nat
<1>. DEFINE n == Len(s)
            Iter(g) == g = [u \in SUBSET DOMAIN s |->
                              IF u = {} THEN 0 ELSE g[u \ {Max(u)}] + s[Max(u)]]
            it == CHOOSE g : Iter(g)
            step == [x \in Nat \X (1..n) |-> x[1] + s[x[2]]]
<1>1. n \in Nat /\ DOMAIN s = 1..n /\ \A i \in 1..n : s[i] \in Nat
  BY LenProperties
<1>2. Sum(s) = it[1..n]
  <2>1. Sum(s) = it[DOMAIN s]
    BY Zenon DEF Sum, FoldLeft, MapThenFoldSet
  <2>. HIDE DEF it
  <2>. QED BY <1>1, <2>1
<1>. HIDE DEF n
<1>3. step \in [Nat \X (1..n) -> Nat]
  <2>1. ASSUME NEW x \in Nat \X (1..n) PROVE x[1] + s[x[2]] \in Nat
    <3>1. x[1] \in Nat /\ x[2] \in 1..n
      OBVIOUS
    <3>2. s[x[2]] \in Nat
      BY <1>1, <3>1
    <3>. QED BY <3>1, <3>2
  <2>. QED BY <2>1
<1>4. \A a \in Nat, i \in 1..n : step[<<a, i>>] = a + s[i]
  OBVIOUS
<1>. HIDE DEF step
<1>5. PICK g \in [SUBSET (1..n) -> Nat] :
         \A u \in SUBSET (1..n) :
            g[u] = IF u = {} THEN 0 ELSE step[<<g[u \ {Max(u)}], Max(u)>>]
  <2>1. Folding(Nat, 0, n, step, n)
    BY <1>1, <1>3, FoldExists
  <2>. QED BY <2>1, Zenon DEF Folding
<1>6. \A u \in SUBSET (1..n) :
           g[u] = IF u = {} THEN 0 ELSE g[u \ {Max(u)}] + s[Max(u)]
  <2>1. ASSUME NEW u \in SUBSET (1..n), u # {} PROVE g[u] = g[u \ {Max(u)}] + s[Max(u)]
    <3>1. Max(u) \in 1..n /\ u \ {Max(u)} \in SUBSET (1..n)
      BY <1>1, <2>1, MaxOf
    <3>2. g[u \ {Max(u)}] \in Nat
      BY <3>1, Zenon
    <3>. QED BY <1>4, <1>5, <2>1, <3>1, <3>2, Zenon
  <2>2. {} \in SUBSET (1..n)
    OBVIOUS
  <2>. QED BY <1>5, <2>1, <2>2, Zenon
<1>7. Iter(g)
  <2>1. g = [u \in SUBSET (1..n) |-> g[u]]
    OBVIOUS
  <2>. QED BY <1>1, <1>6, <2>1
<1>8. Iter(it)
  <2>. HIDE DEF Iter
  <2>. QED BY <1>7, Zenon
<1>9. \A u \in SUBSET (1..n) :
           it[u] = IF u = {} THEN 0 ELSE it[u \ {Max(u)}] + s[Max(u)]
  BY <1>1, <1>8
<1>. HIDE DEF it, Iter
<1>10. it[{}] = 0
  BY <1>9
<1>11. ASSUME NEW k \in 1..n PROVE it[1..k] = it[1..(k - 1)] + s[k]
  <2>1. /\ 1..k \in SUBSET (1..n) /\ 1..k # {} /\ Max(1..k) = k
        /\ (1..k) \ {k} = 1..(k - 1)
    BY <1>1, Prefix
  <2>. QED BY <1>9, <2>1
<1>12. Steps(Nat, 0, n, step, it[1..n])
  <2>1. \A k \in 1..n : it[1..(k - 1)] \in Nat => it[1..k] = step[<<it[1..(k - 1)], k>>]
    BY <1>4, <1>11
  <2>2. Folds(Nat, 0, n, step, it)
    BY <1>1, <1>3, <1>10, <2>1 DEF Folds
  <2>. QED BY <2>2, FoldSteps, Zenon
<1>13. it[1..n] \in Nat
  <2>1. n \in 0..n
    BY <1>1
  <2>. QED BY <1>12, <2>1 DEF Steps
<1>. QED BY <1>2, <1>13

LEMMA OneTo == ASSUME NEW n \in Nat PROVE IsFiniteSet(1..n) /\ Cardinality(1..n) = n
  BY FS_Interval

Values(p, A) == {p[i] : i \in A}

(* As many samples satisfy a condition before sorting as after. *)
LEMMA ImageSize ==
    ASSUME NEW n \in Nat, NEW D, NEW p, Onto(p, n, D), NEW A \in SUBSET (1..n)
    PROVE  /\ IsFiniteSet(A) /\ Cardinality(A) \in Nat
           /\ Cardinality(Values(p, A)) = Cardinality(A)
<1>. DEFINE B == {p[i] : i \in A}
            f == [i \in A |-> p[i]]
<1>1. IsFiniteSet(A) /\ Cardinality(A) \in Nat
  <2>1. IsFiniteSet(1..n)
    BY OneTo
  <2>2. IsFiniteSet(A)
    BY <2>1, FS_Subset
  <2>. QED BY <2>2, FS_CardinalityType
<1>2. f \in Bijection(A, B)
  <2>1. f \in [A -> B]
    OBVIOUS
  <2>2. \A i, j \in A : f[i] = f[j] => i = j
    BY DEF Onto
  <2>3. \A b \in B : \E i \in A : f[i] = b
    OBVIOUS
  <2>. HIDE DEF f, B
  <2>. QED BY <2>1, <2>2, <2>3 DEF Bijection, Injection, IsInjective, Surjection
<1>3. ExistsBijection(A, B)
  BY <1>2 DEF ExistsBijection
<1>. HIDE DEF B
<1>4. Cardinality(B) = Cardinality(A)
  BY <1>1, <1>3, FS_Bijection
<1>. QED BY <1>1, <1>4 DEF B, Values

LEMMA RankIndexFacts ==
    ASSUME NEW n \in Nat \ {0}, NEW q \in 1..99
    PROVE  /\ RankIndex(n, q) \in 1..n
           /\ 100 * (RankIndex(n, q) - 1) <= q * n
           /\ 100 * RankIndex(n, q) > q * n
<1>. DEFINE x == n * q
            d == x \div 100
<1>1. x \in Nat /\ x < n * 100 /\ x = q * n
  <2>1. n * q <= n * 99 /\ n * 99 < n * 100
    <3>1. \A a, b, c \in Nat : a <= b => c * a <= c * b
      OBVIOUS
    <3>. QED BY <3>1
  <2>. QED BY <2>1
<1>2. d \in Nat /\ d * 100 <= x /\ x < d * 100 + 100
  <2>. HIDE DEF x
  <2>. QED BY <1>1
<1>3. RankIndex(n, q) = d + 1
  BY DEF RankIndex
<1>. HIDE DEF x, d
<1>. QED BY <1>1, <1>2, <1>3

LEMMA PercentileIs ==
    ASSUME NEW s \in Seq(Nat), Len(s) > 0, NEW q \in 1..99
    PROVE  LET n == Len(s)
               v == Sorted(s)[RankIndex(n, q)]
           IN  /\ 100 * Cardinality({i \in DOMAIN s : s[i] < v}) <= q * n
               /\ 100 * Cardinality({i \in DOMAIN s : s[i] <= v}) > q * n
               /\ v \in ToSet(s)
<1>. DEFINE n == Len(s)
            k == RankIndex(n, q)
            v == Sorted(s)[k]
            Below == {i \in DOMAIN s : s[i] < v}
            UpToV == {i \in DOMAIN s : s[i] <= v}
<1>1. n \in Nat \ {0} /\ DOMAIN s = 1..n /\ \A x \in 1..n : s[x] \in Nat
  BY LenProperties
<1>2. PICK p : /\ Onto(p, n, 1..n) /\ Rising(s, p, n)
               /\ \A i \in 1..n : Sorted(s)[i] = s[p[i]]
  BY SortedFacts
<1>. HIDE DEF n
<1>3. k \in 1..n /\ 100 * (k - 1) <= q * n /\ 100 * k > q * n
  BY <1>1, RankIndexFacts
<1>. HIDE DEF k
<1>4. v = s[p[k]] /\ v \in Nat /\ p[k] \in 1..n
  BY <1>1, <1>2, <1>3 DEF Onto
<1>. HIDE DEF v
<1>5. \A i \in 1..n : p[i] \in 1..n /\ s[p[i]] \in Nat
  BY <1>1, <1>2 DEF Onto
<1>6. 100 * Cardinality(Below) <= q * n
  <2>. DEFINE A == {i \in 1..n : s[p[i]] < v}
  <2>1. Below = Values(p, A)
    <3>1. \A x \in 1..n : \E i \in 1..n : p[i] = x
      BY <1>2 DEF Onto
    <3>. QED BY <1>1, <1>5, <3>1 DEF Values
  <2>2. A \in SUBSET (1..(k - 1))
    <3>1. SUFFICES ASSUME NEW i \in 1..n, s[p[i]] < v PROVE i \in 1..(k - 1)
      OBVIOUS
    <3>2. ~(k <= i)
      <4>1. SUFFICES ASSUME k <= i PROVE FALSE
        OBVIOUS
      <4>2. CASE k = i
        BY <1>4, <3>1, <4>2
      <4>3. CASE k < i
        <5>1. s[p[k]] <= s[p[i]]
          BY <1>2, <1>3, <4>3 DEF Rising
        <5>. QED BY <1>4, <1>5, <3>1, <5>1
      <4>. QED BY <1>1, <1>3, <4>1, <4>2, <4>3
    <3>. QED BY <1>1, <1>3, <3>2
  <2>3. A \in SUBSET (1..n)
    OBVIOUS
  <2>4. k - 1 \in Nat /\ k \in Nat
    BY <1>3
  <2>5. Cardinality(A) <= k - 1
    <3>. DEFINE m == k - 1
    <3>1. m \in Nat /\ A \in SUBSET (1..m)
      BY <2>2, <2>4
    <3>. HIDE DEF A, m
    <3>2. IsFiniteSet(1..m) /\ Cardinality(1..m) = m
      BY <3>1, OneTo
    <3>3. Cardinality(A) <= m
      BY <3>1, <3>2, FS_Subset
    <3>. QED BY <3>3 DEF m
  <2>6. Cardinality(Values(p, A)) = Cardinality(A) /\ Cardinality(A) \in Nat
    <3>1. n \in Nat /\ Onto(p, n, 1..n) /\ A \in SUBSET (1..n)
      BY <1>1, <1>2, <2>3
    <3>. DEFINE D == 1..n
    <3>2. Onto(p, n, D)
      BY <3>1
    <3>. HIDE DEF A, D
    <3>3. Cardinality(Values(p, A)) = Cardinality(A)
      BY ONLY <3>1, <3>2, ImageSize
    <3>4. IsFiniteSet(A) /\ Cardinality(A) \in Nat
      BY ONLY <3>1, <3>2, ImageSize
    <3>. QED BY <3>3, <3>4
  <2>7. Cardinality(Below) = Cardinality(A)
    BY <2>1, <2>6, Zenon
  <2>8. q * n \in Nat
    BY <1>1
  <2>. HIDE DEF A, Below
  <2>. QED BY <1>3, <2>4, <2>5, <2>6, <2>7, <2>8
<1>7. 100 * Cardinality(UpToV) > q * n
  <2>. DEFINE A == {i \in 1..n : s[p[i]] <= v}
  <2>1. UpToV = Values(p, A)
    <3>1. \A x \in 1..n : \E i \in 1..n : p[i] = x
      BY <1>2 DEF Onto
    <3>. QED BY <1>1, <1>5, <3>1 DEF Values
  <2>2. 1..k \in SUBSET A
    <3>1. SUFFICES ASSUME NEW i \in 1..k PROVE i \in 1..n /\ s[p[i]] <= v
      OBVIOUS
    <3>2. i \in 1..n /\ (i = k \/ i < k)
      BY <1>1, <1>3
    <3>3. CASE i = k
      BY <1>4, <3>2, <3>3
    <3>4. CASE i < k
      BY <1>2, <1>3, <1>4, <3>2, <3>4 DEF Rising
    <3>. QED BY <3>2, <3>3, <3>4
  <2>3. A \in SUBSET (1..n)
    OBVIOUS
  <2>4. k \in Nat
    BY <1>3
  <2>5. Cardinality(Values(p, A)) = Cardinality(A) /\ Cardinality(A) \in Nat /\ IsFiniteSet(A)
    <3>1. n \in Nat /\ Onto(p, n, 1..n) /\ A \in SUBSET (1..n)
      BY <1>1, <1>2, <2>3
    <3>. DEFINE D == 1..n
    <3>2. Onto(p, n, D)
      BY <3>1
    <3>. HIDE DEF A, D
    <3>3. Cardinality(Values(p, A)) = Cardinality(A)
      BY ONLY <3>1, <3>2, ImageSize
    <3>4. IsFiniteSet(A) /\ Cardinality(A) \in Nat
      BY ONLY <3>1, <3>2, ImageSize
    <3>. QED BY <3>3, <3>4
  <2>6. k <= Cardinality(A)
    <3>1. Cardinality(1..k) = k
      BY <2>4, OneTo
    <3>. HIDE DEF A
    <3>. QED BY <2>2, <2>5, <3>1, FS_Subset
  <2>7. Cardinality(UpToV) = Cardinality(A)
    BY <2>1, <2>5, Zenon
  <2>8. q * n \in Nat
    BY <1>1
  <2>. HIDE DEF A, UpToV
  <2>. QED BY <1>3, <2>4, <2>5, <2>6, <2>7, <2>8
<1>8. v \in ToSet(s)
  BY <1>1, <1>4 DEF ToSet
<1>. QED BY <1>6, <1>7, <1>8 DEF n, k, v

LEMMA ExtremesAre ==
    ASSUME NEW s \in Seq(Nat), Len(s) > 0
    PROVE  /\ \A i \in DOMAIN s : s[i] \in Sorted(s)[1]..Sorted(s)[Len(s)]
           /\ {Sorted(s)[1], Sorted(s)[Len(s)]} \subseteq ToSet(s)
<1>. DEFINE n == Len(s)
<1>1. n \in Nat \ {0} /\ DOMAIN s = 1..n /\ \A x \in 1..n : s[x] \in Nat
  BY LenProperties
<1>2. PICK p : /\ Onto(p, n, 1..n) /\ Rising(s, p, n)
               /\ \A i \in 1..n : Sorted(s)[i] = s[p[i]]
  BY SortedFacts
<1>. HIDE DEF n
<1>3. 1 \in 1..n /\ n \in 1..n
  BY <1>1
<1>4. Sorted(s)[1] = s[p[1]] /\ Sorted(s)[n] = s[p[n]] /\ p[1] \in 1..n /\ p[n] \in 1..n
  BY <1>2, <1>3 DEF Onto
<1>5. ASSUME NEW x \in 1..n PROVE s[p[1]] <= s[x] /\ s[x] <= s[p[n]]
  <2>1. PICK i \in 1..n : p[i] = x
    BY <1>2 DEF Onto
  <2>2. s[p[1]] <= s[p[i]]
    <3>1. CASE i = 1
      BY <1>1, <1>4, <3>1
    <3>2. CASE 1 < i
      BY <1>2, <1>3, <3>2 DEF Rising
    <3>. QED BY <3>1, <3>2
  <2>3. s[p[i]] <= s[p[n]]
    <3>1. CASE i = n
      BY <1>1, <1>4, <3>1
    <3>2. CASE i < n
      BY <1>2, <1>3, <3>2 DEF Rising
    <3>. QED BY <1>1, <3>1, <3>2
  <2>. QED BY <2>1, <2>2, <2>3
<1>6. \A x \in 1..n : s[x] \in s[p[1]]..s[p[n]]
  BY <1>1, <1>4, <1>5
<1>7. s[p[1]] \in ToSet(s) /\ s[p[n]] \in ToSet(s)
  BY <1>1, <1>4 DEF ToSet
<1>. QED BY <1>1, <1>4, <1>6, <1>7 DEF n

LEMMA MeanIs ==
    ASSUME NEW x \in Nat, NEW n \in Nat \ {0}
    PROVE  (x \div n) * n <= x /\ x < ((x \div n) + 1) * n
<1>1. x \div n \in Nat /\ (x \div n) * n <= x /\ x < (x \div n) * n + n
  BY DivisionFacts
<1>2. \A m \in Nat : (m + 1) * n = m * n + n
  OBVIOUS
<1>. QED BY <1>1, <1>2

(* What RunLoadTest has returned is computed from the samples as they stand. *)
Returned == \E s \in Seq(Times) : s = overheads /\ result \subseteq {Statistics(s)}

LEMMA ReturnedInit == LoadInv /\ result = {} => Returned
  BY DEF Returned, LoadInv, LoadTypes

LEMMA ReturnedKept ==
    ASSUME Returned, overheads' = overheads, result' = result
    PROVE  Returned'
<1>1. PICK s \in Seq(Times) : s = overheads /\ result \subseteq {Statistics(s)}
  BY DEF Returned
<1>. HIDE DEF Statistics
<1>. QED BY <1>1 DEF Returned

(* A sample is appended only while a worker runs, before the return. *)
LEMMA ReturnedNext == ASSUME LoadInv, Returned, LoadNext PROVE Returned'
<1>1. ASSUME NEW w \in Workers, AppendSample(w) PROVE Returned'
  <2>1. loadPc[w] = "append" /\ result' = result
    BY <1>1 DEF AppendSample
  <2>2. result' = {}
    BY <2>1 DEF LoadInv, GroupCounts
  <2>3. LoadInv'
    BY <1>1, AppendInv
  <2>. QED BY <2>2, <2>3 DEF Returned, LoadInv, LoadTypes
<1>2. CASE Wait
  <2>1. overheads \in Seq(Times) /\ overheads' = overheads /\ result' = {Statistics(overheads)}
    BY <1>2 DEF LoadInv, LoadTypes, Wait, sharedVars
  <2>2. PICK s \in Seq(Times) : s = overheads
    BY <2>1
  <2>3. result' \subseteq {Statistics(s)}
    BY <2>1, <2>2
  <2>. QED BY <2>1, <2>2, <2>3 DEF Returned
<1>3. ASSUME NEW w \in Workers, Spawn(w) \/ Check(w) \/ Call(w) \/ Abort(w) \/ Lock(w) \/ Finish(w)
      PROVE  overheads' = overheads /\ result' = result
  BY <1>3 DEF Spawn, Check, Call, Abort, Lock, Finish, Measure, sharedVars
<1>4. CASE Expire
  BY <1>4, ReturnedKept DEF Expire, sharedVars
<1>5. ASSUME NEW w \in Workers, Spawn(w) \/ Worker(w) \/ Finish(w) PROVE Returned'
  BY <1>1, <1>3, <1>5, ReturnedKept DEF Worker
<1>. QED BY <1>2, <1>4, <1>5 DEF LoadNext

----------------------------------------------------------------------------
(***************************************************************************)
(* The bench.                                                              *)
(***************************************************************************)

Inv == LoadInv /\ Returned /\ CorpusInv /\ phase \in {"gateway", "cache", "done", "panicked"}

(* Initially, and after every step, the invariant of both parts holds. *)
THEOREM Inductive == Spec => []Inv
<1>1. Init => Inv
  BY LoadInitInv, CorpusInitInv, ReturnedInit DEF Init, Inv, LoadInit
<1>2. Inv /\ [Next]_vars => Inv'
  <2>. SUFFICES ASSUME Inv, [Next]_vars PROVE Inv'
    OBVIOUS
  <2>0. LoadInv /\ Returned /\ CorpusInv /\ phase \in {"gateway", "cache", "done", "panicked"}
    BY DEF Inv
  <2>1. ASSUME UNCHANGED loadVars PROVE LoadInv' /\ Returned'
    <3>1. UNCHANGED <<ctxDone, wg, loadPc, overhead, overheads, mu, slice, result, measured>>
      BY <2>1 DEF loadVars, sharedVars
    <3>2. Returned'
      BY <2>0, <3>1, ReturnedKept
    <3>3. LoadInv'
      BY <2>0, <3>1 DEF LoadInv, LoadTypes, GroupCounts, Running, Locked, Counted, Samples,
                        Pending, RequestsBounded, Requests
    <3>. QED BY <3>2, <3>3
  <2>2. CASE InGateway(LoadNext)
    BY <2>0, <2>2, LoadNextInv, ReturnedNext, CorpusSame DEF InGateway, Inv
  <2>3. CASE BeginCorpus
    <3>1. LoadInit'
      BY <2>3 DEF BeginCorpus, LoadInit
    <3>2. LoadInit' => LoadInv'
      BY LoadInitInv, PTL
    <3>3. UNCHANGED corpusVars /\ phase' = "cache" /\ result' = {}
      BY <2>3 DEF BeginCorpus
    <3>4. (LoadInv /\ result = {})' => Returned'
      BY ReturnedInit, PTL
    <3>. QED BY <2>0, <3>1, <3>2, <3>3, <3>4, CorpusSame DEF Inv
  <2>4. CASE Corpus
    <3>1. CorpusNext /\ UNCHANGED loadVars /\ phase' \in {"gateway", "cache", "done", "panicked"}
      BY <2>4 DEF Corpus
    <3>. QED BY <2>0, <2>1, <3>1, CorpusNextInv DEF Inv
  <2>5. CASE Panic
    <3>1. UNCHANGED <<loadVars, corpusVars>> /\ phase' = "panicked"
      BY <2>5 DEF Panic
    <3>. QED BY <2>0, <2>1, <3>1, CorpusSame DEF Inv
  <2>6. CASE UNCHANGED vars
    <3>1. UNCHANGED loadVars /\ UNCHANGED corpusVars /\ UNCHANGED phase
      BY <2>6 DEF vars
    <3>. QED BY <2>0, <2>1, <3>1, CorpusSame DEF Inv
  <2>. QED BY <2>2, <2>3, <2>4, <2>5, <2>6 DEF Next
<1>. QED BY <1>1, <1>2, PTL DEF Spec

(* The type invariant: the wait group is the number of running workers, no *)
(* time is measured more often than there are requests, the index is that  *)
(* of the entries and every query is recorded.                             *)
THEOREM TypeCorrect == Spec => []TypeOK
<1>1. Inv => TypeOK
  <2>. SUFFICES ASSUME Inv PROVE TypeOK
    OBVIOUS
  <2>1. LoadTypeOK
    <3>1. LoadTypes /\ GroupCounts /\ Locked /\ Counted /\ RequestsBounded
      BY DEF Inv, LoadInv
    <3>2. ASSUME NEW t \in Times PROVE measured[t] \in 0..MaxRequests
      <4>1. measured[t] \in Nat /\ measured[t] = Cardinality(Samples(t)) + Cardinality(Pending(t))
        BY <3>1 DEF LoadTypes, Counted
      <4>2. Cardinality(Samples(t)) \in Nat /\ Cardinality(Samples(t)) <= Len(overheads)
            /\ Len(overheads) \in Nat
        <5>1. overheads \in Seq(Times)
          BY <3>1 DEF LoadTypes
        <5>2. Len(overheads) \in Nat
          BY <5>1, LenProperties
        <5>3. Cardinality(Samples(t)) \in Nat /\ Cardinality(Samples(t)) <= Len(overheads)
          BY <5>1, SamplesFinite, Zenon DEF Samples
        <5>. QED BY <5>2, <5>3
      <4>3. Pending(t) \in SUBSET Requests /\ Requests \in SUBSET Workers
        BY DEF Pending, Requests
      <4>4. /\ Cardinality(Pending(t)) \in Nat /\ Cardinality(Requests) \in Nat
            /\ Cardinality(Pending(t)) <= Cardinality(Requests)
        BY <4>3, WorkersFinite, FS_Subset
      <4>. QED BY <3>1, <4>1, <4>2, <4>4, LoadAssumption DEF RequestsBounded
    <3>3. measured \in [Times -> 0..MaxRequests]
      BY <3>1, <3>2 DEF LoadTypes
    <3>. QED BY <3>1, <3>3 DEF LoadTypeOK, LoadTypes, GroupCounts, Running, Locked
  <2>2. CorpusTypeOK
    <3>1. /\ CacheTypes /\ PrefixTypes /\ IndexComplete /\ RecordTypes /\ Chosen
          /\ queries <= MaxQueries
      BY DEF Inv, CorpusInv
    <3>2. now = Window + queries /\ queries \in 0..MaxQueries /\ now \in Nat
      BY <3>1, CacheAssumption, PromptsAssumption DEF CacheTypes
    <3>3. \A id \in DOMAIN SemanticEntries :
             /\ SemanticEntries[id].Vector \in Vector
             /\ SemanticEntries[id].Timestamp \in 0..(now - 1)
      BY <3>1, <3>2, EntryFields DEF IDs
    <3>. QED BY <3>1, <3>2, <3>3, Zenon DEF CorpusTypeOK, PrefixTypes, RecordTypes, Chosen
  <2>. QED BY <2>1, <2>2 DEF Inv, TypeOK
<1>. QED BY <1>1, Inductive, PTL

(* RunLoadTest returns with every time its workers have measured among the *)
(* samples: the wait group is left after the append.                       *)
THEOREM EverySampleCountsHolds == Spec => []EverySampleCounts
<1>1. Inv => EverySampleCounts
  <2>. SUFFICES ASSUME Inv, result # {}, NEW t \in Times
                PROVE  Cardinality({i \in DOMAIN overheads : overheads[i] = t}) = measured[t]
    BY DEF EverySampleCounts
  <2>1. LoadTypes /\ GroupCounts /\ Counted
    BY DEF Inv, LoadInv
  <2>2. Pending(t) = {}
    BY <2>1 DEF GroupCounts, Pending
  <2>3. Cardinality(Pending(t)) = 0
    BY <2>2, FS_EmptySet
  <2>4. Cardinality(Samples(t)) \in Nat
    BY <2>1, SamplesFinite DEF Samples, LoadTypes
  <2>5. measured[t] = Cardinality(Samples(t))
    BY <2>1, <2>3, <2>4 DEF Counted
  <2>. QED BY <2>5 DEF Samples
<1>. QED BY <1>1, Inductive, PTL

(* The figures RunLoadTest returns are the percentiles, the extremes and    *)
(* the mean of the samples, for every number of samples from one on: the   *)
(* truncated index never leaves the slice and is the right one.            *)
THEOREM FiguresAreExactHolds == Spec => []FiguresAreExact
<1>1. Inv => FiguresAreExact
  <2>. SUFFICES ASSUME Inv, overheads # << >>, NEW r \in result
                PROVE  /\ IsPercentile(r.P50, 50)
                       /\ IsPercentile(r.P99, Rank)
                       /\ \A i \in DOMAIN overheads : overheads[i] \in r.Min..r.Max
                       /\ {r.Min, r.P50, r.P99, r.Max} \subseteq ToSet(overheads)
                       /\ r.Mean * Len(overheads) <= Sum(overheads)
                       /\ Sum(overheads) < (r.Mean + 1) * Len(overheads)
    BY DEF FiguresAreExact
  <2>1. overheads \in Seq(Times) /\ r = Statistics(overheads)
    BY DEF Inv, Returned
  <2>2. overheads \in Seq(Nat)
    BY <2>1, LoadAssumption, SeqMonotonic
  <2>. DEFINE n == Len(overheads)
  <2>3. n \in Nat \ {0} /\ n > 0
    BY <2>2, EmptySeq, LenProperties
  <2>4. /\ r.Min = Sorted(overheads)[1]
        /\ r.P50 = Sorted(overheads)[RankIndex(n, 50)]
        /\ r.P99 = Sorted(overheads)[RankIndex(n, Rank)]
        /\ r.Max = Sorted(overheads)[n]
        /\ r.Mean = Sum(overheads) \div n
    <3>. HIDE DEF n
    <3>. QED BY <2>1, <2>3 DEF Statistics, n
  <2>5. IsPercentile(r.P50, 50) /\ r.P50 \in ToSet(overheads)
    <3>1. 50 \in 1..99
      OBVIOUS
    <3>. QED BY <2>2, <2>3, <2>4, <3>1, PercentileIs DEF IsPercentile
  <2>6. IsPercentile(r.P99, Rank) /\ r.P99 \in ToSet(overheads)
    BY <2>2, <2>3, <2>4, LoadAssumption, PercentileIs DEF IsPercentile
  <2>7. /\ \A i \in DOMAIN overheads : overheads[i] \in r.Min..r.Max
        /\ r.Min \in ToSet(overheads) /\ r.Max \in ToSet(overheads)
    BY <2>2, <2>3, <2>4, ExtremesAre
  <2>8. r.Mean * n <= Sum(overheads) /\ Sum(overheads) < (r.Mean + 1) * n
    <3>1. Sum(overheads) \in Nat
      BY <2>2, SumOfSamples
    <3>. HIDE DEF n
    <3>. QED BY <2>3, <2>4, <3>1, MeanIs
  <2>. QED BY <2>5, <2>6, <2>7, <2>8
<1>. QED BY <1>1, Inductive, PTL

(* FindBestMatch, through its index and with its early end, returns what a *)
(* search of all entries would.                                            *)
THEOREM MatchIsBestHolds == Spec => []MatchIsBest
<1>1. Inv => MatchIsBest
  <2>. SUFFICES ASSUME Inv, NEW prompt \in Prompts, NEW t \in now..(now + Window)
                PROVE  IsBestMatch(FindBestMatch(prompt, t), prompt, t)
    BY DEF MatchIsBest
  <2>1. CacheTypes /\ IndexComplete
    BY DEF Inv, CorpusInv
  <2>2. t \in Nat
    BY <2>1, CacheAssumption DEF CacheTypes
  <2>. QED BY <2>1, <2>2, MatchIsFound
<1>. QED BY <1>1, Inductive, PTL

(* The bench stores no answer the cache could have given: of two entries   *)
(* within one window the later is not close enough to the earlier to serve.*)
THEOREM NoNearDuplicatesHolds == Spec => []NoNearDuplicates
<1>1. Inv => NoNearDuplicates
  BY DEF Inv, CorpusInv
<1>. QED BY <1>1, Inductive, PTL

(* What is reported of a choice is what it was chosen for. *)
LEMMA ReportedPoint ==
    ASSUME Inv, reported # {}
    PROVE  /\ RecordTypes /\ queries \in Nat \ {0}
           /\ chosen \in 1..Len(Thresholds)
           /\ reported = {FinalFigures(Thresholds[chosen])}
           /\ Works(CalcTradeoffCurve[chosen])
           /\ \A i \in 1..(chosen - 1) : ~Works(CalcTradeoffCurve[i])
<1>1. /\ RecordTypes /\ LowerToo /\ queries = MaxQueries /\ Choose # 0 /\ chosen = Choose
      /\ reported = {FinalFigures(Thresholds[chosen])}
  BY DEF Inv, CorpusInv, Chosen, CorpusEnded
<1>2. queries \in Nat \ {0}
  BY <1>1, PromptsAssumption
<1>3. /\ Choose \in 0..Len(Thresholds)
      /\ Works(CalcTradeoffCurve[Choose])
      /\ \A i \in 1..(Choose - 1) : ~Works(CalcTradeoffCurve[i])
  BY <1>1, <1>2, ChoiceIsFirst
<1>4. chosen \in 1..Len(Thresholds)
  BY <1>1, <1>3, ThresholdFacts
<1>. QED BY <1>1, <1>2, <1>3, <1>4

(* The final report repeats the figures of the chosen point, and its false *)
(* hits keep their limit to half a thousandth.                             *)
THEOREM ChosenPointIsReportedHolds == Spec => []ChosenPointIsReported
<1>1. Inv => ChosenPointIsReported
  <2>. SUFFICES ASSUME Inv, NEW final \in reported
                PROVE  /\ final = CalcTradeoffCurve[chosen]
                       /\ 2000 * Count({rec \in SemHits(Thresholds[chosen]) : ~rec.Correct})
                            <= (2 * MaxFalse + 1)
                                 * Count(SemHits(Thresholds[chosen]) \cup {rec \in Records : rec.PrefixHit})
    BY DEF ChosenPointIsReported
  <2>. DEFINE th == Thresholds[chosen]
              a == Count(AllHits(th))
              f == Count(FalseHits(th))
  <2>1. /\ RecordTypes /\ chosen \in 1..Len(Thresholds) /\ final = FinalFigures(th)
        /\ Works(CalcTradeoffCurve[chosen])
    BY ReportedPoint
  <2>2. CalcTradeoffCurve[chosen] = TradeoffPoint(th)
    BY <2>1, ThresholdFacts, Zenon DEF CalcTradeoffCurve
  <2>3. FinalFigures(th) = TradeoffPoint(th)
    BY Zenon DEF FinalFigures, TradeoffPoint, SemHits
  <2>4. /\ a \in Nat /\ f \in Nat /\ f <= a
        /\ TradeoffPoint(th).False = IF a > 0 THEN Round3(f, a) ELSE 0
    BY <2>1, CurvePoints DEF Figures
  <2>5. TradeoffPoint(th).False <= MaxFalse
    BY <2>1, <2>2 DEF Works
  <2>6. MaxFalse \in Nat
    BY PromptsAssumption
  <2>. HIDE DEF a, f, th
  <2>7. 2000 * f <= (2 * MaxFalse + 1) * a
    <3>1. CASE a > 0
      <4>1. a \in Nat \ {0} /\ Round3(f, a) <= MaxFalse
        BY <2>4, <2>5, <3>1
      <4>. QED BY <2>4, <2>6, <4>1, Round3Facts
    <3>2. CASE ~(a > 0)
      <4>1. a = 0 /\ f = 0
        BY <2>4, <3>2
      <4>. QED BY <2>6, <4>1
    <3>. QED BY <3>1, <3>2
  <2>8. /\ f = Count({rec \in SemHits(Thresholds[chosen]) : ~rec.Correct})
        /\ a = Count(SemHits(Thresholds[chosen]) \cup {rec \in Records : rec.PrefixHit})
    BY Zenon DEF f, a, th, FalseHits, AllHits
  <2>. QED BY <2>1, <2>2, <2>3, <2>7, <2>8
<1>. QED BY <1>1, Inductive, PTL

(* The reported threshold is the lowest that keeps the limits: the loop of *)
(* RunBench that prefers more hits can never leave it for a higher one.    *)
THEOREM LowestWorkingPointHolds == Spec => []LowestWorkingPoint
<1>1. Inv => LowestWorkingPoint
  BY ReportedPoint DEF LowestWorkingPoint
<1>. QED BY <1>1, Inductive, PTL
=============================================================================
