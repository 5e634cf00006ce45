--------------------------- MODULE BreakerProofs ---------------------------
(***************************************************************************)
(* Facts about the operators of Breaker.tla, for every value of the        *)
(* constants: what one call of Allow or Record preserves and changes, and  *)
(* that what the buckets sum up is what a log of the outcomes would.  The  *)
(* state machines built from them prove their invariants from these.       *)
(***************************************************************************)
EXTENDS Breaker, FiniteSetTheorems, SequenceTheorems, TLAPS

----------------------------------------------------------------------------
(* Arithmetic of buckets.                                                  *)

(* A bucket index starts at or before its instant and ends after it. *)
LEMMA DivBounds ==
    ASSUME NEW t \in Int
    PROVE  /\ t \div BucketSize \in Int
           /\ BucketSize * (t \div BucketSize) <= t
           /\ t < BucketSize * (t \div BucketSize) + BucketSize
    BY BreakerAssumption, SMT

(* No instant has a negative bucket. *)
LEMMA DivNat ==
    ASSUME NEW t \in Nat
    PROVE  t \div BucketSize \in Nat
<1>. DEFINE q == t \div BucketSize
<1>1. q \in Int /\ t < BucketSize * q + BucketSize
  BY DivBounds
<1>2. BucketSize \in Nat \ {0}
  BY BreakerAssumption
<1>. HIDE DEF q
<1>3. q >= 0
  <2>. SUFFICES ASSUME q <= -1 PROVE FALSE
    BY <1>1
  <2>1. BucketSize * q <= -BucketSize
    BY <1>1, <1>2
  <2>. QED BY <2>1, <1>1, <1>2
<1>. QED BY <1>1, <1>3 DEF q

(* The bucket index of the clock never decreases. *)
LEMMA DivMonotone ==
    ASSUME NEW s \in Int, NEW t \in Int, s <= t
    PROVE  s \div BucketSize <= t \div BucketSize
<1>. DEFINE p == s \div BucketSize
            q == t \div BucketSize
<1>1. /\ p \in Int /\ q \in Int
      /\ BucketSize * p <= s
      /\ t < BucketSize * q + BucketSize
  BY DivBounds
<1>2. BucketSize \in Nat \ {0}
  BY BreakerAssumption
<1>. HIDE DEF p, q
<1>3. p <= q
  <2>. SUFFICES ASSUME p >= q + 1 PROVE FALSE
    BY <1>1
  <2>1. BucketSize * p >= BucketSize * (q + 1)
    BY <1>1, <1>2
  <2>2. BucketSize * (q + 1) = BucketSize * q + BucketSize
    BY <1>1, <1>2
  <2>. QED BY <2>1, <2>2, <1>1, <1>2
<1>. QED BY <1>3 DEF p, q

(* The window holds Window \div BucketSize buckets: that is how far the    *)
(* last bucket cleanup drops lies behind the current one.                  *)
LEMMA WindowBuckets ==
    ASSUME NEW now \in Int
    PROVE  (now - Window) \div BucketSize
             = (now \div BucketSize) - (Window \div BucketSize)
<1>. DEFINE p == (now - Window) \div BucketSize
            q == now \div BucketSize
            k == Window \div BucketSize
<1>0. BucketSize \in Nat \ {0} /\ Window \in Nat \ {0}
  BY BreakerAssumption
<1>1. /\ p \in Int /\ q \in Int /\ k \in Int
      /\ BucketSize * p <= now - Window
      /\ now - Window < BucketSize * p + BucketSize
      /\ BucketSize * q <= now
      /\ now < BucketSize * q + BucketSize
  BY <1>0, DivBounds
<1>2. Window = BucketSize * k
  BY BreakerAssumption, SMT
<1>. HIDE DEF p, q, k
<1>3. BucketSize * (p + k) = BucketSize * p + BucketSize * k
  BY <1>0, <1>1
<1>. DEFINE d == p + k
<1>4. d \in Int /\ BucketSize * d <= now /\ now < BucketSize * d + BucketSize
  BY <1>0, <1>1, <1>2, <1>3
<1>. HIDE DEF d
<1>5. d = q
  <2>1. ASSUME d >= q + 1 PROVE FALSE
    <3>1. BucketSize * d >= BucketSize * (q + 1)
      BY <2>1, <1>0, <1>1, <1>4
    <3>2. BucketSize * (q + 1) = BucketSize * q + BucketSize
      BY <1>0, <1>1
    <3>. QED BY <3>1, <3>2, <1>0, <1>1, <1>4
  <2>2. ASSUME q >= d + 1 PROVE FALSE
    <3>1. BucketSize * q >= BucketSize * (d + 1)
      BY <2>2, <1>0, <1>1, <1>4
    <3>2. BucketSize * (d + 1) = BucketSize * d + BucketSize
      BY <1>0, <1>4
    <3>. QED BY <3>1, <3>2, <1>0, <1>1, <1>4
  <2>. QED BY <2>1, <2>2, <1>1, <1>4
<1>. QED BY <1>1, <1>5 DEF d, p, q, k

----------------------------------------------------------------------------
(* The window.                                                             *)

(* cleanup keeps the buckets well formed, and only those of the window.    *)
LEMMA CleanupKeeps ==
    ASSUME NEW buckets, NEW now \in Nat, BucketsOK(buckets, now)
    PROVE  /\ BucketsOK(Cleanup(buckets, now), now)
           /\ \A k \in DOMAIN Cleanup(buckets, now) :
                 k > (now - Window) \div BucketSize
    BY DEF BucketsOK, Cleanup

(* Counting an outcome keeps the buckets well formed, and adds at most the *)
(* current one.                                                            *)
LEMMA CountKeeps ==
    ASSUME NEW buckets, NEW now \in Nat, BucketsOK(buckets, now),
           NEW success \in BOOLEAN
    PROVE  /\ BucketsOK(Count(buckets, BucketIndex(now), success), now)
           /\ DOMAIN Count(buckets, BucketIndex(now), success)
                 = DOMAIN buckets \cup {now \div BucketSize}
<1>. DEFINE idx == now \div BucketSize
            c   == Count(buckets, idx, success)
            b   == IF idx \in DOMAIN buckets THEN buckets[idx]
                                             ELSE [success |-> 0, failure |-> 0]
<1>1. idx \in 0..idx
  BY DivNat
<1>2. b \in Bucket
  BY DEF BucketsOK, Bucket
<1>3. /\ [b EXCEPT !.success = @ + 1] \in Bucket
      /\ [b EXCEPT !.failure = @ + 1] \in Bucket
  BY <1>2 DEF Bucket
<1>4. c = [k \in DOMAIN buckets \cup {idx} |->
            IF k # idx THEN buckets[k]
            ELSE IF success THEN [b EXCEPT !.success = @ + 1]
                            ELSE [b EXCEPT !.failure = @ + 1]]
  BY DEF Count
<1>. HIDE DEF b, c
<1>5. DOMAIN c = DOMAIN buckets \cup {idx} /\ c = [k \in DOMAIN c |-> c[k]]
  BY <1>4
<1>6. ASSUME NEW k \in DOMAIN c PROVE c[k] \in Bucket
  <2>1. CASE k # idx
    BY <2>1, <1>4, <1>5 DEF BucketsOK
  <2>2. CASE k = idx
    BY <2>2, <1>3, <1>4, <1>5
  <2>. QED BY <2>1, <2>2
<1>7. DOMAIN c \subseteq 0..idx
  BY <1>1, <1>5 DEF BucketsOK
<1>. QED BY <1>5, <1>6, <1>7 DEF BucketsOK, BucketIndex, c

(* As the clock advances, well-formed buckets stay so.                     *)
LEMMA LaterKeepsBuckets ==
    ASSUME NEW buckets, NEW now \in Nat, NEW later \in Nat, now <= later,
           BucketsOK(buckets, now)
    PROVE  BucketsOK(buckets, later)
<1>1. /\ now \div BucketSize <= later \div BucketSize
      /\ now \div BucketSize \in Nat
      /\ later \div BucketSize \in Nat
  BY DivMonotone, DivNat
<1>. QED BY <1>1 DEF BucketsOK

(* A breaker whose buckets reach back no further than the window holds.    *)
WithinWindow(buckets) ==
    \E r \in Int : \A k \in DOMAIN buckets :
        k \in Int /\ k <= r /\ k > r - (Window \div BucketSize)

(* There are then at most Window \div BucketSize of them.                  *)
LEMMA WithinWindowBounds ==
    ASSUME NEW buckets, WithinWindow(buckets)
    PROVE  /\ IsFiniteSet(DOMAIN buckets)
           /\ Cardinality(DOMAIN buckets) <= Window \div BucketSize
<1>. DEFINE K == Window \div BucketSize
<1>0. K \in Nat
  BY BreakerAssumption, DivNat
<1>. HIDE DEF K
<1>1. PICK r \in Int : \A k \in DOMAIN buckets : k \in Int /\ k <= r /\ k > r - K
  BY DEF WithinWindow, K
<1>2. DOMAIN buckets \subseteq (r - K + 1)..r
  BY <1>0, <1>1
<1>3. /\ IsFiniteSet((r - K + 1)..r)
      /\ Cardinality((r - K + 1)..r) = IF r - K + 1 > r THEN 0 ELSE r - (r - K + 1) + 1
  BY <1>0, FS_Interval
<1>4. Cardinality((r - K + 1)..r) = K
  BY <1>0, <1>3
<1>5. /\ IsFiniteSet(DOMAIN buckets)
      /\ Cardinality(DOMAIN buckets) <= Cardinality((r - K + 1)..r)
  BY <1>2, <1>3, FS_Subset
<1>. QED BY <1>4, <1>5 DEF K

----------------------------------------------------------------------------
(* Allow and Record.                                                       *)

(* What an admission does: a closed breaker is left alone, an open one is  *)
(* past its cooldown and becomes half-open.                                *)
LEMMA AllowEffect ==
    ASSUME NEW b, NEW now \in Nat, BreakerOK(b, now), CanAllow(b, now),
           b.halfOpenInFlight = (b.state = HalfOpen)
    PROVE  /\ BreakerOK(AfterAllow(b, now), now)
           /\ AfterAllow(b, now).halfOpenInFlight = (AfterAllow(b, now).state = HalfOpen)
           /\ AfterAllow(b, now).lastOpenTime = b.lastOpenTime
           /\ AfterAllow(b, now).buckets = b.buckets
           /\ \/ b.state = Closed /\ AfterAllow(b, now) = b
              \/ /\ b.state = Open
                 /\ now >= b.lastOpenTime + Cooldown
                 /\ AfterAllow(b, now).state = HalfOpen
<1>. USE DEF Closed, Open, HalfOpen, State
<1>0. b.lastOpenTime \in Nat /\ b.lastOpenTime <= now /\ Cooldown \in Nat
  BY BreakerAssumption DEF BreakerOK
<1>1. CASE b.state = Closed
  BY <1>1 DEF AfterAllow, BreakerOK
<1>2. CASE b.state = Open
  <2>1. AfterAllow(b, now) = [b EXCEPT !.state = HalfOpen, !.halfOpenInFlight = TRUE]
    BY <1>2 DEF AfterAllow
  <2>2. AfterAllow(b, now) = [state |-> HalfOpen, lastOpenTime |-> b.lastOpenTime,
                              halfOpenInFlight |-> TRUE, buckets |-> b.buckets]
    BY <2>1 DEF BreakerOK
  <2>3. now >= b.lastOpenTime + Cooldown
    BY <1>0, <1>2 DEF CanAllow
  <2>4. BreakerOK(AfterAllow(b, now), now)
    BY <2>2 DEF BreakerOK
  <2>5. /\ AfterAllow(b, now).state = HalfOpen
        /\ AfterAllow(b, now).halfOpenInFlight = TRUE
        /\ AfterAllow(b, now).lastOpenTime = b.lastOpenTime
        /\ AfterAllow(b, now).buckets = b.buckets
    BY <2>2
  <2>. QED BY <1>2, <2>3, <2>4, <2>5, Zenon
<1>3. CASE b.state = HalfOpen
  BY <1>3 DEF CanAllow
<1>. QED BY <1>1, <1>2, <1>3 DEF BreakerOK

(* The breaker a differs from b in its buckets, and in having tripped now, *)
(* if at all.                                                              *)
CountsAndMayTrip(b, a, now) ==
    \E buckets :
        /\ BucketsOK(buckets, now)
        /\ WithinWindow(buckets)
        /\ \/ a = [b EXCEPT !.buckets = buckets]
           \/ a = [b EXCEPT !.buckets = buckets, !.state = Open, !.lastOpenTime = now]

(* What recording an outcome does to a closed breaker: the buckets stay    *)
(* well formed and inside the window, and the breaker trips now or not.    *)
LEMMA RecordClosedEffect ==
    ASSUME NEW b, NEW now \in Nat, BreakerOK(b, now), b.state = Closed,
           NEW success \in BOOLEAN
    PROVE  CountsAndMayTrip(b, AfterRecord(b, now, success), now)
<1>. DEFINE cleaned == Cleanup(b.buckets, now)
            counted == Count(cleaned, BucketIndex(now), success)
            K == Window \div BucketSize
            idx == now \div BucketSize
<1>1. /\ BucketsOK(cleaned, now)
      /\ \A k \in DOMAIN cleaned : k > (now - Window) \div BucketSize
  BY CleanupKeeps DEF BreakerOK
<1>2. /\ BucketsOK(counted, now)
      /\ DOMAIN counted = DOMAIN cleaned \cup {idx}
  BY <1>1, CountKeeps
<1>3. idx \in Nat /\ K \in Int /\ (now - Window) \div BucketSize = idx - K
  <2>1. idx \in Nat
    BY DivNat
  <2>2. K \in Int
    BY BreakerAssumption, DivNat
  <2>3. (now - Window) \div BucketSize = idx - K
    BY WindowBuckets
  <2>. QED BY <2>1, <2>2, <2>3
<1>4. K > 0
  <2>1. /\ Window \in Nat \ {0} /\ BucketSize \in Nat \ {0}
        /\ Window = BucketSize * K
    BY BreakerAssumption, SMT
  <2>. HIDE DEF K
  <2>. QED BY <2>1, <1>3
<1>. HIDE DEF cleaned, counted, K, idx
<1>5. \A k \in DOMAIN counted : k \in Int /\ k <= idx /\ k > idx - K
  BY <1>1, <1>2, <1>3, <1>4 DEF BucketsOK, idx
<1>6. WithinWindow(counted)
  BY <1>3, <1>5 DEF WithinWindow, K
<1>7. AfterRecord(b, now, success) = RecordClosed(b, now, success)
  BY DEF AfterRecord, Closed, Open, HalfOpen
<1>8. \/ AfterRecord(b, now, success) = [b EXCEPT !.buckets = counted]
      \/ AfterRecord(b, now, success) =
            [b EXCEPT !.buckets = counted, !.state = Open, !.lastOpenTime = now]
  <2>1. RecordClosed(b, now, success) =
          IF RateTrips(Successes(counted), Failures(counted))
          THEN [[b EXCEPT !.buckets = counted] EXCEPT !.state = Open, !.lastOpenTime = now]
          ELSE [b EXCEPT !.buckets = counted]
    BY Zenon DEF RecordClosed, counted, cleaned
  <2>2. b = [state |-> b.state, lastOpenTime |-> b.lastOpenTime,
             halfOpenInFlight |-> b.halfOpenInFlight, buckets |-> b.buckets]
    BY DEF BreakerOK
  <2>3. [[b EXCEPT !.buckets = counted] EXCEPT !.state = Open, !.lastOpenTime = now]
          = [b EXCEPT !.buckets = counted, !.state = Open, !.lastOpenTime = now]
    BY <2>2
  <2>. QED BY <1>7, <2>1, <2>3
<1>. QED BY <1>2, <1>6, <1>8 DEF CountsAndMayTrip

(* What recording an outcome does, in every state: the flag stays that of  *)
(* the half-open state, the breaker is not half-open afterwards, the last  *)
(* trip is the old one or now, and the window is kept.                     *)
LEMMA RecordEffect ==
    ASSUME NEW b, NEW now \in Nat, BreakerOK(b, now), NEW success \in BOOLEAN,
           b.halfOpenInFlight = (b.state = HalfOpen)
    PROVE  /\ BreakerOK(AfterRecord(b, now, success), now)
           /\ AfterRecord(b, now, success).halfOpenInFlight = FALSE
           /\ AfterRecord(b, now, success).state \in {Closed, Open}
           /\ WithinWindow(b.buckets) => WithinWindow(AfterRecord(b, now, success).buckets)
           /\ \/ /\ AfterRecord(b, now, success).lastOpenTime = now
                 /\ AfterRecord(b, now, success).state = Open
              \/ /\ AfterRecord(b, now, success).lastOpenTime = b.lastOpenTime
                 /\ AfterRecord(b, now, success).state = Open => b.state = Open
<1>. USE DEF Closed, Open, HalfOpen, State
<1>. DEFINE a == AfterRecord(b, now, success)
<1>0. b = [state |-> b.state, lastOpenTime |-> b.lastOpenTime,
           halfOpenInFlight |-> b.halfOpenInFlight, buckets |-> b.buckets]
  BY DEF BreakerOK
<1>1. CASE b.state = Closed
  <2>0. CountsAndMayTrip(b, a, now)
    BY <1>1, RecordClosedEffect
  <2>. HIDE DEF a
  <2>1. PICK buckets :
             /\ BucketsOK(buckets, now)
             /\ WithinWindow(buckets)
             /\ \/ a = [b EXCEPT !.buckets = buckets]
                \/ a = [b EXCEPT !.buckets = buckets, !.state = Open, !.lastOpenTime = now]
    BY <2>0 DEF CountsAndMayTrip
  <2>2. CASE a = [b EXCEPT !.buckets = buckets]
    <3>1. a = [state |-> Closed, lastOpenTime |-> b.lastOpenTime,
               halfOpenInFlight |-> FALSE, buckets |-> buckets]
      BY <2>2, <1>0, <1>1
    <3>. QED BY <3>1, <2>1, <1>1 DEF BreakerOK, a
  <2>3. CASE a = [b EXCEPT !.buckets = buckets, !.state = Open, !.lastOpenTime = now]
    <3>1. a = [state |-> Open, lastOpenTime |-> now,
               halfOpenInFlight |-> FALSE, buckets |-> buckets]
      BY <2>3, <1>0, <1>1
    <3>. QED BY <3>1, <2>1, <1>1 DEF BreakerOK, a
  <2>. QED BY <2>1, <2>2, <2>3
<1>2. CASE b.state = Open
  <2>1. a = b
    BY <1>2 DEF AfterRecord
  <2>. HIDE DEF a
  <2>. QED BY <1>2, <2>1 DEF a
<1>3. CASE b.state = HalfOpen
  <2>1. a = RecordHalfOpen(b, now, success)
    BY <1>3 DEF AfterRecord
  <2>. HIDE DEF a
  <2>2. CASE success
    <3>1. a = [state |-> Closed, lastOpenTime |-> b.lastOpenTime,
               halfOpenInFlight |-> FALSE, buckets |-> NoBuckets]
      BY <2>1, <2>2, <1>0 DEF RecordHalfOpen
    <3>2. DOMAIN NoBuckets = {}
      BY DEF NoBuckets
    <3>3. BucketsOK(NoBuckets, now) /\ WithinWindow(NoBuckets)
      BY <3>2 DEF BucketsOK, WithinWindow, NoBuckets
    <3>. QED BY <3>1, <3>3, <1>3 DEF BreakerOK, a
  <2>3. CASE ~success
    <3>1. a = [state |-> Open, lastOpenTime |-> now,
               halfOpenInFlight |-> FALSE, buckets |-> b.buckets]
      BY <2>1, <2>3, <1>0 DEF RecordHalfOpen
    <3>. QED BY <3>1, <1>3 DEF BreakerOK, a
  <2>. QED BY <2>2, <2>3
<1>. QED BY <1>1, <1>2, <1>3 DEF BreakerOK

(* The initial breaker. *)
LEMMA NewCircuitBreakerOK ==
    ASSUME NEW now \in Nat
    PROVE  /\ BreakerOK(NewCircuitBreaker, now)
           /\ WithinWindow(NewCircuitBreaker.buckets)
<1>1. DOMAIN NoBuckets = {}
  BY DEF NoBuckets
<1>2. BucketsOK(NoBuckets, now) /\ WithinWindow(NoBuckets)
  BY <1>1 DEF BucketsOK, WithinWindow, NoBuckets
<1>. QED BY <1>2 DEF NewCircuitBreaker, BreakerOK, State, Closed, ZeroTime

----------------------------------------------------------------------------
(***************************************************************************)
(* Buckets as tallies.  A breaker that has counted the outcomes of a log   *)
(* holds, in every bucket of the window, how many of them fall into it, so *)
(* that what it sums up is what a window of exact instants would count.    *)
(***************************************************************************)

LogEntry == [at : Nat, success : BOOLEAN]

(* The outcomes of one kind in a set of buckets. *)
Falling(log, s, success) ==
    {i \in DOMAIN log : log[i].success = success /\ log[i].at \div BucketSize \in s}

TallyOf(b, success) == IF success THEN b.success ELSE b.failure

(* Buckets later than first are tallies of the log. *)
Tallied(buckets, log, first) ==
    \A k \in Nat : k > first =>
        \A success \in BOOLEAN :
            Cardinality(Falling(log, {k}, success)) =
                IF k \in DOMAIN buckets THEN TallyOf(buckets[k], success) ELSE 0

LEMMA NatSetInduction ==
    ASSUME NEW S, 0 \in S, \A n \in Nat : n \in S => n + 1 \in S
    PROVE  \A n \in Nat : n \in S
<1>. DEFINE T == Nat \ S
            R == OpToRel(<, Nat)
<1>1. SUFFICES ASSUME T # {} PROVE FALSE
  OBVIOUS
<1>2. R = {ss \in Nat \X Nat : ss[1] < ss[2]}
  BY DEF OpToRel
<1>3. IsWellFoundedOn(R, Nat)
  BY NatLessThanWellFounded, Zenon
<1>4. T \subseteq Nat
  OBVIOUS
<1>. HIDE DEF R
<1>5. PICK x \in T : \A y \in T : ~ (<<y, x>> \in R)
  <2>. HIDE DEF T
  <2>. QED BY <1>1, <1>3, <1>4, WFMin, Zenon
<1>6. x # 0 /\ x - 1 \in Nat
  OBVIOUS
<1>7. x - 1 \notin T
  <2>1. SUFFICES ASSUME x - 1 \in T PROVE FALSE
    OBVIOUS
  <2>2. <<x - 1, x>> \in R
    BY <1>2, <1>6
  <2>. QED BY <1>5, <2>1, <2>2
<1>. QED BY <1>6, <1>7

Pick(s) == CHOOSE x \in s : TRUE

(* What the sum of the library is defined by, for a function f. *)
Adds(f, D, g) ==
    \A s \in SUBSET D : g[s] = IF s = {} THEN 0 ELSE f[Pick(s)] + g[s \ {Pick(s)}]

LEMMA PickIsIn == ASSUME NEW s, s # {} PROVE Pick(s) \in s
    BY DEF Pick

(* Induction over the size of the subsets of a finite set. *)
LEMMA SubsetInduction ==
    ASSUME NEW D, IsFiniteSet(D), NEW P \in SUBSET SUBSET D, {} \in P,
           \A s \in SUBSET D : s # {} /\ (\A y \in s : s \ {y} \in P) => s \in P
    PROVE  \A s \in SUBSET D : s \in P
<1>. DEFINE S == {n \in Nat : \A s \in SUBSET D : Cardinality(s) = n => s \in P}
<1>1. \A s \in SUBSET D : IsFiniteSet(s) /\ Cardinality(s) \in Nat
  BY FS_Subset, FS_CardinalityType
<1>2. 0 \in S
  BY <1>1, FS_EmptySet
<1>3. ASSUME NEW n \in Nat, n \in S PROVE n + 1 \in S
  <2>1. SUFFICES ASSUME NEW s \in SUBSET D, Cardinality(s) = n + 1 PROVE s \in P
    OBVIOUS
  <2>2. s # {}
    BY <2>1, FS_EmptySet
  <2>3. ASSUME NEW y \in s PROVE s \ {y} \in P
    <3>1. Cardinality(s \ {y}) = n
      BY <1>1, <2>1, FS_RemoveElement
    <3>. QED BY <1>3, <3>1
  <2>. QED BY <2>2, <2>3
<1>4. \A n \in Nat : n \in S
  <2>. HIDE DEF S
  <2>. QED BY <1>2, <1>3, NatSetInduction
<1>. QED BY <1>1, <1>4

LEMMA AddsOnce ==
    ASSUME NEW D, IsFiniteSet(D), NEW f, NEW g, NEW h, Adds(f, D, g), Adds(f, D, h)
    PROVE  \A s \in SUBSET D : g[s] = h[s]
<1>. DEFINE P == {s \in SUBSET D : g[s] = h[s]}
<1>1. {} \in P
  BY DEF Adds
<1>2. ASSUME NEW s \in SUBSET D, s # {}, \A y \in s : s \ {y} \in P PROVE s \in P
  <2>1. g[s \ {Pick(s)}] = h[s \ {Pick(s)}]
    BY <1>2, PickIsIn
  <2>2. /\ g[s] = f[Pick(s)] + g[s \ {Pick(s)}]
        /\ h[s] = f[Pick(s)] + h[s \ {Pick(s)}]
    BY <1>2, Zenon DEF Adds
  <2>. QED BY <2>1, <2>2
<1>3. \A s \in SUBSET D : s \in P
  <2>. HIDE DEF P
  <2>1. P \in SUBSET SUBSET D
    BY DEF P
  <2>. QED BY <1>1, <1>2, <2>1, SubsetInduction
<1>. QED BY <1>3

(* The sums over the buckets, from any function that adds them up. *)
LEMMA SuccessesAre ==
    ASSUME NEW buckets, IsFiniteSet(DOMAIN buckets), NEW f, NEW g,
           \A k \in DOMAIN buckets : f[k] = buckets[k].success,
           Adds(f, DOMAIN buckets, g)
    PROVE  Successes(buckets) = g[DOMAIN buckets]
<1>. DEFINE D == DOMAIN buckets
            Iter(it) == it = [s \in SUBSET D |-> IF s = {} THEN 0
                                ELSE buckets[Pick(s)].success + it[s \ {Pick(s)}]]
            it == CHOOSE x : Iter(x)
            h == [s \in SUBSET D |-> g[s]]
<1>1. Successes(buckets) = it[D]
  BY Zenon DEF Successes, MapThenSumSet, MapThenFoldSet, Pick
<1>2. ASSUME NEW s \in SUBSET D, s # {}
      PROVE  f[Pick(s)] = buckets[Pick(s)].success /\ s \ {Pick(s)} \in SUBSET D
  BY <1>2, PickIsIn
<1>3. Iter(h)
  <2>1. \A s \in SUBSET D : h[s] = IF s = {} THEN 0
                                   ELSE buckets[Pick(s)].success + h[s \ {Pick(s)}]
    BY <1>2 DEF Adds
  <2>. QED BY <2>1
<1>4. Iter(it)
  <2>. HIDE DEF Iter
  <2>. QED BY <1>3, Zenon
<1>5. Adds(f, D, it)
  <2>. HIDE DEF it
  <2>. QED BY <1>2, <1>4 DEF Adds
<1>6. it[D] = g[D]
  <2>. HIDE DEF it
  <2>. QED BY <1>5, AddsOnce
<1>. QED BY <1>1, <1>6

LEMMA FailuresAre ==
    ASSUME NEW buckets, IsFiniteSet(DOMAIN buckets), NEW f, NEW g,
           \A k \in DOMAIN buckets : f[k] = buckets[k].failure,
           Adds(f, DOMAIN buckets, g)
    PROVE  Failures(buckets) = g[DOMAIN buckets]
<1>. DEFINE D == DOMAIN buckets
            Iter(it) == it = [s \in SUBSET D |-> IF s = {} THEN 0
                                ELSE buckets[Pick(s)].failure + it[s \ {Pick(s)}]]
            it == CHOOSE x : Iter(x)
            h == [s \in SUBSET D |-> g[s]]
<1>1. Failures(buckets) = it[D]
  BY Zenon DEF Failures, MapThenSumSet, MapThenFoldSet, Pick
<1>2. ASSUME NEW s \in SUBSET D, s # {}
      PROVE  f[Pick(s)] = buckets[Pick(s)].failure /\ s \ {Pick(s)} \in SUBSET D
  BY <1>2, PickIsIn
<1>3. Iter(h)
  <2>1. \A s \in SUBSET D : h[s] = IF s = {} THEN 0
                                   ELSE buckets[Pick(s)].failure + h[s \ {Pick(s)}]
    BY <1>2 DEF Adds
  <2>. QED BY <2>1
<1>4. Iter(it)
  <2>. HIDE DEF Iter
  <2>. QED BY <1>3, Zenon
<1>5. Adds(f, D, it)
  <2>. HIDE DEF it
  <2>. QED BY <1>2, <1>4 DEF Adds
<1>6. it[D] = g[D]
  <2>. HIDE DEF it
  <2>. QED BY <1>5, AddsOnce
<1>. QED BY <1>1, <1>6

LEMMA LogFinite ==
    ASSUME NEW S, NEW log \in Seq(S), NEW T \in SUBSET DOMAIN log
    PROVE  IsFiniteSet(T) /\ Cardinality(T) \in Nat
<1>1. Len(log) \in Nat /\ DOMAIN log = 1..Len(log)
  BY LenProperties
<1>2. IsFiniteSet(1..Len(log))
  BY <1>1, FS_Interval
<1>. QED BY <1>1, <1>2, FS_Subset, FS_CardinalityType

(* The outcomes of a set of buckets are those of each of them. *)
LEMMA FallingAdds ==
    ASSUME NEW log \in Seq(LogEntry), NEW D, NEW success \in BOOLEAN, NEW f,
           \A k \in D : f[k] = Cardinality(Falling(log, {k}, success))
    PROVE  Adds(f, D, [s \in SUBSET D |-> Cardinality(Falling(log, s, success))])
<1>. DEFINE g == [s \in SUBSET D |-> Cardinality(Falling(log, s, success))]
            At(s) == Falling(log, s, success)
<1>1. \A s : IsFiniteSet(At(s)) /\ Cardinality(At(s)) \in Nat
  BY LogFinite DEF Falling
<1>2. Cardinality(At({})) = 0
  <2>1. At({}) = {}
    BY DEF Falling
  <2>. QED BY <2>1, FS_EmptySet
<1>3. ASSUME NEW s \in SUBSET D, s # {}
      PROVE  Cardinality(At(s)) = f[Pick(s)] + Cardinality(At(s \ {Pick(s)}))
  <2>. DEFINE x == Pick(s)
  <2>1. x \in s
    BY <1>3, PickIsIn
  <2>. HIDE DEF x
  <2>2. At(s) = At({x}) \cup At(s \ {x}) /\ At({x}) \cap At(s \ {x}) = {}
    BY <2>1 DEF Falling
  <2>. HIDE DEF At
  <2>3. f[x] = Cardinality(At({x}))
    BY <2>1 DEF At
  <2>. DEFINE A == At({x})
              B == At(s \ {x})
  <2>4. At(s) = A \cup B /\ A \cap B = {} /\ f[x] = Cardinality(A)
    BY <2>2, <2>3
  <2>5. /\ IsFiniteSet(A) /\ IsFiniteSet(B)
        /\ Cardinality(A) \in Nat /\ Cardinality(B) \in Nat
    BY <1>1
  <2>. HIDE DEF A, B
  <2>6. Cardinality(A \cup B) = Cardinality(A) + Cardinality(B)
    <3>1. Cardinality(A \cup B) = Cardinality(A) + Cardinality(B) - Cardinality(A \cap B)
      BY <2>5, FS_Union
    <3>2. Cardinality(A \cap B) = 0
      BY <2>4, FS_EmptySet
    <3>. QED BY <2>5, <3>1, <3>2
  <2>7. Cardinality(At(s)) = f[x] + Cardinality(At(s \ {x}))
    <3>1. Cardinality(At(s)) = f[x] + Cardinality(B)
      BY <2>4, <2>6
    <3>. QED BY <3>1 DEF B
  <2>. QED BY <2>7 DEF x
<1>4. \A s \in SUBSET D : s \ {Pick(s)} \in SUBSET D
  OBVIOUS
<1>. HIDE DEF At
<1>5. \A s \in SUBSET D : g[s] = Cardinality(At(s))
  BY DEF At
<1>. HIDE DEF g
<1>6. Adds(f, D, g)
  BY <1>2, <1>3, <1>4, <1>5 DEF Adds
<1>. QED BY <1>6 DEF g

(* The sums over well-formed tallies are the numbers of outcomes that fall *)
(* into the buckets.                                                       *)
LEMMA SumsOfTallies ==
    ASSUME NEW log \in Seq(LogEntry), NEW now \in Nat, NEW buckets, BucketsOK(buckets, now),
           NEW first \in Int, Tallied(buckets, log, first),
           \A k \in DOMAIN buckets : k > first
    PROVE  /\ Successes(buckets) = Cardinality(Falling(log, DOMAIN buckets, TRUE))
           /\ Failures(buckets) = Cardinality(Falling(log, DOMAIN buckets, FALSE))
<1>. DEFINE D == DOMAIN buckets
            f(success) == [k \in D |-> TallyOf(buckets[k], success)]
            g(success) == [s \in SUBSET D |-> Cardinality(Falling(log, s, success))]
<1>1. now \div BucketSize \in Nat
  BY DivNat
<1>2. D \subseteq Nat /\ IsFiniteSet(D)
  <2>1. IsFiniteSet(0..(now \div BucketSize))
    BY <1>1, FS_Interval
  <2>2. D \subseteq 0..(now \div BucketSize)
    BY DEF BucketsOK
  <2>. QED BY <1>1, <2>1, <2>2, FS_Subset
<1>3. ASSUME NEW success \in BOOLEAN
      PROVE  \A k \in D : f(success)[k] = Cardinality(Falling(log, {k}, success))
  BY <1>2 DEF Tallied
<1>4. ASSUME NEW success \in BOOLEAN PROVE Adds(f(success), D, g(success))
  <2>. HIDE DEF f, D
  <2>. QED BY <1>3, FallingAdds
<1>5. /\ \A k \in D : f(TRUE)[k] = buckets[k].success
      /\ \A k \in D : f(FALSE)[k] = buckets[k].failure
  BY DEF TallyOf
<1>6. /\ g(TRUE)[D] = Cardinality(Falling(log, D, TRUE))
      /\ g(FALSE)[D] = Cardinality(Falling(log, D, FALSE))
  OBVIOUS
<1>7. Adds(f(TRUE), D, g(TRUE)) /\ Adds(f(FALSE), D, g(FALSE))
  <2>. HIDE DEF f, g, D
  <2>. QED BY <1>4
<1>8. Successes(buckets) = g(TRUE)[D]
  <2>. DEFINE f1 == f(TRUE)
              g1 == g(TRUE)
  <2>1. IsFiniteSet(D) /\ (\A k \in D : f1[k] = buckets[k].success) /\ Adds(f1, D, g1)
    BY <1>2, <1>5, <1>7
  <2>. HIDE DEF f1, g1
  <2>2. Successes(buckets) = g1[D]
    BY <2>1, SuccessesAre
  <2>. HIDE DEF g, D
  <2>. QED BY <2>2 DEF g1
<1>9. Failures(buckets) = g(FALSE)[D]
  <2>. DEFINE f1 == f(FALSE)
              g1 == g(FALSE)
  <2>1. IsFiniteSet(D) /\ (\A k \in D : f1[k] = buckets[k].failure) /\ Adds(f1, D, g1)
    BY <1>2, <1>5, <1>7
  <2>. HIDE DEF f1, g1
  <2>2. Failures(buckets) = g1[D]
    BY <2>1, FailuresAre
  <2>. HIDE DEF g, D
  <2>. QED BY <2>2 DEF g1
<1>. QED BY <1>6, <1>8, <1>9

(* Counting one more outcome keeps the tallies of the window, and leaves   *)
(* no bucket before it.                                                    *)
LEMMA CountTallies ==
    ASSUME NEW log \in Seq(LogEntry), NEW now \in Nat, NEW buckets, BucketsOK(buckets, now),
           NEW first \in Int, first < now \div BucketSize, Tallied(buckets, log, first),
           \A k \in DOMAIN buckets : k > first, NEW success \in BOOLEAN
    PROVE  LET counted == Count(buckets, BucketIndex(now), success)
               log2    == Append(log, [at |-> now, success |-> success])
           IN  /\ Tallied(counted, log2, first)
               /\ \A k \in DOMAIN counted : k > first
<1>. DEFINE idx == now \div BucketSize
            new == [at |-> now, success |-> success]
            log2 == Append(log, new)
            counted == Count(buckets, idx, success)
            b == IF idx \in DOMAIN buckets THEN buckets[idx]
                                           ELSE [success |-> 0, failure |-> 0]
            n == Len(log)
<1>1. idx \in Nat
  BY DivNat
<1>2. b \in Bucket
  BY DEF BucketsOK, Bucket
<1>3. counted = [k \in DOMAIN buckets \cup {idx} |->
                    IF k # idx THEN buckets[k]
                    ELSE IF success THEN [b EXCEPT !.success = @ + 1]
                                    ELSE [b EXCEPT !.failure = @ + 1]]
  BY DEF Count
<1>4. /\ n \in Nat /\ DOMAIN log = 1..n /\ DOMAIN log2 = 1..(n + 1)
      /\ new \in LogEntry /\ log2 \in Seq(LogEntry)
      /\ \A i \in 1..n : log2[i] = log[i]
      /\ log2[n + 1] = new
  <2>1. new \in LogEntry
    BY DEF LogEntry
  <2>. HIDE DEF new
  <2>. QED BY <2>1, LenProperties
<1>5. ASSUME NEW k \in Nat, k # idx, NEW v \in BOOLEAN
      PROVE  Falling(log2, {k}, v) = Falling(log, {k}, v)
  <2>. HIDE DEF log2, n
  <2>1. \A i \in 1..(n + 1) : i = n + 1 \/ i \in 1..n
    BY <1>4
  <2>2. 1..n \subseteq 1..(n + 1)
    BY <1>4
  <2>3. n + 1 \notin Falling(log2, {k}, v)
    BY <1>4, <1>5 DEF Falling
  <2>. HIDE DEF idx, new
  <2>. QED BY <1>4, <2>1, <2>2, <2>3 DEF Falling
<1>6. ASSUME NEW v \in BOOLEAN
      PROVE  Cardinality(Falling(log2, {idx}, v)) =
                Cardinality(Falling(log, {idx}, v)) + (IF v = success THEN 1 ELSE 0)
  <2>. DEFINE A == Falling(log, {idx}, v)
  <2>1. /\ IsFiniteSet(A) /\ Cardinality(A) \in Nat
        /\ n + 1 \notin A
    <3>1. A \in SUBSET (1..n)
      BY <1>4 DEF Falling
    <3>. HIDE DEF A, n
    <3>2. IsFiniteSet(A) /\ Cardinality(A) \in Nat
      <4>1. A \in SUBSET DOMAIN log
        BY <1>4, <3>1
      <4>. QED BY <4>1, LogFinite
    <3>3. n + 1 \notin 1..n
      BY <1>4
    <3>. QED BY <3>1, <3>2, <3>3
  <2>. HIDE DEF log2, n
  <2>2. \A i \in 1..(n + 1) : i = n + 1 \/ i \in 1..n
    BY <1>4
  <2>3. 1..n \subseteq 1..(n + 1) /\ n + 1 \in 1..(n + 1)
    BY <1>4
  <2>4. CASE v = success
    <3>1. n + 1 \in Falling(log2, {idx}, v)
      BY <1>4, <2>3, <2>4 DEF Falling
    <3>2. Falling(log2, {idx}, v) = A \cup {n + 1}
      <4>. HIDE DEF idx, new
      <4>. QED BY <1>4, <2>2, <2>3, <3>1 DEF Falling
    <3>3. Cardinality(A \cup {n + 1}) = Cardinality(A) + 1
      <4>. HIDE DEF A
      <4>. QED BY <2>1, FS_AddElement
    <3>. QED BY <2>4, <3>2, <3>3
  <2>5. CASE v # success
    <3>1. n + 1 \notin Falling(log2, {idx}, v)
      BY <1>4, <2>5 DEF Falling
    <3>2. Falling(log2, {idx}, v) = A
      <4>. HIDE DEF idx, new
      <4>. QED BY <1>4, <2>2, <2>3, <3>1 DEF Falling
    <3>. QED BY <2>1, <2>5, <3>2
  <2>. QED BY <2>4, <2>5
<1>7. \A v \in BOOLEAN : Cardinality(Falling(log, {idx}, v)) = TallyOf(b, v)
  BY <1>1 DEF Tallied, TallyOf
<1>. HIDE DEF b, log2
<1>8. \A v \in BOOLEAN :
         TallyOf(counted[idx], v) = TallyOf(b, v) + (IF v = success THEN 1 ELSE 0)
  <2>1. b = [success |-> b.success, failure |-> b.failure] /\ b.success \in Nat /\ b.failure \in Nat
    BY <1>2 DEF Bucket
  <2>2. counted[idx] = IF success THEN [success |-> b.success + 1, failure |-> b.failure]
                                  ELSE [success |-> b.success, failure |-> b.failure + 1]
    <3>. HIDE DEF idx, counted
    <3>. QED BY <1>3, <2>1
  <2>. HIDE DEF counted, idx
  <2>. QED BY <2>1, <2>2 DEF TallyOf
<1>9. ASSUME NEW k \in Nat, k > first, NEW v \in BOOLEAN
      PROVE  Cardinality(Falling(log2, {k}, v)) =
                IF k \in DOMAIN counted THEN TallyOf(counted[k], v) ELSE 0
  <2>. HIDE DEF idx, counted
  <2>1. CASE k = idx
    BY <1>3, <1>6, <1>7, <1>8, <2>1
  <2>2. CASE k # idx
    BY <1>3, <1>5, <1>9, <2>2 DEF Tallied
  <2>. QED BY <2>1, <2>2
<1>10. \A k \in DOMAIN counted : k > first
  <2>. HIDE DEF counted
  <2>. QED BY <1>3
<1>11. Tallied(counted, log2, first)
  <2>. HIDE DEF counted, log2
  <2>. QED BY <1>9 DEF Tallied
<1>. QED BY <1>10, <1>11 DEF BucketIndex, log2

(* Where the window is cut: at the end of the last bucket cleanup drops.   *)
CutAt(now) == BucketSize * (((now - Window) \div BucketSize) + 1)

Recent(log, cut, success) ==
    {i \in DOMAIN log : log[i].at >= cut /\ log[i].success = success}

LEMMA CutFacts ==
    ASSUME NEW now \in Nat
    PROVE  /\ CutAt(now) \in (now - Window + 1)..(now - Window + BucketSize)
           /\ \A t \in Nat : t >= CutAt(now) <=> t \div BucketSize > (now - Window) \div BucketSize
<1>. DEFINE p == (now - Window) \div BucketSize
<1>1. BucketSize \in Nat \ {0} /\ Window \in Nat
  BY BreakerAssumption
<1>2. /\ p \in Int /\ BucketSize * p <= now - Window
      /\ now - Window < BucketSize * p + BucketSize
  BY <1>1, DivBounds
<1>. HIDE DEF p
<1>3. BucketSize * (p + 1) = BucketSize * p + BucketSize
  BY <1>1, <1>2
<1>4. BucketSize * p \in Int
  BY <1>1, <1>2
<1>5. CutAt(now) = BucketSize * (p + 1)
  BY DEF CutAt, p
<1>6. ASSUME NEW t \in Nat PROVE t >= CutAt(now) <=> t \div BucketSize > p
  <2>. DEFINE q == t \div BucketSize
  <2>1. q \in Int /\ BucketSize * q <= t /\ t < BucketSize * q + BucketSize
    BY DivBounds
  <2>. HIDE DEF q
  <2>2. ASSUME q > p PROVE BucketSize * q >= BucketSize * (p + 1)
    BY <1>1, <1>2, <2>1, <2>2
  <2>3. ASSUME ~(q > p) PROVE BucketSize * q + BucketSize <= BucketSize * (p + 1)
    <3>1. BucketSize * (q + 1) <= BucketSize * (p + 1)
      BY <1>1, <1>2, <2>1, <2>3
    <3>2. BucketSize * (q + 1) = BucketSize * q + BucketSize
      BY <1>1, <2>1
    <3>. QED BY <3>1, <3>2
  <2>4. BucketSize * q \in Int /\ BucketSize * (p + 1) \in Int
    BY <1>1, <1>2, <2>1
  <2>5. t >= CutAt(now) <=> q > p
    BY <1>1, <1>5, <2>1, <2>2, <2>3, <2>4
  <2>. QED BY <2>5 DEF q
<1>. QED BY <1>1, <1>2, <1>3, <1>4, <1>5, <1>6 DEF p

(* The tallies of an earlier window are those of a later one. *)
LEMMA TalliedLater ==
    ASSUME NEW buckets, NEW log, NEW first \in Int, NEW later \in Int, first <= later,
           Tallied(buckets, log, first)
    PROVE  Tallied(buckets, log, later)
    BY DEF Tallied

(* A breaker without buckets has counted nothing. *)
LEMMA NothingTallied ==
    ASSUME NEW first
    PROVE  Tallied(NoBuckets, << >>, first)
<1>1. \A k, v : Falling(<< >>, {k}, v) = {}
  BY DEF Falling
<1>2. DOMAIN NoBuckets = {}
  BY DEF NoBuckets
<1>. QED BY <1>1, <1>2, FS_EmptySet DEF Tallied

(* A closed breaker that records an outcome decides by the outcomes since  *)
(* the cut, this one included.                                             *)
LEMMA RecordClosedTallies ==
    ASSUME NEW b, NEW now \in Nat, BreakerOK(b, now), b.state = Closed, now >= Window,
           NEW log \in Seq(LogEntry), \A i \in DOMAIN log : log[i].at <= now,
           Tallied(b.buckets, log, (now - Window) \div BucketSize), NEW success \in BOOLEAN
    PROVE  LET log2  == Append(log, [at |-> now, success |-> success])
               after == AfterRecord(b, now, success)
           IN  /\ Tallied(after.buckets, log2, (now - Window) \div BucketSize)
               /\ IF RateTrips(Cardinality(Recent(log2, CutAt(now), TRUE)),
                               Cardinality(Recent(log2, CutAt(now), FALSE)))
                  THEN after.state = Open /\ after.lastOpenTime = now
                  ELSE after.state = b.state /\ after.lastOpenTime = b.lastOpenTime
<1>. DEFINE first == (now - Window) \div BucketSize
            cleaned == Cleanup(b.buckets, now)
            counted == Count(cleaned, BucketIndex(now), success)
            new == [at |-> now, success |-> success]
            log2 == Append(log, new)
            after == AfterRecord(b, now, success)
<1>1. /\ BucketsOK(cleaned, now)
      /\ \A k \in DOMAIN cleaned : k > first
  BY CleanupKeeps DEF BreakerOK
<1>2. first \in Int /\ first < now \div BucketSize
  <2>0. now \in Int /\ Window \in Nat
    BY BreakerAssumption
  <2>1. /\ now \div BucketSize \in Nat
        /\ Window \div BucketSize \in Nat
        /\ first = (now \div BucketSize) - (Window \div BucketSize)
    <3>1. now \div BucketSize \in Nat
      BY DivNat
    <3>2. Window \div BucketSize \in Nat
      BY <2>0, DivNat
    <3>3. (now - Window) \div BucketSize = (now \div BucketSize) - (Window \div BucketSize)
      BY <2>0, WindowBuckets
    <3>. QED BY <3>1, <3>2, <3>3
  <2>2. Window \div BucketSize > 0
    <3>. DEFINE K == Window \div BucketSize
    <3>1. /\ Window \in Nat \ {0} /\ BucketSize \in Nat \ {0}
          /\ Window = BucketSize * K
      BY BreakerAssumption, SMT
    <3>. HIDE DEF K
    <3>2. K # 0
      BY <3>1
    <3>. QED BY <2>1, <3>2 DEF K
  <2>. HIDE DEF first
  <2>. QED BY <2>1, <2>2
<1>3. Tallied(cleaned, log, first)
  <2>1. \A k : k > first => /\ k \in DOMAIN cleaned <=> k \in DOMAIN b.buckets
                            /\ k \in DOMAIN cleaned => cleaned[k] = b.buckets[k]
    BY DEF Cleanup
  <2>. HIDE DEF cleaned, first
  <2>. QED BY <2>1 DEF Tallied, first
<1>4. /\ BucketsOK(counted, now)
      /\ Tallied(counted, log2, first)
      /\ \A k \in DOMAIN counted : k > first
  <2>. HIDE DEF cleaned, first
  <2>1. BucketsOK(Count(cleaned, BucketIndex(now), success), now)
    BY <1>1, CountKeeps
  <2>. QED BY <1>1, <1>2, <1>3, <2>1, CountTallies
<1>5. log2 \in Seq(LogEntry) /\ \A i \in DOMAIN log2 : log2[i].at \in Nat /\ log2[i].at <= now
  <2>1. new \in LogEntry /\ new.at = now
    BY DEF LogEntry
  <2>2. \A o \in LogEntry : o.at \in Nat
    BY DEF LogEntry
  <2>3. /\ Len(log) \in Nat /\ DOMAIN log = 1..Len(log)
        /\ \A i \in 1..Len(log) : log[i] \in LogEntry
    BY LenProperties
  <2>4. /\ log2 \in Seq(LogEntry) /\ DOMAIN log2 = 1..(Len(log) + 1)
        /\ \A i \in 1..Len(log) : log2[i] = log[i]
        /\ log2[Len(log) + 1] = new
    <3>. HIDE DEF new
    <3>. QED BY <2>1, LenProperties
  <2>5. \A i \in 1..(Len(log) + 1) : i = Len(log) + 1 \/ i \in 1..Len(log)
    BY <2>3
  <2>. HIDE DEF log2, new
  <2>. QED BY <2>1, <2>2, <2>3, <2>4, <2>5
<1>6. ASSUME NEW v \in BOOLEAN
      PROVE  Cardinality(Falling(log2, DOMAIN counted, v)) = Cardinality(Recent(log2, CutAt(now), v))
  <2>. HIDE DEF log2, counted, first
  <2>1. ASSUME NEW i \in DOMAIN log2, log2[i].success = v
        PROVE  log2[i].at \div BucketSize \in DOMAIN counted <=> log2[i].at >= CutAt(now)
    <3>. DEFINE k == log2[i].at \div BucketSize
    <3>1. log2[i].at \in Nat /\ k \in Nat
      BY <1>5, DivNat
    <3>2. log2[i].at >= CutAt(now) <=> k > first
      BY <3>1, CutFacts DEF first
    <3>3. k > first => k \in DOMAIN counted
      <4>1. SUFFICES ASSUME k > first, k \notin DOMAIN counted PROVE FALSE
        OBVIOUS
      <4>2. Cardinality(Falling(log2, {k}, v)) = 0
        <5>. HIDE DEF k
        <5>. QED BY <1>4, <3>1, <4>1 DEF Tallied
      <4>3. IsFiniteSet(Falling(log2, {k}, v))
        <5>1. Falling(log2, {k}, v) \in SUBSET DOMAIN log2
          BY DEF Falling
        <5>. HIDE DEF k
        <5>. QED BY <1>5, <5>1, LogFinite
      <4>4. i \in Falling(log2, {k}, v)
        BY <2>1 DEF Falling
      <4>. HIDE DEF k
      <4>. QED BY <4>2, <4>3, <4>4, FS_EmptySet
    <3>. QED BY <1>4, <3>2, <3>3
  <2>2. Falling(log2, DOMAIN counted, v) = Recent(log2, CutAt(now), v)
    BY <2>1 DEF Falling, Recent
  <2>. QED BY <2>2
<1>7. /\ Successes(counted) = Cardinality(Recent(log2, CutAt(now), TRUE))
      /\ Failures(counted) = Cardinality(Recent(log2, CutAt(now), FALSE))
  <2>. HIDE DEF log2, counted, first
  <2>1. /\ Successes(counted) = Cardinality(Falling(log2, DOMAIN counted, TRUE))
        /\ Failures(counted) = Cardinality(Falling(log2, DOMAIN counted, FALSE))
    BY <1>2, <1>4, <1>5, SumsOfTallies
  <2>. QED BY <1>6, <2>1
<1>8. after = IF RateTrips(Successes(counted), Failures(counted))
              THEN [[b EXCEPT !.buckets = counted] EXCEPT !.state = Open, !.lastOpenTime = now]
              ELSE [b EXCEPT !.buckets = counted]
  <2>1. after = RecordClosed(b, now, success)
    BY DEF AfterRecord, Closed, Open, HalfOpen
  <2>2. RecordClosed(b, now, success) =
          IF RateTrips(Successes(counted), Failures(counted))
          THEN [[b EXCEPT !.buckets = counted] EXCEPT !.state = Open, !.lastOpenTime = now]
          ELSE [b EXCEPT !.buckets = counted]
    BY Zenon DEF RecordClosed
  <2>. HIDE DEF after, counted
  <2>. QED BY <2>1, <2>2
<1>9. b = [state |-> b.state, lastOpenTime |-> b.lastOpenTime,
           halfOpenInFlight |-> b.halfOpenInFlight, buckets |-> b.buckets]
  BY DEF BreakerOK
<1>. DEFINE trips == RateTrips(Successes(counted), Failures(counted))
<1>. HIDE DEF after, counted, log2, first
<1>10. /\ after.buckets = counted
       /\ IF trips THEN after.state = Open /\ after.lastOpenTime = now
                   ELSE after.state = b.state /\ after.lastOpenTime = b.lastOpenTime
  <2>. HIDE DEF trips
  <2>1. after = IF trips
                THEN [[b EXCEPT !.buckets = counted] EXCEPT !.state = Open, !.lastOpenTime = now]
                ELSE [b EXCEPT !.buckets = counted]
    BY <1>8 DEF trips
  <2>. QED BY <1>9, <2>1
<1>11. trips = RateTrips(Cardinality(Recent(log2, CutAt(now), TRUE)),
                         Cardinality(Recent(log2, CutAt(now), FALSE)))
  BY <1>7
<1>12. Tallied(after.buckets, log2, first)
  BY <1>4, <1>10
<1>. HIDE DEF trips
<1>. QED BY <1>10, <1>11, <1>12 DEF after, log2, first

=============================================================================
