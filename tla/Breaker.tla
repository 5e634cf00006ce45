------------------------------ MODULE Breaker ------------------------------
(***************************************************************************)
(* The circuit breaker of relay/internal/router/circuit_breaker.go as a    *)
(* value: a record and the operators that read it and compute the next     *)
(* one.  Every method of the Go type holds cb.mu from its first line to    *)
(* its last, so one method call is one application of an operator.         *)
(* CircuitBreaker.tla makes it a state machine with concurrent callers,    *)
(* Router.tla keeps one per candidate.                                     *)
(*                                                                         *)
(* Time is a natural number of clock units.  The failure rate, a float64   *)
(* division compared with 0.5, is compared by cross-multiplication: 0.5 is *)
(* a float64 and the rounding of a division is monotone, so both decide    *)
(* alike.                                                                  *)
(***************************************************************************)
EXTENDS Integers, FiniteSetsExt

CONSTANTS Window,        \* length of the sliding window (10s in the code)
          BucketSize,    \* granularity of the window (1s)
          MinRequests,   \* outcomes needed before the breaker may trip (5)
          Cooldown,      \* how long an open breaker refuses (5s)
          ThresholdNum,  \* the failure rate that trips, as a fraction (1/2)
          ThresholdDen

ASSUME BreakerAssumption ==
    /\ BucketSize \in Nat \ {0}
    /\ MinRequests \in Nat \ {0}
    /\ Cooldown \in Nat \ {0}
    /\ ThresholdNum \in Nat
    /\ ThresholdDen \in Nat \ {0}
    /\ Window \in Nat \ {0}
    /\ Window % BucketSize = 0

Closed   == "StateClosed"
Open     == "StateOpen"
HalfOpen == "StateHalfOpen"
State    == {Closed, Open, HalfOpen}

Bucket == [success : Nat, failure : Nat]

(* lastOpenTime starts as Go's zero time, which is 0 here.  Clocks start   *)
(* at StartTime, far enough from it that no window reaches below 0.        *)
ZeroTime  == 0
StartTime == Window + Cooldown

(* The buckets of a new breaker, and of one that has just closed.          *)
NoBuckets == [i \in {} |-> [success |-> 0, failure |-> 0]]

NewCircuitBreaker ==
    [state            |-> Closed,
     lastOpenTime     |-> ZeroTime,
     halfOpenInFlight |-> FALSE,
     buckets          |-> NoBuckets]

----------------------------------------------------------------------------
(* The window.                                                             *)

BucketIndexRoundedUp(t) == (t + BucketSize - 1) \div BucketSize  \* mutant

(* The bucket an instant falls in. *)
BucketIndex(t) == t \div BucketSize

CleanupKeepsBoundary(buckets, now) ==                             \* mutant
    [k \in {i \in DOMAIN buckets : i >= (now - Window) \div BucketSize}
        |-> buckets[k]]

CleanupNothing(buckets, now) == buckets                           \* mutant

CleanupKeepsCurrent(buckets, now) ==                              \* mutant
    [k \in {i \in DOMAIN buckets : i > (now - BucketSize) \div BucketSize}
        |-> buckets[k]]

(* cleanup: drops the buckets that ended before the window began. *)
Cleanup(buckets, now) ==
    [k \in {i \in DOMAIN buckets : i > (now - Window) \div BucketSize}
        |-> buckets[k]]

(* Counts one outcome in the bucket of the current instant, created on     *)
(* demand.                                                                 *)
Count(buckets, idx, success) ==
    LET b == IF idx \in DOMAIN buckets THEN buckets[idx]
                                       ELSE [success |-> 0, failure |-> 0]
    IN  [k \in DOMAIN buckets \cup {idx} |->
            IF k # idx THEN buckets[k]
            ELSE IF success THEN [b EXCEPT !.success = @ + 1]
                            ELSE [b EXCEPT !.failure = @ + 1]]

Successes(buckets) == MapThenSumSet(LAMBDA k : buckets[k].success, DOMAIN buckets)
Failures(buckets)  == MapThenSumSet(LAMBDA k : buckets[k].failure, DOMAIN buckets)

RateTripsAfterMinimum(s, f) ==                                    \* mutant
    s + f > MinRequests /\ f * ThresholdDen >= ThresholdNum * (s + f)

(* Do s successes and f failures trip the breaker? *)
RateTrips(s, f) ==
    s + f >= MinRequests /\ f * ThresholdDen >= ThresholdNum * (s + f)

----------------------------------------------------------------------------
(* Allow.                                                                  *)

CanAllowEarly(b, now) ==                                          \* mutant
    \/ b.state = Closed
    \/ b.state = Open /\ now + 1 - b.lastOpenTime >= Cooldown
    \/ b.state = HalfOpen /\ ~b.halfOpenInFlight

(* What Allow returns. *)
CanAllow(b, now) ==
    \/ b.state = Closed
    \/ b.state = Open /\ now - b.lastOpenTime >= Cooldown
    \/ b.state = HalfOpen /\ ~b.halfOpenInFlight

AfterAllowForgetsInFlight(b, now) ==                              \* mutant
    IF b.state = Open THEN [b EXCEPT !.state = HalfOpen] ELSE b

(* What a call of Allow that returns true leaves; one that returns false   *)
(* changes nothing.                                                        *)
AfterAllow(b, now) ==
    CASE b.state = Closed   -> b
      [] b.state = Open     -> [b EXCEPT !.state = HalfOpen,
                                         !.halfOpenInFlight = TRUE]
      [] b.state = HalfOpen -> [b EXCEPT !.halfOpenInFlight = TRUE]

----------------------------------------------------------------------------
(* Record.                                                                 *)

(* A closed breaker counts the outcome and trips when the window says so.  *)
(* The buckets stay as they are when it trips.                             *)
RecordClosed(b, now, success) ==
    LET counted == Count(Cleanup(b.buckets, now), BucketIndex(now), success)
        next    == [b EXCEPT !.buckets = counted]
    IN  IF RateTrips(Successes(counted), Failures(counted))
        THEN [next EXCEPT !.state = Open, !.lastOpenTime = now]
        ELSE next

RecordHalfOpenStays(b, now, success) ==                           \* mutant
    IF success
    THEN [b EXCEPT !.halfOpenInFlight = FALSE, !.state = Closed,
                   !.buckets = NoBuckets]
    ELSE [b EXCEPT !.halfOpenInFlight = FALSE, !.lastOpenTime = now]

RecordHalfOpenSetsDeadline(b, now, success) ==                    \* mutant
    IF success
    THEN [b EXCEPT !.halfOpenInFlight = FALSE, !.state = Closed,
                   !.buckets = NoBuckets]
    ELSE [b EXCEPT !.halfOpenInFlight = FALSE, !.state = Open,
                   !.lastOpenTime = now + Cooldown]

(* A half-open breaker is decided by the first outcome reported to it,     *)
(* whichever call that outcome belongs to.                                 *)
RecordHalfOpen(b, now, success) ==
    IF success
    THEN [b EXCEPT !.halfOpenInFlight = FALSE, !.state = Closed,
                   !.buckets = NoBuckets]
    ELSE [b EXCEPT !.halfOpenInFlight = FALSE, !.state = Open,
                   !.lastOpenTime = now]

(* Record; an open breaker ignores the outcome. *)
AfterRecord(b, now, success) ==
    CASE b.state = HalfOpen -> RecordHalfOpen(b, now, success)
      [] b.state = Open     -> b
      [] b.state = Closed   -> RecordClosed(b, now, success)

----------------------------------------------------------------------------
(* The type of a breaker's buckets: a finite-domain function, none of them *)
(* later than the current one.                                             *)
BucketsOK(buckets, now) ==
    /\ DOMAIN buckets \subseteq 0..(now \div BucketSize)
    /\ buckets = [k \in DOMAIN buckets |-> buckets[k]]
    /\ \A k \in DOMAIN buckets : buckets[k] \in Bucket

(* The type of a breaker at a given instant. *)
BreakerOK(b, now) ==
    /\ b = [state |-> b.state, lastOpenTime |-> b.lastOpenTime,
            halfOpenInFlight |-> b.halfOpenInFlight, buckets |-> b.buckets]
    /\ b.state \in State
    /\ b.lastOpenTime \in 0..now
    /\ b.halfOpenInFlight \in BOOLEAN
    /\ BucketsOK(b.buckets, now)
=============================================================================
