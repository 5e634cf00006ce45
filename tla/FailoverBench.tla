--------------------------- MODULE FailoverBench ---------------------------
(***************************************************************************)
(* simRouter of relay/cmd/bench/main.go, one trial: a single client routes *)
(* over two candidates, the cheaper of which is broken, until the router   *)
(* has failed over to the other.  It is the only program in the repository *)
(* that drives the Router, and it is its own clock: time passes only while *)
(* it waits for a request or backs off.                                    *)
(***************************************************************************)
EXTENDS Router

CONSTANTS BrokenTimes,   \* how long a request to the broken candidate takes
          HealthyTimes,  \* how long one to the healthy candidate takes
          Backoffs       \* the pause before a retry

Broken  == [Name |-> 1, CostPer1K |-> 1, P50Millis |-> 0, Weight |-> 100]
Healthy == [Name |-> 2, CostPer1K |-> 2, P50Millis |-> 0, Weight |-> 100]

(* What the bench is: one client, these candidates, requests that take time. *)
BenchConstants ==
    /\ \E p \in Clients : Clients = {p}
    /\ CandidateLists = {<<Broken, Healthy>>}
    /\ BrokenTimes \cup HealthyTimes \cup Backoffs \subseteq Nat \ {0}

VARIABLES stage,  \* "loop", "routing", "ended", "backoff" or "recovered"
          start   \* when the trial began

benchVars == <<vars, stage, start>>

(* Advances the trial's clock by one of the durations. *)
Advance(durations) == \E d \in durations : now' = now + d

(* The trial starts anywhere in a bucket of the window: mockClock is set   *)
(* to the time of day.                                                     *)
BenchInit == /\ \E offset \in 0..(BucketSize - 1) : now = StartTime + offset
             /\ breakers = [n \in {} |-> NewCircuitBreaker]
             /\ pc = [p \in Clients |-> "idle"]
             /\ list = [p \in Clients |-> << >>]
             /\ available = [p \in Clients |-> {}]
             /\ chosen = [p \in Clients |-> {}]
             /\ calls = 0
             /\ steady = [p \in Clients |-> {}]
             /\ stage = "loop"
             /\ start = now

(* The loop calls Route, and goes on when a candidate is returned; an      *)
(* error is a panic, which ends the trial.                                 *)
Enter(p) == /\ stage = "loop"
            /\ Call(p)
            /\ stage' = "routing"
            /\ UNCHANGED start

Routing(p) == /\ stage = "routing"
              /\ Ask(p) \/ Return(p)
              /\ UNCHANGED <<stage, start>>

(* The request to the chosen candidate runs its time. *)
Request(p) == /\ stage = "routing"
              /\ pc[p] = "requesting"
              /\ \/ chosen[p] = {Broken}  /\ Advance(BrokenTimes)
                 \/ chosen[p] = {Healthy} /\ Advance(HealthyTimes)
              /\ stage' = "ended"
              /\ UNCHANGED <<breakers, pc, list, available, chosen, calls, steady, start>>

(* The broken candidate is reported as failed, and the loop backs off; a   *)
(* success of the healthy one ends it.                                     *)
Outcome(p) ==
    /\ stage = "ended"
    /\ LET healthy == chosen[p] = {Healthy}
       IN  /\ Report(p, healthy)
           /\ stage' = IF healthy THEN "recovered" ELSE "backoff"
    /\ UNCHANGED start

BackOff == /\ stage = "backoff"
           /\ Advance(Backoffs)
           /\ stage' = "loop"
           /\ UNCHANGED <<breakers, pc, list, available, chosen, calls, steady, start>>

BenchNext == \/ \E p \in Clients : Enter(p) \/ Routing(p) \/ Request(p) \/ Outcome(p)
             \/ BackOff

(* A sequential program keeps running. *)
BenchSpec == BenchInit /\ [][BenchNext]_benchVars /\ WF_benchVars(BenchNext)

----------------------------------------------------------------------------
CONSTANTS ShortestRecovery, LongestRecovery

(* "p99 in reasonable range (1000-4000)": however the outcomes fall on the *)
(* buckets of the window, the router leaves the broken candidate after     *)
(* exactly MinRequests failures, and the trial has recovered in the range. *)
RecoversInTime ==
    stage = "recovered" =>
        /\ calls = MinRequests + 1
        /\ now - start \in ShortestRecovery..LongestRecovery

(* The durations a failing trial is made of: a request and a backoff.      *)
Rounds == {b + k : b \in BrokenTimes, k \in Backoffs}

(* How the durations must fit the breaker for that: a melted breaker stays *)
(* so over a backoff, the failures of a trial fall in the part of the      *)
(* window that always counts, and nothing but failures trips.              *)
RecoveryFits ==
    /\ ShortestRecovery \in Nat /\ LongestRecovery \in Nat
    /\ ThresholdNum <= ThresholdDen
    /\ \A k \in Backoffs : k < Cooldown
    /\ \E lo, hi \in Rounds :
          /\ Rounds \subseteq lo..hi
          /\ MinRequests * hi <= Window - BucketSize
          /\ \A h \in HealthyTimes : /\ ShortestRecovery <= MinRequests * lo + h
                                     /\ MinRequests * hi + h <= LongestRecovery

(* The trial ends: the loop has no bound of its own, and it is left only   *)
(* when the router stops returning the broken candidate and still has the  *)
(* other one to return.                                                    *)
Recovers == <>(stage = "recovered")
=============================================================================
