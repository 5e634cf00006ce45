--------------------------- MODULE CircuitBreaker ---------------------------
(***************************************************************************)
(* One CircuitBreaker and the goroutines that call it.  A caller asks      *)
(* Allow, makes its request when the answer is true, and reports the       *)
(* outcome with Record; between the two calls any number of other callers  *)
(* may call, and time passes.  This is the discipline the breaker expects  *)
(* of its callers: every admitted request is reported, once.  Router.Route *)
(* does not keep it (see Router.tla).                                      *)
(***************************************************************************)
EXTENDS Breaker, FiniteSets, Sequences

CONSTANTS Callers,      \* the goroutines
          MaxTime,      \* bound: the modelled clock stops here
          MaxOutcomes   \* bound: outcomes counted between two resets

ASSUME CallersAssumption ==
    /\ MaxTime \in Nat
    /\ MaxOutcomes \in Nat

VARIABLES
    now,         \* cb.clock
    cb,          \* the breaker, a record of Breaker.tla
    calls,       \* per caller: is an admitted request in flight?
    admittedAt,  \* history: when the caller's last admitted request began
    log          \* history: the outcomes counted since the window was reset

vars == <<now, cb, calls, admittedAt, log>>

InFlight == {c \in Callers : calls[c] = "inflight"}

Init == /\ now = StartTime
        /\ cb = NewCircuitBreaker
        /\ calls = [c \in Callers |-> "idle"]
        /\ admittedAt = [c \in Callers |-> StartTime]
        /\ log = << >>

(* Allow returns true and the caller's request is on its way.  A refusal   *)
(* changes nothing and the caller stays idle.                              *)
Allow(c) ==
    /\ calls[c] = "idle"
    /\ Len(log) + Cardinality(InFlight) < MaxOutcomes
    /\ CanAllow(cb, now)
    /\ cb' = AfterAllow(cb, now)
    /\ calls' = [calls EXCEPT ![c] = "inflight"]
    /\ admittedAt' = [admittedAt EXCEPT ![c] = now]
    /\ UNCHANGED <<now, log>>

(* The request ends and the caller records how. *)
Record(c, success) ==
    /\ calls[c] = "inflight"
    /\ cb' = AfterRecord(cb, now, success)
    /\ calls' = [calls EXCEPT ![c] = "idle"]
    /\ log' = CASE cb.state = Closed -> Append(log, [at |-> now, success |-> success])
                [] cb.state = HalfOpen /\ success -> << >>
                [] OTHER -> log
    /\ UNCHANGED <<now, admittedAt>>

Tick == /\ now < MaxTime
        /\ now' = now + 1
        /\ UNCHANGED <<cb, calls, admittedAt, log>>

Next == \/ \E c \in Callers : Allow(c) \/ \E success \in BOOLEAN : Record(c, success)
        \/ Tick

Spec == Init /\ [][Next]_vars

(* Every request ends, with either outcome, and is reported.               *)
FairSpec == Spec /\ \A c \in Callers : WF_vars(\E success \in BOOLEAN : Record(c, success))

----------------------------------------------------------------------------
(* Type invariant: the breaker is a breaker, no bucket lies in the future  *)
(* (cleanup would never drop it in time) and no stored time does.          *)
TypeOK ==
    /\ now \in Nat
    /\ now >= StartTime
    /\ BreakerOK(cb, now)
    /\ calls \in [Callers -> {"idle", "inflight"}]
    /\ admittedAt \in [Callers -> Nat]
    /\ \A c \in Callers : admittedAt[c] <= now
    /\ log \in Seq([at : Nat, success : BOOLEAN])

(* The requests in flight that were admitted after the cooldown of the     *)
(* last trip.                                                              *)
SinceCooldown == {c \in InFlight : admittedAt[c] >= cb.lastOpenTime + Cooldown}

(* "StateHalfOpen allows a single test request": while the breaker is      *)
(* half-open exactly one request admitted since the cooldown is in flight, *)
(* whatever outcomes of older requests arrive and however often the        *)
(* breaker has opened again meanwhile.  More than one is a second trial,   *)
(* none is a breaker nothing will ever move.                               *)
SingleTrial == cb.state = HalfOpen => \E c \in InFlight : SinceCooldown = {c}

(* No request in flight was admitted during the cooldown of the last trip, *)
(* and while the breaker is open all of them are older than the trip.      *)
NoAdmissionInCooldown ==
    \A c \in InFlight :
        \/ admittedAt[c] <= cb.lastOpenTime
        \/ cb.state # Open /\ admittedAt[c] >= cb.lastOpenTime + Cooldown

(* The window's memory is bounded by its granularity: however long the     *)
(* breaker is used, it keeps at most one bucket per BucketSize of window.  *)
BucketsBounded == Cardinality(DOMAIN cb.buckets) <= Window \div BucketSize

(* A half-open breaker is decided: it closes or opens again.               *)
HalfOpenResolves == cb.state = HalfOpen ~> cb.state # HalfOpen

(* The buckets implement a window of exact instants: the breaker opens     *)
(* exactly when the outcomes since the last reset, cut somewhere inside    *)
(* the oldest bucket of the window, reach the threshold.                   *)
SW == INSTANCE SlidingWindow WITH phase <- cb.state, openedAt <- cb.lastOpenTime
ImplementsSlidingWindow == SW!Spec
=============================================================================
