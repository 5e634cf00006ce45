--------------------------- MODULE SlidingWindow ---------------------------
(***************************************************************************)
(* What a sliding-window circuit breaker promises, without buckets: it     *)
(* keeps the exact instants of the outcomes it has counted since it last   *)
(* closed, and decides to open from those of the last Window units.  The   *)
(* granularity of the window is a promise too: an outcome Window units old *)
(* never counts, one younger than Window - BucketSize always does, and an  *)
(* implementation may choose where in between it cuts.                     *)
(***************************************************************************)
EXTENDS Naturals, Sequences, FiniteSets

CONSTANTS Window, BucketSize, MinRequests, Cooldown, ThresholdNum, ThresholdDen

VARIABLES now,       \* the clock
          phase,     \* "StateClosed", "StateOpen" or "StateHalfOpen"
          openedAt,  \* when it last opened, 0 if never
          log        \* the outcomes since it last closed: [at, success]
vars == <<now, phase, openedAt, log>>

Init == /\ now = Window + Cooldown
        /\ phase = "StateClosed"
        /\ openedAt = 0
        /\ log = << >>

(* The numbers of successes and failures not older than the cut. *)
Since(outcomes, cut, success) ==
    Cardinality({i \in DOMAIN outcomes : /\ outcomes[i].at >= cut
                                         /\ outcomes[i].success = success})

Trips(outcomes, cut) ==
    LET f == Since(outcomes, cut, FALSE)
        n == f + Since(outcomes, cut, TRUE)
    IN  n >= MinRequests /\ f * ThresholdDen >= ThresholdNum * n

(* A closed breaker counts an outcome, and opens exactly when the window's *)
(* outcomes, this one included, reach the threshold.                       *)
Outcome(success) ==
    /\ phase = "StateClosed"
    /\ log' = Append(log, [at |-> now, success |-> success])
    /\ \E cut \in (now - Window + 1)..(now - Window + BucketSize) :
          IF Trips(log', cut)
          THEN phase' = "StateOpen" /\ openedAt' = now
          ELSE UNCHANGED <<phase, openedAt>>
    /\ UNCHANGED now

(* An open breaker lets a trial through once the cooldown is over. *)
Probe == /\ phase = "StateOpen"
         /\ now >= openedAt + Cooldown
         /\ phase' = "StateHalfOpen"
         /\ UNCHANGED <<now, openedAt, log>>

(* A success closes the half-open breaker and forgets the past, a failure  *)
(* starts the cooldown again.                                              *)
Verdict(success) ==
    /\ phase = "StateHalfOpen"
    /\ IF success THEN /\ phase' = "StateClosed"
                       /\ log' = << >>
                       /\ UNCHANGED openedAt
                  ELSE /\ phase' = "StateOpen"
                       /\ openedAt' = now
                       /\ UNCHANGED log
    /\ UNCHANGED now

Tick == now' = now + 1 /\ UNCHANGED <<phase, openedAt, log>>

Next == \/ \E success \in BOOLEAN : Outcome(success) \/ Verdict(success)
        \/ Probe
        \/ Tick

Spec == Init /\ [][Next]_vars
=============================================================================
