------------------------ MODULE CircuitBreakerProofs ------------------------
(***************************************************************************)
(* The safety invariants of CircuitBreaker.tla, and that it implements     *)
(* SlidingWindow.tla, for any number of callers, any window, cooldown and  *)
(* threshold.                                                              *)
(*                                                                         *)
(* SingleTrial is not inductive by itself.  A trial begins when an open    *)
(* breaker admits a call after the cooldown; that it is then the only one  *)
(* needs every other call in flight to be older than the trip              *)
(* (NoAdmissionInCooldown), and that needs a breaker that is not open to   *)
(* be past its cooldown (CooldownOver), or a trip could be followed by an  *)
(* early admission once it has closed.  That no second call joins a trial  *)
(* is what the flag is for (FlagIsHalfOpen).                               *)
(***************************************************************************)
EXTENDS CircuitBreaker, BreakerProofs, SequenceTheorems

FlagIsHalfOpen == cb.halfOpenInFlight = (cb.state = HalfOpen)

CooldownOver == cb.state # Open => now >= cb.lastOpenTime + Cooldown

IInv == /\ TypeOK
        /\ FlagIsHalfOpen
        /\ CooldownOver
        /\ NoAdmissionInCooldown
        /\ SingleTrial
        /\ WithinWindow(cb.buckets)

LEMMA StartTimeFacts ==
    /\ Cooldown \in Nat /\ Cooldown > 0
    /\ StartTime \in Nat /\ StartTime >= Cooldown
    BY BreakerAssumption DEF StartTime

(* The initial states. *)
LEMMA InitIInv == Init => IInv
<1>. SUFFICES ASSUME Init PROVE IInv
  OBVIOUS
<1>1. now \in Nat /\ now >= Cooldown
  BY StartTimeFacts DEF Init
<1>2. BreakerOK(cb, now) /\ WithinWindow(cb.buckets)
  BY <1>1, NewCircuitBreakerOK DEF Init
<1>3. TypeOK
  <2>1. calls \in [Callers -> {"idle", "inflight"}]
    BY DEF Init
  <2>2. /\ admittedAt \in [Callers -> Nat]
        /\ \A c \in Callers : admittedAt[c] <= now
        /\ now >= StartTime
    BY StartTimeFacts DEF Init
  <2>3. log \in Seq([at : Nat, success : BOOLEAN])
    BY DEF Init
  <2>. QED BY <1>1, <1>2, <2>1, <2>2, <2>3 DEF TypeOK
<1>4. cb.state = Closed /\ cb.halfOpenInFlight = FALSE /\ cb.lastOpenTime = 0
  BY DEF Init, NewCircuitBreaker, ZeroTime
<1>5. FlagIsHalfOpen /\ SingleTrial
  BY <1>4 DEF FlagIsHalfOpen, SingleTrial, Closed, HalfOpen
<1>6. CooldownOver
  BY <1>1, <1>4, StartTimeFacts DEF CooldownOver
<1>7. NoAdmissionInCooldown
  BY DEF Init, NoAdmissionInCooldown, InFlight
<1>. QED BY <1>2, <1>3, <1>5, <1>6, <1>7 DEF IInv

(* A call is admitted. *)
LEMMA AllowIInv ==
    ASSUME IInv, NEW c \in Callers, Allow(c)
    PROVE  IInv'
<1>. USE DEF IInv
<1>1. /\ now \in Nat /\ now' = now
      /\ cb' = AfterAllow(cb, now)
      /\ calls' = [calls EXCEPT ![c] = "inflight"]
      /\ admittedAt' = [admittedAt EXCEPT ![c] = now]
      /\ log' = log
      /\ cb.lastOpenTime \in Nat
  BY DEF Allow, TypeOK, BreakerOK
<1>2. /\ BreakerOK(cb', now)
      /\ cb'.halfOpenInFlight = (cb'.state = HalfOpen)
      /\ cb'.lastOpenTime = cb.lastOpenTime
      /\ cb'.buckets = cb.buckets
      /\ \/ cb.state = Closed /\ cb' = cb
         \/ /\ cb.state = Open
            /\ now >= cb.lastOpenTime + Cooldown
            /\ cb'.state = HalfOpen
  BY <1>1, AllowEffect DEF Allow, TypeOK, FlagIsHalfOpen
<1>3. TypeOK'
  <2>1. calls' \in [Callers -> {"idle", "inflight"}]
    BY <1>1 DEF TypeOK
  <2>2. admittedAt' \in [Callers -> Nat] /\ \A d \in Callers : admittedAt'[d] <= now
    BY <1>1 DEF TypeOK
  <2>. QED BY <1>1, <1>2, <2>1, <2>2 DEF TypeOK
<1>4. FlagIsHalfOpen'
  BY <1>2 DEF FlagIsHalfOpen
<1>5. now >= cb.lastOpenTime + Cooldown
  BY <1>2 DEF CooldownOver, Closed, Open
<1>6. CooldownOver'
  BY <1>1, <1>2, <1>5 DEF CooldownOver
<1>7. /\ InFlight' = InFlight \cup {c}
      /\ admittedAt'[c] = now
      /\ \A d \in InFlight : d # c /\ d \in Callers /\ admittedAt'[d] = admittedAt[d]
  BY <1>1 DEF InFlight, TypeOK, Allow
<1>8. cb'.state # Open
  BY <1>2 DEF Closed, Open, HalfOpen
<1>9. NoAdmissionInCooldown'
  BY <1>2, <1>5, <1>7, <1>8 DEF NoAdmissionInCooldown
<1>10. SingleTrial'
  <2>. SUFFICES ASSUME cb'.state = HalfOpen PROVE SinceCooldown' = {c}
    BY <1>7 DEF SingleTrial
  <2>1. cb.state = Open
    BY <1>2 DEF Closed, HalfOpen
  <2>2. \A d \in InFlight : admittedAt[d] \in Nat /\ admittedAt[d] <= cb.lastOpenTime
    BY <2>1, <1>7 DEF NoAdmissionInCooldown, TypeOK
  <2>3. \A d \in InFlight : ~(admittedAt'[d] >= cb'.lastOpenTime + Cooldown)
    BY <1>1, <1>2, <1>7, <2>2, StartTimeFacts
  <2>. QED BY <1>2, <1>5, <1>7, <2>3 DEF SinceCooldown
<1>. QED BY <1>1, <1>2, <1>3, <1>4, <1>6, <1>9, <1>10

(* An outcome is recorded. *)
LEMMA RecordIInv ==
    ASSUME IInv, NEW c \in Callers, NEW success \in BOOLEAN, Record(c, success)
    PROVE  IInv'
<1>. USE DEF IInv
<1>1. /\ now \in Nat /\ now' = now
      /\ cb' = AfterRecord(cb, now, success)
      /\ calls' = [calls EXCEPT ![c] = "idle"]
      /\ admittedAt' = admittedAt
      /\ cb.lastOpenTime \in Nat
  BY DEF Record, TypeOK, BreakerOK
<1>2. /\ BreakerOK(cb', now)
      /\ cb'.halfOpenInFlight = FALSE
      /\ cb'.state \in {Closed, Open}
      /\ WithinWindow(cb.buckets) => WithinWindow(cb'.buckets)
      /\ \/ cb'.lastOpenTime = now /\ cb'.state = Open
         \/ /\ cb'.lastOpenTime = cb.lastOpenTime
            /\ cb'.state = Open => cb.state = Open
  BY <1>1, RecordEffect DEF TypeOK, FlagIsHalfOpen
<1>3. TypeOK'
  <2>1. calls' \in [Callers -> {"idle", "inflight"}]
    BY <1>1 DEF TypeOK
  <2>2. log' \in Seq([at : Nat, success : BOOLEAN])
    <3>. DEFINE Outcomes == [at : Nat, success : BOOLEAN]
                outcome  == [at |-> now, success |-> success]
    <3>1. log \in Seq(Outcomes) /\ outcome \in Outcomes
      BY <1>1 DEF TypeOK
    <3>2. log' = Append(log, outcome) \/ log' = << >> \/ log' = log
      BY DEF Record
    <3>. HIDE DEF Outcomes, outcome
    <3>3. Append(log, outcome) \in Seq(Outcomes) /\ << >> \in Seq(Outcomes)
      BY <3>1, AppendProperties, EmptySeq
    <3>4. log' \in Seq(Outcomes)
      BY <3>1, <3>2, <3>3, Zenon
    <3>. QED BY <3>4 DEF Outcomes
  <2>. QED BY <1>1, <1>2, <2>1, <2>2 DEF TypeOK
<1>4. FlagIsHalfOpen' /\ SingleTrial'
  BY <1>2 DEF FlagIsHalfOpen, SingleTrial, Closed, Open, HalfOpen
<1>5. CooldownOver'
  <2>. SUFFICES ASSUME cb'.state # Open PROVE now >= cb'.lastOpenTime + Cooldown
    BY <1>1 DEF CooldownOver
  <2>1. cb'.lastOpenTime = cb.lastOpenTime
    BY <1>2
  <2>2. CASE cb.state # Open
    BY <2>1, <2>2 DEF CooldownOver
  <2>3. CASE cb.state = Open
    \* An open breaker ignores outcomes.
    BY <2>3, <1>1 DEF AfterRecord, Open, HalfOpen, Closed
  <2>. QED BY <2>2, <2>3
<1>6. NoAdmissionInCooldown'
  <2>. SUFFICES ASSUME NEW d \in InFlight'
                PROVE  \/ admittedAt[d] <= cb'.lastOpenTime
                       \/ /\ cb'.state # Open
                          /\ admittedAt[d] >= cb'.lastOpenTime + Cooldown
    BY <1>1 DEF NoAdmissionInCooldown
  <2>1. d \in InFlight /\ admittedAt[d] <= now
    BY <1>1 DEF InFlight, TypeOK
  <2>2. CASE cb'.lastOpenTime = now
    BY <2>1, <2>2
  <2>3. CASE /\ cb'.lastOpenTime = cb.lastOpenTime
             /\ cb'.state = Open => cb.state = Open
    BY <2>1, <2>3 DEF NoAdmissionInCooldown
  <2>. QED BY <1>2, <2>2, <2>3
<1>. QED BY <1>2, <1>3, <1>4, <1>5, <1>6

(* Time passes. *)
LEMMA TickIInv ==
    ASSUME IInv, Tick
    PROVE  IInv'
<1>. USE DEF IInv
<1>1. now \in Nat /\ now' = now + 1 /\ UNCHANGED <<cb, calls, admittedAt, log>>
  BY DEF Tick, TypeOK
<1>2. BreakerOK(cb', now')
  <2>1. BucketsOK(cb.buckets, now')
    <3>1. now' \in Nat /\ now <= now' /\ BucketsOK(cb.buckets, now)
      BY <1>1 DEF TypeOK, BreakerOK
    <3>. QED BY <1>1, <3>1, LaterKeepsBuckets
  <2>2. cb.lastOpenTime \in 0..now'
    BY <1>1 DEF TypeOK, BreakerOK
  <2>. QED BY <1>1, <2>1, <2>2 DEF TypeOK, BreakerOK
<1>3. TypeOK'
  <2>1. now' \in Nat /\ now' >= StartTime
    BY <1>1, StartTimeFacts DEF TypeOK
  <2>2. \A c \in Callers : admittedAt'[c] <= now'
    BY <1>1 DEF TypeOK
  <2>. QED BY <1>1, <1>2, <2>1, <2>2 DEF TypeOK
<1>4. CooldownOver'
  BY <1>1, StartTimeFacts DEF CooldownOver, TypeOK, BreakerOK
<1>5. /\ FlagIsHalfOpen' /\ SingleTrial' /\ NoAdmissionInCooldown'
      /\ WithinWindow(cb'.buckets)
  BY <1>1 DEF FlagIsHalfOpen, SingleTrial, NoAdmissionInCooldown, SinceCooldown, InFlight
<1>. QED BY <1>3, <1>4, <1>5

(* The inductive invariant. *)
THEOREM Inductive == Spec => []IInv
<1>1. ASSUME IInv, [Next]_vars PROVE IInv'
  <2>1. CASE Tick
    BY <1>1, <2>1, TickIInv
  <2>2. ASSUME NEW c \in Callers, Allow(c) PROVE IInv'
    BY <1>1, <2>2, AllowIInv
  <2>3. ASSUME NEW c \in Callers, NEW success \in BOOLEAN, Record(c, success)
        PROVE  IInv'
    BY <1>1, <2>3, RecordIInv
  <2>4. CASE UNCHANGED vars
    BY <1>1, <2>4 DEF IInv, vars, TypeOK, FlagIsHalfOpen, CooldownOver,
       SingleTrial, NoAdmissionInCooldown, SinceCooldown, InFlight
  <2>. QED BY <1>1, <2>1, <2>2, <2>3, <2>4 DEF Next
<1>. QED BY InitIInv, <1>1, PTL DEF Spec

(* Type correctness: the breaker's record stays well formed under every    *)
(* interleaving of Allow, Record and the clock; in particular no bucket    *)
(* and no trip lies in the future, where cleanup and the cooldown would    *)
(* miss them.                                                              *)
THEOREM TypeCorrect == Spec => []TypeOK
<1>1. IInv => TypeOK
  BY DEF IInv
<1>. QED BY Inductive, <1>1, PTL

(* "StateHalfOpen allows a single test request", with any number of        *)
(* callers, late outcomes and repeated trips: a half-open breaker has      *)
(* exactly one request of its own in flight.                               *)
THEOREM SingleTrialHolds == Spec => []SingleTrial
<1>1. IInv => SingleTrial
  BY DEF IInv
<1>. QED BY Inductive, <1>1, PTL

(* The cooldown is kept: no request in flight was admitted between a trip  *)
(* and the end of its cooldown.                                            *)
THEOREM CooldownKept == Spec => []NoAdmissionInCooldown
<1>1. IInv => NoAdmissionInCooldown
  BY DEF IInv
<1>. QED BY Inductive, <1>1, PTL

(* The memory of the window is bounded, whatever the traffic: cleanup      *)
(* leaves at most one bucket per BucketSize of window, the current one     *)
(* included.                                                               *)
THEOREM WindowBounded == Spec => []BucketsBounded
<1>1. IInv => BucketsBounded
  BY WithinWindowBounds DEF IInv, BucketsBounded
<1>. QED BY Inductive, <1>1, PTL

----------------------------------------------------------------------------
(***************************************************************************)
(* The refinement.  The buckets of the window are tallies of the log,      *)
(* whatever the state: an outcome that is counted enters both, one that is *)
(* not enters neither, and a reset empties both.                           *)
(***************************************************************************)

LogTallied ==
    /\ \A i \in DOMAIN log : log[i].at <= now
    /\ Tallied(cb.buckets, log, (now - Window) \div BucketSize)

LEMMA InitTallied == Init => LogTallied
<1>. SUFFICES ASSUME Init PROVE LogTallied
  OBVIOUS
<1>1. cb.buckets = NoBuckets /\ log = << >>
  BY DEF Init, NewCircuitBreaker
<1>2. DOMAIN log = {}
  BY <1>1
<1>. QED BY <1>1, <1>2, NothingTallied DEF LogTallied

(* What a closed breaker does with an outcome is a step of the abstract    *)
(* breaker with the cut at the end of the last bucket dropped.             *)
LEMMA RecordClosedRefines ==
    ASSUME IInv, LogTallied, NEW c \in Callers, NEW success \in BOOLEAN, Record(c, success),
           cb.state = Closed
    PROVE  LogTallied' /\ SW!Outcome(success)
<1>1. /\ now \in Nat /\ now' = now /\ now >= Window
      /\ BreakerOK(cb, now)
      /\ log \in Seq(LogEntry)
  <2>1. StartTime >= Window /\ StartTime \in Nat /\ Window \in Nat
    BY BreakerAssumption DEF StartTime
  <2>. QED BY <2>1 DEF IInv, TypeOK, Record, LogEntry
<1>. DEFINE new == [at |-> now, success |-> success]
<1>2. /\ cb' = AfterRecord(cb, now, success)
      /\ log' = Append(log, new)
  BY DEF Record, Closed, HalfOpen
<1>3. /\ Tallied(cb'.buckets, log', (now - Window) \div BucketSize)
      /\ IF RateTrips(Cardinality(Recent(log', CutAt(now), TRUE)),
                      Cardinality(Recent(log', CutAt(now), FALSE)))
         THEN cb'.state = Open /\ cb'.lastOpenTime = now
         ELSE cb'.state = cb.state /\ cb'.lastOpenTime = cb.lastOpenTime
  BY <1>1, <1>2, RecordClosedTallies DEF LogTallied
<1>4. LogTallied'
  <2>1. /\ Len(log) \in Nat /\ DOMAIN log = 1..Len(log)
        /\ DOMAIN log' = 1..(Len(log) + 1)
        /\ \A i \in 1..Len(log) : log'[i] = log[i]
        /\ log'[Len(log) + 1] = new
    <3>1. new \in LogEntry
      BY <1>1 DEF LogEntry
    <3>. HIDE DEF new
    <3>. QED BY <1>1, <1>2, <3>1, LenProperties
  <2>2. \A i \in 1..(Len(log) + 1) : i = Len(log) + 1 \/ i \in 1..Len(log)
    BY <2>1
  <2>3. \A i \in DOMAIN log' : log'[i].at <= now
    BY <1>1, <2>1, <2>2 DEF LogTallied
  <2>. QED BY <1>1, <1>3, <2>3 DEF LogTallied
<1>5. /\ Cardinality(Recent(log', CutAt(now), TRUE)) \in Nat
      /\ Cardinality(Recent(log', CutAt(now), FALSE)) \in Nat
  <2>1. log' \in Seq(LogEntry)
    BY <1>1, <1>2 DEF LogEntry
  <2>2. \A v : Recent(log', CutAt(now), v) \in SUBSET DOMAIN log'
    BY DEF Recent
  <2>. QED BY <2>1, <2>2, LogFinite
<1>6. SW!Trips(log', CutAt(now)) <=>
        RateTrips(Cardinality(Recent(log', CutAt(now), TRUE)),
                  Cardinality(Recent(log', CutAt(now), FALSE)))
  <2>1. /\ SW!Since(log', CutAt(now), TRUE) = Cardinality(Recent(log', CutAt(now), TRUE))
        /\ SW!Since(log', CutAt(now), FALSE) = Cardinality(Recent(log', CutAt(now), FALSE))
    BY Zenon DEF SW!Since, Recent, SW!Cardinality, Cardinality
  <2>2. ThresholdNum \in Nat /\ ThresholdDen \in Nat /\ MinRequests \in Nat
    BY BreakerAssumption
  <2>. DEFINE f == Cardinality(Recent(log', CutAt(now), FALSE))
              t == Cardinality(Recent(log', CutAt(now), TRUE))
  <2>3. f + t = t + f
    <3>1. f \in Nat /\ t \in Nat
      BY <1>5
    <3>. HIDE DEF f, t
    <3>. QED BY <3>1
  <2>4. SW!Trips(log', CutAt(now)) <=> f + t >= MinRequests /\ f * ThresholdDen >= ThresholdNum * (f + t)
    <3>. HIDE DEF f, t
    <3>. QED BY <2>1 DEF SW!Trips, f, t
  <2>. HIDE DEF f, t
  <2>5. RateTrips(t, f) <=> f + t >= MinRequests /\ f * ThresholdDen >= ThresholdNum * (f + t)
    BY <2>3 DEF RateTrips
  <2>. QED BY <2>4, <2>5 DEF f, t
<1>7. CutAt(now) \in (now - Window + 1)..(now - Window + BucketSize)
  BY <1>1, CutFacts
<1>. HIDE DEF new
<1>8. SW!Outcome(success)
  <2>1. IF SW!Trips(log', CutAt(now))
        THEN cb'.state = "StateOpen" /\ cb'.lastOpenTime = now
        ELSE UNCHANGED <<cb.state, cb.lastOpenTime>>
    BY <1>3, <1>6 DEF Open
  <2>. QED BY <1>1, <1>2, <1>7, <2>1 DEF SW!Outcome, Closed, new
<1>. QED BY <1>4, <1>8

(* An outcome that a half-open breaker hears decides the trial; one that   *)
(* an open breaker hears changes nothing.                                  *)
LEMMA RecordOtherwiseRefines ==
    ASSUME IInv, LogTallied, NEW c \in Callers, NEW success \in BOOLEAN, Record(c, success),
           cb.state # Closed
    PROVE  LogTallied' /\ (SW!Verdict(success) \/ UNCHANGED SW!vars)
<1>1. /\ now \in Nat /\ now' = now
      /\ cb' = AfterRecord(cb, now, success)
      /\ BreakerOK(cb, now) /\ cb.state \in {Open, HalfOpen}
  BY DEF Record, IInv, TypeOK, BreakerOK, State
<1>2. CASE cb.state = Open
  <2>1. cb' = cb /\ log' = log
    BY <1>1, <1>2 DEF AfterRecord, Record, Closed, Open, HalfOpen
  <2>. QED BY <1>1, <2>1 DEF LogTallied, SW!vars
<1>3. CASE cb.state = HalfOpen /\ success
  <2>0. cb = [state |-> cb.state, lastOpenTime |-> cb.lastOpenTime,
              halfOpenInFlight |-> cb.halfOpenInFlight, buckets |-> cb.buckets]
    BY <1>1 DEF BreakerOK
  <2>6. cb' = RecordHalfOpen(cb, now, success)
    BY <1>1, <1>3 DEF AfterRecord, Closed, Open, HalfOpen
  <2>1. log' = << >>
    BY <1>3 DEF Record, Closed, HalfOpen
  <2>2. /\ cb'.state = Closed /\ cb'.buckets = NoBuckets
        /\ cb'.lastOpenTime = cb.lastOpenTime
    BY <1>3, <2>0, <2>6 DEF RecordHalfOpen
  <2>3. DOMAIN log' = {}
    BY <2>1
  <2>4. LogTallied'
    BY <1>1, <2>1, <2>2, <2>3, NothingTallied DEF LogTallied
  <2>5. SW!Verdict(success)
    BY <1>1, <1>3, <2>1, <2>2 DEF SW!Verdict, Closed, HalfOpen
  <2>. QED BY <2>4, <2>5
<1>4. CASE cb.state = HalfOpen /\ ~success
  <2>0. cb = [state |-> cb.state, lastOpenTime |-> cb.lastOpenTime,
              halfOpenInFlight |-> cb.halfOpenInFlight, buckets |-> cb.buckets]
    BY <1>1 DEF BreakerOK
  <2>6. cb' = RecordHalfOpen(cb, now, success)
    BY <1>1, <1>4 DEF AfterRecord, Closed, Open, HalfOpen
  <2>1. log' = log
    BY <1>4 DEF Record, Closed, HalfOpen
  <2>2. /\ cb'.state = Open /\ cb'.buckets = cb.buckets
        /\ cb'.lastOpenTime = now
    BY <1>4, <2>0, <2>6 DEF RecordHalfOpen
  <2>3. LogTallied'
    BY <1>1, <2>1, <2>2 DEF LogTallied
  <2>4. SW!Verdict(success)
    BY <1>1, <1>4, <2>1, <2>2 DEF SW!Verdict, Open, HalfOpen
  <2>. QED BY <2>3, <2>4
<1>. QED BY <1>1, <1>2, <1>3, <1>4

(* An admission is the probe of an open breaker, or changes nothing.       *)
LEMMA AllowRefines ==
    ASSUME IInv, LogTallied, NEW c \in Callers, Allow(c)
    PROVE  LogTallied' /\ (SW!Probe \/ UNCHANGED SW!vars)
<1>1. /\ now \in Nat /\ now' = now /\ log' = log
      /\ cb' = AfterAllow(cb, now)
      /\ BreakerOK(cb, now) /\ CanAllow(cb, now)
      /\ cb.halfOpenInFlight = (cb.state = HalfOpen)
  BY DEF Allow, IInv, TypeOK, FlagIsHalfOpen
<1>2. /\ cb'.lastOpenTime = cb.lastOpenTime
      /\ cb'.buckets = cb.buckets
      /\ \/ cb.state = Closed /\ cb' = cb
         \/ /\ cb.state = Open
            /\ now >= cb.lastOpenTime + Cooldown
            /\ cb'.state = HalfOpen
  BY <1>1, AllowEffect
<1>3. LogTallied'
  BY <1>1, <1>2 DEF LogTallied
<1>4. CASE cb' = cb
  BY <1>1, <1>3, <1>4 DEF SW!vars
<1>5. CASE cb.state = Open /\ now >= cb.lastOpenTime + Cooldown /\ cb'.state = HalfOpen
  BY <1>1, <1>2, <1>3, <1>5 DEF SW!Probe, Open, HalfOpen
<1>. QED BY <1>2, <1>4, <1>5

LEMMA TickRefines ==
    ASSUME IInv, LogTallied, Tick
    PROVE  LogTallied' /\ SW!Tick
<1>1. now \in Nat /\ now' = now + 1 /\ UNCHANGED <<cb, log>>
  BY DEF Tick, IInv, TypeOK
<1>2. log \in Seq(LogEntry)
  BY DEF IInv, TypeOK, LogEntry
<1>3. \A i \in DOMAIN log : log[i].at \in Nat
  <2>1. Len(log) \in Nat /\ DOMAIN log = 1..Len(log) /\ \A i \in 1..Len(log) : log[i] \in LogEntry
    BY <1>2, LenProperties
  <2>. QED BY <2>1 DEF LogEntry
<1>4. \A i \in DOMAIN log' : log'[i].at <= now'
  BY <1>1, <1>3 DEF LogTallied
<1>5. Tallied(cb.buckets, log, (now' - Window) \div BucketSize)
  <2>. DEFINE first == (now - Window) \div BucketSize
              later == (now' - Window) \div BucketSize
  <2>0. now - Window \in Int /\ now' - Window \in Int /\ now - Window <= now' - Window
    BY <1>1, BreakerAssumption
  <2>1. first \in Int /\ later \in Int
    BY <2>0, DivBounds
  <2>2. first <= later
    BY <2>0, DivMonotone
  <2>3. Tallied(cb.buckets, log, first)
    BY DEF LogTallied
  <2>. HIDE DEF first, later
  <2>4. Tallied(cb.buckets, log, later)
    BY <2>1, <2>2, <2>3, TalliedLater
  <2>. QED BY <2>4 DEF later
<1>. QED BY <1>1, <1>4, <1>5 DEF LogTallied, SW!Tick

(* The breaker implements a window of exact instants: for any callers,     *)
(* window, granularity and threshold it opens exactly when the outcomes    *)
(* since the last reset, cut inside the oldest bucket of the window, reach *)
(* the threshold; what the buckets keep too long never counts.             *)
THEOREM RefinesSlidingWindow == Spec => ImplementsSlidingWindow
<1>1. Init => SW!Init
  <2>. SUFFICES ASSUME Init PROVE SW!Init
    OBVIOUS
  <2>. QED BY DEF Init, SW!Init, StartTime, NewCircuitBreaker, ZeroTime, Closed
<1>2. ASSUME IInv, LogTallied, [Next]_vars PROVE LogTallied' /\ [SW!Next]_(SW!vars)
  <2>1. ASSUME NEW c \in Callers, NEW success \in BOOLEAN, Record(c, success)
        PROVE  LogTallied' /\ [SW!Next]_(SW!vars)
    BY <1>2, <2>1, RecordClosedRefines, RecordOtherwiseRefines DEF SW!Next
  <2>2. ASSUME NEW c \in Callers, Allow(c) PROVE LogTallied' /\ [SW!Next]_(SW!vars)
    BY <1>2, <2>2, AllowRefines DEF SW!Next
  <2>3. CASE Tick
    BY <1>2, <2>3, TickRefines DEF SW!Next
  <2>4. CASE UNCHANGED vars
    BY <1>2, <2>4 DEF vars, LogTallied, SW!vars
  <2>. QED BY <1>2, <2>1, <2>2, <2>3, <2>4 DEF Next
<1>. QED BY <1>1, <1>2, InitTallied, Inductive, PTL DEF Spec, ImplementsSlidingWindow, SW!Spec

=============================================================================
