---------------------------- MODULE RouterProofs ----------------------------
(***************************************************************************)
(* Router.tla for any number of clients, any lists of candidates and any   *)
(* breaker parameters.                                                     *)
(*                                                                         *)
(* FailoverKeepsBest rests on two facts that hold while Route is in its    *)
(* loop: a candidate that has been closed all along is closed now, so it   *)
(* is allowed when its turn comes (SteadyIsClosed), and until then it is   *)
(* still in the list (NothingLost).                                        *)
(*                                                                         *)
(* FailoverBench.tla, at the end, is proved for the durations that fit the *)
(* breaker; what it needs of its constants is a hypothesis of its theorem  *)
(* and restricts none of those about the router.                           *)
(***************************************************************************)
EXTENDS FailoverBench, BreakerProofs, SequenceTheorems

BreakersFlagged ==
    \A n \in DOMAIN breakers :
        breakers[n].halfOpenInFlight = (breakers[n].state = HalfOpen)

SteadyIsClosed == \A p \in Clients : \A c \in steady[p] : IsClosed(c.Name, breakers)

NothingLost ==
    \A p \in Clients : pc[p] = "asking" => steady[p] \subseteq available[p] \cup Elements(list[p])

IInv == /\ TypeOK
        /\ BreakersFlagged
        /\ SteadyIsClosed
        /\ NothingLost
        /\ FailoverKeepsBest

----------------------------------------------------------------------------
(* The order of candidates.                                                *)

(* Candidates have the fields of a Candidate, and so do those of a list. *)
LEMMA CandidateTypes ==
    /\ \A c \in Candidates : c \in Candidate /\ c.Name \in Names
    /\ \A l \in CandidateLists : l \in Seq(Candidates) /\ Elements(l) \subseteq Candidates
<1>1. ASSUME NEW l \in CandidateLists PROVE l \in Seq(Candidate) /\ Elements(l) \subseteq Candidates
  BY RouterAssumption DEF Candidates
<1>2. ASSUME NEW l \in CandidateLists PROVE l \in Seq(Candidates)
  <2>. HIDE DEF Candidate
  <2>1. l \in Seq(Candidate)
    BY <1>1
  <2>2. Len(l) \in Nat /\ DOMAIN l = 1..Len(l) /\ l \in [1..Len(l) -> Candidate]
    BY <2>1, LenProperties
  <2>3. \A i \in 1..Len(l) : l[i] \in Candidates
    BY <1>1, <2>2 DEF Elements
  <2>4. l \in [1..Len(l) -> Candidates]
    BY <2>2, <2>3
  <2>. HIDE DEF Candidates
  <2>. QED BY <2>2, <2>4
<1>3. ASSUME NEW c \in Candidates PROVE c \in Candidate
  <2>1. PICK l \in CandidateLists : c \in Elements(l)
    BY DEF Candidates
  <2>2. l \in Seq(Candidate)
    BY <1>1
  <2>3. \A i \in DOMAIN l : l[i] \in Candidate
    <3>. HIDE DEF Candidate
    <3>. QED BY <2>2, LenProperties, ElementOfSeq
  <2>. QED BY <2>1, <2>3 DEF Elements
<1>. QED BY <1>1, <1>2, <1>3 DEF Names

(* Of two candidates at most one precedes the other, and none itself. *)
LEMMA PrecedesAsymmetric ==
    ASSUME NEW c \in Candidate, NEW d \in Candidate, Precedes(c, d)
    PROVE  ~Precedes(d, c)
<1>1. /\ c.Name \in Nat /\ d.Name \in Nat
      /\ Price(c) \in Int /\ Price(d) \in Int
      /\ EffectiveWeight(c) \in Int /\ EffectiveWeight(d) \in Int
  BY DEF Candidate, Price, EffectiveWeight
<1>2. ScoreProduct(c, d) \in Int /\ ScoreProduct(d, c) \in Int
  BY <1>1 DEF ScoreProduct
<1>. QED BY <1>1, <1>2 DEF Precedes

(* What Route returns is not preceded by anything that was available. *)
LEMMA BestIsFirst ==
    ASSUME NEW cs \in SUBSET Candidates, NEW c \in Best(cs), NEW d \in cs
    PROVE  ~Precedes(d, c)
<1>1. c \in Candidate /\ d \in Candidate /\ c \in cs
  BY CandidateTypes DEF Best
<1>2. CASE d = c
  BY <1>1, <1>2, PrecedesAsymmetric
<1>3. CASE d # c
  BY <1>1, <1>3, PrecedesAsymmetric DEF Best
<1>. QED BY <1>2, <1>3

----------------------------------------------------------------------------
(* The breakers.                                                           *)

(* Get gives a well-formed breaker, half-open with its flag or neither. *)
LEMMA GetOK ==
    ASSUME TypeOK, BreakersFlagged, NEW name
    PROVE  /\ BreakerOK(Get(name), now)
           /\ Get(name).halfOpenInFlight = (Get(name).state = HalfOpen)
           /\ IsClosed(name, breakers) <=> Get(name).state = Closed
<1>1. /\ BreakerOK(NewCircuitBreaker, now)
      /\ NewCircuitBreaker.state = Closed
      /\ NewCircuitBreaker.halfOpenInFlight = FALSE
  BY NewCircuitBreakerOK DEF NewCircuitBreaker, TypeOK
<1>2. CASE name \in DOMAIN breakers
  BY <1>2 DEF Get, TypeOK, BreakersFlagged, IsClosed
<1>3. CASE name \notin DOMAIN breakers
  <2>1. Get(name) = NewCircuitBreaker /\ IsClosed(name, breakers)
    BY <1>3 DEF Get, IsClosed
  <2>2. (NewCircuitBreaker.state = HalfOpen) = FALSE
    BY <1>1 DEF Closed, HalfOpen
  <2>. QED BY <1>1, <2>1, <2>2
<1>. QED BY <1>2, <1>3

(* The breakers, after one of a known name has become b, are well formed.  *)
LEMMA PutOK ==
    ASSUME TypeOK, BreakersFlagged, NEW name \in Names, NEW b,
           BreakerOK(b, now), b.halfOpenInFlight = (b.state = HalfOpen),
           now' = now, breakers' = Put(name, b)
    PROVE  /\ DOMAIN breakers' = DOMAIN breakers \cup {name}
           /\ DOMAIN breakers' \subseteq Names
           /\ \A n \in DOMAIN breakers' : BreakerOK(breakers'[n], now')
           /\ BreakersFlagged'
           /\ breakers'[name] = b
           /\ \A n \in DOMAIN breakers : n # name => breakers'[n] = breakers[n]
<1>1. /\ DOMAIN breakers' = DOMAIN breakers \cup {name}
      /\ \A n \in DOMAIN breakers' : breakers'[n] = IF n = name THEN b ELSE breakers[n]
  BY DEF Put
<1>. QED BY <1>1 DEF TypeOK, BreakersFlagged

(* Keeping the history in step keeps it true, and only shrinks it. *)
LEMMA ObserveKeeps ==
    ASSUME TypeOK, Observe
    PROVE  /\ steady' \in [Clients -> SUBSET Candidates]
           /\ SteadyIsClosed'
           /\ \A p \in Clients : steady'[p] \subseteq steady[p]
    BY DEF TypeOK, Observe, SteadyIsClosed

----------------------------------------------------------------------------
(* A router nobody has called yet. *)
LEMMA FreshIInv ==
    ASSUME now \in Nat, now >= StartTime,
           breakers = [n \in {} |-> NewCircuitBreaker],
           pc = [p \in Clients |-> "idle"],
           list = [p \in Clients |-> << >>],
           available = [p \in Clients |-> {}],
           chosen = [p \in Clients |-> {}],
           calls = 0,
           steady = [p \in Clients |-> {}]
    PROVE  IInv
<1>1. DOMAIN breakers = {}
  OBVIOUS
<1>2. \A p \in Clients : pc[p] = "idle" /\ steady[p] = {}
  OBVIOUS
<1>3. TypeOK
  BY <1>1, RouterAssumption, EmptySeq DEF TypeOK
<1>. QED BY <1>1, <1>2, <1>3 DEF IInv, BreakersFlagged, SteadyIsClosed, NothingLost,
         FailoverKeepsBest

(* The initial states. *)
LEMMA InitIInv == Init => IInv
<1>1. StartTime \in Nat /\ StartTime >= StartTime
  BY BreakerAssumption DEF StartTime
<1>. QED BY <1>1, FreshIInv DEF Init

(* A client enters Route. *)
LEMMA CallIInv ==
    ASSUME IInv, NEW p \in Clients, Call(p)
    PROVE  IInv'
<1>. USE DEF IInv
<1>1. PICK l \in CandidateLists :
        /\ list' = [list EXCEPT ![p] = l]
        /\ steady' = [steady EXCEPT ![p] = {c \in Elements(l) : IsClosed(c.Name, breakers)}]
  BY DEF Call
<1>2. l \in Seq(Candidates) /\ Elements(l) \subseteq Candidates
  BY CandidateTypes
<1>3. /\ pc' = [pc EXCEPT ![p] = "asking"]
      /\ available' = [available EXCEPT ![p] = {}]
      /\ UNCHANGED <<now, breakers, chosen>>
      /\ calls < MaxCalls /\ calls' = calls + 1
  BY DEF Call
<1>4. TypeOK'
  BY <1>1, <1>2, <1>3, RouterAssumption DEF TypeOK
<1>5. \A q \in Clients : /\ q # p => steady'[q] = steady[q] /\ pc'[q] = pc[q]
                                     /\ available'[q] = available[q] /\ list'[q] = list[q]
                         /\ q = p => /\ steady'[q] = {c \in Elements(l) : IsClosed(c.Name, breakers)}
                                     /\ pc'[q] = "asking" /\ list'[q] = l
  BY <1>1, <1>3 DEF TypeOK
<1>6. BreakersFlagged'
  BY <1>3 DEF BreakersFlagged
<1>7. SteadyIsClosed'
  BY <1>3, <1>5 DEF SteadyIsClosed, IsClosed
<1>8. NothingLost' /\ FailoverKeepsBest'
  BY <1>3, <1>5 DEF NothingLost, FailoverKeepsBest
<1>. QED BY <1>4, <1>6, <1>7, <1>8

(* Route asks one breaker. *)
LEMMA AskIInv ==
    ASSUME IInv, NEW p \in Clients, Ask(p)
    PROVE  IInv'
<1>. USE DEF IInv
<1>. DEFINE c == Head(list[p])
            b == Get(c.Name)
            allowed == CanAllow(b, now)
<1>0. /\ pc[p] = "asking" /\ list[p] # << >> /\ list[p] \in Seq(Candidates)
      /\ list' = [list EXCEPT ![p] = Tail(@)]
      /\ Observe
      /\ UNCHANGED <<now, pc, chosen, calls>>
  BY DEF Ask, TypeOK
<1>1. /\ c \in Candidates /\ c.Name \in Names
      /\ Tail(list[p]) \in Seq(Candidates)
      /\ Elements(list[p]) = {c} \cup Elements(Tail(list[p]))
  <2>. HIDE DEF Candidates
  <2>1. /\ c \in Candidates /\ Tail(list[p]) \in Seq(Candidates)
        /\ Len(Tail(list[p])) = Len(list[p]) - 1
        /\ \A i \in 1..Len(Tail(list[p])) : Tail(list[p])[i] = list[p][i + 1]
    BY <1>0, HeadTailProperties
  <2>2. /\ Len(list[p]) \in Nat /\ Len(list[p]) > 0 /\ DOMAIN list[p] = 1..Len(list[p])
        /\ DOMAIN Tail(list[p]) = 1..Len(Tail(list[p]))
    BY <1>0, <2>1, EmptySeq, LenProperties
  <2>3. c = list[p][1]
    BY <1>0
  <2>. HIDE DEF c
  <2>4. ASSUME NEW i \in 1..Len(list[p]), i # 1
        PROVE  i - 1 \in DOMAIN Tail(list[p]) /\ list[p][i] = Tail(list[p])[i - 1]
    BY <2>1, <2>2, <2>4
  <2>5. ASSUME NEW i \in DOMAIN Tail(list[p])
        PROVE  i + 1 \in DOMAIN list[p] /\ Tail(list[p])[i] = list[p][i + 1]
    BY <2>1, <2>2
  <2>6. 1 \in DOMAIN list[p]
    BY <2>2
  <2>7. Elements(list[p]) \subseteq {c} \cup Elements(Tail(list[p]))
    BY <2>2, <2>3, <2>4 DEF Elements
  <2>8. {c} \cup Elements(Tail(list[p])) \subseteq Elements(list[p])
    BY <2>3, <2>5, <2>6 DEF Elements
  <2>. QED BY <2>1, <2>7, <2>8, CandidateTypes
<1>2. /\ BreakerOK(b, now)
      /\ b.halfOpenInFlight = (b.state = HalfOpen)
      /\ IsClosed(c.Name, breakers) <=> b.state = Closed
  BY GetOK
<1>3. \/ /\ allowed
         /\ breakers' = Put(c.Name, AfterAllow(b, now))
         /\ available' = [available EXCEPT ![p] = @ \cup {c}]
      \/ /\ ~allowed
         /\ breakers' = Put(c.Name, b)
         /\ available' = available
  BY DEF Ask
<1>. HIDE DEF c, b
<1>4. allowed => /\ BreakerOK(AfterAllow(b, now), now)
                 /\ AfterAllow(b, now).halfOpenInFlight = (AfterAllow(b, now).state = HalfOpen)
  BY <1>2, AllowEffect DEF TypeOK
<1>. HIDE DEF allowed
<1>5. /\ DOMAIN breakers' \subseteq Names
      /\ \A n \in DOMAIN breakers' : BreakerOK(breakers'[n], now')
      /\ BreakersFlagged'
  BY <1>0, <1>1, <1>2, <1>3, <1>4, PutOK
<1>6. /\ steady' \in [Clients -> SUBSET Candidates]
      /\ SteadyIsClosed'
      /\ \A q \in Clients : steady'[q] \subseteq steady[q]
  BY <1>0, ObserveKeeps
<1>7. /\ available' \in [Clients -> SUBSET Candidates]
      /\ list' \in [Clients -> Seq(Candidates)]
      /\ \A q \in Clients : available[q] \subseteq available'[q]
      /\ \A q \in Clients : q # p => list'[q] = list[q]
      /\ list'[p] = Tail(list[p])
  BY <1>0, <1>1, <1>3 DEF TypeOK
<1>8. TypeOK'
  BY <1>0, <1>5, <1>6, <1>7 DEF TypeOK
<1>9. c \in steady[p] => c \in available'[p]
  <2>1. c \in steady[p] => allowed
    BY <1>2 DEF SteadyIsClosed, CanAllow, allowed
  <2>. QED BY <2>1, <1>3 DEF TypeOK
<1>10. NothingLost'
  <2>. SUFFICES ASSUME NEW q \in Clients, pc[q] = "asking"
                PROVE  steady'[q] \subseteq available'[q] \cup Elements(list'[q])
    BY <1>0 DEF NothingLost
  <2>1. steady[q] \subseteq available[q] \cup Elements(list[q])
    BY DEF NothingLost
  <2>2. CASE q = p
    BY <2>1, <2>2, <1>1, <1>6, <1>7, <1>9
  <2>3. CASE q # p
    BY <2>1, <2>3, <1>6, <1>7
  <2>. QED BY <2>2, <2>3
<1>11. FailoverKeepsBest'
  BY <1>0, <1>6 DEF FailoverKeepsBest
<1>. QED BY <1>5, <1>6, <1>8, <1>10, <1>11

(* Route returns. *)
LEMMA ReturnIInv ==
    ASSUME IInv, NEW p \in Clients, Return(p)
    PROVE  IInv'
<1>. USE DEF IInv
<1>0. /\ pc[p] = "asking" /\ list[p] = << >>
      /\ chosen' = [chosen EXCEPT ![p] = Best(available[p])]
      /\ pc' = [pc EXCEPT ![p] = IF available[p] = {} THEN "failed" ELSE "requesting"]
      /\ UNCHANGED <<now, breakers, list, available, calls, steady>>
  BY DEF Return
<1>1. Best(available[p]) \subseteq available[p] /\ available[p] \in SUBSET Candidates
  BY DEF Best, TypeOK
<1>2. TypeOK'
  BY <1>0, <1>1 DEF TypeOK
<1>3. steady[p] \subseteq available[p]
  BY <1>0 DEF NothingLost, Elements
<1>4. BreakersFlagged' /\ SteadyIsClosed' /\ NothingLost'
  BY <1>0 DEF BreakersFlagged, SteadyIsClosed, IsClosed, NothingLost, TypeOK
<1>5. FailoverKeepsBest'
  <2>. SUFFICES ASSUME NEW q \in Clients
                PROVE  /\ pc'[q] = "failed" => steady[q] = {}
                       /\ pc'[q] = "requesting" =>
                            \A c \in chosen'[q], d \in steady[q] : ~Precedes(d, c)
    BY <1>0 DEF FailoverKeepsBest
  <2>1. CASE q # p
    BY <2>1, <1>0 DEF FailoverKeepsBest, TypeOK
  <2>2. CASE q = p
    <3>1. chosen'[p] = Best(available[p])
      BY <1>0 DEF TypeOK
    <3>2. pc'[p] = IF available[p] = {} THEN "failed" ELSE "requesting"
      BY <1>0 DEF TypeOK
    <3>. QED BY <2>2, <3>1, <3>2, <1>1, <1>3, BestIsFirst
  <2>. QED BY <2>1, <2>2
<1>. QED BY <1>2, <1>4, <1>5

(* The outcome of a request is reported. *)
LEMMA ReportIInv ==
    ASSUME IInv, NEW p \in Clients, NEW success \in BOOLEAN, Report(p, success)
    PROVE  IInv'
<1>. USE DEF IInv
<1>0. /\ pc[p] = "requesting"
      /\ pc' = [pc EXCEPT ![p] = "idle"]
      /\ chosen' = [chosen EXCEPT ![p] = {}]
      /\ available' = [available EXCEPT ![p] = {}]
      /\ Observe
      /\ UNCHANGED <<now, list, calls>>
  BY DEF Report
<1>1. PICK c \in chosen[p] :
         breakers' = Put(c.Name, AfterRecord(Get(c.Name), now, success))
  BY DEF Report
<1>2. c.Name \in Names
  BY CandidateTypes DEF TypeOK
<1>3. /\ BreakerOK(Get(c.Name), now)
      /\ Get(c.Name).halfOpenInFlight = (Get(c.Name).state = HalfOpen)
  BY GetOK
<1>4. /\ BreakerOK(AfterRecord(Get(c.Name), now, success), now)
      /\ AfterRecord(Get(c.Name), now, success).halfOpenInFlight =
            (AfterRecord(Get(c.Name), now, success).state = HalfOpen)
  <2>1. /\ BreakerOK(AfterRecord(Get(c.Name), now, success), now)
        /\ AfterRecord(Get(c.Name), now, success).halfOpenInFlight = FALSE
        /\ AfterRecord(Get(c.Name), now, success).state \in {Closed, Open}
    BY <1>3, RecordEffect DEF TypeOK
  <2>2. (AfterRecord(Get(c.Name), now, success).state = HalfOpen) = FALSE
    BY <2>1 DEF Closed, Open, HalfOpen
  <2>. QED BY <2>1, <2>2
<1>5. /\ DOMAIN breakers' \subseteq Names
      /\ \A n \in DOMAIN breakers' : BreakerOK(breakers'[n], now')
      /\ BreakersFlagged'
  BY <1>0, <1>1, <1>2, <1>4, PutOK
<1>6. /\ steady' \in [Clients -> SUBSET Candidates]
      /\ SteadyIsClosed'
      /\ \A q \in Clients : steady'[q] \subseteq steady[q]
  BY <1>0, ObserveKeeps
<1>7. TypeOK'
  BY <1>0, <1>5, <1>6 DEF TypeOK
<1>8. NothingLost' /\ FailoverKeepsBest'
  BY <1>0, <1>6 DEF NothingLost, FailoverKeepsBest, TypeOK
<1>. QED BY <1>5, <1>6, <1>7, <1>8

(* The clock advances, by any amount. *)
LEMMA LaterIInv ==
    ASSUME IInv, now' \in Nat, now <= now',
           UNCHANGED <<breakers, pc, list, available, chosen, calls, steady>>
    PROVE  IInv'
<1>. USE DEF IInv
<1>1. ASSUME NEW n \in DOMAIN breakers PROVE BreakerOK(breakers[n], now')
  <2>1. BreakerOK(breakers[n], now) /\ now \in Nat
    BY DEF TypeOK
  <2>2. BucketsOK(breakers[n].buckets, now')
    BY <2>1, LaterKeepsBuckets DEF BreakerOK
  <2>. QED BY <2>1, <2>2 DEF BreakerOK
<1>2. now' >= StartTime
  BY BreakerAssumption DEF TypeOK, StartTime
<1>. QED BY <1>1, <1>2 DEF TypeOK, BreakersFlagged, SteadyIsClosed, IsClosed, NothingLost,
         FailoverKeepsBest

(* Time passes, or a client gives up. *)
LEMMA RestIInv ==
    ASSUME IInv, Tick \/ \E p \in Clients : GiveUp(p)
    PROVE  IInv'
<1>1. ASSUME Tick PROVE IInv'
  <2>1. now \in Nat /\ now' = now + 1
    BY <1>1 DEF Tick, IInv, TypeOK
  <2>2. now' \in Nat /\ now <= now'
    BY <2>1
  <2>. QED BY <1>1, <2>2, LaterIInv DEF Tick
<1>2. ASSUME NEW p \in Clients, GiveUp(p) PROVE IInv'
  BY <1>2 DEF IInv, GiveUp, TypeOK, BreakersFlagged, SteadyIsClosed, IsClosed, NothingLost,
     FailoverKeepsBest
<1>. QED BY <1>1, <1>2

LEMMA NextIInv == IInv /\ [Next]_vars => IInv'
<1>. SUFFICES ASSUME IInv, [Next]_vars PROVE IInv'
  OBVIOUS
<1>1. CASE UNCHANGED vars
  BY <1>1 DEF vars, IInv, TypeOK, BreakersFlagged, SteadyIsClosed, IsClosed, NothingLost,
     FailoverKeepsBest
<1>2. CASE Next
  BY <1>2, CallIInv, AskIInv, ReturnIInv, ReportIInv, RestIInv DEF Next
<1>. QED BY <1>1, <1>2

(* The inductive invariant. *)
THEOREM Inductive == Spec => []IInv
BY InitIInv, NextIInv, PTL DEF Spec

(* Type correctness of the router and of every breaker in it. *)
THEOREM TypeCorrect == Spec => []TypeOK
<1>1. IInv => TypeOK
  BY DEF IInv
<1>. QED BY Inductive, <1>1, PTL

(* Route's unlocked loop is harmless to the choice: with any number of     *)
(* clients asking and reporting meanwhile, no candidate whose breaker is   *)
(* closed throughout a call is passed over for a worse one, and none is    *)
(* closed throughout a call that fails.                                    *)
THEOREM FailoverKeepsBestHolds == Spec => []FailoverKeepsBest
<1>1. IInv => FailoverKeepsBest
  BY DEF IInv
<1>. QED BY Inductive, <1>1, PTL

(* A half-open breaker nobody is testing stays so: for any parameters and  *)
(* any traffic, no call of Route is let through to it and none reports on  *)
(* it again.                                                               *)
THEOREM OrphanedForeverHolds == Spec => OrphanedForever
<1>. DEFINE Stays == \A name \in Names : Orphaned(name) => Orphaned(name)'
<1>1. ASSUME IInv, [Next]_vars PROVE Stays
  <2>. SUFFICES ASSUME NEW name \in Names, Orphaned(name) PROVE Orphaned(name)'
    OBVIOUS
  <2>0. /\ name \in DOMAIN breakers /\ breakers[name].state = HalfOpen
        /\ Get(name) = breakers[name]
        /\ ~CanAllow(breakers[name], now)
        /\ \A p \in Clients : ~Holds(p, name)
    BY <1>1 DEF Orphaned, Get, IInv, BreakersFlagged, CanAllow, Closed, Open, HalfOpen
  <2>1. ASSUME NEW p \in Clients, Call(p) PROVE Orphaned(name)'
    BY <1>1, <2>0, <2>1 DEF Call, Orphaned, Holds, IInv, TypeOK
  <2>2. ASSUME NEW p \in Clients, Ask(p) PROVE Orphaned(name)'
    <3>. DEFINE c == Head(list[p])
    <3>1. \/ /\ CanAllow(Get(c.Name), now)
             /\ breakers' = Put(c.Name, AfterAllow(Get(c.Name), now))
             /\ available' = [available EXCEPT ![p] = @ \cup {c}]
          \/ /\ breakers' = Put(c.Name, Get(c.Name))
             /\ available' = available
      BY <2>2 DEF Ask
    <3>2. pc' = pc /\ chosen' = chosen /\ pc[p] = "asking"
      BY <2>2 DEF Ask
    <3>. HIDE DEF c
    <3>3. CASE c.Name = name
      BY <2>0, <3>1, <3>2, <3>3 DEF Orphaned, Holds, Put
    <3>4. CASE c.Name # name
      <4>1. name \in DOMAIN breakers' /\ breakers'[name] = breakers[name]
        BY <2>0, <3>1, <3>4 DEF Put
      <4>2. ASSUME NEW q \in Clients PROVE ~Holds(q, name)'
        <5>1. ~Holds(q, name) /\ available \in [Clients -> SUBSET Candidates]
          BY <1>1, <2>0 DEF IInv, TypeOK
        <5>2. available'[q] \subseteq available[q] \cup {c}
          BY <3>1, <5>1
        <5>. QED BY <3>2, <3>4, <5>1, <5>2 DEF Holds
      <4>. QED BY <2>0, <4>1, <4>2 DEF Orphaned
    <3>. QED BY <3>3, <3>4
  <2>3. ASSUME NEW p \in Clients, Return(p) PROVE Orphaned(name)'
    BY <1>1, <2>0, <2>3 DEF Return, Orphaned, Holds, Best, IInv, TypeOK
  <2>4. ASSUME NEW p \in Clients, NEW success \in BOOLEAN, Report(p, success)
        PROVE  Orphaned(name)'
    <3>1. PICK c \in chosen[p] :
             breakers' = Put(c.Name, AfterRecord(Get(c.Name), now, success))
      BY <2>4 DEF Report
    <3>2. /\ pc[p] = "requesting"
          /\ pc' = [pc EXCEPT ![p] = "idle"]
          /\ chosen' = [chosen EXCEPT ![p] = {}]
          /\ available' = [available EXCEPT ![p] = {}]
      BY <2>4 DEF Report
    <3>3. c.Name # name
      BY <2>0, <3>2 DEF Holds
    <3>. QED BY <1>1, <2>0, <3>1, <3>2, <3>3 DEF Orphaned, Holds, Put, IInv, TypeOK
  <2>5. ASSUME NEW p \in Clients, GiveUp(p) PROVE Orphaned(name)'
    BY <1>1, <2>0, <2>5 DEF GiveUp, Orphaned, Holds, IInv, TypeOK
  <2>6. CASE Tick
    BY <2>0, <2>6 DEF Tick, Orphaned, Holds
  <2>7. CASE UNCHANGED vars
    BY <2>0, <2>7 DEF vars, Orphaned, Holds
  <2>. QED BY <1>1, <2>1, <2>2, <2>3, <2>4, <2>5, <2>6, <2>7 DEF Next
<1>2. ASSUME IInv, [Next]_vars PROVE [Stays]_vars
  BY <1>1, <1>2
<1>. QED BY <1>2, Inductive, PTL DEF Spec, OrphanedForever

----------------------------------------------------------------------------
(* The order of candidates leaves no draw.                                 *)

(* Cross-multiplied fractions with positive denominators are in order. *)
LEMMA RatiosTransitive ==
    ASSUME NEW a \in Nat, NEW b \in Nat, NEW c \in Nat,
           NEW u \in Nat \ {0}, NEW v \in Nat \ {0}, NEW w \in Nat \ {0},
           a * v <= b * u, b * w <= c * v
    PROVE  /\ a * w <= c * u
           /\ (a * v < b * u \/ b * w < c * v) => a * w < c * u
<1>1. (a * v) * w <= (b * u) * w /\ (b * w) * u <= (c * v) * u
  OBVIOUS
<1>2. v * (a * w) <= v * (c * u)
  BY <1>1
<1>3. a * w <= c * u
  BY <1>2
<1>4. ASSUME a * v < b * u \/ b * w < c * v PROVE a * w < c * u
  <2>1. (a * v) * w < (b * u) * w \/ (b * w) * u < (c * v) * u
    BY <1>4
  <2>2. v * (a * w) < v * (c * u)
    BY <1>1, <2>1
  <2>. QED BY <2>2
<1>. QED BY <1>3, <1>4

(* A price is a natural number and a weight in use a positive one. *)
LEMMA ScoreTypes ==
    ASSUME NEW c \in Candidate
    PROVE  c.Name \in Nat /\ Price(c) \in Nat /\ EffectiveWeight(c) \in Nat \ {0}
    BY DEF Candidate, Price, EffectiveWeight

LEMMA PrecedesTransitive ==
    ASSUME NEW c \in Candidate, NEW d \in Candidate, NEW e \in Candidate,
           Precedes(c, d), Precedes(d, e)
    PROVE  Precedes(c, e)
<1>. DEFINE a == Price(c)  b == Price(d)  x == Price(e)
            u == EffectiveWeight(c)  v == EffectiveWeight(d)  w == EffectiveWeight(e)
<1>1. /\ a \in Nat /\ b \in Nat /\ x \in Nat
      /\ u \in Nat \ {0} /\ v \in Nat \ {0} /\ w \in Nat \ {0}
      /\ c.Name \in Nat /\ d.Name \in Nat /\ e.Name \in Nat
  BY ScoreTypes
<1>2. /\ a * v < b * u \/ (a * v = b * u /\ c.Name < d.Name)
      /\ b * w < x * v \/ (b * w = x * v /\ d.Name < e.Name)
  BY DEF Precedes, ScoreProduct
<1>3. Precedes(c, e) <=> a * w < x * u \/ (a * w = x * u /\ c.Name < e.Name)
  BY DEF Precedes, ScoreProduct
<1>. HIDE DEF a, b, x, u, v, w
<1>4. /\ a * v \in Int /\ b * u \in Int /\ b * w \in Int /\ x * v \in Int
      /\ a * w \in Int /\ x * u \in Int
  BY <1>1
<1>5. a * v <= b * u /\ b * w <= x * v
  BY <1>2, <1>4
<1>6. /\ a * w <= x * u
      /\ (a * v < b * u \/ b * w < x * v) => a * w < x * u
  BY <1>1, <1>5, RatiosTransitive
<1>7. CASE a * v < b * u \/ b * w < x * v
  BY <1>3, <1>6, <1>7
<1>8. CASE ~(a * v < b * u \/ b * w < x * v)
  <2>1. c.Name < e.Name
    BY <1>1, <1>2, <1>8
  <2>. QED BY <1>3, <1>4, <1>6, <2>1
<1>. QED BY <1>7, <1>8

(* Of two different candidates one precedes the other: names differ. *)
LEMMA PrecedesTotal ==
    ASSUME NEW c \in Candidates, NEW d \in Candidates, c # d
    PROVE  Precedes(c, d) \/ Precedes(d, c)
<1>1. c \in Candidate /\ d \in Candidate
  BY CandidateTypes
<1>2. /\ c.Name \in Nat /\ d.Name \in Nat /\ c.Name # d.Name
      /\ ScoreProduct(c, d) \in Int /\ ScoreProduct(d, c) \in Int
  BY <1>1, ScoreTypes, RouterAssumption DEF ScoreProduct
<1>. QED BY <1>2 DEF Precedes

(* A single candidate is the best, and the best of a set and one candidate *)
(* more is the better of that one and the best before.                     *)
LEMMA BestGrows ==
    ASSUME NEW cs \in SUBSET Candidates, NEW d \in Candidates,
           cs = {} \/ \E c \in Candidates : Best(cs) = {c}
    PROVE  \E c \in Candidates : Best(cs \cup {d}) = {c}
<1>1. \A x \in Candidates : x \in Candidate
  BY CandidateTypes
<1>2. CASE cs = {}
  BY <1>2 DEF Best
<1>3. ASSUME NEW c \in Candidates, Best(cs) = {c}
      PROVE  \E x \in Candidates : Best(cs \cup {d}) = {x}
  <2>1. c \in cs /\ \A x \in cs \ {c} : Precedes(c, x)
    BY <1>3 DEF Best
  <2>2. CASE d \in cs
    <3>1. cs \cup {d} = cs
      BY <2>2
    <3>. QED BY <1>3, <3>1
  <2>3. CASE d \notin cs /\ Precedes(c, d)
    <3>1. \A x \in (cs \cup {d}) \ {c} : Precedes(c, x)
      BY <2>1, <2>3
    <3>2. \A x \in (cs \cup {d}) \ {c} : ~Precedes(x, c)
      BY <1>1, <3>1, PrecedesAsymmetric
    <3>3. Best(cs \cup {d}) = {c}
      BY <2>1, <3>1, <3>2 DEF Best
    <3>. QED BY <3>3
  <2>4. CASE d \notin cs /\ Precedes(d, c)
    <3>1. \A x \in cs : Precedes(d, x)
      BY <1>1, <2>1, <2>4, PrecedesTransitive
    <3>2. \A x \in cs : ~Precedes(x, d)
      BY <1>1, <3>1, PrecedesAsymmetric
    <3>3. Best(cs \cup {d}) = {d}
      BY <2>4, <3>1, <3>2 DEF Best
    <3>. QED BY <3>3
  <2>. QED BY <2>1, <2>2, <2>3, <2>4, PrecedesTotal
<1>. QED BY <1>2, <1>3

(* While Route is in its loop the candidates allowed so far have a best,   *)
(* and when it returns that is the answer.                                 *)
BestExists ==
    \A p \in Clients :
        pc[p] = "asking" => \/ available[p] = {}
                            \/ \E c \in Candidates : Best(available[p]) = {c}

(* A step of one client leaves the promise to the others. *)
LEMMA OthersDecided ==
    ASSUME TypeOK, BestExists, RouteDecides, NEW p \in Clients, NEW q \in Clients, q # p,
           pc'[q] = pc[q], available'[q] = available[q], chosen'[q] = chosen[q]
    PROVE  /\ pc'[q] = "asking" => \/ available'[q] = {}
                                   \/ \E c \in Candidates : Best(available'[q]) = {c}
           /\ pc'[q] = "requesting" => \E c \in Candidates : chosen'[q] = {c}
    BY DEF BestExists, RouteDecides

LEMMA NextDecides ==
    ASSUME TypeOK, BestExists, RouteDecides, [Next]_vars
    PROVE  BestExists' /\ RouteDecides'
<1>0. ASSUME NEW p \in Clients,
             \A q \in Clients \ {p} : /\ pc'[q] = pc[q]
                                      /\ available'[q] = available[q]
                                      /\ chosen'[q] = chosen[q],
             pc'[p] = "asking" => \/ available'[p] = {}
                                  \/ \E c \in Candidates : Best(available'[p]) = {c},
             pc'[p] = "requesting" => \E c \in Candidates : chosen'[p] = {c}
      PROVE  BestExists' /\ RouteDecides'
  <2>1. ASSUME NEW q \in Clients
        PROVE  /\ pc'[q] = "asking" => \/ available'[q] = {}
                                       \/ \E c \in Candidates : Best(available'[q]) = {c}
               /\ pc'[q] = "requesting" => \E c \in Candidates : chosen'[q] = {c}
    BY <1>0, OthersDecided
  <2>. QED BY <2>1 DEF BestExists, RouteDecides, Best, Precedes, ScoreProduct
<1>1. ASSUME NEW p \in Clients, Call(p) PROVE BestExists' /\ RouteDecides'
  BY <1>0, <1>1 DEF Call, TypeOK
<1>2. ASSUME NEW p \in Clients, Ask(p) PROVE BestExists' /\ RouteDecides'
  <2>. DEFINE c == Head(list[p])
  <2>1. /\ pc[p] = "asking" /\ pc' = pc /\ chosen' = chosen
        /\ available' = [available EXCEPT ![p] = @ \cup {c}] \/ available' = available
    BY <1>2 DEF Ask
  <2>2. c \in Candidates
    <3>1. list[p] \in Seq(Candidates) /\ list[p] # << >>
      BY <1>2 DEF Ask, TypeOK
    <3>. QED BY <3>1, HeadTailProperties
  <2>. HIDE DEF c
  <2>3. available[p] \in SUBSET Candidates
    BY DEF TypeOK
  <2>4. CASE available' = available
    BY <2>1, <2>4, <1>0 DEF BestExists, RouteDecides
  <2>5. CASE available' = [available EXCEPT ![p] = @ \cup {c}]
    <3>1. /\ available'[p] = available[p] \cup {c}
          /\ \A q \in Clients \ {p} : available'[q] = available[q]
      BY <2>5 DEF TypeOK
    <3>2. \E x \in Candidates : Best(available[p] \cup {c}) = {x}
      BY <2>1, <2>2, <2>3, BestGrows DEF BestExists
    <3>. QED BY <2>1, <3>1, <3>2, <1>0
  <2>. QED BY <2>1, <2>4, <2>5
<1>3. ASSUME NEW p \in Clients, Return(p) PROVE BestExists' /\ RouteDecides'
  <2>1. /\ pc[p] = "asking" /\ available' = available
        /\ chosen'[p] = Best(available[p])
        /\ pc'[p] = IF available[p] = {} THEN "failed" ELSE "requesting"
        /\ \A q \in Clients \ {p} : pc'[q] = pc[q] /\ chosen'[q] = chosen[q]
    BY <1>3 DEF Return, TypeOK
  <2>2. available[p] # {} => \E c \in Candidates : chosen'[p] = {c}
    BY <2>1 DEF BestExists
  <2>. QED BY <2>1, <2>2, <1>0
<1>4. ASSUME NEW p \in Clients, NEW success \in BOOLEAN, Report(p, success)
      PROVE  BestExists' /\ RouteDecides'
  BY <1>0, <1>4 DEF Report, TypeOK
<1>5. ASSUME NEW p \in Clients, GiveUp(p) PROVE BestExists' /\ RouteDecides'
  BY <1>0, <1>5 DEF GiveUp, TypeOK
<1>6. CASE Tick \/ UNCHANGED vars
  BY <1>6 DEF Tick, vars, BestExists, RouteDecides
<1>. QED BY <1>1, <1>2, <1>3, <1>4, <1>5, <1>6 DEF Next

(* The order by score and then by name leaves no draw: a call of Route     *)
(* that does not fail returns exactly one candidate, whatever prices,      *)
(* weights and names the lists hold and whichever of them were allowed.    *)
THEOREM RouteDecidesHolds == Spec => []RouteDecides
<1>1. Init => BestExists /\ RouteDecides
  BY DEF Init, BestExists, RouteDecides
<1>2. TypeOK /\ BestExists /\ RouteDecides /\ [Next]_vars => (BestExists /\ RouteDecides)'
  BY NextDecides
<1>. QED BY <1>1, <1>2, TypeCorrect, PTL DEF Spec

----------------------------------------------------------------------------
(* Calls with a single candidate.                                          *)

(* A client is let through to one candidate at most in a call, and keeps   *)
(* it until it reports.                                                    *)
OneEach ==
    \A p \in Clients :
        /\ pc[p] = "asking" => /\ list[p] = << >> \/ (Len(list[p]) = 1 /\ available[p] = {})
                               /\ available[p] = {} \/ \E c \in Candidates : available[p] = {c}
        /\ pc[p] \in {"idle", "failed"} => chosen[p] = {}

SingleInv == OneEach /\ HalfOpenIsTested

LEMMA NextSingle ==
    ASSUME \A l \in CandidateLists : Len(l) <= 1,
           IInv, RouteDecides, SingleInv, [Next]_vars
    PROVE  SingleInv'
<1>. USE DEF SingleInv
<1>1. ASSUME NEW p \in Clients, Call(p) PROVE SingleInv'
  <2>1. PICK l \in CandidateLists : list' = [list EXCEPT ![p] = l]
    BY <1>1 DEF Call
  <2>2. l = << >> \/ Len(l) = 1
    <3>1. l \in Seq(Candidates)
      BY CandidateTypes
    <3>. HIDE DEF Candidates
    <3>2. Len(l) \in Nat /\ Len(l) <= 1
      BY <3>1, LenProperties
    <3>3. Len(l) = 0 => l = << >>
      BY <3>1, EmptySeq, Zenon
    <3>4. Len(l) = 0 \/ Len(l) = 1
      BY <3>2
    <3>. QED BY <3>3, <3>4, Zenon
  <2>3. /\ pc[p] = "idle" /\ pc' = [pc EXCEPT ![p] = "asking"]
        /\ available' = [available EXCEPT ![p] = {}]
        /\ UNCHANGED <<breakers, chosen>>
    BY <1>1 DEF Call
  <2>4. OneEach'
    BY <2>1, <2>2, <2>3 DEF OneEach, IInv, TypeOK
  <2>5. HalfOpenIsTested'
    BY <2>3 DEF HalfOpenIsTested, Orphaned, Holds, OneEach, IInv, TypeOK
  <2>. QED BY <2>4, <2>5
<1>2. ASSUME NEW p \in Clients, Ask(p) PROVE SingleInv'
  <2>. DEFINE c == Head(list[p])
  <2>1. /\ pc[p] = "asking" /\ pc' = pc /\ chosen' = chosen
        /\ list[p] # << >> /\ list' = [list EXCEPT ![p] = Tail(@)]
        /\ \/ /\ available' = [available EXCEPT ![p] = @ \cup {c}]
              /\ breakers' = Put(c.Name, AfterAllow(Get(c.Name), now))
           \/ available' = available /\ breakers' = Put(c.Name, Get(c.Name))
    BY <1>2 DEF Ask
  <2>2. c \in Candidates /\ Tail(list[p]) = << >> /\ available[p] = {}
    <3>1. list[p] \in Seq(Candidates) /\ Len(list[p]) = 1 /\ available[p] = {}
      BY <2>1 DEF OneEach, IInv, TypeOK
    <3>2. Tail(list[p]) \in Seq(Candidates) /\ Len(Tail(list[p])) = 0
      BY <2>1, <3>1, HeadTailProperties
    <3>. QED BY <2>1, <3>1, <3>2, HeadTailProperties, EmptySeq
  <2>. HIDE DEF c
  <2>3. OneEach'
    BY <2>1, <2>2 DEF OneEach, IInv, TypeOK
  <2>4. ASSUME NEW name \in Names PROVE ~Orphaned(name)'
    <3>1. CASE name # c.Name
      <4>1. /\ name \in DOMAIN breakers' <=> name \in DOMAIN breakers
            /\ name \in DOMAIN breakers => breakers'[name] = breakers[name]
        BY <2>1, <3>1 DEF Put
      <4>2. \A q \in Clients : Holds(q, name) => Holds(q, name)'
        BY <2>1 DEF Holds, IInv, TypeOK
      <4>. QED BY <4>1, <4>2 DEF Orphaned, HalfOpenIsTested
    <3>2. CASE name = c.Name /\ available' = [available EXCEPT ![p] = @ \cup {c}]
      <4>1. Holds(p, name)'
        BY <2>1, <3>2 DEF Holds, IInv, TypeOK
      <4>. QED BY <4>1 DEF Orphaned
    <3>3. CASE name = c.Name /\ available' = available /\ breakers' = Put(c.Name, Get(c.Name))
      <4>1. breakers'[name] = Get(name)
        BY <3>3 DEF Put
      <4>2. CASE name \in DOMAIN breakers
        <5>1. breakers'[name] = breakers[name]
          BY <4>1, <4>2 DEF Get
        <5>2. \A q \in Clients : Holds(q, name) => Holds(q, name)'
          BY <2>1, <3>3 DEF Holds
        <5>. QED BY <4>2, <5>1, <5>2 DEF Orphaned, HalfOpenIsTested
      <4>3. CASE name \notin DOMAIN breakers
        BY <4>1, <4>3 DEF Get, NewCircuitBreaker, Orphaned, Closed, HalfOpen
      <4>. QED BY <4>2, <4>3
    <3>. QED BY <2>1, <3>1, <3>2, <3>3
  <2>. QED BY <2>3, <2>4 DEF HalfOpenIsTested
<1>3. ASSUME NEW p \in Clients, Return(p) PROVE SingleInv'
  <2>1. /\ pc[p] = "asking" /\ breakers' = breakers /\ available' = available
        /\ list' = list
        /\ chosen'[p] = Best(available[p])
        /\ pc'[p] = IF available[p] = {} THEN "failed" ELSE "requesting"
        /\ \A q \in Clients \ {p} : pc'[q] = pc[q] /\ chosen'[q] = chosen[q]
    BY <1>3 DEF Return, IInv, TypeOK
  <2>2. chosen'[p] = available[p]
    BY <2>1 DEF OneEach, Best
  <2>3. OneEach'
    BY <2>1, <2>2 DEF OneEach
  <2>4. \A name \in Names, q \in Clients : Holds(q, name) => Holds(q, name)'
    BY <2>1, <2>2 DEF Holds
  <2>. QED BY <2>1, <2>3, <2>4 DEF HalfOpenIsTested, Orphaned
<1>4. ASSUME NEW p \in Clients, NEW success \in BOOLEAN, Report(p, success)
      PROVE  SingleInv'
  <2>1. PICK c \in chosen[p] :
           breakers' = Put(c.Name, AfterRecord(Get(c.Name), now, success))
    BY <1>4 DEF Report
  <2>2. /\ pc[p] = "requesting" /\ chosen[p] = {c}
        /\ list' = list
        /\ pc'[p] = "idle" /\ chosen'[p] = {}
        /\ \A q \in Clients \ {p} : /\ pc'[q] = pc[q] /\ chosen'[q] = chosen[q]
                                     /\ available'[q] = available[q]
    BY <1>4, <2>1 DEF Report, RouteDecides, IInv, TypeOK
  <2>3. OneEach'
    BY <2>2 DEF OneEach
  <2>4. ASSUME NEW name \in Names PROVE ~Orphaned(name)'
    <3>1. CASE name = c.Name
      <4>1. /\ BreakerOK(Get(name), now)
            /\ Get(name).halfOpenInFlight = (Get(name).state = HalfOpen)
        BY GetOK DEF IInv
      <4>2. AfterRecord(Get(name), now, success).state \in {Closed, Open}
        BY <4>1, RecordEffect DEF IInv, TypeOK
      <4>3. breakers'[name] = AfterRecord(Get(name), now, success)
        BY <2>1, <3>1 DEF Put
      <4>. QED BY <4>2, <4>3 DEF Orphaned, Closed, Open, HalfOpen
    <3>2. CASE name # c.Name
      <4>1. /\ name \in DOMAIN breakers' <=> name \in DOMAIN breakers
            /\ name \in DOMAIN breakers => breakers'[name] = breakers[name]
        BY <2>1, <3>2 DEF Put
      <4>2. ~Holds(p, name)
        BY <2>2, <3>2 DEF Holds
      <4>3. \A q \in Clients \ {p} : Holds(q, name) => Holds(q, name)'
        BY <2>2 DEF Holds
      <4>. QED BY <4>1, <4>2, <4>3 DEF Orphaned, HalfOpenIsTested
    <3>. QED BY <3>1, <3>2
  <2>. QED BY <2>3, <2>4 DEF HalfOpenIsTested
<1>5. ASSUME NEW p \in Clients, GiveUp(p) PROVE SingleInv'
  BY <1>5 DEF GiveUp, OneEach, HalfOpenIsTested, Orphaned, Holds, IInv, TypeOK
<1>6. CASE Tick \/ UNCHANGED vars
  BY <1>6 DEF Tick, vars, OneEach, HalfOpenIsTested, Orphaned, Holds
<1>. QED BY <1>1, <1>2, <1>3, <1>4, <1>5, <1>6 DEF Next

(* The trial is lost only to a better candidate: when every call of Route  *)
(* has a single candidate, for any clients sharing them a half-open        *)
(* breaker is always being tested by a client that will report.            *)
THEOREM SingleCandidatesAreTested ==
    (\A l \in CandidateLists : Len(l) <= 1) => (Spec => []HalfOpenIsTested)
<1>. SUFFICES ASSUME \A l \in CandidateLists : Len(l) <= 1 PROVE Spec => []HalfOpenIsTested
  OBVIOUS
<1>1. Init => SingleInv
  BY DEF Init, SingleInv, OneEach, HalfOpenIsTested, Orphaned
<1>2. IInv /\ RouteDecides /\ SingleInv /\ [Next]_vars => SingleInv'
  BY NextSingle
<1>3. SingleInv => HalfOpenIsTested
  BY DEF SingleInv
<1>. QED BY <1>1, <1>2, <1>3, Inductive, RouteDecidesHolds, PTL DEF Spec

----------------------------------------------------------------------------
(***************************************************************************)
(* The failover bench.  RecoversInTime speaks of the end of a trial; the   *)
(* invariant follows it call by call: which failures the breaker of the    *)
(* broken candidate has counted, what Route therefore answers, and how     *)
(* much time has passed.                                                   *)
(***************************************************************************)

(* The calls of a trial whose outcome is reported.  Until it recovers all  *)
(* of them have failed.                                                    *)
Reported == IF stage \in {"routing", "ended"} THEN calls - 1 ELSE calls

(* What is let through, and what Route answers. *)
Through == IF Reported < MinRequests THEN {Broken} ELSE {}
Answer  == IF Reported < MinRequests THEN {Broken} ELSE {Healthy}

(* Where the client is in its loop. *)
InLoop(p) ==
    /\ stage \in {"loop", "backoff"} => pc[p] = "idle"
    /\ stage = "routing" =>
          \/ pc[p] = "asking" /\ list[p] = <<Broken, Healthy>> /\ available[p] = {}
          \/ pc[p] = "asking" /\ list[p] = <<Healthy>> /\ available[p] = Through
          \/ pc[p] = "asking" /\ list[p] = << >> /\ available[p] = Through \cup {Healthy}
          \/ pc[p] = "requesting" /\ chosen[p] = Answer
    /\ stage = "ended" => pc[p] = "requesting" /\ chosen[p] = Answer

(* At t the buckets are tallies of n failures, none older than first. *)
FailuresTallied(buckets, n, first, t) ==
    \E log \in Seq(LogEntry) :
        /\ Len(log) = n
        /\ \A i \in DOMAIN log : log[i].success = FALSE /\ log[i].at \in first..t
        /\ Tallied(buckets, log, (t - Window) \div BucketSize)

(* The healthy candidate's breaker stays closed, the other one's counts    *)
(* MinRequests failures and melts down for longer than a backoff.          *)
MeltsDown ==
    /\ Get(Healthy.Name).state = Closed
    /\ Reported \in 0..MinRequests
    /\ Reported < MinRequests => /\ Get(Broken.Name).state = Closed
                                 /\ FailuresTallied(Get(Broken.Name).buckets, Reported, start, now)
    /\ Reported = MinRequests =>
          /\ Get(Broken.Name).state = Open
          /\ stage = "backoff" => Get(Broken.Name).lastOpenTime = now
          /\ stage \in {"loop", "routing"} => now < Get(Broken.Name).lastOpenTime + Cooldown

(* n rounds of lo to hi units, and another d, have passed. *)
Passed(n, lo, hi, d) == now - start >= n * lo + d /\ now - start <= n * hi + d

OnTime(lo, hi) ==
    /\ stage \in {"loop", "routing"} => Passed(Reported, lo, hi, 0)
    /\ stage = "ended" =>
          \E d \in (IF Reported < MinRequests THEN BrokenTimes ELSE HealthyTimes) :
             Passed(Reported, lo, hi, d)
    /\ stage = "backoff" =>
          Reported > 0 /\ \E d \in BrokenTimes : Passed(Reported - 1, lo, hi, d)

BenchTypes == /\ stage \in {"loop", "routing", "ended", "backoff", "recovered"}
              /\ start \in StartTime..now

BenchInv(p, lo, hi) ==
    /\ IInv
    /\ BenchTypes
    /\ RecoversInTime
    /\ stage # "recovered" => InLoop(p) /\ MeltsDown /\ OnTime(lo, hi)

(* What the hypotheses say of one client p and rounds of lo to hi units. *)
Setting(p, lo, hi) ==
    /\ BenchConstants
    /\ Clients = {p}
    /\ ShortestRecovery \in Nat /\ LongestRecovery \in Nat
    /\ ThresholdNum <= ThresholdDen
    /\ \A k \in Backoffs : k < Cooldown
    /\ lo \in Nat /\ hi \in Nat
    /\ \A b \in BrokenTimes, k \in Backoffs : lo <= b + k /\ b + k <= hi
    /\ \A b \in BrokenTimes : b <= hi
    /\ MinRequests * hi <= Window - BucketSize
    /\ \A h \in HealthyTimes : /\ ShortestRecovery <= MinRequests * lo + h
                               /\ MinRequests * hi + h <= LongestRecovery

(* The two candidates: the broken one is cheaper, so Route prefers it. *)
LEMMA TheCandidates ==
    ASSUME BenchConstants
    PROVE  /\ Candidates = {Broken, Healthy} /\ Names = {1, 2}
           /\ Broken.Name = 1 /\ Healthy.Name = 2 /\ Broken # Healthy
           /\ Best({Broken, Healthy}) = {Broken} /\ Best({Healthy}) = {Healthy}
           /\ Head(<<Broken, Healthy>>) = Broken /\ Tail(<<Broken, Healthy>>) = <<Healthy>>
           /\ Head(<<Healthy>>) = Healthy /\ Tail(<<Healthy>>) = << >>
           /\ <<Broken, Healthy>> # << >> /\ <<Healthy>> # << >>
<1>1. Elements(<<Broken, Healthy>>) = {Broken, Healthy}
  <2>1. DOMAIN <<Broken, Healthy>> = {1, 2}
    OBVIOUS
  <2>. HIDE DEF Broken, Healthy
  <2>. QED BY <2>1 DEF Elements
<1>2. Candidates = {Broken, Healthy}
  BY <1>1 DEF BenchConstants, Candidates
<1>3. /\ Broken.Name = 1 /\ Healthy.Name = 2
      /\ Precedes(Broken, Healthy) /\ ~Precedes(Healthy, Broken)
  BY DEF Precedes, ScoreProduct, Price, EffectiveWeight, Broken, Healthy
<1>4. Broken # Healthy
  BY <1>3
<1>5. Best({Broken, Healthy}) = {Broken} /\ Best({Healthy}) = {Healthy}
  BY <1>3, <1>4 DEF Best
<1>. QED BY <1>2, <1>3, <1>4, <1>5 DEF Names

(* Failures stay tallied as time passes. *)
LEMMA TalliesLast ==
    ASSUME NEW buckets, NEW n, NEW first \in Nat, NEW t \in Nat, NEW later \in Nat, t <= later,
           FailuresTallied(buckets, n, first, t)
    PROVE  FailuresTallied(buckets, n, first, later)
<1>1. PICK log \in Seq(LogEntry) :
        /\ Len(log) = n
        /\ \A i \in DOMAIN log : log[i].success = FALSE /\ log[i].at \in first..t
        /\ Tallied(buckets, log, (t - Window) \div BucketSize)
  BY DEF FailuresTallied
<1>2. t - Window \in Int /\ later - Window \in Int /\ t - Window <= later - Window
  BY BreakerAssumption
<1>. DEFINE p == (t - Window) \div BucketSize
            q == (later - Window) \div BucketSize
<1>3. p \in Int /\ q \in Int /\ p <= q
  BY <1>2, DivBounds, DivMonotone
<1>4. Tallied(buckets, log, p)
  BY <1>1
<1>. HIDE DEF p, q
<1>5. Tallied(buckets, log, q)
  BY <1>3, <1>4, TalliedLater
<1>6. \A i \in DOMAIN log : log[i].success = FALSE /\ log[i].at \in first..later
  BY <1>1
<1>. QED BY <1>1, <1>5, <1>6 DEF FailuresTallied, q

(* A new breaker has counted none. *)
LEMMA NoFailures ==
    ASSUME NEW first, NEW t
    PROVE  FailuresTallied(NoBuckets, 0, first, t)
<1>1. << >> \in Seq(LogEntry) /\ Len(<< >>) = 0 /\ DOMAIN << >> = {}
  OBVIOUS
<1>. QED BY <1>1, NothingTallied DEF FailuresTallied

(* When no success has been counted and no failure is too old, the breaker *)
(* trips on the failure that makes MinRequests.                            *)
LEMMA FailureCounts ==
    ASSUME NEW b, NEW t \in Nat, BreakerOK(b, t), b.state = Closed, t >= Window,
           NEW first \in Nat, first <= t, t - first <= Window - BucketSize,
           NEW n \in Nat, n < MinRequests, ThresholdNum <= ThresholdDen,
           FailuresTallied(b.buckets, n, first, t)
    PROVE  LET after == AfterRecord(b, t, FALSE)
           IN  /\ n + 1 < MinRequests => /\ after.state = Closed
                                         /\ FailuresTallied(after.buckets, n + 1, first, t)
               /\ n + 1 = MinRequests => after.state = Open /\ after.lastOpenTime = t
<1>. DEFINE after == AfterRecord(b, t, FALSE)
            cut == CutAt(t)
            new == [at |-> t, success |-> FALSE]
            p == (t - Window) \div BucketSize
<1>1. PICK log \in Seq(LogEntry) :
        /\ Len(log) = n
        /\ \A i \in DOMAIN log : log[i].success = FALSE /\ log[i].at \in first..t
        /\ Tallied(b.buckets, log, p)
  BY DEF FailuresTallied
<1>. DEFINE log2 == Append(log, new)
<1>2. \A i \in DOMAIN log : log[i].at <= t
  BY <1>1
<1>3. /\ Tallied(after.buckets, log2, p)
      /\ IF RateTrips(Cardinality(Recent(log2, cut, TRUE)), Cardinality(Recent(log2, cut, FALSE)))
         THEN after.state = Open /\ after.lastOpenTime = t
         ELSE after.state = b.state
  BY <1>1, <1>2, RecordClosedTallies
<1>4. /\ log2 \in Seq(LogEntry) /\ Len(log2) = n + 1 /\ DOMAIN log2 = 1..(n + 1)
      /\ \A i \in DOMAIN log2 : log2[i].success = FALSE /\ log2[i].at \in first..t
  <2>1. new \in LogEntry /\ new.success = FALSE /\ new.at = t /\ t \in first..t
    BY DEF LogEntry
  <2>. HIDE DEF new
  <2>2. /\ DOMAIN log = 1..n
        /\ log2 \in Seq(LogEntry) /\ Len(log2) = n + 1 /\ DOMAIN log2 = 1..(n + 1)
        /\ \A i \in 1..n : log2[i] = log[i]
        /\ log2[n + 1] = new
    BY <1>1, <2>1, LenProperties
  <2>3. \A i \in 1..(n + 1) : i = n + 1 \/ i \in 1..n
    OBVIOUS
  <2>. HIDE DEF log2
  <2>. QED BY <1>1, <2>1, <2>2, <2>3
<1>. HIDE DEF after, log2
<1>5. cut \in Int /\ cut <= first
  <2>. HIDE DEF cut
  <2>1. cut \in (t - Window + 1)..(t - Window + BucketSize)
    BY CutFacts DEF cut
  <2>. QED BY <2>1, BreakerAssumption
<1>6. Recent(log2, cut, TRUE) = {} /\ Recent(log2, cut, FALSE) = 1..(n + 1)
  <2>. HIDE DEF cut
  <2>1. \A i \in DOMAIN log2 : log2[i].at >= cut /\ log2[i].success = FALSE
    BY <1>4, <1>5
  <2>2. (FALSE = TRUE) = FALSE
    OBVIOUS
  <2>. QED BY <1>4, <2>1, <2>2 DEF Recent
<1>7. Cardinality(Recent(log2, cut, TRUE)) = 0 /\ Cardinality(Recent(log2, cut, FALSE)) = n + 1
  <2>1. 1 \in Int /\ n + 1 \in Int /\ 1 <= n + 1
    OBVIOUS
  <2>2. Cardinality(1..(n + 1)) = (n + 1) - 1 + 1
    BY <2>1, FS_Interval
  <2>3. Cardinality(1..(n + 1)) = n + 1
    BY <2>2
  <2>. HIDE DEF cut
  <2>. QED BY <1>6, <2>3, FS_EmptySet
<1>8. RateTrips(0, n + 1) <=> n + 1 >= MinRequests
  <2>1. /\ ThresholdNum \in Nat /\ ThresholdDen \in Nat /\ MinRequests \in Nat
    BY BreakerAssumption
  <2>2. (n + 1) * ThresholdDen >= ThresholdNum * (0 + (n + 1))
    BY <2>1
  <2>. QED BY <2>2 DEF RateTrips
<1>9. IF n + 1 >= MinRequests THEN after.state = Open /\ after.lastOpenTime = t
                              ELSE after.state = Closed
  BY <1>3, <1>7, <1>8
<1>10. FailuresTallied(after.buckets, n + 1, first, t)
  BY <1>3, <1>4 DEF FailuresTallied
<1>11. /\ n + 1 < MinRequests => /\ after.state = Closed
                                  /\ FailuresTallied(after.buckets, n + 1, first, t)
       /\ n + 1 = MinRequests => after.state = Open /\ after.lastOpenTime = t
  <2>1. MinRequests \in Nat
    BY BreakerAssumption
  <2>. QED BY <1>9, <1>10, <2>1
<1>. QED BY <1>11 DEF after

LEMMA BenchInitInv ==
    ASSUME NEW p \in Clients, NEW lo, NEW hi, Setting(p, lo, hi), BenchInit
    PROVE  BenchInv(p, lo, hi)
<1>1. PICK offset \in 0..(BucketSize - 1) : now = StartTime + offset
  BY DEF BenchInit
<1>2. now \in Nat /\ now >= StartTime /\ StartTime \in Nat
  BY <1>1, BreakerAssumption DEF StartTime
<1>3. IInv
  BY <1>2, FreshIInv DEF BenchInit
<1>4. stage = "loop" /\ start = now /\ calls = 0 /\ Reported = 0 /\ pc[p] = "idle"
  BY DEF BenchInit, Reported
<1>5. BenchTypes /\ RecoversInTime /\ InLoop(p)
  BY <1>2, <1>4 DEF BenchTypes, RecoversInTime, InLoop
<1>6. \A n : Get(n) = NewCircuitBreaker
  BY DEF BenchInit, Get
<1>7. FailuresTallied(NewCircuitBreaker.buckets, 0, start, now)
  BY NoFailures DEF NewCircuitBreaker
<1>8. MeltsDown
  <2>1. 0 \in 0..MinRequests /\ 0 # MinRequests
    BY BreakerAssumption
  <2>2. NewCircuitBreaker.state = Closed
    BY DEF NewCircuitBreaker
  <2>. QED BY <1>4, <1>6, <1>7, <2>1, <2>2 DEF MeltsDown
<1>9. OnTime(lo, hi)
  BY <1>2, <1>4 DEF OnTime, Passed, Setting
<1>. QED BY <1>3, <1>5, <1>8, <1>9 DEF BenchInv

(* The breakers are what they were: so are those Get finds. *)
LEMMA SameBreakers ==
    ASSUME breakers' = breakers \/ \E name : breakers' = Put(name, Get(name))
    PROVE  \A n : Get(n)' = Get(n)
    BY DEF Get, Put

(* The loop calls Route. *)
LEMMA EnterInv ==
    ASSUME NEW p \in Clients, NEW lo, NEW hi, Setting(p, lo, hi), BenchInv(p, lo, hi), Enter(p)
    PROVE  BenchInv(p, lo, hi)'
<1>1. /\ stage = "loop" /\ stage' = "routing" /\ start' = start /\ Call(p)
      /\ calls' = calls + 1 /\ now' = now /\ breakers' = breakers
      /\ pc' = [pc EXCEPT ![p] = "asking"]
      /\ available' = [available EXCEPT ![p] = {}]
  BY DEF Enter, Call
<1>2. IInv' /\ BenchTypes'
  BY <1>1, CallIInv DEF BenchInv, BenchTypes
<1>3. calls \in Nat /\ Reported = calls /\ Reported' = Reported
  BY <1>1, RouterAssumption DEF BenchInv, IInv, TypeOK, Reported
<1>4. list' = [list EXCEPT ![p] = <<Broken, Healthy>>]
  BY <1>1 DEF Call, Setting, BenchConstants
<1>5. InLoop(p)'
  BY <1>1, <1>4 DEF InLoop, BenchInv, IInv, TypeOK
<1>6. MeltsDown'
  <2>1. \A n : Get(n)' = Get(n)
    BY <1>1, SameBreakers
  <2>2. MeltsDown
    BY <1>1 DEF BenchInv
  <2>. QED BY <1>1, <1>3, <2>1, <2>2 DEF MeltsDown
<1>7. OnTime(lo, hi)'
  <2>1. OnTime(lo, hi)
    BY <1>1 DEF BenchInv
  <2>. QED BY <1>1, <1>3, <2>1 DEF OnTime, Passed
<1>. QED BY <1>1, <1>2, <1>5, <1>6, <1>7 DEF BenchInv, RecoversInTime

(* Route asks, and returns. *)
LEMMA RoutingInv ==
    ASSUME NEW p \in Clients, NEW lo, NEW hi, Setting(p, lo, hi), BenchInv(p, lo, hi), Routing(p)
    PROVE  BenchInv(p, lo, hi)'
<1>1. /\ stage = "routing" /\ stage' = stage /\ start' = start
      /\ now' = now /\ calls' = calls
      /\ Ask(p) \/ Return(p)
  BY DEF Routing, Ask, Return
<1>2. IInv' /\ BenchTypes'
  BY <1>1, AskIInv, ReturnIInv DEF BenchInv, BenchTypes
<1>3. /\ IInv /\ InLoop(p) /\ MeltsDown /\ OnTime(lo, hi)
      /\ Reported' = Reported /\ Through' = Through /\ Answer' = Answer
  BY <1>1 DEF BenchInv, Reported, Through, Answer
<1>4. /\ Reported \in Nat /\ MinRequests \in Nat
      /\ Get(Broken.Name).lastOpenTime \in Nat /\ now \in Nat /\ Cooldown \in Nat
  <2>1. BreakerOK(Get(Broken.Name), now)
    BY <1>3, GetOK DEF IInv
  <2>. QED BY <1>3, <2>1, BreakerAssumption DEF MeltsDown, IInv, TypeOK, BreakerOK
<1>5. ASSUME NEW c, list[p] # << >>, c = Head(list[p]), Ask(p), c \in {Broken, Healthy}
      PROVE  /\ \A n : Get(n)' = Get(n)
             /\ pc' = pc /\ list'[p] = Tail(list[p])
             /\ available'[p] = IF c = Broken /\ Reported = MinRequests
                                THEN available[p] ELSE available[p] \cup {c}
  <2>1. Broken # Healthy
    BY TheCandidates DEF Setting
  <2>2. CanAllow(Get(c.Name), now) <=> ~(c = Broken /\ Reported = MinRequests)
    BY <1>1, <1>3, <1>4, <1>5, <2>1 DEF MeltsDown, CanAllow, Closed, Open, HalfOpen
  <2>3. CanAllow(Get(c.Name), now) => AfterAllow(Get(c.Name), now) = Get(c.Name)
    BY <1>1, <1>3, <1>4, <1>5, <2>1, <2>2 DEF MeltsDown, AfterAllow, Closed, Open, HalfOpen
  <2>4. breakers' = Put(c.Name, Get(c.Name))
    BY <1>5, <2>3 DEF Ask
  <2>5. \A n : Get(n)' = Get(n)
    BY <2>4, SameBreakers
  <2>6. /\ pc' = pc /\ list'[p] = Tail(list[p])
        /\ available'[p] = IF CanAllow(Get(c.Name), now)
                           THEN available[p] \cup {c} ELSE available[p]
    BY <1>3, <1>5 DEF Ask, IInv, TypeOK
  <2>. QED BY <2>2, <2>5, <2>6
<1>6. ASSUME Ask(p) PROVE InLoop(p)' /\ \A n : Get(n)' = Get(n)
  <2>1. pc[p] = "asking" /\ list[p] # << >>
    BY <1>6 DEF Ask
  <2>2. CASE list[p] = <<Broken, Healthy>> /\ available[p] = {}
    <3>1. Head(list[p]) = Broken /\ Tail(list[p]) = <<Healthy>>
      BY <2>2, TheCandidates DEF Setting
    <3>2. available'[p] = Through
      <4>1. available'[p] = IF Reported = MinRequests THEN {} ELSE {Broken}
        BY <1>5, <1>6, <2>1, <2>2, <3>1
      <4>2. Reported \in 0..MinRequests
        BY <1>3 DEF MeltsDown
      <4>3. Reported = MinRequests <=> ~(Reported < MinRequests)
        BY <1>4, <4>2
      <4>. QED BY <4>1, <4>3 DEF Through
    <3>. QED BY <1>1, <1>3, <1>5, <1>6, <2>1, <3>1, <3>2 DEF InLoop
  <2>3. CASE list[p] = <<Healthy>> /\ available[p] = Through
    <3>1. Head(list[p]) = Healthy /\ Tail(list[p]) = << >> /\ Broken # Healthy
      BY <2>3, TheCandidates DEF Setting
    <3>2. available'[p] = Through \cup {Healthy}
      BY <1>5, <1>6, <2>1, <2>3, <3>1
    <3>. QED BY <1>1, <1>3, <1>5, <1>6, <2>1, <3>1, <3>2 DEF InLoop
  <2>. QED BY <1>1, <1>3, <2>1, <2>2, <2>3 DEF InLoop
<1>7. ASSUME Return(p) PROVE InLoop(p)' /\ \A n : Get(n)' = Get(n)
  <2>1. pc[p] = "asking" /\ list[p] = << >> /\ breakers' = breakers
    BY <1>7 DEF Return
  <2>2. available[p] = Through \cup {Healthy}
    BY <1>1, <1>3, <2>1, TheCandidates DEF InLoop, Setting
  <2>3. pc'[p] = "requesting" /\ chosen'[p] = Best(Through \cup {Healthy})
    BY <1>3, <1>7, <2>2 DEF Return, IInv, TypeOK
  <2>4. Best(Through \cup {Healthy}) = Answer
    BY TheCandidates DEF Setting, Through, Answer
  <2>. QED BY <1>1, <1>3, <2>1, <2>3, <2>4, SameBreakers DEF InLoop
<1>8. InLoop(p)' /\ \A n : Get(n)' = Get(n)
  BY <1>1, <1>6, <1>7
<1>9. MeltsDown' /\ OnTime(lo, hi)'
  BY <1>1, <1>3, <1>8 DEF MeltsDown, OnTime, Passed
<1>. QED BY <1>1, <1>2, <1>8, <1>9 DEF BenchInv, RecoversInTime

(* The request runs its time. *)
LEMMA RequestInv ==
    ASSUME NEW p \in Clients, NEW lo, NEW hi, Setting(p, lo, hi), BenchInv(p, lo, hi), Request(p)
    PROVE  BenchInv(p, lo, hi)'
<1>1. /\ stage = "routing" /\ stage' = "ended" /\ start' = start
      /\ pc[p] = "requesting"
      /\ UNCHANGED <<breakers, pc, list, available, chosen, calls, steady>>
  BY DEF Request
<1>2. /\ IInv /\ BenchTypes /\ InLoop(p) /\ MeltsDown /\ OnTime(lo, hi)
      /\ Reported' = Reported /\ Answer' = Answer /\ chosen[p] = Answer
  BY <1>1 DEF BenchInv, Reported, Answer, InLoop
<1>3. /\ now \in Nat /\ start \in Nat /\ start <= now
      /\ Reported \in 0..MinRequests /\ MinRequests \in Nat /\ lo \in Nat /\ hi \in Nat
  BY <1>2, BreakerAssumption DEF IInv, TypeOK, BenchTypes, StartTime, MeltsDown, Setting
<1>4. PICK d \in (IF Reported < MinRequests THEN BrokenTimes ELSE HealthyTimes) : now' = now + d
  <2>1. Broken # Healthy
    BY TheCandidates DEF Setting
  <2>2. \/ chosen[p] = {Broken}  /\ \E d \in BrokenTimes : now' = now + d
        \/ chosen[p] = {Healthy} /\ \E d \in HealthyTimes : now' = now + d
    BY DEF Request, Advance
  <2>. QED BY <1>2, <2>1, <2>2 DEF Answer
<1>5. d \in Nat
  BY <1>4 DEF Setting, BenchConstants
<1>6. now' \in Nat /\ now <= now'
  BY <1>3, <1>4, <1>5
<1>7. IInv' /\ BenchTypes'
  <2>1. IInv'
    BY <1>1, <1>2, <1>6, LaterIInv
  <2>. QED BY <1>1, <1>2, <1>3, <1>6, <2>1, BreakerAssumption DEF BenchTypes, StartTime
<1>8. InLoop(p)'
  BY <1>1, <1>2 DEF InLoop
<1>9. MeltsDown'
  <2>1. \A n : Get(n)' = Get(n)
    BY <1>1, SameBreakers
  <2>2. ASSUME Reported < MinRequests
        PROVE  FailuresTallied(Get(Broken.Name).buckets, Reported, start, now')
    <3>1. FailuresTallied(Get(Broken.Name).buckets, Reported, start, now)
      BY <1>2, <2>2 DEF MeltsDown
    <3>. QED BY <1>3, <1>6, <3>1, TalliesLast
  <2>. QED BY <1>1, <1>2, <2>1, <2>2 DEF MeltsDown
<1>10. OnTime(lo, hi)'
  <2>. DEFINE n == Reported
  <2>1. now - start >= n * lo + 0 /\ now - start <= n * hi + 0
    BY <1>1, <1>2 DEF OnTime, Passed
  <2>2. n * lo \in Nat /\ n * hi \in Nat
    BY <1>3
  <2>. HIDE DEF n
  <2>3. now' - start >= n * lo + d /\ now' - start <= n * hi + d
    BY <1>3, <1>4, <1>5, <2>1, <2>2
  <2>4. (Passed(Reported, lo, hi, d))'
    BY <1>1, <1>2, <2>3 DEF Passed, n
  <2>. QED BY <1>1, <1>2, <1>4, <2>4 DEF OnTime
<1>. QED BY <1>1, <1>7, <1>8, <1>9, <1>10 DEF BenchInv, RecoversInTime

(* The outcome is reported: one failure more, or the end of the trial. *)
LEMMA OutcomeInv ==
    ASSUME NEW p \in Clients, NEW lo, NEW hi, Setting(p, lo, hi), BenchInv(p, lo, hi), Outcome(p)
    PROVE  BenchInv(p, lo, hi)'
<1>. DEFINE healthy == chosen[p] = {Healthy}
            n == Reported
<1>1. /\ stage = "ended" /\ start' = start
      /\ Report(p, healthy)
      /\ stage' = IF healthy THEN "recovered" ELSE "backoff"
      /\ now' = now /\ calls' = calls
      /\ pc' = [pc EXCEPT ![p] = "idle"]
  BY DEF Outcome, Report
<1>2. /\ IInv /\ BenchTypes /\ MeltsDown /\ OnTime(lo, hi)
      /\ chosen[p] = Answer
  BY <1>1 DEF BenchInv, InLoop
<1>3. /\ now \in Nat /\ start \in Nat /\ start <= now /\ now >= Window
      /\ n \in 0..MinRequests /\ MinRequests \in Nat /\ lo \in Nat /\ hi \in Nat
      /\ calls = n + 1
  <2>1. calls \in Nat /\ StartTime \in Nat /\ StartTime >= Window
    BY <1>2, BreakerAssumption, RouterAssumption DEF IInv, TypeOK, StartTime
  <2>. QED BY <1>1, <1>2, <2>1, BreakerAssumption
           DEF IInv, TypeOK, BenchTypes, MeltsDown, Setting, Reported
<1>4. IInv' /\ BenchTypes'
  <2>1. healthy \in BOOLEAN
    OBVIOUS
  <2>. HIDE DEF healthy
  <2>2. IInv'
    BY <1>1, <1>2, <2>1, ReportIInv
  <2>. QED BY <1>1, <1>2, <2>2 DEF BenchTypes
<1>5. healthy <=> n = MinRequests
  <2>1. Broken # Healthy
    BY TheCandidates DEF Setting
  <2>. QED BY <1>2, <1>3, <2>1 DEF Answer
<1>6. PICK d \in (IF n < MinRequests THEN BrokenTimes ELSE HealthyTimes) : Passed(n, lo, hi, d)
  BY <1>1, <1>2 DEF OnTime
<1>7. d \in Nat
  BY <1>6 DEF Setting, BenchConstants
<1>8. CASE n = MinRequests
  <2>1. stage' = "recovered"
    BY <1>1, <1>5, <1>8
  <2>2. now - start >= MinRequests * lo + d /\ now - start <= MinRequests * hi + d
    BY <1>6, <1>8 DEF Passed
  <2>3. ShortestRecovery <= MinRequests * lo + d /\ MinRequests * hi + d <= LongestRecovery
    BY <1>6, <1>8, <1>3 DEF Setting
  <2>4. MinRequests * lo \in Nat /\ MinRequests * hi \in Nat
    BY <1>3
  <2>5. now - start \in ShortestRecovery..LongestRecovery
    BY <1>3, <1>7, <2>2, <2>3, <2>4 DEF Setting
  <2>6. RecoversInTime'
    BY <1>1, <1>3, <1>8, <2>5 DEF RecoversInTime
  <2>. QED BY <1>4, <2>1, <2>6 DEF BenchInv
<1>9. CASE n < MinRequests
  <2>. DEFINE b == Get(Broken.Name)
              after == AfterRecord(b, now, FALSE)
  <2>1. /\ stage' = "backoff" /\ chosen[p] = {Broken} /\ Report(p, FALSE)
        /\ d \in BrokenTimes
    <3>1. healthy = FALSE
      BY <1>3, <1>5, <1>9
    <3>2. chosen[p] = {Broken}
      BY <1>2, <1>9 DEF Answer
    <3>. HIDE DEF healthy
    <3>. QED BY <1>1, <1>6, <1>9, <3>1, <3>2
  <2>2. /\ Get(Broken.Name)' = after
        /\ Get(Healthy.Name)' = Get(Healthy.Name)
    <3>1. breakers' = Put(Broken.Name, after)
      BY <2>1 DEF Report
    <3>2. Broken.Name # Healthy.Name
      BY TheCandidates DEF Setting
    <3>. HIDE DEF after
    <3>. QED BY <3>1, <3>2 DEF Get, Put
  <2>3. n + 1 <= MinRequests /\ Reported' = n + 1
    BY <1>1, <1>3, <1>9, <2>1 DEF Reported
  <2>4. now - start <= Window - BucketSize
    <3>1. d <= hi
      BY <2>1 DEF Setting
    <3>2. now - start <= n * hi + d
      BY <1>6 DEF Passed
    <3>. HIDE DEF n
    <3>3. n * hi + hi = (n + 1) * hi /\ (n + 1) * hi <= MinRequests * hi
      BY <1>3, <2>3
    <3>4. MinRequests * hi <= Window - BucketSize
      BY DEF Setting
    <3>5. n * hi \in Nat /\ MinRequests * hi \in Nat /\ (n + 1) * hi \in Nat
      BY <1>3
    <3>. QED BY <1>3, <1>7, <3>1, <3>2, <3>3, <3>4, <3>5, BreakerAssumption
  <2>5. /\ n + 1 < MinRequests => /\ after.state = Closed
                                  /\ FailuresTallied(after.buckets, n + 1, start, now)
        /\ n + 1 = MinRequests => after.state = Open /\ after.lastOpenTime = now
    <3>1. BreakerOK(b, now)
      BY <1>2, GetOK DEF IInv
    <3>2. b.state = Closed /\ FailuresTallied(b.buckets, n, start, now)
      BY <1>2, <1>9 DEF MeltsDown
    <3>3. ThresholdNum <= ThresholdDen
      BY DEF Setting
    <3>. HIDE DEF b, n
    <3>4. n \in Nat
      BY <1>3
    <3>. QED BY <1>3, <1>9, <2>4, <3>1, <3>2, <3>3, <3>4, FailureCounts
  <2>. HIDE DEF after, b, n
  <2>6. MeltsDown'
    <3>1. Get(Healthy.Name).state = Closed
      BY <1>2 DEF MeltsDown
    <3>2. n + 1 \in 0..MinRequests
      BY <1>3, <2>3
    <3>. QED BY <1>1, <2>1, <2>2, <2>3, <2>5, <3>1, <3>2 DEF MeltsDown
  <2>7. OnTime(lo, hi)'
    <3>1. n + 1 > 0 /\ (n + 1) - 1 = n
      BY <1>3
    <3>2. now - start >= n * lo + d /\ now - start <= n * hi + d
      BY <1>6 DEF Passed
    <3>3. (Passed(Reported - 1, lo, hi, d))'
      BY <1>1, <2>3, <3>1, <3>2 DEF Passed
    <3>. QED BY <2>1, <2>3, <3>1, <3>3 DEF OnTime
  <2>8. InLoop(p)'
    BY <1>1, <1>2, <2>1 DEF InLoop, IInv, TypeOK
  <2>. QED BY <1>4, <2>1, <2>6, <2>7, <2>8 DEF BenchInv, RecoversInTime
<1>. QED BY <1>3, <1>8, <1>9

(* The loop backs off. *)
LEMMA BackOffInv ==
    ASSUME NEW p \in Clients, NEW lo, NEW hi, Setting(p, lo, hi), BenchInv(p, lo, hi), BackOff
    PROVE  BenchInv(p, lo, hi)'
<1>. DEFINE n == Reported
<1>1. /\ stage = "backoff" /\ stage' = "loop" /\ start' = start
      /\ UNCHANGED <<breakers, pc, list, available, chosen, calls, steady>>
  BY DEF BackOff
<1>2. /\ IInv /\ BenchTypes /\ InLoop(p) /\ MeltsDown /\ OnTime(lo, hi)
      /\ Reported' = n
  BY <1>1 DEF BenchInv, Reported
<1>3. /\ now \in Nat /\ start \in Nat /\ start <= now
      /\ n \in 0..MinRequests /\ MinRequests \in Nat /\ lo \in Nat /\ hi \in Nat
  BY <1>2, BreakerAssumption DEF IInv, TypeOK, BenchTypes, StartTime, MeltsDown, Setting
<1>4. PICK k \in Backoffs : now' = now + k
  BY DEF BackOff, Advance
<1>5. k \in Nat /\ k < Cooldown
  BY <1>4 DEF Setting, BenchConstants
<1>6. now' \in Nat /\ now <= now'
  BY <1>3, <1>4, <1>5
<1>7. IInv' /\ BenchTypes'
  <2>1. IInv'
    BY <1>1, <1>2, <1>6, LaterIInv
  <2>. QED BY <1>1, <1>2, <1>3, <1>6, <2>1, BreakerAssumption DEF BenchTypes, StartTime
<1>8. InLoop(p)'
  BY <1>1, <1>2 DEF InLoop
<1>9. MeltsDown'
  <2>1. \A m : Get(m)' = Get(m)
    BY <1>1, SameBreakers
  <2>2. ASSUME n < MinRequests
        PROVE  FailuresTallied(Get(Broken.Name).buckets, n, start, now')
    <3>1. FailuresTallied(Get(Broken.Name).buckets, n, start, now)
      BY <1>2, <2>2 DEF MeltsDown
    <3>. QED BY <1>3, <1>6, <3>1, TalliesLast
  <2>3. ASSUME n = MinRequests PROVE now' < Get(Broken.Name).lastOpenTime + Cooldown
    <3>1. Get(Broken.Name).lastOpenTime = now
      BY <1>1, <1>2, <2>3 DEF MeltsDown
    <3>. QED BY <1>3, <1>4, <1>5, <3>1, BreakerAssumption
  <2>. QED BY <1>1, <1>2, <2>1, <2>2, <2>3 DEF MeltsDown
<1>10. OnTime(lo, hi)'
  <2>1. PICK d \in BrokenTimes : n > 0 /\ Passed(n - 1, lo, hi, d)
    BY <1>1, <1>2 DEF OnTime
  <2>2. /\ d \in Nat /\ lo <= d + k /\ d + k <= hi
        /\ now - start >= (n - 1) * lo + d /\ now - start <= (n - 1) * hi + d
    BY <1>4, <2>1 DEF Setting, BenchConstants, Passed
  <2>. HIDE DEF n
  <2>3. /\ (n - 1) * lo + lo = n * lo /\ (n - 1) * hi + hi = n * hi
        /\ (n - 1) * lo \in Int /\ (n - 1) * hi \in Int /\ n * lo \in Int /\ n * hi \in Int
    BY <1>3
  <2>4. now' - start >= n * lo + 0 /\ now' - start <= n * hi + 0
    BY <1>3, <1>4, <1>5, <2>2, <2>3
  <2>5. (Passed(Reported, lo, hi, 0))'
    BY <1>1, <1>2, <2>4 DEF Passed
  <2>. QED BY <1>1, <2>5 DEF OnTime
<1>. QED BY <1>1, <1>7, <1>8, <1>9, <1>10 DEF BenchInv, RecoversInTime

(* Fast failover, for any durations that fit the breaker: wherever the     *)
(* trial starts in a bucket and however long its requests and backoffs     *)
(* take, the router leaves the broken candidate after exactly MinRequests  *)
(* failures, and has recovered within the promised time.                   *)
THEOREM RecoversInTimeHolds == BenchConstants /\ RecoveryFits => (BenchSpec => []RecoversInTime)
<1>. SUFFICES ASSUME BenchConstants, RecoveryFits PROVE BenchSpec => []RecoversInTime
  OBVIOUS
<1>1. PICK p \in Clients : Clients = {p}
  BY DEF BenchConstants
<1>2. PICK lo \in Rounds, hi \in Rounds :
        /\ Rounds \subseteq lo..hi
        /\ MinRequests * hi <= Window - BucketSize
        /\ \A h \in HealthyTimes : /\ ShortestRecovery <= MinRequests * lo + h
                                   /\ MinRequests * hi + h <= LongestRecovery
  BY DEF RecoveryFits
<1>3. Setting(p, lo, hi)
  <2>1. /\ \A b \in BrokenTimes : b \in Nat
        /\ \A k \in Backoffs : k \in Nat
    BY DEF BenchConstants
  <2>2. lo \in Nat /\ hi \in Nat
    BY <1>2, <2>1 DEF Rounds
  <2>3. \A b \in BrokenTimes, k \in Backoffs : b + k \in Rounds /\ lo <= b + k /\ b + k <= hi
    BY <1>2, <2>1, <2>2 DEF Rounds
  <2>4. \E k \in Backoffs : TRUE
    BY <1>2 DEF Rounds
  <2>5. \A b \in BrokenTimes : b <= hi
    BY <2>1, <2>2, <2>3, <2>4
  <2>. QED BY <1>1, <1>2, <2>2, <2>3, <2>5 DEF Setting, RecoveryFits
<1>. DEFINE Inv == BenchInv(p, lo, hi)
<1>4. BenchInit => Inv
  BY <1>3, BenchInitInv
<1>5. ASSUME Inv, [BenchNext]_benchVars PROVE Inv'
  <2>1. ASSUME NEW q \in Clients, Enter(q) \/ Routing(q) \/ Request(q) \/ Outcome(q) PROVE Inv'
    <3>1. q = p
      BY <1>1
    <3>. QED BY <1>3, <1>5, <2>1, <3>1, EnterInv, RoutingInv, RequestInv, OutcomeInv
  <2>2. CASE BackOff
    BY <1>3, <1>5, <2>2, BackOffInv
  <2>3. CASE UNCHANGED benchVars
    <3>1. /\ UNCHANGED <<now, breakers, pc, list, available, chosen, calls, steady>>
          /\ UNCHANGED <<stage, start>>
      BY <2>3 DEF benchVars, vars
    <3>2. UNCHANGED vars
      BY <3>1 DEF vars
    <3>3. IInv'
      BY <1>5, <3>2, NextIInv DEF BenchInv
    <3>4. \A n : Get(n)' = Get(n)
      BY <3>1, SameBreakers
    <3>5. BenchTypes' /\ RecoversInTime'
      BY <1>5, <3>1 DEF BenchInv, BenchTypes, RecoversInTime
    <3>6. /\ Reported' = Reported /\ Through' = Through /\ Answer' = Answer
      BY <3>1 DEF Reported, Through, Answer
    <3>7. ASSUME stage # "recovered" PROVE InLoop(p)' /\ MeltsDown' /\ OnTime(lo, hi)'
      BY <1>5, <3>1, <3>4, <3>6, <3>7 DEF BenchInv, InLoop, MeltsDown, OnTime, Passed
    <3>. QED BY <3>1, <3>3, <3>5, <3>7 DEF BenchInv
  <2>. QED BY <1>5, <2>1, <2>2, <2>3 DEF BenchNext
<1>6. Inv => RecoversInTime
  BY DEF BenchInv
<1>. HIDE DEF Inv
<1>. QED BY <1>4, <1>5, <1>6, PTL DEF BenchSpec
=============================================================================
