------------------------------- MODULE Router -------------------------------
(***************************************************************************)
(* relay/internal/router/router.go: a Router shared by client goroutines.  *)
(* A client calls Route with a list of candidates, makes its request to    *)
(* the one returned, and reports the outcome, as cmd/bench/main.go does.   *)
(*                                                                         *)
(* Route holds no lock over its loop: it asks one candidate's breaker      *)
(* after the other, and other clients' questions and reports, and the      *)
(* clock, come between.  getBreaker and the Allow that follows it are one  *)
(* step here: every access to a breaker goes through getBreaker, so a      *)
(* breaker not created yet and a new one cannot be told apart.             *)
(***************************************************************************)
EXTENDS Breaker, FiniteSets, Sequences

CONSTANTS Clients,         \* the goroutines that route
          CandidateLists,  \* the lists they route over: sequences of candidates
          MaxTime,         \* bound: the modelled clock stops here
          MaxCalls         \* bound: calls of Route

(* A Candidate's Name is a number, ordered as its string is.  CostPer1K    *)
(* and Weight are in hundredths.  Provider plays no part in Route.         *)
Candidate == [Name : Nat, CostPer1K : Nat, P50Millis : Nat, Weight : Int]

Elements(list) == {list[i] : i \in DOMAIN list}
Candidates     == UNION {Elements(list) : list \in CandidateLists}
Names          == {c.Name : c \in Candidates}

ASSUME RouterAssumption ==
    /\ CandidateLists \subseteq Seq(Candidate)
    /\ \A c, d \in Candidates : c.Name = d.Name => c = d
    /\ MaxTime \in Nat
    /\ MaxCalls \in Nat

VARIABLES
    now,        \* the clock of the router and of its breakers
    breakers,   \* Router.breakers: a breaker per name asked for so far
    pc,         \* per client: "idle", "asking", "requesting" or "failed"
    list,       \* per client: the candidates of its call, not asked yet
    available,  \* per client: the candidates of its call allowed so far
    chosen,     \* per client: the candidates Route returned, one or none
    calls,      \* how often Route was called (for MaxCalls)
    steady      \* history, per client: the candidates of its call whose
                \* breaker has been closed ever since the call began

vars == <<now, breakers, pc, list, available, chosen, calls, steady>>

----------------------------------------------------------------------------
(* Score: (CostPer1K*10 + P50Millis/100) / Weight, a weight that is not    *)
(* positive counting as 0.01.  Scores are compared, lower first, by        *)
(* cross-multiplication and then by name.                                  *)

EffectiveWeight(c) == IF c.Weight <= 0 THEN 1 ELSE c.Weight
Price(c)           == 10 * c.CostPer1K + c.P50Millis
ScoreProduct(c, d) == Price(c) * EffectiveWeight(d)

PrecedesByScore(c, d) == ScoreProduct(c, d) < ScoreProduct(d, c)  \* mutant

Precedes(c, d) ==
    \/ ScoreProduct(c, d) < ScoreProduct(d, c)
    \/ ScoreProduct(c, d) = ScoreProduct(d, c) /\ c.Name < d.Name

BestByPrice(cs) == {c \in cs : \A d \in cs \ {c} : Price(c) < Price(d)}  \* mutant

(* The head of the sorted available candidates, if there is one. *)
Best(cs) == {c \in cs : \A d \in cs \ {c} : Precedes(c, d)}

----------------------------------------------------------------------------

(* getBreaker. *)
Get(name) == IF name \in DOMAIN breakers THEN breakers[name] ELSE NewCircuitBreaker

(* The breakers after that of the name has become b. *)
Put(name, b) == [n \in DOMAIN breakers \cup {name} |->
                    IF n = name THEN b ELSE breakers[n]]

IsClosed(name, bs) == name \in DOMAIN bs => bs[name].state = Closed

(* Keeps the history in step with the breakers: a candidate stays steady   *)
(* while its breaker is closed.                                            *)
Observe == steady' = [p \in Clients |-> {c \in steady[p] : IsClosed(c.Name, breakers')}]

Init == /\ now = StartTime
        /\ breakers = [n \in {} |-> NewCircuitBreaker]
        /\ pc = [p \in Clients |-> "idle"]
        /\ list = [p \in Clients |-> << >>]
        /\ available = [p \in Clients |-> {}]
        /\ chosen = [p \in Clients |-> {}]
        /\ calls = 0
        /\ steady = [p \in Clients |-> {}]

(* A client enters Route. *)
Call(p) ==
    /\ pc[p] = "idle"
    /\ calls < MaxCalls
    /\ calls' = calls + 1
    /\ \E l \in CandidateLists :
         /\ list' = [list EXCEPT ![p] = l]
         /\ steady' = [steady EXCEPT ![p] =
                         {c \in Elements(l) : IsClosed(c.Name, breakers)}]
    /\ pc' = [pc EXCEPT ![p] = "asking"]
    /\ available' = [available EXCEPT ![p] = {}]
    /\ UNCHANGED <<now, breakers, chosen>>

(* One turn of Route's loop: the next candidate's breaker is found or      *)
(* created, and asked.                                                     *)
Ask(p) ==
    /\ pc[p] = "asking"
    /\ list[p] # << >>
    /\ LET c == Head(list[p])
           b == Get(c.Name)
       IN  IF CanAllow(b, now)
           THEN /\ breakers' = Put(c.Name, AfterAllow(b, now))
                /\ available' = [available EXCEPT ![p] = @ \cup {c}]
           ELSE /\ breakers' = Put(c.Name, b)
                /\ UNCHANGED available
    /\ list' = [list EXCEPT ![p] = Tail(@)]
    /\ Observe
    /\ UNCHANGED <<now, pc, chosen, calls>>

(* Route returns: the best candidate that was allowed, or an error when    *)
(* none was, or when the list was empty.                                   *)
Return(p) ==
    /\ pc[p] = "asking"
    /\ list[p] = << >>
    /\ chosen' = [chosen EXCEPT ![p] = Best(available[p])]
    /\ pc' = [pc EXCEPT ![p] = IF available[p] = {} THEN "failed" ELSE "requesting"]
    /\ UNCHANGED <<now, breakers, list, available, calls, steady>>

(* ReportSuccess or ReportFailure: the request to the chosen candidate has *)
(* ended.                                                                  *)
Report(p, success) ==
    /\ pc[p] = "requesting"
    /\ \E c \in chosen[p] :
          breakers' = Put(c.Name, AfterRecord(Get(c.Name), now, success))
    /\ pc' = [pc EXCEPT ![p] = "idle"]
    /\ chosen' = [chosen EXCEPT ![p] = {}]
    /\ available' = [available EXCEPT ![p] = {}]
    /\ Observe
    /\ UNCHANGED <<now, list, calls>>

(* A client whose call failed has nothing to report. *)
GiveUp(p) ==
    /\ pc[p] = "failed"
    /\ pc' = [pc EXCEPT ![p] = "idle"]
    /\ UNCHANGED <<now, breakers, list, available, chosen, calls, steady>>

Tick == /\ now < MaxTime
        /\ now' = now + 1
        /\ UNCHANGED <<breakers, pc, list, available, chosen, calls, steady>>

Next == \/ \E p \in Clients : \/ Call(p) \/ Ask(p) \/ Return(p) \/ GiveUp(p)
                              \/ \E success \in BOOLEAN : Report(p, success)
        \/ Tick

Spec == Init /\ [][Next]_vars

----------------------------------------------------------------------------
(* Type invariant: breakers exist only for known names, all well formed.   *)
TypeOK ==
    /\ now \in Nat
    /\ now >= StartTime
    /\ DOMAIN breakers \subseteq Names
    /\ \A n \in DOMAIN breakers : BreakerOK(breakers[n], now)
    /\ pc \in [Clients -> {"idle", "asking", "requesting", "failed"}]
    /\ list \in [Clients -> Seq(Candidates)]
    /\ available \in [Clients -> SUBSET Candidates]
    /\ chosen \in [Clients -> SUBSET Candidates]
    /\ steady \in [Clients -> SUBSET Candidates]
    /\ calls \in 0..MaxCalls

(* Failover keeps the best: whatever other clients ask and report while    *)
(* Route is in its loop, when it returns no candidate that was closed all  *)
(* along is passed over for a worse one, and "all candidates are melted    *)
(* down" is never said while one was.                                      *)
FailoverKeepsBest ==
    \A p \in Clients :
        /\ pc[p] = "failed" => steady[p] = {}
        /\ pc[p] = "requesting" =>
              \A c \in chosen[p], d \in steady[p] : ~Precedes(d, c)

(* The order by score and then by name leaves no draw: when some candidate *)
(* was allowed, Route returns one, whichever were allowed.                 *)
RouteDecides ==
    \A p \in Clients : pc[p] = "requesting" => \E c \in Candidates : chosen[p] = {c}

(* The client has been let through to the named candidate and may still    *)
(* report on it.                                                           *)
Holds(p, name) ==
    \E c \in (IF pc[p] = "asking" THEN available[p] ELSE chosen[p]) : c.Name = name

(* A breaker that waits for the outcome of a trial nobody is making.       *)
Orphaned(name) ==
    /\ name \in DOMAIN breakers
    /\ breakers[name].state = HalfOpen
    /\ \A p \in Clients : ~Holds(p, name)

(* "StateHalfOpen allows a single test request": a half-open candidate is  *)
(* being tested by the client its breaker let through.                     *)
HalfOpenIsTested == \A name \in Names : ~Orphaned(name)

(* Nothing repairs an orphaned breaker: once its trial has been given to a *)
(* call of Route that chose another candidate, it refuses every later      *)
(* call, however long its cooldown is over.                                *)
OrphanedForever == [][\A name \in Names : Orphaned(name) => Orphaned(name)']_vars
=============================================================================
