----------------------------- MODULE NexusBench -----------------------------
(***************************************************************************)
(* RunBench of nexus/cmd/bench/main.go: the load test of the gateway, then *)
(* the corpus for the cache.  The queue part that follows submits jobs     *)
(* from one goroutine to the queue of TaskQueue.tla and is not composed.   *)
(***************************************************************************)
EXTENDS LoadTest, CacheBench

VARIABLE phase  \* "gateway", "cache", then "done" or "panicked"

vars == <<loadVars, corpusVars, phase>>

Init == LoadInit /\ CorpusInit /\ phase = "gateway"

(* A step of RunLoadTest. *)
InGateway(A) == phase = "gateway" /\ A /\ UNCHANGED <<corpusVars, phase>>

(* The figures of the load test are copied out; its locals are gone. *)
BeginCorpus == /\ phase = "gateway"
               /\ result # {}
               /\ phase' = "cache"
               /\ ctxDone' = FALSE
               /\ wg' = 0
               /\ loadPc' = [w \in Workers |-> "new"]
               /\ overhead' = [w \in Workers |-> 0]
               /\ slice' = [w \in Workers |-> << >>]
               /\ mu' = Nobody
               /\ overheads' = << >>
               /\ result' = {}
               /\ measured' = [t \in Times |-> 0]
               /\ UNCHANGED corpusVars

Corpus == /\ phase = "cache"
          /\ CorpusNext
          /\ phase' = IF reported' # {} THEN "done" ELSE phase
          /\ UNCHANGED loadVars

Panic == /\ phase = "cache"
         /\ NoWorkingPoint
         /\ phase' = "panicked"
         /\ UNCHANGED <<loadVars, corpusVars>>

Next == InGateway(LoadNext) \/ BeginCorpus \/ Corpus \/ Panic

(* Timers fire and goroutines run, but the upstream may never finish.  The *)
(* corpus is a loop of a known length and needs no fairness here.          *)
Fairness ==
    /\ WF_vars(InGateway(Expire))
    /\ WF_vars(InGateway(Wait))
    /\ \A w \in Workers : WF_vars(InGateway(Spawn(w))) /\ WF_vars(InGateway(Worker(w)))
    /\ WF_vars(BeginCorpus)

Spec == Init /\ [][Next]_vars /\ Fairness

----------------------------------------------------------------------------
(* Type invariant of both parts. *)
TypeOK == /\ LoadTypeOK
          /\ CorpusTypeOK
          /\ phase \in {"gateway", "cache", "done", "panicked"}

(* The load test returns and the bench goes on, though the upstream may    *)
(* fall silent: the deadline reaches every request in flight, and no       *)
(* worker keeps the lock or the wait group from the others.                *)
LoadTestReturns == <>(phase # "gateway")
=============================================================================
