------------------------------ MODULE LoadTest ------------------------------
(***************************************************************************)
(* RunLoadTest of nexus/internal/loadgen/loadgen.go with the request       *)
(* function of nexus/cmd/bench/main.go: workers call the function until a  *)
(* deadline passes and collect what it measures in a slice under a mutex;  *)
(* the caller waits for them and computes the statistics.                  *)
(*                                                                         *)
(* count and the length of overheads change together, under one lock; one  *)
(* variable stands for both.  What the request function asks the router,   *)
(* the cache and the queue is ignored by it, and ProxySSE is seen from     *)
(* outside: it returns when the upstream is done or the context is over,   *)
(* which is HandlerEnds of Gateway.tla.                                    *)
(***************************************************************************)
EXTENDS Integers, Sequences, SequencesExt

CONSTANTS Workers,     \* the goroutines (concurrency)
          Nobody,      \* holds the mutex when no worker does
          FastTimes,   \* what a request answered by the cache may measure
          SlowTimes,   \* what one that goes through the proxy may measure
          Rank,        \* the high percentile (99)
          MaxRequests  \* bound: requests begun before the deadline

Times == FastTimes \cup SlowTimes

ASSUME LoadAssumption ==
    /\ IsFiniteSet(Workers) /\ Nobody \notin Workers
    /\ Times \subseteq Nat
    /\ Rank \in 1..99
    /\ MaxRequests \in Nat

VARIABLES
    ctxDone,    \* the deadline of the context has passed
    wg,         \* the counter of the wait group
    loadPc,     \* per worker: "new", "check", "call", "proxy", "measured",
                \* "append" or "exited"
    overhead,   \* per worker: what its last request has measured
    slice,      \* per worker: overheads as its append finds it
    mu,         \* the worker that holds the mutex, or Nobody
    overheads,  \* the samples
    result,     \* what RunLoadTest has returned, one or none
    measured    \* history: how often each time was measured

sharedVars == <<overheads, mu, slice>>
loadVars == <<ctxDone, wg, loadPc, overhead, sharedVars, result, measured>>

LoadInit == /\ ctxDone = FALSE
            /\ wg = 0
            /\ loadPc = [w \in Workers |-> "new"]
            /\ overhead = [w \in Workers |-> 0]
            /\ slice = [w \in Workers |-> << >>]
            /\ mu = Nobody
            /\ overheads = << >>
            /\ result = {}
            /\ measured = [t \in Times |-> 0]

MoveTo(w, place) == loadPc' = [loadPc EXCEPT ![w] = place]

----------------------------------------------------------------------------
SpawnUncounted(w) ==                                              \* mutant
    /\ loadPc[w] = "new"
    /\ MoveTo(w, "check")
    /\ UNCHANGED <<ctxDone, wg, overhead, sharedVars, result, measured>>

(* The caller starts a worker, counted in the wait group before it runs. *)
Spawn(w) ==
    /\ loadPc[w] = "new"
    /\ wg' = wg + 1
    /\ MoveTo(w, "check")
    /\ UNCHANGED <<ctxDone, overhead, sharedVars, result, measured>>

Expire == /\ ~ctxDone
          /\ ctxDone' = TRUE
          /\ UNCHANGED <<wg, loadPc, overhead, sharedVars, result, measured>>

Requests == {w \in Workers : loadPc[w] \in {"call", "proxy", "measured", "append"}}

(* The select at the head of a worker's loop. *)
Check(w) ==
    /\ loadPc[w] = "check"
    /\ \/ /\ ctxDone
          /\ wg' = wg - 1
          /\ MoveTo(w, "exited")
       \/ /\ ~ctxDone
          /\ Len(overheads) + Cardinality(Requests) < MaxRequests
          /\ MoveTo(w, "call")
          /\ UNCHANGED wg
    /\ UNCHANGED <<ctxDone, overhead, sharedVars, result, measured>>

Measure(w, times) ==
    /\ \E t \in times :
          /\ overhead' = [overhead EXCEPT ![w] = t]
          /\ measured' = [measured EXCEPT ![t] = @ + 1]
    /\ MoveTo(w, "measured")
    /\ UNCHANGED <<ctxDone, wg, sharedVars, result>>

(* The request function answers from the cache, or submits a job and calls *)
(* the proxy.                                                              *)
Call(w) ==
    /\ loadPc[w] = "call"
    /\ \/ Measure(w, FastTimes)
       \/ /\ MoveTo(w, "proxy")
          /\ UNCHANGED <<ctxDone, wg, overhead, sharedVars, result, measured>>

(* The upstream is done with the request, which may never happen. *)
Finish(w) == loadPc[w] = "proxy" /\ Measure(w, SlowTimes)

DetachedNever == FALSE                                            \* mutant

(* A request carries the context of the test. *)
RequestCanceled == ctxDone

Abort(w) == loadPc[w] = "proxy" /\ RequestCanceled /\ Measure(w, SlowTimes)

----------------------------------------------------------------------------
MutexIgnored == TRUE                                              \* mutant

MutexFree == mu = Nobody

(* A worker takes the mutex and reads the slice to append to. *)
Lock(w) ==
    /\ loadPc[w] = "measured"
    /\ MutexFree
    /\ mu' = w
    /\ slice' = [slice EXCEPT ![w] = overheads]
    /\ MoveTo(w, "append")
    /\ UNCHANGED <<ctxDone, wg, overhead, overheads, result, measured>>

(* It stores the longer slice and leaves the mutex. *)
AppendSample(w) ==
    /\ loadPc[w] = "append"
    /\ overheads' = Append(slice[w], overhead[w])
    /\ slice' = [slice EXCEPT ![w] = << >>]
    /\ mu' = Nobody
    /\ MoveTo(w, "check")
    /\ UNCHANGED <<ctxDone, wg, overhead, result, measured>>

----------------------------------------------------------------------------
(* The statistics.                                                         *)

RankIndexFromOne(n, q) == IF (n * q) \div 100 = 0 THEN 1 ELSE (n * q) \div 100  \* mutant

(* int(float64(n) * q), in a sequence that starts at 1. *)
RankIndex(n, q) == (n * q) \div 100 + 1

(* sort.Slice *)
Sorted(s) ==
    LET order == CHOOSE p \in Bijection(DOMAIN s, DOMAIN s) :
                     \A i, j \in DOMAIN s : i < j => s[p[i]] <= s[p[j]]
    IN  [i \in DOMAIN s |-> s[order[i]]]

Sum(s) == FoldLeft(LAMBDA a, b : a + b, 0, s)

(* A run without a sample returns the zero LoadResult. *)
Statistics(samples) ==
    LET n == Len(samples)
        sorted == Sorted(samples)
    IN  IF n = 0
        THEN [Min |-> 0, P50 |-> 0, P99 |-> 0, Max |-> 0, Mean |-> 0]
        ELSE [Min  |-> sorted[1],
              P50  |-> sorted[RankIndex(n, 50)],
              P99  |-> sorted[RankIndex(n, Rank)],
              Max  |-> sorted[n],
              Mean |-> Sum(samples) \div n]

Started == \A w \in Workers : loadPc[w] # "new"

(* The caller waits for the workers it has started, and returns. *)
Wait == /\ Started
        /\ wg = 0
        /\ result = {}
        /\ result' = {Statistics(overheads)}
        /\ UNCHANGED <<ctxDone, wg, loadPc, overhead, sharedVars, measured>>

Worker(w) == Check(w) \/ Call(w) \/ Abort(w) \/ Lock(w) \/ AppendSample(w)

LoadNext == \/ Expire
            \/ Wait
            \/ \E w \in Workers : Spawn(w) \/ Worker(w) \/ Finish(w)

----------------------------------------------------------------------------
LoadTypeOK ==
    /\ ctxDone \in BOOLEAN
    /\ wg = Cardinality({w \in Workers : loadPc[w] \notin {"new", "exited"}})
    /\ loadPc \in [Workers -> {"new", "check", "call", "proxy", "measured", "append", "exited"}]
    /\ overhead \in [Workers -> Times \cup {0}]
    /\ mu \in Workers \cup {Nobody}
    /\ \A w \in Workers : loadPc[w] = "append" <=> mu = w
    /\ overheads \in Seq(Times)
    /\ measured \in [Times -> 0..MaxRequests]

(* No sample is lost and none comes too late: when RunLoadTest has         *)
(* returned, every time any worker has ever measured is among the samples, *)
(* as often as it was measured, those of aborted requests included.        *)
EverySampleCounts ==
    result # {} =>
        \A t \in Times :
            Cardinality({i \in DOMAIN overheads : overheads[i] = t}) = measured[t]

(* Of the samples at most q of 100 are less than v, and more than q of 100 *)
(* are not greater.                                                        *)
IsPercentile(v, q) ==
    LET n == Len(overheads)
    IN  /\ 100 * Cardinality({i \in DOMAIN overheads : overheads[i] < v}) <= q * n
        /\ 100 * Cardinality({i \in DOMAIN overheads : overheads[i] <= v}) > q * n

(* The figures are the ones their names say, from one sample on: taken by  *)
(* a truncated index and a truncated division, of however few samples.     *)
FiguresAreExact ==
    overheads # << >> =>
        \A r \in result :
            /\ IsPercentile(r.P50, 50)
            /\ IsPercentile(r.P99, Rank)
            /\ \A i \in DOMAIN overheads : overheads[i] \in r.Min..r.Max
            /\ {r.Min, r.P50, r.P99, r.Max} \subseteq ToSet(overheads)
            /\ r.Mean * Len(overheads) <= Sum(overheads)
            /\ Sum(overheads) < (r.Mean + 1) * Len(overheads)
=============================================================================
