# A verification of ai-eng-lab in TLA+

The repository holds three small systems: **relay** (Go: routing model calls
over providers, judging task results, gating code changes), **nexus** (Go: a
streaming gateway with caches and a task queue) and **sibyl** (Python and Go: a
question-to-SQL agent with metadata retrieval, a SQL gate and an event stream).
This directory holds TLA+ modules of their state machines, TLC configurations
that check them on small instances, and TLAPS proofs of the properties that
matter most, for every value of the constants. `PROJECT.json` relates every
definition to the lines it models.

    tlc -workers 2 -config MCRouter.cfg MCRouter      # one run
    tlapm RouterProofs.tla                            # one module's proofs

## 1. The system

### Components, their state and what makes them correct

| Component | State | Operations | What must hold |
|---|---|---|---|
| relay `router/circuit_breaker.go` | state, lastOpenTime, halfOpenInFlight, buckets of the window, under `cb.mu` | `Allow`, `Record` | one trial at a time, and it is decided; no admission in a cooldown; the window means what its exact definition says; bounded memory |
| relay `router/router.go` | a breaker per candidate name, under `r.mu` | `Route`, `ReportSuccess`, `ReportFailure` | the best candidate available is chosen; trials are really made |
| relay `cmd/bench` `simRouter` | its own clock, one Router per trial | one loop | every trial fails over, in a bounded time |
| relay `verdict`, `codeagent`, `eval` | none (the candidates' weights) | `Judge`, `ApplyAndGate`, `Agreement`, `UpdateRouterWeights` | the decision tables do what their comments say |
| relay `provider`, `cmd/relay` | none | mock, stub | |
| nexus `queue` | tasks, idempotency, a channel, metrics, under `q.mu`; a worker goroutine | `Submit`, `Get`, `GetMetrics`, the worker's loop | a key is accepted once and resolves to its task; order; the limit; no deadlock; nothing accepted is forgotten; the counters add up |
| nexus `cache` | prefix map, semantic entries, inverted index, under an RW lock | `GetPrefix`, `SetPrefix`, `FindBestMatch`, `GetSemantic`, `SetSemantic` | the indexed search finds what a full search would; nothing expired is served |
| nexus `cmd/bench` | the three components it drives, the records of its queries | `RunBench`, `CalcTradeoffCurve` | no near duplicates are stored; the chosen threshold keeps its limits |
| nexus `gateway` | one request and one response in flight | `ProxySSE` | what the client gets is a prefix of what the upstream sent, all of it on success; the handler ends |
| nexus `loadgen` | samples shared by the workers | `RunLoadTest` | no sample is lost; the order of the statistics |
| nexus `router`, `imgproc` | none | a predicate, a byte loop | |
| sibyl `gateway` | a connection shared by a handler and its goroutine | `HandleSSE`, `generateEvents` | the goroutine stops; no write after the handler has returned |
| sibyl `agent` | prompt, history | `agent_loop` | every attempt is in the history; retries end |
| sibyl `sqlgate` | token position | `lex`, `parse`, `validate` | every token is consumed; every select of a query is validated |
| sibyl `retrieval` | fitted statistics | `fit`, `search`, `rrf_fuse`, `rerank_features` | results pair documents with their own statistics; fusion order |

### How they interact

- A relay client calls `Route`, which finds or creates a breaker for each
  candidate and calls `Allow` on it; the client makes its request, and
  `ReportSuccess`/`ReportFailure` calls `Record` on that candidate's breaker.
  Clients share the router and, through it, the breakers. `eval` writes the
  weights `Score` reads.
- A nexus submitter calls `Submit`, which sends to a channel under the lock;
  the worker receives without the lock and takes it to change the task.
- The nexus bench asks both caches and stores in both when neither answers.
- The nexus gateway bench calls the prompt router, the cache, the queue and
  `ProxySSE` one after the other from each of its goroutines, and ignores what
  the first three return.
- `RunBench` runs the load test, then the corpus for the cache, then the queue.
- The sibyl handler starts the generator and waits for the client to leave; the
  generator writes into the handler's response.
- The sibyl agent loop gives what the language model answers to an executor,
  which parses and validates it first; its errors go back to the model.

### The hard behaviours

Nothing is persisted, so there is no crash recovery. What is hard is
concurrency between calls that are atomic one by one: outcomes that arrive
after the breaker has moved on, `Route` between two of its questions, a channel
whose length changes between the look and the send, a response that two
goroutines hold and one of them ends; time, which decides at
boundaries of buckets, cooldowns and cache windows; retries under idempotency
keys; and resources that a call takes on behalf of somebody who never uses
them. `PROJECT.json` lists these hazards at their lines with the properties
that would catch them going wrong.

## 2. The modules

| Module | Models |
|---|---|
| `Breaker` | the circuit breaker as a value: `Allow` and `Record` as operators |
| `CircuitBreaker` | one breaker and its callers |
| `SlidingWindow` | abstract: a breaker that keeps exact instants instead of buckets |
| `Router` | the router, its breakers and its clients |
| `FailoverBench` | `simRouter`, composed from `Router`'s actions |
| `TaskQueue` | the queue, its submitters and its worker |
| `JobService` | abstract: what a job queue with idempotency keys promises |
| `Cache` | the two caches: operators that read them, actions that store |
| `CacheBench` | the bench's loop over `Cache`, its tradeoff curve and its report |
| `LoadTest` | `RunLoadTest` with the bench's request function |
| `NexusBench` | `RunBench`: `LoadTest`, then `CacheBench` |
| `Gateway` | one request through `ProxySSE`, its upstream and its client |
| `EventStream` | the SSE handler, its generator and its client, once per client |
| `AgentLoop` | the retries around a language model; the executor is a parameter |
| `SqlTree` | the trees between parser and gate: the shapes of their nodes |
| `SqlParser` | the SQL parser, as operators from tokens to trees |
| `SqlGate` | the gate, as recursive functions on trees |
| `SibylBench` | `AgentLoop` with the executor that parses and validates; the parser is a parameter |
| `SibylParser` | `SibylBench` with `SqlParser`, and the text of a tree |
| `Verdict` | the four checks of `Judge` |
| `BreakerProofs`, `CircuitBreakerProofs`, `RouterProofs`, `TaskQueueProofs`, `GatewayProofs`, `EventStreamProofs`, `SibylBenchProofs`, `NexusBenchProofs` | theorems about the module of that name and those it is composed of |
| `MC*` | instances for TLC |

Definitions marked `mutant` are deliberate errors, used by the mutants of
`PROJECT.json`: with the definition below it replaced by the mutant, TLC finds
the named property violated. No specification uses them.

### Breaker and CircuitBreaker

`Breaker` has one record field per field of the Go struct. `AfterAllow` and
`AfterRecord` follow the switch of `Allow` and the branches of `Record`; the
whole of a method is under `cb.mu`, so one call is one step. Time is a natural
number; buckets are indexed by `now \div BucketSize` as in the code, and start
far enough from 0 that no window reaches below it. The failure rate is compared
by cross-multiplication, which decides as the float64 comparison with 0.5 does.

`CircuitBreaker` gives the breaker callers that keep the discipline it expects:
every admitted request is reported once, in any order and after any time. The
history variables `admittedAt` and `log` exist for the properties: when each
request in flight was admitted, and the exact outcomes counted since the window
was reset. `log` is also the state of `SlidingWindow`, which the breaker
implements with `phase <- cb.state` and `openedAt <- cb.lastOpenTime`. That
abstract breaker opens exactly when the outcomes of the last `Window` units
reach the threshold, where the cut may lie anywhere inside the oldest bucket.

### Router and FailoverBench

`Route` is three actions: `Call` (entry), `Ask` (one turn of the loop,
`getBreaker` and `Allow`) and `Return` (errors, sort, choice), because it holds
no lock across the loop. `getBreaker` is not a step of its own: a breaker that
does not exist and a new one behave alike. `Report` is `ReportSuccess` or
`ReportFailure`. Scores are compared by cross-multiplication in hundredths of
the cost and of the weight; a real tie of scores is a tie of float64 values for
the values checked. `Provider` is not read by `Route` and is left out of the
behaviour. The history variable `steady` holds, per call, the candidates whose
breaker has been closed ever since the call began.

`FailoverBench` restricts `Router` to one client and two candidates and puts
the bench's own clock in the place of `Tick`: time passes in a request and in a
backoff only. Its constants are those of the code.

### TaskQueue

A `*Task` is its place in `heap`, the sequence of the tasks created, so that
the maps and the channel can share it. `Submit` is `Dedupe`, `Reject`, or
`Create` followed by `Send`: the first two run and release the lock in one step,
while `Create` keeps it until the send, because the channel's other end is not
under the lock and what `Submit` saw of it may be stale by then. The worker's
loop is `Receive`, `MarkRunning` and `MarkDone`. `JobService` is the promise:
a key is accepted once, jobs are worked off in order and one at a time, at most
`Depth` wait. It is implemented with `jobs` the keys and states of `heap`.

### Cache and CacheBench

Each method holds the lock over all its accesses, so queries are operators and
stores are actions. A prompt is the hash of its prefix and the number of its
words on each dimension; cosines are compared by their squares, as fractions.
`FindCandidates` visits the index in the code's order, and the fold in
`FindBestMatch` goes over to a better candidate as the loop does and keeps a
match as good as exact, which is the loop's break. `CacheBench` is the loop of
the bench: one prompt per clock unit, stored in both caches or in neither, and
a record kept of each: which thresholds its best score reaches, whether the
match is right, whether the prefix cache has it. `Report` draws the curve,
chooses the working point and counts the final figures a second time, as the
code does, from rates rounded to thousandths. A bag stands for the slice of
records, because their order is never looked at; token counts are left out.

`LowestWorkingPoint` rests on hits falling with the threshold. For any corpus
the combined rate cannot rise from one threshold to a higher one, so a published
table in which it does (0.70 to 0.75, 0.90 to 0.92 in the README of nexus) does
not come from this code.

### LoadTest and NexusBench

A worker is a process with a place for each point where others can overtake it:
`Check` (the select), `Call` (the request function, which returns at once or
goes through the proxy), `Finish` or `Abort` (the proxy returns because the
upstream is done or the context over), `Lock` and `AppendSample` (the slice read
and written back, two steps although a mutex is held, so that a mutex that does
not exclude would show). `Wait` is `wg.Wait` and the statistics. What a request
measures is a member of a small set, and the history variable `measured` counts
what has been. `Sorted` is `sort.Slice` by what it promises: the samples in an
order in which none is followed by a smaller one. `NexusBench` runs the load test and then the corpus with its
actions unchanged; when the first is over its locals are gone, as in the code.

### Gateway

A request is a process whose `pc` stops where the handler can be overtaken:
`NewRequest`, `Do` (the wait for the answer), `Answered`, then `Read` and
`Write` (or `WriteFails`) in turn. A stream is a number of bytes, since their
order on a connection is fixed. The upstream (`Answer`, `Send`, `End`) and the
client (`Leave`, and `Pause`, with which it stops reading or reads on) act at any
time; a cancelled context lets `Do` and `Read` return an error but does not force
it, because an answer may win the race. A write may fail only when the client has
left. While a client stays and does not read, a write is a step that may be taken,
since connections have buffers, and need not be (`Blocked`). Reads of the clock belong to the
steps they are made in, and `Tick` moves it between steps, so that `overhead`
and `upstream` are the code's own sums; `waited` is the history variable they
are compared with. Copying headers is left out.

### EventStream

The handler and its generator are two processes that share a response and a
context. The generator's steps are the select, one write per line and the
flush; the handler's are `Start` or `Refuse` and `Return`, with which the
server sends what is left and ends the response. `Stop` and `Tick` are both
enabled when the context is over and the timer has fired, since a Go select then
takes either. `Leave` is the client's, and `Notice` the server's, which cancels
the context some time later. The lines are far smaller than the server's
buffer, so nothing is sent without a flush. A write to a response that has
ended is undefined (the server reuses its buffer): the model goes into a state
with `late` set and stops there, for all clients, and the liveness properties
say so. The runs reach such states: the code does write late, and
`LateWritesAreUnread` bounds when.

### AgentLoop, SqlTree, SqlParser, SqlGate, SibylBench and SibylParser

`AgentLoop` has one action for the model's answer and two for the executor's.
`prompt` holds the errors that `current_prompt` has grown by. The executor is a
constant operator from an SQL to the set of its possible outcomes.

`SqlParser` has one operator per method of `Parser`. A result is a set with one
node and position, or none where the code raises; a loop that consumes is a
recursion. What is peculiar to the code is kept: an operator takes all that
follows as its right side, so that `a = 1 AND b = 2` is `a = (1 AND (b = 2))`; a
`LEFT` without `JOIN` is skipped; any other token is an operand of unknown kind;
the rest of a write statement is not read. `int()` of a fractional limit raises
a `ValueError`, which is not the parser's own error: it is a result at position
0, where no token is, so that whatever is still to be parsed passes it on.
`ParseFailure` tells the two errors apart.

`SqlTree` is what the two have in common: a tree is a node with its kids, `Asts`
is any set of trees that has with each tree all that is below it, and
`WellFormed` says which kids the parser gives a node of each type. `SqlGate`
answers with the first error in the order of the code's checks. The type of a
node tells which function of the code meets it (`validate` a query,
`_collect_tables` what stands in `FROM`, `_validate_subqueries` an expression),
so one recursive function `Validate` on `Asts` is all three; `ValidateSelect` is
the body of `validate` around what its two walks answer. `ConstTrue` is the
whole of `_check_const_true`, the literal `TRUE` included, though the parser
never makes one.

What the gate should do is stated apart from its walks. `KeepsRules` says of one
select that it is limited, reads known tables, has a condition that is not
always true and names the partition of its fact tables, and `Allowed` says it of
all `Selects` of a query. The gate does not go to the arguments of functions,
the conditions of joins, the column list, `GROUP BY`, `HAVING` and `ORDER BY`:
these are the places `Unseen`, and `Checked` are the selects outside them.

`SibylBench` gives the loop the bench's executor with a database behind it that
may fail or find nothing. Its parser is a parameter, of which
`ParserAssumption` asks that it returns trees of `Asts` that are queries, and
that where it returns none its error, `ParserError`, is one of two;
`SibylParser` has `SqlParser` for it, and TLC evaluates the assumptions on all
that it makes of the answers of the runs. The model answers with the text of a
tree from a small set or with something else. `Text` writes a tree out;
`ReadAsMeant` is that parsing inverts it.

### Verdict

`Evidence` is a record with what the checks look at, `Found` the reasons. Only
the run that finds the divergence of section 4 uses it.

## 3. The runs

| Run | Instance | Checks |
|---|---|---|
| `circuit_breaker` | 2 callers, window of 2 buckets of 2 units, 2 outcomes to trip, cooldown 2, 8 clock units, at most 4 outcomes between resets | `TypeOK`, `SingleTrial`, `NoAdmissionInCooldown`, `BucketsBounded`, `HalfOpenResolves`, `ImplementsSlidingWindow` |
| `router` | 2 clients, 3 candidates in lists of two and an empty one, 4 calls, 3 clock units | `TypeOK`, `FailoverKeepsBest`, `RouteDecides`, `OrphanedForever` |
| `router_trial` | 2 clients, 2 candidates, 5 calls | `HalfOpenIsTested`, **violated** |
| `failover_bench` | the constants of the code in units of 50 ms, every place of the start in a bucket, 3 durations of a failing request, 2 of a successful one, 2 of a backoff | `RecoversInTime`, `Recovers` |
| `task_queue` | 2 clients, depth 2, 6 submissions out of 5 requests, one key under two IDs | `TypeOK`, `SendNeverBlocks`, `Conservation`, `KeyResolvesToItsTask`, `AcceptedIsDone`, `ImplementsJobService` |
| `task_queue_reused_id` | one ID under two keys, 4 submissions | `KeyResolvesToItsTask`, **violated** |
| `gateway` | a buffer of 2 bytes, a stream of up to 3, 3 clock units | `TypeOK`, `CompleteOnSuccess`, `NothingHeldBack`, `TimeAccounted`, `HandlerEnds` |
| `nexus_bench` | 2 workers, 4 requests, 3 durations; then 6 prompts on 3 dimensions, window 2, 5 queries, 3 thresholds | `TypeOK`, `EverySampleCounts`, `FiguresAreExact`, `LoadTestReturns`, `MatchIsBest`, `NoNearDuplicates`, `ChosenPointIsReported`, `LowestWorkingPoint` |
| `event_stream` | 2 clients, the 2 events of the code | `TypeOK`, `WholeEvents`, `LateWritesAreUnread`, `EveryEventArrives`, `NothingOutlivesTheClient` |
| `sibyl_agent` | 3 attempts as by default, 22 trees and 5 other answers | `AgentTypeOK`, `FeedbackComplete`, `ReadAsMeant`, `CheckedSelectsKeepRules` |
| `sql_gate_hidden_select` | the same | `OnlyAllowedAnswers`, **violated** |
| `verdict_failed` | every combination of evidence, two times | `FailedIsRejected`, **violated** |

Why the bounds are enough. Breaker: two callers suffice for an outcome of the
time before a trip to decide the trial after it, and for the caller of that
trial to report to a breaker that has opened again; eight units hold a trip, a
cooldown, a trial, a second trip and a second trial; four outcomes fall on more
buckets than the window has. The safety part is proved for all values. Router:
two failures trip a breaker, so four calls trip one, wait for its cooldown, give
its trial away and ask again; the scores of the three candidates order them
differently from their prices, and two of them tie. Failover bench: six calls
recover, and the bound of eight is never reached. Queue: six submissions fill a
channel of two and a busy worker and leave one to be rejected, one to be
repeated and one to be accepted after that. Cache: with a window of two, five
queries see entries expire and their prompts stored again, and reach corpora
without a working point, with one that is not the first threshold, and with
false hits that only rounding lets pass. Load test: two workers meet at the
mutex, at the deadline and in the proxy, and four samples fall on every place of
the percentiles, one sample and none included. Events: the clients share nothing
but the consequences of a late write, so two show what one does to another. SQL:
every clause, operator and kind of source occurs, each rule is broken once at
the top and, for tables and partitions, once below and once in a place the gate
does not look at; three attempts fail in every
combination. Gateway: three bytes
fill a buffer of two and leave a short read, and break at every place; three
units fall on any three steps, which is more than any sum needs to go wrong.

Deadlock is not checked where the bounds themselves stop the model; that the
queue does not deadlock is what `AcceptedIsDone` and `SendNeverBlocks` say.

**Fairness.** `CircuitBreaker!FairSpec`: a request in flight ends and is
reported, with either outcome. `FailoverBench!BenchSpec`: a sequential program
keeps running. `TaskQueue!FairSpec`: the worker receives while there is
something to receive, a send that can proceed does, and the worker gets `q.mu`
if it is free again and again; Go's `sync.Mutex` hands the lock to a waiter
that has starved for a millisecond. No submitter needs ever call.
`Gateway!FairSpec`: the handler's goroutine runs when it can. A write to a client
that stays and does not read (`Blocked`) is not asked to return, for the code has
no timeout there either, and nothing is asked of the upstream. So `HandlerEnds`
promises an end once the client has left or the upstream has refused, and once
the upstream is done only for a client that in the end keeps reading. A silent
upstream with a patient client, or a client that stays and reads no more, holds
the handler for ever: the code sets the timeout to 0 on purpose, and a client
that is waited for is the backpressure of `nexus/README.md`. `NexusBench!Spec`: the
deadline's timer fires and the workers and the waiting goroutine run when they
can, each by itself; a mutex is not fought over long enough to need more. The
upstream may never finish. `EventStream!Spec`: the goroutines of a request run,
timers fire and the server notices a closed connection; a client need never
leave. The agent loop has no liveness: it ends if model and executor answer,
which nothing in the code enforces.

## 4. What the runs found

1. **A half-open slot given away is lost for good** (`router_trial`,
   `router.go:88`). `Route` calls `Allow` on every candidate before it chooses.
   For an open breaker whose cooldown is over, `Allow` starts the trial. If a
   better candidate is available too, that one is returned, the trial is never
   made and never reported, and the breaker refuses every later call. The
   comment on `StateHalfOpen` promises "a single test request".
   `OrphanedForever`, checked by the `router` run and proved, says that no call
   and no passage of time repairs it. A list with one candidate does not
   have the problem, which is why the breaker by itself is correct.
2. **A reused ID redirects an idempotency key** (`task_queue_reused_id`,
   `queue.go:77`). `Submit` overwrites `tasks[id]`; a key that was accepted
   under the same ID then resolves to another key's task. With IDs that belong
   to one key each, as in the bench's queue part, the property holds, and is
   proved.
3. **A subquery in the column list is not checked** (`sql_gate_hidden_select`,
   `gate.py:105`). The documentation promises that subqueries are validated
   recursively and that every full table scan is refused (`docs/index.html:279`).
   `validate` walks `FROM` and `WHERE` only: a scan of a fact table in the column
   list, in `HAVING`, in the condition of a join or in the arguments of a function
   passes. The trees of the runs have one in each of these places. What holds is
   `CheckedSelectsKeepRules`, about the selects elsewhere; that the scans come
   from those places alone is proved.
4. **A failed task is accepted** (`verdict_failed`, `verdict.go:76`). A nonzero
   exit code is no reason when the usage says failed, and a failed usage is no
   reason when the exit code is nonzero.

Three more flaws of the SQL part are in the model and among the answers of
`sibyl_agent`, without a run of their own. A query with `GROUP BY` or `ORDER BY`
cannot pass: the parser stores lists under `group_by` and `order_by`,
`_extract_columns` takes an expression (`gate.py:107`), and every such query that
has passed the checks before ends in a `TypeError`, which the agent loop reports
to the model as if the SQL were wrong; that nothing else raises it is proved
(`TypeErrorsComeFromListsHolds`). `WHERE TRUE` passes the gate:
`_check_const_true` (`gate.py:9`) looks for a literal `TRUE`, but the lexer takes
the word for a name, so it is a column in the tree. And `LIMIT 1.5` raises a
`ValueError` (`parser.py:104`), since the lexer's numbers may be fractional and
`int()` takes whole ones, while `bench.py:126` expects a `ParseError` or a
`GateError`; in the agent loop it is recorded and fed back like any other error.

The comment in `sse.go:27` says that the handler waits for the client to leave
"或正常结束", or for a normal end. There is no normal end: with all events sent
and the generator gone the handler still waits, and a client that reads to the
end of the response waits with it. `EveryEventArrives` is therefore about the
events, not about the end.

## 5. What is proved

All theorems hold for every value of the constants that satisfies the named
assumptions of the modules:

- `BreakerAssumption`: positive durations, the window a multiple of the bucket
  size; the code divides 10 s by 1 s. `RouterAssumption`: names identify
  candidates. `QueueAssumption`: the worker and the free lock are no clients.
- `LoadAssumption`: finitely many workers, and a high percentile from 1 to 99.
  Without the first the wait group would have no count; the second keeps the
  truncated index inside the slice.
- `CacheAssumption` and `PromptsAssumption`: the threshold to store, 0.85 in the
  bench, is not above the score that ends a search, 0.9999 in the cache, and
  every prompt has a word. If the first failed, a search could end early at a
  match too weak to keep its prompt from being stored.
- `TreeAssumption` and `ParserAssumption`: what `SqlTree` and `SibylBench` say of
  the parser's trees, above. That a tree is finite is stated by `Height`, a
  number that falls from a node to its kids.
- `BenchConstants` and `RecoveryFits` are hypotheses of `RecoversInTimeHolds`
  only: one client and two candidates; a threshold of at most 100 %, a backoff
  shorter than the cooldown, and `MinRequests` rounds of request and backoff
  within the part of the window that always counts. `failover_bench` evaluates
  both for the durations of the code.
- `GatewayAssumption`, `AgentAssumption`: sizes and counts are natural numbers,
  and the placeholders are none of the values.

`FiguresAreExactHolds` shows that no further assumption on the number of samples
is needed; that the durations are not negative is part of `LoadAssumption`.

**CircuitBreakerProofs**: `TypeCorrect`, `SingleTrialHolds`, `CooldownKept`,
`WindowBounded`. `SingleTrial` alone is not inductive. The invariant adds that
the in-flight flag is set exactly in the half-open state, that a breaker that
is not open is past its cooldown, and that the buckets lie in the span of one
window. The last holds only between an outcome and the next, because buckets
are cleaned when an outcome is counted and not when time passes.

`RefinesSlidingWindow` shows `ImplementsSlidingWindow` step by step. The
invariant is `LogTallied`: every bucket of the window holds how many outcomes of
the log fall into it. A closed breaker that counts an outcome cleans up first,
so what it sums up are the outcomes since the end of the last bucket dropped
(`CutAt`), which is where the abstract breaker cuts. An admission is its `Probe`
or a stutter, an outcome its `Outcome`, its `Verdict` or, when the breaker is
open, a stutter.

**RouterProofs**: `TypeCorrect`, `FailoverKeepsBestHolds`,
`OrphanedForeverHolds`, `RouteDecidesHolds`, `SingleCandidatesAreTested`. The
invariant adds that a candidate closed all along is closed now, so that it is
allowed when its turn comes, and that until then it is still in the list.
`RouteDecides` needs more: that the candidates allowed so far have exactly one
best (`BestExists`). It grows by one candidate at a time, so the proof needs
no induction, only that the order by score and name is transitive and total
(`PrecedesTransitive`, by cross-multiplication, and `PrecedesTotal`).
`SingleCandidatesAreTested` is the other side of finding 1: the property that
`router_trial` violates holds when no list has two candidates.

`RecoversInTimeHolds` is about `FailoverBench`. `RecoversInTime` speaks of the
end of a trial; the invariant follows it. The buckets of the broken candidate
are tallies of as many failures as calls were reported, all of this trial
(`MeltsDown`), so that it trips on the one that makes `MinRequests`
(`FailureCounts`). Hence what is in the list, what is let through and what is
answered (`InLoop`), and that between the trip and the next call there is no
more than a backoff, too little for a trial. `OnTime` bounds the time passed by
the rounds made.

**TaskQueueProofs**: `TypeCorrect`, `SubmitNeverBlocks`,
`SubmissionsConserved`, `KeysResolve` (if no ID is shared by two keys) and
`RefinesJobService`. The invariant places every task: in the order of
creation come the done ones, the worker's, those in the channel and the one
being sent, so that a task's state follows from its place.

**GatewayProofs**: `TypeCorrect`, `CompleteOnSuccessHolds`,
`NothingHeldBackHolds`, `TimeAccountedHolds`. None is inductive: each speaks of
a return or a wait. The invariant says what lies between two steps of the
handler: the bytes read and not written are those in the buffer (`Held`), an
EOF it was told of is the upstream's own with nothing left to read (`EndSeen`),
and the two accounts add up to the last reading of the clock (`Accounts`).

**EventStreamProofs**: `TypeCorrect`, `WholeEventsHolds`,
`LateWritesAreUnreadHolds`, for any set of clients. A response may end with half
an event in its buffer, and the generator may go on writing. The invariant
says why no client sees it: the buffer is exactly the written part of the event
in hand (`BufferHolds`), and the context of a waiting handler ends only once its
client has left (`StaysWhileServed`).

**SibylBenchProofs**, in three parts.

- *Loop.* `TypeCorrect`, `FeedbackCompleteHolds`, for any model, executor and
  number of retries. The invariant adds that only an answer that is not empty is
  executed.
- *Gate.* `GateIsExact`: for trees of any depth `validate` accepts a query if and
  only if it writes nothing and every select in `Checked` is `Accepted`, that is,
  keeps the rules and has neither `GROUP BY` nor `ORDER BY`. Of the selects in
  other places it says nothing. `Validate` and `Checked` are
  recursive functions, of which TLA+ says only that they solve their equations
  if anything does; `RecursionExists` shows that an equation whose right side
  depends on lower values alone has a solution (the solutions up to a height
  agree with each other, `SolutionsAgree`), and `ValidateUnfolds`,
  `SelectsUnfolds` and `CheckedUnfolds` follow. `OkIfPasses` is then proved by induction over the tree
  (`TreeInduction`), for every type of node at once: a table passes when it is
  known, an expression when its subqueries do, a select when its clauses do and
  it keeps the rules. `CollectedAreRead` is the part about joins: the tables
  that the code collects are those the query reads.
- *Loop and gate.* `Gated` is the hypothesis that the executor is the bench's.
  `CheckedSelectsKeepRulesHolds` needs that what is returned was found by
  executing it (`ReturnsRows`). `TypeErrorsComeFromListsHolds` says that the
  `TypeError` comes from `GROUP BY` or `ORDER BY` in a select the gate walks to
  and from no other part of `validate`; of the errors of `parse` it says nothing.
  `OnlyAllowedAnswersWithoutHidden` bounds finding 3: under the hypothesis `NothingHidden`, that no tree has a select in an
  unseen place, `Selects` and `Checked` are the same (`AllAreChecked`, by
  induction over the tree), and the promise of the documentation holds.

**NexusBenchProofs**: one invariant for the load test, the cache and the corpus,
since the bench runs them in one specification.

- *Load test.* `EverySampleCounts` speaks of the end only. The invariant counts
  at every moment: what was measured is in the samples or with a worker on its
  way to append it (`Counted`), the worker in the mutex has read the samples as
  they are (`Locked`), the wait group is the number of running workers
  (`GroupCounts`). `FiguresAreExactHolds` adds that what was returned was
  computed from the samples as they still are (`Returned`). The rest is about
  the figures: sorting is a bijection of the indices (`SortedFacts`), so as many
  samples are below a value before as after (`ImageSize`), and the truncated
  index `RankIndex` is the least number that is more than q of 100 of them.
- *Cache.* `MatchIsBestHolds`: the index lists every entry under every
  dimension in which it has a word (`IndexComplete`), so an entry the search does
  not see has nothing in common with the prompt (`NothingInCommon`). "Closer" is
  a strict order of fractions (`CloserIsStrict`), so the best of the candidates
  seen so far is in the end the best of all (`BestOfOneMore`, `MatchFound`), and
  one kept by the early end is exact. `NoNearDuplicates` is inductive with that:
  an entry is stored only if the best match, hence every match, is too far.
- *Working point.* A record that reaches a threshold reaches all lower ones
  (`LowerToo`), so hits fall along the curve (`CurveFalls`), and the fold that
  keeps the greatest hit rate ends on the first point that works
  (`ChoiceIsFirst`). The report counts the same records with the same rounding.

**BreakerProofs** holds the lemmas on `Breaker`'s operators that the proofs on
the breaker and the router rest on: what `Cleanup`, `Count`, `AfterAllow` and
`AfterRecord` preserve, and that the sums over buckets that are tallies of a log
count what is in the log (`SumsOfTallies`, `RecordClosedTallies`). For the sums
it is enough that any two functions that add up bucket by bucket agree
(`AddsOnce`), which is shown over the size of the set of buckets
(`SubsetInduction`).

*Induction.* The library's induction theorems take an operator as a parameter,
which the provers cannot instantiate. `NatSetInduction` is the same with a set
in the place of the predicate, from the well-foundedness of `<` on the naturals,
and `UpTo` and `SubsetInduction` follow from it. With them `FoldExists`,
`FoldSteps` and `SumFacts` say what the folds and sums of the community modules
compute: a fold is a recursive function on the sets of indices, it exists, and
its value is reached one index after the other. `HeightInduction` and
`TreeInduction` carry it to trees.

Only model-checked:

- all liveness (`HalfOpenResolves`, `Recovers`, `AcceptedIsDone`, `HandlerEnds`,
  `LoadTestReturns`, `EveryEventArrives`, `NothingOutlivesTheClient`), which the
  prover does not treat;
- `SibylParser`'s `ReadAsMeant`, and that `SqlParser` keeps `ParserAssumption`: the
  parser's functions call each other over positions of a text, as recursive
  operators, which the prover cannot use.

Every other property of a passing run is stated by a theorem.

## 6. What is not modelled, and the plan

Not modelled, because there is no state or order in them to get wrong: the
prompt router and the image loop (pure functions whose model would repeat them);
the code agent gate (three calls, the first failure decides; the repository it
patches is an interface without an implementation); the evaluation (a quotient
and an assignment, fed by a report that is empty); the mock provider, the relay
command, the fixtures of the benches. Not modelled, because they are values of
real numbers: the retrieval's scores and their fusion, and the words and hashes
under the caches' vectors. Not modelled, because it is a library's work: the
lexer's regular expressions. Left out of modelled parts: token counts, the rate
per second, headers, the text of messages, the percentiles over the failover
trials, and the queue part of `RunBench`, whose calls `TaskQueue` allows.

What is left: the hazards without a property (a reader of a live `*Task`, a queue
that cannot be closed, caches without a bound, the smallest weight, the columns
of `GROUP BY`) say at their lines why no run checks one. `RecoversInTime` is
proved for one client; with several the failures of a trial interleave, and how
many of them the router lets through before it melts down depends on how many
were in flight.
