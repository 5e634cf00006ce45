----------------------------- MODULE TaskQueue -----------------------------
(***************************************************************************)
(* nexus/internal/queue/queue.go: the task queue, the goroutines that      *)
(* Submit to it and its one worker.                                        *)
(*                                                                         *)
(* Submit runs under q.mu from beginning to end, but the worker receives   *)
(* from the channel without the lock: a receive can come between Submit's  *)
(* look at the channel's length and its send, which blocks, lock in hand,  *)
(* should the channel be full.  So Submit is two steps here, one up to the *)
(* send and the send, and the lock is a variable.                          *)
(*                                                                         *)
(* A *Task is its place in heap, the tasks in the order of their creation. *)
(* Get and GetMetrics change nothing and are left out: what they return    *)
(* under the lock is tasks and metrics.                                    *)
(***************************************************************************)
EXTENDS Integers, FiniteSets, Sequences

CONSTANTS Clients,      \* the goroutines that call Submit
          Requests,     \* the arguments they call it with
          maxDepth,     \* the capacity of the channel
          MaxAttempts,  \* bound: calls of Submit
          Worker,       \* the worker goroutine, as the owner of the lock
          Free          \* the lock's owner when it has none

IDs     == {r.ID : r \in Requests}
Keys    == {r.IdempotencyKey : r \in Requests}
Request == [ID : IDs, IdempotencyKey : Keys]

ASSUME QueueAssumption ==
    /\ maxDepth \in Nat
    /\ MaxAttempts \in Nat
    /\ Requests \subseteq Request
    /\ Worker \notin Clients
    /\ Free \notin Clients
    /\ Worker # Free

VARIABLES
    mu,            \* the owner of q.mu
    heap,          \* every Task created
    tasks,         \* Queue.tasks: ID -> place in heap
    idempotency,   \* Queue.idempotency: IdempotencyKey -> ID
    pendingQueue,  \* the channel: places in heap
    Metrics,       \* Queue.Metrics
    pc,            \* per client: "idle", or "sending" with the lock held
    worker,        \* "receive", "start" or "work"
    current        \* the place of the worker's task, 0 while it has none

vars == <<mu, heap, tasks, idempotency, pendingQueue, Metrics, pc, worker, current>>

TaskState == {"Pending", "Running", "Done", "Failed"}
Task == [ID : IDs, IdempotencyKey : Keys, State : TaskState, Result : {"", "image"}]

QueueMetrics == [TotalAttempts : Nat, Accepted : Nat,
                 DedupedByIdempotencyKey : Nat, RejectedByBackpressure : Nat]

NewTask(r) == [ID |-> r.ID, IdempotencyKey |-> r.IdempotencyKey,
               State |-> "Pending", Result |-> ""]

(* The map f after f[x] = y. *)
Put(f, x, y) == [z \in DOMAIN f \cup {x} |-> IF z = x THEN y ELSE f[z]]

Init == /\ mu = Free
        /\ heap = << >>
        /\ tasks = [id \in {} |-> 0]
        /\ idempotency = [key \in {} |-> 0]
        /\ pendingQueue = << >>
        /\ Metrics = [TotalAttempts |-> 0, Accepted |-> 0,
                      DedupedByIdempotencyKey |-> 0, RejectedByBackpressure |-> 0]
        /\ pc = [c \in Clients |-> "idle"]
        /\ worker = "receive"
        /\ current = 0

----------------------------------------------------------------------------
(* Submit, before the send.                                                *)

(* A client enters Submit: it takes the lock, to keep it or to release it  *)
(* again in the same step.                                                 *)
Enter(c) == /\ pc[c] = "idle"
            /\ mu = Free
            /\ Metrics.TotalAttempts < MaxAttempts

Attempted == [Metrics EXCEPT !.TotalAttempts = @ + 1]

FullTooLate == Len(pendingQueue) > maxDepth                       \* mutant

(* The channel's length has reached the limit. *)
Full == Len(pendingQueue) >= maxDepth

RememberFromZero(r) ==                                            \* mutant
    /\ heap' = Append(heap, NewTask(r))
    /\ tasks' = Put(tasks, r.ID, Len(heap))
    /\ idempotency' = Put(idempotency, r.IdempotencyKey, r.ID)

RememberWithoutKey(r) ==                                          \* mutant
    /\ heap' = Append(heap, NewTask(r))
    /\ tasks' = Put(tasks, r.ID, Len(heap) + 1)
    /\ UNCHANGED idempotency

(* A task is created and entered in both maps.  An ID that was used before *)
(* names the new task from now on.                                         *)
Remember(r) ==
    /\ heap' = Append(heap, NewTask(r))
    /\ tasks' = Put(tasks, r.ID, Len(heap) + 1)
    /\ idempotency' = Put(idempotency, r.IdempotencyKey, r.ID)

KeepUnlocked(c) == UNCHANGED mu                                   \* mutant

KeepLock(c) == mu' = c

(* The key is known: Submit returns the task found under it. *)
Dedupe(c, r) ==
    /\ Enter(c)
    /\ r.IdempotencyKey \in DOMAIN idempotency
    /\ Metrics' = [Attempted EXCEPT !.DedupedByIdempotencyKey = @ + 1]
    /\ UNCHANGED <<mu, heap, tasks, idempotency, pendingQueue, pc, worker, current>>

RejectUncounted(c, r) ==                                          \* mutant
    /\ Enter(c)
    /\ r.IdempotencyKey \notin DOMAIN idempotency
    /\ Full
    /\ Metrics' = Attempted
    /\ UNCHANGED <<mu, heap, tasks, idempotency, pendingQueue, pc, worker, current>>

RejectKeepingKey(c, r) ==                                         \* mutant
    /\ Enter(c)
    /\ r.IdempotencyKey \notin DOMAIN idempotency
    /\ Full
    /\ Metrics' = [Attempted EXCEPT !.RejectedByBackpressure = @ + 1]
    /\ idempotency' = Put(idempotency, r.IdempotencyKey, r.ID)
    /\ UNCHANGED <<mu, heap, tasks, pendingQueue, pc, worker, current>>

(* The channel is full: Submit returns ErrBackpressure, and the key stays  *)
(* unknown, so that the client may try again.                              *)
Reject(c, r) ==
    /\ Enter(c)
    /\ r.IdempotencyKey \notin DOMAIN idempotency
    /\ Full
    /\ Metrics' = [Attempted EXCEPT !.RejectedByBackpressure = @ + 1]
    /\ UNCHANGED <<mu, heap, tasks, idempotency, pendingQueue, pc, worker, current>>

(* There is room: the task is created, and Submit goes on to the send. *)
Create(c, r) ==
    /\ Enter(c)
    /\ r.IdempotencyKey \notin DOMAIN idempotency
    /\ ~Full
    /\ Remember(r)
    /\ Metrics' = Attempted
    /\ pc' = [pc EXCEPT ![c] = "sending"]
    /\ KeepLock(c)
    /\ UNCHANGED <<pendingQueue, worker, current>>

(* The send, which waits while the channel is full; Submit then counts the *)
(* task and returns it.                                                    *)
Send(c) ==
    /\ pc[c] = "sending"
    /\ Len(pendingQueue) < maxDepth
    /\ pendingQueue' = Append(pendingQueue, Len(heap))
    /\ Metrics' = [Metrics EXCEPT !.Accepted = @ + 1]
    /\ pc' = [pc EXCEPT ![c] = "idle"]
    /\ mu' = Free
    /\ UNCHANGED <<heap, tasks, idempotency, worker, current>>

----------------------------------------------------------------------------
(* The worker's loop.                                                      *)

(* It takes the oldest task off the channel, without the lock. *)
Receive ==
    /\ worker = "receive"
    /\ pendingQueue # << >>
    /\ current' = Head(pendingQueue)
    /\ pendingQueue' = Tail(pendingQueue)
    /\ worker' = "start"
    /\ UNCHANGED <<mu, heap, tasks, idempotency, Metrics, pc>>

(* It locks, sets the task Running and unlocks. *)
MarkRunning ==
    /\ worker = "start"
    /\ mu = Free
    /\ heap' = [heap EXCEPT ![current].State = "Running"]
    /\ worker' = "work"
    /\ UNCHANGED <<mu, tasks, idempotency, pendingQueue, Metrics, pc, current>>

(* The work done, it locks, sets the task Done with its result, unlocks,   *)
(* and goes back for the next.                                             *)
MarkDone ==
    /\ worker = "work"
    /\ mu = Free
    /\ heap' = [heap EXCEPT ![current].State = "Done", ![current].Result = "image"]
    /\ worker' = "receive"
    /\ current' = 0
    /\ UNCHANGED <<mu, tasks, idempotency, pendingQueue, Metrics, pc>>

Submit(c) == \/ \E r \in Requests : Dedupe(c, r) \/ Reject(c, r) \/ Create(c, r)
             \/ Send(c)

Next == \/ \E c \in Clients : Submit(c)
        \/ Receive
        \/ MarkRunning
        \/ MarkDone

Spec == Init /\ [][Next]_vars

(* The worker keeps running, a send that can proceed does, and the worker  *)
(* gets the lock if it is free again and again: Go's sync.Mutex hands it   *)
(* to a waiter that has starved for a millisecond.                         *)
FairSpec == /\ Spec
            /\ WF_vars(Receive)
            /\ SF_vars(MarkRunning)
            /\ SF_vars(MarkDone)
            /\ \A c \in Clients : WF_vars(Send(c))

----------------------------------------------------------------------------
(* Type invariant. *)
TypeOK ==
    /\ mu \in Clients \cup {Free}
    /\ heap \in Seq(Task)
    /\ DOMAIN tasks \subseteq IDs
    /\ \A id \in DOMAIN tasks : tasks[id] \in DOMAIN heap
    /\ DOMAIN idempotency \subseteq Keys
    /\ \A key \in DOMAIN idempotency : idempotency[key] \in IDs
    /\ pendingQueue \in Seq(DOMAIN heap)
    /\ Metrics \in QueueMetrics
    /\ pc \in [Clients -> {"idle", "sending"}]
    /\ worker \in {"receive", "start", "work"}
    /\ current \in 0..Len(heap)
    /\ worker # "receive" => current # 0

(* Submit never waits on the channel with the lock in its hand, which      *)
(* would stop the worker, and with it the queue, for good.                 *)
SendNeverBlocks == \A c \in Clients : pc[c] = "sending" => Len(pendingQueue) < maxDepth

(* "Deduped + rejected + accepted = submitted", whenever the lock is free  *)
(* for GetMetrics to be asked.                                             *)
Conservation ==
    mu = Free =>
        Metrics.TotalAttempts = Metrics.Accepted + Metrics.DedupedByIdempotencyKey
                                                 + Metrics.RejectedByBackpressure

(* A key resolves, through both maps, to the task that was accepted for    *)
(* it: this is what Submit returns to a client that submits again.         *)
KeyResolvesToItsTask ==
    \A key \in DOMAIN idempotency :
        /\ idempotency[key] \in DOMAIN tasks
        /\ heap[tasks[idempotency[key]]].IdempotencyKey = key

(* Every accepted task is done in the end. *)
AcceptedIsDone ==
    \A i \in 1..MaxAttempts :
        i \in DOMAIN heap ~> i \in DOMAIN heap /\ heap[i].State = "Done"

(* The maps, the channel and the worker together implement a job service   *)
(* that accepts a key once and works in order, with at most maxDepth jobs  *)
(* waiting besides the worker's.                                           *)
JobList == [i \in DOMAIN heap |-> [key   |-> heap[i].IdempotencyKey,
                                   state |-> heap[i].State]]
Jobs == INSTANCE JobService WITH Depth <- maxDepth, jobs <- JobList
ImplementsJobService == Jobs!Spec
=============================================================================
