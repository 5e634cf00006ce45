-------------------------- MODULE TaskQueueProofs --------------------------
(***************************************************************************)
(* The safety properties of TaskQueue.tla for any number of clients, any   *)
(* requests and any depth, and its refinement of JobService.               *)
(*                                                                         *)
(* The inductive invariant says where every task is.  In the order of      *)
(* creation the tasks are: those taken off the channel before the worker's *)
(* (all done), the worker's (where it has one), those in the channel, in   *)
(* order, and the one being sent (where the lock is held).                 *)
(***************************************************************************)
EXTENDS TaskQueue, SequenceTheorems, TLAPS

(* The tasks that have been sent: all but the one whose client still holds *)
(* the lock.                                                               *)
Sent == IF mu = Free THEN Len(heap) ELSE Len(heap) - 1

(* The tasks the worker has taken so far. *)
Taken == Sent - Len(pendingQueue)

(* The lock is held by the client that is sending, and by no other. *)
LockHeld == /\ \A c \in Clients : pc[c] = "sending" <=> mu = c
            /\ mu # Free => Len(heap) > 0

(* The channel holds the sent tasks that are not taken, in order. *)
ChannelInOrder ==
    /\ Len(pendingQueue) <= maxDepth
    /\ mu # Free => Len(pendingQueue) < maxDepth
    /\ Taken >= 0
    /\ \A i \in 1..Len(pendingQueue) : pendingQueue[i] = Taken + i
    /\ worker # "receive" => current = Taken /\ Taken > 0

(* The state of a task follows from its place. *)
StateOf(i) == IF i < Taken \/ (i = Taken /\ worker = "receive") THEN "Done"
              ELSE IF i = Taken /\ worker = "work" THEN "Running"
              ELSE "Pending"

Progress == \A i \in 1..Len(heap) : heap[i].State = StateOf(i)

(* No two tasks have the same key, and every task's key is known. *)
KeysUnique ==
    /\ \A i \in 1..Len(heap) : heap[i].IdempotencyKey \in DOMAIN idempotency
    /\ \A i, j \in 1..Len(heap) :
          heap[i].IdempotencyKey = heap[j].IdempotencyKey => i = j

(* Every submission is counted once, but for the one in progress. *)
Counted ==
    Metrics.TotalAttempts = Metrics.Accepted + Metrics.DedupedByIdempotencyKey
                              + Metrics.RejectedByBackpressure
                              + (IF mu = Free THEN 0 ELSE 1)

IInv == /\ TypeOK
        /\ LockHeld
        /\ ChannelInOrder
        /\ Progress
        /\ KeysUnique
        /\ Counted

----------------------------------------------------------------------------
(* What each change of heap does to it.                                    *)

(* A new task is appended, and the others stay. *)
LEMMA RememberHeap ==
    ASSUME TypeOK, NEW r \in Requests, Remember(r)
    PROVE  /\ heap' \in Seq(Task)
           /\ Len(heap) \in Nat
           /\ Len(heap') = Len(heap) + 1
           /\ DOMAIN heap = 1..Len(heap)
           /\ DOMAIN heap' = 1..(Len(heap) + 1)
           /\ \A i \in 1..Len(heap) : heap'[i] = heap[i]
           /\ heap'[Len(heap) + 1] = NewTask(r)
           /\ NewTask(r) \in Task
<1>1. NewTask(r) \in Task
  BY DEF NewTask, Task, IDs, Keys, TaskState
<1>2. heap \in Seq(Task) /\ heap' = Append(heap, NewTask(r))
  BY DEF TypeOK, Remember
<1>. HIDE DEF Task, NewTask
<1>3. /\ Append(heap, NewTask(r)) \in Seq(Task)
      /\ Len(Append(heap, NewTask(r))) = Len(heap) + 1
      /\ \A i \in 1..Len(heap) : Append(heap, NewTask(r))[i] = heap[i]
      /\ Append(heap, NewTask(r))[Len(heap) + 1] = NewTask(r)
  BY <1>1, <1>2, AppendProperties
<1>4. Len(heap) \in Nat /\ DOMAIN heap = 1..Len(heap)
  BY <1>2, LenProperties
<1>5. DOMAIN heap' = 1..Len(heap')
  BY <1>2, <1>3, LenProperties
<1>. QED BY <1>1, <1>2, <1>3, <1>4, <1>5

(* The worker's task changes, and the others stay. *)
LEMMA UpdateHeap ==
    ASSUME TypeOK, current \in 1..Len(heap), NEW t \in Task,
           heap' = [heap EXCEPT ![current] = t]
    PROVE  /\ heap' \in Seq(Task)
           /\ Len(heap) \in Nat
           /\ Len(heap') = Len(heap)
           /\ DOMAIN heap' = DOMAIN heap
           /\ \A i \in 1..Len(heap) : heap'[i] = IF i = current THEN t ELSE heap[i]
<1>. HIDE DEF Task
<1>1. heap \in Seq(Task)
  BY DEF TypeOK
<1>2. /\ [heap EXCEPT ![current] = t] \in Seq(Task)
      /\ Len([heap EXCEPT ![current] = t]) = Len(heap)
      /\ \A j \in 1..Len(heap) :
            [heap EXCEPT ![current] = t][j] = IF j = current THEN t ELSE heap[j]
  BY <1>1, ExceptSeq
<1>3. Len(heap) \in Nat
  BY <1>1, LenProperties
<1>. QED BY <1>1, <1>2, <1>3

(* The worker's task is set Running. *)
LEMMA MarkRunningHeap ==
    ASSUME TypeOK, MarkRunning
    PROVE  /\ heap' \in Seq(Task)
           /\ Len(heap) \in Nat
           /\ Len(heap') = Len(heap)
           /\ DOMAIN heap' = DOMAIN heap
           /\ current \in 1..Len(heap)
           /\ \A i \in 1..Len(heap) :
                /\ heap'[i].ID = heap[i].ID
                /\ heap'[i].IdempotencyKey = heap[i].IdempotencyKey
                /\ heap'[i].State = IF i = current THEN "Running" ELSE heap[i].State
<1>. DEFINE t == [heap[current] EXCEPT !.State = "Running"]
<1>1. heap \in Seq(Task) /\ current \in 0..Len(heap) /\ current # 0
  BY DEF TypeOK, MarkRunning
<1>2. Len(heap) \in Nat /\ current \in 1..Len(heap)
  BY <1>1, LenProperties
<1>3. heap[current] \in Task
  BY <1>1, <1>2, ElementOfSeq
<1>4. t \in Task /\ t.State = "Running" /\ t.ID = heap[current].ID
        /\ t.IdempotencyKey = heap[current].IdempotencyKey
  BY <1>3 DEF Task, TaskState
<1>5. heap' = [heap EXCEPT ![current] = t]
  BY DEF MarkRunning
<1>. HIDE DEF t
<1>6. /\ heap' \in Seq(Task)
      /\ Len(heap') = Len(heap)
      /\ DOMAIN heap' = DOMAIN heap
      /\ \A i \in 1..Len(heap) : heap'[i] = IF i = current THEN t ELSE heap[i]
  BY <1>2, <1>4, <1>5, UpdateHeap
<1>. QED BY <1>2, <1>4, <1>6

(* The worker's task is set Done. *)
LEMMA MarkDoneHeap ==
    ASSUME TypeOK, MarkDone
    PROVE  /\ heap' \in Seq(Task)
           /\ Len(heap) \in Nat
           /\ Len(heap') = Len(heap)
           /\ DOMAIN heap' = DOMAIN heap
           /\ current \in 1..Len(heap)
           /\ \A i \in 1..Len(heap) :
                /\ heap'[i].ID = heap[i].ID
                /\ heap'[i].IdempotencyKey = heap[i].IdempotencyKey
                /\ heap'[i].State = IF i = current THEN "Done" ELSE heap[i].State
<1>. DEFINE t == [heap[current] EXCEPT !.State = "Done", !.Result = "image"]
<1>1. heap \in Seq(Task) /\ current \in 0..Len(heap) /\ current # 0
  BY DEF TypeOK, MarkDone
<1>2. Len(heap) \in Nat /\ current \in 1..Len(heap)
  BY <1>1, LenProperties
<1>3. heap[current] \in Task
  BY <1>1, <1>2, ElementOfSeq
<1>4. t \in Task /\ t.State = "Done" /\ t.ID = heap[current].ID
        /\ t.IdempotencyKey = heap[current].IdempotencyKey
  BY <1>3 DEF Task, TaskState
<1>5. heap' = [heap EXCEPT ![current] = t]
  <2>1. DOMAIN heap = 1..Len(heap)
    BY <1>1, LenProperties
  <2>2. heap' = [[heap EXCEPT ![current] = [heap[current] EXCEPT !.State = "Done"]]
                    EXCEPT ![current] = t]
    BY <1>2, <1>3, <2>1 DEF MarkDone, Task
  <2>. HIDE DEF t
  <2>. QED BY <2>2
<1>. HIDE DEF t
<1>6. /\ heap' \in Seq(Task)
      /\ Len(heap') = Len(heap)
      /\ DOMAIN heap' = DOMAIN heap
      /\ \A i \in 1..Len(heap) : heap'[i] = IF i = current THEN t ELSE heap[i]
  BY <1>2, <1>4, <1>5, UpdateHeap
<1>. QED BY <1>2, <1>4, <1>6

----------------------------------------------------------------------------
(* Lengths, in the form the arithmetic below wants them. *)
LEMMA Lengths ==
    ASSUME TypeOK
    PROVE  /\ Len(heap) \in Nat /\ DOMAIN heap = 1..Len(heap)
           /\ pendingQueue \in Seq(1..Len(heap))
           /\ Len(pendingQueue) \in Nat
           /\ DOMAIN pendingQueue = 1..Len(pendingQueue)
           /\ Sent \in Int /\ Taken \in Int
<1>. HIDE DEF Task
<1>1. heap \in Seq(Task)
  BY DEF TypeOK
<1>2. Len(heap) \in Nat /\ DOMAIN heap = 1..Len(heap)
  BY <1>1, LenProperties
<1>3. pendingQueue \in Seq(1..Len(heap))
  BY <1>2 DEF TypeOK
<1>4. Len(pendingQueue) \in Nat /\ DOMAIN pendingQueue = 1..Len(pendingQueue)
  BY <1>3, LenProperties
<1>5. Sent \in Int /\ Taken \in Int
  BY <1>2, <1>4 DEF Sent, Taken
<1>. QED BY <1>2, <1>3, <1>4, <1>5

(* The initial states. *)
LEMMA InitIInv == Init => IInv
<1>. SUFFICES ASSUME Init PROVE IInv
  OBVIOUS
<1>1. /\ heap \in Seq(Task) /\ Len(heap) = 0 /\ DOMAIN heap = {}
      /\ pendingQueue \in Seq(DOMAIN heap) /\ Len(pendingQueue) = 0
  BY EmptySeq DEF Init
<1>2. TypeOK
  BY <1>1 DEF Init, TypeOK, QueueMetrics
<1>3. LockHeld /\ Counted
  BY QueueAssumption DEF Init, LockHeld, Counted
<1>4. Sent = 0 /\ Taken = 0
  BY <1>1 DEF Init, Sent, Taken
<1>5. ChannelInOrder
  BY <1>1, <1>4, QueueAssumption DEF Init, ChannelInOrder
<1>6. Progress /\ KeysUnique
  BY <1>1 DEF Progress, KeysUnique
<1>. QED BY <1>2, <1>3, <1>5, <1>6 DEF IInv

(* A known key is deduplicated, or a full channel rejects: only the        *)
(* metrics change.                                                         *)
LEMMA CountOnlyIInv ==
    ASSUME IInv, NEW c \in Clients, NEW r \in Requests, Dedupe(c, r) \/ Reject(c, r)
    PROVE  IInv'
<1>1. /\ mu = Free
      /\ UNCHANGED <<mu, heap, tasks, idempotency, pendingQueue, pc, worker, current>>
  BY DEF Dedupe, Reject, Enter
<1>2. Metrics' \in QueueMetrics /\ Counted'
  <2>1. Metrics \in QueueMetrics /\ Counted
    BY DEF IInv, TypeOK
  <2>2. \/ Metrics' = [Metrics EXCEPT !.TotalAttempts = @ + 1,
                                      !.DedupedByIdempotencyKey = @ + 1]
        \/ Metrics' = [Metrics EXCEPT !.TotalAttempts = @ + 1,
                                      !.RejectedByBackpressure = @ + 1]
    <3>1. CASE Dedupe(c, r)
      BY <3>1, <2>1 DEF Dedupe, Attempted, QueueMetrics
    <3>2. CASE Reject(c, r)
      BY <3>2, <2>1 DEF Reject, Attempted, QueueMetrics
    <3>. QED BY <3>1, <3>2
  <2>3. CASE Metrics' = [Metrics EXCEPT !.TotalAttempts = @ + 1,
                                        !.DedupedByIdempotencyKey = @ + 1]
    <3>1. Metrics' = [TotalAttempts           |-> Metrics.TotalAttempts + 1,
                      Accepted                |-> Metrics.Accepted,
                      DedupedByIdempotencyKey |-> Metrics.DedupedByIdempotencyKey + 1,
                      RejectedByBackpressure  |-> Metrics.RejectedByBackpressure]
      BY <2>3, <2>1 DEF QueueMetrics
    <3>. QED BY <3>1, <1>1, <2>1 DEF QueueMetrics, Counted
  <2>4. CASE Metrics' = [Metrics EXCEPT !.TotalAttempts = @ + 1,
                                        !.RejectedByBackpressure = @ + 1]
    <3>1. Metrics' = [TotalAttempts           |-> Metrics.TotalAttempts + 1,
                      Accepted                |-> Metrics.Accepted,
                      DedupedByIdempotencyKey |-> Metrics.DedupedByIdempotencyKey,
                      RejectedByBackpressure  |-> Metrics.RejectedByBackpressure + 1]
      BY <2>4, <2>1 DEF QueueMetrics
    <3>. QED BY <3>1, <1>1, <2>1 DEF QueueMetrics, Counted
  <2>. QED BY <2>2, <2>3, <2>4
<1>3. TypeOK'
  BY <1>1, <1>2 DEF IInv, TypeOK
<1>4. LockHeld' /\ ChannelInOrder' /\ Progress' /\ KeysUnique'
  BY <1>1 DEF IInv, LockHeld, ChannelInOrder, Progress, StateOf, KeysUnique, Sent, Taken
<1>. QED BY <1>2, <1>3, <1>4 DEF IInv

(* A task is created and the lock kept. *)
LEMMA CreateIInv ==
    ASSUME IInv, NEW c \in Clients, NEW r \in Requests, Create(c, r)
    PROVE  IInv'
<1>. USE DEF IInv
<1>0. /\ mu = Free /\ mu' = c /\ mu' # Free /\ Remember(r)
      /\ r.IdempotencyKey \in Keys /\ r.ID \in IDs
      /\ r.IdempotencyKey \notin DOMAIN idempotency
      /\ Len(pendingQueue) < maxDepth
      /\ Metrics' = [Metrics EXCEPT !.TotalAttempts = @ + 1]
      /\ pc' = [pc EXCEPT ![c] = "sending"]
      /\ pendingQueue' = pendingQueue /\ worker' = worker /\ current' = current
  <2>1. ~(Len(pendingQueue) >= maxDepth) => Len(pendingQueue) < maxDepth
    BY Lengths, QueueAssumption
  <2>. QED BY <2>1, QueueAssumption DEF Create, Enter, Full, KeepLock, Attempted, IDs, Keys
<1>1. /\ heap' \in Seq(Task)
      /\ Len(heap) \in Nat
      /\ Len(heap') = Len(heap) + 1
      /\ DOMAIN heap = 1..Len(heap)
      /\ DOMAIN heap' = 1..(Len(heap) + 1)
      /\ \A i \in 1..Len(heap) : heap'[i] = heap[i]
      /\ heap'[Len(heap) + 1] = NewTask(r)
  BY <1>0, RememberHeap
<1>2. /\ DOMAIN idempotency' = DOMAIN idempotency \cup {r.IdempotencyKey}
      /\ \A key \in DOMAIN idempotency' :
            idempotency'[key] = IF key = r.IdempotencyKey THEN r.ID ELSE idempotency[key]
      /\ DOMAIN tasks' = DOMAIN tasks \cup {r.ID}
      /\ \A id \in DOMAIN tasks' :
            tasks'[id] = IF id = r.ID THEN Len(heap) + 1 ELSE tasks[id]
  BY <1>0 DEF Remember, Put
<1>3. Sent' = Sent /\ Taken' = Taken /\ Sent = Len(heap)
      /\ Len(pendingQueue) \in Nat /\ pendingQueue \in Seq(1..Len(heap))
      /\ Taken \in Int
  BY <1>0, <1>1, Lengths DEF Sent, Taken
<1>4. TypeOK'
  <2>1. pendingQueue' \in Seq(DOMAIN heap')
    <3>1. 1..Len(heap) \subseteq 1..(Len(heap) + 1)
      BY <1>1
    <3>. QED BY <1>0, <1>1, <1>3, <3>1, SeqMonotonic
  <2>2. /\ Metrics' \in QueueMetrics
        /\ pc' \in [Clients -> {"idle", "sending"}]
        /\ mu' \in Clients \cup {Free}
    <3>1. Metrics \in QueueMetrics /\ pc \in [Clients -> {"idle", "sending"}]
      BY DEF TypeOK
    <3>2. Metrics' \in QueueMetrics
      BY <1>0, <3>1 DEF QueueMetrics
    <3>. QED BY <1>0, <3>1, <3>2
  <2>3. /\ DOMAIN tasks' \subseteq IDs
        /\ \A id \in DOMAIN tasks' : tasks'[id] \in DOMAIN heap'
    BY <1>0, <1>1, <1>2 DEF TypeOK
  <2>4. /\ DOMAIN idempotency' \subseteq Keys
        /\ \A key \in DOMAIN idempotency' : idempotency'[key] \in IDs
    BY <1>0, <1>2 DEF TypeOK
  <2>5. /\ worker' \in {"receive", "start", "work"}
        /\ current' \in 0..Len(heap')
        /\ worker' # "receive" => current' # 0
    BY <1>0, <1>1 DEF TypeOK
  <2>. QED BY <1>1, <2>1, <2>2, <2>3, <2>4, <2>5 DEF TypeOK
<1>5. LockHeld'
  <2>1. pc \in [Clients -> {"idle", "sending"}] /\ \A d \in Clients : pc[d] # "sending"
    BY <1>0, QueueAssumption DEF TypeOK, LockHeld
  <2>. QED BY <1>0, <1>1, <2>1 DEF LockHeld
<1>6. ChannelInOrder'
  BY <1>0, <1>3 DEF ChannelInOrder
<1>7. Progress'
  <2>. SUFFICES ASSUME NEW i \in 1..(Len(heap) + 1)
                PROVE  heap'[i].State = StateOf(i)
    BY <1>0, <1>1, <1>3 DEF Progress, StateOf
  <2>1. CASE i \in 1..Len(heap)
    BY <2>1, <1>1 DEF Progress
  <2>2. CASE i = Len(heap) + 1
    <3>1. i > Taken
      BY <2>2, <1>1, <1>3, Lengths DEF Taken
    <3>2. StateOf(i) = "Pending"
      BY <3>1, <1>3, <2>2, <1>1 DEF StateOf
    <3>3. NewTask(r).State = "Pending"
      BY DEF NewTask
    <3>. QED BY <2>2, <1>1, <3>2, <3>3
  <2>. QED BY <2>1, <2>2, <1>1
<1>8. KeysUnique'
  <2>1. heap'[Len(heap) + 1].IdempotencyKey = r.IdempotencyKey
    <3>1. NewTask(r).IdempotencyKey = r.IdempotencyKey
      BY DEF NewTask
    <3>. QED BY <1>1, <3>1
  <2>2. \A i \in 1..Len(heap) : heap'[i].IdempotencyKey \in DOMAIN idempotency
    BY <1>1 DEF KeysUnique
  <2>3. \A i \in 1..(Len(heap) + 1) : heap'[i].IdempotencyKey \in DOMAIN idempotency'
    BY <1>1, <1>2, <2>1, <2>2
  <2>4. ASSUME NEW i \in 1..(Len(heap) + 1), NEW j \in 1..(Len(heap) + 1),
               heap'[i].IdempotencyKey = heap'[j].IdempotencyKey
        PROVE  i = j
    <3>1. CASE i \in 1..Len(heap) /\ j \in 1..Len(heap)
      BY <3>1, <2>4, <1>1 DEF KeysUnique
    <3>2. CASE i = Len(heap) + 1 /\ j \in 1..Len(heap)
      BY <3>2, <2>4, <2>1, <2>2, <1>0
    <3>3. CASE j = Len(heap) + 1 /\ i \in 1..Len(heap)
      BY <3>3, <2>4, <2>1, <2>2, <1>0
    <3>. QED BY <3>1, <3>2, <3>3, <1>1
  <2>. QED BY <2>3, <2>4, <1>1 DEF KeysUnique
<1>9. Counted'
  BY <1>0 DEF Counted, TypeOK, QueueMetrics
<1>. QED BY <1>4, <1>5, <1>6, <1>7, <1>8, <1>9

(* The created task is sent and the lock released. *)
LEMMA SendIInv ==
    ASSUME IInv, NEW c \in Clients, Send(c)
    PROVE  IInv'
<1>. USE DEF IInv
<1>0. /\ pc[c] = "sending" /\ mu = c /\ mu # Free /\ mu' = Free
      /\ pc' = [pc EXCEPT ![c] = "idle"]
      /\ pendingQueue' = Append(pendingQueue, Len(heap))
      /\ Len(pendingQueue) < maxDepth
      /\ UNCHANGED <<heap, tasks, idempotency, worker, current>>
      /\ Len(heap) > 0
  BY QueueAssumption DEF Send, LockHeld
<1>1. /\ Len(heap) \in Nat /\ DOMAIN heap = 1..Len(heap)
      /\ pendingQueue \in Seq(1..Len(heap))
      /\ Len(pendingQueue) \in Nat
  BY Lengths
<1>2. /\ pendingQueue' \in Seq(1..Len(heap))
      /\ Len(pendingQueue') = Len(pendingQueue) + 1
      /\ \A i \in 1..Len(pendingQueue) : pendingQueue'[i] = pendingQueue[i]
      /\ pendingQueue'[Len(pendingQueue) + 1] = Len(heap)
  <2>1. Len(heap) \in 1..Len(heap)
    BY <1>0, <1>1
  <2>. QED BY <1>0, <1>1, <2>1, AppendProperties
<1>3. /\ Sent = Len(heap) - 1 /\ Sent' = Len(heap)
      /\ Taken = Len(heap) - 1 - Len(pendingQueue)
      /\ Taken' = Taken
  BY <1>0, <1>1, <1>2 DEF Sent, Taken
<1>4. Metrics \in QueueMetrics /\ Metrics' = [Metrics EXCEPT !.Accepted = @ + 1]
  BY DEF Send, TypeOK
<1>5. TypeOK'
  <2>1. Metrics' \in QueueMetrics
    BY <1>4 DEF QueueMetrics
  <2>2. pc' \in [Clients -> {"idle", "sending"}]
    BY <1>0 DEF TypeOK
  <2>. QED BY <1>0, <1>1, <1>2, <2>1, <2>2 DEF TypeOK
<1>6. LockHeld'
  <2>1. pc \in [Clients -> {"idle", "sending"}]
    BY DEF TypeOK
  <2>2. \A d \in Clients : d # c => pc[d] # "sending"
    BY <1>0 DEF LockHeld
  <2>3. \A d \in Clients : pc'[d] # "sending" /\ d # Free
    BY <1>0, <2>1, <2>2, QueueAssumption
  <2>. QED BY <1>0, <2>3 DEF LockHeld
<1>7. ChannelInOrder'
  <2>1. Len(pendingQueue') <= maxDepth
    BY <1>0, <1>1, <1>2, QueueAssumption
  <2>2. ASSUME NEW i \in 1..Len(pendingQueue') PROVE pendingQueue'[i] = Taken' + i
    <3>1. CASE i \in 1..Len(pendingQueue)
      BY <3>1, <1>2, <1>3 DEF ChannelInOrder
    <3>2. CASE i = Len(pendingQueue) + 1
      BY <3>2, <1>1, <1>2, <1>3
    <3>. QED BY <3>1, <3>2, <1>1, <1>2
  <2>. QED BY <1>0, <1>3, <2>1, <2>2 DEF ChannelInOrder
<1>8. Progress' /\ KeysUnique'
  BY <1>0, <1>3 DEF Progress, StateOf, KeysUnique
<1>9. Counted'
  BY <1>0, <1>4 DEF QueueMetrics, Counted
<1>. QED BY <1>5, <1>6, <1>7, <1>8, <1>9

(* The worker takes the oldest task off the channel. *)
LEMMA ReceiveIInv ==
    ASSUME IInv, Receive
    PROVE  IInv'
<1>. USE DEF IInv
<1>0. /\ worker = "receive" /\ worker' = "start"
      /\ pendingQueue # << >>
      /\ current' = Head(pendingQueue)
      /\ pendingQueue' = Tail(pendingQueue)
      /\ UNCHANGED <<mu, heap, tasks, idempotency, Metrics, pc>>
  BY DEF Receive
<1>1. /\ Len(heap) \in Nat /\ DOMAIN heap = 1..Len(heap)
      /\ pendingQueue \in Seq(1..Len(heap))
      /\ Len(pendingQueue) \in Nat
      /\ Sent \in Int /\ Taken \in Int
  BY Lengths
<1>2. /\ pendingQueue' \in Seq(1..Len(heap))
      /\ Len(pendingQueue') = Len(pendingQueue) - 1
      /\ \A i \in 1..Len(pendingQueue') : pendingQueue'[i] = pendingQueue[i + 1]
      /\ Len(pendingQueue) > 0
      /\ current' = pendingQueue[1]
  BY <1>0, <1>1, HeadTailProperties, EmptySeq
<1>3. Sent' = Sent /\ Taken' = Taken + 1
  BY <1>0, <1>1, <1>2 DEF Sent, Taken
<1>4. current' = Taken' /\ Taken' > 0
  BY <1>1, <1>2, <1>3 DEF ChannelInOrder
<1>5. TypeOK'
  <2>1. current' \in 1..Len(heap)
    BY <1>1, <1>2, ElementOfSeq
  <2>. QED BY <1>0, <1>1, <1>2, <2>1 DEF TypeOK
<1>6. LockHeld' /\ KeysUnique' /\ Counted'
  BY <1>0 DEF LockHeld, KeysUnique, Counted
<1>7. ChannelInOrder'
  <2>1. Len(pendingQueue') <= maxDepth /\ (mu' # Free => Len(pendingQueue') < maxDepth)
    BY <1>0, <1>1, <1>2, QueueAssumption DEF ChannelInOrder
  <2>2. ASSUME NEW i \in 1..Len(pendingQueue') PROVE pendingQueue'[i] = Taken' + i
    <3>1. i + 1 \in 1..Len(pendingQueue)
      BY <1>1, <1>2
    <3>. QED BY <3>1, <1>1, <1>2, <1>3 DEF ChannelInOrder
  <2>3. Taken' >= 0
    BY <1>1, <1>3 DEF ChannelInOrder
  <2>. QED BY <1>0, <1>4, <2>1, <2>2, <2>3 DEF ChannelInOrder
<1>8. Progress'
  <2>. SUFFICES ASSUME NEW i \in 1..Len(heap) PROVE heap[i].State = StateOf(i)'
    BY <1>0 DEF Progress
  <2>1. heap[i].State = StateOf(i)
    BY DEF Progress
  <2>. QED BY <2>1, <1>0, <1>1, <1>3 DEF StateOf
<1>. QED BY <1>5, <1>6, <1>7, <1>8

(* The worker marks its task Running. *)
LEMMA MarkRunningIInv ==
    ASSUME IInv, MarkRunning
    PROVE  IInv'
<1>. USE DEF IInv
<1>0. /\ worker = "start" /\ worker' = "work" /\ mu = Free
      /\ UNCHANGED <<mu, tasks, idempotency, pendingQueue, Metrics, pc, current>>
  BY DEF MarkRunning
<1>1. /\ heap' \in Seq(Task)
      /\ Len(heap) \in Nat
      /\ Len(heap') = Len(heap)
      /\ DOMAIN heap' = DOMAIN heap
      /\ \A i \in 1..Len(heap) :
           /\ heap'[i].IdempotencyKey = heap[i].IdempotencyKey
           /\ heap'[i].State = IF i = current THEN "Running" ELSE heap[i].State
  BY MarkRunningHeap
<1>2. Sent' = Sent /\ Taken' = Taken /\ Taken \in Int
  BY <1>0, <1>1, Lengths DEF Sent, Taken
<1>3. TypeOK'
  BY <1>0, <1>1 DEF TypeOK
<1>4. LockHeld' /\ Counted' /\ KeysUnique'
  BY <1>0, <1>1 DEF LockHeld, Counted, KeysUnique
<1>5. ChannelInOrder'
  BY <1>0, <1>2 DEF ChannelInOrder
<1>6. Progress'
  <2>. SUFFICES ASSUME NEW i \in 1..Len(heap) PROVE heap'[i].State = StateOf(i)'
    BY <1>1 DEF Progress
  <2>1. heap[i].State = StateOf(i) /\ current = Taken
    BY <1>0 DEF Progress, ChannelInOrder
  <2>. QED BY <2>1, <1>0, <1>1, <1>2 DEF StateOf
<1>. QED BY <1>3, <1>4, <1>5, <1>6

(* The worker marks its task Done. *)
LEMMA MarkDoneIInv ==
    ASSUME IInv, MarkDone
    PROVE  IInv'
<1>. USE DEF IInv
<1>0. /\ worker = "work" /\ worker' = "receive" /\ mu = Free /\ current' = 0
      /\ UNCHANGED <<mu, tasks, idempotency, pendingQueue, Metrics, pc>>
  BY DEF MarkDone
<1>1. /\ heap' \in Seq(Task)
      /\ Len(heap) \in Nat
      /\ Len(heap') = Len(heap)
      /\ DOMAIN heap' = DOMAIN heap
      /\ \A i \in 1..Len(heap) :
           /\ heap'[i].IdempotencyKey = heap[i].IdempotencyKey
           /\ heap'[i].State = IF i = current THEN "Done" ELSE heap[i].State
  BY MarkDoneHeap
<1>2. Sent' = Sent /\ Taken' = Taken /\ Taken \in Int
  BY <1>0, <1>1, Lengths DEF Sent, Taken
<1>3. TypeOK'
  BY <1>0, <1>1 DEF TypeOK
<1>4. LockHeld' /\ Counted' /\ KeysUnique'
  BY <1>0, <1>1 DEF LockHeld, Counted, KeysUnique
<1>5. ChannelInOrder'
  BY <1>0, <1>2 DEF ChannelInOrder
<1>6. Progress'
  <2>. SUFFICES ASSUME NEW i \in 1..Len(heap) PROVE heap'[i].State = StateOf(i)'
    BY <1>1 DEF Progress
  <2>1. heap[i].State = StateOf(i) /\ current = Taken
    BY <1>0 DEF Progress, ChannelInOrder
  <2>. QED BY <2>1, <1>0, <1>1, <1>2 DEF StateOf
<1>. QED BY <1>3, <1>4, <1>5, <1>6

(* Every step preserves the invariant. *)
LEMMA NextIInv == IInv /\ [Next]_vars => IInv'
<1>. SUFFICES ASSUME IInv, [Next]_vars PROVE IInv'
  OBVIOUS
<1>1. ASSUME NEW c \in Clients, NEW r \in Requests, Dedupe(c, r) \/ Reject(c, r)
      PROVE  IInv'
  BY <1>1, CountOnlyIInv
<1>2. ASSUME NEW c \in Clients, NEW r \in Requests, Create(c, r) PROVE IInv'
  BY <1>2, CreateIInv
<1>3. ASSUME NEW c \in Clients, Send(c) PROVE IInv'
  BY <1>3, SendIInv
<1>4. CASE Receive
  BY <1>4, ReceiveIInv
<1>5. CASE MarkRunning
  BY <1>5, MarkRunningIInv
<1>6. CASE MarkDone
  BY <1>6, MarkDoneIInv
<1>7. CASE UNCHANGED vars
  BY <1>7 DEF vars, IInv, TypeOK, LockHeld, ChannelInOrder, Progress, StateOf,
     KeysUnique, Counted, Sent, Taken
<1>. QED BY <1>1, <1>2, <1>3, <1>4, <1>5, <1>6, <1>7 DEF Next, Submit

(* The inductive invariant. *)
THEOREM Inductive == Spec => []IInv
BY InitIInv, NextIInv, PTL DEF Spec

(* Type correctness: in particular the ID a map leads to, and the place in *)
(* the channel or in the worker's hand, always exist.                      *)
THEOREM TypeCorrect == Spec => []TypeOK
<1>1. IInv => TypeOK
  BY DEF IInv
<1>. QED BY Inductive, <1>1, PTL

(* Submit looks at the channel's length and sends later: for any depth and *)
(* any number of clients, the send made with the lock held never waits, so *)
(* the queue cannot deadlock against its worker.                           *)
THEOREM SubmitNeverBlocks == Spec => []SendNeverBlocks
<1>1. IInv => SendNeverBlocks
  BY QueueAssumption DEF IInv, LockHeld, ChannelInOrder, SendNeverBlocks
<1>. QED BY Inductive, <1>1, PTL

(* Every submission is counted exactly once. *)
THEOREM SubmissionsConserved == Spec => []Conservation
<1>1. IInv => Conservation
  BY DEF IInv, TypeOK, QueueMetrics, Counted, Conservation
<1>. QED BY Inductive, <1>1, PTL

----------------------------------------------------------------------------
(* Keys resolve to their own tasks when no ID is used with two keys.       *)

UniqueIDs == \A r, s \in Requests : r.ID = s.ID => r.IdempotencyKey = s.IdempotencyKey

(* An ID leads to the task that has it, and tasks were requested so. *)
IDsResolve ==
    /\ \A id \in DOMAIN tasks : heap[tasks[id]].ID = id
    /\ \A i \in 1..Len(heap) : \E r \in Requests :
          r.ID = heap[i].ID /\ r.IdempotencyKey = heap[i].IdempotencyKey

(* A step that leaves the maps, and the names of all tasks, preserves it.  *)
LEMMA SameNames ==
    ASSUME TypeOK, KeyResolvesToItsTask, IDsResolve,
           UNCHANGED <<tasks, idempotency>>, Len(heap') = Len(heap),
           \A i \in 1..Len(heap) : /\ heap'[i].ID = heap[i].ID
                                   /\ heap'[i].IdempotencyKey = heap[i].IdempotencyKey
    PROVE  KeyResolvesToItsTask' /\ IDsResolve'
<1>1. \A id \in DOMAIN tasks : tasks[id] \in 1..Len(heap)
  BY Lengths DEF TypeOK
<1>. QED BY <1>1 DEF KeyResolvesToItsTask, IDsResolve

(* A created task takes over no ID that belongs to another key. *)
LEMMA CreateResolves ==
    ASSUME IInv, UniqueIDs, KeyResolvesToItsTask, IDsResolve,
           NEW c \in Clients, NEW r \in Requests, Create(c, r)
    PROVE  KeyResolvesToItsTask' /\ IDsResolve'
<1>0. TypeOK /\ Remember(r) /\ r.IdempotencyKey \notin DOMAIN idempotency
  BY DEF IInv, Create
<1>1. /\ Len(heap) \in Nat
      /\ Len(heap') = Len(heap) + 1
      /\ DOMAIN heap = 1..Len(heap)
      /\ \A i \in 1..Len(heap) : heap'[i] = heap[i]
      /\ heap'[Len(heap) + 1] = NewTask(r)
  BY <1>0, RememberHeap
<1>2. NewTask(r).ID = r.ID /\ NewTask(r).IdempotencyKey = r.IdempotencyKey
  BY DEF NewTask
<1>3. /\ DOMAIN idempotency' = DOMAIN idempotency \cup {r.IdempotencyKey}
      /\ \A key \in DOMAIN idempotency' :
            idempotency'[key] = IF key = r.IdempotencyKey THEN r.ID ELSE idempotency[key]
      /\ DOMAIN tasks' = DOMAIN tasks \cup {r.ID}
      /\ \A id \in DOMAIN tasks' :
            tasks'[id] = IF id = r.ID THEN Len(heap) + 1 ELSE tasks[id]
  BY <1>0 DEF Remember, Put
<1>4. \A id \in DOMAIN tasks : tasks[id] \in 1..Len(heap)
  BY <1>0, <1>1 DEF TypeOK
<1>. HIDE DEF NewTask
<1>5. ASSUME NEW key \in DOMAIN idempotency, idempotency[key] = r.ID PROVE FALSE
  <2>1. /\ r.ID \in DOMAIN tasks
        /\ heap[tasks[r.ID]].IdempotencyKey = key
        /\ heap[tasks[r.ID]].ID = r.ID
    BY <1>5 DEF KeyResolvesToItsTask, IDsResolve
  <2>2. PICK s \in Requests :
          s.ID = heap[tasks[r.ID]].ID /\ s.IdempotencyKey = heap[tasks[r.ID]].IdempotencyKey
    BY <2>1, <1>4 DEF IDsResolve
  <2>3. r.IdempotencyKey = key
    BY <2>1, <2>2 DEF UniqueIDs
  <2>. QED BY <2>3, <1>0
<1>6. KeyResolvesToItsTask'
  <2>. SUFFICES ASSUME NEW key \in DOMAIN idempotency'
                PROVE  /\ idempotency'[key] \in DOMAIN tasks'
                       /\ heap'[tasks'[idempotency'[key]]].IdempotencyKey = key
    BY DEF KeyResolvesToItsTask
  <2>1. CASE key = r.IdempotencyKey
    BY <2>1, <1>1, <1>2, <1>3
  <2>2. CASE key # r.IdempotencyKey
    <3>1. /\ key \in DOMAIN idempotency /\ idempotency'[key] = idempotency[key]
          /\ idempotency[key] # r.ID
      BY <2>2, <1>3, <1>5
    <3>2. /\ idempotency[key] \in DOMAIN tasks
          /\ heap[tasks[idempotency[key]]].IdempotencyKey = key
      BY <3>1 DEF KeyResolvesToItsTask
    <3>. QED BY <3>1, <3>2, <1>1, <1>3, <1>4
  <2>. QED BY <2>1, <2>2
<1>7. IDsResolve'
  <2>1. \A id \in DOMAIN tasks' : heap'[tasks'[id]].ID = id
    BY <1>1, <1>2, <1>3, <1>4 DEF IDsResolve
  <2>2. ASSUME NEW i \in 1..(Len(heap) + 1)
        PROVE  \E s \in Requests : s.ID = heap'[i].ID /\ s.IdempotencyKey = heap'[i].IdempotencyKey
    <3>1. CASE i \in 1..Len(heap)
      BY <3>1, <1>1 DEF IDsResolve
    <3>2. CASE i = Len(heap) + 1
      BY <3>2, <1>1, <1>2
    <3>. QED BY <3>1, <3>2, <1>1
  <2>. QED BY <2>1, <2>2, <1>1 DEF IDsResolve
<1>. QED BY <1>6, <1>7

(* When every ID is used with one key only, a client that submits a key    *)
(* again gets the task accepted for that key, whatever was submitted,      *)
(* rejected and retried in between.                                        *)
THEOREM KeysResolve == UniqueIDs => (Spec => []KeyResolvesToItsTask)
<1>. SUFFICES ASSUME UniqueIDs PROVE Spec => []KeyResolvesToItsTask
  OBVIOUS
<1>. DEFINE Inv == KeyResolvesToItsTask /\ IDsResolve
<1>1. Init => Inv
  BY DEF Init, KeyResolvesToItsTask, IDsResolve
<1>2. ASSUME IInv, Inv, [Next]_vars PROVE Inv'
  <2>0. TypeOK
    BY <1>2 DEF IInv
  <2>1. ASSUME NEW c \in Clients, NEW r \in Requests, Create(c, r) PROVE Inv'
    BY <1>2, <2>1, CreateResolves
  <2>2. CASE MarkRunning
    BY <1>2, <2>0, <2>2, SameNames, MarkRunningHeap DEF MarkRunning
  <2>3. CASE MarkDone
    BY <1>2, <2>0, <2>3, SameNames, MarkDoneHeap DEF MarkDone
  <2>4. ASSUME UNCHANGED <<heap, tasks, idempotency>> PROVE Inv'
    BY <1>2, <2>4 DEF KeyResolvesToItsTask, IDsResolve
  <2>5. \/ \E c \in Clients, r \in Requests : Create(c, r)
        \/ MarkRunning \/ MarkDone
        \/ UNCHANGED <<heap, tasks, idempotency>>
    BY <1>2 DEF Next, Submit, Dedupe, Reject, Send, Receive, vars
  <2>. QED BY <2>1, <2>2, <2>3, <2>4, <2>5
<1>. QED BY <1>1, <1>2, Inductive, PTL DEF Spec

----------------------------------------------------------------------------
(* The refinement of JobService.                                           *)

Job == [key : Keys, state : TaskState]

(* The abstract jobs of any sequence of tasks. *)
LEMMA JobsOf ==
    ASSUME NEW h \in Seq(Task)
    PROVE  /\ [i \in DOMAIN h |-> [key |-> h[i].IdempotencyKey, state |-> h[i].State]]
                 \in Seq(Job)
           /\ Len([i \in DOMAIN h |-> [key |-> h[i].IdempotencyKey, state |-> h[i].State]])
                 = Len(h)
<1>. DEFINE J == [i \in DOMAIN h |-> [key |-> h[i].IdempotencyKey, state |-> h[i].State]]
<1>1. Len(h) \in Nat /\ DOMAIN h = 1..Len(h)
  BY LenProperties
<1>2. \A i \in 1..Len(h) : h[i] \in Task
  BY ElementOfSeq
<1>3. J \in [1..Len(h) -> Job]
  BY <1>1, <1>2 DEF Job, Task
<1>. HIDE DEF J, Job
<1>4. J \in Seq(Job) /\ Len(J) = Len(h)
  BY <1>1, <1>3
<1>. QED BY <1>4 DEF J

(* Those of heap. *)
LEMMA JobListFacts ==
    ASSUME TypeOK
    PROVE  /\ JobList \in Seq(Job)
           /\ Len(JobList) = Len(heap)
           /\ DOMAIN JobList = 1..Len(heap)
           /\ \A i \in 1..Len(heap) : /\ JobList[i].key = heap[i].IdempotencyKey
                                      /\ JobList[i].state = heap[i].State
<1>1. DOMAIN heap = 1..Len(heap)
  BY Lengths
<1>2. JobList \in Seq(Job) /\ Len(JobList) = Len(heap)
  BY JobsOf DEF TypeOK, JobList
<1>. QED BY <1>1, <1>2 DEF JobList

(* Creating a task accepts its key, which is new, while at most maxDepth   *)
(* jobs are unfinished.                                                    *)
LEMMA CreateAccepts ==
    ASSUME IInv, IInv', NEW c \in Clients, NEW r \in Requests, Create(c, r)
    PROVE  Jobs!Accept(r.IdempotencyKey)
<1>0. /\ TypeOK /\ TypeOK' /\ Remember(r) /\ mu = Free
      /\ r.IdempotencyKey \notin DOMAIN idempotency
      /\ ~(Len(pendingQueue) >= maxDepth)
  BY DEF IInv, Create, Enter, Full
<1>1. /\ Len(heap) \in Nat
      /\ Len(heap') = Len(heap) + 1
      /\ \A i \in 1..Len(heap) : heap'[i] = heap[i]
      /\ heap'[Len(heap) + 1] = NewTask(r)
      /\ NewTask(r) \in Task
      /\ Len(pendingQueue) \in Nat /\ Sent = Len(heap) /\ Taken \in Int
  BY <1>0, RememberHeap, Lengths DEF Sent
<1>2. /\ JobList \in Seq(Job)
      /\ Len(JobList) = Len(heap)
      /\ DOMAIN JobList = 1..Len(heap)
      /\ \A i \in 1..Len(heap) : /\ JobList[i].key = heap[i].IdempotencyKey
                                 /\ JobList[i].state = heap[i].State
  BY <1>0, JobListFacts
<1>3. \A i \in DOMAIN JobList : JobList[i].key # r.IdempotencyKey
  BY <1>0, <1>2 DEF IInv, KeysUnique
<1>4. ASSUME NEW i \in Jobs!Unfinished PROVE Len(JobList) - i < maxDepth
  <2>1. i \in 1..Len(heap) /\ heap[i].State # "Done"
    BY <1>2, <1>4 DEF Jobs!Unfinished
  <2>2. heap[i].State = StateOf(i)
    BY <2>1 DEF IInv, Progress
  <2>3. i >= Taken
    BY <1>1, <2>1, <2>2 DEF StateOf
  <2>. QED BY <1>0, <1>1, <1>2, <2>1, <2>3, QueueAssumption DEF Taken
<1>5. JobList' = Append(JobList, [key |-> r.IdempotencyKey, state |-> "Pending"])
  <2>. DEFINE job == [key |-> r.IdempotencyKey, state |-> "Pending"]
  <2>1. job \in Job
    BY DEF Job, Keys, TaskState
  <2>2. /\ Append(JobList, job) \in Seq(Job)
        /\ Len(Append(JobList, job)) = Len(heap) + 1
        /\ \A i \in 1..Len(heap) : Append(JobList, job)[i] = JobList[i]
        /\ Append(JobList, job)[Len(heap) + 1] = job
    <3>. HIDE DEF job, Job
    <3>. QED BY <2>1, <1>2, AppendProperties
  <2>3. /\ JobList' \in Seq(Job)
        /\ Len(JobList') = Len(heap) + 1
    BY <1>0, <1>1, JobsOf DEF TypeOK, JobList
  <2>4. JobList' = [i \in DOMAIN heap' |-> [key   |-> heap'[i].IdempotencyKey,
                                            state |-> heap'[i].State]]
    BY DEF JobList
  <2>5. DOMAIN heap' = 1..(Len(heap) + 1)
    BY <1>0, RememberHeap
  <2>6. JobList'[Len(heap) + 1] = job
    <3>1. NewTask(r).IdempotencyKey = r.IdempotencyKey /\ NewTask(r).State = "Pending"
      BY DEF NewTask
    <3>. QED BY <1>1, <2>4, <2>5, <3>1
  <2>7. \A i \in 1..Len(heap) : JobList'[i] = JobList[i]
    BY <1>0, <1>1, <2>4, <2>5, Lengths DEF JobList
  <2>8. \A i \in 1..Len(JobList') : JobList'[i] = Append(JobList, job)[i]
    <3>. HIDE DEF job
    <3>. QED BY <1>1, <2>2, <2>3, <2>6, <2>7
  <2>. HIDE DEF job, Job
  <2>9. JobList' = Append(JobList, job)
    BY <2>2, <2>3, <2>8, SeqEqual
  <2>. QED BY <2>9 DEF job
<1>. QED BY <1>3, <1>4, <1>5 DEF Jobs!Accept

(* A change of the worker's task, the oldest that is not done, advances    *)
(* its job.                                                                *)
LEMMA UpdateAdvances ==
    ASSUME IInv, IInv', current \in 1..Len(heap), current = Taken,
           NEW from, NEW to, heap[current].State = from,
           Len(heap') = Len(heap),
           \A i \in 1..Len(heap) :
              /\ heap'[i].IdempotencyKey = heap[i].IdempotencyKey
              /\ heap'[i].State = IF i = current THEN to ELSE heap[i].State
    PROVE  current \in DOMAIN JobList /\ Jobs!Advance(current, from, to)
<1>0. TypeOK /\ TypeOK'
  BY DEF IInv
<1>1. /\ Len(heap) \in Nat /\ DOMAIN heap = 1..Len(heap) /\ DOMAIN heap' = 1..Len(heap)
      /\ Taken \in Int
  <2>1. DOMAIN heap' = 1..Len(heap')
    BY <1>0, LenProperties DEF TypeOK
  <2>. QED BY <1>0, <2>1, Lengths
<1>2. /\ DOMAIN JobList = 1..Len(heap)
      /\ \A i \in 1..Len(heap) : /\ JobList[i].key = heap[i].IdempotencyKey
                                 /\ JobList[i].state = heap[i].State
  BY <1>0, JobListFacts
<1>3. \A j \in 1..Len(heap) : j < current => heap[j].State = "Done"
  BY <1>1 DEF IInv, Progress, StateOf
<1>4. JobList' = [JobList EXCEPT ![current].state = to]
  BY <1>1 DEF JobList
<1>. QED BY <1>1, <1>2, <1>3, <1>4 DEF Jobs!Advance

(* The queue implements the job service: for any number of clients and any *)
(* depth, no key is accepted twice, jobs run one at a time in the order of *)
(* their acceptance, and at most maxDepth wait besides the worker's.       *)
THEOREM RefinesJobService == Spec => ImplementsJobService
<1>1. Init => Jobs!Init
  <2>. SUFFICES ASSUME Init PROVE JobList = << >>
    BY DEF Jobs!Init
  <2>1. TypeOK /\ heap = << >>
    BY InitIInv DEF Init, IInv
  <2>2. JobList \in Seq(Job) /\ Len(JobList) = 0
    BY <2>1, JobListFacts
  <2>. HIDE DEF Job
  <2>. QED BY <2>2, EmptySeq
<1>2. ASSUME IInv, IInv', [Next]_vars PROVE [Jobs!Next]_JobList
  <2>1. ASSUME NEW c \in Clients, NEW r \in Requests, Create(c, r) PROVE Jobs!Next
    <3>1. r.IdempotencyKey \in Keys
      BY DEF Keys
    <3>. QED BY <1>2, <2>1, <3>1, CreateAccepts DEF Jobs!Next
  <2>2. CASE MarkRunning
    <3>1. TypeOK /\ current = Taken /\ heap[current].State = "Pending"
      <4>1. TypeOK /\ worker = "start" /\ current = Taken /\ current \in 1..Len(heap)
        BY <1>2, <2>2, MarkRunningHeap DEF MarkRunning, IInv, ChannelInOrder
      <4>2. heap[current].State = StateOf(current)
        BY <1>2, <4>1 DEF IInv, Progress
      <4>. QED BY <4>1, <4>2, Lengths DEF StateOf
    <3>2. current \in DOMAIN JobList /\ Jobs!Advance(current, "Pending", "Running")
      BY <1>2, <2>2, <3>1, MarkRunningHeap, UpdateAdvances
    <3>. QED BY <3>2 DEF Jobs!Next, Jobs!Start
  <2>3. CASE MarkDone
    <3>1. TypeOK /\ current = Taken /\ heap[current].State = "Running"
      <4>1. TypeOK /\ worker = "work" /\ current = Taken /\ current \in 1..Len(heap)
        BY <1>2, <2>3, MarkDoneHeap DEF MarkDone, IInv, ChannelInOrder
      <4>2. heap[current].State = StateOf(current)
        BY <1>2, <4>1 DEF IInv, Progress
      <4>. QED BY <4>1, <4>2, Lengths DEF StateOf
    <3>2. current \in DOMAIN JobList /\ Jobs!Advance(current, "Running", "Done")
      BY <1>2, <2>3, <3>1, MarkDoneHeap, UpdateAdvances
    <3>. QED BY <3>2 DEF Jobs!Next, Jobs!Finish
  <2>4. ASSUME UNCHANGED heap PROVE UNCHANGED JobList
    BY <2>4 DEF JobList
  <2>5. \/ \E c \in Clients, r \in Requests : Create(c, r)
        \/ MarkRunning \/ MarkDone
        \/ UNCHANGED heap
    BY <1>2 DEF Next, Submit, Dedupe, Reject, Send, Receive, vars
  <2>. QED BY <2>1, <2>2, <2>3, <2>4, <2>5
<1>. QED BY <1>1, <1>2, Inductive, PTL DEF Spec, ImplementsJobService, Jobs!Spec
=============================================================================
