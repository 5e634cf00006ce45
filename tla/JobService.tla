----------------------------- MODULE JobService -----------------------------
(***************************************************************************)
(* What an asynchronous job queue with idempotency keys promises: a key is *)
(* accepted at most once, jobs are worked off one at a time and in the     *)
(* order they were accepted, every state is passed through, and at most    *)
(* Depth jobs wait besides the one being worked on.                        *)
(***************************************************************************)
EXTENDS Integers, Sequences

CONSTANTS Keys, Depth

VARIABLE jobs  \* the accepted jobs in order: [key, state]

Unfinished == {i \in DOMAIN jobs : jobs[i].state # "Done"}

Init == jobs = << >>

(* A new key is accepted while the unfinished jobs, which are the last in  *)
(* the order, are at most Depth.                                           *)
Accept(key) ==
    /\ \A i \in DOMAIN jobs : jobs[i].key # key
    /\ \A i \in Unfinished : Len(jobs) - i < Depth
    /\ jobs' = Append(jobs, [key |-> key, state |-> "Pending"])

(* Only the oldest unfinished job may be worked on. *)
Advance(i, from, to) ==
    /\ jobs[i].state = from
    /\ \A j \in DOMAIN jobs : j < i => jobs[j].state = "Done"
    /\ jobs' = [jobs EXCEPT ![i].state = to]

Start(i)  == Advance(i, "Pending", "Running")
Finish(i) == Advance(i, "Running", "Done")

Next == \/ \E key \in Keys : Accept(key)
        \/ \E i \in DOMAIN jobs : Start(i) \/ Finish(i)

Spec == Init /\ [][Next]_jobs
=============================================================================
