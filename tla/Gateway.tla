------------------------------- MODULE Gateway -------------------------------
(***************************************************************************)
(* ProxySSE of nexus/internal/gateway/gateway.go: one request, between the *)
(* upstream that answers it and the client that waits for it.  The         *)
(* upstream may refuse, fail, stream, fall silent, end or break at any     *)
(* byte.  The client may stop reading, which holds up whoever writes to    *)
(* it, and may leave at any time, which cancels the request's context.     *)
(* Requests share nothing but the connection pool, so one is enough.       *)
(*                                                                         *)
(* The bytes of a stream keep their order on a connection, so a number     *)
(* says how far a stream has come.  Time passes in units; a reading of the *)
(* clock belongs to the step it is made in.                                *)
(***************************************************************************)
EXTENDS Integers

CONSTANTS BufferSize,  \* bytes read at once (4096)
          MaxBytes,    \* bound: bytes the upstream sends
          MaxTime      \* bound: the modelled clock stops here

ASSUME GatewayAssumption ==
    /\ BufferSize \in Nat \ {0}
    /\ MaxBytes \in Nat
    /\ MaxTime \in Nat

VARIABLES
    (* the upstream *)
    answer,     \* "none" yet, "refused", "bad" (not a 200) or "ok"
    sent,       \* bytes of the body it has sent
    ending,     \* the body is "open", ended by "EOF", or its connection "broken"
    (* the client *)
    gone,       \* it has left
    reading,    \* it reads what it is sent
    flusher,    \* its ResponseWriter is an http.Flusher
    status,     \* the status it got, 0 if none yet
    flushed,    \* bytes written to it and flushed
    (* the handler *)
    pc,         \* "create", "do", "answered", "read", "got" or "returned"
    resp,       \* what Do returned: "none" yet, "error", "bad" or "ok"
    taken,      \* bytes read from the body
    n,          \* bytes in the buffer
    readErr,    \* what Read returned with them: "nil", "EOF" or "failed"
    err,        \* what ProxySSE returned: "nil" or the step that failed
    (* the clock *)
    now, t2Start, readStart, overhead, upstream,
    waited      \* history: the time spent waiting for the upstream

upVars     == <<answer, sent, ending>>
clientVars == <<gone, reading, flusher>>
bodyVars   == <<flushed, taken, n, readErr>>
timeVars   == <<now, t2Start, readStart, overhead, upstream, waited>>
vars == <<upVars, clientVars, status, bodyVars, pc, resp, err, timeVars>>

Init == /\ answer = "none" /\ sent = 0 /\ ending = "open"
        /\ gone = FALSE /\ reading = TRUE /\ flusher \in BOOLEAN
        /\ status = 0 /\ flushed = 0
        /\ pc = "create" /\ resp = "none"
        /\ taken = 0 /\ n = 0 /\ readErr = "nil" /\ err = "nil"
        /\ now = 0 /\ t2Start = 0 /\ readStart = 0
        /\ overhead = 0 /\ upstream = 0 /\ waited = 0

----------------------------------------------------------------------------
(* The handler's accounts: overhead is the time since t2Start, taken when  *)
(* it returns or begins to wait; upstream the time since readStart, taken  *)
(* when the wait is over.                                                  *)

ChargeOverhead == overhead' = overhead + (now - t2Start)

BeginWait == /\ ChargeOverhead
             /\ readStart' = now
             /\ UNCHANGED <<now, t2Start, upstream, waited>>

EndWaitKeepingStart ==                                            \* mutant
    /\ upstream' = upstream + (now - readStart)
    /\ UNCHANGED <<now, t2Start, readStart, overhead, waited>>

EndWait == /\ upstream' = upstream + (now - readStart)
           /\ t2Start' = now
           /\ UNCHANGED <<now, readStart, overhead, waited>>

Return(e) == /\ pc' = "returned"
             /\ err' = e
             /\ ChargeOverhead
             /\ UNCHANGED <<now, t2Start, readStart, upstream, waited>>

----------------------------------------------------------------------------
(* The handler up to the body.                                             *)

(* NewRequestWithContext, which fails on a method or URL it cannot use.    *)
NewRequest ==
    /\ pc = "create"
    /\ \/ /\ Return("create")
          /\ status' = 503
       \/ /\ pc' = "do"
          /\ BeginWait
          /\ UNCHANGED <<status, err>>
    /\ UNCHANGED <<upVars, clientVars, bodyVars, resp>>

CanceledNever == FALSE                                            \* mutant

(* The request's context is the client's. *)
Canceled == gone

(* Do returns the upstream's answer, or an error. *)
Do == /\ pc = "do"
      /\ \/ answer \in {"ok", "bad"} /\ resp' = answer
         \/ (answer = "refused" \/ Canceled) /\ resp' = "error"
      /\ pc' = "answered"
      /\ EndWait
      /\ UNCHANGED <<upVars, clientVars, status, bodyVars, err>>

(* An error and a bad status are passed on and end the request; a 200 is   *)
(* passed on before anything is known of the body.                         *)
Answered ==
    /\ pc = "answered"
    /\ \/ resp = "error" /\ status' = 503 /\ Return("connect")
       \/ resp = "bad"   /\ status' = 502 /\ Return("status")
       \/ resp = "ok"    /\ status' = 200 /\ ~flusher /\ Return("flusher")
       \/ /\ resp = "ok" /\ status' = 200 /\ flusher
          /\ pc' = "read"
          /\ BeginWait
          /\ UNCHANGED err
    /\ UNCHANGED <<upVars, clientVars, bodyVars, resp>>

----------------------------------------------------------------------------
(* The body.                                                               *)

(* What Read may return with the last of m bytes of the body: the end that *)
(* comes with them, if they are the last, and an error, if the connection  *)
(* has broken or the request was cancelled.                                *)
ReadErrs(m) ==
       {e \in {"nil"} : m > 0}
    \cup {e \in {"EOF"} : ending = "EOF" /\ taken + m = sent}
    \cup {e \in {"failed"} : ending = "broken" \/ Canceled}

(* Read waits until it has something to return. *)
Read == /\ pc = "read"
        /\ \E m \in 0..BufferSize :
              /\ taken + m <= sent
              /\ \E e \in ReadErrs(m) : readErr' = e
              /\ n' = m
              /\ taken' = taken + m
        /\ pc' = "got"
        /\ EndWait
        /\ UNCHANGED <<upVars, clientVars, status, flushed, resp, err>>

ForwardUnlessEnded == flushed' = IF readErr = "nil" THEN flushed + n ELSE flushed  \* mutant

ForwardFullBuffers == flushed' = IF n = BufferSize THEN flushed + n ELSE flushed   \* mutant

ForwardWholeBuffer == flushed' = flushed + BufferSize                              \* mutant

(* The bytes read are written and flushed, whatever Read returned with     *)
(* them.                                                                   *)
Forward == flushed' = flushed + n

(* A write to a client that has left may fail. *)
WriteFails ==
    /\ pc = "got"
    /\ n > 0
    /\ gone
    /\ Return("write")
    /\ UNCHANGED <<upVars, clientVars, status, bodyVars, resp>>

(* Write and Flush have no timeout.  While the client stays and does not   *)
(* read they return as long as the connection's buffers have room, and     *)
(* else wait: a step that may be taken then, and need not.                 *)
Blocked == pc = "got" /\ n > 0 /\ ~reading /\ ~gone

(* The bytes go out, and the handler reads on or returns. *)
Write ==
    /\ pc = "got"
    /\ Forward
    /\ n' = 0
    /\ \/ readErr = "nil" /\ pc' = "read" /\ BeginWait /\ UNCHANGED err
       \/ readErr = "EOF" /\ Return("nil")
       \/ readErr = "failed" /\ Return("read")
    /\ UNCHANGED <<upVars, clientVars, status, taken, readErr, resp>>

Handler == NewRequest \/ Do \/ Answered \/ Read \/ WriteFails \/ Write

----------------------------------------------------------------------------
(* The upstream, the client and the clock.                                 *)

Answer == /\ pc = "do"
          /\ answer = "none"
          /\ answer' \in {"refused", "bad", "ok"}
          /\ UNCHANGED <<sent, ending, clientVars, status, bodyVars, pc, resp, err, timeVars>>

Send == /\ answer = "ok"
        /\ ending = "open"
        /\ sent' \in (sent + 1)..MaxBytes
        /\ UNCHANGED <<answer, ending, clientVars, status, bodyVars, pc, resp, err, timeVars>>

End == /\ answer = "ok"
       /\ ending = "open"
       /\ ending' \in {"EOF", "broken"}
       /\ UNCHANGED <<answer, sent, clientVars, status, bodyVars, pc, resp, err, timeVars>>

Leave == /\ ~gone
         /\ gone' = TRUE
         /\ UNCHANGED <<upVars, reading, flusher, status, bodyVars, pc, resp, err, timeVars>>

(* The client stops reading or reads on. *)
Pause == /\ ~gone
         /\ reading' = ~reading
         /\ UNCHANGED <<upVars, gone, flusher, status, bodyVars, pc, resp, err, timeVars>>

Waiting == pc \in {"do", "read"}

Tick == /\ pc # "returned"
        /\ now < MaxTime
        /\ now' = now + 1
        /\ waited' = IF Waiting THEN waited + 1 ELSE waited
        /\ UNCHANGED <<upVars, clientVars, status, bodyVars, pc, resp, err,
                       t2Start, readStart, overhead, upstream>>

Next == Handler \/ Answer \/ Send \/ End \/ Leave \/ Pause \/ Tick

Spec == Init /\ [][Next]_vars

(* The handler's goroutine runs whenever it does not wait; a Read or a Do  *)
(* whose wait is over, or whose context is cancelled, returns.  A write to *)
(* a client that does not read is not asked to return.                     *)
FairSpec == Spec /\ WF_vars(Handler /\ ~Blocked)

----------------------------------------------------------------------------
(* Type invariant: nothing is read that was not sent, and nothing is       *)
(* written that was not read.                                              *)
TypeOK ==
    /\ answer \in {"none", "refused", "bad", "ok"}
    /\ ending \in {"open", "EOF", "broken"}
    /\ sent \in 0..MaxBytes
    /\ gone \in BOOLEAN /\ reading \in BOOLEAN /\ flusher \in BOOLEAN
    /\ status \in {0, 200, 502, 503}
    /\ pc \in {"create", "do", "answered", "read", "got", "returned"}
    /\ resp \in {"none", "error", "bad", "ok"}
    /\ taken \in 0..sent
    /\ n \in 0..BufferSize
    /\ flushed \in 0..(taken - n)
    /\ readErr \in {"nil", "EOF", "failed"}
    /\ err \in {"nil", "create", "connect", "status", "flusher", "write", "read"}
    /\ now \in Nat /\ t2Start \in Nat /\ readStart \in Nat
    /\ overhead \in Nat /\ upstream \in Nat /\ waited \in Nat

(* A call that returns no error has passed on a whole stream: a 200 and    *)
(* every byte, up to an end the upstream itself has made.                  *)
CompleteOnSuccess ==
    pc = "returned" /\ err = "nil" =>
        status = 200 /\ ending = "EOF" /\ flushed = sent

(* The gateway holds nothing back: while it waits for more, every byte it  *)
(* has read has been written and flushed.                                  *)
NothingHeldBack == Waiting => flushed = taken

(* The gateway's overhead is the time spent in its own code, "without the  *)
(* wait for the upstream" (the definition in nexus/README.md): on every    *)
(* way out, each unit of the request's time is charged once, the waits to  *)
(* upstream and the rest to overhead.                                      *)
TimeAccounted ==
    pc = "returned" => /\ upstream = waited
                       /\ overhead + waited = now

(* The handler exits once the client has left or the upstream has refused; *)
(* and for a client that in the end keeps reading, once the upstream is    *)
(* done.  One that stays and stops reading can hold it for ever.           *)
HandlerEnds ==
    /\ gone \/ answer \in {"refused", "bad"} ~> pc = "returned"
    /\ <>[]reading => (ending # "open" ~> pc = "returned")
=============================================================================
