---------------------------- MODULE GatewayProofs ----------------------------
(***************************************************************************)
(* Gateway.tla for any buffer size, any stream and any time.               *)
(*                                                                         *)
(* CompleteOnSuccess rests on what is known between two steps of the       *)
(* handler: what it has read and not written is in the buffer (Held), and  *)
(* an EOF it has been told of is the end the upstream made, with nothing   *)
(* left to read (EndSeen).  TimeAccounted rests on where the account stands*)
(* at each place of the handler (Accounts).                                *)
(***************************************************************************)
EXTENDS Gateway, TLAPS

Held == /\ pc \in {"create", "do", "answered", "read"} => n = 0 /\ flushed = taken
        /\ pc = "got" => flushed + n = taken

EndSeen == /\ pc \in {"read", "got"} => status = 200
           /\ pc = "got" /\ readErr = "EOF" => ending = "EOF" /\ taken = sent

(* Everything up to t2Start is charged while the handler runs, everything  *)
(* up to readStart while it waits.                                         *)
Accounts == /\ t2Start <= now /\ readStart <= now
            /\ pc \in {"create", "answered", "got"} => /\ overhead + upstream = t2Start
                                                       /\ upstream = waited
            /\ pc \in {"do", "read"} => /\ overhead + upstream = readStart
                                        /\ waited = upstream + (now - readStart)

(* The type invariant in three parts, which the provers take one by one. *)
NamesOK == /\ answer \in {"none", "refused", "bad", "ok"}
           /\ ending \in {"open", "EOF", "broken"}
           /\ gone \in BOOLEAN /\ reading \in BOOLEAN /\ flusher \in BOOLEAN
           /\ status \in {0, 200, 502, 503}
           /\ pc \in {"create", "do", "answered", "read", "got", "returned"}
           /\ resp \in {"none", "error", "bad", "ok"}
           /\ readErr \in {"nil", "EOF", "failed"}
           /\ err \in {"nil", "create", "connect", "status", "flusher", "write", "read"}

BytesOK == /\ sent \in 0..MaxBytes
           /\ taken \in 0..sent
           /\ n \in 0..BufferSize
           /\ flushed \in 0..(taken - n)

TimesOK == /\ now \in Nat /\ t2Start \in Nat /\ readStart \in Nat
           /\ overhead \in Nat /\ upstream \in Nat /\ waited \in Nat

IInv == /\ TypeOK
        /\ Held
        /\ EndSeen
        /\ Accounts
        /\ CompleteOnSuccess
        /\ TimeAccounted

----------------------------------------------------------------------------
LEMMA TypeParts == TypeOK <=> NamesOK /\ BytesOK /\ TimesOK
BY DEF TypeOK, NamesOK, BytesOK, TimesOK

LEMMA InitIInv == Init => IInv
<1>. SUFFICES ASSUME Init PROVE IInv
  OBVIOUS
<1>1. NamesOK
  BY DEF Init, NamesOK
<1>2. BytesOK /\ TimesOK
  BY GatewayAssumption DEF Init, BytesOK, TimesOK
<1>3. Held /\ EndSeen /\ Accounts /\ CompleteOnSuccess /\ TimeAccounted
  BY DEF Init, Held, EndSeen, Accounts, CompleteOnSuccess, TimeAccounted
<1>. QED BY <1>1, <1>2, <1>3, TypeParts DEF IInv

(* The handler begins to wait, stops waiting, or returns: the accounts. *)
LEMMA BeginWaitAccounts ==
    ASSUME IInv, pc \in {"create", "answered", "got"}, BeginWait, pc' \in {"do", "read"}
    PROVE  /\ Accounts' /\ TimeAccounted'
           /\ TimesOK'
<1>1. /\ TimesOK
      /\ t2Start <= now /\ overhead + upstream = t2Start /\ upstream = waited
  BY DEF IInv, TypeOK, TimesOK, Accounts
<1>2. /\ overhead' = overhead + (now - t2Start) /\ readStart' = now
      /\ UNCHANGED <<now, t2Start, upstream, waited>>
  BY DEF BeginWait, ChargeOverhead
<1>. QED BY <1>1, <1>2 DEF Accounts, TimeAccounted, TimesOK

LEMMA EndWaitAccounts ==
    ASSUME IInv, pc \in {"do", "read"}, EndWait, pc' \in {"answered", "got"}
    PROVE  /\ Accounts' /\ TimeAccounted'
           /\ TimesOK'
<1>1. /\ TimesOK
      /\ readStart <= now /\ overhead + upstream = readStart
      /\ waited = upstream + (now - readStart)
  BY DEF IInv, TypeOK, TimesOK, Accounts
<1>2. /\ upstream' = upstream + (now - readStart) /\ t2Start' = now
      /\ UNCHANGED <<now, readStart, overhead, waited>>
  BY DEF EndWait
<1>. QED BY <1>1, <1>2 DEF Accounts, TimeAccounted, TimesOK

LEMMA ReturnAccounts ==
    ASSUME IInv, pc \in {"create", "answered", "got"}, NEW e, Return(e)
    PROVE  /\ Accounts' /\ TimeAccounted' /\ pc' = "returned" /\ err' = e
           /\ TimesOK'
<1>1. /\ TimesOK
      /\ t2Start <= now /\ readStart <= now
      /\ overhead + upstream = t2Start /\ upstream = waited
  BY DEF IInv, TypeOK, TimesOK, Accounts
<1>2. /\ pc' = "returned" /\ err' = e
      /\ overhead' = overhead + (now - t2Start)
      /\ UNCHANGED <<now, t2Start, readStart, upstream, waited>>
  BY DEF Return, ChargeOverhead
<1>. QED BY <1>1, <1>2 DEF Accounts, TimeAccounted, TimesOK

----------------------------------------------------------------------------
(* The handler.                                                            *)

LEMMA NewRequestIInv == ASSUME IInv, NewRequest PROVE IInv'
<1>0. /\ pc = "create"
      /\ UNCHANGED <<answer, sent, ending, gone, reading, flusher, flushed, taken, n, readErr, resp>>
  BY DEF NewRequest, upVars, clientVars, bodyVars
<1>1. CASE Return("create") /\ status' = 503
  <2>1. /\ Accounts' /\ TimeAccounted' /\ pc' = "returned" /\ err' = "create"
        /\ TimesOK'
    BY <1>0, <1>1, ReturnAccounts
  <2>. QED BY <1>0, <1>1, <2>1 DEF IInv, TypeOK, TimesOK, Held, EndSeen, CompleteOnSuccess
<1>2. CASE pc' = "do" /\ BeginWait /\ UNCHANGED <<status, err>>
  <2>1. /\ Accounts' /\ TimeAccounted'
        /\ TimesOK'
    BY <1>0, <1>2, BeginWaitAccounts
  <2>. QED BY <1>0, <1>2, <2>1 DEF IInv, TypeOK, TimesOK, Held, EndSeen, CompleteOnSuccess
<1>. QED BY <1>1, <1>2 DEF NewRequest

LEMMA DoIInv == ASSUME IInv, Do PROVE IInv'
<1>1. /\ pc = "do" /\ pc' = "answered" /\ EndWait /\ resp' \in {"ok", "bad", "error"}
      /\ UNCHANGED <<answer, sent, ending, gone, reading, flusher, status, flushed, taken, n, readErr, err>>
  BY DEF Do, upVars, clientVars, bodyVars
<1>2. /\ Accounts' /\ TimeAccounted'
      /\ TimesOK'
  BY <1>1, EndWaitAccounts
<1>. QED BY <1>1, <1>2 DEF IInv, TypeOK, TimesOK, Held, EndSeen, CompleteOnSuccess

LEMMA AnsweredIInv == ASSUME IInv, Answered PROVE IInv'
<1>0. /\ pc = "answered"
      /\ UNCHANGED <<answer, sent, ending, gone, reading, flusher, flushed, taken, n, readErr, resp>>
  BY DEF Answered, upVars, clientVars, bodyVars
<1>1. ASSUME NEW e \in {"connect", "status", "flusher"}, Return(e), status' \in {503, 502, 200}
      PROVE  IInv'
  <2>1. /\ Accounts' /\ TimeAccounted' /\ pc' = "returned" /\ err' = e
        /\ TimesOK'
    BY <1>0, <1>1, ReturnAccounts
  <2>. QED BY <1>0, <1>1, <2>1 DEF IInv, TypeOK, TimesOK, Held, EndSeen, CompleteOnSuccess
<1>2. CASE status' = 200 /\ pc' = "read" /\ BeginWait /\ UNCHANGED err
  <2>1. /\ Accounts' /\ TimeAccounted'
        /\ TimesOK'
    BY <1>0, <1>2, BeginWaitAccounts
  <2>. QED BY <1>0, <1>2, <2>1 DEF IInv, TypeOK, TimesOK, Held, EndSeen, CompleteOnSuccess
<1>. QED BY <1>1, <1>2 DEF Answered

(* What Read returns with an EOF is the last of the body. *)
LEMMA ReadIInv == ASSUME IInv, Read PROVE IInv'
<1>1. /\ pc = "read" /\ pc' = "got" /\ EndWait
      /\ UNCHANGED <<answer, sent, ending, gone, reading, flusher, status, flushed, resp, err>>
  BY DEF Read, upVars, clientVars
<1>2. PICK m \in 0..BufferSize :
         /\ taken + m <= sent
         /\ readErr' \in ReadErrs(m)
         /\ n' = m
         /\ taken' = taken + m
  BY DEF Read
<1>3. /\ readErr' \in {"nil", "EOF", "failed"}
      /\ readErr' = "EOF" => ending = "EOF" /\ taken + m = sent
  BY <1>2 DEF ReadErrs
<1>4. /\ Accounts' /\ TimeAccounted'
      /\ TimesOK'
  BY <1>1, EndWaitAccounts
<1>5. /\ taken \in 0..sent /\ sent \in 0..MaxBytes /\ n = 0 /\ flushed = taken /\ status = 200
      /\ BufferSize \in Nat /\ MaxBytes \in Nat
  BY <1>1, GatewayAssumption DEF IInv, TypeOK, Held, EndSeen
<1>6. taken' \in 0..sent' /\ n' \in 0..BufferSize /\ flushed' \in 0..(taken' - n')
  BY <1>1, <1>2, <1>5
<1>7. NamesOK'
  BY <1>1, <1>3, TypeParts DEF IInv, NamesOK
<1>8. Held' /\ EndSeen' /\ CompleteOnSuccess'
  BY <1>1, <1>2, <1>3, <1>5 DEF Held, EndSeen, CompleteOnSuccess
<1>9. TypeOK'
  <2>1. BytesOK'
    BY <1>1, <1>5, <1>6 DEF IInv, TypeOK, BytesOK
  <2>. QED BY <1>4, <1>7, <2>1, Zenon DEF TypeOK, NamesOK, BytesOK, TimesOK
<1>. QED BY <1>4, <1>8, <1>9 DEF IInv

LEMMA WriteFailsIInv == ASSUME IInv, WriteFails PROVE IInv'
<1>1. /\ pc = "got" /\ Return("write")
      /\ UNCHANGED <<answer, sent, ending, gone, reading, flusher, status, flushed, taken, n, readErr, resp>>
  BY DEF WriteFails, upVars, clientVars, bodyVars
<1>2. /\ Accounts' /\ TimeAccounted' /\ pc' = "returned" /\ err' = "write"
      /\ TimesOK'
  BY <1>1, ReturnAccounts
<1>. QED BY <1>1, <1>2 DEF IInv, TypeOK, TimesOK, Held, EndSeen, CompleteOnSuccess

(* After a write everything read is flushed; with an EOF that is the whole *)
(* stream.                                                                 *)
LEMMA WriteIInv == ASSUME IInv, Write PROVE IInv'
<1>1. /\ pc = "got" /\ flushed' = flushed + n /\ n' = 0
      /\ UNCHANGED <<answer, sent, ending, gone, reading, flusher, status, taken, readErr, resp>>
  BY DEF Write, Forward, upVars, clientVars
<1>2. /\ flushed + n = taken /\ status = 200 /\ taken \in 0..sent /\ sent \in Nat
      /\ readErr = "EOF" => ending = "EOF" /\ taken = sent
      /\ BufferSize \in Nat
  BY <1>1, GatewayAssumption DEF IInv, Held, EndSeen, TypeOK
<1>3. flushed' = taken' /\ flushed' \in 0..(taken' - n') /\ n' \in 0..BufferSize
  BY <1>1, <1>2
<1>4. CASE readErr = "nil" /\ pc' = "read" /\ BeginWait /\ UNCHANGED err
  <2>1. /\ Accounts' /\ TimeAccounted'
        /\ TimesOK'
    BY <1>1, <1>4, BeginWaitAccounts
  <2>2. TypeOK'
    BY <1>1, <1>3, <1>4, <2>1 DEF IInv, TypeOK, TimesOK
  <2>. QED BY <1>1, <1>2, <1>3, <1>4, <2>1, <2>2 DEF IInv, Held, EndSeen, CompleteOnSuccess
<1>5. ASSUME NEW e \in {"nil", "read"}, Return(e), readErr = IF e = "nil" THEN "EOF" ELSE "failed"
      PROVE  IInv'
  <2>1. /\ Accounts' /\ TimeAccounted' /\ pc' = "returned" /\ err' = e
        /\ TimesOK'
    BY <1>1, <1>5, ReturnAccounts
  <2>2. TypeOK'
    <3>1. NamesOK'
      BY <1>1, <1>5, <2>1, TypeParts DEF IInv, NamesOK
    <3>2. BytesOK'
      BY <1>1, <1>2, <1>3 DEF IInv, TypeOK, BytesOK
    <3>. QED BY <2>1, <3>1, <3>2, Zenon DEF TypeOK, NamesOK, BytesOK, TimesOK
  <2>3. CompleteOnSuccess'
    BY <1>1, <1>2, <1>3, <1>5, <2>1 DEF CompleteOnSuccess
  <2>. QED BY <2>1, <2>2, <2>3 DEF IInv, Held, EndSeen
<1>. QED BY <1>4, <1>5 DEF Write

----------------------------------------------------------------------------
(* The upstream, the client and the clock.                                 *)

(* Neither sends a byte or an end after the end. *)
LEMMA OthersIInv == ASSUME IInv, Answer \/ Send \/ End \/ Leave \/ Pause PROVE IInv'
<1>0. UNCHANGED <<flusher, status, flushed, taken, n, readErr, pc, resp, err,
                  now, t2Start, readStart, overhead, upstream, waited>>
  BY DEF Answer, Send, End, Leave, Pause, clientVars, bodyVars, timeVars
<1>1. Held' /\ Accounts' /\ TimeAccounted'
  BY <1>0 DEF IInv, Held, Accounts, TimeAccounted
<1>2. EndSeen' /\ CompleteOnSuccess'
  BY <1>0 DEF IInv, EndSeen, CompleteOnSuccess, Answer, Send, End, Leave, Pause, upVars
<1>3. taken' \in 0..sent' /\ sent' \in 0..MaxBytes
  BY <1>0, GatewayAssumption DEF IInv, TypeOK, Answer, Send, End, Leave, Pause, upVars
<1>4. TypeOK'
  <2>1. NamesOK /\ BytesOK /\ TimesOK
    BY TypeParts DEF IInv
  <2>2. /\ answer' \in {"none", "refused", "bad", "ok"}
        /\ ending' \in {"open", "EOF", "broken"}
        /\ gone' \in BOOLEAN /\ reading' \in BOOLEAN
    <3>1. CASE Answer
      BY <2>1, <3>1 DEF NamesOK, Answer, clientVars
    <3>2. CASE Send \/ End
      BY <2>1, <3>2 DEF NamesOK, Send, End, clientVars
    <3>3. CASE Leave
      BY <2>1, <3>3 DEF NamesOK, Leave, upVars
    <3>4. CASE Pause
      BY <2>1, <3>4 DEF NamesOK, Pause, upVars
    <3>. QED BY <3>1, <3>2, <3>3, <3>4
  <2>3. NamesOK'
    BY <1>0, <2>1, <2>2 DEF NamesOK
  <2>4. BytesOK' /\ TimesOK'
    BY <1>0, <1>3, <2>1 DEF BytesOK, TimesOK
  <2>. QED BY <2>3, <2>4, Zenon DEF TypeOK, NamesOK, BytesOK, TimesOK
<1>. QED BY <1>1, <1>2, <1>4 DEF IInv

(* A unit of time is waited for or accounted for later. *)
LEMMA TickIInv == ASSUME IInv, Tick PROVE IInv'
<1>0. /\ pc # "returned" /\ now' = now + 1
      /\ waited' = IF pc \in {"do", "read"} THEN waited + 1 ELSE waited
      /\ UNCHANGED <<answer, sent, ending, gone, reading, flusher, status, flushed, taken, n, readErr,
                     pc, resp, err, t2Start, readStart, overhead, upstream>>
  BY DEF Tick, Waiting, upVars, clientVars, bodyVars
<1>1. TimesOK /\ TimesOK'
  BY <1>0 DEF IInv, TypeOK, TimesOK
<1>2. Accounts' /\ TimeAccounted'
  BY <1>0, <1>1 DEF IInv, Accounts, TimeAccounted, TimesOK
<1>3. TypeOK'
  BY <1>0, <1>1 DEF IInv, TypeOK, TimesOK
<1>4. Held' /\ EndSeen' /\ CompleteOnSuccess'
  BY <1>0 DEF IInv, Held, EndSeen, CompleteOnSuccess
<1>. QED BY <1>2, <1>3, <1>4 DEF IInv

LEMMA NextIInv == IInv /\ [Next]_vars => IInv'
<1>. SUFFICES ASSUME IInv, [Next]_vars PROVE IInv'
  OBVIOUS
<1>1. CASE UNCHANGED vars
  BY <1>1 DEF vars, upVars, clientVars, bodyVars, timeVars, IInv, TypeOK, Held, EndSeen,
     Accounts, CompleteOnSuccess, TimeAccounted
<1>2. CASE Next
  BY <1>2, NewRequestIInv, DoIInv, AnsweredIInv, ReadIInv, WriteFailsIInv, WriteIInv,
     OthersIInv, TickIInv DEF Next, Handler
<1>. QED BY <1>1, <1>2

----------------------------------------------------------------------------
(* The inductive invariant. *)
THEOREM Inductive == Spec => []IInv
BY InitIInv, NextIInv, PTL DEF Spec

(* Type correctness: of the body nothing is read that was not sent, and    *)
(* nothing is written that was not read.                                   *)
THEOREM TypeCorrect == Spec => []TypeOK
<1>1. IInv => TypeOK
  BY DEF IInv
<1>. QED BY Inductive, <1>1, PTL

(* ProxySSE without an error is a whole stream: for any buffer and any     *)
(* stream, cut into reads at any place and ended with or without bytes, a  *)
(* call that returns nil has flushed every byte up to an end the upstream  *)
(* has made.                                                               *)
THEOREM CompleteOnSuccessHolds == Spec => []CompleteOnSuccess
<1>1. IInv => CompleteOnSuccess
  BY DEF IInv
<1>. QED BY Inductive, <1>1, PTL

(* ProxySSE holds no byte back while it waits for more, whatever the size  *)
(* of its buffer.                                                          *)
THEOREM NothingHeldBackHolds == Spec => []NothingHeldBack
<1>1. IInv => NothingHeldBack
  BY DEF IInv, Held, NothingHeldBack, Waiting
<1>. QED BY Inductive, <1>1, PTL

(* On every way out of ProxySSE the time it reports is the time that has   *)
(* passed: each unit is charged once, as overhead or as a wait for the     *)
(* upstream.                                                               *)
THEOREM TimeAccountedHolds == Spec => []TimeAccounted
<1>1. IInv => TimeAccounted
  BY DEF IInv
<1>. QED BY Inductive, <1>1, PTL
=============================================================================
