-------------------------- MODULE EventStreamProofs --------------------------
(***************************************************************************)
(* EventStream.tla for any set of clients.                                 *)
(*                                                                         *)
(* A response may end with a part of an event in its buffer, and the       *)
(* generator goes on after that.  WholeEvents survives both because the    *)
(* context of a waiting handler ends only once its client has left: what   *)
(* is sent from then on is read by nobody (StaysWhileServed).              *)
(***************************************************************************)
EXTENDS EventStream, SequenceTheorems, TLAPS

(* The lines of the event in hand that the generator has written. *)
Partial(c) == CASE gen[c] = "data"  -> <<<<"event", Events[next[c]]>>>>
                [] gen[c] = "flush" -> Lines(Events[next[c]])
                [] OTHER            -> << >>

(* The places of the handler and its generator belong together, and only a *)
(* response that can be flushed has a generator.                           *)
PlacesAgree(c) ==
    /\ gen[c] = "none" <=> pc[c] \in {"start", "refused"}
    /\ pc[c] = "refused" => ~flusher[c]
    /\ pc[c] \in {"waiting", "returned"} => flusher[c]
    /\ gen[c] \in {"none", "select", "event", "data", "flush"} => next[c] \in 1..2
    /\ pc[c] = "start" => next[c] = 1

(* The buffer holds what is written of the event in hand, and nothing once *)
(* the response has ended.                                                 *)
BufferHolds(c) == buffer[c] = IF Ended(c) THEN << >> ELSE Partial(c)

(* A client has read whole events, all that were flushed if it is there.   *)
WireHolds(c) ==
    IF flusher[c]
    THEN /\ \E n \in 0..2 : wire[c] = Stream(n)
         /\ here[c] => wire[c] = Stream(next[c] - 1)
    ELSE /\ wire[c] \in {<< >>, <<"500">>}
         /\ pc[c] = "start" => wire[c] = << >>

(* While its client is there a handler that may stream does not return. *)
StaysWhileServed(c) ==
    /\ pc[c] \in {"start", "waiting"} /\ ctxDone[c] => ~here[c]
    /\ pc[c] = "returned" => ~here[c]

ClientInv(c) == PlacesAgree(c) /\ BufferHolds(c) /\ WireHolds(c) /\ StaysWhileServed(c)

Types == /\ flusher \in [Clients -> BOOLEAN]
         /\ pc \in [Clients -> {"start", "waiting", "returned", "refused"}]
         /\ gen \in [Clients -> {"none", "select", "event", "data", "flush", "exited"}]
         /\ next \in [Clients -> 1..3]
         /\ ctxDone \in [Clients -> BOOLEAN]
         /\ here \in [Clients -> BOOLEAN]
         /\ buffer = [c \in Clients |-> buffer[c]]
         /\ wire = [c \in Clients |-> wire[c]]
         /\ late \in SUBSET Clients

IInv == /\ Types
        /\ \A c \in Clients : ClientInv(c)
        /\ \A c \in late : pc[c] = "returned"

----------------------------------------------------------------------------
LEMMA EventsAre == Len(Events) = 2 /\ Events[1] = "conclusion" /\ Events[2] = "chart"
BY DEF Events

(* One event more is its lines more. *)
LEMMA StreamGrows ==
    /\ Stream(0) = << >>
    /\ \A n \in 1..2 : Stream(n - 1) \o Lines(Events[n]) = Stream(n)
<1>1. Stream(0) = << >>
  BY DEF Stream, Lines, Events
<1>2. Stream(0) \o Lines(Events[1]) = Stream(1)
  BY DEF Stream, Lines, Events
<1>3. Stream(1) \o Lines(Events[2]) = Stream(2)
  BY DEF Stream, Lines, Events
<1>. QED BY <1>1, <1>2, <1>3

(* What a step of one client leaves alone. *)
Untouched(d) == /\ flusher'[d] = flusher[d] /\ pc'[d] = pc[d] /\ gen'[d] = gen[d]
                /\ next'[d] = next[d] /\ ctxDone'[d] = ctxDone[d] /\ here'[d] = here[d]
                /\ buffer'[d] = buffer[d] /\ wire'[d] = wire[d]

LEMMA UntouchedKeeps ==
    ASSUME NEW d \in Clients, ClientInv(d), Untouched(d)
    PROVE  ClientInv(d)'
<1>1. PlacesAgree(d)' /\ StaysWhileServed(d)' /\ (Ended(d)' <=> Ended(d))
  BY DEF ClientInv, Untouched, PlacesAgree, StaysWhileServed, Ended
<1>2. Partial(d)' = Partial(d)
  BY DEF Untouched, Partial, Events, Lines
<1>3. BufferHolds(d)'
  BY <1>1, <1>2 DEF ClientInv, Untouched, BufferHolds
<1>4. WireHolds(d)'
  BY DEF ClientInv, Untouched, WireHolds, Stream, Lines, Events
<1>. QED BY <1>1, <1>3, <1>4 DEF ClientInv

(* A step keeps the invariant if it keeps that of its client, leaves the   *)
(* others alone, and is late only after the end.                           *)
LEMMA OneClient ==
    ASSUME IInv, NEW c \in Clients, Types', ClientInv(c)',
           \A d \in Clients \ {c} : Untouched(d),
           late' = late \/ (late' = {c} /\ pc'[c] = "returned"),
           pc[c] = "returned" => pc'[c] = "returned"
    PROVE  IInv'
<1>1. \A d \in Clients : ClientInv(d)'
  BY UntouchedKeeps DEF IInv
<1>2. \A d \in late' : pc'[d] = "returned"
  BY DEF IInv, Types, Untouched
<1>. QED BY <1>1, <1>2 DEF IInv

(* Sending. *)
LEMMA SendEffect ==
    ASSUME Types, NEW c \in Clients, NEW lines, Send(c, lines)
    PROVE  /\ buffer'[c] = << >>
           /\ wire'[c] = IF here[c] THEN wire[c] \o lines ELSE wire[c]
           /\ \A d \in Clients \ {c} : buffer'[d] = buffer[d] /\ wire'[d] = wire[d]
           /\ buffer' = [d \in Clients |-> buffer'[d]]
           /\ wire' = [d \in Clients |-> wire'[d]]
    BY DEF Types, Send

----------------------------------------------------------------------------
(* The handler.                                                            *)

LEMMA StartIInv == ASSUME IInv, NEW c \in Clients, Start(c) PROVE IInv'
<1>1. /\ pc[c] = "start" /\ flusher[c]
      /\ pc' = [pc EXCEPT ![c] = "waiting"] /\ gen' = [gen EXCEPT ![c] = "select"]
      /\ UNCHANGED <<flusher, next, ctxDone, here, buffer, wire, late>>
  BY DEF Start
<1>2. Types'
  BY <1>1 DEF IInv, Types
<1>3. \A d \in Clients \ {c} : Untouched(d)
  BY <1>1 DEF IInv, Types, Untouched
<1>4. ClientInv(c) /\ pc'[c] = "waiting" /\ gen'[c] = "select"
  BY <1>1 DEF IInv, Types
<1>5. PlacesAgree(c)' /\ WireHolds(c)'
  BY <1>1, <1>4 DEF ClientInv, PlacesAgree, WireHolds, Stream, Lines, Events
<1>6. BufferHolds(c)'
  <2>1. Partial(c) = << >>
    BY <1>1, <1>4 DEF ClientInv, PlacesAgree, Partial
  <2>. QED BY <1>1, <1>4, <2>1 DEF ClientInv, BufferHolds, Partial, Ended
<1>7. StaysWhileServed(c)'
  BY <1>1, <1>4 DEF ClientInv, StaysWhileServed
<1>. QED BY <1>1, <1>2, <1>3, <1>4, <1>5, <1>6, <1>7, OneClient DEF ClientInv

LEMMA RefuseIInv == ASSUME IInv, NEW c \in Clients, Refuse(c) PROVE IInv'
<1>1. /\ pc[c] = "start" /\ ~flusher[c]
      /\ pc' = [pc EXCEPT ![c] = "refused"] /\ ctxDone' = [ctxDone EXCEPT ![c] = TRUE]
      /\ Send(c, <<"500">>)
      /\ UNCHANGED <<flusher, gen, next, here, late>>
  BY DEF Refuse
<1>2. /\ buffer'[c] = << >>
      /\ wire'[c] = IF here[c] THEN wire[c] \o <<"500">> ELSE wire[c]
      /\ \A d \in Clients \ {c} : buffer'[d] = buffer[d] /\ wire'[d] = wire[d]
      /\ buffer' = [d \in Clients |-> buffer'[d]]
      /\ wire' = [d \in Clients |-> wire'[d]]
  BY <1>1, SendEffect DEF IInv
<1>3. Types'
  BY <1>1, <1>2 DEF IInv, Types
<1>4. \A d \in Clients \ {c} : Untouched(d)
  BY <1>1, <1>2 DEF IInv, Types, Untouched
<1>5. ClientInv(c) /\ pc'[c] = "refused" /\ gen'[c] = "none" /\ gen[c] = "none"
  BY <1>1 DEF IInv, Types, ClientInv, PlacesAgree
<1>6. PlacesAgree(c)' /\ StaysWhileServed(c)'
  BY <1>1, <1>5 DEF ClientInv, PlacesAgree, StaysWhileServed
<1>7. BufferHolds(c)'
  BY <1>2, <1>5 DEF BufferHolds, Partial, Ended
<1>8. WireHolds(c)'
  <2>1. wire[c] = << >>
    BY <1>1, <1>5 DEF ClientInv, WireHolds
  <2>2. << >> \o <<"500">> = <<"500">>
    OBVIOUS
  <2>. QED BY <1>1, <1>2, <1>5, <2>1, <2>2 DEF WireHolds
<1>. QED BY <1>1, <1>3, <1>4, <1>5, <1>6, <1>7, <1>8, OneClient DEF ClientInv

LEMMA ReturnIInv == ASSUME IInv, NEW c \in Clients, Return(c) PROVE IInv'
<1>1. /\ pc[c] = "waiting" /\ ctxDone[c]
      /\ pc' = [pc EXCEPT ![c] = "returned"] /\ ctxDone' = [ctxDone EXCEPT ![c] = TRUE]
      /\ Send(c, buffer[c])
      /\ UNCHANGED <<flusher, gen, next, here, late>>
  BY DEF Return, MayReturn
<1>2. /\ ClientInv(c) /\ ~here[c]
      /\ pc'[c] = "returned"
  BY <1>1 DEF IInv, Types, ClientInv, StaysWhileServed
<1>3. /\ buffer'[c] = << >>
      /\ wire'[c] = wire[c]
      /\ \A d \in Clients \ {c} : buffer'[d] = buffer[d] /\ wire'[d] = wire[d]
      /\ buffer' = [d \in Clients |-> buffer'[d]]
      /\ wire' = [d \in Clients |-> wire'[d]]
  BY <1>1, <1>2, SendEffect DEF IInv
<1>4. Types'
  BY <1>1, <1>3 DEF IInv, Types
<1>5. \A d \in Clients \ {c} : Untouched(d)
  BY <1>1, <1>3 DEF IInv, Types, Untouched
<1>6. PlacesAgree(c)' /\ StaysWhileServed(c)'
  BY <1>1, <1>2 DEF ClientInv, PlacesAgree, StaysWhileServed
<1>7. BufferHolds(c)'
  BY <1>2, <1>3 DEF BufferHolds, Ended
<1>8. WireHolds(c)'
  BY <1>1, <1>2, <1>3 DEF ClientInv, PlacesAgree, WireHolds, Stream, Lines, Events
<1>. QED BY <1>1, <1>2, <1>4, <1>5, <1>6, <1>7, <1>8, OneClient DEF ClientInv

----------------------------------------------------------------------------
(* The generator.                                                          *)

LEMMA StopIInv == ASSUME IInv, NEW c \in Clients, Stop(c) PROVE IInv'
<1>1. /\ gen[c] = "select"
      /\ gen' = [gen EXCEPT ![c] = "exited"]
      /\ UNCHANGED <<flusher, pc, next, ctxDone, here, buffer, wire, late>>
  BY DEF Stop
<1>2. Types' /\ \A d \in Clients \ {c} : Untouched(d)
  BY <1>1 DEF IInv, Types, Untouched
<1>3. ClientInv(c) /\ gen'[c] = "exited"
  BY <1>1 DEF IInv, Types
<1>4. PlacesAgree(c)' /\ StaysWhileServed(c)'
  BY <1>1, <1>3 DEF ClientInv, PlacesAgree, StaysWhileServed
<1>5. BufferHolds(c)'
  BY <1>1, <1>3 DEF ClientInv, BufferHolds, Partial, Ended
<1>6. WireHolds(c)'
  BY <1>1, <1>3 DEF ClientInv, WireHolds, Stream, Lines, Events
<1>. QED BY <1>1, <1>2, <1>3, <1>4, <1>5, <1>6, OneClient DEF ClientInv

LEMMA TickIInv == ASSUME IInv, NEW c \in Clients, Tick(c) PROVE IInv'
<1>1. /\ gen[c] = "select"
      /\ gen' = [gen EXCEPT ![c] = "event"]
      /\ UNCHANGED <<flusher, pc, next, ctxDone, here, buffer, wire, late>>
  BY DEF Tick
<1>2. Types' /\ \A d \in Clients \ {c} : Untouched(d)
  BY <1>1 DEF IInv, Types, Untouched
<1>3. ClientInv(c) /\ gen'[c] = "event"
  BY <1>1 DEF IInv, Types
<1>4. PlacesAgree(c)' /\ StaysWhileServed(c)'
  BY <1>1, <1>3 DEF ClientInv, PlacesAgree, StaysWhileServed
<1>5. BufferHolds(c)'
  BY <1>1, <1>3 DEF ClientInv, BufferHolds, Partial, Ended
<1>6. WireHolds(c)'
  BY <1>1, <1>3 DEF ClientInv, WireHolds, Stream, Lines, Events
<1>. QED BY <1>1, <1>2, <1>3, <1>4, <1>5, <1>6, OneClient DEF ClientInv

(* A line more is a longer part of the event. *)
LEMMA PartialGrows ==
    ASSUME NEW e \in {"conclusion", "chart"}
    PROVE  /\ Append(<< >>, <<"event", e>>) = <<<<"event", e>>>>
           /\ Append(<<<<"event", e>>>>, <<"data", e>>) = Lines(e)
<1>1. Append(<< >>, <<"event", e>>) = <<<<"event", e>>>>
  OBVIOUS
<1>2. ASSUME NEW x, NEW y PROVE Append(<<x>>, y) = <<x, y>>
  <2>1. /\ <<x>> \in Seq({x, y}) /\ Len(<<x>>) = 1 /\ <<x>>[1] = x
        /\ <<x, y>> \in Seq({x, y}) /\ Len(<<x, y>>) = 2
        /\ <<x, y>>[1] = x /\ <<x, y>>[2] = y
    OBVIOUS
  <2>2. /\ Append(<<x>>, y) \in Seq({x, y}) /\ Len(Append(<<x>>, y)) = 2
        /\ Append(<<x>>, y)[1] = x /\ Append(<<x>>, y)[2] = y
    BY <2>1
  <2>3. \A i \in 1..2 : Append(<<x>>, y)[i] = <<x, y>>[i]
    BY <2>1, <2>2
  <2>. QED BY <2>1, <2>2, <2>3, SeqEqual
<1>. QED BY <1>1, <1>2 DEF Lines

LEMMA WriteLineIInv == ASSUME IInv, NEW c \in Clients, WriteLine(c) PROVE IInv'
<1>1. /\ gen[c] \in {"event", "data"}
      /\ gen' = [gen EXCEPT ![c] = IF @ = "event" THEN "data" ELSE "flush"]
      /\ IF pc[c] = "returned"
         THEN late' = {c} /\ UNCHANGED buffer
         ELSE /\ buffer' = [buffer EXCEPT ![c] = Append(@, <<gen[c], Events[next[c]]>>)]
              /\ UNCHANGED late
      /\ UNCHANGED <<flusher, pc, next, ctxDone, here, wire>>
  BY DEF WriteLine, Ended
<1>2. Types' /\ \A d \in Clients \ {c} : Untouched(d)
  BY <1>1 DEF IInv, Types, Untouched
<1>3. /\ ClientInv(c)
      /\ gen'[c] = IF gen[c] = "event" THEN "data" ELSE "flush"
      /\ buffer'[c] = IF pc[c] = "returned" THEN buffer[c]
                      ELSE Append(buffer[c], <<gen[c], Events[next[c]]>>)
  BY <1>1 DEF IInv, Types
<1>4. PlacesAgree(c)' /\ StaysWhileServed(c)'
  BY <1>1, <1>3 DEF ClientInv, PlacesAgree, StaysWhileServed
<1>5. BufferHolds(c)'
  <2>1. CASE pc[c] = "returned"
    BY <1>1, <1>3, <2>1 DEF ClientInv, BufferHolds, Ended
  <2>2. CASE pc[c] # "returned"
    <3>1. Events[next[c]] \in {"conclusion", "chart"}
      BY <1>1, <1>3, EventsAre DEF ClientInv, PlacesAgree
    <3>2. buffer'[c] = Append(Partial(c), <<gen[c], Events[next[c]]>>)
      BY <1>3, <2>2 DEF ClientInv, BufferHolds, Ended
    <3>3. Append(Partial(c), <<gen[c], Events[next[c]]>>) = Partial(c)'
      <4>1. CASE gen[c] = "event"
        BY <1>1, <1>3, <3>1, <4>1, PartialGrows DEF Partial, Events
      <4>2. CASE gen[c] = "data"
        BY <1>1, <1>3, <3>1, <4>2, PartialGrows DEF Partial, Lines, Events
      <4>. QED BY <1>1, <4>1, <4>2
    <3>. QED BY <1>1, <2>2, <3>2, <3>3 DEF BufferHolds, Ended
  <2>. QED BY <2>1, <2>2
<1>6. WireHolds(c)'
  BY <1>1, <1>3 DEF ClientInv, WireHolds, Stream, Lines, Events
<1>. QED BY <1>1, <1>2, <1>3, <1>4, <1>5, <1>6, OneClient DEF ClientInv

LEMMA FlushIInv == ASSUME IInv, NEW c \in Clients, Flush(c) PROVE IInv'
<1>1. /\ gen[c] = "flush"
      /\ gen' = [gen EXCEPT ![c] = IF next[c] = 2 THEN "exited" ELSE "select"]
      /\ next' = [next EXCEPT ![c] = @ + 1]
      /\ IF pc[c] = "returned"
         THEN late' = {c} /\ UNCHANGED <<buffer, wire>>
         ELSE Send(c, buffer[c]) /\ UNCHANGED late
      /\ UNCHANGED <<flusher, pc, ctxDone, here>>
  BY EventsAre DEF Flush, LastEvent, Ended
<1>2. /\ ClientInv(c) /\ next[c] \in 1..2 /\ flusher[c]
      /\ pc[c] \in {"waiting", "returned"} /\ (pc[c] = "returned" => ~here[c])
  BY <1>1 DEF IInv, Types, ClientInv, PlacesAgree, StaysWhileServed
<1>3. /\ IF pc[c] = "returned" THEN buffer'[c] = buffer[c] /\ wire'[c] = wire[c]
         ELSE buffer'[c] = << >>
              /\ wire'[c] = IF here[c] THEN wire[c] \o buffer[c] ELSE wire[c]
      /\ \A d \in Clients \ {c} : buffer'[d] = buffer[d] /\ wire'[d] = wire[d]
      /\ buffer' = [d \in Clients |-> buffer'[d]]
      /\ wire' = [d \in Clients |-> wire'[d]]
  <2>1. CASE pc[c] = "returned"
    BY <1>1, <2>1 DEF IInv, Types
  <2>2. CASE pc[c] # "returned"
    BY <1>1, <2>2, SendEffect DEF IInv
  <2>. QED BY <2>1, <2>2
<1>4. /\ gen'[c] \in {"exited", "select"} /\ (gen'[c] = "select" => next[c] = 1)
      /\ next'[c] = next[c] + 1
  BY <1>1, <1>2 DEF IInv, Types
<1>5. Types'
  <2>1. next' \in [Clients -> 1..3]
    BY <1>1, <1>2 DEF IInv, Types
  <2>2. gen' \in [Clients -> {"none", "select", "event", "data", "flush", "exited"}]
    BY <1>1 DEF IInv, Types
  <2>3. late' \in SUBSET Clients
    BY <1>1 DEF IInv, Types
  <2>. QED BY <1>1, <1>3, <2>1, <2>2, <2>3 DEF IInv, Types
<1>6. \A d \in Clients \ {c} : Untouched(d)
  BY <1>1, <1>3 DEF IInv, Types, Untouched
<1>7. PlacesAgree(c)' /\ StaysWhileServed(c)'
  BY <1>1, <1>2, <1>4 DEF ClientInv, PlacesAgree, StaysWhileServed
<1>8. BufferHolds(c)'
  <2>1. Partial(c)' = << >>
    BY <1>4 DEF Partial
  <2>. QED BY <1>1, <1>2, <1>3, <2>1 DEF ClientInv, BufferHolds, Ended
<1>9. WireHolds(c)'
  <2>1. CASE ~here[c]
    <3>1. wire'[c] = wire[c] /\ flusher'[c] = flusher[c] /\ here'[c] = here[c]
      BY <1>1, <1>3, <2>1
    <3>. QED BY <1>2, <2>1, <3>1 DEF ClientInv, WireHolds, Stream, Lines, Events
  <2>2. CASE here[c]
    <3>1. wire'[c] = wire[c] \o buffer[c] /\ buffer[c] = Lines(Events[next[c]])
      BY <1>1, <1>2, <1>3, <2>2 DEF ClientInv, BufferHolds, Ended, Partial
    <3>2. wire[c] = Stream(next[c] - 1)
      BY <1>2, <2>2 DEF ClientInv, WireHolds
    <3>3. wire'[c] = Stream(next[c])
      <4>1. Stream(next[c] - 1) \o Lines(Events[next[c]]) = Stream(next[c])
        BY <1>2, StreamGrows
      <4>. QED BY <3>1, <3>2, <4>1
    <3>4. next[c] = next'[c] - 1 /\ next[c] \in 0..2
      BY <1>2, <1>4
    <3>. QED BY <1>1, <1>2, <3>3, <3>4 DEF WireHolds, Stream, Lines, Events
  <2>. QED BY <2>1, <2>2
<1>. QED BY <1>1, <1>2, <1>5, <1>6, <1>7, <1>8, <1>9, OneClient DEF ClientInv

----------------------------------------------------------------------------
(* The client and the server's notice of its end.                          *)

LEMMA LeaveIInv == ASSUME IInv, NEW c \in Clients, Leave(c) PROVE IInv'
<1>1. /\ here' = [here EXCEPT ![c] = FALSE]
      /\ UNCHANGED <<flusher, pc, gen, next, ctxDone, buffer, wire, late>>
  BY DEF Leave
<1>2. Types' /\ \A d \in Clients \ {c} : Untouched(d)
  BY <1>1 DEF IInv, Types, Untouched
<1>3. ClientInv(c) /\ ~here'[c]
  BY <1>1 DEF IInv, Types
<1>4. PlacesAgree(c)' /\ StaysWhileServed(c)'
  BY <1>1, <1>3 DEF ClientInv, PlacesAgree, StaysWhileServed
<1>5. BufferHolds(c)'
  BY <1>1, <1>3 DEF ClientInv, BufferHolds, Partial, Ended, Lines, Events
<1>6. WireHolds(c)'
  BY <1>1, <1>3 DEF ClientInv, WireHolds, Stream, Lines, Events
<1>. QED BY <1>1, <1>2, <1>3, <1>4, <1>5, <1>6, OneClient DEF ClientInv

LEMMA NoticeIInv == ASSUME IInv, NEW c \in Clients, Notice(c) PROVE IInv'
<1>1. /\ ~here[c] /\ ctxDone' = [ctxDone EXCEPT ![c] = TRUE]
      /\ UNCHANGED <<flusher, pc, gen, next, here, buffer, wire, late>>
  BY DEF Notice
<1>2. Types' /\ \A d \in Clients \ {c} : Untouched(d)
  BY <1>1 DEF IInv, Types, Untouched
<1>3. ClientInv(c)
  BY DEF IInv
<1>4. PlacesAgree(c)' /\ StaysWhileServed(c)'
  BY <1>1, <1>3 DEF ClientInv, PlacesAgree, StaysWhileServed
<1>5. BufferHolds(c)'
  BY <1>1, <1>3 DEF ClientInv, BufferHolds, Partial, Ended, Lines, Events
<1>6. WireHolds(c)'
  BY <1>1, <1>3 DEF ClientInv, WireHolds, Stream, Lines, Events
<1>. QED BY <1>1, <1>2, <1>3, <1>4, <1>5, <1>6, OneClient DEF ClientInv

----------------------------------------------------------------------------
LEMMA InitIInv == Init => IInv
<1>. SUFFICES ASSUME Init PROVE IInv
  OBVIOUS
<1>1. Types
  <2>1. next \in [Clients -> 1..3]
    BY DEF Init
  <2>. QED BY <2>1 DEF Init, Types
<1>2. ASSUME NEW c \in Clients PROVE ClientInv(c)
  <2>1. /\ pc[c] = "start" /\ gen[c] = "none" /\ next[c] = 1 /\ ctxDone[c] = FALSE
        /\ here[c] = TRUE /\ buffer[c] = << >> /\ wire[c] = << >>
    BY DEF Init
  <2>2. PlacesAgree(c) /\ StaysWhileServed(c)
    BY <2>1 DEF PlacesAgree, StaysWhileServed
  <2>3. BufferHolds(c)
    BY <2>1 DEF BufferHolds, Partial, Ended
  <2>4. next[c] - 1 = 0
    BY <2>1
  <2>5. wire[c] = Stream(0) /\ wire[c] = Stream(next[c] - 1) /\ 0 \in 0..2
    BY <2>1, <2>4, StreamGrows
  <2>6. WireHolds(c)
    BY <2>1, <2>5 DEF WireHolds
  <2>. QED BY <2>2, <2>3, <2>6 DEF ClientInv
<1>. QED BY <1>1, <1>2 DEF IInv, Init

LEMMA StutterIInv == ASSUME IInv, UNCHANGED vars PROVE IInv'
<1>1. Types' /\ \A d \in Clients : Untouched(d)
  BY DEF IInv, Types, Untouched, vars
<1>2. \A d \in Clients : ClientInv(d)'
  BY <1>1, UntouchedKeeps DEF IInv
<1>. QED BY <1>1, <1>2 DEF IInv, vars

(* The invariant is inductive: one case per action. *)
THEOREM Inductive == Spec => []IInv
<1>1. ASSUME IInv, [Next]_vars PROVE IInv'
  <2>1. ASSUME NEW c \in Clients, Defined(Handler(c) \/ Generator(c) \/ Leave(c) \/ Notice(c))
        PROVE  IInv'
    <3>1. CASE Start(c)     BY <1>1, <3>1, StartIInv
    <3>2. CASE Refuse(c)    BY <1>1, <3>2, RefuseIInv
    <3>3. CASE Return(c)    BY <1>1, <3>3, ReturnIInv
    <3>4. CASE Stop(c)      BY <1>1, <3>4, StopIInv
    <3>5. CASE Tick(c)      BY <1>1, <3>5, TickIInv
    <3>6. CASE WriteLine(c) BY <1>1, <3>6, WriteLineIInv
    <3>7. CASE Flush(c)     BY <1>1, <3>7, FlushIInv
    <3>8. CASE Leave(c)     BY <1>1, <3>8, LeaveIInv
    <3>9. CASE Notice(c)    BY <1>1, <3>9, NoticeIInv
    <3>. QED BY <2>1, <3>1, <3>2, <3>3, <3>4, <3>5, <3>6, <3>7, <3>8, <3>9
             DEF Defined, Handler, Generator
  <2>. QED BY <1>1, <2>1, StutterIInv DEF Next
<1>. QED BY <1>1, InitIInv, PTL DEF Spec

(* Every place, counter and flag keeps its type; a handler waits exactly   *)
(* for a generator that was started, and the buffer never holds more than  *)
(* one event (HandleSSE and generateEvents of sse.go).                     *)
THEOREM TypeCorrect == Spec => []TypeOK
<1>1. ASSUME IInv PROVE TypeOK
  <2>1. \A c \in Clients : gen[c] = "none" <=> pc[c] \in {"start", "refused"}
    BY <1>1 DEF IInv, ClientInv, PlacesAgree
  <2>2. ASSUME NEW c \in Clients PROVE Len(buffer[c]) <= 2
    <3>1. Len(Partial(c)) <= 2
      BY DEF Partial, Lines
    <3>. QED BY <1>1, <3>1 DEF IInv, ClientInv, BufferHolds
  <2>3. 1..3 = 1..(Len(Events) + 1)
    BY EventsAre
  <2>. QED BY <1>1, <2>1, <2>2, <2>3 DEF IInv, Types, TypeOK
<1>. QED BY <1>1, Inductive, PTL

(* Whenever its response ends, a client has read whole events, in order,   *)
(* each once, or an error alone: a part of an event is never read, though  *)
(* handler and generator are not joined.                                   *)
THEOREM WholeEventsHolds == Spec => []WholeEvents
<1>1. ASSUME IInv PROVE WholeEvents
  <2>1. 0..2 = 0..Len(Events)
    BY EventsAre
  <2>2. \A c \in Clients : WireHolds(c)
    BY <1>1 DEF IInv, ClientInv
  <2>. QED BY <2>1, <2>2 DEF WholeEvents, WireHolds
<1>. QED BY <1>1, Inductive, PTL

(* The generator writes into a response that has ended only if its client  *)
(* had left: ctx.Done() fires for no other reason while the handler waits. *)
THEOREM LateWritesAreUnreadHolds == Spec => []LateWritesAreUnread
<1>1. ASSUME IInv PROVE LateWritesAreUnread
  BY <1>1 DEF IInv, Types, ClientInv, StaysWhileServed, LateWritesAreUnread
<1>. QED BY <1>1, Inductive, PTL
=============================================================================
