---------------------------- MODULE EventStream ----------------------------
(***************************************************************************)
(* sibyl/gateway: HandleSSE and generateEvents of sse.go, once per client, *)
(* served as main.go does.  The handler starts a generator that writes the *)
(* events into the handler's response, and itself waits for the request's  *)
(* context, which the server cancels when it notices that the client has   *)
(* gone.  The two run concurrently to the end, and nothing joins them.     *)
(*                                                                         *)
(* An event is written in two lines; what they say is left out.  The lines *)
(* of both events fit the server's buffer, so only a flush or the end of   *)
(* the response sends them.  A response must not be written to after it    *)
(* has ended: its buffer may serve another client by then, or nobody.      *)
(* What that does to the server is undefined, and the model ends there.    *)
(***************************************************************************)
EXTENDS Integers, Sequences

CONSTANT Clients

Events == <<"conclusion", "chart">>

Lines(type) == <<<<"event", type>>, <<"data", type>>>>

(* What a client has read that has read n events. *)
Stream(n) == SubSeq(Lines(Events[1]) \o Lines(Events[2]), 1, 2 * n)

VARIABLES flusher,  \* can the response writer flush?
          pc,       \* the handler: "start", "waiting", "returned", "refused"
          gen,      \* the generator: "none", "select", "event", "data",
                    \* "flush" or "exited"
          next,     \* its event
          ctxDone,  \* the context of the request is over
          here,     \* is the client still there?
          buffer,   \* lines written and not sent
          wire,     \* lines the client has got
          late      \* the client whose response was written to after its
                    \* end, one or none

vars == <<flusher, pc, gen, next, ctxDone, here, buffer, wire, late>>

Init == /\ flusher \in [Clients -> BOOLEAN]
        /\ pc = [c \in Clients |-> "start"]
        /\ gen = [c \in Clients |-> "none"]
        /\ next = [c \in Clients |-> 1]
        /\ ctxDone = [c \in Clients |-> FALSE]
        /\ here = [c \in Clients |-> TRUE]
        /\ buffer = [c \in Clients |-> << >>]
        /\ wire = [c \in Clients |-> << >>]
        /\ late = {}

(* The response has ended; the server has sent its rest. *)
Ended(c) == pc[c] = "returned"

SendAgain(c, lines) ==                                            \* mutant
    /\ wire' = [wire EXCEPT ![c] = IF here[c] THEN @ \o lines ELSE @]
    /\ UNCHANGED buffer

(* Sends the lines to the client, if it is there. *)
Send(c, lines) ==
    /\ wire' = [wire EXCEPT ![c] = IF here[c] THEN @ \o lines ELSE @]
    /\ buffer' = [buffer EXCEPT ![c] = << >>]

----------------------------------------------------------------------------
(* The handler.                                                            *)

Start(c) ==
    /\ pc[c] = "start"
    /\ flusher[c]
    /\ pc' = [pc EXCEPT ![c] = "waiting"]
    /\ gen' = [gen EXCEPT ![c] = "select"]
    /\ UNCHANGED <<flusher, next, ctxDone, here, buffer, wire, late>>

(* Streaming unsupported: the server answers with an error. *)
Refuse(c) ==
    /\ pc[c] = "start"
    /\ ~flusher[c]
    /\ pc' = [pc EXCEPT ![c] = "refused"]
    /\ ctxDone' = [ctxDone EXCEPT ![c] = TRUE]
    /\ Send(c, <<"500">>)
    /\ UNCHANGED <<flusher, gen, next, here, late>>

WaitForNothing(c) == TRUE                                         \* mutant

WaitForDelivery(c) == wire[c] = Stream(Len(Events))               \* mutant

(* <-ctx.Done() *)
MayReturn(c) == ctxDone[c]

(* The handler returns, and the server ends the response and the context. *)
Return(c) ==
    /\ pc[c] = "waiting"
    /\ MayReturn(c)
    /\ pc' = [pc EXCEPT ![c] = "returned"]
    /\ ctxDone' = [ctxDone EXCEPT ![c] = TRUE]
    /\ Send(c, buffer[c])
    /\ UNCHANGED <<flusher, gen, next, here, late>>

----------------------------------------------------------------------------
(* The generator.                                                          *)

(* The select: it takes either branch when both are ready. *)
Stop(c) ==
    /\ gen[c] = "select"
    /\ ctxDone[c]
    /\ gen' = [gen EXCEPT ![c] = "exited"]
    /\ UNCHANGED <<flusher, pc, next, ctxDone, here, buffer, wire, late>>

Tick(c) ==
    /\ gen[c] = "select"
    /\ gen' = [gen EXCEPT ![c] = "event"]
    /\ UNCHANGED <<flusher, pc, next, ctxDone, here, buffer, wire, late>>

WriteLine(c) ==
    /\ gen[c] \in {"event", "data"}
    /\ gen' = [gen EXCEPT ![c] = IF @ = "event" THEN "data" ELSE "flush"]
    /\ IF Ended(c)
       THEN late' = {c} /\ UNCHANGED buffer
       ELSE /\ buffer' = [buffer EXCEPT ![c] = Append(@, <<gen[c], Events[next[c]]>>)]
            /\ UNCHANGED late
    /\ UNCHANGED <<flusher, pc, next, ctxDone, here, wire>>

LastDropped(c) == next[c] + 1 = Len(Events)                       \* mutant

LastEvent(c) == next[c] = Len(Events)

Flush(c) ==
    /\ gen[c] = "flush"
    /\ gen' = [gen EXCEPT ![c] = IF LastEvent(c) THEN "exited" ELSE "select"]
    /\ next' = [next EXCEPT ![c] = @ + 1]
    /\ IF Ended(c)
       THEN late' = {c} /\ UNCHANGED <<buffer, wire>>
       ELSE Send(c, buffer[c]) /\ UNCHANGED late
    /\ UNCHANGED <<flusher, pc, ctxDone, here>>

----------------------------------------------------------------------------
(* The client may leave whenever it likes; the server notices. *)
Leave(c) ==
    /\ here[c]
    /\ here' = [here EXCEPT ![c] = FALSE]
    /\ UNCHANGED <<flusher, pc, gen, next, ctxDone, buffer, wire, late>>

Notice(c) ==
    /\ ~here[c]
    /\ ~ctxDone[c]
    /\ ctxDone' = [ctxDone EXCEPT ![c] = TRUE]
    /\ UNCHANGED <<flusher, pc, gen, next, here, buffer, wire, late>>

Handler(c)   == Start(c) \/ Refuse(c) \/ Return(c)
Generator(c) == Stop(c) \/ Tick(c) \/ WriteLine(c) \/ Flush(c)

(* A step while the server's behaviour is defined. *)
Defined(A) == late = {} /\ A

Next == \E c \in Clients :
            Defined(Handler(c) \/ Generator(c) \/ Leave(c) \/ Notice(c))

(* Goroutines run, timers fire and the server reads; clients owe nothing. *)
Fairness == \A c \in Clients : /\ WF_vars(Defined(Handler(c)))
                               /\ WF_vars(Defined(Generator(c)))
                               /\ WF_vars(Defined(Notice(c)))

Spec == Init /\ [][Next]_vars /\ Fairness

----------------------------------------------------------------------------
TypeOK ==
    /\ flusher \in [Clients -> BOOLEAN]
    /\ pc \in [Clients -> {"start", "waiting", "returned", "refused"}]
    /\ gen \in [Clients -> {"none", "select", "event", "data", "flush", "exited"}]
    /\ next \in [Clients -> 1..(Len(Events) + 1)]
    /\ ctxDone \in [Clients -> BOOLEAN]
    /\ here \in [Clients -> BOOLEAN]
    /\ late \in SUBSET Clients
    /\ \A c \in Clients : gen[c] = "none" <=> pc[c] \in {"start", "refused"}
    /\ \A c \in Clients : Len(buffer[c]) <= 2

(* Whatever the moment of the end, a client reads whole events, in order,  *)
(* each once; or, when its response cannot be flushed, an error alone.     *)
WholeEvents ==
    \A c \in Clients :
        IF flusher[c] THEN \E n \in 0..Len(Events) : wire[c] = Stream(n)
                      ELSE wire[c] \in {<< >>, <<"500">>}

(* The handler and the generator are not joined, and the generator does    *)
(* write into a response that has ended; but only if its client has left.  *)
LateWritesAreUnread == \A c \in late : ~here[c]

(* A client that stays gets every event, unless some client's late write   *)
(* comes first.                                                            *)
EveryEventArrives ==
    \A c \in Clients :
        flusher[c] ~> (wire[c] = Stream(Len(Events)) \/ ~here[c] \/ late # {})

(* When the client has left, at whatever moment, both goroutines end, with *)
(* the same proviso.                                                       *)
NothingOutlivesTheClient ==
    \A c \in Clients :
        ~here[c] ~> \/ pc[c] # "waiting" /\ gen[c] \in {"none", "exited"}
                    \/ late # {}
=============================================================================
