-------------------------- MODULE MCCircuitBreaker --------------------------
(* CircuitBreaker with a window of two buckets and two callers, so that a  *)
(* request from before a trip can end during the trial after it.           *)
EXTENDS CircuitBreaker

CONSTANTS c1, c2

MCCallers == {c1, c2}

(* The clock runs this long from its start. *)
MCMaxTime == StartTime + 8
=============================================================================
