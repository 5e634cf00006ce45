---------------------------- MODULE MCTaskQueue ----------------------------
(* TaskQueue with a channel of two places, so that it fills, and more      *)
(* requests than it holds.                                                 *)
EXTENDS TaskQueue

CONSTANTS c1, c2, k1, k2, k3, k4, i1, i2, i3, i4, i5

MCClients == {c1, c2}

(* Every ID belongs to one key; one key comes with two IDs, as when a      *)
(* client retries under a new ID.                                          *)
MCRequests ==
    { [ID |-> i1, IdempotencyKey |-> k1],
      [ID |-> i2, IdempotencyKey |-> k2],
      [ID |-> i3, IdempotencyKey |-> k3],
      [ID |-> i4, IdempotencyKey |-> k4],
      [ID |-> i5, IdempotencyKey |-> k1] }

(* One ID is used for two keys. *)
MCReusedID ==
    { [ID |-> i1, IdempotencyKey |-> k1],
      [ID |-> i1, IdempotencyKey |-> k2],
      [ID |-> i2, IdempotencyKey |-> k3] }
=============================================================================
