----------------------------- MODULE MCGateway -----------------------------
(* Gateway with a buffer of two bytes and a stream of up to three.         *)
EXTENDS Gateway
=============================================================================
