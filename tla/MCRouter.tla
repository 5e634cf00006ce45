------------------------------ MODULE MCRouter ------------------------------
(* Router with three candidates: the first is better than the second by    *)
(* its weight only, so that the order of the scores is not that of the     *)
(* prices, and the third has no weight and ties with the second.           *)
EXTENDS Router, TLC

CONSTANTS p1, p2

MCClients == {p1, p2}
Symmetry  == Permutations(Clients)

First  == [Name |-> 1, CostPer1K |-> 40, P50Millis |-> 200, Weight |-> 300]
Second == [Name |-> 2, CostPer1K |-> 20, P50Millis |-> 100, Weight |-> 10]
Tied   == [Name |-> 3, CostPer1K |-> 2,  P50Millis |-> 10,  Weight |-> 0]

(* The bench's pair for most tasks, another pair for some, and a caller    *)
(* that has no candidates.                                                 *)
MCLists == { <<First, Second>>, <<Tied, Second>>, << >> }

(* The bench's pair, or the second alone. *)
MCPairLists == { <<First, Second>>, <<Second>> }

(* The clock runs this long from its start. *)
MCMaxTime == StartTime + 3
=============================================================================
