------------------------------ MODULE SqlTree ------------------------------
(***************************************************************************)
(* The trees that sibyl/sibyl/sqlgate/parser.py builds and gate.py walks.  *)
(* A node is [type, val, kids]; the fields that the code names are here    *)
(* told by their place in kids, and a field that is None by Absent.        *)
(***************************************************************************)
EXTENDS Integers, Sequences, SequencesExt

CONSTANTS Asts,       \* the trees there are, each with all that is below it
          Height(_),  \* what goes down from a node to those below it
          NumberOf,   \* the value of the tokens that are whole numbers
          TrueWords   \* the tokens that are TRUE in capital letters

Node(type, val, kids) == [type |-> type, val |-> val, kids |-> kids]

Absent == Node("Absent", << >>, << >>)  \* a clause that is not there

Given(clause) == clause # Absent

Queries    == {"Select", "Union"}
TableExprs == {"Table", "Subquery"}
Exprs      == {"Literal", "Column", "Unknown", "Function", "Subquery",
               "BinaryOp", "LogicalOp", "InOp"}
Leaves     == {"Table", "Literal", "Column", "Unknown", "Limit", "Absent",
               "WriteStatement"}

Fits(kids, types) == /\ DOMAIN kids = DOMAIN types
                     /\ \A i \in DOMAIN types : kids[i].type \in types[i]

(* What the parser puts below a node of each type. *)
WellFormed(node) ==
    \/ node.type \in Leaves /\ node.kids = << >> /\ (node.type = "Absent" => node = Absent)
    \/ /\ node.type \in {"List", "Function"}
       /\ \A i \in DOMAIN node.kids : node.kids[i].type \in Exprs
    \/ node.type \in {"BinaryOp", "LogicalOp"} /\ Fits(node.kids, <<Exprs, Exprs>>)
    \/ node.type = "InOp" /\ Fits(node.kids, <<Exprs, {"List", "Subquery"}>>)
    \/ node.type = "Subquery" /\ Fits(node.kids, <<Queries>>)
    \/ node.type = "Joined" /\ Fits(node.kids, <<TableExprs, Exprs \cup {"Absent"}>>)
    \/ /\ node.type = "Join"
       /\ 1 \in DOMAIN node.kids
       /\ \A i \in DOMAIN node.kids : node.kids[i].type \in IF i = 1 THEN TableExprs ELSE {"Joined"}
    \/ node.type = "Union" /\ Fits(node.kids, <<Queries, Queries>>)
    \/ /\ node.type = "Select"
       /\ Fits(node.kids, <<{"List"}, TableExprs \cup {"Join", "Absent"}, Exprs \cup {"Absent"},
                            {"List", "Absent"}, Exprs \cup {"Absent"}, {"List", "Absent"},
                            {"Limit", "Absent"}>>)

ASSUME TreeAssumption ==
    \A node \in Asts :
        /\ node.kids \in Seq(Asts)
        /\ Height(node) \in Nat
        /\ \A i \in DOMAIN node.kids : Height(node.kids[i]) < Height(node)
        /\ WellFormed(node)
=============================================================================
