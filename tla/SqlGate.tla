------------------------------ MODULE SqlGate ------------------------------
(***************************************************************************)
(* validate of sibyl/sibyl/sqlgate/gate.py on the trees of SqlTree.tla.    *)
(* It answers "ok" or with the first error it meets.                       *)
(***************************************************************************)
EXTENDS SqlTree

CONSTANTS Tables,      \* the tables of the schema
          FactTables,  \* those whose names begin with fact_
          MaxLimit     \* the greatest LIMIT (10000)

ASSUME GateAssumption == FactTables \subseteq Tables /\ MaxLimit \in Nat

FromOf(s)  == s.kids[2]
Where(s)   == s.kids[3]
GroupBy(s) == s.kids[4]
OrderBy(s) == s.kids[6]
LimitOf(s) == s.kids[7]

(* The first error of several checks that are made in turn. *)
FirstError(answers) ==
    LET errors == {i \in DOMAIN answers : answers[i] # "ok"}
    IN  IF errors = {} THEN "ok" ELSE answers[Min(errors)]

Demand(condition) == IF condition THEN "ok" ELSE "GateError"

FirstTableOnly(from) ==                                           \* mutant
    IF from.type = "Join" THEN <<from.kids[1]>> ELSE <<from>>

(* What is selected from: tables and subqueries. *)
Sources(from) ==
    IF from.type = "Join"
    THEN [i \in DOMAIN from.kids |-> IF i = 1 THEN from.kids[1] ELSE from.kids[i].kids[1]]
    ELSE <<from>>

(* The tables that are collected. *)
TablesOf(from) ==
    {source.val[1] : source \in {s \in ToSet(Sources(from)) : s.type = "Table"}}

(* The columns of an expression, without those of its subqueries. *)
ExtractColumns[expr \in Asts] ==
    CASE expr.type = "Column" -> {expr.val[Len(expr.val)]}
      [] expr.type = "Subquery" -> {}
      [] OTHER -> UNION {ExtractColumns[kid] : kid \in ToSet(expr.kids)}

NeverTrue(expr) == FALSE                                          \* mutant

(* What is always true: nothing at all, a literal TRUE, and an equation of *)
(* two literals with one value, like 1 = 1.  There is no literal TRUE in a *)
(* query, for the lexer takes the word for a name: WHERE TRUE is a column, *)
(* and is let through.                                                     *)
ConstTrue(expr) ==
    \/ ~Given(expr)
    \/ expr.type = "Literal" /\ expr.val[1] \in TrueWords
    \/ /\ expr.type = "BinaryOp"
       /\ expr.val = <<"=">>
       /\ \A kid \in ToSet(expr.kids) : kid.type = "Literal"
       /\ expr.kids[1].val = expr.kids[2].val

(* The columns of GROUP BY and ORDER BY are a list where the code that     *)
(* reads them takes an expression or None.                                 *)
ReadsList(s) == Given(GroupBy(s)) \/ Given(OrderBy(s))

(* The checks on one SELECT, around what its walks through the tables and  *)
(* the subqueries answer.                                                  *)
ValidateSelect(s, tables, subqueries) ==
    IF ~Given(LimitOf(s)) \/ ~Given(FromOf(s)) THEN "GateError"
    ELSE FirstError(<<
        Demand(NumberOf[LimitOf(s).val[1]] <= MaxLimit),
        tables,
        Demand(Given(Where(s)) /\ ~ConstTrue(Where(s))),
        Demand(TablesOf(FromOf(s)) \cap FactTables # {} => "dt" \in ExtractColumns[Where(s)]),
        IF ReadsList(s) THEN "TypeError" ELSE "ok",
        subqueries>>)

(* validate for a query, _collect_tables for what stands in FROM and       *)
(* _validate_subqueries for an expression: the type of a node tells which  *)
(* of them meets it.  A join condition and the arguments of a function are *)
(* not looked at, and where there is nothing below there is no error.      *)
Validate[node \in Asts] ==
    CASE node.type = "WriteStatement" -> "GateError"
      [] node.type = "Select" ->
             ValidateSelect(node, Validate[FromOf(node)], Validate[Where(node)])
      [] node.type = "Table" -> Demand(node.val[1] \in Tables)
      [] node.type \in {"Subquery", "Joined"} -> Validate[node.kids[1]]
      [] node.type = "Function" -> "ok"
      [] OTHER -> FirstError([i \in DOMAIN node.kids |-> Validate[node.kids[i]]])

----------------------------------------------------------------------------
(* What the gate promises, without the order of its checks and the early   *)
(* ends of its walks.                                                      *)

Itself(node) == IF node.type = "Select" THEN {node} ELSE {}

(* All SELECTs of a query. *)
Selects[node \in Asts] ==
    Itself(node) \cup UNION {Selects[node.kids[i]] : i \in DOMAIN node.kids}

(* The places no walk goes to: the arguments of a function, the condition  *)
(* of a join, and of a SELECT all but FROM and WHERE.                      *)
Unseen(node) ==
    CASE node.type = "Function" -> DOMAIN node.kids
      [] node.type = "Joined"   -> {2}
      [] node.type = "Select"   -> {1, 4, 5, 6, 7}
      [] OTHER -> {}

(* The SELECTs of a query that are not in such a place. *)
Checked[node \in Asts] ==
    Itself(node) \cup UNION {Checked[node.kids[i]] : i \in DOMAIN node.kids \ Unseen(node)}

(* A table is read when it is what stands in FROM or a part of a join. *)
ReadFrom(from) ==
    LET joined == IF from.type = "Join" THEN ToSet(from.kids) ELSE {}
        parts  == {from} \cup joined \cup UNION {ToSet(kid.kids) : kid \in joined}
    IN  {part.val[1] : part \in {p \in parts : p.type = "Table"}}

(* A literal TRUE, or an equation between literals that do not differ. *)
AlwaysTrue(expr) ==
    \/ expr.type = "Literal" /\ expr.val[1] \in TrueWords
    \/ /\ expr.type = "BinaryOp" /\ expr.val = <<"=">>
       /\ \A left, right \in ToSet(expr.kids) : left.type = "Literal" /\ left.val = right.val

(* The rules for a SELECT: it reads known tables and a bounded number of   *)
(* rows, it has a condition that is not always true, and where it reads a  *)
(* fact table it names the column the table is partitioned by.             *)
KeepsRules(s) ==
    /\ s.kids[7].type = "Limit" /\ NumberOf[s.kids[7].val[1]] <= MaxLimit
    /\ Given(Where(s)) /\ ~AlwaysTrue(Where(s))
    /\ ReadFrom(FromOf(s)) \subseteq Tables
    /\ ReadFrom(FromOf(s)) \cap FactTables # {} => "dt" \in ExtractColumns[Where(s)]

(* All that validate demands of one SELECT. *)
Accepted(s) ==
    /\ KeepsRules(s)
    /\ Given(FromOf(s))
    /\ ~Given(GroupBy(s)) /\ ~Given(OrderBy(s))

(* A query that writes nothing, and every SELECT of which keeps the rules. *)
Allowed(tree) == tree.type # "WriteStatement" /\ \A s \in Selects[tree] : KeepsRules(s)
=============================================================================
