---------------------------- MODULE SibylParser ----------------------------
(***************************************************************************)
(* SibylBench.tla with the parser of SqlParser.tla.  What the model        *)
(* answers is the text of a tree, or something else.                       *)
(***************************************************************************)
EXTENDS SibylBench, SqlParser

CONSTANT Trees  \* queries the model may mean

(* The text of a tree.  The left side of an operator is bracketed when it  *)
(* is itself an operation, as the parser groups to the right.              *)
RECURSIVE Text(_)
Commas(kids) == FlattenSeq([i \in DOMAIN kids |->
                    IF i = 1 THEN Text(kids[i]) ELSE <<",">> \o Text(kids[i])])
Brackets(q) == <<"(">> \o q \o <<")">>
Dots(val)   == IF Len(val) = 2 THEN <<val[1], ".", val[2]>> ELSE val
Clause(words, node) == IF Given(node) THEN words \o Text(node) ELSE << >>

Text(node) ==
    LET k == node.kids
    IN CASE node.type \in {"Literal", "Limit"} -> node.val
         [] node.type = "Table"    -> node.val
         [] node.type = "Column"   -> Dots(node.val)
         [] node.type = "Function" -> Dots(node.val) \o Brackets(Commas(k))
         [] node.type = "List"     -> Commas(k)
         [] node.type = "Subquery" -> Brackets(Text(k[1])) \o node.val
         [] node.type \in {"BinaryOp", "LogicalOp"} ->
                (IF Len(k[1].kids) = 2 THEN Brackets(Text(k[1])) ELSE Text(k[1]))
                    \o node.val \o Text(k[2])
         [] node.type = "InOp" ->
                Text(k[1]) \o node.val
                    \o (IF k[2].type = "Subquery" THEN Text(k[2]) ELSE Brackets(Text(k[2])))
         [] node.type = "Joined" -> <<"JOIN">> \o Text(k[1]) \o Clause(<<"ON">>, k[2])
         [] node.type = "Join"   -> FlattenSeq([i \in DOMAIN k |-> Text(k[i])])
         [] node.type = "Union"  -> Text(k[1]) \o <<"UNION">> \o Text(k[2])
         [] node.type = "Select" ->
                <<"SELECT">> \o Text(k[1]) \o Clause(<<"FROM">>, k[2])
                    \o Clause(<<"WHERE">>, k[3]) \o Clause(<<"GROUP", "BY">>, k[4])
                    \o Clause(<<"HAVING">>, k[5]) \o Clause(<<"ORDER", "BY">>, k[6])
                    \o Clause(<<"LIMIT">>, k[7])

(* The parser reads an answer as it was meant: precedences aside, which it *)
(* does not have, no clause, operand, alias or bracket is lost or moved.   *)
ReadAsMeant == \A tree \in Trees : sql = Text(tree) => Parse(sql) = {tree}
=============================================================================
