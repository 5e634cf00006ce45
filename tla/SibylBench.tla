----------------------------- MODULE SibylBench -----------------------------
(***************************************************************************)
(* The agent part of sibyl/sibyl/bench.py: agent_loop with an executor     *)
(* that parses and validates the SQL before it runs it.  The parser is a   *)
(* parameter; SibylParser.tla puts that of SqlParser.tla in its place.     *)
(***************************************************************************)
EXTENDS AgentLoop, SqlGate

CONSTANTS Parser(_),      \* the tree of an answer, one or none
          ParserError(_)  \* what is raised if there is none

ASSUME ParserAssumption ==
    \A answer \in Sqls :
        /\ \A tree \in Parser(answer) :
               tree \in Asts /\ tree.type \in Queries \cup {"WriteStatement"}
        /\ Parser(answer) = {} => ParserError(answer) \in {"ParseError", "ValueError"}

vars == agentVars

(* mock_executor, and behind it a database that may answer or fail.        *)
GatedExecutor(answer) ==
    IF Parser(answer) = {} THEN {ParserError(answer)}
    ELSE UNION {IF Validate[tree] = "ok" THEN {"rows", "empty", "DatabaseError"}
                                         ELSE {Validate[tree]} : tree \in Parser(answer)}

Spec == AgentSpec

----------------------------------------------------------------------------
(* What the loop returns writes nothing, and every SELECT in it that does  *)
(* not stand in one of the places that the gate does not look at (Unseen)  *)
(* keeps every rule, whatever was tried and refused before.                *)
CheckedSelectsKeepRules ==
    pc = "succeeded" =>
        \E tree \in Parser(sql) :
            tree.type # "WriteStatement" /\ \A s \in Checked[tree] : KeepsRules(s)

(* The promise of the documentation, without such places: the subqueries   *)
(* of what the loop returns are checked at every depth, and no full table  *)
(* scan is let through.  The gate passes a scan in a column list.          *)
OnlyAllowedAnswers == pc = "succeeded" => \E tree \in Parser(sql) : Allowed(tree)

(* An attempt ends in a TypeError, which is not the gate's own error, only *)
(* for a GROUP BY or ORDER BY that the gate has come to.                   *)
TypeErrorsComeFromLists ==
    \A i \in DOMAIN history : history[i].error = "TypeError" =>
        \E tree \in Parser(history[i].sql) : \E s \in Checked[tree] :
            Given(GroupBy(s)) \/ Given(OrderBy(s))
=============================================================================
