----------------------------- MODULE SqlParser -----------------------------
(***************************************************************************)
(* The recursive descent parser of sibyl/sibyl/sqlgate/parser.py.          *)
(*                                                                         *)
(* A query is the sequence of tokens the lexer makes of a text: without    *)
(* blanks and comments, keywords in upper case.  A token is a string that  *)
(* tells its own kind.  A parser function takes a query and a position and *)
(* returns a set of [node, pos]: one result or, where the code raises a    *)
(* ParseError, none.  Position 0 is that of a ValueError: no token is      *)
(* there, so that all that is still to be parsed leaves it as it is.       *)
(***************************************************************************)
EXTENDS SqlTree

CONSTANTS Idents,   \* the tokens that are names, "*" among them
          Strings,  \* the tokens that are quoted strings
          Numbers   \* the tokens that are numbers

Writes      == {"INSERT", "UPDATE", "DELETE", "DROP", "ALTER", "GRANT"}
Comparisons == {"=", "!=", "<>", "<", ">", "<=", ">="}
Keywords    == Writes \cup {"SELECT", "FROM", "WHERE", "JOIN", "ON", "GROUP",
                   "BY", "HAVING", "ORDER", "LIMIT", "IN", "AND", "OR", "AS",
                   "UNION", "LEFT", "RIGHT", "INNER", "OUTER"}

ASSUME TokenAssumption ==
    /\ Idents \cap (Strings \cup Numbers \cup Keywords) = {}
    /\ Numbers \cap (Strings \cup Keywords) = {}
    /\ DOMAIN NumberOf \subseteq Numbers
    /\ TrueWords \subseteq Idents

(* peek *)
At(q, i) == IF i \in DOMAIN q THEN q[i] ELSE "EOF"

Got(node, i) == {[node |-> node, pos |-> i]}

Raised == 0

(* consume: the results that the token follows. *)
Before(q, token, results) ==
         {[r EXCEPT !.pos = @ + 1] : r \in {s \in results : At(q, s.pos) = token}}
    \cup {r \in results : r.pos = Raised}

Wrap(type, results) == {[r EXCEPT !.node = Node(type, << >>, <<@>>)] : r \in results}

RECURSIVE Query(_, _), Expr(_, _), ColumnList(_, _), Operators(_, _, _),
          Joins(_, _, _), Unions(_, _, _)

----------------------------------------------------------------------------
(* Expressions.  An operator takes all that follows it as its right side,  *)
(* whatever the operators there: there are no precedences.                 *)

ColumnList(q, i) ==
    UNION {IF At(q, r.pos) = ","
           THEN {[node |-> Node("List", << >>, <<r.node>> \o s.node.kids), pos |-> s.pos] :
                     s \in ColumnList(q, r.pos + 1)}
           ELSE Got(Node("List", << >>, <<r.node>>), r.pos) : r \in Expr(q, i)}

(* A name, with a second part or not, is a column or calls a function. *)
Name(q, i) ==
    LET dotted == At(q, i + 1) = "."
        name   == IF dotted THEN <<q[i], At(q, i + 2)>> ELSE <<q[i]>>
        j      == i + 2 * Len(name) - 1
    IN  IF dotted /\ At(q, i + 2) \notin Idents THEN {}
        ELSE IF At(q, j) # "(" THEN Got(Node("Column", name, << >>), j)
        ELSE IF At(q, j + 1) = ")" THEN Got(Node("Function", name, << >>), j + 2)
        ELSE {[r EXCEPT !.node = Node("Function", name, @.kids)] :
                  r \in Before(q, ")", ColumnList(q, j + 1))}

(* Behind a bracket: a query or what else may stand there. *)
Inside(q, i, other(_, _)) ==
    Before(q, ")", IF At(q, i) = "SELECT" THEN Wrap("Subquery", Query(q, i))
                                          ELSE other(q, i))

Operand(q, i) ==
    CASE At(q, i) = "EOF" -> {}
      [] At(q, i) = "("   -> Inside(q, i + 1, Expr)
      [] At(q, i) \in Idents -> Name(q, i)
      [] At(q, i) \in Numbers \cup Strings -> Got(Node("Literal", <<q[i]>>, << >>), i + 1)
      [] OTHER -> Got(Node("Unknown", <<At(q, i)>>, << >>), i + 1)

Operators(q, left, i) ==
    LET Continue(type, results) ==
            UNION {Operators(q, Node(type, <<At(q, i)>>, <<left, r.node>>), r.pos) :
                       r \in results}
    IN  CASE At(q, i) \in Comparisons   -> Continue("BinaryOp", Expr(q, i + 1))
          [] At(q, i) \in {"AND", "OR"} -> Continue("LogicalOp", Expr(q, i + 1))
          [] At(q, i) = "IN" -> IF At(q, i + 1) = "("
                                THEN Continue("InOp", Inside(q, i + 2, ColumnList))
                                ELSE {}
          [] OTHER -> Got(left, i)

Expr(q, i) == UNION {Operators(q, r.node, r.pos) : r \in Operand(q, i)}

----------------------------------------------------------------------------
(* Queries.                                                                *)

(* An alias follows the name of a table in its node. *)
Alias(q, r) ==
    LET i == IF At(q, r.pos) = "AS" THEN r.pos + 1 ELSE r.pos
    IN  IF At(q, i) \in Idents
        THEN Got([r.node EXCEPT !.val = Append(@, q[i])], i + 1)
        ELSE {s \in {r} : i = r.pos}

TableExpr(q, i) ==
    UNION {Alias(q, r) : r \in
        IF At(q, i) = "(" THEN Before(q, ")", Wrap("Subquery", Query(q, i + 1)))
        ELSE IF At(q, i) \in Idents THEN Got(Node("Table", <<q[i]>>, << >>), i + 1)
        ELSE {}}

(* An optional clause: the words that begin it, and what they demand. *)
Optional(q, i, words, clause(_, _)) ==
    IF At(q, i) # words[1] THEN Got(Absent, i)
    ELSE IF \A k \in DOMAIN words : At(q, i + k - 1) = words[k]
    THEN clause(q, i + Len(words))
    ELSE {}

(* The tables joined to the first.  A LEFT without a JOIN is skipped. *)
Joins(q, tables, i) ==
    LET skip == IF At(q, i) = "LEFT" THEN 1 ELSE 0
    IN  IF At(q, i + skip) # "JOIN"
        THEN Got(IF Len(tables) = 1 THEN tables[1] ELSE Node("Join", << >>, tables), i + skip)
        ELSE UNION {UNION {Joins(q, Append(tables, Node("Joined", << >>, <<r.node, on.node>>)), on.pos) :
                               on \in Optional(q, r.pos, <<"ON">>, Expr)} :
                        r \in TableExpr(q, i + skip + 1)}

From(q, i) == UNION {Joins(q, <<r.node>>, r.pos) : r \in TableExpr(q, i)}

(* int() takes whole numbers. *)
Limit(q, i) ==
    IF At(q, i) \notin Numbers THEN {}
    ELSE IF q[i] \in DOMAIN NumberOf THEN Got(Node("Limit", <<q[i]>>, << >>), i + 1)
    ELSE Got(Absent, Raised)

(* One clause after the other; the node has them in this order. *)
Select(q, i) ==
    LET And(results, words, clause(_, _)) ==
            UNION {{[r EXCEPT !.node = Append(r.node, s.node), !.pos = s.pos] :
                        s \in Optional(q, r.pos, words, clause)} : r \in results}
        columns == And(Got(<< >>, i), <<"SELECT">>, ColumnList)
        from    == And(columns, <<"FROM">>, From)
        where   == And(from, <<"WHERE">>, Expr)
        groupBy == And(where, <<"GROUP", "BY">>, ColumnList)
        having  == And(groupBy, <<"HAVING">>, Expr)
        orderBy == And(having, <<"ORDER", "BY">>, ColumnList)
        limit   == And(orderBy, <<"LIMIT">>, Limit)
    IN  IF At(q, i) = "SELECT"
        THEN {[r EXCEPT !.node = Node("Select", << >>, @)] : r \in limit}
        ELSE {}

UnionsOfQueries(q, left, i) ==                                    \* mutant
    IF At(q, i) = "UNION"
    THEN {[r EXCEPT !.node = Node("Union", << >>, <<left, @>>)] : r \in Query(q, i + 1)}
    ELSE Got(left, i)

(* Unions group to the left. *)
Unions(q, left, i) ==
    IF At(q, i) = "UNION"
    THEN UNION {Unions(q, Node("Union", << >>, <<left, r.node>>), r.pos) : r \in Select(q, i + 1)}
    ELSE Got(left, i)

Query(q, i) == UNION {Unions(q, r.node, r.pos) : r \in Select(q, i)}

(* parse: the tree of a query, one or none.  The rest of a write statement *)
(* is not looked at.                                                       *)
Parse(q) ==
    IF At(q, 1) \in Writes
    THEN {Node("WriteStatement", <<q[1]>>, << >>)}
    ELSE {r.node : r \in {s \in Query(q, 1) : s.pos > Len(q)}}

(* The error of a query without a tree. *)
ParseFailure(q) ==
    IF \E r \in Query(q, 1) : r.pos = Raised THEN "ValueError" ELSE "ParseError"
=============================================================================
