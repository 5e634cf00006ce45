---------------------------- MODULE MCSibylBench ----------------------------
(* SibylParser with the schema of tests/test_gate.py: queries of every form *)
(* the parser knows, good ones and ones that break each of the rules.      *)
EXTENDS SibylParser

MCNumberOf == [n \in {"1", "10", "20000"} |-> CASE n = "1" -> 1 [] n = "10" -> 10 [] OTHER -> 20000]

Col(name) == Node("Column", <<name>>, << >>)
Lit(lit)  == Node("Literal", <<lit>>, << >>)
Tab(name) == Node("Table", <<name>>, << >>)
List(kids) == Node("List", << >>, kids)
Op(type, op, l, r) == Node(type, <<op>>, <<l, r>>)
Sub(query, alias) == Node("Subquery", alias, <<query>>)
Call(args) == Node("Function", <<"id">>, args)
Join(tables) == Node("Join", << >>, tables)
Joining(source, on) == Node("Joined", << >>, <<source, on>>)

Full(columns, from, where, groupBy, having, orderBy, limit) ==
    Node("Select", << >>, <<columns, from, where, groupBy, having, orderBy,
         IF limit = "" THEN Absent ELSE Node("Limit", <<limit>>, << >>)>>)

Sel(from, where, limit) == Full(List(<<Col("*")>>), from, where, Absent, Absent, Absent, limit)

ById  == Op("BinaryOp", "=", Col("id"), Lit("'x'"))
ByDt  == Op("BinaryOp", ">=", Node("Column", <<"t", "dt">>, << >>), Lit("'x'"))
Both  == Op("LogicalOp", "AND", ByDt, Op("LogicalOp", "OR", ById, Call(<<Col("id"), Lit("1")>>)))
Known == Sel(Tab("dim"), ById, "10")
Scan  == Sel(Tab("fact"), ById, "10")  \* a fact table without its partition
InScan == Op("InOp", "IN", Col("id"), Sub(Scan, << >>))

MCTrees ==
    { Known, Scan,
      Sel(Tab("other"), ByDt, "10"),                                \* unknown table
      Sel(Tab("dim"), Absent, "10"),                                \* no WHERE
      Sel(Tab("dim"), Op("BinaryOp", "=", Lit("1"), Lit("1")), "10"),
      Sel(Tab("dim"), Col("TRUE"), "10"),
      Sel(Tab("dim"), ById, ""),                                    \* no LIMIT
      Sel(Tab("dim"), ById, "20000"),                               \* too large
      Sel(Sub(Known, <<"t">>), ById, "1"),
      Sel(Sub(Sel(Tab("fact"), Both, "1"), << >>), ById, "1"),
      Sel(Sub(Scan, << >>), ById, "1"),
      Sel(Join(<<Node("Table", <<"dim", "t">>, << >>), Joining(Tab("fact"), ById)>>), ByDt, "1"),
      Sel(Join(<<Tab("dim"), Joining(Tab("dim"), Absent), Joining(Tab("fact"), ById)>>), ById, "1"),
      Sel(Join(<<Tab("dim"), Joining(Tab("other"), Absent)>>), ById, "1"),
      Sel(Tab("dim"), Op("InOp", "IN", Col("id"), Sub(Known, << >>)), "1"),
      Sel(Tab("dim"), Op("LogicalOp", "AND", InScan, ById), "1"),
      Sel(Tab("dim"), Op("InOp", "IN", Col("id"), List(<<Lit("1"), Col("dt")>>)), "1"),
      Full(List(<<Col("id"), Sub(Scan, << >>)>>), Tab("dim"), ById, Absent, Absent, Absent, "1"),
      Full(List(<<Col("id")>>), Join(<<Tab("dim"), Joining(Tab("dim"), InScan)>>),
           Op("BinaryOp", "=", Call(<<Sub(Scan, << >>)>>), Lit("1")), Absent, InScan, Absent, "1"),
      Full(List(<<Col("id"), Call(<< >>)>>), Tab("fact"), ByDt,
           List(<<Col("id")>>), ById, List(<<Col("dt"), Col("id")>>), "10"),
      Node("Union", << >>, <<Node("Union", << >>, <<Known, Known>>), Scan>>),
      Node("Union", << >>, <<Known, Known>>) }

MCNoSql == << >>

MCOthers ==
    { <<"SELECT", "FROM", "dim">>, <<"DROP", "dim", "(">>,
      <<"SELECT", "id", "FROM", "dim", "LEFT", "WHERE", "id", "LIMIT", "10">>,
      <<"SELECT", "(", "SELECT", "id", "LIMIT", "1.5", "FROM">>,
      <<"SELECT", "id", "FROM", "dim", "WHERE", "dt", "=", "1", "AND", "id", "=", "1", "LIMIT", "1">> }

MCSqls == {Text(tree) : tree \in MCTrees} \cup MCOthers

RECURSIVE Below(_), MCHeight(_)
Below(tree)    == {tree} \cup UNION {Below(kid) : kid \in ToSet(tree.kids)}
MCHeight(tree) == Max({0} \cup {MCHeight(kid) + 1 : kid \in ToSet(tree.kids)})

(* What the parser makes of the answers, and all that is below. *)
MCAsts == UNION {Below(tree) : tree \in UNION {Parse(answer) : answer \in MCSqls}}
=============================================================================
