SPECIFICATION Spec
CONSTANTS
    Sqls <- MCSqls
    NoSql <- MCNoSql
    Executor <- GatedExecutor
    Parser <- Parse
    ParserError <- ParseFailure
    Asts <- MCAsts
    Height <- MCHeight
    Errors = {"ParseError", "ValueError", "GateError", "TypeError", "DatabaseError"}
    MaxRetries = 3
    Idents = {"id", "dt", "t", "dim", "fact", "other", "TRUE", "*"}
    Strings = {"'x'"}
    Numbers = {"1", "10", "20000", "1.5"}
    NumberOf <- MCNumberOf
    TrueWords = {"TRUE"}
    Tables = {"dim", "fact"}
    FactTables = {"fact"}
    MaxLimit = 10000
    Trees <- MCTrees
INVARIANTS
    AgentTypeOK
    FeedbackComplete
    ReadAsMeant
    CheckedSelectsKeepRules
\* The loop ends.
CHECK_DEADLOCK FALSE
