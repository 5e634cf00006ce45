----------------------------- MODULE AgentLoop -----------------------------
(***************************************************************************)
(* agent_loop of sibyl/sibyl/agent/loop.py: ask a language model for SQL,  *)
(* execute it, and when that fails ask again with the error added to the   *)
(* prompt.  What the model answers is anybody's guess; the executor is a   *)
(* parameter here as it is in the code.                                    *)
(***************************************************************************)
EXTENDS Integers, Sequences, SequencesExt

CONSTANTS Sqls,         \* what the model may answer
          NoSql,        \* an empty answer
          Executor(_),  \* the outcomes of executing an SQL: errors, "empty"
                        \* (a result that is empty) or "rows" (one that is not)
          Errors,       \* the messages of the exceptions it raises
          MaxRetries

None == "none"  \* no error

ASSUME AgentAssumption ==
    /\ NoSql \notin Sqls
    /\ \A s \in Sqls : Executor(s) # {} /\ Executor(s) \subseteq Errors \cup {"empty", "rows"}
    /\ Errors \cap {"empty", "rows", "no_sql", None} = {}
    /\ MaxRetries \in Nat

VARIABLES pc,       \* "ask", "execute", "succeeded" or "failed"
          attempt,
          sql,      \* the answer to the last prompt
          prompt,   \* the errors in current_prompt, behind the question
          history   \* the attempts: [attempt, sql, error]

agentVars == <<pc, attempt, sql, prompt, history>>

AgentInit == /\ pc = IF MaxRetries = 0 THEN "failed" ELSE "ask"
             /\ attempt = 0
             /\ sql = NoSql
             /\ prompt = << >>
             /\ history = << >>

Record(answer, error) ==
    history' = Append(history, [attempt |-> attempt, sql |-> answer, error |-> error])

(* The model answers; an empty answer ends the loop. *)
Ask == /\ pc = "ask"
       /\ \E answer \in Sqls \cup {NoSql} :
             /\ sql' = answer
             /\ IF answer = NoSql
                THEN pc' = "failed" /\ Record(answer, "no_sql")
                ELSE pc' = "execute" /\ UNCHANGED history
       /\ UNCHANGED <<attempt, prompt>>

LastErrorOnly(error) == <<error>>                                 \* mutant

WithError(error) == Append(prompt, error)

(* The executor answers: with a result that is worth returning, *)
Succeed == /\ pc = "execute"
           /\ "rows" \in Executor(sql)
           /\ pc' = "succeeded"
           /\ Record(sql, None)
           /\ UNCHANGED <<attempt, sql, prompt>>

OneAttemptMore == attempt < MaxRetries                            \* mutant

MoreAttempts == attempt + 1 < MaxRetries

(* or with an error, an empty result being one. *)
Retry == /\ pc = "execute"
         /\ \E error \in Executor(sql) \ {"rows"} :
               /\ Record(sql, error)
               /\ prompt' = WithError(error)
         /\ attempt' = attempt + 1
         /\ pc' = IF MoreAttempts THEN "ask" ELSE "failed"
         /\ UNCHANGED sql

AgentNext == Ask \/ Succeed \/ Retry

AgentSpec == AgentInit /\ [][AgentNext]_agentVars

----------------------------------------------------------------------------
AgentTypeOK ==
    /\ pc \in {"ask", "execute", "succeeded", "failed"}
    /\ attempt \in 0..MaxRetries
    /\ pc \in {"ask", "execute"} => attempt < MaxRetries
    /\ sql \in Sqls \cup {NoSql}
    /\ prompt \in Seq(Errors \cup {"empty"})
    /\ history \in Seq([attempt : Nat, sql : Sqls \cup {NoSql},
                        error : Errors \cup {"empty", "no_sql", None}])
    /\ Len(history) <= MaxRetries

(* Every attempt is in the history, numbered, and whenever the model is    *)
(* asked its prompt tells it the errors of all of them, in their order.    *)
(* The one attempt without an error is the last of a loop that succeeded,  *)
(* and a loop only gives up on its last attempt or on an empty answer.     *)
FeedbackComplete ==
    /\ \A i \in DOMAIN history : history[i].attempt = i - 1
    /\ pc \in {"ask", "execute"} =>
          /\ Len(history) = attempt
          /\ prompt = [i \in DOMAIN history |-> history[i].error]
    /\ \A i \in DOMAIN history :
          history[i].error = None <=> pc = "succeeded" /\ i = Len(history)
    /\ pc = "failed" => \/ Len(history) = MaxRetries
                        \/ history[Len(history)].error = "no_sql"
=============================================================================
