-------------------------- MODULE SibylBenchProofs --------------------------
(***************************************************************************)
(* The agent loop for any model, any executor and any number of retries:   *)
(* what agent_loop of sibyl/sibyl/agent/loop.py feeds back and records;    *)
(* the gate of sibyl/sibyl/sqlgate/gate.py for trees of any depth; and     *)
(* what the loop returns when its executor is the one with the gate.       *)
(***************************************************************************)
EXTENDS SibylBench, SequenceTheorems, NaturalsInduction, WellFoundedInduction, TLAPS

(* The loop.  The invariant is FeedbackComplete with the types, and the    *)
(* fact that only an answer that is not empty is executed.                 *)

Entry == [attempt : Nat, sql : Sqls \cup {NoSql},
          error : Errors \cup {"empty", "no_sql", None}]

(* AgentTypeOK, the entries by their name. *)
Types == /\ pc \in {"ask", "execute", "succeeded", "failed"}
         /\ attempt \in 0..MaxRetries
         /\ pc \in {"ask", "execute"} => attempt < MaxRetries
         /\ sql \in Sqls \cup {NoSql}
         /\ prompt \in Seq(Errors \cup {"empty"})
         /\ history \in Seq(Entry)
         /\ Len(history) <= MaxRetries

ExecutesAnswers == pc = "execute" => sql \in Sqls

IInv == Types /\ FeedbackComplete /\ ExecutesAnswers

----------------------------------------------------------------------------
LEMMA RetriesAreCounted == MaxRetries \in Nat
BY AgentAssumption

(* One more record, whatever it holds. *)
LEMMA RecordEffect ==
    ASSUME NEW S, NEW h \in Seq(S), NEW new \in S, NEW h2, h2 = Append(h, new)
    PROVE  /\ h2 \in Seq(S)
           /\ Len(h) \in Nat
           /\ Len(h2) = Len(h) + 1
           /\ DOMAIN h = 1..Len(h)
           /\ DOMAIN h2 = 1..(Len(h) + 1)
           /\ \A i \in 1..Len(h) : h2[i] = h[i]
           /\ h2[Len(h) + 1] = new
<1>1. /\ h2 \in Seq(S) /\ Len(h) \in Nat /\ Len(h2) = Len(h) + 1
      /\ \A i \in 1..Len(h) : h2[i] = h[i]
      /\ h2[Len(h) + 1] = new
  OBVIOUS
<1>2. DOMAIN h = 1..Len(h) /\ DOMAIN h2 = 1..(Len(h) + 1)
  BY <1>1, LenProperties
<1>. QED BY <1>1, <1>2

(* An error that comes from the executor is told apart from success. *)
LEMMA ExecutorErrors ==
    ASSUME NEW s \in Sqls, NEW error \in Executor(s) \ {"rows"}
    PROVE  /\ error \in Errors \cup {"empty"}
           /\ error # None
    BY AgentAssumption DEF None

(* What is known before a step of the loop. *)
LEMMA Running ==
    ASSUME IInv, pc \in {"ask", "execute"}
    PROVE  /\ MaxRetries \in Nat /\ attempt \in Nat /\ attempt < MaxRetries
           /\ Len(history) = attempt
           /\ history \in Seq(Entry) /\ DOMAIN history = 1..attempt
           /\ prompt \in Seq(Errors \cup {"empty"})
           /\ prompt = [i \in 1..attempt |-> history[i].error]
           /\ \A i \in 1..attempt : history[i].attempt = i - 1 /\ history[i].error # None
<1>1. MaxRetries \in Nat /\ attempt \in Nat /\ attempt < MaxRetries
  BY RetriesAreCounted DEF IInv, Types
<1>2. history \in Seq(Entry) /\ prompt \in Seq(Errors \cup {"empty"})
  BY Zenon DEF IInv, Types
<1>3. Len(history) = attempt /\ prompt = [i \in DOMAIN history |-> history[i].error]
  BY Zenon DEF IInv, FeedbackComplete
<1>4. DOMAIN history = 1..attempt
  BY <1>2, <1>3, LenProperties
<1>5. \A i \in DOMAIN history : history[i].attempt = i - 1
  BY Zenon DEF IInv, FeedbackComplete
<1>6. pc # "succeeded"
  OBVIOUS
<1>7. \A i \in DOMAIN history : history[i].error # None
  BY <1>6, Zenon DEF IInv, FeedbackComplete
<1>. QED BY <1>1, <1>2, <1>3, <1>4, <1>5, <1>7

(* An attempt with an answer and an outcome is recorded. *)
LEMMA AttemptRecorded ==
    ASSUME IInv, pc \in {"ask", "execute"},
           NEW answer \in Sqls \cup {NoSql},
           NEW error \in Errors \cup {"empty", "no_sql", None}, Record(answer, error)
    PROVE  /\ history' \in Seq(Entry)
           /\ Len(history') = attempt + 1
           /\ DOMAIN history' = 1..(attempt + 1)
           /\ \A i \in DOMAIN history' : history'[i].attempt = i - 1
           /\ \A i \in 1..attempt : history'[i] = history[i]
           /\ \A i \in 1..attempt : history'[i].error # None
           /\ history'[attempt + 1].error = error
<1>. DEFINE new == [attempt |-> attempt, sql |-> answer, error |-> error]
<1>1. attempt \in Nat /\ history \in Seq(Entry) /\ Len(history) = attempt
      /\ \A i \in 1..attempt : history[i].attempt = i - 1 /\ history[i].error # None
  BY Running, Zenon
<1>2. new \in Entry
  BY <1>1, Zenon DEF Entry
<1>3. history' = Append(history, new)
  BY Zenon DEF Record
<1>4. new.attempt = attempt /\ new.error = error
  BY Zenon
<1>. HIDE DEF new
<1>5. /\ history' \in Seq(Entry) /\ Len(history') = attempt + 1
      /\ DOMAIN history' = 1..(attempt + 1)
      /\ \A i \in 1..attempt : history'[i] = history[i]
      /\ history'[attempt + 1] = new
  BY <1>1, <1>2, <1>3, RecordEffect
<1>6. ASSUME NEW i \in 1..(attempt + 1) PROVE history'[i].attempt = i - 1
  <2>1. i \in 1..attempt \/ i = attempt + 1
    BY <1>1
  <2>2. CASE i \in 1..attempt
    BY <1>1, <1>5, <2>2
  <2>3. CASE i = attempt + 1
    <3>1. history'[i].attempt = attempt
      BY <1>4, <1>5, <2>3, Zenon
    <3>. QED BY <1>1, <2>3, <3>1
  <2>. QED BY <2>1, <2>2, <2>3
<1>. QED BY <1>1, <1>4, <1>5, <1>6, Zenon

----------------------------------------------------------------------------
LEMMA InitIInv == AgentInit => IInv
<1>. SUFFICES ASSUME AgentInit PROVE IInv
  OBVIOUS
<1>1. MaxRetries \in Nat
  BY RetriesAreCounted
<1>2. Len(history) = 0 /\ DOMAIN history = {} /\ history = << >> /\ prompt = << >>
  BY DEF AgentInit
<1>3. Types
  BY <1>1, <1>2, EmptySeq DEF AgentInit, Types
<1>4. prompt = [i \in DOMAIN history |-> history[i].error]
  BY <1>2
<1>5. FeedbackComplete
  BY <1>1, <1>2, <1>4 DEF AgentInit, FeedbackComplete
<1>. QED BY <1>3, <1>5 DEF AgentInit, IInv, ExecutesAnswers

LEMMA AskIInv == ASSUME IInv, Ask PROVE IInv'
<1>1. PICK answer \in Sqls \cup {NoSql} :
         /\ sql' = answer
         /\ IF answer = NoSql
            THEN pc' = "failed" /\ Record(answer, "no_sql")
            ELSE pc' = "execute" /\ UNCHANGED history
  BY Zenon DEF Ask
<1>2. pc = "ask" /\ UNCHANGED <<attempt, prompt>>
  BY Zenon DEF Ask
<1>3. CASE answer # NoSql
  <2>1. pc' = "execute" /\ sql' \in Sqls /\ UNCHANGED <<attempt, prompt, history>>
    BY <1>1, <1>2, <1>3
  <2>2. FeedbackComplete'
    BY <1>2, <2>1 DEF IInv, FeedbackComplete
  <2>3. Types'
    BY <1>2, <2>1 DEF IInv, Types
  <2>. QED BY <2>1, <2>2, <2>3 DEF IInv, ExecutesAnswers
<1>4. CASE answer = NoSql
  <2>1. pc' = "failed" /\ Record(answer, "no_sql")
    BY <1>1, <1>4
  <2>2. /\ history' \in Seq(Entry) /\ Len(history') = attempt + 1
        /\ DOMAIN history' = 1..(attempt + 1)
        /\ \A i \in DOMAIN history' : history'[i].attempt = i - 1
        /\ \A i \in 1..attempt : history'[i].error # None
        /\ history'[attempt + 1].error = "no_sql"
    BY <1>2, <2>1, AttemptRecorded
  <2>3. /\ MaxRetries \in Nat /\ attempt \in Nat /\ attempt < MaxRetries
        /\ prompt \in Seq(Errors \cup {"empty"})
    BY <1>2, Running
  <2>4. Types'
    BY <1>1, <1>2, <2>1, <2>2, <2>3 DEF Types
  <2>5. \A i \in DOMAIN history' : history'[i].error # None
    BY <2>2, <2>3 DEF None
  <2>6. FeedbackComplete'
    BY <2>1, <2>2, <2>5 DEF FeedbackComplete
  <2>. QED BY <2>1, <2>4, <2>6 DEF IInv, ExecutesAnswers
<1>. QED BY <1>3, <1>4

LEMMA SucceedIInv == ASSUME IInv, Succeed PROVE IInv'
<1>1. /\ pc = "execute" /\ pc' = "succeeded" /\ Record(sql, None)
      /\ UNCHANGED <<attempt, sql, prompt>>
  BY Zenon DEF Succeed
<1>2. /\ MaxRetries \in Nat /\ attempt \in Nat /\ attempt < MaxRetries
      /\ prompt \in Seq(Errors \cup {"empty"})
  BY <1>1, Running
<1>3. sql \in Sqls \cup {NoSql}
  BY Zenon DEF IInv, Types
<1>4. /\ history' \in Seq(Entry) /\ Len(history') = attempt + 1
      /\ DOMAIN history' = 1..(attempt + 1)
      /\ \A i \in DOMAIN history' : history'[i].attempt = i - 1
      /\ \A i \in 1..attempt : history'[i].error # None
      /\ history'[attempt + 1].error = None
  BY <1>1, <1>3, AttemptRecorded
<1>5. Types'
  BY <1>1, <1>2, <1>3, <1>4 DEF Types
<1>6. \A i \in DOMAIN history' : history'[i].error = None <=> i = Len(history')
  BY <1>2, <1>4
<1>7. FeedbackComplete'
  BY <1>1, <1>4, <1>6 DEF FeedbackComplete
<1>. QED BY <1>1, <1>5, <1>7 DEF IInv, ExecutesAnswers

LEMMA RetryIInv == ASSUME IInv, Retry PROVE IInv'
<1>1. PICK error \in Executor(sql) \ {"rows"} :
         Record(sql, error) /\ prompt' = Append(prompt, error)
  BY Zenon DEF Retry, WithError
<1>2. /\ pc = "execute" /\ attempt' = attempt + 1
      /\ pc' = IF attempt + 1 < MaxRetries THEN "ask" ELSE "failed"
      /\ UNCHANGED sql
  BY Zenon DEF Retry, MoreAttempts
<1>3. /\ MaxRetries \in Nat /\ attempt \in Nat /\ attempt < MaxRetries
      /\ prompt \in Seq(Errors \cup {"empty"})
      /\ prompt = [i \in 1..attempt |-> history[i].error]
  BY <1>2, Running
<1>4. sql \in Sqls
  BY <1>2, Zenon DEF IInv, ExecutesAnswers
<1>5. error \in Errors \cup {"empty"} /\ error # None
  BY <1>1, <1>4, ExecutorErrors
<1>6. /\ history' \in Seq(Entry) /\ Len(history') = attempt + 1
      /\ DOMAIN history' = 1..(attempt + 1)
      /\ \A i \in DOMAIN history' : history'[i].attempt = i - 1
      /\ \A i \in 1..attempt : history'[i] = history[i]
      /\ \A i \in 1..attempt : history'[i].error # None
      /\ history'[attempt + 1].error = error
  BY <1>1, <1>2, <1>4, <1>5, AttemptRecorded
<1>7. /\ prompt' \in Seq(Errors \cup {"empty"})
      /\ prompt' = [i \in DOMAIN history' |-> history'[i].error]
  <2>1. Len(prompt) = attempt
    BY <1>3
  <2>2. /\ prompt' \in Seq(Errors \cup {"empty"}) /\ DOMAIN prompt' = 1..(attempt + 1)
        /\ \A i \in 1..attempt : prompt'[i] = prompt[i]
        /\ prompt'[attempt + 1] = error
    BY <1>1, <1>3, <1>5, <2>1, RecordEffect
  <2>3. \A i \in 1..(attempt + 1) : prompt'[i] = history'[i].error
    BY <1>3, <1>6, <2>2
  <2>4. prompt' = [i \in DOMAIN prompt' |-> prompt'[i]]
    BY <2>2
  <2>. QED BY <1>6, <2>2, <2>3, <2>4
<1>8. Types'
  <2>1. attempt' \in 0..MaxRetries /\ Len(history') <= MaxRetries
        /\ (pc' \in {"ask", "execute"} => attempt' < MaxRetries)
        /\ pc' \in {"ask", "execute", "succeeded", "failed"}
    BY <1>2, <1>3, <1>6
  <2>2. sql' \in Sqls \cup {NoSql}
    BY <1>2, <1>4
  <2>. QED BY <1>6, <1>7, <2>1, <2>2, Zenon DEF Types
<1>9. \A i \in DOMAIN history' : history'[i].error # None
  BY <1>3, <1>5, <1>6
<1>10. FeedbackComplete'
  <2>1. (pc' \in {"ask", "execute"} => Len(history') = attempt') /\ pc' # "succeeded"
        /\ (pc' = "failed" => Len(history') = MaxRetries)
    BY <1>2, <1>3, <1>6
  <2>. QED BY <1>6, <1>7, <1>9, <2>1, Zenon DEF FeedbackComplete
<1>. QED BY <1>2, <1>8, <1>10 DEF IInv, ExecutesAnswers

----------------------------------------------------------------------------
THEOREM Inductive == AgentSpec => []IInv
<1>1. ASSUME IInv, [AgentNext]_agentVars PROVE IInv'
  <2>1. CASE Ask     BY <1>1, <2>1, AskIInv
  <2>2. CASE Succeed BY <1>1, <2>2, SucceedIInv
  <2>3. CASE Retry   BY <1>1, <2>3, RetryIInv
  <2>4. CASE UNCHANGED agentVars
    BY <1>1, <2>4 DEF IInv, Types, FeedbackComplete, ExecutesAnswers, agentVars
  <2>. QED BY <1>1, <2>1, <2>2, <2>3, <2>4 DEF AgentNext
<1>. QED BY <1>1, InitIInv, PTL DEF AgentSpec

(* The loop never asks more often than max_retries, records nothing else   *)
(* than attempts, and never asks or executes after its last attempt.       *)
THEOREM TypeCorrect == AgentSpec => []AgentTypeOK
<1>1. IInv => AgentTypeOK
  BY Zenon DEF IInv, Types, AgentTypeOK, Entry
<1>. QED BY <1>1, Inductive, PTL

(* Whatever the model answers and the executor raises, each prompt tells   *)
(* the errors of all the attempts before it, in their order, the history   *)
(* numbers every attempt, and its one entry without an error is the last   *)
(* of a loop that succeeded.                                               *)
THEOREM FeedbackCompleteHolds == AgentSpec => []FeedbackComplete
<1>1. IInv => FeedbackComplete
  BY DEF IInv
<1>. QED BY <1>1, Inductive, PTL

----------------------------------------------------------------------------
(***************************************************************************)
(* Recursion over trees.  A function whose value at x is made, by s, of    *)
(* its values at what is lower than x exists, whatever the heights are.    *)
(***************************************************************************)

LEMMA NatSetInduction ==
    ASSUME NEW S, 0 \in S, \A n \in Nat : n \in S => n + 1 \in S
    PROVE  \A n \in Nat : n \in S
<1>. DEFINE T == Nat \ S
            R == OpToRel(<, Nat)
<1>1. SUFFICES ASSUME T # {} PROVE FALSE
  OBVIOUS
<1>2. R = {ss \in Nat \X Nat : ss[1] < ss[2]}
  BY DEF OpToRel
<1>3. IsWellFoundedOn(R, Nat)
  BY NatLessThanWellFounded, Zenon
<1>4. T \subseteq Nat
  OBVIOUS
<1>. HIDE DEF R
<1>5. PICK x \in T : \A y \in T : ~ (<<y, x>> \in R)
  <2>. HIDE DEF T
  <2>. QED BY <1>1, <1>3, <1>4, WFMin, Zenon
<1>6. x # 0 /\ x - 1 \in Nat
  OBVIOUS
<1>7. x - 1 \notin T
  <2>1. SUFFICES ASSUME x - 1 \in T PROVE FALSE
    OBVIOUS
  <2>2. <<x - 1, x>> \in R
    BY <1>2, <1>6
  <2>. QED BY <1>5, <2>1, <2>2
<1>. QED BY <1>6, <1>7

LEMMA HeightInduction ==
    ASSUME NEW T, NEW h \in [T -> Nat], NEW P,
           \A x \in T : (\A y \in T : h[y] < h[x] => y \in P) => x \in P
    PROVE  \A x \in T : x \in P
<1>. DEFINE S == {n \in Nat : \A x \in T : h[x] < n => x \in P}
<1>1. 0 \in S
  OBVIOUS
<1>2. ASSUME NEW n \in Nat, n \in S PROVE n + 1 \in S
  <2>1. SUFFICES ASSUME NEW x \in T, h[x] < n + 1 PROVE x \in P
    OBVIOUS
  <2>2. \A y \in T : h[y] < h[x] => h[y] < n
    BY <2>1
  <2>. QED BY <1>2, <2>2
<1>3. \A n \in Nat : n \in S
  <2>. HIDE DEF S
  <2>. QED BY <1>1, <1>2, NatSetInduction
<1>4. ASSUME NEW x \in T PROVE x \in P
  <2>1. h[x] + 1 \in Nat /\ h[x] < h[x] + 1
    OBVIOUS
  <2>. QED BY <1>3, <2>1
<1>. QED BY <1>4

(* f solves the equation up to height n. *)
Solves(T, h, s, f, n) == \A x \in T : h[x] < n => f[x] = s[x][f]

Local(T, V, h, s) ==
    \A x \in T : \A f, g \in [T -> V] :
        (\A y \in T : h[y] < h[x] => f[y] = g[y]) => s[x][f] = s[x][g]

LEMMA SolutionsAgree ==
    ASSUME NEW T, NEW V, NEW h \in [T -> Nat], NEW s, Local(T, V, h, s), NEW n \in Nat,
           NEW f \in [T -> V], NEW g \in [T -> V],
           Solves(T, h, s, f, n), Solves(T, h, s, g, n)
    PROVE  \A x \in T : h[x] < n => f[x] = g[x]
<1>. DEFINE P == {x \in T : h[x] < n => f[x] = g[x]}
<1>1. ASSUME NEW x \in T, \A y \in T : h[y] < h[x] => y \in P PROVE x \in P
  <2>1. SUFFICES ASSUME h[x] < n PROVE f[x] = g[x]
    OBVIOUS
  <2>2. \A y \in T : h[y] < h[x] => f[y] = g[y]
    BY <1>1, <2>1
  <2>3. s[x][f] = s[x][g]
    BY <2>2, Zenon DEF Local
  <2>. QED BY <2>1, <2>3, Zenon DEF Solves
<1>2. \A x \in T : x \in P
  <2>. HIDE DEF P
  <2>. QED BY <1>1, HeightInduction
<1>. QED BY <1>2

Recursion(T, V, h, s) ==
    /\ V # {}
    /\ h \in [T -> Nat]
    /\ s \in [T -> [[T -> V] -> V]]
    /\ Local(T, V, h, s)

LEMMA RecursionExists ==
    ASSUME NEW T, NEW V, NEW h, NEW s, Recursion(T, V, h, s)
    PROVE  \E f \in [T -> V] : \A x \in T : f[x] = s[x][f]
<1>. USE DEF Recursion
<1>. PICK v \in V : TRUE
  BY Zenon
<1>. DEFINE S == {n \in Nat : \E f \in [T -> V] : Solves(T, h, s, f, n)}
<1>1. 0 \in S
  <2>1. [x \in T |-> v] \in [T -> V]
    OBVIOUS
  <2>2. Solves(T, h, s, [x \in T |-> v], 0)
    BY DEF Solves
  <2>. QED BY <2>1, <2>2
<1>2. ASSUME NEW n \in Nat, n \in S PROVE n + 1 \in S
  <2>1. PICK f \in [T -> V] : Solves(T, h, s, f, n)
    BY <1>2
  <2>. DEFINE g == [x \in T |-> s[x][f]]
  <2>2. g \in [T -> V] /\ \A x \in T : g[x] = s[x][f]
    OBVIOUS
  <2>. HIDE DEF g
  <2>3. ASSUME NEW x \in T, h[x] < n + 1 PROVE g[x] = s[x][g]
    <3>1. \A y \in T : h[y] < h[x] => h[y] < n
      BY <2>3
    <3>2. \A y \in T : h[y] < h[x] => g[y] = f[y]
      BY <2>1, <2>2, <3>1, Zenon DEF Solves
    <3>3. s[x][g] = s[x][f]
      BY <2>2, <3>2, Zenon DEF Local
    <3>. QED BY <2>2, <3>3
  <2>4. Solves(T, h, s, g, n + 1)
    BY <2>3, Zenon DEF Solves
  <2>. QED BY <2>2, <2>4
<1>3. \A n \in Nat : \E f \in [T -> V] : Solves(T, h, s, f, n)
  <2>1. \A n \in Nat : n \in S
    <3>. HIDE DEF S
    <3>. QED BY <1>1, <1>2, NatSetInduction
  <2>. QED BY <2>1
<1>. DEFINE At(n) == CHOOSE f \in [T -> V] : Solves(T, h, s, f, n)
            F     == [x \in T |-> At(h[x] + 1)[x]]
<1>4. \A n \in Nat : At(n) \in [T -> V] /\ Solves(T, h, s, At(n), n)
  BY <1>3, Zenon
<1>. HIDE DEF At
<1>5. \A x \in T : h[x] \in Nat /\ h[x] + 1 \in Nat /\ h[x] < h[x] + 1
  OBVIOUS
<1>6. F \in [T -> V] /\ \A x \in T : F[x] = At(h[x] + 1)[x]
  BY <1>4, <1>5
<1>. HIDE DEF F
<1>7. ASSUME NEW x \in T PROVE F[x] = s[x][F]
  <2>. DEFINE f == At(h[x] + 1)
  <2>1. f \in [T -> V] /\ Solves(T, h, s, f, h[x] + 1)
    BY <1>4, <1>5
  <2>2. F[x] = f[x]
    BY <1>6
  <2>. HIDE DEF f
  <2>3. f[x] = s[x][f]
    BY <1>5, <2>1, Zenon DEF Solves
  <2>4. ASSUME NEW y \in T, h[y] < h[x] PROVE F[y] = f[y]
    <3>. DEFINE n == h[y] + 1
                g == At(n)
    <3>1. n \in Nat /\ h[y] < n /\ \A z \in T : h[z] < n => h[z] < h[x] + 1
      BY <1>5, <2>4
    <3>2. F[y] = g[y]
      BY <1>6
    <3>3. g \in [T -> V] /\ Solves(T, h, s, g, n)
      BY <1>4, <3>1
    <3>. HIDE DEF g, n
    <3>4. Solves(T, h, s, f, n)
      BY <2>1, <3>1, Zenon DEF Solves
    <3>5. \A z \in T : h[z] < n => f[z] = g[z]
      BY <2>1, <3>1, <3>3, <3>4, SolutionsAgree
    <3>. QED BY <3>1, <3>2, <3>5
  <2>5. s[x][F] = s[x][f]
    BY <1>6, <2>1, <2>4, Zenon DEF Local
  <2>. QED BY <2>2, <2>3, <2>5
<1>. QED BY <1>6, <1>7

----------------------------------------------------------------------------
(***************************************************************************)
(* The gate.                                                               *)
(***************************************************************************)

Answers == {"ok", "GateError", "TypeError"}

LEMMA KidsAreLower ==
    ASSUME NEW node \in Asts
    PROVE  /\ WellFormed(node)
           /\ DOMAIN node.kids \subseteq Nat
           /\ \A i \in DOMAIN node.kids :
                 node.kids[i] \in Asts /\ Height(node.kids[i]) < Height(node)
<1>1. /\ node.kids \in Seq(Asts) /\ WellFormed(node)
      /\ \A i \in DOMAIN node.kids : Height(node.kids[i]) < Height(node)
  BY TreeAssumption, Zenon
<1>2. DOMAIN node.kids = 1..Len(node.kids) /\ \A i \in 1..Len(node.kids) : node.kids[i] \in Asts
  BY <1>1
<1>. QED BY <1>1, <1>2

Heights == [node \in Asts |-> Height(node)]

LEMMA HeightsType == Heights \in [Asts -> Nat]
BY TreeAssumption DEF Heights

(* Induction over the trees: from the kids of a node to the node. *)
LEMMA TreeInduction ==
    ASSUME NEW P, \A node \in Asts : (\A i \in DOMAIN node.kids : node.kids[i] \in P) => node \in P
    PROVE  \A node \in Asts : node \in P
<1>1. ASSUME NEW x \in Asts, \A y \in Asts : Heights[y] < Heights[x] => y \in P PROVE x \in P
  <2>1. \A i \in DOMAIN x.kids : x.kids[i] \in P
    BY <1>1, KidsAreLower DEF Heights
  <2>. QED BY <2>1
<1>. QED BY <1>1, HeightsType, HeightInduction

(* What is made of the kids of a node alone can be defined by recursion. *)
FromKids(V, s) ==
    /\ V # {}
    /\ s \in [Asts -> [[Asts -> V] -> V]]
    /\ \A x \in Asts : \A f, g \in [Asts -> V] :
        (\A i \in DOMAIN x.kids : f[x.kids[i]] = g[x.kids[i]]) => s[x][f] = s[x][g]

LEMMA TreeRecursion ==
    ASSUME NEW V, NEW s, FromKids(V, s)
    PROVE  \E f \in [Asts -> V] : \A x \in Asts : f[x] = s[x][f]
<1>1. ASSUME NEW x \in Asts, NEW f \in [Asts -> V], NEW g \in [Asts -> V],
             \A y \in Asts : Heights[y] < Heights[x] => f[y] = g[y]
      PROVE  s[x][f] = s[x][g]
  <2>1. \A i \in DOMAIN x.kids : f[x.kids[i]] = g[x.kids[i]]
    BY <1>1, KidsAreLower DEF Heights
  <2>. QED BY <2>1, Zenon DEF FromKids
<1>2. Local(Asts, V, Heights, s)
  BY <1>1, Zenon DEF Local
<1>3. Recursion(Asts, V, Heights, s)
  BY <1>2, HeightsType, Zenon DEF Recursion, FromKids
<1>. QED BY <1>3, RecursionExists

LEMMA FirstErrorIs ==
    ASSUME NEW a, DOMAIN a \subseteq Nat
    PROVE  \/ FirstError(a) = "ok" /\ \A i \in DOMAIN a : a[i] = "ok"
           \/ \E i \in DOMAIN a : FirstError(a) = a[i] /\ a[i] # "ok"
<1>. DEFINE errors == {i \in DOMAIN a : a[i] # "ok"}
            R      == OpToRel(<, Nat)
<1>1. FirstError(a) = IF errors = {} THEN "ok" ELSE a[Min(errors)]
  BY DEF FirstError
<1>2. CASE errors = {}
  BY <1>1, <1>2
<1>3. CASE errors # {}
  <2>1. R = {ss \in Nat \X Nat : ss[1] < ss[2]}
    BY DEF OpToRel
  <2>2. IsWellFoundedOn(R, Nat)
    BY NatLessThanWellFounded, Zenon
  <2>3. errors \subseteq Nat
    OBVIOUS
  <2>. HIDE DEF R
  <2>4. PICK x \in errors : \A y \in errors : ~ (<<y, x>> \in R)
    <3>. HIDE DEF errors
    <3>. QED BY <1>3, <2>2, <2>3, WFMin, Zenon
  <2>5. ASSUME NEW y \in errors PROVE x <= y
    <3>1. x \in Nat /\ y \in Nat
      BY <2>3, <2>4
    <3>2. <<y, x>> \notin R
      BY <2>4
    <3>3. ~ (y < x)
      BY <2>1, <3>1, <3>2
    <3>. QED BY <3>1, <3>3
  <2>6. Min(errors) \in errors
    <3>. HIDE DEF errors
    <3>. QED BY <2>5 DEF Min
  <2>. QED BY <1>1, <1>3, <2>6
<1>. QED BY <1>2, <1>3

LEMMA FirstErrorOk ==
    ASSUME NEW a, DOMAIN a \subseteq Nat
    PROVE  FirstError(a) = "ok" <=> \A i \in DOMAIN a : a[i] = "ok"
BY FirstErrorIs

LEMMA FirstErrorType ==
    ASSUME NEW a, DOMAIN a \subseteq Nat, \A i \in DOMAIN a : a[i] \in Answers
    PROVE  FirstError(a) \in Answers
BY FirstErrorIs DEF Answers

(* The body of Validate, for any function in the place of Validate. *)
Walk(v, node) ==
    CASE node.type = "WriteStatement" -> "GateError"
      [] node.type = "Select" -> ValidateSelect(node, v[FromOf(node)], v[Where(node)])
      [] node.type = "Table" -> Demand(node.val[1] \in Tables)
      [] node.type \in {"Subquery", "Joined"} -> v[node.kids[1]]
      [] node.type = "Function" -> "ok"
      [] OTHER -> FirstError([i \in DOMAIN node.kids |-> v[node.kids[i]]])

(* The types that Walk treats on their own; of all others every kid is met. *)
Special == {"WriteStatement", "Select", "Table", "Subquery", "Joined", "Function"}

(* The kids that are there, by the type of the node. *)
LEMMA KidsThere ==
    ASSUME NEW node \in Asts
    PROVE  /\ node.type = "Select" => 2 \in DOMAIN node.kids /\ 3 \in DOMAIN node.kids
           /\ node.type \in {"Subquery", "Joined"} => 1 \in DOMAIN node.kids
<1>1. WellFormed(node)
  BY KidsAreLower
<1>2. CASE node.type = "Select"
  BY <1>1, <1>2 DEF WellFormed, Leaves, Fits
<1>3. CASE node.type = "Subquery"
  BY <1>1, <1>3 DEF WellFormed, Leaves, Fits
<1>4. CASE node.type = "Joined"
  BY <1>1, <1>4 DEF WellFormed, Leaves, Fits
<1>. QED BY <1>2, <1>3, <1>4

LEMMA DemandType == ASSUME NEW condition PROVE Demand(condition) \in {"ok", "GateError"}
BY DEF Demand

LEMMA SelectType ==
    ASSUME NEW s, NEW tables \in Answers, NEW subqueries \in Answers
    PROVE  ValidateSelect(s, tables, subqueries) \in Answers
<1>. DEFINE d1 == Demand(NumberOf[LimitOf(s).val[1]] <= MaxLimit)
            d3 == Demand(Given(Where(s)) /\ ~ConstTrue(Where(s)))
            d4 == Demand(TablesOf(FromOf(s)) \cap FactTables # {} => "dt" \in ExtractColumns[Where(s)])
            d5 == IF ReadsList(s) THEN "TypeError" ELSE "ok"
            a  == <<d1, tables, d3, d4, d5, subqueries>>
<1>1. ValidateSelect(s, tables, subqueries) =
         IF ~Given(LimitOf(s)) \/ ~Given(FromOf(s)) THEN "GateError" ELSE FirstError(a)
  BY DEF ValidateSelect
<1>2. d1 \in Answers /\ d3 \in Answers /\ d4 \in Answers
  BY DemandType DEF Answers
<1>3. d5 \in Answers
  BY DEF Answers
<1>. HIDE DEF d1, d3, d4, d5
<1>4. DOMAIN a \subseteq Nat /\ \A i \in DOMAIN a : a[i] \in Answers
  BY <1>2, <1>3
<1>. HIDE DEF a
<1>5. FirstError(a) \in Answers
  BY <1>4, FirstErrorType
<1>. QED BY <1>1, <1>5 DEF Answers

LEMMA WalkType ==
    ASSUME NEW v \in [Asts -> Answers], NEW node \in Asts
    PROVE  Walk(v, node) \in Answers
<1>1. \A i \in DOMAIN node.kids : v[node.kids[i]] \in Answers
  BY KidsAreLower
<1>2. CASE node.type = "Select"
  <2>1. v[FromOf(node)] \in Answers /\ v[Where(node)] \in Answers
    BY <1>1, <1>2, KidsThere DEF FromOf, Where
  <2>2. Walk(v, node) = ValidateSelect(node, v[FromOf(node)], v[Where(node)])
    BY <1>2 DEF Walk
  <2>. QED BY <2>1, <2>2, SelectType
<1>3. CASE node.type \in {"Subquery", "Joined"}
  <2>1. Walk(v, node) = v[node.kids[1]]
    BY <1>3 DEF Walk
  <2>. QED BY <1>1, <1>3, <2>1, KidsThere
<1>4. CASE node.type \notin Special
  <2>. DEFINE a == [i \in DOMAIN node.kids |-> v[node.kids[i]]]
  <2>1. Walk(v, node) = FirstError(a)
    BY <1>4 DEF Walk, Special
  <2>2. DOMAIN a \subseteq Nat /\ \A i \in DOMAIN a : a[i] \in Answers
    BY <1>1, KidsAreLower
  <2>. HIDE DEF a
  <2>. QED BY <2>1, <2>2, FirstErrorType
<1>5. CASE node.type = "Table"
  <2>1. Walk(v, node) = Demand(node.val[1] \in Tables)
    BY <1>5 DEF Walk
  <2>. QED BY <2>1, DemandType DEF Answers
<1>6. CASE node.type \in {"WriteStatement", "Function"}
  BY <1>6 DEF Walk, Answers
<1>. QED BY <1>2, <1>3, <1>4, <1>5, <1>6 DEF Special

LEMMA WalkIsLocal ==
    ASSUME NEW node \in Asts, NEW f, NEW g,
           \A i \in DOMAIN node.kids : f[node.kids[i]] = g[node.kids[i]]
    PROVE  Walk(f, node) = Walk(g, node)
<1>1. CASE node.type = "Select"
  <2>1. f[FromOf(node)] = g[FromOf(node)] /\ f[Where(node)] = g[Where(node)]
    BY <1>1, KidsThere DEF FromOf, Where
  <2>. QED BY <1>1, <2>1 DEF Walk
<1>2. CASE node.type \in {"Subquery", "Joined"}
  BY <1>2, KidsThere DEF Walk
<1>3. CASE node.type \notin Special
  <2>1. [i \in DOMAIN node.kids |-> f[node.kids[i]]] = [i \in DOMAIN node.kids |-> g[node.kids[i]]]
    OBVIOUS
  <2>. QED BY <1>3, <2>1 DEF Walk, Special
<1>4. CASE node.type \in {"WriteStatement", "Table", "Function"}
  BY <1>4 DEF Walk
<1>. QED BY <1>1, <1>2, <1>3, <1>4 DEF Special

(* There is a function that answers as the gate does. *)
LEMMA ValidateUnfolds == \A node \in Asts : Validate[node] = Walk(Validate, node)
<1>. DEFINE s == [node \in Asts |-> [f \in [Asts -> Answers] |-> Walk(f, node)]]
<1>1. s \in [Asts -> [[Asts -> Answers] -> Answers]]
  BY WalkType
<1>2. ASSUME NEW x \in Asts, NEW f \in [Asts -> Answers], NEW g \in [Asts -> Answers],
             \A i \in DOMAIN x.kids : f[x.kids[i]] = g[x.kids[i]]
      PROVE  s[x][f] = s[x][g]
  BY <1>2, WalkIsLocal
<1>3. \A x \in Asts : \A f \in [Asts -> Answers] : s[x][f] = Walk(f, x)
  BY Zenon
<1>. HIDE DEF s
<1>4. Answers # {}
  BY DEF Answers
<1>5. FromKids(Answers, s)
  BY <1>1, <1>2, <1>4, Zenon DEF FromKids
<1>6. PICK f \in [Asts -> Answers] : \A x \in Asts : f[x] = s[x][f]
  BY <1>5, TreeRecursion
<1>7. f = [node \in Asts |-> Walk(f, node)]
  BY <1>3, <1>6
<1>8. Validate = CHOOSE g : g = [node \in Asts |-> Walk(g, node)]
  BY Zenon DEF Validate, Walk
<1>9. Validate = [node \in Asts |-> Walk(Validate, node)]
  BY <1>7, <1>8, Zenon
<1>. QED BY <1>9, Zenon

LEMMA ValidateType == \A node \in Asts : Validate[node] \in Answers
<1>. DEFINE P == {node \in Asts : Validate[node] \in Answers}
            v == [node \in Asts |-> IF Validate[node] \in Answers THEN Validate[node] ELSE "ok"]
<1>1. v \in [Asts -> Answers]
  BY DEF Answers
<1>2. \A node \in Asts : node \in P => v[node] = Validate[node]
  OBVIOUS
<1>. HIDE DEF v
<1>3. ASSUME NEW node \in Asts, \A i \in DOMAIN node.kids : node.kids[i] \in P PROVE node \in P
  <2>1. \A i \in DOMAIN node.kids : v[node.kids[i]] = Validate[node.kids[i]]
    BY <1>2, <1>3, KidsAreLower
  <2>2. Walk(v, node) = Walk(Validate, node)
    BY <2>1, WalkIsLocal
  <2>3. Validate[node] \in Answers
    BY <1>1, <2>2, WalkType, ValidateUnfolds
  <2>. QED BY <2>3
<1>4. \A node \in Asts : node \in P
  <2>. HIDE DEF P
  <2>. QED BY <1>3, TreeInduction
<1>. QED BY <1>4

(* The body of Checked and of Selects, which differ in the places they go to. *)
Joint(c, node, places) == Itself(node) \cup UNION {c[node.kids[i]] : i \in places}

Seen(node) == DOMAIN node.kids \ Unseen(node)

(* There is a function that gathers the SELECTs of what it goes to. *)
LEMMA JointExists ==
    ASSUME NEW see, \A node \in Asts : see[node] \subseteq DOMAIN node.kids
    PROVE  \E f : f = [node \in Asts |-> Joint(f, node, see[node])]
<1>. DEFINE V == SUBSET Asts
            s == [node \in Asts |-> [f \in [Asts -> V] |-> Joint(f, node, see[node])]]
<1>1. s \in [Asts -> [[Asts -> V] -> V]]
  <2>1. ASSUME NEW node \in Asts, NEW f \in [Asts -> V] PROVE Joint(f, node, see[node]) \in V
    <3>1. \A i \in see[node] : f[node.kids[i]] \subseteq Asts
      BY KidsAreLower
    <3>2. Itself(node) \subseteq Asts
      BY DEF Itself
    <3>. QED BY <3>1, <3>2 DEF Joint
  <2>. HIDE DEF V
  <2>. QED BY <2>1
<1>2. ASSUME NEW x \in Asts, NEW f \in [Asts -> V], NEW g \in [Asts -> V],
             \A i \in DOMAIN x.kids : f[x.kids[i]] = g[x.kids[i]]
      PROVE  s[x][f] = s[x][g]
  <2>1. {f[x.kids[i]] : i \in see[x]} = {g[x.kids[i]] : i \in see[x]}
    BY <1>2
  <2>. QED BY <2>1 DEF Joint
<1>3. \A x \in Asts : \A f \in [Asts -> V] : s[x][f] = Joint(f, x, see[x])
  BY Zenon
<1>4. V # {}
  OBVIOUS
<1>. HIDE DEF s, V
<1>5. FromKids(V, s)
  BY <1>1, <1>2, <1>4, Zenon DEF FromKids
<1>6. PICK f \in [Asts -> V] : \A x \in Asts : f[x] = s[x][f]
  BY <1>5, TreeRecursion
<1>7. f = [node \in Asts |-> Joint(f, node, see[node])]
  BY <1>3, <1>6
<1>. QED BY <1>7

LEMMA SelectsUnfolds ==
    \A node \in Asts : Selects[node] = Joint(Selects, node, DOMAIN node.kids)
<1>. DEFINE see == [node \in Asts |-> DOMAIN node.kids]
<1>1. \E f : f = [node \in Asts |-> Joint(f, node, see[node])]
  BY JointExists
<1>2. \E f : f = [node \in Asts |-> Joint(f, node, DOMAIN node.kids)]
  BY <1>1
<1>3. Selects = CHOOSE g : g = [node \in Asts |-> Joint(g, node, DOMAIN node.kids)]
  BY Zenon DEF Selects, Joint
<1>4. Selects = [node \in Asts |-> Joint(Selects, node, DOMAIN node.kids)]
  BY <1>2, <1>3, Zenon
<1>. QED BY <1>4, Zenon

LEMMA CheckedIsJoint == \A node \in Asts : Checked[node] = Joint(Checked, node, Seen(node))
<1>. DEFINE see == [node \in Asts |-> Seen(node)]
<1>1. \E f : f = [node \in Asts |-> Joint(f, node, see[node])]
  BY JointExists DEF Seen
<1>2. \E f : f = [node \in Asts |-> Joint(f, node, Seen(node))]
  BY <1>1
<1>3. Checked = CHOOSE g : g = [node \in Asts |-> Joint(g, node, Seen(node))]
  BY Zenon DEF Checked, Joint, Seen
<1>4. Checked = [node \in Asts |-> Joint(Checked, node, Seen(node))]
  BY <1>2, <1>3, Zenon
<1>. QED BY <1>4, Zenon

(* Checked, one type of node after the other. *)
Gather(c, node) ==
    CASE node.type = "Select"   -> {node} \cup c[FromOf(node)] \cup c[Where(node)]
      [] node.type = "Joined"   -> c[node.kids[1]]
      [] node.type = "Function" -> {}
      [] OTHER -> UNION {c[kid] : kid \in ToSet(node.kids)}

LEMMA CheckedUnfolds == \A node \in Asts : Checked[node] = Gather(Checked, node)
<1>. SUFFICES ASSUME NEW node \in Asts PROVE Checked[node] = Gather(Checked, node)
  OBVIOUS
<1>1. Checked[node] = Itself(node) \cup UNION {Checked[node.kids[i]] : i \in Seen(node)}
  BY CheckedIsJoint DEF Joint
<1>2. CASE node.type = "Select"
  <2>1. DOMAIN node.kids = 1..7
    <3>1. Fits(node.kids, <<{"List"}, TableExprs \cup {"Join", "Absent"}, Exprs \cup {"Absent"},
                            {"List", "Absent"}, Exprs \cup {"Absent"}, {"List", "Absent"},
                            {"Limit", "Absent"}>>)
      BY <1>2, KidsAreLower DEF WellFormed, Leaves
    <3>. QED BY <3>1 DEF Fits
  <2>2. Seen(node) = {2, 3}
    <3>1. Unseen(node) = {1, 4, 5, 6, 7}
      BY <1>2 DEF Unseen
    <3>. QED BY <2>1, <3>1 DEF Seen
  <2>3. Itself(node) = {node}
    BY <1>2 DEF Itself
  <2>. QED BY <1>1, <1>2, <2>2, <2>3 DEF Gather, FromOf, Where
<1>3. ASSUME node.type # "Select" PROVE Itself(node) = {}
  BY <1>3 DEF Itself
<1>4. CASE node.type = "Joined"
  <2>1. DOMAIN node.kids = {1, 2}
    <3>1. Fits(node.kids, <<TableExprs, Exprs \cup {"Absent"}>>)
      BY <1>4, KidsAreLower DEF WellFormed, Leaves
    <3>. QED BY <3>1 DEF Fits
  <2>2. Seen(node) = {1}
    BY <1>4, <2>1 DEF Seen, Unseen
  <2>. QED BY <1>1, <1>3, <1>4, <2>2 DEF Gather
<1>5. CASE node.type = "Function"
  <2>1. Seen(node) = {}
    BY <1>5 DEF Seen, Unseen
  <2>. QED BY <1>1, <1>3, <1>5, <2>1 DEF Gather
<1>6. CASE node.type \notin {"Select", "Joined", "Function"}
  <2>1. Seen(node) = DOMAIN node.kids
    BY <1>6 DEF Seen, Unseen
  <2>2. {Checked[node.kids[i]] : i \in DOMAIN node.kids} = {Checked[kid] : kid \in ToSet(node.kids)}
    BY DEF ToSet
  <2>3. Gather(Checked, node) = UNION {Checked[kid] : kid \in ToSet(node.kids)}
    BY <1>6 DEF Gather
  <2>. QED BY <1>1, <1>3, <1>6, <2>1, <2>2, <2>3
<1>. QED BY <1>2, <1>4, <1>5, <1>6

----------------------------------------------------------------------------
(* What stands in a clause or a part of a join. *)
TablesAt(node) == IF node.type = "Joined" THEN ReadFrom(node.kids[1]) ELSE ReadFrom(node)

LEMMA NoTables ==
    ASSUME NEW node, node.type \notin {"Table", "Join"}
    PROVE  ReadFrom(node) = {}
BY DEF ReadFrom

LEMMA OneTable ==
    ASSUME NEW node, node.type = "Table"
    PROVE  ReadFrom(node) = {node.val[1]}
BY DEF ReadFrom

(* A join has a table or a subquery, and such as are joined to it. *)
LEMMA JoinParts ==
    ASSUME NEW from \in Asts, from.type = "Join"
    PROVE  /\ 1 \in DOMAIN from.kids /\ from.kids[1].type \in TableExprs
           /\ \A i \in DOMAIN from.kids : from.kids[i] \in Asts
           /\ \A i \in DOMAIN from.kids : i # 1 =>
                 /\ from.kids[i].type = "Joined"
                 /\ DOMAIN from.kids[i].kids = {1, 2}
                 /\ from.kids[i].kids[1].type \in TableExprs
                 /\ from.kids[i].kids[2].type \notin {"Table", "Join"}
<1>1. /\ 1 \in DOMAIN from.kids
      /\ \A i \in DOMAIN from.kids : from.kids[i].type \in IF i = 1 THEN TableExprs ELSE {"Joined"}
  BY KidsAreLower DEF WellFormed, Leaves
<1>2. ASSUME NEW node \in Asts, node.type = "Joined"
      PROVE  /\ DOMAIN node.kids = {1, 2} /\ node.kids[1].type \in TableExprs
             /\ node.kids[2].type \notin {"Table", "Join"}
  <2>1. Fits(node.kids, <<TableExprs, Exprs \cup {"Absent"}>>)
    BY <1>2, KidsAreLower DEF WellFormed, Leaves
  <2>. QED BY <2>1 DEF Fits, Exprs
<1>. QED BY <1>1, <1>2, KidsAreLower

LEMMA JoinTables ==
    ASSUME NEW from \in Asts, from.type = "Join"
    PROVE  ReadFrom(from) = UNION {TablesAt(from.kids[i]) : i \in DOMAIN from.kids}
<1>. DEFINE joined == ToSet(from.kids)
            parts  == {from} \cup joined \cup UNION {ToSet(kid.kids) : kid \in joined}
<1>1. ReadFrom(from) = {part.val[1] : part \in {p \in parts : p.type = "Table"}}
  BY DEF ReadFrom
<1>2. ASSUME NEW p \in parts, p.type = "Table"
      PROVE  \E i \in DOMAIN from.kids : p.val[1] \in TablesAt(from.kids[i])
  <2>1. \/ \E i \in DOMAIN from.kids : p = from.kids[i]
        \/ \E i \in DOMAIN from.kids : \E j \in DOMAIN from.kids[i].kids : p = from.kids[i].kids[j]
    BY <1>2 DEF ToSet
  <2>2. CASE \E i \in DOMAIN from.kids : p = from.kids[i]
    <3>1. PICK i \in DOMAIN from.kids : p = from.kids[i]
      BY <2>2
    <3>2. TablesAt(p) = {p.val[1]}
      BY <1>2, OneTable DEF TablesAt
    <3>. QED BY <3>1, <3>2
  <2>3. CASE \E i \in DOMAIN from.kids : \E j \in DOMAIN from.kids[i].kids : p = from.kids[i].kids[j]
    <3>. PICK i \in DOMAIN from.kids :
            \E j \in DOMAIN from.kids[i].kids : p = from.kids[i].kids[j]
      BY <2>3
    <3>1. PICK j \in DOMAIN from.kids[i].kids : p = from.kids[i].kids[j]
      OBVIOUS
    <3>2. i # 1
      <4>1. SUFFICES ASSUME i = 1 PROVE FALSE
        OBVIOUS
      <4>2. from.kids[1] \in Asts /\ from.kids[1].type \in TableExprs
        BY JoinParts
      <4>3. WellFormed(from.kids[1])
        BY <4>2, KidsAreLower
      <4>4. CASE from.kids[1].type = "Table"
        BY <3>1, <4>1, <4>3, <4>4 DEF WellFormed, Leaves
      <4>5. CASE from.kids[1].type = "Subquery"
        BY <1>2, <3>1, <4>1, <4>3, <4>5 DEF WellFormed, Leaves, Fits, Queries
      <4>. QED BY <4>2, <4>4, <4>5 DEF TableExprs
    <3>3. from.kids[i].type = "Joined" /\ j = 1
      BY <1>2, <3>1, <3>2, JoinParts
    <3>4. TablesAt(from.kids[i]) = {p.val[1]}
      BY <1>2, <3>1, <3>3, OneTable DEF TablesAt
    <3>. QED BY <3>4
  <2>. QED BY <2>1, <2>2, <2>3
<1>3. ASSUME NEW i \in DOMAIN from.kids, NEW x \in TablesAt(from.kids[i])
      PROVE  \E p \in parts : p.type = "Table" /\ x = p.val[1]
  <2>. DEFINE p == IF i = 1 THEN from.kids[1] ELSE from.kids[i].kids[1]
  <2>1. p.type \in TableExprs /\ x \in ReadFrom(p)
    BY <1>3, JoinParts DEF TablesAt, TableExprs
  <2>2. p \in parts
    BY JoinParts DEF ToSet
  <2>. HIDE DEF p, parts
  <2>3. p.type = "Table"
    BY <2>1, NoTables DEF TableExprs
  <2>. QED BY <2>1, <2>2, <2>3, OneTable
<1>. HIDE DEF parts
<1>. QED BY <1>1, <1>2, <1>3

(* What _collect_tables collects is what is read. *)
LEMMA CollectedAreRead ==
    ASSUME NEW from \in Asts, from.type \in TableExprs \cup {"Join"}
    PROVE  TablesOf(from) = ReadFrom(from)
<1>1. CASE from.type # "Join"
  <2>1. ToSet(Sources(from)) = {from}
    BY <1>1 DEF Sources, ToSet
  <2>2. TablesOf(from) = {source.val[1] : source \in {s \in {from} : s.type = "Table"}}
    BY <2>1 DEF TablesOf
  <2>. QED BY <1>1, <2>2, OneTable, NoTables
<1>2. CASE from.type = "Join"
  <2>. DEFINE Part(i) == IF i = 1 THEN from.kids[1] ELSE from.kids[i].kids[1]
  <2>1. ToSet(Sources(from)) = {Part(i) : i \in DOMAIN from.kids}
    BY <1>2 DEF Sources, ToSet
  <2>2. \A i \in DOMAIN from.kids :
           /\ Part(i).type \in TableExprs
           /\ TablesAt(from.kids[i]) = ReadFrom(Part(i))
    BY <1>2, JoinParts DEF TablesAt, TableExprs
  <2>. HIDE DEF Part
  <2>3. \A i \in DOMAIN from.kids :
           TablesAt(from.kids[i]) = IF Part(i).type = "Table" THEN {Part(i).val[1]} ELSE {}
    BY <2>2, OneTable, NoTables DEF TableExprs
  <2>4. TablesOf(from) = UNION {TablesAt(from.kids[i]) : i \in DOMAIN from.kids}
    <3>1. TablesOf(from) = {source.val[1] : source \in {s \in {Part(i) : i \in DOMAIN from.kids} : s.type = "Table"}}
      BY <2>1 DEF TablesOf
    <3>2. ASSUME NEW x \in TablesOf(from)
          PROVE  \E i \in DOMAIN from.kids : x \in TablesAt(from.kids[i])
      BY <2>3, <3>1
    <3>3. ASSUME NEW i \in DOMAIN from.kids, NEW x \in TablesAt(from.kids[i])
          PROVE  x \in TablesOf(from)
      <4>1. Part(i).type = "Table" /\ x = Part(i).val[1]
        BY <2>3
      <4>. QED BY <3>1, <4>1
    <3>. QED BY <3>2, <3>3
  <2>. QED BY <1>2, <2>4, JoinTables
<1>. QED BY <1>1, <1>2

----------------------------------------------------------------------------
(* Accepted of all that is walked to below a node. *)
Passes(node) ==
    /\ node.type # "WriteStatement"
    /\ TablesAt(node) \subseteq Tables
    /\ \A s \in Checked[node] : Accepted(s)

(* The clauses of a SELECT. *)
LEMMA SelectClauses ==
    ASSUME NEW s \in Asts, s.type = "Select"
    PROVE  /\ FromOf(s) \in Asts /\ FromOf(s).type \in TableExprs \cup {"Join", "Absent"}
           /\ Where(s) \in Asts /\ Where(s).type \in Exprs \cup {"Absent"}
           /\ LimitOf(s) \in Asts /\ LimitOf(s).type \in {"Limit", "Absent"}
           /\ \A clause \in {FromOf(s), LimitOf(s), Where(s)} : Given(clause) <=> clause.type # "Absent"
<1>1. WellFormed(s)
  BY KidsAreLower
<1>2. Fits(s.kids, <<{"List"}, TableExprs \cup {"Join", "Absent"}, Exprs \cup {"Absent"},
                     {"List", "Absent"}, Exprs \cup {"Absent"}, {"List", "Absent"},
                     {"Limit", "Absent"}>>)
  BY <1>1 DEF WellFormed, Leaves
<1>3. 2 \in DOMAIN s.kids /\ 3 \in DOMAIN s.kids /\ 7 \in DOMAIN s.kids
  BY <1>2 DEF Fits
<1>4. /\ FromOf(s).type \in TableExprs \cup {"Join", "Absent"}
      /\ Where(s).type \in Exprs \cup {"Absent"}
      /\ LimitOf(s).type \in {"Limit", "Absent"}
  BY <1>2 DEF Fits, FromOf, Where, LimitOf
<1>5. FromOf(s) \in Asts /\ Where(s) \in Asts /\ LimitOf(s) \in Asts
  BY <1>3, KidsAreLower DEF FromOf, Where, LimitOf
<1>6. ASSUME NEW clause \in Asts PROVE Given(clause) <=> clause.type # "Absent"
  <2>1. WellFormed(clause)
    BY KidsAreLower
  <2>2. clause.type = "Absent" => clause = Absent
    BY <2>1 DEF WellFormed
  <2>3. Absent.type = "Absent"
    BY DEF Absent, Node
  <2>. QED BY <2>2, <2>3 DEF Given
<1>. QED BY <1>4, <1>5, <1>6

(* What _check_const_true finds in a condition is what is always true. *)
LEMMA ConstTrueIsAlwaysTrue ==
    ASSUME NEW expr \in Asts, Given(expr)
    PROVE  ConstTrue(expr) <=> AlwaysTrue(expr)
<1>1. CASE expr.type # "BinaryOp"
  BY <1>1 DEF ConstTrue, AlwaysTrue
<1>2. CASE expr.type = "BinaryOp"
  <2>1. Fits(expr.kids, <<Exprs, Exprs>>)
    BY <1>2, KidsAreLower DEF WellFormed, Leaves
  <2>2. ToSet(expr.kids) = {expr.kids[1], expr.kids[2]}
    BY <2>1 DEF Fits, ToSet
  <2>. QED BY <1>2, <2>2 DEF ConstTrue, AlwaysTrue
<1>. QED BY <1>1, <1>2

LEMMA ValidateSelectOk ==
    ASSUME NEW s, NEW tables, NEW subqueries
    PROVE  ValidateSelect(s, tables, subqueries) = "ok" <=>
              /\ Given(LimitOf(s)) /\ Given(FromOf(s))
              /\ NumberOf[LimitOf(s).val[1]] <= MaxLimit
              /\ tables = "ok"
              /\ Given(Where(s)) /\ ~ConstTrue(Where(s))
              /\ TablesOf(FromOf(s)) \cap FactTables # {} => "dt" \in ExtractColumns[Where(s)]
              /\ ~Given(GroupBy(s)) /\ ~Given(OrderBy(s))
              /\ subqueries = "ok"
<1>. DEFINE c1 == NumberOf[LimitOf(s).val[1]] <= MaxLimit
            c3 == Given(Where(s)) /\ ~ConstTrue(Where(s))
            c4 == TablesOf(FromOf(s)) \cap FactTables # {} => "dt" \in ExtractColumns[Where(s)]
            c5 == ReadsList(s)
            d5 == IF c5 THEN "TypeError" ELSE "ok"
            a  == <<Demand(c1), tables, Demand(c3), Demand(c4), d5, subqueries>>
<1>1. ValidateSelect(s, tables, subqueries) =
         IF ~Given(LimitOf(s)) \/ ~Given(FromOf(s)) THEN "GateError" ELSE FirstError(a)
  BY DEF ValidateSelect
<1>2. d5 = "ok" <=> ~c5
  OBVIOUS
<1>3. /\ (Demand(c1) = "ok") <=> c1
      /\ (Demand(c3) = "ok") <=> c3
      /\ (Demand(c4) = "ok") <=> c4
  BY DEF Demand
<1>. HIDE DEF c1, c3, c4, c5, d5
<1>4. FirstError(a) = "ok" <=> c1 /\ tables = "ok" /\ c3 /\ c4 /\ ~c5 /\ subqueries = "ok"
  <2>1. DOMAIN a = 1..6
    OBVIOUS
  <2>2. FirstError(a) = "ok" <=> \A i \in DOMAIN a : a[i] = "ok"
    <3>. HIDE DEF a
    <3>. QED BY <2>1, FirstErrorOk
  <2>3. (\A i \in 1..6 : a[i] = "ok") <=>
           /\ Demand(c1) = "ok" /\ tables = "ok" /\ Demand(c3) = "ok"
           /\ Demand(c4) = "ok" /\ d5 = "ok" /\ subqueries = "ok"
    OBVIOUS
  <2>. QED BY <1>2, <1>3, <2>1, <2>2, <2>3
<1>5. ValidateSelect(s, tables, subqueries) = "ok" <=>
         /\ Given(LimitOf(s)) /\ Given(FromOf(s))
         /\ c1 /\ tables = "ok" /\ c3 /\ c4 /\ ~c5 /\ subqueries = "ok"
  BY <1>1, <1>4
<1>. QED BY <1>5 DEF c1, c3, c4, c5, ReadsList

LEMMA SelectPasses ==
    ASSUME NEW s \in Asts, s.type = "Select",
           Validate[FromOf(s)] = "ok" <=> Passes(FromOf(s)),
           Validate[Where(s)] = "ok" <=> Passes(Where(s))
    PROVE  Validate[s] = "ok" <=> Passes(s)
<1>1. Validate[s] = ValidateSelect(s, Validate[FromOf(s)], Validate[Where(s)])
  <2>1. Validate[s] = Walk(Validate, s)
    BY ValidateUnfolds
  <2>. QED BY <2>1 DEF Walk
<1>2. Checked[s] = {s} \cup Checked[FromOf(s)] \cup Checked[Where(s)]
  <2>1. Checked[s] = Gather(Checked, s)
    BY CheckedUnfolds
  <2>. QED BY <2>1 DEF Gather
<1>3. /\ FromOf(s) \in Asts /\ FromOf(s).type \in TableExprs \cup {"Join", "Absent"}
      /\ Where(s).type \in Exprs \cup {"Absent"}
      /\ LimitOf(s).type \in {"Limit", "Absent"}
      /\ Given(FromOf(s)) <=> FromOf(s).type # "Absent"
      /\ Given(LimitOf(s)) <=> LimitOf(s).type # "Absent"
  BY SelectClauses
<1>4. TablesAt(s) = {}
  BY NoTables DEF TablesAt
<1>5. TablesAt(Where(s)) = {} /\ Where(s).type # "WriteStatement"
  BY <1>3, NoTables DEF TablesAt, Exprs
<1>6. TablesAt(FromOf(s)) = ReadFrom(FromOf(s)) /\ FromOf(s).type # "WriteStatement"
  BY <1>3 DEF TablesAt, TableExprs
<1>7. Given(FromOf(s)) => TablesOf(FromOf(s)) = ReadFrom(FromOf(s))
  BY <1>3, CollectedAreRead
<1>. DEFINE partition(tables) == tables \cap FactTables # {} => "dt" \in ExtractColumns[Where(s)]
            limit == NumberOf[LimitOf(s).val[1]] <= MaxLimit
<1>8. Validate[s] = "ok" <=>
         /\ Given(LimitOf(s)) /\ Given(FromOf(s)) /\ limit
         /\ Passes(FromOf(s))
         /\ Given(Where(s)) /\ ~ConstTrue(Where(s)) /\ partition(TablesOf(FromOf(s)))
         /\ ~Given(GroupBy(s)) /\ ~Given(OrderBy(s))
         /\ Passes(Where(s))
  BY <1>1, ValidateSelectOk
<1>9. Accepted(s) <=>
         /\ Given(LimitOf(s)) /\ Given(FromOf(s)) /\ limit
         /\ ReadFrom(FromOf(s)) \subseteq Tables
         /\ Given(Where(s)) /\ ~ConstTrue(Where(s)) /\ partition(ReadFrom(FromOf(s)))
         /\ ~Given(GroupBy(s)) /\ ~Given(OrderBy(s))
  <2>1. Given(Where(s)) => (ConstTrue(Where(s)) <=> AlwaysTrue(Where(s)))
    BY ConstTrueIsAlwaysTrue, SelectClauses
  <2>2. Given(LimitOf(s)) <=> s.kids[7].type = "Limit"
    BY <1>3 DEF LimitOf
  <2>. QED BY <2>1, <2>2 DEF Accepted, KeepsRules, LimitOf
<1>10. Passes(s) <=> /\ Accepted(s)
                     /\ \A t \in Checked[FromOf(s)] : Accepted(t)
                     /\ \A t \in Checked[Where(s)] : Accepted(t)
  BY <1>2, <1>4 DEF Passes
<1>11. Passes(Where(s)) <=> \A t \in Checked[Where(s)] : Accepted(t)
  BY <1>5 DEF Passes
<1>12. Passes(FromOf(s)) <=> /\ ReadFrom(FromOf(s)) \subseteq Tables
                             /\ \A t \in Checked[FromOf(s)] : Accepted(t)
  BY <1>6 DEF Passes
<1>. HIDE DEF partition, limit
<1>. QED BY <1>7, <1>8, <1>9, <1>10, <1>11, <1>12, Zenon

(* Where the walk goes to every kid, there are no tables but in a join. *)
LEMMA KidsWithoutTables ==
    ASSUME NEW node \in Asts, node.type \notin Special \cup {"Join"}, NEW i \in DOMAIN node.kids
    PROVE  node.kids[i].type \notin {"Table", "Join", "Joined", "WriteStatement"}
<1>1. WellFormed(node)
  BY KidsAreLower
<1>2. CASE node.type \in {"List", "Function"}
  BY <1>1, <1>2 DEF WellFormed, Leaves, Exprs
<1>3. CASE node.type \in {"BinaryOp", "LogicalOp"}
  <2>1. Fits(node.kids, <<Exprs, Exprs>>)
    BY <1>1, <1>3 DEF WellFormed, Leaves
  <2>. QED BY <2>1 DEF Fits, Exprs
<1>4. CASE node.type = "InOp"
  <2>1. Fits(node.kids, <<Exprs, {"List", "Subquery"}>>)
    BY <1>1, <1>4 DEF WellFormed, Leaves
  <2>. QED BY <2>1 DEF Fits, Exprs
<1>5. CASE node.type = "Union"
  <2>1. Fits(node.kids, <<Queries, Queries>>)
    BY <1>1, <1>5 DEF WellFormed, Leaves
  <2>. QED BY <2>1 DEF Fits, Queries
<1>6. CASE node.type \in Leaves
  BY <1>1, <1>6 DEF WellFormed, Leaves
<1>. QED BY <1>1, <1>2, <1>3, <1>4, <1>5, <1>6 DEF WellFormed, Special

LEMMA WalkPasses ==
    ASSUME NEW node \in Asts, node.type \notin Special,
           \A i \in DOMAIN node.kids : Validate[node.kids[i]] = "ok" <=> Passes(node.kids[i])
    PROVE  Validate[node] = "ok" <=> Passes(node)
<1>. DEFINE a == [i \in DOMAIN node.kids |-> Validate[node.kids[i]]]
<1>1. Validate[node] = FirstError(a)
  <2>1. Validate[node] = Walk(Validate, node)
    BY ValidateUnfolds
  <2>. QED BY <2>1 DEF Walk, Special
<1>2. FirstError(a) = "ok" <=> \A i \in DOMAIN node.kids : Validate[node.kids[i]] = "ok"
  <2>1. DOMAIN a = DOMAIN node.kids /\ DOMAIN a \subseteq Nat
        /\ \A i \in DOMAIN a : a[i] = Validate[node.kids[i]]
    BY KidsAreLower
  <2>. HIDE DEF a
  <2>2. FirstError(a) = "ok" <=> \A i \in DOMAIN a : a[i] = "ok"
    BY <2>1, FirstErrorOk
  <2>. QED BY <2>1, <2>2, Zenon
<1>3. Checked[node] = UNION {Checked[node.kids[i]] : i \in DOMAIN node.kids}
  <2>1. Checked[node] = Gather(Checked, node)
    BY CheckedUnfolds
  <2>2. Checked[node] = UNION {Checked[kid] : kid \in ToSet(node.kids)}
    BY <2>1 DEF Gather, Special
  <2>. QED BY <2>2 DEF ToSet
<1>4. TablesAt(node) = UNION {TablesAt(node.kids[i]) : i \in DOMAIN node.kids}
  <2>1. CASE node.type = "Join"
    BY <2>1, JoinTables DEF TablesAt
  <2>2. CASE node.type # "Join"
    <3>1. \A i \in DOMAIN node.kids : TablesAt(node.kids[i]) = {}
      BY <2>2, KidsWithoutTables, NoTables DEF TablesAt
    <3>2. TablesAt(node) = {}
      BY <2>2, NoTables DEF TablesAt, Special
    <3>. QED BY <3>1, <3>2
  <2>. QED BY <2>1, <2>2
<1>5. \A i \in DOMAIN node.kids : node.kids[i].type # "WriteStatement"
  <2>1. CASE node.type = "Join"
    BY <2>1, JoinParts DEF TableExprs
  <2>2. CASE node.type # "Join"
    BY <2>2, KidsWithoutTables
  <2>. QED BY <2>1, <2>2
<1>6. node.type # "WriteStatement"
  BY DEF Special
<1>7. Passes(node) <=> \A i \in DOMAIN node.kids : Passes(node.kids[i])
  <2>1. (\A s \in Checked[node] : Accepted(s)) <=>
           \A i \in DOMAIN node.kids : \A s \in Checked[node.kids[i]] : Accepted(s)
    BY <1>3
  <2>2. TablesAt(node) \subseteq Tables <=>
           \A i \in DOMAIN node.kids : TablesAt(node.kids[i]) \subseteq Tables
    BY <1>4
  <2>. QED BY <1>5, <1>6, <2>1, <2>2, Zenon DEF Passes
<1>. QED BY <1>1, <1>2, <1>7, Zenon

(* What the gate accepts, by induction over the tree. *)
LEMMA OkIfPasses == \A node \in Asts : Validate[node] = "ok" <=> Passes(node)
<1>. DEFINE P == {node \in Asts : Validate[node] = "ok" <=> Passes(node)}
<1>1. ASSUME NEW node \in Asts, \A i \in DOMAIN node.kids : node.kids[i] \in P
      PROVE  Validate[node] = "ok" <=> Passes(node)
  <2>1. Validate[node] = Walk(Validate, node) /\ Checked[node] = Gather(Checked, node)
    BY ValidateUnfolds, CheckedUnfolds
  <2>2. \A i \in DOMAIN node.kids :
           node.kids[i] \in Asts /\ (Validate[node.kids[i]] = "ok" <=> Passes(node.kids[i]))
    BY <1>1
  <2>. HIDE DEF P
  <2>3. CASE node.type = "WriteStatement"
    BY <2>1, <2>3 DEF Walk, Passes
  <2>4. CASE node.type = "Select"
    <3>1. /\ Validate[FromOf(node)] = "ok" <=> Passes(FromOf(node))
          /\ Validate[Where(node)] = "ok" <=> Passes(Where(node))
      BY <2>2, <2>4, KidsThere DEF FromOf, Where
    <3>. QED BY <2>4, <3>1, SelectPasses
  <2>5. CASE node.type = "Table"
    <3>1. Validate[node] = Demand(node.val[1] \in Tables)
      BY <2>1, <2>5 DEF Walk
    <3>2. TablesAt(node) = {node.val[1]}
      BY <2>5, OneTable DEF TablesAt
    <3>3. node.kids = << >>
      BY <2>5, KidsAreLower DEF WellFormed
    <3>4. Checked[node] = {}
      BY <2>1, <2>5, <3>3 DEF Gather, ToSet
    <3>. QED BY <2>5, <3>1, <3>2, <3>4 DEF Demand, Passes
  <2>6. CASE node.type \in {"Subquery", "Joined"}
    <3>1. 1 \in DOMAIN node.kids
      BY <2>6, KidsThere
    <3>2. Validate[node] = Validate[node.kids[1]]
      BY <2>1, <2>6 DEF Walk
    <3>3. Checked[node] = Checked[node.kids[1]]
      <4>1. CASE node.type = "Joined"
        BY <2>1, <4>1 DEF Gather
      <4>2. CASE node.type = "Subquery"
        <5>1. Fits(node.kids, <<Queries>>)
          BY <4>2, KidsAreLower DEF WellFormed, Leaves
        <5>2. ToSet(node.kids) = {node.kids[1]}
          BY <5>1 DEF Fits, ToSet
        <5>3. Checked[node] = UNION {Checked[kid] : kid \in {node.kids[1]}}
          BY <2>1, <4>2, <5>2 DEF Gather
        <5>. QED BY <5>3
      <4>. QED BY <2>6, <4>1, <4>2
    <3>4. TablesAt(node) = TablesAt(node.kids[1]) /\ node.kids[1].type # "WriteStatement"
      <4>1. CASE node.type = "Joined"
        <5>1. Fits(node.kids, <<TableExprs, Exprs \cup {"Absent"}>>)
          BY <4>1, KidsAreLower DEF WellFormed, Leaves
        <5>. QED BY <4>1, <5>1 DEF Fits, TableExprs, TablesAt
      <4>2. CASE node.type = "Subquery"
        <5>1. Fits(node.kids, <<Queries>>)
          BY <4>2, KidsAreLower DEF WellFormed, Leaves
        <5>2. node.kids[1].type \in Queries
          BY <5>1 DEF Fits
        <5>. QED BY <4>2, <5>2, NoTables DEF Queries, TablesAt
      <4>. QED BY <2>6, <4>1, <4>2
    <3>5. Passes(node) <=> Passes(node.kids[1])
      BY <2>6, <3>3, <3>4 DEF Passes
    <3>. QED BY <2>2, <3>1, <3>2, <3>5
  <2>7. CASE node.type = "Function"
    <3>1. Validate[node] = "ok" /\ Checked[node] = {}
      BY <2>1, <2>7 DEF Walk, Gather
    <3>2. TablesAt(node) = {}
      BY <2>7, NoTables DEF TablesAt
    <3>. QED BY <2>7, <3>1, <3>2 DEF Passes
  <2>8. CASE node.type \notin Special
    BY <2>2, <2>8, WalkPasses
  <2>. QED BY <2>3, <2>4, <2>5, <2>6, <2>7, <2>8 DEF Special
<1>2. \A node \in Asts : node \in P
  <2>1. ASSUME NEW node \in Asts, \A i \in DOMAIN node.kids : node.kids[i] \in P PROVE node \in P
    BY <1>1, <2>1
  <2>. HIDE DEF P
  <2>. QED BY <2>1, TreeInduction
<1>. QED BY <1>2

(* The gate accepts a query exactly when every SELECT it walks to, at any  *)
(* depth and in whatever form the tree has, keeps every rule.              *)
THEOREM GateIsExact ==
    \A tree \in Asts : tree.type \in Queries \cup {"WriteStatement"} =>
        (Validate[tree] = "ok" <=>
            tree.type # "WriteStatement" /\ \A s \in Checked[tree] : Accepted(s))
<1>1. ASSUME NEW tree \in Asts, tree.type \in Queries \cup {"WriteStatement"}
      PROVE  TablesAt(tree) = {}
  BY <1>1, NoTables DEF TablesAt, Queries
<1>. QED BY <1>1, OkIfPasses, Zenon DEF Passes

(* What the gate lets through. *)
LEMMA OkKeepsRules ==
    ASSUME NEW answer \in Sqls, NEW tree \in Parser(answer), Validate[tree] = "ok"
    PROVE  /\ tree \in Asts
           /\ tree.type # "WriteStatement"
           /\ \A s \in Checked[tree] : KeepsRules(s)
<1>1. tree \in Asts /\ tree.type \in Queries \cup {"WriteStatement"}
  BY ParserAssumption
<1>2. tree.type # "WriteStatement" /\ \A s \in Checked[tree] : Accepted(s)
  BY <1>1, GateIsExact
<1>. QED BY <1>1, <1>2, Zenon DEF Accepted

----------------------------------------------------------------------------
(* The loop with the gate.                                                 *)

Gated == \A answer \in Sqls : Executor(answer) = GatedExecutor(answer)

(* What has been returned was found by executing it. *)
ReturnsRows == pc = "succeeded" => sql \in Sqls /\ "rows" \in Executor(sql)

LEMMA ReturnsRowsStep == ASSUME IInv, ReturnsRows, [AgentNext]_agentVars PROVE ReturnsRows'
<1>1. CASE Ask
  <2>1. pc' \in {"failed", "execute"}
    BY <1>1 DEF Ask
  <2>. QED BY <2>1 DEF ReturnsRows
<1>2. CASE Succeed
  <2>1. pc = "execute" /\ "rows" \in Executor(sql) /\ sql' = sql
    BY <1>2, Zenon DEF Succeed
  <2>2. sql \in Sqls
    BY <2>1, Zenon DEF IInv, ExecutesAnswers
  <2>. QED BY <2>1, <2>2, Zenon DEF ReturnsRows
<1>3. CASE Retry
  <2>1. pc' \in {"ask", "failed"}
    BY <1>3 DEF Retry
  <2>. QED BY <2>1 DEF ReturnsRows
<1>4. CASE UNCHANGED agentVars
  BY <1>4, Zenon DEF ReturnsRows, agentVars
<1>. QED BY <1>1, <1>2, <1>3, <1>4 DEF AgentNext

LEMMA RowsKeepRules ==
    ASSUME Gated, NEW answer \in Sqls, "rows" \in Executor(answer)
    PROVE  \E tree \in Parser(answer) :
              /\ tree \in Asts
              /\ tree.type # "WriteStatement"
              /\ \A s \in Checked[tree] : KeepsRules(s)
<1>0. Parser(answer) # {}
  BY ParserAssumption DEF Gated, GatedExecutor
<1>1. "rows" \in GatedExecutor(answer)
  BY DEF Gated
<1>2. PICK tree \in Parser(answer) :
         "rows" \in IF Validate[tree] = "ok" THEN {"rows", "empty", "DatabaseError"}
                                             ELSE {Validate[tree]}
  BY <1>0, <1>1 DEF GatedExecutor
<1>3. Validate[tree] \in Answers
  BY ParserAssumption, ValidateType
<1>4. Validate[tree] = "ok"
  BY <1>2, <1>3 DEF Answers
<1>. QED BY <1>4, OkKeepsRules

LEMMA ReturnsRowsHolds == AgentSpec => []ReturnsRows
<1>1. AgentInit => ReturnsRows
  BY DEF AgentInit, ReturnsRows
<1>2. IInv /\ ReturnsRows /\ [AgentNext]_agentVars => ReturnsRows'
  BY ReturnsRowsStep
<1>. QED BY <1>1, <1>2, Inductive, PTL DEF AgentSpec

(* Whatever the model answers, however deep its queries are and however    *)
(* often it was refused before: what the loop returns writes nothing, and  *)
(* each of its SELECTs that is not in a place the gate does not look at    *)
(* has a limit, known tables, a condition that is not always true and,     *)
(* where it reads a fact table, the column of the partition.               *)
THEOREM CheckedSelectsKeepRulesHolds == Gated => (Spec => []CheckedSelectsKeepRules)
<1>. SUFFICES ASSUME Gated PROVE Spec => []CheckedSelectsKeepRules
  OBVIOUS
<1>1. ReturnsRows => CheckedSelectsKeepRules
  BY RowsKeepRules, Zenon DEF ReturnsRows, CheckedSelectsKeepRules
<1>. QED BY <1>1, ReturnsRowsHolds, PTL DEF Spec

----------------------------------------------------------------------------
(***************************************************************************)
(* The SELECTs that are not looked at.                                     *)
(***************************************************************************)

(* No SELECT stands in a column list, GROUP BY, HAVING, ORDER BY, the      *)
(* condition of a join or the arguments of a function.                     *)
NothingHidden ==
    \A node \in Asts : \A i \in Unseen(node) \cap DOMAIN node.kids : Selects[node.kids[i]] = {}

(* Then the gate looks at every SELECT, at any depth. *)
LEMMA AllAreChecked == ASSUME NothingHidden PROVE \A node \in Asts : Selects[node] = Checked[node]
<1>. DEFINE P == {node \in Asts : Selects[node] = Checked[node]}
<1>1. ASSUME NEW node \in Asts, \A i \in DOMAIN node.kids : node.kids[i] \in P
      PROVE  Selects[node] = Checked[node]
  <2>1. /\ Selects[node] = Itself(node) \cup UNION {Selects[node.kids[i]] : i \in DOMAIN node.kids}
        /\ Checked[node] = Itself(node) \cup UNION {Checked[node.kids[i]] : i \in Seen(node)}
    BY SelectsUnfolds, CheckedIsJoint DEF Joint
  <2>2. \A i \in DOMAIN node.kids : Selects[node.kids[i]] = Checked[node.kids[i]]
    BY <1>1
  <2>3. \A i \in DOMAIN node.kids : i \in Seen(node) \/ Selects[node.kids[i]] = {}
    BY DEF NothingHidden, Seen
  <2>4. Seen(node) \subseteq DOMAIN node.kids
    BY DEF Seen
  <2>. HIDE DEF P
  <2>. QED BY <2>1, <2>2, <2>3, <2>4
<1>2. \A node \in Asts : node \in P
  <2>1. ASSUME NEW node \in Asts, \A i \in DOMAIN node.kids : node.kids[i] \in P PROVE node \in P
    BY <1>1, <2>1
  <2>. HIDE DEF P
  <2>. QED BY <2>1, TreeInduction
<1>. QED BY <1>2

(* The scans that are let through come from those places alone: where no   *)
(* SELECT stands in one of them, what the loop returns keeps the promise   *)
(* of the documentation, in all its subqueries.                            *)
THEOREM OnlyAllowedAnswersWithoutHidden ==
    Gated /\ NothingHidden => (Spec => []OnlyAllowedAnswers)
<1>. SUFFICES ASSUME Gated, NothingHidden PROVE Spec => []OnlyAllowedAnswers
  OBVIOUS
<1>1. ASSUME NEW answer \in Sqls, "rows" \in Executor(answer)
      PROVE  \E tree \in Parser(answer) : Allowed(tree)
  BY <1>1, AllAreChecked, RowsKeepRules DEF Allowed
<1>2. ReturnsRows => OnlyAllowedAnswers
  BY <1>1, Zenon DEF ReturnsRows, OnlyAllowedAnswers
<1>. QED BY <1>2, ReturnsRowsHolds, PTL DEF Spec

----------------------------------------------------------------------------
(***************************************************************************)
(* The TypeError.                                                          *)
(***************************************************************************)

LEMMA SelectTypeError ==
    ASSUME NEW s, NEW tables, NEW subqueries, ValidateSelect(s, tables, subqueries) = "TypeError"
    PROVE  tables = "TypeError" \/ subqueries = "TypeError" \/ ReadsList(s)
<1>. DEFINE c1 == NumberOf[LimitOf(s).val[1]] <= MaxLimit
            c3 == Given(Where(s)) /\ ~ConstTrue(Where(s))
            c4 == TablesOf(FromOf(s)) \cap FactTables # {} => "dt" \in ExtractColumns[Where(s)]
            d5 == IF ReadsList(s) THEN "TypeError" ELSE "ok"
            a  == <<Demand(c1), tables, Demand(c3), Demand(c4), d5, subqueries>>
<1>1. FirstError(a) = "TypeError"
  BY DEF ValidateSelect
<1>2. Demand(c1) # "TypeError" /\ Demand(c3) # "TypeError" /\ Demand(c4) # "TypeError"
  BY DEF Demand
<1>3. d5 = "TypeError" => ReadsList(s)
  OBVIOUS
<1>. HIDE DEF c1, c3, c4, d5
<1>4. PICK i \in DOMAIN a : a[i] = "TypeError"
  <2>1. DOMAIN a \subseteq Nat
    OBVIOUS
  <2>. HIDE DEF a
  <2>. QED BY <1>1, <2>1, FirstErrorIs
<1>5. DOMAIN a = 1..6
  OBVIOUS
<1>. QED BY <1>2, <1>3, <1>4, <1>5

(* A tree is answered with a TypeError only for a list in a SELECT that is *)
(* walked to.                                                              *)
LEMMA TypeErrorHasList ==
    \A node \in Asts : Validate[node] = "TypeError" => \E s \in Checked[node] : ReadsList(s)
<1>. DEFINE Found(node) == \E s \in Checked[node] : ReadsList(s)
            P == {node \in Asts : Validate[node] = "TypeError" => Found(node)}
<1>1. ASSUME NEW node \in Asts, \A i \in DOMAIN node.kids : node.kids[i] \in P,
             Validate[node] = "TypeError"
      PROVE  Found(node)
  <2>1. Validate[node] = Walk(Validate, node) /\ Checked[node] = Gather(Checked, node)
    BY ValidateUnfolds, CheckedUnfolds
  <2>2. \A i \in DOMAIN node.kids : Validate[node.kids[i]] = "TypeError" => Found(node.kids[i])
    BY <1>1
  <2>. HIDE DEF P
  <2>3. CASE node.type = "Select"
    <3>1. Checked[node] = {node} \cup Checked[FromOf(node)] \cup Checked[Where(node)]
      BY <2>1, <2>3 DEF Gather
    <3>2. ValidateSelect(node, Validate[FromOf(node)], Validate[Where(node)]) = "TypeError"
      BY <1>1, <2>1, <2>3 DEF Walk
    <3>3. /\ Validate[FromOf(node)] = "TypeError" => Found(FromOf(node))
          /\ Validate[Where(node)] = "TypeError" => Found(Where(node))
      BY <2>2, <2>3, KidsThere DEF FromOf, Where
    <3>. QED BY <3>1, <3>2, <3>3, SelectTypeError
  <2>4. CASE node.type \in {"Subquery", "Joined"}
    <3>1. 1 \in DOMAIN node.kids
      BY <2>4, KidsThere
    <3>2. Found(node.kids[1])
      BY <1>1, <2>1, <2>2, <2>4, <3>1 DEF Walk
    <3>3. Checked[node.kids[1]] \subseteq Checked[node]
      BY <2>1, <2>4, <3>1 DEF Gather, ToSet
    <3>. QED BY <3>2, <3>3
  <2>5. CASE node.type \notin Special
    <3>. DEFINE a == [i \in DOMAIN node.kids |-> Validate[node.kids[i]]]
    <3>1. FirstError(a) = "TypeError"
      BY <1>1, <2>1, <2>5 DEF Walk, Special
    <3>2. DOMAIN a = DOMAIN node.kids /\ DOMAIN a \subseteq Nat
          /\ \A i \in DOMAIN a : a[i] = Validate[node.kids[i]]
      BY KidsAreLower
    <3>. HIDE DEF a
    <3>3. PICK i \in DOMAIN node.kids : Validate[node.kids[i]] = "TypeError"
      BY <3>1, <3>2, FirstErrorIs
    <3>4. Checked[node] = UNION {Checked[kid] : kid \in ToSet(node.kids)}
      BY <2>1, <2>5 DEF Gather, Special
    <3>5. Checked[node.kids[i]] \subseteq Checked[node]
      BY <3>4 DEF ToSet
    <3>. QED BY <2>2, <3>3, <3>5
  <2>6. CASE node.type \in {"WriteStatement", "Table", "Function"}
    BY <1>1, <2>1, <2>6 DEF Walk, Demand
  <2>. QED BY <2>3, <2>4, <2>5, <2>6 DEF Special
<1>2. \A node \in Asts : node \in P
  <2>1. ASSUME NEW node \in Asts, \A i \in DOMAIN node.kids : node.kids[i] \in P PROVE node \in P
    BY <1>1, <2>1
  <2>. HIDE DEF P
  <2>. QED BY <2>1, TreeInduction
<1>. QED BY <1>2

(* An answer for which a TypeError can be recorded. *)
ListInSight(answer) == \E tree \in Parser(answer) : \E s \in Checked[tree] : ReadsList(s)

LEMMA ExecutorTypeError ==
    ASSUME Gated, NEW answer \in Sqls, "TypeError" \in Executor(answer)
    PROVE  ListInSight(answer)
<1>1. "TypeError" \in GatedExecutor(answer)
  BY DEF Gated
<1>2. Parser(answer) # {}
  BY <1>1, ParserAssumption DEF GatedExecutor
<1>3. PICK tree \in Parser(answer) :
         "TypeError" \in IF Validate[tree] = "ok" THEN {"rows", "empty", "DatabaseError"}
                                                  ELSE {Validate[tree]}
  BY <1>1, <1>2 DEF GatedExecutor
<1>4. Validate[tree] = "TypeError"
  BY <1>3
<1>5. tree \in Asts
  BY ParserAssumption
<1>. QED BY <1>4, <1>5, TypeErrorHasList DEF ListInSight

(* TypeErrorsComeFromLists, with a name for what it says of an answer. *)
Sighted == \A i \in DOMAIN history : history[i].error = "TypeError" => ListInSight(history[i].sql)

LEMMA SightedStep == ASSUME Gated, IInv, Sighted, [AgentNext]_agentVars PROVE Sighted'
<1>1. ASSUME NEW answer, NEW error, Record(answer, error),
             error = "TypeError" => ListInSight(answer)
      PROVE  Sighted'
  <2>. DEFINE new == [attempt |-> attempt, sql |-> answer, error |-> error]
  <2>1. history \in Seq(Entry) /\ history' = Append(history, new)
    BY <1>1 DEF IInv, Types, Record
  <2>2. new.error = error /\ new.sql = answer
    OBVIOUS
  <2>3. \A i \in DOMAIN history : history[i].error = "TypeError" => ListInSight(history[i].sql)
    BY Zenon DEF Sighted
  <2>. HIDE DEF new
  <2>4. \A i \in DOMAIN history' : \/ i \in DOMAIN history /\ history'[i] = history[i]
                                  \/ history'[i] = new
    BY <2>1
  <2>5. \A i \in DOMAIN history' : history'[i].error = "TypeError" => ListInSight(history'[i].sql)
    BY <1>1, <2>2, <2>3, <2>4, Zenon
  <2>. QED BY <2>5, Zenon DEF Sighted, ListInSight
<1>2. ASSUME UNCHANGED history PROVE Sighted'
  BY <1>2, Zenon DEF Sighted, ListInSight
<1>3. CASE Ask
  <2>1. PICK answer \in Sqls \cup {NoSql} :
           IF answer = NoSql THEN Record(answer, "no_sql") ELSE UNCHANGED history
    BY <1>3, Zenon DEF Ask
  <2>2. CASE answer = NoSql
    BY <1>1, <2>1, <2>2
  <2>3. CASE answer # NoSql
    BY <1>2, <2>1, <2>3
  <2>. QED BY <2>2, <2>3
<1>4. CASE Succeed
  <2>1. Record(sql, None)
    BY <1>4, Zenon DEF Succeed
  <2>2. None # "TypeError"
    BY DEF None
  <2>. QED BY <1>1, <2>1, <2>2
<1>5. CASE Retry
  <2>1. PICK error \in Executor(sql) \ {"rows"} : Record(sql, error)
    BY <1>5, Zenon DEF Retry
  <2>2. sql \in Sqls
    BY <1>5, Zenon DEF IInv, ExecutesAnswers, Retry
  <2>. QED BY <1>1, <2>1, <2>2, ExecutorTypeError
<1>6. CASE UNCHANGED agentVars
  BY <1>2, <1>6 DEF agentVars
<1>. QED BY <1>3, <1>4, <1>5, <1>6 DEF AgentNext

(* That validate raises an error that is not its own comes from GROUP BY   *)
(* and ORDER BY alone: whatever was tried, an attempt that is recorded     *)
(* with a TypeError has one of them in a SELECT that the gate walks to.    *)
THEOREM TypeErrorsComeFromListsHolds == Gated => (Spec => []TypeErrorsComeFromLists)
<1>. SUFFICES ASSUME Gated PROVE Spec => []TypeErrorsComeFromLists
  OBVIOUS
<1>1. AgentInit => Sighted
  BY DEF AgentInit, Sighted
<1>2. IInv /\ Sighted /\ [AgentNext]_agentVars => Sighted'
  BY SightedStep
<1>3. Sighted => TypeErrorsComeFromLists
  BY Zenon DEF Sighted, ListInSight, TypeErrorsComeFromLists, ReadsList
<1>. QED BY <1>1, <1>2, <1>3, Inductive, PTL DEF Spec, AgentSpec
=============================================================================
