------------------------- MODULE AskPipelineProofs -------------------------
(***************************************************************************)
(* Theorems about AskPipeline, for every set of calls and every setting.   *)
(***************************************************************************)
EXTENDS AskPipeline, TLAPS

-----------------------------------------------------------------------------
(***************************************************************************)
(* Type correctness.                                                       *)
(***************************************************************************)

\* Recording a failure keeps the variables it changes well typed.
LEMMA FailedTypes ==
    ASSUME TypeOK, NEW r \in Requests, NEW exc \in Exceptions, Failed(r, exc)
    PROVE  /\ failure' \in [Requests -> Exceptions \cup {"none"}]
           /\ audit' \in [Requests -> Seq(Codes \cup {"complete"})]
           /\ out' \in [Requests -> {"open", "done", "returned", "error", "raised", "abandoned"}]
           /\ pc' \in [Requests -> Labels]
<1>1. FailureCode(r, exc) \in Codes
  BY DEF FailureCode, Codes, Exceptions
<1>2. audit' \in [Requests -> Seq(Codes \cup {"complete"})]
  BY <1>1 DEF Failed, TypeOK
<1> QED
  BY <1>2 DEF Failed, TypeOK, Goto, Labels

\* So does a status event.
LEMMA StatusTypes ==
    ASSUME TypeOK, NEW r \in Requests, NEW p \in Phases, Status(r, p)
    PROVE  phase' \in [Requests -> Phases]
BY DEF TypeOK, Status

LEMMA GotoTypes ==
    ASSUME TypeOK, NEW r \in Requests, NEW l \in Labels, Goto(r, l)
    PROVE  pc' \in [Requests -> Labels]
BY DEF TypeOK, Goto

LEMMA PhaseNames ==
    /\ Routing \in Phases /\ Retrieving \in Phases /\ WritingSQL \in Phases
    /\ Governing \in Phases /\ Validating \in Phases /\ Executing \in Phases
    /\ Answering \in Phases /\ Silent \in Phases
BY DEF Phases, Silent, Routing, Retrieving, WritingSQL, Governing, Validating,
       Executing, Answering

LEMMA EnterTypes ==
    ASSUME TypeOK, NEW r \in Requests, EnterSQL(r)
    PROVE  pc' \in [Requests -> Labels] /\ phase' \in [Requests -> Phases]
<1>1. phase' \in [Requests -> Phases]
  BY StatusTypes, PhaseNames DEF EnterSQL
<1>2. pc' \in [Requests -> Labels]
  BY GotoTypes DEF EnterSQL, Labels
<1> QED BY <1>1, <1>2

\* prepare_governed_sql returns a text the enforcer made and the validator,
\* where the call enforces it, accepted after that.
LEMMA PreparedForms ==
    ASSUME TypeOK, NEW r \in Requests, NEW t \in Prepared(r, sql[r])
    PROVE  t \in Texts /\ t.governed /\ Accepts(r, t)
<1>1. t \in GovernedForms(sql[r]) /\ Accepts(r, t)
  BY Zenon DEF Prepared
<1>2. sql[r].readonly \in BOOLEAN
  BY DEF TypeOK, Texts
<1>3. PICK c \in BOOLEAN : t = [readonly |-> c, governed |-> TRUE]
  BY <1>1, <1>2 DEF GovernedForms
<1> QED
  BY <1>1, <1>3 DEF Texts

\* The state keeps its shape.
THEOREM TypeCorrect == Spec => []TypeOK
<1>1. Init => TypeOK
  BY PhaseNames DEF Init, TypeOK, Settings, Asks, Texts, NoText, Labels
<1>2. TypeOK /\ [Next]_vars => TypeOK'
  <2> SUFFICES ASSUME TypeOK, [Next]_vars PROVE TypeOK'
    OBVIOUS
  <2>1. CASE UNCHANGED vars
    BY <2>1 DEF vars, TypeOK
  <2>2. ASSUME NEW r \in Requests, Start(r) PROVE TypeOK'
    <3>1. pc' \in [Requests -> Labels] /\ phase' \in [Requests -> Phases]
      BY <2>2, StatusTypes, GotoTypes, EnterTypes, PhaseNames DEF Start, Labels
    <3> QED
      BY <2>2, <3>1 DEF Start, TypeOK, fixed
  <2>3. ASSUME NEW r \in Requests, Route(r) PROVE TypeOK'
    <3>1. PICK k \in RoutesFor(r) : Route(r)!2!(k)
      BY <2>3 DEF Route
    <3>2. k \in {"none", "sql", "rag", "both", "agent"}
      BY DEF RoutesFor, TypeOK, Asks
    <3>3. route' \in [Requests -> {"none", "sql", "rag", "both", "agent"}]
      BY <3>1, <3>2 DEF TypeOK
    <3>4. UNCHANGED <<settings, ask, sql, executed, execution, speakers, answer>>
      BY <2>3 DEF Route, fixed
    <3>5. CASE EnterSQL(r) /\ UNCHANGED <<failure, audit, out>>
      BY <3>3, <3>4, <3>5, EnterTypes DEF TypeOK
    <3>6. CASE Status(r, Retrieving) /\ Goto(r, "retrieve") /\ UNCHANGED <<failure, audit, out>>
      <4>1. pc' \in [Requests -> Labels] /\ phase' \in [Requests -> Phases]
        BY <3>6, StatusTypes, GotoTypes, PhaseNames DEF Labels
      <4> QED
        BY <3>3, <3>4, <3>6, <4>1 DEF TypeOK
    <3>7. CASE Failed(r, "other") /\ UNCHANGED phase
      BY <3>3, <3>4, <3>7, FailedTypes DEF TypeOK, Exceptions
    <3> QED
      BY <3>1, <3>5, <3>6, <3>7
  <2>4. ASSUME NEW r \in Requests, Retrieve(r) PROVE TypeOK'
    <3>1. UNCHANGED <<settings, ask, route, sql, executed, execution, speakers, answer>>
      BY <2>4 DEF Retrieve, fixed
    <3>2. CASE Failed(r, "other") /\ UNCHANGED phase
      BY <3>1, <3>2, FailedTypes DEF TypeOK, Exceptions
    <3>3. CASE EnterSQL(r) /\ UNCHANGED <<failure, audit, out>>
      BY <3>1, <3>3, EnterTypes DEF TypeOK
    <3>4. CASE Status(r, Answering) /\ Goto(r, "rag_answer") /\ UNCHANGED <<failure, audit, out>>
      <4>1. pc' \in [Requests -> Labels] /\ phase' \in [Requests -> Phases]
        BY <3>4, StatusTypes, GotoTypes, PhaseNames DEF Labels
      <4> QED
        BY <3>1, <3>4, <4>1 DEF TypeOK
    <3> QED
      BY <2>4, <3>2, <3>3, <3>4 DEF Retrieve
  <2>5. ASSUME NEW r \in Requests, GenerateSQL(r) PROVE TypeOK'
    <3>1. UNCHANGED <<settings, ask, route, executed, execution, speakers, answer>>
      BY <2>5 DEF GenerateSQL, fixed
    <3>2. ASSUME NEW exc \in {"sql_generation", "other"}, Failed(r, exc), UNCHANGED <<sql, phase>>
          PROVE TypeOK'
      BY <3>1, <3>2, FailedTypes DEF TypeOK, Exceptions
    <3>3. ASSUME NEW ok \in BOOLEAN,
                 sql' = [sql EXCEPT ![r] = [readonly |-> ok, governed |-> FALSE]],
                 Status(r, Governing), Goto(r, "govern"), UNCHANGED <<failure, audit, out>>
          PROVE TypeOK'
      <4>1. pc' \in [Requests -> Labels] /\ phase' \in [Requests -> Phases]
        BY <3>3, StatusTypes, GotoTypes, PhaseNames DEF Labels
      <4>2. sql' \in [Requests -> Texts]
        BY <3>3 DEF TypeOK, Texts
      <4> QED
        BY <3>1, <3>3, <4>1, <4>2 DEF TypeOK
    <3> QED
      BY <2>5, <3>2, <3>3 DEF GenerateSQL
  <2>6. ASSUME NEW r \in Requests, Govern(r) PROVE TypeOK'
    <3>1. UNCHANGED <<settings, ask, route, executed, execution, speakers, answer>>
      BY <2>6 DEF Govern, fixed
    <3>2. ASSUME NEW exc \in {"denied", "other"}, Failed(r, exc), UNCHANGED <<sql, phase>>
          PROVE TypeOK'
      BY <3>1, <3>2, FailedTypes DEF TypeOK, Exceptions
    <3>3. ASSUME NEW t \in Prepared(r, sql[r]), sql' = [sql EXCEPT ![r] = t],
                 Status(r, Validating), Goto(r, "validated"), UNCHANGED <<failure, audit, out>>
          PROVE TypeOK'
      <4>1. pc' \in [Requests -> Labels] /\ phase' \in [Requests -> Phases]
        BY <3>3, StatusTypes, GotoTypes, PhaseNames DEF Labels
      <4>2. t \in Texts
        BY PreparedForms
      <4> QED
        BY <3>1, <3>3, <4>1, <4>2 DEF TypeOK
    <3>4. CASE \E t \in Prepared(r, sql[r]) :
                 /\ sql' = [sql EXCEPT ![r] = t]
                 /\ Status(r, Validating) /\ Goto(r, "validated")
                 /\ UNCHANGED <<failure, audit, out>>
      BY <3>3, <3>4
    <3>5. CASE (Failed(r, "denied") \/ Failed(r, "other")) /\ UNCHANGED <<sql, phase>>
      BY <3>2, <3>5
    <3> QED
      BY <2>6, <3>4, <3>5 DEF Govern
  <2>7. ASSUME NEW r \in Requests, SkipQuery(r) PROVE TypeOK'
    <3>1. pc' \in [Requests -> Labels] /\ phase' \in [Requests -> Phases]
      BY <2>7, StatusTypes, GotoTypes, PhaseNames DEF SkipQuery, Labels
    <3> QED
      BY <2>7, <3>1 DEF SkipQuery, TypeOK, fixed
  <2>8. ASSUME NEW r \in Requests, BeginQuery(r) PROVE TypeOK'
    <3>1. pc' \in [Requests -> Labels] /\ phase' \in [Requests -> Phases]
      BY <2>8, StatusTypes, GotoTypes, PhaseNames DEF BeginQuery, Labels
    <3> QED
      BY <2>8, <3>1 DEF BeginQuery, TypeOK, fixed
  <2>9. ASSUME NEW r \in Requests, RunQuery(r) PROVE TypeOK'
    <3>1. UNCHANGED <<settings, ask, route, sql, speakers, answer>>
      BY <2>9 DEF RunQuery, fixed
    <3>2. executed' \in [Requests -> SUBSET Texts]
      BY <2>9 DEF RunQuery, TypeOK
    <3>3. CASE Failed(r, "other") /\ UNCHANGED <<execution, phase>>
      BY <3>1, <3>2, <3>3, FailedTypes DEF TypeOK, Exceptions
    <3>4. CASE /\ execution' = [execution EXCEPT ![r] = "rows"]
               /\ Status(r, Answering) /\ Goto(r, "answer")
               /\ UNCHANGED <<failure, audit, out>>
      <4>1. pc' \in [Requests -> Labels] /\ phase' \in [Requests -> Phases]
        BY <3>4, StatusTypes, GotoTypes, PhaseNames DEF Labels
      <4> QED
        BY <3>1, <3>2, <3>4, <4>1 DEF TypeOK
    <3> QED
      BY <2>9, <3>3, <3>4 DEF RunQuery
  <2>10. ASSUME NEW r \in Requests, Token(r) PROVE TypeOK'
    <3>1. Speaker[pc[r]] \in {"sql", "rag", "merged"}
      BY <2>10 DEF Token, Speaker
    <3> QED
      BY <2>10, <3>1 DEF Token, TypeOK, fixed
  <2>11. ASSUME NEW r \in Requests, AnswerComplete(r) PROVE TypeOK'
    <3>1. Speaker[pc[r]] \in {"sql", "rag", "merged"}
      BY <2>11 DEF AnswerComplete, Speaker
    <3>2. audit' \in [Requests -> Seq(Codes \cup {"complete"})]
      BY <2>11 DEF AnswerComplete, LogComplete, TypeOK
    <3>3. pc' \in [Requests -> Labels]
      BY <2>11, GotoTypes DEF AnswerComplete, Deliver, Labels
    <3>4. out' \in [Requests -> {"open", "done", "returned", "error", "raised", "abandoned"}]
      BY <2>11 DEF AnswerComplete, Deliver, TypeOK
    <3>5. answer' \in [Requests -> {"none", "sql", "rag", "merged"}]
      BY <2>11, <3>1 DEF AnswerComplete, TypeOK
    <3> QED
      BY <2>11, <3>2, <3>3, <3>4, <3>5 DEF AnswerComplete, TypeOK, fixed
  <2>12. ASSUME NEW r \in Requests, AnswerFails(r) PROVE TypeOK'
    BY <2>12, FailedTypes DEF AnswerFails, TypeOK, fixed, Exceptions
  <2>13. ASSUME NEW r \in Requests, AnswerExhausted(r) PROVE TypeOK'
    <3>1. CASE Failed(r, "exhausted")
      BY <2>13, <3>1, FailedTypes DEF AnswerExhausted, TypeOK, fixed, Exceptions
    <3>2. CASE /\ failure' = [failure EXCEPT ![r] = "exhausted"]
               /\ out' = [out EXCEPT ![r] = "error"]
               /\ Goto(r, "end")
               /\ UNCHANGED audit
      <4>1. pc' \in [Requests -> Labels]
        BY <3>2, GotoTypes DEF Labels
      <4> QED
        BY <2>13, <3>2, <4>1 DEF AnswerExhausted, TypeOK, fixed, Exceptions
    <3> QED
      BY <2>13, <3>1, <3>2 DEF AnswerExhausted
  <2>14. ASSUME NEW r \in Requests, Disconnect(r) PROVE TypeOK'
    BY <2>14, GotoTypes DEF Disconnect, TypeOK, fixed, Labels
  <2> QED
    BY <2>1, <2>2, <2>3, <2>4, <2>5, <2>6, <2>7, <2>8, <2>9, <2>10, <2>11,
       <2>12, <2>13, <2>14 DEF Next, Step
<1> QED
  BY <1>1, <1>2, PTL DEF Spec

-----------------------------------------------------------------------------
(***************************************************************************)
(* What the database is given and what a result carries.  Neither          *)
(* GuardedExecution nor DeliveredSQLChecked is inductive: they hold        *)
(* because of what a call has behind it wherever it stands, which SQLInv   *)
(* states.                                                                 *)
(***************************************************************************)
Checked(r) == sql[r].governed /\ Accepts(r, sql[r])

SQLInv(r) ==
    /\ (pc[r] = "end") <=> (out[r] # "open")
    /\ pc[r] \notin {"answer", "merge", "end"} => execution[r] = "none"
    /\ pc[r] \in {"validated", "run", "answer", "merge"} => Checked(r)
    /\ pc[r] = "run" => ~ask[r].dryRun
    /\ Delivered(r) /\ execution[r] # "none" => Checked(r)
    /\ \A t \in executed[r] : t.governed /\ Accepts(r, t) /\ ~ask[r].dryRun

\* A step of one call preserves it for every call.
LEMMA SQLInvStep ==
    ASSUME TypeOK, \A q \in Requests : SQLInv(q), [Next]_vars
    PROVE  \A q \in Requests : SQLInv(q)'
<1> SUFFICES ASSUME NEW q \in Requests PROVE SQLInv(q)'
  OBVIOUS
<1> USE DEF TypeOK, SQLInv, Checked, Accepts, Enforces, Delivered, Goto, Failed, EnterSQL, Deliver, fixed
<1>1. ASSUME NEW r \in Requests, Start(r) PROVE SQLInv(q)'
  BY <1>1 DEF Start
<1>2. ASSUME NEW r \in Requests, Route(r) PROVE SQLInv(q)'
  BY <1>2 DEF Route
<1>3. ASSUME NEW r \in Requests, Retrieve(r) PROVE SQLInv(q)'
  BY <1>3 DEF Retrieve
<1>4. ASSUME NEW r \in Requests, GenerateSQL(r) PROVE SQLInv(q)'
  BY <1>4 DEF GenerateSQL
<1>5. ASSUME NEW r \in Requests, Govern(r) PROVE SQLInv(q)'
  <2>1. ASSUME NEW t \in Prepared(r, sql[r]), sql' = [sql EXCEPT ![r] = t],
               Goto(r, "validated"), UNCHANGED <<failure, audit, out>>
        PROVE  SQLInv(q)'
    BY <1>5, <2>1, PreparedForms DEF Govern
  <2>2. CASE \E t \in Prepared(r, sql[r]) :
               /\ sql' = [sql EXCEPT ![r] = t]
               /\ Goto(r, "validated") /\ UNCHANGED <<failure, audit, out>>
    BY <2>1, <2>2
  <2>3. CASE (Failed(r, "denied") \/ Failed(r, "other")) /\ UNCHANGED sql
    BY <1>5, <2>3 DEF Govern
  <2> QED
    BY <1>5, <2>2, <2>3 DEF Govern
<1>6. ASSUME NEW r \in Requests, SkipQuery(r) PROVE SQLInv(q)'
  BY <1>6 DEF SkipQuery
<1>7. ASSUME NEW r \in Requests, BeginQuery(r) PROVE SQLInv(q)'
  BY <1>7 DEF BeginQuery
<1>8. ASSUME NEW r \in Requests, RunQuery(r) PROVE SQLInv(q)'
  BY <1>8 DEF RunQuery
<1>9. ASSUME NEW r \in Requests, Token(r) PROVE SQLInv(q)'
  BY <1>9 DEF Token
<1>10. ASSUME NEW r \in Requests, AnswerComplete(r) PROVE SQLInv(q)'
  <2>1. pc[r] \in {"answer", "rag_answer", "merge"}
    BY <1>10 DEF AnswerComplete, Speaker
  <2>2. CASE pc[r] = "answer" /\ Merges(r)
    BY <1>10, <2>2 DEF AnswerComplete
  <2>3. CASE ~(pc[r] = "answer" /\ Merges(r))
    BY <1>10, <2>1, <2>3 DEF AnswerComplete
  <2> QED
    BY <2>2, <2>3
<1>11. ASSUME NEW r \in Requests, AnswerFails(r) PROVE SQLInv(q)'
  BY <1>11 DEF AnswerFails
<1>12. ASSUME NEW r \in Requests, AnswerExhausted(r) PROVE SQLInv(q)'
  BY <1>12 DEF AnswerExhausted
<1>13. ASSUME NEW r \in Requests, Disconnect(r) PROVE SQLInv(q)'
  BY <1>13 DEF Disconnect
<1>14. CASE UNCHANGED vars
  BY <1>14 DEF vars
<1> QED
  BY <1>1, <1>2, <1>3, <1>4, <1>5, <1>6, <1>7, <1>8, <1>9, <1>10, <1>11, <1>12, <1>13, <1>14 DEF Next, Step

SQLSafe == \A r \in Requests : SQLInv(r)

THEOREM SQLInvariant == Spec => []SQLSafe
<1>1. Init => SQLSafe
  BY DEF Init, SQLSafe, SQLInv, Delivered
<1>2. TypeOK /\ SQLSafe /\ [Next]_vars => SQLSafe'
  BY SQLInvStep DEF SQLSafe
<1> QED
  BY <1>1, <1>2, TypeCorrect, PTL DEF Spec

\* No text reaches the database that governance did not return and that the
\* read-only check, where the call enforces it, did not accept afterwards;
\* a dry run sends none.
THEOREM ExecutionIsGuarded == Spec => []GuardedExecution
<1>1. SQLSafe => GuardedExecution
  BY DEF SQLSafe, SQLInv, GuardedExecution
<1> QED
  BY <1>1, SQLInvariant, PTL

\* A delivered result carries governed and re-validated SQL, dry runs included.
THEOREM DeliveredSQLIsChecked == Spec => []DeliveredSQLChecked
<1>1. SQLSafe => DeliveredSQLChecked
  BY DEF SQLSafe, SQLInv, Checked, DeliveredSQLChecked
<1> QED
  BY <1>1, SQLInvariant, PTL

-----------------------------------------------------------------------------
(***************************************************************************)
(* Which answer is delivered, and whose tokens the client saw.  AnswerInv  *)
(* says, for each place where an answer is written, which route leads      *)
(* there, what rows it is grounded on and what was shown so far.           *)
(***************************************************************************)
AnswerInv(r) ==
    /\ (pc[r] = "end") <=> (out[r] # "open")
    /\ pc[r] \notin {"answer", "rag_answer", "merge", "end"} => speakers[r] = {}
    /\ pc[r] \notin {"answer", "merge", "end"} => execution[r] = "none"
    /\ pc[r] = "retrieve" => route[r] = "rag" \/ Merges(r)
    /\ pc[r] = "run" => ~ask[r].dryRun
    /\ pc[r] \in {"answer", "merge"} =>
          execution[r] = IF ask[r].dryRun THEN "empty" ELSE "rows"
    /\ pc[r] = "answer" =>
          speakers[r] \subseteq (IF Merges(r) THEN {} ELSE {"sql"})
    /\ pc[r] = "rag_answer" => route[r] = "rag" /\ speakers[r] \subseteq {"rag"}
    /\ pc[r] = "merge" => Merges(r) /\ speakers[r] \subseteq {"merged"}
    /\ Delivered(r) =>
          /\ speakers[r] \subseteq {answer[r]}
          /\ (answer[r] = "merged") <=> Merges(r)
          /\ (answer[r] = "rag") <=> (execution[r] = "none")
          /\ answer[r] = "rag" => route[r] = "rag"
          /\ execution[r] = "empty" => ask[r].dryRun
          /\ execution[r] = "rows" => ~ask[r].dryRun

\* A step of one call preserves it for every call.
LEMMA AnswerInvStep ==
    ASSUME TypeOK, \A q \in Requests : AnswerInv(q), [Next]_vars
    PROVE  \A q \in Requests : AnswerInv(q)'
<1> SUFFICES ASSUME NEW q \in Requests PROVE AnswerInv(q)'
  OBVIOUS
<1> USE DEF TypeOK, AnswerInv, Delivered, Merges, Goto, Failed, EnterSQL, Deliver, fixed
<1>1. ASSUME NEW r \in Requests, Start(r) PROVE AnswerInv(q)'
  BY <1>1 DEF Start
<1>2. ASSUME NEW r \in Requests, Route(r) PROVE AnswerInv(q)'
  BY <1>2 DEF Route
<1>3. ASSUME NEW r \in Requests, Retrieve(r) PROVE AnswerInv(q)'
  BY <1>3 DEF Retrieve
<1>4. ASSUME NEW r \in Requests, GenerateSQL(r) PROVE AnswerInv(q)'
  BY <1>4 DEF GenerateSQL
<1>5. ASSUME NEW r \in Requests, Govern(r) PROVE AnswerInv(q)'
  BY <1>5 DEF Govern
<1>6. ASSUME NEW r \in Requests, SkipQuery(r) PROVE AnswerInv(q)'
  BY <1>6 DEF SkipQuery
<1>7. ASSUME NEW r \in Requests, BeginQuery(r) PROVE AnswerInv(q)'
  BY <1>7 DEF BeginQuery
<1>8. ASSUME NEW r \in Requests, RunQuery(r) PROVE AnswerInv(q)'
  BY <1>8 DEF RunQuery
<1>9. ASSUME NEW r \in Requests, Token(r) PROVE AnswerInv(q)'
  <2>1. pc[r] \in {"answer", "rag_answer", "merge"}
    BY <1>9 DEF Token, Speaker
  <2> QED
    BY <1>9, <2>1 DEF Token, Speaker, Forwards
<1>10. ASSUME NEW r \in Requests, AnswerComplete(r) PROVE AnswerInv(q)'
  <2>1. pc[r] \in {"answer", "rag_answer", "merge"}
    BY <1>10 DEF AnswerComplete, Speaker
  <2>2. CASE pc[r] = "answer" /\ Merges(r)
    BY <1>10, <2>2 DEF AnswerComplete, Speaker
  <2>3. CASE ~(pc[r] = "answer" /\ Merges(r))
    BY <1>10, <2>1, <2>3 DEF AnswerComplete, Speaker
  <2> QED
    BY <2>2, <2>3
<1>11. ASSUME NEW r \in Requests, AnswerFails(r) PROVE AnswerInv(q)'
  BY <1>11 DEF AnswerFails
<1>12. ASSUME NEW r \in Requests, AnswerExhausted(r) PROVE AnswerInv(q)'
  BY <1>12 DEF AnswerExhausted
<1>13. ASSUME NEW r \in Requests, Disconnect(r) PROVE AnswerInv(q)'
  BY <1>13 DEF Disconnect
<1>14. CASE UNCHANGED vars
  BY <1>14 DEF vars
<1> QED
  BY <1>1, <1>2, <1>3, <1>4, <1>5, <1>6, <1>7, <1>8, <1>9, <1>10, <1>11, <1>12, <1>13, <1>14 DEF Next, Step

AnswersSound == \A r \in Requests : AnswerInv(r)

THEOREM AnswerInvariant == Spec => []AnswersSound
<1>1. Init => AnswersSound
  BY DEF Init, AnswersSound, AnswerInv, Delivered, Merges
<1>2. TypeOK /\ AnswersSound /\ [Next]_vars => AnswersSound'
  BY AnswerInvStep DEF AnswersSound
<1> QED
  BY <1>1, <1>2, TypeCorrect, PTL DEF Spec

\* The answer delivered is the one the call's route and mode call for.
THEOREM AnswerFollowsRoute == Spec => []AnswerMatchesRoute
<1>1. AnswersSound => AnswerMatchesRoute
  BY DEF AnswersSound, AnswerInv, AnswerMatchesRoute
<1> QED
  BY <1>1, AnswerInvariant, PTL

\* No token of a replaced answer reaches the client of a finished stream.
THEOREM TokensAreOfFinalAnswer == Spec => []TokensOfFinalAnswer
<1>1. AnswersSound => TokensOfFinalAnswer
  BY DEF AnswersSound, AnswerInv, TokensOfFinalAnswer
<1> QED
  BY <1>1, AnswerInvariant, PTL

-----------------------------------------------------------------------------
(***************************************************************************)
(* The audit trail.  AuditInv adds to the two properties that a call still *)
(* open, or abandoned, has no failure record.                              *)
(***************************************************************************)
CompleteUpTo(r, n) == \A i \in 1 .. n : audit[r][i] = "complete"

AuditInv(r) ==
    /\ ~Refused(r) => CompleteUpTo(r, Len(audit[r]))
    /\ Delivered(r) => Len(audit[r]) > 0
    /\ Refused(r) =>
          /\ CompleteUpTo(r, Len(audit[r]) - 1)
          /\ \/ Len(audit[r]) > 0 /\ audit[r][Len(audit[r])] # "complete"
             \/ failure[r] = "exhausted" /\ (route[r] = "rag" \/ Merges(r))

\* What appending one record does to a trail.
LEMMA TrailGrows ==
    ASSUME NEW s \in Seq(Codes \cup {"complete"}), NEW c \in Codes \cup {"complete"}
    PROVE  /\ Len(Append(s, c)) = Len(s) + 1
           /\ Append(s, c)[Len(s) + 1] = c
           /\ \A i \in 1 .. Len(s) : Append(s, c)[i] = s[i]
OBVIOUS

\* A failure ends a call whose trail had no failure with a trail that has one.
LEMMA FailedTrail ==
    ASSUME TypeOK, NEW r \in Requests, NEW exc \in Exceptions, Failed(r, exc),
           CompleteUpTo(r, Len(audit[r]))
    PROVE  /\ Refused(r)'
           /\ Len(audit'[r]) > 0 /\ audit'[r][Len(audit'[r])] # "complete"
           /\ \A i \in 1 .. Len(audit'[r]) - 1 : audit'[r][i] = "complete"
           /\ \A q \in Requests \ {r} : audit'[q] = audit[q] /\ out'[q] = out[q]
<1> DEFINE c == FailureCode(r, exc)
<1>1. c \in Codes /\ c # "complete"
  BY DEF FailureCode, Codes, Exceptions
<1>2. audit'[r] = Append(audit[r], c) /\ audit[r] \in Seq(Codes \cup {"complete"})
  BY DEF Failed, TypeOK
<1>3. out'[r] \in {"error", "raised"}
  BY DEF Failed, TypeOK
<1>4. \A q \in Requests \ {r} : audit'[q] = audit[q] /\ out'[q] = out[q]
  BY DEF Failed, TypeOK
<1>5. Len(audit[r]) \in Nat
  BY <1>2
<1> HIDE DEF c
<1>6. /\ Len(audit'[r]) = Len(audit[r]) + 1
      /\ audit'[r][Len(audit[r]) + 1] = c
      /\ \A i \in 1 .. Len(audit[r]) : audit'[r][i] = audit[r][i]
  BY <1>1, <1>2, TrailGrows
<1> QED
  BY <1>1, <1>3, <1>4, <1>5, <1>6 DEF Refused, CompleteUpTo

\* A step that leaves a trail and the way the call ended alone keeps it.
LEMMA TrailKept ==
    ASSUME NEW q \in Requests, AuditInv(q),
           audit'[q] = audit[q], out'[q] = out[q], failure'[q] = failure[q],
           Refused(q) => route'[q] = route[q]
    PROVE  AuditInv(q)'
BY DEF AuditInv, Refused, Delivered, CompleteUpTo, Merges

\* A failure recorded by a call that was still open keeps it.
LEMMA TrailFails ==
    ASSUME TypeOK, NEW r \in Requests, AuditInv(r), pc[r] # "end",
           (pc[r] = "end") <=> (out[r] # "open"),
           NEW exc \in Exceptions, Failed(r, exc)
    PROVE  AuditInv(r)'
<1>1. CompleteUpTo(r, Len(audit[r]))
  BY DEF AuditInv, Refused
<1>2. /\ Refused(r)'
      /\ Len(audit'[r]) > 0 /\ audit'[r][Len(audit'[r])] # "complete"
      /\ \A i \in 1 .. Len(audit'[r]) - 1 : audit'[r][i] = "complete"
  BY <1>1, FailedTrail
<1>3. ~Delivered(r)'
  BY <1>2 DEF Refused, Delivered
<1> QED
  BY <1>2, <1>3 DEF AuditInv, CompleteUpTo

\* The audit invariant survives a step of any call.
LEMMA AuditInvStep ==
    ASSUME TypeOK, AnswersSound, \A q \in Requests : AuditInv(q), [Next]_vars
    PROVE  \A q \in Requests : AuditInv(q)'
<1> SUFFICES ASSUME NEW q \in Requests PROVE AuditInv(q)'
  OBVIOUS
<1>0. \A r \in Requests : (pc[r] = "end") <=> (out[r] # "open")
  BY DEF AnswersSound, AnswerInv
<1>1. ASSUME NEW r \in Requests, pc[r] # "end", NEW exc \in Exceptions, Failed(r, exc), UNCHANGED route
      PROVE  AuditInv(q)'
  <2>1. CASE q = r
    BY <1>0, <1>1, <2>1, TrailFails
  <2>2. CASE q # r
    BY <1>1, <2>2, TrailKept DEF Failed, TypeOK
  <2> QED
    BY <2>1, <2>2
<1>2. ASSUME UNCHANGED <<audit, out, failure, route>> PROVE AuditInv(q)'
  BY <1>2, TrailKept
<1>3. ASSUME NEW r \in Requests, Start(r) PROVE AuditInv(q)'
  BY <1>0, <1>3, TrailKept DEF Start, TypeOK, Refused
<1>4. ASSUME NEW r \in Requests, Route(r) PROVE AuditInv(q)'
  <2>1. pc[r] = "route" /\ out[r] = "open"
    BY <1>0, <1>4 DEF Route
  <2>2. CASE UNCHANGED <<failure, audit, out>>
    BY <1>4, <2>1, <2>2, TrailKept DEF Route, TypeOK, Refused
  <2>3. CASE Failed(r, "other")
    <3>1. CASE q = r
      BY <1>0, <2>1, <2>3, <3>1, TrailFails DEF Exceptions
    <3>2. CASE q # r
      BY <1>4, <2>3, <3>2, TrailKept DEF Route, Failed, TypeOK
    <3> QED
      BY <3>1, <3>2
  <2> QED
    BY <1>4, <2>2, <2>3 DEF Route
<1>5. ASSUME NEW r \in Requests, Retrieve(r) PROVE AuditInv(q)'
  BY <1>1, <1>2, <1>5 DEF Retrieve, Exceptions
<1>6. ASSUME NEW r \in Requests, GenerateSQL(r) PROVE AuditInv(q)'
  BY <1>1, <1>2, <1>6 DEF GenerateSQL, Exceptions
<1>7. ASSUME NEW r \in Requests, Govern(r) PROVE AuditInv(q)'
  BY <1>1, <1>2, <1>7 DEF Govern, Exceptions
<1>8. ASSUME NEW r \in Requests, SkipQuery(r) \/ BeginQuery(r) \/ Token(r) PROVE AuditInv(q)'
  BY <1>2, <1>8 DEF SkipQuery, BeginQuery, Token
<1>9. ASSUME NEW r \in Requests, RunQuery(r) PROVE AuditInv(q)'
  BY <1>1, <1>2, <1>9 DEF RunQuery, Exceptions
<1>10. ASSUME NEW r \in Requests, AnswerComplete(r) PROVE AuditInv(q)'
  <2>1. pc[r] # "end" /\ out[r] = "open" /\ CompleteUpTo(r, Len(audit[r]))
    BY <1>0, <1>10 DEF AnswerComplete, Speaker, AuditInv, Refused
  <2>2. audit[r] \in Seq(Codes \cup {"complete"}) /\ audit'[r] = Append(audit[r], "complete")
    BY <1>10 DEF AnswerComplete, LogComplete, TypeOK
  <2>3. /\ Len(audit'[r]) = Len(audit[r]) + 1 /\ Len(audit[r]) \in Nat
        /\ audit'[r][Len(audit[r]) + 1] = "complete"
        /\ \A i \in 1 .. Len(audit[r]) : audit'[r][i] = audit[r][i]
    BY <2>2, TrailGrows
  <2>4. out'[r] \in {"open", "done", "returned"}
    BY <1>10, <2>1 DEF AnswerComplete, Deliver, TypeOK
  <2>5. CASE q = r
    <3>1. \A i \in 1 .. Len(audit'[r]) : audit'[r][i] = "complete"
      BY <2>1, <2>3 DEF CompleteUpTo
    <3>2. Len(audit'[r]) > 0 /\ ~Refused(r)'
      BY <2>3, <2>4 DEF Refused
    <3> QED
      BY <2>5, <3>1, <3>2 DEF AuditInv, CompleteUpTo
  <2>6. CASE q # r
    BY <1>10, <2>6, TrailKept DEF AnswerComplete, LogComplete, Deliver, TypeOK
  <2> QED
    BY <2>5, <2>6
<1>11. ASSUME NEW r \in Requests, AnswerFails(r) PROVE AuditInv(q)'
  BY <1>1, <1>11 DEF AnswerFails, Speaker, Exceptions
<1>12. ASSUME NEW r \in Requests, AnswerExhausted(r) PROVE AuditInv(q)'
  <2>1. pc[r] \in {"answer", "rag_answer", "merge"} /\ out[r] = "open"
    BY <1>0, <1>12 DEF AnswerExhausted, Speaker
  <2>2. CASE pc[r] = "answer"
    BY <1>1, <1>12, <2>2 DEF AnswerExhausted, Exceptions
  <2>3. CASE pc[r] # "answer"
    <3>1. route[r] = "rag" \/ Merges(r)
      BY <2>1, <2>3 DEF AnswersSound, AnswerInv
    <3>2. /\ failure' = [failure EXCEPT ![r] = "exhausted"]
          /\ out' = [out EXCEPT ![r] = "error"]
          /\ UNCHANGED <<audit, route>>
      BY <1>12, <2>3 DEF AnswerExhausted
    <3>3. CASE q = r
      <4>1. CompleteUpTo(r, Len(audit[r])) /\ audit[r] \in Seq(Codes \cup {"complete"})
        BY <2>1 DEF AuditInv, Refused, TypeOK
      <4> QED
        BY <3>1, <3>2, <3>3, <4>1 DEF AuditInv, Refused, Delivered, CompleteUpTo, Merges, TypeOK
    <3>4. CASE q # r
      BY <3>2, <3>4, TrailKept DEF TypeOK
    <3> QED
      BY <3>3, <3>4
  <2> QED
    BY <2>2, <2>3
<1>13. ASSUME NEW r \in Requests, Disconnect(r) PROVE AuditInv(q)'
  <2>1. out[r] = "open"
    BY <1>0, <1>13 DEF Disconnect
  <2>2. CASE q = r
    <3>1. audit'[r] = audit[r] /\ out'[r] = "abandoned"
      BY <1>13 DEF Disconnect, TypeOK
    <3>2. CompleteUpTo(r, Len(audit[r]))
      BY <2>1 DEF AuditInv, Refused
    <3>3. ~Refused(r)' /\ ~Delivered(r)'
      BY <3>1 DEF Refused, Delivered
    <3> QED
      BY <2>2, <3>1, <3>2, <3>3 DEF AuditInv, CompleteUpTo
  <2>3. CASE q # r
    BY <1>13, <2>3, TrailKept DEF Disconnect, TypeOK
  <2> QED
    BY <2>2, <2>3
<1>14. CASE UNCHANGED vars
  BY <1>2, <1>14 DEF vars
<1> QED
  BY <1>3, <1>4, <1>5, <1>6, <1>7, <1>8, <1>9, <1>10, <1>11, <1>12, <1>13, <1>14 DEF Next, Step

TrailsSound == \A r \in Requests : AuditInv(r)

THEOREM AuditInvariant == Spec => []TrailsSound
<1>1. Init => TrailsSound
  BY DEF Init, TrailsSound, AuditInv, Refused, Delivered, CompleteUpTo
<1>2. TypeOK /\ AnswersSound /\ TrailsSound /\ [Next]_vars => TrailsSound'
  BY AuditInvStep DEF TrailsSound
<1> QED
  BY <1>1, <1>2, TypeCorrect, AnswerInvariant, PTL DEF Spec

\* A delivered answer was audited before its caller could see it and has no
\* failure beside it; a failure is recorded once, last, and of failed calls.
THEOREM TrailIsFaithful == Spec => []AuditTrail
<1>1. TypeOK /\ TrailsSound => AuditTrail
  <2> SUFFICES ASSUME TypeOK, TrailsSound, NEW r \in Requests
               PROVE  /\ Delivered(r) => audit[r] # <<>> /\ Failures(r) = {}
                      /\ Failures(r) \subseteq {Len(audit[r])}
                      /\ Failures(r) # {} => Refused(r)
    BY DEF AuditTrail
  <2>1. audit[r] \in Seq(Codes \cup {"complete"}) /\ AuditInv(r)
    BY DEF TypeOK, TrailsSound
  <2>2. Len(audit[r]) \in Nat /\ DOMAIN audit[r] = 1 .. Len(audit[r])
    BY <2>1
  <2>3. CASE Refused(r)
    BY <2>1, <2>2, <2>3 DEF AuditInv, CompleteUpTo, Failures, Refused, Delivered
  <2>4. CASE ~Refused(r)
    BY <2>1, <2>2, <2>4 DEF AuditInv, CompleteUpTo, Failures, Delivered
  <2> QED
    BY <2>3, <2>4
<1> QED
  BY <1>1, TypeCorrect, AuditInvariant, PTL

\* Every failure leaves a record, but for an exhausted document or merged
\* answer.
THEOREM FailuresAreAudited == Spec => []FailureAudited
<1>1. TypeOK /\ TrailsSound => FailureAudited
  <2> SUFFICES ASSUME TypeOK, TrailsSound, NEW r \in Requests, Refused(r)
               PROVE  \/ Failures(r) # {}
                      \/ failure[r] = "exhausted" /\ (route[r] = "rag" \/ Merges(r))
    BY DEF FailureAudited
  <2>1. audit[r] \in Seq(Codes \cup {"complete"}) /\ AuditInv(r)
    BY DEF TypeOK, TrailsSound
  <2>2. Len(audit[r]) \in Nat /\ DOMAIN audit[r] = 1 .. Len(audit[r])
    BY <2>1
  <2> QED
    BY <2>1, <2>2 DEF AuditInv, Failures
<1> QED
  BY <1>1, TypeCorrect, AuditInvariant, PTL

-----------------------------------------------------------------------------
(***************************************************************************)
(* AskPipeline implements AskContract: every step of the program is, seen  *)
(* through StageOf, a step the contract allows, or none.                   *)
(***************************************************************************)
\* The phase a stream has announced wherever it stands.
PhaseAt(l) ==
    CASE l = "route"     -> Routing
      [] l = "retrieve"  -> Retrieving
      [] l = "gen_sql"   -> WritingSQL
      [] l = "govern"    -> Governing
      [] l = "validated" -> Validating
      [] l = "run"       -> Executing
      [] OTHER           -> Answering

\* What the contract's guards need to know of a call: only streams announce
\* and speak, and how a call may end depends on how it was made.
ContractInv(r) ==
    /\ (pc[r] = "end") <=> (out[r] # "open")
    /\ ~ask[r].stream \/ pc[r] = "idle" => phase[r] = Silent /\ speakers[r] = {}
    /\ ask[r].stream /\ pc[r] \notin {"idle", "end"} => phase[r] = PhaseAt(pc[r])

\* A step of one call preserves it for every call.
LEMMA ContractInvStep ==
    ASSUME TypeOK, \A q \in Requests : ContractInv(q), [Next]_vars
    PROVE  \A q \in Requests : ContractInv(q)'
<1> SUFFICES ASSUME NEW q \in Requests PROVE ContractInv(q)'
  OBVIOUS
<1> USE DEF TypeOK, ContractInv, PhaseAt, Goto, Status, Failed, EnterSQL, Deliver, fixed
<1>1. ASSUME NEW r \in Requests, Start(r) PROVE ContractInv(q)'
  <2>1. UNCHANGED <<ask, speakers, out>>
    BY <1>1 DEF Start
  <2>2. CASE Status(r, Routing) /\ Goto(r, "route")
    BY <1>1, <2>1, <2>2 DEF Start
  <2>3. CASE EnterSQL(r)
    BY <1>1, <2>1, <2>3 DEF Start
  <2> QED
    BY <1>1, <2>2, <2>3 DEF Start
<1>2. ASSUME NEW r \in Requests, Route(r) PROVE ContractInv(q)'
  BY <1>2 DEF Route
<1>3. ASSUME NEW r \in Requests, Retrieve(r) PROVE ContractInv(q)'
  BY <1>3 DEF Retrieve
<1>4. ASSUME NEW r \in Requests, GenerateSQL(r) PROVE ContractInv(q)'
  <2>1. CASE Status(r, Governing) /\ Goto(r, "govern") /\ UNCHANGED out
    BY <1>4, <2>1 DEF GenerateSQL
  <2>2. CASE \E exc \in {"sql_generation", "other"} : Failed(r, exc) /\ UNCHANGED phase
    BY <1>4, <2>2 DEF GenerateSQL
  <2> QED
    BY <1>4, <2>1, <2>2, Zenon DEF GenerateSQL
<1>5. ASSUME NEW r \in Requests, Govern(r) PROVE ContractInv(q)'
  BY <1>5 DEF Govern
<1>6. ASSUME NEW r \in Requests, SkipQuery(r) PROVE ContractInv(q)'
  BY <1>6 DEF SkipQuery
<1>7. ASSUME NEW r \in Requests, BeginQuery(r) PROVE ContractInv(q)'
  BY <1>7 DEF BeginQuery
<1>8. ASSUME NEW r \in Requests, RunQuery(r) PROVE ContractInv(q)'
  BY <1>8 DEF RunQuery
<1>9. ASSUME NEW r \in Requests, Token(r) PROVE ContractInv(q)'
  BY <1>9 DEF Token, Forwards, Speaker
<1>10. ASSUME NEW r \in Requests, AnswerComplete(r) PROVE ContractInv(q)'
  BY <1>10 DEF AnswerComplete, Speaker
<1>11. ASSUME NEW r \in Requests, AnswerFails(r) PROVE ContractInv(q)'
  BY <1>11 DEF AnswerFails
<1>12. ASSUME NEW r \in Requests, AnswerExhausted(r) PROVE ContractInv(q)'
  <2>1. CASE Failed(r, "exhausted")
    BY <1>12, <2>1 DEF AnswerExhausted, Speaker
  <2>2. CASE out' = [out EXCEPT ![r] = "error"] /\ Goto(r, "end")
    BY <1>12, <2>2 DEF AnswerExhausted, Speaker
  <2> QED
    BY <1>12, <2>1, <2>2 DEF AnswerExhausted
<1>13. ASSUME NEW r \in Requests, Disconnect(r) PROVE ContractInv(q)'
  BY <1>13 DEF Disconnect
<1>14. CASE UNCHANGED vars
  BY <1>14 DEF vars
<1> QED
  BY <1>1, <1>2, <1>3, <1>4, <1>5, <1>6, <1>7, <1>8, <1>9, <1>10, <1>11, <1>12, <1>13, <1>14 DEF Next, Step

ContractKnown == \A r \in Requests : ContractInv(r)

THEOREM ContractInvariant == Spec => []ContractKnown
<1>1. Init => ContractKnown
  BY DEF Init, ContractKnown, ContractInv, PhaseAt
<1>2. TypeOK /\ ContractKnown /\ [Next]_vars => ContractKnown'
  BY ContractInvStep DEF ContractKnown
<1> QED
  BY <1>1, <1>2, TypeCorrect, PTL DEF Spec

-----------------------------------------------------------------------------
(***************************************************************************)
(* The steps, seen through StageOf.                                        *)
(***************************************************************************)
stages == [r \in Requests |-> StageOf(r)]
spoken == [r \in Requests |-> speakers[r] # {}]

\* What a call that is under way looks like to its caller.
LEMMA StageOpen ==
    ASSUME NEW r \in Requests, pc[r] # "idle", out[r] = "open"
    PROVE  StageOf(r) = IF ask[r].stream THEN "streaming" ELSE "computing"
BY DEF StageOf, Delivered, Refused

LEMMA StageNew ==
    ASSUME NEW r \in Requests, pc[r] = "idle", out[r] = "open"
    PROVE  StageOf(r) = "new"
BY DEF StageOf, Delivered, Refused

LEMMA StageEnd ==
    ASSUME NEW r \in Requests, pc[r] # "idle"
    PROVE  /\ out[r] = "abandoned" => StageOf(r) = "abandoned"
           /\ out[r] \in {"done", "returned"} => StageOf(r) = "done"
           /\ out[r] \in {"error", "raised"} => StageOf(r) = "failed"
<1>1. CASE out[r] = "abandoned"
  BY <1>1 DEF StageOf, Delivered, Refused
<1>2. CASE out[r] \in {"done", "returned"}
  BY <1>2 DEF StageOf, Delivered, Refused
<1>3. CASE out[r] \in {"error", "raised"}
  BY <1>3 DEF StageOf, Delivered, Refused
<1> QED
  BY <1>1, <1>2, <1>3

\* A step of r leaves the other calls where they stand.
Only(r) ==
    /\ ask' = ask
    /\ \A q \in Requests \ {r} : pc'[q] = pc[q] /\ out'[q] = out[q] /\ speakers'[q] = speakers[q]

LEMMA OnlyStages ==
    ASSUME NEW r \in Requests, Only(r)
    PROVE  /\ stages' = [stages EXCEPT ![r] = StageOf(r)']
           /\ spoken' = [spoken EXCEPT ![r] = (speakers'[r] # {})]
<1>1. ASSUME NEW q \in Requests, q # r PROVE StageOf(q)' = StageOf(q)
  BY <1>1 DEF Only, StageOf, Delivered, Refused
<1>2. stages' = [stages EXCEPT ![r] = StageOf(r)']
  BY <1>1 DEF stages
<1>3. spoken' = [spoken EXCEPT ![r] = (speakers'[r] # {})]
  BY DEF spoken, Only
<1> QED
  BY <1>2, <1>3

\* The contract and the program speak of the same phases.
LEMMA SamePhases ==
    /\ Contract!Phases = Phases /\ Contract!Silent = Silent /\ Contract!Routing = Routing
    /\ Contract!WritingSQL = WritingSQL /\ Contract!Answering = Answering
BY DEF Contract!Phases, Contract!Silent, Contract!Routing, Contract!WritingSQL, Contract!Answering,
       Phases, Silent, Routing, WritingSQL, Answering

\* A call that opens.
LEMMA Admits ==
    ASSUME NEW r \in Requests, Only(r), NEW p \in {Routing, WritingSQL},
           pc[r] = "idle", out[r] = "open", pc'[r] # "idle", out' = out,
           Status(r, p), speakers' = speakers
    PROVE  Contract!Admit(r)
<1>1. stages[r] = "new"
  BY StageNew DEF stages
<1>2. stages' = [stages EXCEPT ![r] = IF ask[r].stream THEN "streaming" ELSE "computing"]
  <2>1. StageOf(r)' = IF ask[r].stream THEN "streaming" ELSE "computing"
    BY DEF StageOf, Delivered, Refused, Only
  <2> QED
    BY <2>1, OnlyStages
<1>3. spoken' = spoken
  BY DEF spoken
<1>4. CASE ask[r].stream
  BY <1>1, <1>2, <1>3, <1>4, SamePhases DEF Contract!Admit, Status, stages, spoken
<1>5. CASE ~ask[r].stream
  BY <1>1, <1>2, <1>3, <1>5 DEF Contract!Admit, Status, stages, spoken
<1> QED
  BY <1>4, <1>5

\* A call that stays open, and moves on to a later phase if it is streamed.
LEMMA MovesOn ==
    ASSUME NEW r \in Requests, Only(r), NEW p \in Phases,
           pc[r] # "idle", out[r] = "open", pc'[r] # "idle", out' = out,
           Status(r, p), speakers' = speakers, ask[r].stream => p > phase[r]
    PROVE  Contract!Announce(r) \/ UNCHANGED Contract!contractVars
<1>1. stages' = stages
  <2>1. StageOf(r)' = StageOf(r)
    BY DEF StageOf, Delivered, Refused, Only
  <2> QED
    BY <2>1, OnlyStages DEF stages
<1>2. spoken' = spoken
  BY DEF spoken
<1>3. CASE ask[r].stream
  <2>1. stages[r] = "streaming"
    BY <1>3, StageOpen DEF stages
  <2> QED
    BY <1>1, <1>2, <1>3, <2>1, SamePhases DEF Contract!Announce, Status, stages, spoken
<1>4. CASE ~ask[r].stream
  BY <1>1, <1>2, <1>4 DEF Contract!contractVars, Status, stages, spoken
<1> QED
  BY <1>3, <1>4

\* A call that ends in a failure.
LEMMA Fails ==
    ASSUME NEW r \in Requests, Only(r),
           pc[r] # "idle", out[r] = "open", pc'[r] # "idle",
           out'[r] \in {"error", "raised"}, phase' = phase, speakers' = speakers
    PROVE  Contract!Fail(r)
<1>1. stages' = [stages EXCEPT ![r] = "failed"]
  <2>1. StageOf(r)' = "failed"
    BY DEF StageOf, Delivered, Refused
  <2> QED
    BY <2>1, OnlyStages
<1>2. stages[r] \in {"computing", "streaming"}
  BY StageOpen DEF stages
<1>3. spoken' = spoken
  BY DEF spoken
<1> QED
  BY <1>1, <1>2, <1>3 DEF Contract!Fail, stages, spoken

\* A call that ends well.
LEMMA Succeeds ==
    ASSUME NEW r \in Requests, Only(r),
           pc[r] # "idle", out[r] = "open", pc'[r] # "idle",
           out'[r] = IF ask[r].stream THEN "done" ELSE "returned",
           phase' = phase, speakers' = speakers, ask[r].stream => phase[r] = Answering
    PROVE  Contract!Succeed(r)
<1>1. stages' = [stages EXCEPT ![r] = "done"]
  <2>1. StageOf(r)' = "done"
    BY DEF StageOf, Delivered, Refused
  <2> QED
    BY <2>1, OnlyStages
<1>2. stages[r] = IF ask[r].stream THEN "streaming" ELSE "computing"
  BY StageOpen DEF stages
<1>3. spoken' = spoken
  BY DEF spoken
<1> QED
  BY <1>1, <1>2, <1>3, SamePhases DEF Contract!Succeed, stages, spoken

\* A token of an answer.
LEMMA Speaks ==
    ASSUME NEW r \in Requests, Only(r), ask[r].stream,
           pc[r] # "idle", out[r] = "open", pc' = pc, out' = out,
           phase' = phase, phase[r] = Answering, speakers'[r] # {}
    PROVE  Contract!Speak(r)
<1>1. stages' = stages
  BY DEF stages, StageOf, Delivered, Refused, Only
<1>2. stages[r] = "streaming"
  BY StageOpen DEF stages
<1>3. spoken' = [spoken EXCEPT ![r] = TRUE]
  BY OnlyStages
<1> QED
  BY <1>1, <1>2, <1>3, SamePhases DEF Contract!Speak, stages, spoken

\* A client that hangs up.
LEMMA Abandons ==
    ASSUME NEW r \in Requests, Only(r), ask[r].stream,
           pc[r] # "idle", out[r] = "open", pc'[r] # "idle", out'[r] = "abandoned",
           phase' = phase, speakers' = speakers
    PROVE  Contract!Abandon(r)
<1>1. stages' = [stages EXCEPT ![r] = "abandoned"]
  <2>1. StageOf(r)' = "abandoned"
    BY DEF StageOf, Delivered, Refused
  <2> QED
    BY <2>1, OnlyStages
<1>2. stages[r] = "streaming"
  BY StageOpen DEF stages
<1>3. spoken' = spoken
  BY DEF spoken
<1> QED
  BY <1>1, <1>2, <1>3 DEF Contract!Abandon, stages, spoken

-----------------------------------------------------------------------------
(***************************************************************************)
(* Every action maps to a step of the contract.                            *)
(***************************************************************************)
Allowed == Contract!ContractNext \/ UNCHANGED Contract!contractVars

\* Recording a failure is the contract's failure.
LEMMA FailedRefines ==
    ASSUME TypeOK, ContractKnown, NEW r \in Requests, NEW exc, Failed(r, exc),
           pc[r] \notin {"idle", "end"}, UNCHANGED <<ask, phase, speakers>>
    PROVE  Allowed
<1>1. out[r] = "open"
  BY DEF ContractKnown, ContractInv
<1>2. Only(r) /\ pc'[r] # "idle" /\ out'[r] \in {"error", "raised"}
  BY DEF Only, Failed, Goto, TypeOK
<1>3. Contract!Fail(r)
  BY <1>1, <1>2, Fails
<1> QED
  BY <1>3 DEF Allowed, Contract!ContractNext

\* Going on to a place whose phase comes later is an announcement.
LEMMA GotoRefines ==
    ASSUME TypeOK, ContractKnown, NEW r \in Requests, NEW p \in Phases, NEW l \in Labels,
           Goto(r, l), Status(r, p), l # "idle", pc[r] \notin {"idle", "end"},
           PhaseAt(pc[r]) < p, UNCHANGED <<ask, out, speakers>>
    PROVE  Allowed
<1>1. out[r] = "open"
  BY DEF ContractKnown, ContractInv
<1>2. Only(r) /\ pc'[r] # "idle"
  BY DEF Only, Goto, TypeOK
<1>3. ask[r].stream => p > phase[r]
  BY DEF ContractKnown, ContractInv, TypeOK, Phases, Silent, Answering
<1>4. Contract!Announce(r) \/ UNCHANGED Contract!contractVars
  BY <1>1, <1>2, <1>3, MovesOn
<1> QED
  BY <1>4 DEF Allowed, Contract!ContractNext

\* The numbers of the phases, where the order of two of them is needed.
LEMMA PhaseOrder ==
    /\ PhaseAt("route") < Retrieving /\ PhaseAt("route") < WritingSQL
    /\ PhaseAt("retrieve") < WritingSQL /\ PhaseAt("retrieve") < Answering
    /\ PhaseAt("gen_sql") < Governing /\ PhaseAt("govern") < Validating
    /\ PhaseAt("validated") < Answering /\ PhaseAt("validated") < Executing
    /\ PhaseAt("run") < Answering
BY DEF PhaseAt, Routing, Retrieving, WritingSQL, Governing, Validating, Executing, Answering

LEMMA StepRefines ==
    ASSUME TypeOK, ContractKnown, [Next]_vars
    PROVE  Allowed
<1>1. ASSUME NEW r \in Requests, Start(r) PROVE Allowed
  <2>1. out[r] = "open" /\ pc[r] = "idle"
    BY <1>1 DEF ContractKnown, ContractInv, Start
  <2>2. UNCHANGED <<ask, out, speakers>>
    BY <1>1 DEF Start, fixed
  <2>3. PICK p \in {Routing, WritingSQL} : Status(r, p) /\ \E l \in {"route", "gen_sql"} : Goto(r, l)
    BY <1>1 DEF Start, EnterSQL
  <2>4. Only(r) /\ pc'[r] # "idle"
    BY <2>2, <2>3 DEF Only, Goto, TypeOK
  <2>5. Contract!Admit(r)
    BY <2>1, <2>2, <2>3, <2>4, Admits
  <2> QED
    BY <2>5 DEF Allowed, Contract!ContractNext
<1>2. ASSUME NEW r \in Requests, Route(r) PROVE Allowed
  <2>1. pc[r] = "route" /\ UNCHANGED <<ask, speakers>>
    BY <1>2 DEF Route, fixed
  <2>2. CASE \E p \in {Retrieving, WritingSQL}, l \in {"retrieve", "gen_sql"} :
                Status(r, p) /\ Goto(r, l) /\ UNCHANGED out
    BY <2>1, <2>2, GotoRefines, PhaseOrder, PhaseNames DEF Labels
  <2>3. CASE Failed(r, "other") /\ UNCHANGED phase
    BY <2>1, <2>3, FailedRefines
  <2> QED
    BY <1>2, <2>2, <2>3 DEF Route, EnterSQL
<1>3. ASSUME NEW r \in Requests, Retrieve(r) PROVE Allowed
  <2>1. pc[r] = "retrieve" /\ UNCHANGED <<ask, speakers>>
    BY <1>3 DEF Retrieve, fixed
  <2>2. CASE \E p \in {Answering, WritingSQL}, l \in {"rag_answer", "gen_sql"} :
                Status(r, p) /\ Goto(r, l) /\ UNCHANGED out
    BY <2>1, <2>2, GotoRefines, PhaseOrder, PhaseNames DEF Labels
  <2>3. CASE Failed(r, "other") /\ UNCHANGED phase
    BY <2>1, <2>3, FailedRefines
  <2> QED
    BY <1>3, <2>2, <2>3 DEF Retrieve, EnterSQL
<1>4. ASSUME NEW r \in Requests, GenerateSQL(r) PROVE Allowed
  <2>1. pc[r] = "gen_sql" /\ UNCHANGED <<ask, speakers>>
    BY <1>4 DEF GenerateSQL, fixed
  <2>2. CASE Status(r, Governing) /\ Goto(r, "govern") /\ UNCHANGED out
    BY <2>1, <2>2, GotoRefines, PhaseOrder, PhaseNames DEF Labels
  <2>3. CASE \E exc \in {"sql_generation", "other"} : Failed(r, exc) /\ UNCHANGED phase
    BY <2>1, <2>3, FailedRefines
  <2> QED
    BY <1>4, <2>2, <2>3, Zenon DEF GenerateSQL
<1>5. ASSUME NEW r \in Requests, Govern(r) PROVE Allowed
  <2>1. pc[r] = "govern" /\ UNCHANGED <<ask, speakers>>
    BY <1>5 DEF Govern, fixed
  <2>2. CASE Status(r, Validating) /\ Goto(r, "validated") /\ UNCHANGED out
    BY <2>1, <2>2, GotoRefines, PhaseOrder, PhaseNames DEF Labels
  <2>3. CASE \E exc \in {"denied", "other"} : Failed(r, exc) /\ UNCHANGED phase
    BY <2>1, <2>3, FailedRefines
  <2> QED
    BY <1>5, <2>2, <2>3 DEF Govern
<1>6. ASSUME NEW r \in Requests, SkipQuery(r) PROVE Allowed
  BY <1>6, GotoRefines, PhaseOrder, PhaseNames DEF SkipQuery, fixed, Labels
<1>7. ASSUME NEW r \in Requests, BeginQuery(r) PROVE Allowed
  BY <1>7, GotoRefines, PhaseOrder, PhaseNames DEF BeginQuery, fixed, Labels
<1>8. ASSUME NEW r \in Requests, RunQuery(r) PROVE Allowed
  <2>1. pc[r] = "run" /\ UNCHANGED <<ask, speakers>>
    BY <1>8 DEF RunQuery, fixed
  <2>2. CASE Status(r, Answering) /\ Goto(r, "answer") /\ UNCHANGED out
    BY <2>1, <2>2, GotoRefines, PhaseOrder, PhaseNames DEF Labels
  <2>3. CASE Failed(r, "other") /\ UNCHANGED phase
    BY <2>1, <2>3, FailedRefines
  <2> QED
    BY <1>8, <2>2, <2>3 DEF RunQuery
<1>9. ASSUME NEW r \in Requests, Token(r) PROVE Allowed
  <2>1. pc[r] \in {"answer", "rag_answer", "merge"} /\ UNCHANGED <<ask, pc, out, phase>> /\ ask[r].stream
    BY <1>9 DEF Token, fixed, Speaker, Forwards
  <2>2. out[r] = "open" /\ phase[r] = Answering
    BY <2>1 DEF ContractKnown, ContractInv, PhaseAt
  <2>3. Only(r) /\ speakers'[r] # {}
    BY <1>9, <2>1 DEF Token, Only, TypeOK
  <2>4. Contract!Speak(r)
    BY <2>1, <2>2, <2>3, Speaks
  <2> QED
    BY <2>4 DEF Allowed, Contract!ContractNext
<1>10. ASSUME NEW r \in Requests, AnswerComplete(r) PROVE Allowed
  <2>1. pc[r] \in {"answer", "rag_answer", "merge"} /\ UNCHANGED <<ask, speakers, phase>>
    BY <1>10 DEF AnswerComplete, fixed, Speaker
  <2>2. out[r] = "open" /\ (ask[r].stream => phase[r] = Answering)
    BY <2>1 DEF ContractKnown, ContractInv, PhaseAt
  <2>3. CASE Goto(r, "merge") /\ UNCHANGED out
    <3>1. pc'[r] # "idle" /\ Only(r)
      BY <2>1, <2>3 DEF Goto, TypeOK, Only
    <3>2. stages' = stages
      <4>1. StageOf(r)' = StageOf(r)
        BY <2>1, <2>2, <2>3, <3>1 DEF StageOf, Delivered, Refused
      <4> QED
        BY <4>1, <3>1, OnlyStages DEF stages
    <3> QED
      BY <2>1, <3>2 DEF Allowed, Contract!contractVars, stages
  <2>4. CASE Deliver(r)
    <3>1. Only(r) /\ pc'[r] # "idle" /\ out'[r] = IF ask[r].stream THEN "done" ELSE "returned"
      BY <2>1, <2>4 DEF Deliver, Goto, TypeOK, Only
    <3>2. Contract!Succeed(r)
      BY <2>1, <2>2, <3>1, Succeeds
    <3> QED
      BY <3>2 DEF Allowed, Contract!ContractNext
  <2> QED
    BY <1>10, <2>3, <2>4 DEF AnswerComplete
<1>11. ASSUME NEW r \in Requests, AnswerFails(r) PROVE Allowed
  BY <1>11, FailedRefines DEF AnswerFails, fixed, Speaker
<1>12. ASSUME NEW r \in Requests, AnswerExhausted(r) PROVE Allowed
  <2>1. pc[r] \in {"answer", "rag_answer", "merge"} /\ UNCHANGED <<ask, speakers, phase>>
    BY <1>12 DEF AnswerExhausted, fixed, Speaker
  <2>2. CASE Failed(r, "exhausted")
    BY <2>1, <2>2, FailedRefines
  <2>3. CASE out' = [out EXCEPT ![r] = "error"] /\ Goto(r, "end")
    <3>1. out[r] = "open"
      BY <2>1 DEF ContractKnown, ContractInv
    <3>2. Only(r) /\ pc'[r] # "idle" /\ out'[r] = "error"
      BY <2>1, <2>3 DEF Only, Goto, TypeOK
    <3>3. Contract!Fail(r)
      BY <2>1, <3>1, <3>2, Fails
    <3> QED
      BY <3>3 DEF Allowed, Contract!ContractNext
  <2> QED
    BY <1>12, <2>2, <2>3 DEF AnswerExhausted
<1>13. ASSUME NEW r \in Requests, Disconnect(r) PROVE Allowed
  <2>1. out[r] = "open"
    BY <1>13 DEF Disconnect, ContractKnown, ContractInv
  <2>2. Only(r) /\ pc'[r] # "idle" /\ out'[r] = "abandoned"
    BY <1>13 DEF Disconnect, Only, Goto, TypeOK, fixed
  <2>3. Contract!Abandon(r)
    BY <1>13, <2>1, <2>2, Abandons DEF Disconnect
  <2> QED
    BY <2>3 DEF Allowed, Contract!ContractNext
<1>14. CASE UNCHANGED vars
  <2>1. stages' = stages /\ spoken' = spoken
    BY <1>14 DEF vars, stages, spoken, StageOf, Delivered, Refused
  <2> QED
    BY <1>14, <2>1 DEF Allowed, Contract!contractVars, vars, stages, spoken
<1> QED
  BY <1>1, <1>2, <1>3, <1>4, <1>5, <1>6, <1>7, <1>8, <1>9, <1>10, <1>11, <1>12, <1>13, <1>14 DEF Next, Step

\* The pipeline keeps the promise of its port: phases in order, tokens only
\* while answering, one end, silence after it and in plain calls.
THEOREM ImplementsContract == Spec => KeepsContract
<1>1. Init => Contract!ContractInit
  <2> SUFFICES ASSUME Init PROVE Contract!ContractInit
    OBVIOUS
  <2>1. \A r \in Requests : StageOf(r) = "new"
    BY StageNew DEF Init
  <2> QED
    BY <2>1, SamePhases DEF Init, Contract!ContractInit
<1>2. TypeOK /\ ContractKnown /\ [Next]_vars => [Contract!ContractNext]_(Contract!contractVars)
  BY StepRefines DEF Allowed
<1> QED
  BY <1>1, <1>2, TypeCorrect, ContractInvariant, PTL DEF Spec, KeepsContract, Contract!ContractSpec
=============================================================================
