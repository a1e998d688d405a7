---------------------------- MODULE AskPipeline ----------------------------
(***************************************************************************)
(* The ask pipeline: AskUseCase (schema -> SQL -> govern -> execute ->     *)
(* answer) and HybridAskUseCase, which routes a question to it, to         *)
(* document retrieval, or to both.  One module covers the plain call       *)
(* (execute) and the streamed one (execute_stream): the steps are the      *)
(* same, what differs is the phases a stream announces, what each handler  *)
(* of exceptions records, and who may hang up.                             *)
(*                                                                         *)
(* An action is what a call does between two points where it can be        *)
(* suspended or left: an await on the LLM, the embedding service or the    *)
(* database, or a yield to the client.  Calls share nothing but the        *)
(* settings, which are fixed when the application starts.                  *)
(***************************************************************************)
EXTENDS AskPhases, Sequences

CONSTANTS
    Requests    \* the calls made to the pipeline

VARIABLES
    settings,   \* hybrid: RAG is configured; enforce: sql_enforce_readonly;
                \* fallback: rag_fallback_to_sql_on_empty_index
    ask,        \* ask[r]: the request, see Asks
    pc,         \* pc[r]: where the call is
    route,      \* route[r]: the route the question was given
    sql,        \* sql[r]: the SQL text the call carries
    executed,   \* executed[r]: the texts handed to the database
    execution,  \* execution[r]: the rows the answer is grounded on
    phase,      \* phase[r]: the last phase a stream announced
    speakers,   \* speakers[r]: the answers whose tokens reached the client
    answer,     \* answer[r]: the last answer that was completed
    failure,    \* failure[r]: what made the call fail
    audit,      \* audit[r]: the audit records of the call, in order
    out         \* out[r]: how the call ended for its caller

vars == <<settings, ask, pc, route, sql, executed, execution, phase,
          speakers, answer, failure, audit, out>>

fixed == <<settings, ask>>

Settings == [hybrid : BOOLEAN, enforce : BOOLEAN, fallback : BOOLEAN]

\* AskRequest.  A caller may force the read-only check on or off (the debug
\* API passes it through) and may force the route; auto stands for neither.
Asks == [stream : BOOLEAN, dryRun : BOOLEAN,
         enforce : {"auto", "on", "off"},
         route : {"auto", "sql", "rag", "both", "agent"}]

\* An SQL text, told apart by the composite validator's verdict on it and by
\* whether it is what the governance enforcer returned.
Texts == [readonly : BOOLEAN, governed : BOOLEAN]
NoText == [readonly |-> FALSE, governed |-> FALSE]

Codes == {"sql_generation_error", "GOVERNANCE_DENIED", "pipeline_error",
          "answer_generation_error"}

\* What can make a call fail; exhausted is an answer stream with no result.
Exceptions == {"sql_generation", "denied", "exhausted", "other"}

Init ==
    /\ settings \in Settings
    /\ ask \in [Requests -> Asks]
    /\ pc = [r \in Requests |-> "idle"]
    /\ route = [r \in Requests |-> "none"]
    /\ sql = [r \in Requests |-> NoText]
    /\ executed = [r \in Requests |-> {}]
    /\ execution = [r \in Requests |-> "none"]
    /\ phase = [r \in Requests |-> Silent]
    /\ speakers = [r \in Requests |-> {}]
    /\ answer = [r \in Requests |-> "none"]
    /\ failure = [r \in Requests |-> "none"]
    /\ audit = [r \in Requests |-> <<>>]
    /\ out = [r \in Requests |-> "open"]

-----------------------------------------------------------------------------
Goto(r, l) == pc' = [pc EXCEPT ![r] = l]

\* Mutation: a plain call announces phases as a stream does.
StatusAlways(r, p) == phase' = [phase EXCEPT ![r] = p]

\* A status event, in a stream only.
Status(r, p) ==
    phase' = IF ask[r].stream THEN [phase EXCEPT ![r] = p] ELSE phase

\* Mutation: the plain call's dispatch forgets the agent route.
MergesBothOnly(r) == route[r] = "both"

\* The SQL pipeline's answer is merged with documents in a second answer.
\* (The plain call sends every route but rag and sql that way.)
Merges(r) == route[r] \in {"both", "agent"}

\* Mutation: the exception's name is recorded where its code belongs.
FailureCodeRaw(r, exc) == exc

\* The code under which an exception is audited.  AskUseCase tells a policy
\* denial apart; HybridAskUseCase.execute does not.
FailureCode(r, exc) ==
    CASE exc = "sql_generation" -> "sql_generation_error"
      [] exc = "exhausted"      -> "answer_generation_error"
      [] exc = "denied"         -> IF settings.hybrid /\ ~ask[r].stream
                                   THEN "pipeline_error" ELSE "GOVERNANCE_DENIED"
      [] OTHER                  -> "pipeline_error"

\* Mutation: on a merging route both use cases record the failure.
FailedTwice(r, exc) ==
    /\ failure' = [failure EXCEPT ![r] = exc]
    /\ audit' = [audit EXCEPT ![r] =
                    @ \o [i \in 1 .. (IF Merges(r) THEN 2 ELSE 1) |-> FailureCode(r, exc)]]
    /\ out' = [out EXCEPT ![r] = IF ask[r].stream THEN "error" ELSE "raised"]
    /\ Goto(r, "end")

\* Mutation: a failure before the SQL pipeline is not recorded.
FailedUnrecorded(r, exc) ==
    /\ failure' = [failure EXCEPT ![r] = exc]
    /\ audit' = [audit EXCEPT ![r] =
                    IF pc[r] \in {"route", "retrieve"} THEN @ ELSE Append(@, FailureCode(r, exc))]
    /\ out' = [out EXCEPT ![r] = IF ask[r].stream THEN "error" ELSE "raised"]
    /\ Goto(r, "end")

\* An exception, or a failure the pipeline detects: one failure record, then
\* the error event of a stream or the exception to the caller.
Failed(r, exc) ==
    /\ failure' = [failure EXCEPT ![r] = exc]
    /\ audit' = [audit EXCEPT ![r] = Append(@, FailureCode(r, exc))]
    /\ out' = [out EXCEPT ![r] = IF ask[r].stream THEN "error" ELSE "raised"]
    /\ Goto(r, "end")

LogComplete(r) == audit' = [audit EXCEPT ![r] = Append(@, "complete")]

\* The result goes to the caller: the done event, or the return value.
Deliver(r) ==
    /\ out' = [out EXCEPT ![r] = IF ask[r].stream THEN "done" ELSE "returned"]
    /\ Goto(r, "end")

EnterSQL(r) == Status(r, WritingSQL) /\ Goto(r, "gen_sql")

-----------------------------------------------------------------------------
\* The call arrives and runs to its first suspension.
Start(r) ==
    /\ pc[r] = "idle"
    /\ IF settings.hybrid
       THEN Status(r, Routing) /\ Goto(r, "route") /\ UNCHANGED route
       ELSE EnterSQL(r) /\ route' = [route EXCEPT ![r] = "sql"]
    /\ UNCHANGED <<fixed, sql, executed, execution, speakers, answer, failure, audit, out>>

\* A forced route wins; otherwise the router's classification.
RoutesFor(r) ==
    IF ask[r].route = "auto" THEN {"sql", "rag", "both"} ELSE {ask[r].route}

Route(r) ==
    /\ pc[r] = "route"
    /\ \E k \in RoutesFor(r) :
          /\ route' = [route EXCEPT ![r] = k]
          /\ \/ /\ k = "sql"
                /\ EnterSQL(r)
                /\ UNCHANGED <<failure, audit, out>>
             \/ /\ k \in {"rag", "both"} \/ (k = "agent" /\ ~ask[r].stream)
                /\ Status(r, Retrieving)
                /\ Goto(r, "retrieve")
                /\ UNCHANGED <<failure, audit, out>>
             \/ /\ k = "agent" /\ ask[r].stream      \* the route assertion fails
                /\ Failed(r, "other")
                /\ UNCHANGED phase
    /\ UNCHANGED <<fixed, sql, executed, execution, speakers, answer>>

\* Mutation: an empty index sends the call back to the router.
RetrieveReroutes(r) ==
    /\ pc[r] = "retrieve"
    /\ \/ /\ \E found \in BOOLEAN :
                IF ~found THEN Goto(r, "route") /\ UNCHANGED phase
                ELSE IF Merges(r) THEN EnterSQL(r)
                ELSE Status(r, Answering) /\ Goto(r, "rag_answer")
          /\ UNCHANGED <<failure, audit, out>>
       \/ Failed(r, "other") /\ UNCHANGED phase
    /\ UNCHANGED <<fixed, route, sql, executed, execution, speakers, answer>>

\* Embed the question and search the vector store.  Only the plain rag call
\* falls back to SQL when nothing is found.
Retrieve(r) ==
    /\ pc[r] = "retrieve"
    /\ \/ /\ \E found \in BOOLEAN :
                IF Merges(r) \/ (~found /\ settings.fallback /\ ~ask[r].stream)
                THEN EnterSQL(r)
                ELSE Status(r, Answering) /\ Goto(r, "rag_answer")
          /\ UNCHANGED <<failure, audit, out>>
       \/ Failed(r, "other") /\ UNCHANGED phase
    /\ UNCHANGED <<fixed, route, sql, executed, execution, speakers, answer>>

\* GenerateSQLUseCase: a text, a refusal (no SQL), a rejected or unparsable
\* generation, or the failure of a service it uses.
GenerateSQL(r) ==
    /\ pc[r] = "gen_sql"
    /\ \/ /\ \E ok \in BOOLEAN :
                sql' = [sql EXCEPT ![r] = [readonly |-> ok, governed |-> FALSE]]
          /\ Status(r, Governing)
          /\ Goto(r, "govern")
          /\ UNCHANGED <<failure, audit, out>>
       \/ /\ \E exc \in {"sql_generation", "other"} : Failed(r, exc)
          /\ UNCHANGED <<sql, phase>>
    /\ UNCHANGED <<fixed, route, executed, execution, speakers, answer>>

\* The request's wish wins over the setting.
Enforces(r) == ask[r].enforce = "on" \/ (ask[r].enforce = "auto" /\ settings.enforce)

\* validate_readonly_sql lets the text pass.
Accepts(r, text) == Enforces(r) => text.readonly

\* What the enforcer may make of a text: a rewrite the validator may refuse.
GovernedForms(text) ==
    {[readonly |-> ok, governed |-> TRUE] : ok \in {text.readonly, FALSE}}

\* Mutation: the text is validated but never governed.
PreparedUngoverned(r, text) == IF Accepts(r, text) THEN {text} ELSE {}

\* Mutation: what governance returns is not validated again.
PreparedOnce(r, text) == IF Accepts(r, text) THEN GovernedForms(text) ELSE {}

\* prepare_governed_sql: validate, govern, validate what governance returned.
Prepared(r, text) ==
    IF Accepts(r, text) THEN {t \in GovernedForms(text) : Accepts(r, t)} ELSE {}

Govern(r) ==
    /\ pc[r] = "govern"
    /\ \/ /\ \E t \in Prepared(r, sql[r]) : sql' = [sql EXCEPT ![r] = t]
          /\ Status(r, Validating)
          /\ Goto(r, "validated")
          /\ UNCHANGED <<failure, audit, out>>
       \/ /\ Accepts(r, sql[r])
          /\ Failed(r, "denied")
          /\ UNCHANGED <<sql, phase>>
       \/ /\ \E t \in {sql[r]} \cup GovernedForms(sql[r]) : ~Accepts(r, t)
          /\ Failed(r, "other")
          /\ UNCHANGED <<sql, phase>>
    /\ UNCHANGED <<fixed, route, executed, execution, speakers, answer>>

SkipQuery(r) ==
    /\ pc[r] = "validated"
    /\ ask[r].dryRun
    /\ execution' = [execution EXCEPT ![r] = "empty"]
    /\ Status(r, Answering)
    /\ Goto(r, "answer")
    /\ UNCHANGED <<fixed, route, sql, executed, speakers, answer, failure, audit, out>>

BeginQuery(r) ==
    /\ pc[r] = "validated"
    /\ ~ask[r].dryRun
    /\ Status(r, Executing)
    /\ Goto(r, "run")
    /\ UNCHANGED <<fixed, route, sql, executed, execution, speakers, answer, failure, audit, out>>

\* RunQueryUseCase validates once more, then serves a cached result or
\* executes; a failed execution may still have reached the database.
RunQuery(r) ==
    /\ pc[r] = "run"
    /\ \E asked, ok \in BOOLEAN :
          /\ ok \/ asked
          /\ executed' = [executed EXCEPT ![r] =
                            IF asked /\ Accepts(r, sql[r]) THEN @ \cup {sql[r]} ELSE @]
          /\ IF ok /\ Accepts(r, sql[r])
             THEN /\ execution' = [execution EXCEPT ![r] = "rows"]
                  /\ Status(r, Answering)
                  /\ Goto(r, "answer")
                  /\ UNCHANGED <<failure, audit, out>>
             ELSE /\ Failed(r, "other")
                  /\ UNCHANGED <<execution, phase>>
    /\ UNCHANGED <<fixed, route, sql, speakers, answer>>

-----------------------------------------------------------------------------
\* Which generator is writing an answer at each place that does.
Speaker == [answer |-> "sql", rag_answer |-> "rag", merge |-> "merged"]

\* Mutation: the tokens of the SQL answer are forwarded on every route.
ForwardsAll(r) == ask[r].stream

\* HybridAskUseCase drops the tokens of the answer it is going to replace.
Forwards(r) == ask[r].stream /\ ~(pc[r] = "answer" /\ Merges(r))

Token(r) ==
    /\ pc[r] \in DOMAIN Speaker
    /\ Forwards(r)
    /\ speakers' = [speakers EXCEPT ![r] = @ \cup {Speaker[pc[r]]}]
    /\ UNCHANGED <<fixed, pc, route, sql, executed, execution, phase, answer, failure, audit, out>>

\* A generator completes.  The completion is audited before the caller sees
\* it; on a merging route the SQL answer is audited too, and then replaced.
AnswerComplete(r) ==
    /\ pc[r] \in DOMAIN Speaker
    /\ answer' = [answer EXCEPT ![r] = Speaker[pc[r]]]
    /\ LogComplete(r)
    /\ IF pc[r] = "answer" /\ Merges(r)
       THEN Goto(r, "merge") /\ UNCHANGED out
       ELSE Deliver(r)
    /\ UNCHANGED <<fixed, route, sql, executed, execution, phase, speakers, failure>>

AnswerFails(r) ==
    /\ pc[r] \in DOMAIN Speaker
    /\ Failed(r, "other")
    /\ UNCHANGED <<fixed, route, sql, executed, execution, phase, speakers, answer>>

\* A stream of tokens that ends with no result.  Only AskUseCase records it.
AnswerExhausted(r) ==
    /\ pc[r] \in DOMAIN Speaker
    /\ ask[r].stream
    /\ IF pc[r] = "answer"
       THEN Failed(r, "exhausted")
       ELSE /\ failure' = [failure EXCEPT ![r] = "exhausted"]
            /\ out' = [out EXCEPT ![r] = "error"]
            /\ Goto(r, "end")
            /\ UNCHANGED audit
    /\ UNCHANGED <<fixed, route, sql, executed, execution, phase, speakers, answer>>

\* The client of a stream disconnects: the generator is cancelled where it
\* waits.  No handler catches the cancellation, so nothing is recorded.
Disconnect(r) ==
    /\ pc[r] \notin {"idle", "end"}
    /\ ask[r].stream
    /\ out' = [out EXCEPT ![r] = "abandoned"]
    /\ Goto(r, "end")
    /\ UNCHANGED <<fixed, route, sql, executed, execution, phase, speakers, answer, failure, audit>>

\* What the server does once the call has arrived.
Step(r) ==
    \/ Route(r) \/ Retrieve(r)
    \/ GenerateSQL(r) \/ Govern(r) \/ SkipQuery(r) \/ BeginQuery(r) \/ RunQuery(r)
    \/ Token(r) \/ AnswerComplete(r) \/ AnswerFails(r) \/ AnswerExhausted(r)

Next == \E r \in Requests : Start(r) \/ Step(r) \/ Disconnect(r)

Spec == Init /\ [][Next]_vars

\* The event loop runs every ready task, and every service a call waits for
\* answers or times out; a stream of tokens is finite.
FairSpec == Spec /\ \A r \in Requests : WF_vars(Step(r))

-----------------------------------------------------------------------------
Labels == {"idle", "route", "retrieve", "rag_answer", "gen_sql", "govern",
           "validated", "run", "answer", "merge", "end"}

\* The shape of the state: what each variable may hold.
TypeOK ==
    /\ settings \in Settings
    /\ ask \in [Requests -> Asks]
    /\ pc \in [Requests -> Labels]
    /\ route \in [Requests -> {"none", "sql", "rag", "both", "agent"}]
    /\ sql \in [Requests -> Texts]
    /\ executed \in [Requests -> SUBSET Texts]
    /\ execution \in [Requests -> {"none", "empty", "rows"}]
    /\ phase \in [Requests -> Phases]
    /\ speakers \in [Requests -> SUBSET {"sql", "rag", "merged"}]
    /\ answer \in [Requests -> {"none", "sql", "rag", "merged"}]
    /\ failure \in [Requests -> Exceptions \cup {"none"}]
    /\ audit \in [Requests -> Seq(Codes \cup {"complete"})]
    /\ out \in [Requests -> {"open", "done", "returned", "error", "raised", "abandoned"}]

Delivered(r) == out[r] \in {"done", "returned"}
Refused(r)   == out[r] \in {"error", "raised"}

\* Whatever route, retry of validation or fallback led there, the database is
\* given only text that the governance enforcer returned and that passed the
\* read-only check after that rewrite where the call enforces it, and nothing at all by a dry run.
GuardedExecution ==
    \A r \in Requests : \A t \in executed[r] :
        t.governed /\ Accepts(r, t) /\ ~ask[r].dryRun

\* A result that carries SQL carries the governed and re-validated text, in a
\* dry run too, where no execution stands behind it to check it again.
DeliveredSQLChecked ==
    \A r \in Requests :
        Delivered(r) /\ execution[r] # "none" => sql[r].governed /\ Accepts(r, sql[r])

\* The answer delivered is the one its route calls for: merged on a merging
\* route, from documents with no execution, otherwise from SQL; the rows it
\* summarises are the query's unless the call is a dry run.
AnswerMatchesRoute ==
    \A r \in Requests :
        Delivered(r) =>
            /\ answer[r] = "merged" <=> Merges(r)
            /\ answer[r] = "rag" <=> execution[r] = "none"
            /\ answer[r] = "rag" => route[r] = "rag"
            /\ execution[r] = "empty" => ask[r].dryRun
            /\ execution[r] = "rows" => ~ask[r].dryRun

\* The tokens a client of a finished stream has seen all belong to the answer
\* in its done event: no token of a replaced or abandoned answer leaks.
TokensOfFinalAnswer ==
    \A r \in Requests : Delivered(r) => speakers[r] \subseteq {answer[r]}

\* Where the failure records of a call stand in its trail.
Failures(r) == {i \in DOMAIN audit[r] : audit[r][i] # "complete"}

\* The audit trail of a call: a delivered answer was audited as complete
\* before the caller could see it and has no failure beside it; a failure is
\* recorded at most once, after everything else, and only if the call failed.
AuditTrail ==
    \A r \in Requests :
        /\ Delivered(r) => audit[r] # <<>> /\ Failures(r) = {}
        /\ Failures(r) \subseteq {Len(audit[r])}
        /\ Failures(r) # {} => Refused(r)

\* A call that fails leaves a failure record, whichever use case is in front;
\* only a stream of a document or merged answer that ends without a result
\* goes unrecorded.
FailureAudited ==
    \A r \in Requests :
        Refused(r) =>
            \/ Failures(r) # {}
            \/ failure[r] = "exhausted" /\ (route[r] = "rag" \/ Merges(r))

\* Every call that arrives ends.
EveryCallEnds == \A r \in Requests : pc[r] # "idle" ~> out[r] # "open"

-----------------------------------------------------------------------------
\* Where a call stands for its caller.
StageOf(r) ==
    CASE pc[r] = "idle"       -> "new"
      [] out[r] = "abandoned" -> "abandoned"
      [] Delivered(r)         -> "done"
      [] Refused(r)           -> "failed"
      [] OTHER -> IF ask[r].stream THEN "streaming" ELSE "computing"

\* The pipeline keeps the promise of its port.
Contract == INSTANCE AskContract WITH
    LastPhase <- Answering,
    stage <- [r \in Requests |-> StageOf(r)],
    spoke <- [r \in Requests |-> speakers[r] # {}]

\* A stream shows its phases in order, speaks only while answering, ends with
\* one terminal event and shows nothing after it; a plain call is silent.
KeepsContract == Contract!ContractSpec
=============================================================================
