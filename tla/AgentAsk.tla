------------------------------ MODULE AgentAsk ------------------------------
(***************************************************************************)
(* LangChainAgentAskUseCase: an ask answered by a language model that      *)
(* calls two tools, search_documents and run_sql_analytics, in rounds.     *)
(* The calls of a round run concurrently and leave what they found in one  *)
(* mutable context, from which the result is put together at the end.      *)
(*                                                                         *)
(* One ask; tool calls are told apart by their identity, and what they     *)
(* find bears it.  A tool call suspends while it embeds its query or waits *)
(* for the model to write SQL, and in run_query only when the query cache  *)
(* is in Redis: otherwise context.sql and context.execution are set in one *)
(* step.  An exception in any tool ends the run (LangGraph re-raises it).  *)
(***************************************************************************)
EXTENDS AskPhases, FiniteSets

CONSTANTS ToolCalls,   \* the tool calls a run may make
          MaxHits      \* bound: documents a search may find

None == 0
ASSUME ToolCallsAssumption == IsFiniteSet(ToolCalls) /\ None \notin ToolCalls
ASSUME HitsAssumption == MaxHits \in Nat

VARIABLES
  stream,     \* execute_stream, or execute
  dryRun,     \* AskRequest.mode is dry_run
  suspends,   \* whether run_query suspends before it executes, fixed
  pc,         \* start, model, answering, ended, left (by the client)
  tool,       \* per call: none, search, sql
  at,         \* per call: none, embedding, generating, querying, finished
  hits,       \* per call: how many documents its search found
  rag,        \* context.rag_retrieval, as the call that set it
  sql,        \* context.sql
  execution,  \* context.execution
  executed,   \* the calls whose SQL the database has run
  meant,      \* citations in the answer: <<search, number>> as its author saw them
  result,     \* the AskResult delivered
  events,     \* events the client of a stream has seen
  audit,      \* audit records written
  together,   \* history: two SQL calls were under way at one time
  wordless    \* history: a SQL call ended without SQL

request == <<stream, dryRun, suspends>>
context == <<rag, sql, execution>>
calls == <<tool, at, hits>>
history == <<together, wordless>>
vars == <<request, pc, calls, context, executed, meant, result, events, audit, history>>

NoResult == [sql |-> None, execution |-> None, rag |-> None, sources |-> 0, citations |-> {}]

Init ==
  /\ stream \in BOOLEAN /\ dryRun \in BOOLEAN /\ suspends \in BOOLEAN
  /\ pc = "start"
  /\ tool = [t \in ToolCalls |-> "none"] /\ at = [t \in ToolCalls |-> "none"]
  /\ hits = [t \in ToolCalls |-> 0]
  /\ rag = None /\ sql = None /\ execution = None
  /\ executed = {} /\ meant = {} /\ result = NoResult
  /\ events = {} /\ audit = {}
  /\ together = FALSE /\ wordless = FALSE

(***************************************************************************)
(* The ends of an ask.                                                     *)
(***************************************************************************)
\* Mutation: a stream shows nothing of its failure.
FailedSilently ==
  /\ pc' = "ended"
  /\ audit' = audit \cup {"pipeline_error"}
  /\ UNCHANGED <<request, calls, context, executed, meant, result, events, history>>

\* Either handler writes one failure record.  A stream then shows an error
\* event, a plain call raises.  No tool can raise SQLGenerationError through
\* the runner, which wraps what it catches, so the code is pipeline_error.
Failed ==
  /\ pc' = "ended"
  /\ audit' = audit \cup {"pipeline_error"}
  /\ events' = IF stream THEN events \cup {"error"} ELSE events
  /\ UNCHANGED <<request, calls, context, executed, meant, result, history>>

\* resolve_citations: what lies outside the sources is dropped.
InRange(numbers, count) == {n \in numbers : 1 <= n /\ n <= count}

\* Mutation: the text is only read where nothing is declared.
EnrichedByEither(declared, brackets, count) ==
  IF count = 0 THEN declared
  ELSE InRange(IF declared # {} THEN declared ELSE brackets, count)

\* enrich_generate_answer_result joins the citations an answer declares and the
\* numbers in brackets in its text; without sources the answer stays as it is,
\* with what it declares.
Enriched(declared, brackets, count) ==
  IF count = 0 THEN declared ELSE InRange(declared \cup brackets, count)

\* _build_ask_result and what follows it, given the citations the answer came
\* with.  The result is audited, then delivered.
Delivered(declared, brackets) ==
  LET count == IF rag = None THEN 0 ELSE hits[rag]
  IN  /\ pc' = "ended"
      /\ result' = [sql |-> sql, execution |-> execution, rag |-> rag, sources |-> count,
                    citations |-> Enriched(declared, brackets, count)]
      /\ audit' = audit \cup {"complete"}
      /\ events' = IF stream THEN events \cup {"done"} ELSE events
      /\ UNCHANGED <<request, calls, context, executed, history>>

(***************************************************************************)
(* The run.                                                                *)
(***************************************************************************)
Pending == {t \in ToolCalls : at[t] \notin {"none", "finished"}}
Fresh == {t \in ToolCalls : at[t] = "none"}

Start ==
  /\ pc = "start"
  /\ pc' = "model"
  /\ events' = IF stream THEN events \cup {"routing"} ELSE events
  /\ UNCHANGED <<request, calls, context, executed, meant, result, audit, history>>

\* The model calls for some tools at once.
Round(kind) ==
  /\ pc = "model" /\ Pending = {} /\ DOMAIN kind # {}
  /\ tool' = [t \in ToolCalls |-> IF t \in DOMAIN kind THEN kind[t] ELSE tool[t]]
  /\ at' = [t \in ToolCalls |-> IF t \notin DOMAIN kind THEN at[t]
                                ELSE IF kind[t] = "search" THEN "embedding" ELSE "generating"]
  /\ together' = (together \/ Cardinality({t \in DOMAIN kind : kind[t] = "sql"}) > 1)
  /\ UNCHANGED <<request, pc, hits, context, executed, meant, result, events, audit, wordless>>

\* search_documents, once its query is embedded.
Search(t, n) ==
  /\ pc = "model" /\ at[t] = "embedding"
  /\ at' = [at EXCEPT ![t] = "finished"]
  /\ hits' = [hits EXCEPT ![t] = n]
  /\ rag' = t
  /\ UNCHANGED <<request, pc, tool, sql, execution, executed, meant, result, events, audit, history>>

\* Mutation: the SQL of the first call is kept.
RemembersFirst(t) == sql = None

\* Whether run_sql_analytics stores the SQL it was given: always.
Remembers(t) == TRUE

Executes(t) ==
  /\ at' = [at EXCEPT ![t] = "finished"]
  /\ execution' = t
  /\ executed' = executed \cup {t}

\* run_sql_analytics, once generate_sql has answered: with SQL, which is
\* executed whatever the mode of the request, or with an explanation only.
GenerateSQL(t, hasSQL) ==
  /\ pc = "model" /\ at[t] = "generating"
  /\ sql' = IF Remembers(t) THEN t ELSE sql
  /\ CASE hasSQL /\ suspends -> at' = [at EXCEPT ![t] = "querying"] /\ UNCHANGED <<execution, executed>>
       [] hasSQL /\ ~suspends -> Executes(t)
       [] OTHER -> at' = [at EXCEPT ![t] = "finished"] /\ UNCHANGED <<execution, executed>>
  /\ wordless' = (wordless \/ ~hasSQL)
  /\ UNCHANGED <<request, pc, tool, hits, rag, meant, result, events, audit, together>>

RunQuery(t) ==
  /\ pc = "model" /\ at[t] = "querying" /\ Executes(t)
  /\ UNCHANGED <<request, pc, tool, hits, rag, sql, meant, result, events, audit, history>>

\* A tool raises, the model fails, the run exceeds its limit, or it ends
\* without an assistant message.
RunFails == pc = "model" /\ Failed

\* The documents the model has been shown, under the numbers it saw, and the
\* numbers it may write that it saw nowhere.
Shown == {c \in ToolCalls \X (1..MaxHits) : c[2] <= hits[c[1]]}
Numbers == 0..(MaxHits + 1)
Strays == Numbers \ {c[2] : c \in Shown}

\* The model speaks last.  Without an execution its words are the answer, which
\* declares no citation; with one they are dropped, and the answer is generated
\* from the rows.
Speak(cited, stray) ==
  /\ pc = "model" /\ Pending = {} /\ cited \subseteq Shown
  /\ \/ /\ execution = None
        /\ meant' = cited
        /\ Delivered({}, {c[2] : c \in cited} \cup stray)
     \/ /\ execution # None /\ cited = {}
        /\ pc' = "answering"
        /\ UNCHANGED <<request, calls, context, executed, meant, result, events, audit, history>>

\* GenerateAnswerUseCase, given the rows and the documents of the context.
\* The numbers it declares, and writes in brackets, are the model's own.
Answer(declared, brackets) ==
  /\ pc = "answering"
  /\ meant' = {c \in Shown : c[1] = rag /\ c[2] \in declared \cup brackets}
  /\ Delivered(declared, brackets)

AnswerFails == pc = "answering" /\ Failed

\* The client of a stream hangs up: no handler catches that.
Disconnect ==
  /\ stream /\ pc \in {"model", "answering"}
  /\ pc' = "left"
  /\ UNCHANGED <<request, calls, context, executed, meant, result, events, audit, history>>

Step ==
  \/ Start \/ RunFails \/ AnswerFails
  \/ \E S \in SUBSET Fresh : \E kind \in [S -> {"search", "sql"}] : Round(kind)
  \/ \E t \in ToolCalls :
       \/ \E n \in 0..MaxHits : Search(t, n)
       \/ \E b \in BOOLEAN : GenerateSQL(t, b)
       \/ RunQuery(t)
  \/ \E cited \in SUBSET Shown, stray \in SUBSET Strays : Speak(cited, stray)
  \/ \E declared, brackets \in SUBSET Numbers : Answer(declared, brackets)

Next == Step \/ Disconnect
Spec == Init /\ [][Next]_vars

(***************************************************************************)
(* Properties.                                                             *)
(***************************************************************************)
TypeOK ==
  /\ stream \in BOOLEAN /\ dryRun \in BOOLEAN /\ suspends \in BOOLEAN
  /\ pc \in {"start", "model", "answering", "ended", "left"}
  /\ tool \in [ToolCalls -> {"none", "search", "sql"}]
  /\ at \in [ToolCalls -> {"none", "embedding", "generating", "querying", "finished"}]
  /\ hits \in [ToolCalls -> 0..MaxHits]
  /\ {rag, sql, execution} \subseteq ToolCalls \cup {None} /\ executed \subseteq ToolCalls
  /\ meant \subseteq ToolCalls \X (1..MaxHits)
  /\ events \subseteq {"routing", "done", "error"}
  /\ audit \subseteq {"complete", "pipeline_error"}
  /\ together \in BOOLEAN /\ wordless \in BOOLEAN

\* The rows a result shows are those of the SQL it shows, and were run, unless
\* a later call of the tool ended without SQL, or calls of one round were
\* under way together and run_query suspends: then the context holds the SQL
\* of one call and the rows of another, and so does the result.
RowsOfTheirSQL ==
  result.execution # None /\ ~wordless /\ ~(together /\ suspends) =>
    result.sql = result.execution /\ result.execution \in executed

\* A dry run reaches no database.  Checked to be violated: the tool
\* executes whatever the mode of the request.
DryRunRunsNothing == dryRun => executed = {}

\* The citations of a delivered answer are what its author cited of documents it
\* was shown: none is made up, and none of the documents delivered is lost.  A
\* number names the very document its author saw under it, unless the model
\* searched more than once and answers itself: its numbers are then looked up
\* among the documents of the last search.  An answer delivered without sources
\* cites nothing if it is in the model's own words.  If it was generated from
\* rows it keeps the numbers it declares, which name no document
\* (enrich_generate_answer_result returns early): of those nothing is said.
Searches == {t \in ToolCalls : tool[t] = "search"}
CitationsMeant ==
  /\ result.sources > 0 =>
       /\ result.citations \subseteq 1..result.sources
       /\ \A n \in result.citations : \E t \in Searches : <<t, n>> \in meant
       /\ \A n \in 1..result.sources : <<result.rag, n>> \in meant => n \in result.citations
       /\ result.execution # None \/ Cardinality(Searches) = 1 =>
            \A n \in result.citations : <<result.rag, n>> \in meant
  /\ result.sources = 0 /\ result.execution = None => result.citations = {}

(***************************************************************************)
(* What the ask looks like to its caller.                                  *)
(***************************************************************************)
\* A stream ends with an event.  A plain call returns or raises: either is
\* audited just before.
Succeeded == IF stream THEN "done" \in events ELSE "complete" \in audit
Refused == IF stream THEN "error" \in events ELSE "pipeline_error" \in audit

\* Where it stands; one that has ended and told nobody is lost.
StageOf ==
  CASE pc = "start" -> "new"
    [] pc = "left"  -> "abandoned"
    [] pc \in {"model", "answering"} -> IF stream THEN "streaming" ELSE "computing"
    [] pc = "ended" /\ Succeeded /\ ~Refused -> "done"
    [] pc = "ended" /\ Refused /\ ~Succeeded -> "failed"
    [] OTHER -> "lost"

\* The one ask, which announces a single phase and streams no token.
Contract == INSTANCE AskContract WITH
  Requests <- {"ask"}, LastPhase <- Routing,
  stage <- [r \in {"ask"} |-> StageOf],
  phase <- [r \in {"ask"} |-> IF "routing" \in events THEN Routing ELSE Silent],
  spoke <- [r \in {"ask"} |-> FALSE]

\* The agent keeps the promise of the port like the other pipelines: its plain
\* calls show nothing and return or raise, its streams announce the phase they
\* have and end with done or error, unless the client has left.
KeepsContract == Contract!ContractSpec
=============================================================================
