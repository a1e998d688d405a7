-------------------------- MODULE AnswerExplained ---------------------------
(***************************************************************************)
(* The explanation that goes with an answer: HeuristicQueryRouter,         *)
(* ExplainabilityBuilder, and what AskUseCase and HybridAskUseCase give    *)
(* it.  An ask is a record:                                                *)
(*   hybrid, stream, fallback   the pipeline, the call, the setting        *)
(*   requested, signals         "auto" or a route; what the question says  *)
(*   sources                    how many chunks a retrieval finds          *)
(*   dryRun                                                                *)
(*   used, context              tables of the SQL, of the schema context   *)
(*   asset                      of trusted SQL, or None                    *)
(*   verdict                    of the validator of the governed text:     *)
(*                              absent, raises, or given with violations   *)
(*                              and warnings                               *)
(*   governed                   the masks and filters of the decision      *)
(* No caller gives the builder exclusions, warnings or follow-up questions *)
(* of its own, and a denial ends the ask before there is an explanation.   *)
(***************************************************************************)
EXTENDS Orders, SequencesExt

Nothing == "nothing"

(***************************************************************************)
(* The route.  Confidence is in hundredths.                                *)
(***************************************************************************)
UpTo(cap, c) == IF c < cap THEN c ELSE cap
Classified(route, confidence, why) == [route |-> route, confidence |-> confidence, why |-> why]

\* HeuristicQueryRouter.classify of [sql, rag, connector]: how many patterns
\* of either kind are in the question, and whether one joins them.
ByKeywords(q) ==
  CASE q.connector \/ (q.sql >= 1 /\ q.rag >= 1) ->
         Classified("both", UpTo(95, 55 + 10 * (q.sql + q.rag)), "both")
    [] ~q.connector /\ q.sql = 0 /\ q.rag >= 1 -> Classified("rag", UpTo(90, 50 + 10 * q.rag), "document")
    [] ~q.connector /\ q.sql >= 1 /\ q.rag = 0 -> Classified("sql", UpTo(90, 50 + 10 * q.sql), "analytics")
    [] ~q.connector /\ q.sql = 0 /\ q.rag = 0  -> Classified("sql", 45, "default")

\* ClassifyQueryRouteUseCase.
RouteOf(requested, signals) ==
  IF requested = "auto" THEN ByKeywords(signals) ELSE Classified(requested, 100, "requested")

(***************************************************************************)
(* The builder.                                                            *)
(***************************************************************************)
\* _sanitize_warning_message.
Sanitized(message) ==
  CASE message = "blank"               -> "a warning"
    [] message \in {"secret", "trace"} -> "a system warning"
    [] OTHER                           -> message

Warning(severity, message) == [severity |-> severity, message |-> message]
Each(severity, messages, Said(_)) == [i \in DOMAIN messages |-> Warning(severity, Said(messages[i]))]

\* Mutation: only violations are sanitised.
WarningsOfRaw(v) ==
  Once(Each("error", v.violations, Sanitized) \o Each("warning", v.warnings, LAMBDA m : m))

\* _collect_warnings, of what the callers give.
WarningsOf(v) == Once(Each("error", v.violations, Sanitized) \o Each("warning", v.warnings, Sanitized))

\* rag_citations_from_retrieval: the index counts from 0, and is not the number,
\* counted from 1, under which an answer cites the source.
Cited(n) == [i \in 1..n |-> [index |-> i - 1, source |-> i]]

\* ExplainabilityBuilder.build.  A request has a part if there is something in it.
Explain(request) ==
  [route    |-> IF request.route # <<>> THEN request.route[1].route
                ELSE IF request.retrieved = <<>> THEN "sql"
                ELSE IF request.sql = <<>> THEN "rag" ELSE "both",
   why      |-> IF request.route # <<>> THEN request.route[1].why ELSE Nothing,
   confidence |-> IF request.route # <<>> THEN request.route[1].confidence ELSE 0,
   tables   |-> IF request.sql = <<>> THEN <<>> ELSE Once(request.sql[1].used \o request.sql[1].context),
   selection |-> IF request.sql = <<>> THEN <<>> ELSE request.sql[1].context,
   trusted  |-> IF request.sql = <<>> THEN Nothing ELSE request.sql[1].asset,
   governed |-> IF request.sql = <<>> THEN {} ELSE request.sql[1].governed,
   validation |-> request.validation,
   warnings |-> IF request.validation = <<>> THEN <<>> ELSE WarningsOf(request.validation[1]),
   citations |-> IF request.retrieved = <<>> THEN <<>> ELSE Cited(request.retrieved[1]),
   dryRun   |-> request.dryRun,
   executed |-> request.executed]

(***************************************************************************)
(* Its callers.                                                            *)
(***************************************************************************)
\* _validation_for_explainability.
ValidationOf(verdict) ==
  CASE verdict.outcome = "absent" -> <<>>
    [] verdict.outcome = "raises" -> <<[violations |-> <<"unavailable">>, warnings |-> <<>>]>>
    [] verdict.outcome = "given"  -> <<[violations |-> verdict.violations, warnings |-> verdict.warnings]>>

SqlPart(ask) ==
  [used |-> ask.used, context |-> ask.context, asset |-> ask.asset, governed |-> ask.governed]

\* AskUseCase.
SqlResult(ask) ==
  [route |-> "sql", sql |-> <<SqlPart(ask)>>, rows |-> IF ask.dryRun THEN "none" ELSE "fetched",
   sources |-> 0, dryRun |-> ask.dryRun,
   explanation |-> Explain([route |-> <<>>, sql |-> <<SqlPart(ask)>>, retrieved |-> <<>>,
                          validation |-> ValidationOf(ask.verdict),
                          dryRun |-> ask.dryRun, executed |-> ~ask.dryRun])]

\* _build_rag_result.
RagResult(ask, route) ==
  [route |-> "rag", sql |-> <<>>, rows |-> "none", sources |-> ask.sources, dryRun |-> FALSE,
   explanation |-> Explain([route |-> <<route>>, sql |-> <<>>, retrieved |-> <<ask.sources>>,
                          validation |-> <<>>, dryRun |-> FALSE, executed |-> FALSE])]

\* _execute_both and _stream_both: the result of the SQL, with another answer
\* and explanation, and neither its verdict nor its mark of a dry run.
BothResult(ask, route) ==
  LET sql == SqlResult(ask)
  IN  [sql EXCEPT !.route = route.route, !.sources = ask.sources, !.dryRun = FALSE,
                  !.explanation = Explain([route |-> <<route>>, sql |-> sql.sql, retrieved |-> <<ask.sources>>,
                                         validation |-> <<>>,
                                         dryRun |-> sql.dryRun, executed |-> ~sql.dryRun])]

\* HybridAskUseCase, or AskUseCase by itself.  A plain call that finds no
\* document may fall back to the SQL pipeline, whose result it returns as it is;
\* one that is told to take the route of the agent does as for both.
ResultOf(ask) ==
  LET route == RouteOf(ask.requested, ask.signals)
      sql == SqlResult(ask)
  IN  CASE ~ask.hybrid -> sql
        [] ask.hybrid /\ route.route = "sql" ->
             [sql EXCEPT !.explanation = [@ EXCEPT !.route = "sql", !.why = route.why,
                                                   !.confidence = route.confidence]]
        [] ask.hybrid /\ route.route = "rag" ->
             IF ask.sources = 0 /\ ask.fallback /\ ~ask.stream THEN sql ELSE RagResult(ask, route)
        [] ask.hybrid /\ route.route \in {"both", "agent"} -> BothResult(ask, route)

(***************************************************************************)
(* What is promised of the result r of an ask.                             *)
(***************************************************************************)
\* A question is put to the documents only if it speaks of them or is told to,
\* and to the database whenever it speaks of data.
RoutedAsAsked(ask, r) ==
  LET q == ask.signals
  IN  ask.hybrid /\ ask.requested = "auto" =>
        /\ r.route \in {"rag", "both"} => q.rag > 0 \/ q.connector
        /\ q.sql > 0 => r.route \in {"sql", "both"}

\* The explanation is of the result it comes with: its route, its sources one
\* by one in their order, its tables first and each once, its trusted asset, its
\* filters, the mode of the request where SQL was written, and whether its rows
\* were fetched.  The index of a source is not promised to be the number the
\* answer cites it by, nor a merged result to say that it was a dry run: only its
\* explanation does.
OfItsResult(ask, r) ==
  LET e == r.explanation
  IN  /\ e.route = r.route
      /\ e.why = Nothing <=> ~ask.hybrid \/ (r.route = "sql" /\ RouteOf(ask.requested, ask.signals).route = "rag")
      /\ e.confidence \in 0..100
      /\ Len(e.citations) = r.sources
      /\ \A i \in DOMAIN e.citations : e.citations[i].source = i
      /\ IsInjective(e.tables)
      /\ r.sql # <<>> => /\ IsPrefix(Once(r.sql[1].used), e.tables)
                         /\ e.trusted = r.sql[1].asset /\ e.governed = r.sql[1].governed
                         /\ e.dryRun = ask.dryRun
      /\ r.sql = <<>> => e.tables = <<>> /\ e.trusted = Nothing
      /\ e.executed <=> r.rows = "fetched"
      /\ r.route = "sql" => r.dryRun = ask.dryRun

\* On the route of SQL there is an error among the warnings exactly if the verdict
\* has violations; no warning on any route says what should not be said, or twice.
\* A merged answer is given no verdict, so that it warns of nothing.
WarnedSafely(ask, r) ==
  LET e == r.explanation
  IN  /\ IsInjective(e.warnings)
      /\ \A i \in DOMAIN e.warnings : e.warnings[i].message \notin {"blank", "secret", "trace"}
      /\ r.route = "sql" /\ e.validation # <<>> =>
           ((\E i \in DOMAIN e.warnings : e.warnings[i].severity = "error") <=>
              e.validation[1].violations # <<>>)

ExplainsTheResult(ask, r) == RoutedAsAsked(ask, r) /\ OfItsResult(ask, r) /\ WarnedSafely(ask, r)
=============================================================================
