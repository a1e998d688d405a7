---------------------------- MODULE MCPromptData ----------------------------
(***************************************************************************)
(* Instances of what goes into a prompt and comes with its answer, for     *)
(* TLC: a schema document that is read line by line, and cases of the      *)
(* functions that choose the tables, the trusted SQL, the text of the SQL, *)
(* the rows, the chunks of a document and the explanation.  A case is      *)
(* given at the empty document and then computed.                          *)
(***************************************************************************)
EXTENDS SchemaDocs, SchemaContext, TrustedSql, SqlText, ResultRows, DocumentChunks, AnswerExplained

VARIABLE work  \* a case, and then what the code makes of it

Idle == [of |-> "nothing"]
Given(kind, case) == work' = [of |-> kind, case |-> case, done |-> FALSE]

(***************************************************************************)
(* Contexts: three tables, of which the third joins; a fourth is referred  *)
(* to and missing.                                                         *)
(***************************************************************************)
Fk(t) == [to |-> t, exact |-> TRUE]
ForeignKeys == {<<>>, <<Fk(1)>>, <<Fk(3), Fk(4)>>, <<Fk(2), Fk(1)>>, <<[to |-> 1, exact |-> FALSE]>>,
                <<Fk(3), Fk(3), Fk(3), Fk(3), Fk(3)>>}
Example(k, s, j, r) == [kind |-> k, sql |-> s, join |-> j, related |-> r, words |-> {"u"}, tables |-> r]
Examples == {<<>>,
             <<Example("sql", "j1", TRUE, {1}), Example("sql", "j1", TRUE, {3})>>,
             <<Example("sql", "j2", FALSE, {2}), Example("orm", "j3", TRUE, {1})>>}
MCTable(n, fks, examples) ==
  [name |-> n, words |-> IF n = 3 THEN {"u", "w"} ELSE {"v"}, domain |-> IF n = 3 THEN "u" ELSE "v",
   indexed |-> IF n = 2 THEN {"w"} ELSE {}, fks |-> fks, examples |-> examples]
Questions == {[names |-> n, words |-> w] :
              n \in {{}, {1}, {2, 3}}, w \in {{}, {"u"}, {"w"}, {"u", "v", "join"}}}

ContextCase ==
  \E f1, f2, f3 \in ForeignKeys, e \in Examples, q \in Questions, max \in 1..3 :
    LET doc == <<MCTable(1, f1, <<>>), MCTable(2, f2, e), MCTable(3, f3, e)>>
    IN  Given("context", [doc |-> doc, question |-> q, max |-> max])

(***************************************************************************)
(* Trusted SQL: two texts that parse to the same in one dialect only, and  *)
(* one that does not parse.                                                *)
(***************************************************************************)
MCCanonical(sql, kind) ==
  CASE sql = "s1" -> "S1"
    [] sql = "s2" -> IF kind = "sqlite" THEN "S1" ELSE "S2"
    [] sql = "s3" -> "unparsed"
Asset(i, s, p, e, d) == [id |-> i, sql |-> s, phrases |-> p, enabled |-> e, dialect |-> d]
MCAssets == {Asset("a", "s1", {"q1"}, TRUE, None), Asset("a", "s2", {"q1", "q2"}, FALSE, "sqlite"),
            Asset("b", "s2", {"q2"}, TRUE, "mssql"), Asset("b", "s3", {"q1"}, TRUE, None),
            Asset("c", "s2", {}, TRUE, None)}
Files == {[state |-> s, items |-> <<>>] : s \in {"missing", "malformed"}}
         \cup {[state |-> "list", items |-> i] : i \in UNION {[1..n -> MCAssets] : n \in 0..2}}
Requests == [question : {"q1", "q2", "empty"}, useLlm : BOOLEAN, kind : {"sqlite", "mssql"}]

TrustedCase ==
  \E examples \in Files, metrics \in {f \in Files : Len(f.items) < 2}, exists, enabled \in BOOLEAN,
     request \in Requests, sql \in {"s1", "s2", "s3", None} :
    LET dir == [exists |-> exists, examples |-> examples, metrics |-> metrics]
    IN  Given("trusted", [enabled |-> enabled, dir |-> dir, request |-> request, sql |-> sql])

(***************************************************************************)
(* Texts of SQL of MaxMarks marks, texts around those of half as many in   *)
(* fences, the second of which may be missing, and rows.                   *)
(***************************************************************************)
CONSTANTS MaxMarks, MaxAvailable  \* bounds: marks of a text, rows of a database

Marks == {"a", "'", ";", "--", "/*", "*/", "sp", "nl"}
Around == {<<>>, <<"a", "nl">>, <<"'">>, <<";", "a">>, <<"nl", "fence", "a", "fence">>}
SqlCase ==
  \/ \E n \in 0..MaxMarks : \E s \in [1..n -> Marks] : Given("sql", s)
  \/ \E n \in 0..((MaxMarks + 1) \div 2) : \E s \in [1..n -> Marks \cup {"fence"}] :
       \E before, after \in Around, close \in {<<>>, <<"fence">>} :
         Given("sql", before \o <<"fence">> \o s \o close \o after)

DefaultRows == 3  \* of the settings, for a request without a cap of its own
RowsCase ==
  \E form \in Forms, own \in {0, 2, 5}, available, cap \in 0..MaxAvailable,
     display \in 1..MaxAvailable, noted \in BOOLEAN :
    Given("rows", [statement |-> [form |-> form, own |-> own], available |-> available, max |-> MaxRows(cap, DefaultRows),
                   display |-> display, noted |-> noted])

(***************************************************************************)
(* Documents of MaxText marks, and asks that are explained.                *)
(***************************************************************************)
CONSTANT MaxText  \* bound: marks of a document

ChunksCase ==
  \E n \in 0..MaxText : \E s \in [1..n -> {"x", "sp", "nl", "#"}], size \in 1..3 :
    \E overlap \in 0..(size - 1) : Given("chunks", [text |-> s, size |-> size, overlap |-> overlap])

Signals == {s \in [sql : {0, 1, 2, 9}, rag : {0, 1}, connector : BOOLEAN] :
              <<s.sql, s.rag>> \in {<<0, 0>>, <<1, 0>>, <<0, 1>>, <<2, 1>>, <<9, 0>>}}
Questioned == ({"auto"} \X Signals)
              \cup ({"sql", "rag", "both", "agent"} \X {[sql |-> 1, rag |-> 0, connector |-> FALSE]})
MCTables == {<< <<>>, <<"t1">> >>, << <<"t1">>, <<>> >>, << <<"t2", "t1", "t2">>, <<"t3", "t1">> >>}
Verdict(o, v, w) == [outcome |-> o, violations |-> v, warnings |-> w]
Verdicts == {Verdict("absent", <<>>, <<>>), Verdict("raises", <<>>, <<>>),
             Verdict("given", <<>>, <<"blank", "trace">>),
             Verdict("given", <<"secret", "no select", "trace">>, <<"no select", "secret">>)}

ExplainedCase ==
  \E hybrid, stream, fallback, dryRun \in BOOLEAN, q \in Questioned, sources \in 0..2, t \in MCTables,
     asset \in {Nothing, "a"}, verdict \in Verdicts, governed \in {{}, {"mask", "filter"}} :
    /\ ~(q[1] = "agent" /\ stream)
    /\ Given("explained", [hybrid |-> hybrid, stream |-> stream, fallback |-> fallback, dryRun |-> dryRun,
                           requested |-> q[1], signals |-> q[2], sources |-> sources, used |-> t[1],
                           context |-> t[2], asset |-> asset, verdict |-> verdict, governed |-> governed])

(***************************************************************************)
(* Next-state relation.                                                    *)
(***************************************************************************)
MCInit == DocInit /\ work = Idle

WriteDocument == work = Idle /\ DocNext /\ UNCHANGED work

GiveCase ==
  /\ work = Idle /\ format = "django" /\ part = 0 /\ lines = 0 /\ ~ended
  /\ ExplainedCase \/ TrustedCase \/ RowsCase \/ SqlCase \/ ContextCase \/ ChunksCase
  /\ UNCHANGED docVars

Result(kind, c) ==
  CASE kind = "context" -> ContextOf(c.doc, c.question, c.max)
    [] kind = "trusted" -> Generate(c.enabled, c.dir, c.request, c.sql)
    [] kind = "sql"     -> Postprocessed(c)
    [] kind = "rows"    -> RowsOf(c.statement, c.available, c.max, c.display, c.noted)
    [] kind = "chunks"    -> ChunksOf(c.text, c.size, c.overlap)
    [] kind = "explained" -> ResultOf(c)

Compute ==
  /\ work # Idle /\ ~work.done
  /\ work' = [of |-> work.of, case |-> work.case, done |-> TRUE, result |-> Result(work.of, work.case)]
  /\ UNCHANGED docVars

MCNext == WriteDocument \/ GiveCase \/ Compute
MCSpec == MCInit /\ [][MCNext]_<<docVars, work>>

(***************************************************************************)
(* Properties: the promises of the modules, of every case.                 *)
(***************************************************************************)
Worked(kind) == work.of = kind /\ work.done

\* The tables of a context are no more than asked for, the best first, their
\* parents with them if there is room, and its patterns apply (SchemaContext).
\* What bears the name of a trusted asset is its SQL; approved SQL is used when
\* the model is not (TrustedSql).
ChoicesKept ==
  LET c == work.case
  IN  /\ Worked("context") => ContextKeeps(c.doc, c.question, c.max, work.result)
      /\ Worked("trusted") => /\ TrustedIsApproved(c.dir, c.request, c.sql, work.result)
                             /\ ApprovedIsUsed(c.enabled, c.dir, c.request, work.result)

\* The SQL that goes to the validator means what the model has written (SqlText).
SqlKept == Worked("sql") => SqlMeans(work.case, work.result)

\* The rows of a result and of a prompt are those asked for, as many as fit,
\* and where some are missing this is said (ResultRows).  The chunks of a
\* document leave nothing out but headings (DocumentChunks).
CutsKept ==
  LET c == work.case
  IN  /\ Worked("rows") => RowsAsSaid(c.statement, c.available, c.max, c.display, c.noted, work.result)
      /\ Worked("chunks") => ChunksAsSaid(c.text, c.size, c.overlap, work.result)

\* An answer comes from where the question asks it; its explanation names the
\* answer's route, sources, tables, asset and filters, and on the route of SQL
\* warns exactly of a verdict with violations (AnswerExplained).
ExplanationFits == Worked("explained") => ExplainsTheResult(work.case, work.result)
=============================================================================
