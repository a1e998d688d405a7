----------------------------- MODULE TrustedSql -----------------------------
(***************************************************************************)
(* The trusted semantic layer: YamlSemanticCatalogLoader,                  *)
(* TrustedSQLMatcher, MatchTrustedSQLUseCase, and what GenerateSQLUseCase  *)
(* does with a match.                                                      *)
(*                                                                         *)
(* A text of SQL is known by its identity, stripped, and by what sqlglot   *)
(* makes of it in a dialect: Canonical, which is external.  Questions and  *)
(* phrases are in their normal form: lower case, single spaces, no final   *)
(* punctuation; a question of punctuation only is Empty.                   *)
(***************************************************************************)
EXTENDS Orders, SequencesExt

CONSTANTS Canonical(_, _),  \* of a text in a dialect; Unparsed if it has none
          Empty,            \* the normal form of a question without words
          Unparsed

None == "none"

(***************************************************************************)
(* The catalog.                                                            *)
(***************************************************************************)
\* A file of assets: missing, malformed (not YAML, not a mapping with the list,
\* an item with a field missing or of a wrong type), or a list.
Loadable(file) ==
  /\ file.state # "malformed"
  /\ file.state = "list" => \A i, j \in DOMAIN file.items :
                              file.items[i].id = file.items[j].id => i = j
Items(file) == IF file.state = "list" THEN file.items ELSE <<>>

\* YamlSemanticCatalogLoader.load: without the directory, or with a file that
\* does not load, an error, which is raised at each call, for nothing is kept.
Loads(dir) == dir.exists /\ Loadable(dir.examples) /\ Loadable(dir.metrics)
Enabled(items) == At(items, Ascending({i \in DOMAIN items : items[i].enabled}))
Catalog(dir) == [examples |-> Enabled(Items(dir.examples)), metrics |-> Enabled(Items(dir.metrics))]
InCatalog(catalog) == ToSet(catalog.examples) \cup ToSet(catalog.metrics)

(***************************************************************************)
(* The matcher.                                                            *)
(***************************************************************************)
NoMatch == [source |-> "llm", id |-> None, confidence |-> None, sql |-> None]
MatchOf(source, asset, confidence) ==
  [source |-> source, id |-> asset.id, confidence |-> confidence, sql |-> asset.sql]

\* Examples before metrics, each in the order of its file.
First(catalog, fitting) ==
  LET Matching(items) == {i \in DOMAIN items : items[i] \in fitting}
      e == Matching(catalog.examples)  m == Matching(catalog.metrics)
  IN  IF e # {} THEN <<"trusted_example", catalog.examples[Min(e)]>>
      ELSE IF m # {} THEN <<"trusted_metric", catalog.metrics[Min(m)]>>
      ELSE <<>>

\* Each text in its own dialect, the asset's being the default if it has none.
SameSql(asset, sql, kind) ==
  LET canonical == Canonical(sql, kind)
  IN  /\ canonical # Unparsed
      /\ canonical = Canonical(asset.sql, IF asset.dialect = None THEN kind ELSE asset.dialect)

MatchSql(catalog, sql, kind) ==
  LET found == First(catalog, {a \in InCatalog(catalog) : a.sql = sql \/ SameSql(a, sql, kind)})
  IN  IF found = <<>> THEN NoMatch
      ELSE MatchOf(found[1], found[2], IF found[2].sql = sql THEN "exact_sql" ELSE "normalized_sql")

\* The dialect of an asset plays no part here.
MatchQuestion(catalog, question) ==
  LET found == First(catalog, {a \in InCatalog(catalog) : question \in a.phrases})
  IN  IF question = Empty \/ found = <<>> THEN NoMatch
      ELSE MatchOf(found[1], found[2], "question_match")

\* With SQL, by the SQL and then by the question.
Match(catalog, question, sql, kind) ==
  LET bySql == IF sql = None THEN NoMatch ELSE MatchSql(catalog, sql, kind)
  IN  IF bySql # NoMatch THEN bySql ELSE MatchQuestion(catalog, question)

(***************************************************************************)
(* The use of a match.                                                     *)
(***************************************************************************)
\* Mutation: any match of the question marks the SQL of the model.
VerifiedAny(answer, match) ==
  IF match = NoMatch THEN answer
  ELSE [answer EXCEPT !.source = match.source, !.id = match.id, !.confidence = match.confidence]

\* with_trusted_sql_verification: only a match of the SQL itself marks it.
Verified(answer, match) ==
  IF match.confidence \notin {"exact_sql", "normalized_sql"} THEN answer
  ELSE [answer EXCEPT !.source = match.source, !.id = match.id, !.confidence = match.confidence]

\* GenerateSQLUseCase.execute for a request [question, useLlm, kind] when the
\* model would write sql, or None if it refuses.
Generate(enabled, dir, request, sql) ==
  LET catalog == IF enabled THEN Catalog(dir) ELSE [examples |-> <<>>, metrics |-> <<>>]
      asked == Match(catalog, request.question, None, request.kind)
      written == [source |-> "llm", id |-> None, confidence |-> None, sql |-> sql]
  IN  IF enabled /\ ~Loads(dir) THEN [source |-> "error", id |-> None, confidence |-> None, sql |-> None]
      ELSE IF asked # NoMatch /\ ~request.useLlm THEN asked
      ELSE IF sql = None THEN written
      ELSE Verified(written, Match(catalog, request.question, sql, request.kind))

(***************************************************************************)
(* What the answer a of Generate promises.                                 *)
(***************************************************************************)
Assets(dir, source) ==
  ToSet(Items(IF source = "trusted_example" THEN dir.examples ELSE dir.metrics))

\* An answer that bears the name of an asset has the SQL of that asset, or SQL
\* that parses to the same; the asset is enabled; and the model's own SQL is
\* not replaced.
TrustedIsApproved(dir, request, sql, a) ==
  /\ a.source \in {"trusted_example", "trusted_metric"} =>
       \E asset \in Assets(dir, a.source) :
         /\ asset.id = a.id /\ asset.enabled
         /\ a.sql = asset.sql \/ SameSql(asset, a.sql, request.kind)
  /\ request.useLlm /\ a.source # "error" => a.sql = sql

\* A question with approved SQL is answered with approved SQL when the model
\* is not to be used.
ApprovedIsUsed(enabled, dir, request, a) ==
  (/\ enabled /\ Loads(dir) /\ ~request.useLlm /\ request.question # Empty
   /\ \E source \in {"trusted_example", "trusted_metric"} :
        \E asset \in Assets(dir, source) : asset.enabled /\ request.question \in asset.phrases)
  => a.source \in {"trusted_example", "trusted_metric"}
=============================================================================
