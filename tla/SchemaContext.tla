--------------------------- MODULE SchemaContext ---------------------------
(***************************************************************************)
(* From a schema export to the context of a question: SchemaJsonParser,    *)
(* SchemaRegistry and SchemaContextBuilder, as functions.                  *)
(*                                                                         *)
(* Documents list their tables in the order of their names, which are      *)
(* numbers here.  A table has the words of its name, its domain (the first *)
(* of them), the words its columns, description and examples put into the  *)
(* token index, its foreign keys in order, and its examples.  A foreign    *)
(* key names a table, in the spelling of that table or in another: the     *)
(* registry ignores case.  A question has words and names of tables; no    *)
(* name of a table is part of another's.  Scores are in half points.       *)
(***************************************************************************)
EXTENDS Orders, SequencesExt

CONSTANTS HubLimit,   \* how many tables may be hubs: 25 in the code
          SeedLimit   \* how many tables bring their parents along: 5
ASSUME LimitsAssumption == HubLimit \in Nat /\ SeedLimit \in Nat

If(condition, points) == IF condition THEN points ELSE 0

(***************************************************************************)
(* The document of an export.                                              *)
(***************************************************************************)
Names(doc) == {t.name : t \in ToSet(doc)}
Table(doc, name) == CHOOSE t \in ToSet(doc) : t.name = name

Referred(doc) == {fk.to : fk \in UNION {ToSet(t.fks) : t \in ToSet(doc)}}
Keys(doc) == [i \in DOMAIN doc |-> doc[i].fks]
InDegree(doc, name) == Cardinality({p \in Places(Keys(doc)) : Keys(doc)[p[1]][p[2]].to = name})

\* The names referred to most, tables of the document or not.
Hubs(doc) ==
  ToSet(AtMost(Best(Referred(doc), [name \in Referred(doc) |-> InDegree(doc, name)]), HubLimit))
IsHub(doc, name) == name \in Hubs(doc)

\* An example as its table's: the title of a pattern begins with that name.
UnderTable(t, e) == [e EXCEPT !.words = @ \cup t.words, !.tables = @ \cup {t.name}]
OwnExamples(t) == [j \in DOMAIN t.examples |-> UnderTable(t, t.examples[j])]

\* Examples that join tables, each SQL once, from the first table that has it.
JoinPatterns(doc) ==
  LET lists == [i \in DOMAIN doc |-> OwnExamples(doc[i])]
      Joining(e) == e.kind = "sql" /\ (e.join \/ e.related # {})
      all == Within(lists, InPlace({p \in Places(lists) : Joining(lists[p[1]][p[2]])}))
  IN  At(all, Ascending(Firsts([i \in DOMAIN all |-> all[i].sql])))

(***************************************************************************)
(* Scores.                                                                 *)
(***************************************************************************)
Related(t) == UNION {e.related : e \in ToSet(t.examples)}
Indexed(doc, t) == t.words \cup {t.domain} \cup t.indexed
                   \cup UNION {Table(doc, n).words : n \in Related(t) \cap Names(doc)}

\* _score_table; hub is whether the table is one.
BaseScore(doc, hub, t, q) ==
  LET mentioned == If(t.name \in q.names, 1)
      inName == Cardinality(q.words \cap t.words)
  IN  20 * mentioned + 5 * Cardinality(q.words \cap Indexed(doc, t)) + 6 * inName
      + 4 * (inName + mentioned) + If(t.domain \in q.words, 4)
      + If(hub, 3) + If(hub /\ InDegree(doc, t.name) >= 5, 1)

\* With the default of a hub and the boost of a domain.
WithDefault(base, hub) == IF base = 0 /\ hub THEN 3 ELSE base
Boosted(doc, hub, t, q) == WithDefault(BaseScore(doc, hub, t, q), hub) + If(t.domain \in q.words, 3)
Score(doc, t, q) == Boosted(doc, IsHub(doc, t.name), t, q)

Scores(doc, q) == [n \in Names(doc) |-> Score(doc, Table(doc, n), q)]

(***************************************************************************)
(* The context.                                                            *)
(***************************************************************************)
ScoredBy(scores) == {n \in DOMAIN scores : scores[n] > 0}
Scored(doc, q) == ScoredBy(Scores(doc, q))
Ranked(scores) == Best(ScoredBy(scores), scores)

\* The tables with the highest scores; without any, hubs.
OrHubs(doc, ranked) == IF ranked # <<>> THEN ranked ELSE AtMost(Ascending(Hubs(doc) \cap Names(doc)), 5)
Spelled(names) == [i \in DOMAIN names |-> [to |-> names[i], exact |-> TRUE]]
Selected(doc, q, max) == Spelled(OrHubs(doc, AtMost(Ranked(Scores(doc, q)), max)))

\* The tables that the first of the selected refer to.
Parents(doc, selected) ==
  LET lists == [i \in DOMAIN AtMost(selected, SeedLimit) |-> Table(doc, selected[i].to).fks]
  IN  Within(lists, InPlace({p \in Places(lists) : lists[p[1]][p[2]].to \in Names(doc)}))

\* Mutation: the parents stand before the tables that bring them.
ExpandedFirst(doc, selected, max) == AtMost(Once(Parents(doc, selected) \o selected), max)

\* _expand_fk_neighbors: parents of the first tables, unless a name is there as
\* it is spelled; then what is too many is cut, the parents first.
Expanded(doc, selected, max) == AtMost(Once(selected \o Parents(doc, selected)), max)

\* _match_join_patterns: the three that fit best.
Fit(p, q, names) == If(q.words \cap p.words # {}, 2) + If(names \cap p.tables # {}, 3)
                    + If("join" \in q.words /\ p.join, 2)
Fitting(ps, fits) == At(ps, AtMost(Best({i \in DOMAIN ps : fits[i] > 0}, fits), 3))
JoinsOf(ps, q, names) == Fitting(ps, [i \in DOMAIN ps |-> Fit(ps[i], q, names)])
Joins(doc, q, names) == JoinsOf(JoinPatterns(doc), q, names)

\* SchemaContextBuilder.build: the tables in their order, and the patterns.
WithJoins(doc, q, tables) == [tables |-> tables, joins |-> Joins(doc, q, ToSet(tables))]
NamesOf(selected) == [i \in DOMAIN selected |-> selected[i].to]
ContextOf(doc, q, max) == WithJoins(doc, q, NamesOf(Expanded(doc, Selected(doc, q, max), max)))

(***************************************************************************)
(* What a context promises: c is what ContextOf gives for a document, a    *)
(* question and a number of tables.                                        *)
(***************************************************************************)
\* No more tables than asked for, and none twice unless a foreign key spells
\* a table otherwise than that table itself.
Fits(doc, max, c) ==
  /\ Len(c.tables) <= max /\ ToSet(c.tables) \subseteq Names(doc)
  /\ (\A t \in ToSet(doc) : \A fk \in ToSet(t.fks) : fk.exact) => IsInjective(c.tables)

\* A table that is left out scores no more than one that is kept, but for
\* the parents, which stand behind all tables kept for their score.
Relevant(doc, q, max, c) ==
  LET kept == {c.tables[i] : i \in 1..(IF Cardinality(Scored(doc, q)) < max
                                       THEN Cardinality(Scored(doc, q)) ELSE max)}
      S(n) == Score(doc, Table(doc, n), q)
  IN  \A n \in kept, m \in Scored(doc, q) \ kept : S(m) <= S(n)

\* The first tables can be joined to their parents, if there is room: the
\* parents are there, or the context is full.
Joinable(doc, q, max, c) ==
  \A i \in {i \in 1..SeedLimit : i <= Cardinality(Scored(doc, q)) /\ i <= max} :
    \A fk \in ToSet(Table(doc, c.tables[i]).fks) :
      fk.to \in Names(doc) => fk.to \in ToSet(c.tables) \/ Len(c.tables) = max

\* Patterns have to do with the question or a table of the context, and none
\* is there twice.
JoinsApply(q, c) ==
  /\ \A p \in ToSet(c.joins) : p.words \cap q.words # {} \/ p.tables \cap ToSet(c.tables) # {}
                               \/ (p.join /\ "join" \in q.words)
  /\ \A i, j \in DOMAIN c.joins : c.joins[i].sql = c.joins[j].sql => i = j

ContextKeeps(doc, q, max, c) ==
  Fits(doc, max, c) /\ Relevant(doc, q, max, c) /\ Joinable(doc, q, max, c) /\ JoinsApply(q, c)
=============================================================================
