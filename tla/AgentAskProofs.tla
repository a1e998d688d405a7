--------------------------- MODULE AgentAskProofs ---------------------------
(***************************************************************************)
(* AgentAsk, for any finite set of tool calls and any number of documents. *)
(***************************************************************************)
EXTENDS AgentAsk, Integers, FiniteSetTheorems, TLAPS

(***************************************************************************)
(* Every variable keeps its shape.                                         *)
(***************************************************************************)
\* Every reachable state of a run of the agent has the shape TypeOK gives.
THEOREM TypeCorrect == Spec => []TypeOK
<1>1. Init => TypeOK
  <2> SUFFICES ASSUME Init PROVE TypeOK
    OBVIOUS
  <2>1. {rag, sql, execution} \subseteq ToolCalls \cup {None}
    BY DEF Init
  <2>2. hits \in [ToolCalls -> 0..MaxHits]
    BY HitsAssumption DEF Init
  <2> QED
    BY <2>1, <2>2 DEF Init, TypeOK
<1>2. TypeOK /\ [Next]_vars => TypeOK'
  <2> SUFFICES ASSUME TypeOK, [Next]_vars PROVE TypeOK'
    OBVIOUS
  <2> USE HitsAssumption DEF TypeOK, request, context, calls, history
  <2>1. CASE Start
    BY <2>1 DEF Start
  <2>2. ASSUME Failed, pc # "ended" PROVE TypeOK'
    BY <2>2 DEF Failed
  <2>3. ASSUME NEW S \in SUBSET Fresh, NEW kind \in [S -> {"search", "sql"}], Round(kind)
        PROVE  TypeOK'
    BY <2>3 DEF Round
  <2>4. ASSUME NEW t \in ToolCalls, NEW n \in 0..MaxHits, Search(t, n) PROVE TypeOK'
    BY <2>4 DEF Search
  <2>5. ASSUME NEW t \in ToolCalls, NEW b \in BOOLEAN, GenerateSQL(t, b) PROVE TypeOK'
    BY <2>5 DEF GenerateSQL, Executes, Remembers
  <2>6. ASSUME NEW t \in ToolCalls, RunQuery(t) PROVE TypeOK'
    BY <2>6 DEF RunQuery, Executes
  <2>7. ASSUME NEW cited \in SUBSET Shown, NEW stray \in SUBSET Strays, Speak(cited, stray) PROVE TypeOK'
    BY <2>7 DEF Speak, Shown, Delivered
  <2>8. ASSUME NEW declared, NEW brackets, Answer(declared, brackets) PROVE TypeOK'
    BY <2>8 DEF Answer, Shown, Delivered
  <2>9. CASE Disconnect
    BY <2>9 DEF Disconnect
  <2>10. CASE UNCHANGED vars
    BY <2>10 DEF vars
  <2> HIDE DEF TypeOK, request, context, calls, history
  <2> QED
    BY <2>1, <2>2, <2>3, <2>4, <2>5, <2>6, <2>7, <2>8, <2>9, <2>10
    DEF Next, Step, RunFails, AnswerFails
<1> QED
  BY <1>1, <1>2, PTL DEF Spec

(***************************************************************************)
(* The context of a run and the calls that write it.                       *)
(***************************************************************************)
AtWork(t) == tool[t] = "sql" /\ at[t] \in {"generating", "querying"}

\* What a call has done fits what it is: documents come from searches, SQL
\* from the other tool, and a result is the context, once the run is over.
CallsInv ==
  /\ \A t \in ToolCalls :
       /\ at[t] = "none" => hits[t] = 0
       /\ at[t] = "embedding" \/ hits[t] > 0 => tool[t] = "search"
       /\ at[t] \in {"generating", "querying"} => tool[t] = "sql"
       /\ at[t] = "querying" => suspends
  /\ rag # None => tool[rag] = "search" /\ at[rag] # "none"
  /\ execution # None => execution \in executed

\* Unless SQL calls ran together, only one is at work at a time, and it is the
\* one whose SQL the context holds when its query is sent.  The context holds
\* the SQL of its rows, or that of a query on its way.
SqlInv ==
  /\ ~together => \A t, u \in ToolCalls : AtWork(t) /\ AtWork(u) => t = u
  /\ ~together => \A t \in ToolCalls : at[t] = "querying" => sql = t
  /\ execution # None /\ ~wordless /\ ~(together /\ suspends) =>
       sql = execution \/ \E t \in ToolCalls : at[t] = "querying"

\* A run that answers has rows and no call under way; a result is of its context.
ResultInv ==
  /\ pc = "answering" => Pending = {} /\ execution # None
  /\ pc # "ended" => result = NoResult
  /\ result # NoResult =>
       /\ Pending = {}
       /\ result.sql = sql /\ result.execution = execution /\ result.rag = rag
       /\ result.sources = IF rag = None THEN 0 ELSE hits[rag]

\* The numbers of a delivered answer, and which documents their author meant.
CitedInv ==
  /\ result.sources > 0 =>
       /\ result.citations \subseteq 1..result.sources
       /\ \A n \in result.citations : \E t \in Searches : <<t, n>> \in meant
       /\ \A n \in 1..result.sources : <<result.rag, n>> \in meant => n \in result.citations
       /\ result.execution # None => \A n \in result.citations : <<result.rag, n>> \in meant
  /\ result.sources = 0 /\ result.execution = None => result.citations = {}

\* What a tool call has done fits what kind of call it is.
LEMMA CallsKept == Spec => []CallsInv
<1>1. Init => CallsInv
  BY DEF Init, CallsInv
<1>2. TypeOK /\ CallsInv /\ [Next]_vars => CallsInv'
  <2> SUFFICES ASSUME TypeOK, CallsInv, [Next]_vars PROVE CallsInv'
    OBVIOUS
  <2> USE HitsAssumption, ToolCallsAssumption DEF CallsInv, TypeOK, request, context, calls, history
  <2>1. CASE Start
    BY <2>1 DEF Start
  <2>2. ASSUME Failed, pc # "ended" PROVE CallsInv'
    BY <2>2 DEF Failed
  <2>3. ASSUME NEW S \in SUBSET Fresh, NEW kind \in [S -> {"search", "sql"}], Round(kind)
        PROVE  CallsInv'
    BY <2>3 DEF Round, Fresh
  <2>4. ASSUME NEW t \in ToolCalls, NEW n \in 0..MaxHits, Search(t, n) PROVE CallsInv'
    BY <2>4 DEF Search
  <2>5. ASSUME NEW t \in ToolCalls, NEW b \in BOOLEAN, GenerateSQL(t, b) PROVE CallsInv'
    BY <2>5 DEF GenerateSQL, Executes, Remembers
  <2>6. ASSUME NEW t \in ToolCalls, RunQuery(t) PROVE CallsInv'
    BY <2>6 DEF RunQuery, Executes
  <2>7. ASSUME NEW cited \in SUBSET Shown, NEW stray \in SUBSET Strays, Speak(cited, stray) PROVE CallsInv'
    BY <2>7 DEF Speak, Delivered
  <2>8. ASSUME NEW declared, NEW brackets, Answer(declared, brackets) PROVE CallsInv'
    BY <2>8 DEF Answer, Delivered
  <2>9. CASE Disconnect
    BY <2>9 DEF Disconnect
  <2>10. CASE UNCHANGED vars
    BY <2>10 DEF vars
  <2> HIDE DEF CallsInv, TypeOK, request, context, calls, history
  <2> QED
    BY <2>1, <2>2, <2>3, <2>4, <2>5, <2>6, <2>7, <2>8, <2>9, <2>10
    DEF Next, Step, RunFails, AnswerFails
<1> QED
  BY <1>1, <1>2, TypeCorrect, PTL DEF Spec

\* A round of which together stays false has one SQL call at most.
LEMMA OneOfRound ==
  ASSUME NEW S \in SUBSET ToolCalls, NEW kind \in [S -> {"search", "sql"}],
         ~(Cardinality({t \in DOMAIN kind : kind[t] = "sql"}) > 1),
         NEW t \in S, NEW u \in S, kind[t] = "sql", kind[u] = "sql"
  PROVE  t = u
<1> DEFINE Q == {v \in DOMAIN kind : kind[v] = "sql"}
<1>1. IsFiniteSet(Q) /\ Cardinality(Q) \in Nat
  BY ToolCallsAssumption, FS_Subset, FS_CardinalityType
<1>2. {t, u} \subseteq Q
  OBVIOUS
<1>3. SUFFICES ASSUME t # u PROVE FALSE
  OBVIOUS
<1>4. Cardinality({t, u}) = 2
  <2>1. Cardinality({t}) = 1 /\ IsFiniteSet({t})
    BY FS_Singleton
  <2>2. Cardinality({t} \cup {u}) = 2
    <3>1. u \notin {t}
      BY <1>3
    <3>2. Cardinality({t} \cup {u}) = Cardinality({t}) + 1
      BY <2>1, <3>1, FS_AddElement
    <3> QED
      BY <2>1, <3>2
  <2>3. {t} \cup {u} = {t, u}
    OBVIOUS
  <2> QED
    BY <2>2, <2>3
<1>5. Cardinality({t, u}) <= Cardinality(Q)
  BY <1>1, <1>2, FS_Subset
<1> QED
  BY <1>1, <1>4, <1>5

\* Unless they run together, SQL calls follow one another, and the context has
\* the SQL of its rows.
LEMMA SqlFollowed == Spec => []SqlInv
<1>1. Init => SqlInv
  BY DEF Init, SqlInv, AtWork
<1>2. TypeOK /\ CallsInv /\ SqlInv /\ [Next]_vars => SqlInv'
  <2> SUFFICES ASSUME TypeOK, CallsInv, SqlInv, [Next]_vars PROVE SqlInv'
    OBVIOUS
  <2> USE ToolCallsAssumption DEF SqlInv, AtWork, TypeOK, request, context, calls, history
  <2>1. CASE Start
    BY <2>1 DEF Start
  <2>2. ASSUME Failed, pc # "ended" PROVE SqlInv'
    BY <2>2 DEF Failed
  <2>3. ASSUME NEW S \in SUBSET Fresh, NEW kind \in [S -> {"search", "sql"}], Round(kind)
        PROVE  SqlInv'
    <3>1. \A t \in ToolCalls : ~AtWork(t) /\ at[t] # "querying"
      BY <2>3 DEF Round, Pending
    <3>2. \A t \in ToolCalls : at'[t] # "querying"
      BY <2>3, <3>1 DEF Round
    <3>3. \A t \in ToolCalls : AtWork(t)' => t \in S /\ kind[t] = "sql"
      BY <2>3, <3>1 DEF Round
    <3>4. ~together' => ~(Cardinality({t \in DOMAIN kind : kind[t] = "sql"}) > 1)
      BY <2>3 DEF Round
    <3>5. ~together' => \A t, u \in ToolCalls : AtWork(t)' /\ AtWork(u)' => t = u
      BY <3>3, <3>4, OneOfRound DEF Fresh
    <3>6. ~together' => ~together
      BY <2>3 DEF Round
    <3> QED
      BY <2>3, <3>1, <3>2, <3>5, <3>6 DEF Round
  <2>4. ASSUME NEW t \in ToolCalls, NEW n \in 0..MaxHits, Search(t, n) PROVE SqlInv'
    BY <2>4 DEF Search
  <2>5. ASSUME NEW t \in ToolCalls, NEW b \in BOOLEAN, GenerateSQL(t, b) PROVE SqlInv'
    <3>1. AtWork(t) /\ sql' = t /\ (~b => wordless')
      BY <2>5 DEF GenerateSQL, CallsInv, Remembers
    <3>2. \A u \in ToolCalls : AtWork(u)' => AtWork(u)
      BY <2>5 DEF GenerateSQL, CallsInv, Executes
    <3>3. ~together => \A u \in ToolCalls : at'[u] = "querying" => u = t
      BY <2>5, <3>1 DEF GenerateSQL, CallsInv, Executes
    <3>4. b => execution' = t \/ at'[t] = "querying"
      BY <2>5 DEF GenerateSQL, Executes
    <3> QED
      BY <2>5, <3>1, <3>2, <3>3, <3>4 DEF GenerateSQL
  <2>6. ASSUME NEW t \in ToolCalls, RunQuery(t) PROVE SqlInv'
    BY <2>6 DEF RunQuery, Executes, CallsInv
  <2>7. ASSUME NEW cited \in SUBSET Shown, NEW stray \in SUBSET Strays, Speak(cited, stray) PROVE SqlInv'
    BY <2>7 DEF Speak, Delivered
  <2>8. ASSUME NEW declared, NEW brackets, Answer(declared, brackets) PROVE SqlInv'
    BY <2>8 DEF Answer, Delivered
  <2>9. CASE Disconnect
    BY <2>9 DEF Disconnect
  <2>10. CASE UNCHANGED vars
    BY <2>10 DEF vars
  <2> HIDE DEF SqlInv, AtWork, TypeOK, request, context, calls, history
  <2> QED
    BY <2>1, <2>2, <2>3, <2>4, <2>5, <2>6, <2>7, <2>8, <2>9, <2>10
    DEF Next, Step, RunFails, AnswerFails
<1> QED
  BY <1>1, <1>2, TypeCorrect, CallsKept, PTL DEF Spec

\* A result is of the context as the run has left it, with no call under way.
LEMMA ResultOfContext == Spec => []ResultInv
<1>1. Init => ResultInv
  BY DEF Init, ResultInv
<1>2. TypeOK /\ ResultInv /\ [Next]_vars => ResultInv'
  <2> SUFFICES ASSUME TypeOK, ResultInv, [Next]_vars PROVE ResultInv'
    OBVIOUS
  <2> USE DEF ResultInv, Pending, TypeOK, request, context, calls, history
  <2>1. CASE Start
    BY <2>1 DEF Start
  <2>2. ASSUME Failed, pc # "ended" PROVE ResultInv'
    BY <2>2 DEF Failed
  <2>3. ASSUME NEW S \in SUBSET Fresh, NEW kind \in [S -> {"search", "sql"}], Round(kind)
        PROVE  ResultInv'
    BY <2>3 DEF Round
  <2>4. ASSUME NEW t \in ToolCalls, NEW n \in 0..MaxHits, Search(t, n) PROVE ResultInv'
    BY <2>4 DEF Search
  <2>5. ASSUME NEW t \in ToolCalls, NEW b \in BOOLEAN, GenerateSQL(t, b) PROVE ResultInv'
    BY <2>5 DEF GenerateSQL, Executes, Remembers
  <2>6. ASSUME NEW t \in ToolCalls, RunQuery(t) PROVE ResultInv'
    BY <2>6 DEF RunQuery, Executes
  <2>7. ASSUME NEW cited \in SUBSET Shown, NEW stray \in SUBSET Strays, Speak(cited, stray) PROVE ResultInv'
    BY <2>7 DEF Speak, Delivered
  <2>8. ASSUME NEW declared, NEW brackets, Answer(declared, brackets) PROVE ResultInv'
    BY <2>8 DEF Answer, Delivered
  <2>9. CASE Disconnect
    BY <2>9 DEF Disconnect
  <2>10. CASE UNCHANGED vars
    BY <2>10 DEF vars
  <2> HIDE DEF ResultInv, Pending, TypeOK, request, context, calls, history
  <2> QED
    BY <2>1, <2>2, <2>3, <2>4, <2>5, <2>6, <2>7, <2>8, <2>9, <2>10
    DEF Next, Step, RunFails, AnswerFails
<1> QED
  BY <1>1, <1>2, TypeCorrect, PTL DEF Spec

\* The rows of a result are those of the SQL it shows, and were run, unless a
\* call ended without SQL or SQL calls ran together over a shared cache.
THEOREM RowsAreOfTheirSQL == Spec => []RowsOfTheirSQL
<1>1. TypeOK /\ CallsInv /\ SqlInv /\ ResultInv => RowsOfTheirSQL
  <2> SUFFICES ASSUME TypeOK, CallsInv, SqlInv, ResultInv, result.execution # None,
                      ~wordless, ~(together /\ suspends)
               PROVE  result.sql = result.execution /\ result.execution \in executed
    BY DEF RowsOfTheirSQL
  <2>1. result # NoResult
    BY DEF NoResult
  <2>2. Pending = {} /\ result.sql = sql /\ result.execution = execution
    BY <2>1 DEF ResultInv
  <2>3. \A t \in ToolCalls : at[t] # "querying"
    BY <2>2 DEF Pending
  <2> QED
    BY <2>2, <2>3 DEF SqlInv, CallsInv
<1> QED
  BY <1>1, TypeCorrect, CallsKept, SqlFollowed, ResultOfContext, PTL

(***************************************************************************)
(* Citations.                                                              *)
(***************************************************************************)
\* What Delivered makes of the numbers of an answer.
LEMMA NumbersDelivered ==
  ASSUME TypeOK, NEW declared, NEW brackets, Delivered(declared, brackets)
  PROVE  /\ result'.rag = rag /\ result'.execution = execution
         /\ result'.sources > 0 =>
              /\ rag # None /\ result'.sources = hits[rag] /\ hits[rag] \in 0..MaxHits
              /\ result'.citations = InRange(declared \cup brackets, hits[rag])
         /\ result'.sources = 0 => result'.citations = declared
<1> DEFINE count == IF rag = None THEN 0 ELSE hits[rag]
<1>1. result' = [sql |-> sql, execution |-> execution, rag |-> rag, sources |-> count,
                citations |-> Enriched(declared, brackets, count)]
  BY DEF Delivered
<1>2. rag # None => hits[rag] \in 0..MaxHits
  BY DEF TypeOK
<1>3. result'.sources = count /\ result'.citations = Enriched(declared, brackets, count)
  BY <1>1
<1> QED
  BY <1>1, <1>2, <1>3, HitsAssumption DEF Enriched

\* A number in a delivered answer is of the documents it is looked up in, and its
\* author has seen it of them, or in its own words of another search.
LEMMA CitedKept == Spec => []CitedInv
<1>1. Init => CitedInv
  BY DEF Init, CitedInv, NoResult
<1>2. TypeOK /\ CallsInv /\ ResultInv /\ CitedInv /\ [Next]_vars => CitedInv'
  <2> SUFFICES ASSUME TypeOK, CallsInv, ResultInv, CitedInv, [Next]_vars PROVE CitedInv'
    OBVIOUS
  <2> USE DEF request, context, calls, history
  <2>0. ASSUME UNCHANGED <<result, meant, tool, hits>> PROVE CitedInv'
    BY <2>0 DEF CitedInv, Searches
  <2>1. CASE Start
    BY <2>0, <2>1 DEF Start
  <2>2. ASSUME Failed, pc # "ended" PROVE CitedInv'
    BY <2>0, <2>2 DEF Failed
  <2>a. ASSUME pc \in {"model", "answering"}, UNCHANGED result PROVE CitedInv'
    BY <2>a DEF CitedInv, ResultInv, NoResult
  <2>3. ASSUME NEW S \in SUBSET Fresh, NEW kind \in [S -> {"search", "sql"}], Round(kind)
        PROVE  CitedInv'
    BY <2>a, <2>3 DEF Round
  <2>4. ASSUME NEW t \in ToolCalls, NEW n \in 0..MaxHits, Search(t, n) PROVE CitedInv'
    BY <2>a, <2>4 DEF Search
  <2>5. ASSUME NEW t \in ToolCalls, NEW b \in BOOLEAN, GenerateSQL(t, b) PROVE CitedInv'
    BY <2>a, <2>5 DEF GenerateSQL
  <2>6. ASSUME NEW t \in ToolCalls, RunQuery(t) PROVE CitedInv'
    BY <2>a, <2>6 DEF RunQuery
  <2>7. ASSUME NEW cited \in SUBSET Shown, NEW stray \in SUBSET Strays, Speak(cited, stray) PROVE CitedInv'
    <3>1. CASE execution # None
      BY <2>a, <2>7, <3>1 DEF Speak
    <3>2. CASE execution = None
      <4> DEFINE written == {c[2] : c \in cited} \cup stray
      <4>1. Delivered({}, written) /\ meant' = cited
        BY <2>7, <3>2 DEF Speak
      <4>2. tool' = tool /\ hits' = hits
        BY <4>1 DEF Delivered
      <4>3. /\ result'.rag = rag /\ result'.execution = None
            /\ result'.sources > 0 =>
                 /\ rag # None /\ result'.sources = hits[rag] /\ hits[rag] \in 0..MaxHits
                 /\ result'.citations = InRange({} \cup written, hits[rag])
            /\ result'.sources = 0 => result'.citations = {}
        <5> HIDE DEF written
        <5> QED
          BY <3>2, <4>1, NumbersDelivered
      <4>4. ASSUME NEW c \in cited
            PROVE  c = <<c[1], c[2]>> /\ c[1] \in Searches /\ c[2] \in 1..MaxHits
        <5>1. c = <<c[1], c[2]>> /\ c[1] \in ToolCalls /\ c[2] \in 1..MaxHits /\ c[2] <= hits[c[1]]
          BY DEF Shown
        <5>2. tool[c[1]] = "search"
          BY <5>1 DEF CallsInv, TypeOK
        <5> QED
          BY <5>1, <5>2 DEF Searches
      <4> SUFFICES ASSUME result'.sources > 0
                   PROVE  /\ result'.citations \subseteq 1..result'.sources
                          /\ \A n \in result'.citations : \E t \in Searches' : <<t, n>> \in meant'
                          /\ \A n \in 1..result'.sources :
                               <<result'.rag, n>> \in meant' => n \in result'.citations
        BY <4>3 DEF CitedInv
      <4>5. ASSUME NEW n \in result'.citations
            PROVE  n \in 1..hits[rag] /\ \E t \in Searches : <<t, n>> \in cited
        <5>1. n \in written /\ 1 <= n /\ n <= hits[rag] /\ rag \in ToolCalls
          BY <4>3 DEF InRange, TypeOK
        <5>2. n \in Int
          BY <4>4, <5>1, HitsAssumption DEF Strays, Numbers
        <5>3. n \notin stray
          <6>1. <<rag, n>> \in Shown
            BY <4>3, <5>1, <5>2, HitsAssumption DEF Shown
          <6> QED
            BY <6>1 DEF Strays
        <5>4. PICK c \in cited : c[2] = n
          BY <5>1, <5>3
        <5> QED
          BY <4>3, <4>4, <5>1, <5>2, <5>4
      <4>6. ASSUME NEW n \in 1..hits[rag], <<rag, n>> \in cited PROVE n \in result'.citations
        <5>1. n \in written
          BY <4>6
        <5> QED
          BY <4>3, <5>1 DEF InRange
      <4>7. Searches' = Searches
        BY <4>2 DEF Searches
      <4>8. result'.rag = rag /\ result'.sources = hits[rag]
        BY <4>3
      <4> HIDE DEF written
      <4> QED
        BY <4>1, <4>5, <4>6, <4>7, <4>8
    <3> QED
      BY <3>1, <3>2
  <2>8. ASSUME NEW declared \in SUBSET Numbers, NEW brackets \in SUBSET Numbers,
               Answer(declared, brackets)
        PROVE  CitedInv'
    <3>1. /\ result'.rag = rag /\ result'.execution = execution
          /\ result'.sources > 0 =>
               /\ rag # None /\ result'.sources = hits[rag] /\ hits[rag] \in 0..MaxHits
               /\ result'.citations = InRange(declared \cup brackets, hits[rag])
          /\ result'.sources = 0 => result'.citations = declared
      BY <2>8, NumbersDelivered DEF Answer
    <3>2. /\ meant' = {c \in Shown : c[1] = rag /\ c[2] \in declared \cup brackets}
          /\ tool' = tool /\ execution # None
      BY <2>8 DEF Answer, Delivered, ResultInv
    <3> SUFFICES ASSUME result'.sources > 0
                 PROVE  /\ result'.citations \subseteq 1..result'.sources
                        /\ \A n \in result'.citations : \E t \in Searches' : <<t, n>> \in meant'
                        /\ \A n \in 1..result'.sources :
                             <<result'.rag, n>> \in meant' => n \in result'.citations
                        /\ \A n \in result'.citations : <<result'.rag, n>> \in meant'
      BY <3>1, <3>2 DEF CitedInv
    <3>3. ASSUME NEW n \in result'.citations
          PROVE  n \in 1..hits[rag] /\ <<rag, n>> \in meant'
      <4>1. n \in declared \cup brackets /\ 1 <= n /\ n <= hits[rag] /\ rag \in ToolCalls
        BY <3>1 DEF InRange, TypeOK
      <4>2. n \in 1..hits[rag]
        BY <3>1, <4>1, HitsAssumption DEF Numbers
      <4>3. <<rag, n>> \in Shown
        BY <3>1, <4>1, <4>2, HitsAssumption DEF Shown
      <4> QED
        BY <3>2, <4>1, <4>2, <4>3
    <3>4. ASSUME NEW n \in 1..hits[rag], <<rag, n>> \in meant' PROVE n \in result'.citations
      <4>1. n \in declared \cup brackets
        BY <3>2, <3>4
      <4> QED
        BY <3>1, <4>1 DEF InRange
    <3>5. rag \in Searches'
      BY <3>1, <3>2 DEF Searches, CallsInv, TypeOK
    <3> QED
      BY <3>1, <3>3, <3>4, <3>5
  <2>9. CASE Disconnect
    BY <2>0, <2>9 DEF Disconnect
  <2>10. CASE UNCHANGED vars
    BY <2>0, <2>10 DEF vars
  <2> HIDE DEF request, context, calls, history
  <2> QED
    BY <2>1, <2>2, <2>3, <2>4, <2>5, <2>6, <2>7, <2>8, <2>9, <2>10
    DEF Next, Step, RunFails, AnswerFails
<1> QED
  BY <1>1, <1>2, TypeCorrect, CallsKept, ResultOfContext, PTL DEF Spec

\* The citations of an answer delivered with sources are what its author cited,
\* each of a document it was shown, and of the very one unless the model answers
\* itself after several searches; one in its own words without sources has none.
THEOREM CitationsAreMeant == Spec => []CitationsMeant
<1>1. TypeOK /\ CallsInv /\ ResultInv /\ CitedInv => CitationsMeant
  <2> SUFFICES ASSUME TypeOK, CallsInv, ResultInv, CitedInv, result.sources > 0,
                      Cardinality(Searches) = 1,
                      NEW n \in result.citations
               PROVE  <<result.rag, n>> \in meant
    BY DEF CitationsMeant, CitedInv
  <2>1. rag # None /\ result.rag = rag
    BY DEF ResultInv, NoResult
  <2>2. rag \in Searches
    BY <2>1 DEF CallsInv, TypeOK, Searches
  <2>3. Searches = {rag}
    <3>1. IsFiniteSet(Searches)
      BY ToolCallsAssumption, FS_Subset DEF Searches
    <3>2. PICK x : Searches = {x}
      BY <3>1, FS_Singleton
    <3> QED
      BY <2>2, <3>2
  <2> QED
    BY <2>1, <2>3 DEF CitedInv
<1> QED
  BY <1>1, TypeCorrect, CallsKept, ResultOfContext, CitedKept, PTL

(***************************************************************************)
(* AgentAsk implements AskContract.                                        *)
(***************************************************************************)
\* What a caller has seen of an ask that has not ended.
Opening == IF stream THEN {"routing"} ELSE {}

ShownInv ==
  /\ pc = "start" => events = {} /\ audit = {}
  /\ pc \in {"model", "answering"} => events = Opening /\ audit = {}

\* Before its end an ask has shown its one phase, if it is streamed, and has
\* left no record.
LEMMA ShownKept == Spec => []ShownInv
<1>1. Init => ShownInv
  BY DEF Init, ShownInv
<1>2. TypeOK /\ ShownInv /\ [Next]_vars => ShownInv'
  <2> SUFFICES ASSUME TypeOK, ShownInv, [Next]_vars PROVE ShownInv'
    OBVIOUS
  <2> USE DEF ShownInv, Opening, TypeOK, request, context, calls, history
  <2>1. CASE Start
    BY <2>1 DEF Start
  <2>2. ASSUME Failed PROVE ShownInv'
    BY <2>2 DEF Failed
  <2>3. ASSUME NEW S \in SUBSET Fresh, NEW kind \in [S -> {"search", "sql"}], Round(kind)
        PROVE  ShownInv'
    BY <2>3 DEF Round
  <2>4. ASSUME NEW t \in ToolCalls, NEW n \in 0..MaxHits, Search(t, n) PROVE ShownInv'
    BY <2>4 DEF Search
  <2>5. ASSUME NEW t \in ToolCalls, NEW b \in BOOLEAN, GenerateSQL(t, b) PROVE ShownInv'
    <3>1. UNCHANGED <<stream, pc, events, audit>>
      BY <2>5 DEF GenerateSQL
    <3> QED
      BY <3>1
  <2>6. ASSUME NEW t \in ToolCalls, RunQuery(t) PROVE ShownInv'
    BY <2>6 DEF RunQuery
  <2>7. ASSUME NEW cited \in SUBSET Shown, NEW stray \in SUBSET Strays, Speak(cited, stray) PROVE ShownInv'
    <3>1. CASE execution = None
      <4>1. Delivered({}, {c[2] : c \in cited} \cup stray)
        BY <2>7, <3>1 DEF Speak
      <4>2. pc' = "ended"
        BY <4>1 DEF Delivered
      <4> QED
        BY <4>2
    <3>2. CASE execution # None
      <4>1. pc = "model" /\ pc' = "answering" /\ UNCHANGED <<stream, events, audit>>
        BY <2>7, <3>2 DEF Speak
      <4> QED
        BY <4>1
    <3> QED
      BY <3>1, <3>2
  <2>8. ASSUME NEW declared, NEW brackets, Answer(declared, brackets) PROVE ShownInv'
    BY <2>8 DEF Answer, Delivered
  <2>9. CASE Disconnect
    BY <2>9 DEF Disconnect
  <2>10. CASE UNCHANGED vars
    BY <2>10 DEF vars
  <2> HIDE DEF ShownInv, Opening, TypeOK, request, context, calls, history
  <2> QED
    BY <2>1, <2>2, <2>3, <2>4, <2>5, <2>6, <2>7, <2>8, <2>9, <2>10
    DEF Next, Step, RunFails, AnswerFails
<1> QED
  BY <1>1, <1>2, TypeCorrect, PTL DEF Spec

\* The state of the contract as the ask gives it.
LastShown == IF "routing" \in events THEN Routing ELSE Silent
stages == [r \in {"ask"} |-> StageOf]
phases == [r \in {"ask"} |-> LastShown]
spoken == [r \in {"ask"} |-> FALSE]

Allowed == Contract!ContractNext \/ UNCHANGED Contract!contractVars

LEMMA ContractOfAsk ==
  /\ Contract!Admit("ask") => Allowed
  /\ Contract!Succeed("ask") => Allowed
  /\ Contract!Fail("ask") => Allowed
  /\ Contract!Abandon("ask") => Allowed
BY DEF Allowed, Contract!ContractNext

\* A step that leaves the ask where it is and shows nothing.
LEMMA SilentStep ==
  ASSUME StageOf' = StageOf, events' = events
  PROVE  Allowed
BY DEF Allowed, Contract!contractVars

\* An ask that has arrived and not ended.
LEMMA OpenAsk ==
  ASSUME ShownInv, pc \in {"model", "answering"}
  PROVE  /\ StageOf = IF stream THEN "streaming" ELSE "computing"
         /\ stream => LastShown = Routing
BY DEF StageOf, ShownInv, Opening, LastShown

\* A failure is the failure of the contract, of either kind of call.
LEMMA FailedRefines ==
  ASSUME TypeOK, ShownInv, pc \in {"model", "answering"}, Failed
  PROVE  Allowed
<1>1. StageOf' = "failed"
  BY DEF Failed, StageOf, Refused, Succeeded, ShownInv, Opening, request
<1>2. LastShown' = LastShown
  BY DEF Failed, LastShown
<1>3. stages["ask"] \in {"computing", "streaming"}
  BY OpenAsk DEF stages
<1>4. stages' = [stages EXCEPT !["ask"] = "failed"] /\ phases' = phases
  BY <1>1, <1>2 DEF stages, phases
<1>5. Contract!Fail("ask")
  BY <1>3, <1>4 DEF Contract!Fail, stages, phases, LastShown
<1> QED
  BY <1>5, ContractOfAsk

\* A result is the success of the contract: a stream has shown its phase.
LEMMA DeliveredRefines ==
  ASSUME TypeOK, ShownInv, pc \in {"model", "answering"},
         NEW declared, NEW brackets, Delivered(declared, brackets)
  PROVE  Allowed
<1>1. StageOf' = "done"
  BY DEF Delivered, StageOf, Refused, Succeeded, ShownInv, Opening, request
<1>2. LastShown' = LastShown
  BY DEF Delivered, LastShown
<1>3. /\ stages["ask"] = IF stream THEN "streaming" ELSE "computing"
      /\ stream => phases["ask"] = Routing
  BY OpenAsk DEF stages, phases
<1>4. stages' = [stages EXCEPT !["ask"] = "done"] /\ phases' = phases
  BY <1>1, <1>2 DEF stages, phases
<1>5. Contract!Succeed("ask")
  BY <1>3, <1>4 DEF Contract!Succeed, stages, phases, LastShown
<1> QED
  BY <1>5, ContractOfAsk

\* Every step of the agent is a step of the contract or none.
LEMMA StepAllowed ==
  ASSUME TypeOK, ShownInv, [Next]_vars
  PROVE  Allowed
<1> USE DEF request, context, calls, history
<1>1. CASE Start
  <2>1. StageOf = "new" /\ LastShown = Silent
    BY <1>1 DEF Start, StageOf, ShownInv, LastShown
  <2>2. /\ StageOf' = IF stream THEN "streaming" ELSE "computing"
        /\ LastShown' = IF stream THEN Routing ELSE LastShown
    BY <1>1, <2>1 DEF Start, StageOf, ShownInv, LastShown
  <2>3. stages["ask"] = "new"
    BY <2>1 DEF stages
  <2>4. /\ stages' = [stages EXCEPT !["ask"] = IF stream THEN "streaming" ELSE "computing"]
        /\ phases' = IF stream THEN [phases EXCEPT !["ask"] = Routing] ELSE phases
    BY <2>2 DEF stages, phases
  <2>5. Contract!Routing = Routing
    BY DEF Contract!Routing, Routing
  <2>6. Contract!Admit("ask")
    BY <2>3, <2>4, <2>5 DEF Contract!Admit, stages, phases, LastShown
  <2> QED
    BY <2>6, ContractOfAsk
<1>2. CASE RunFails
  BY <1>2, FailedRefines DEF RunFails
<1>3. CASE AnswerFails
  BY <1>3, FailedRefines DEF AnswerFails
<1>4. ASSUME pc = "model", pc' \in {"model", "answering"}, UNCHANGED <<stream, events>>
      PROVE  Allowed
  <2>1. StageOf' = StageOf
    BY <1>4 DEF StageOf
  <2> QED
    BY <1>4, <2>1, SilentStep
<1>5. ASSUME NEW S \in SUBSET Fresh, NEW kind \in [S -> {"search", "sql"}], Round(kind)
      PROVE  Allowed
  BY <1>4, <1>5 DEF Round
<1>6. ASSUME NEW t \in ToolCalls, NEW n \in 0..MaxHits, Search(t, n) PROVE Allowed
  BY <1>4, <1>6 DEF Search
<1>7. ASSUME NEW t \in ToolCalls, NEW b \in BOOLEAN, GenerateSQL(t, b) PROVE Allowed
  BY <1>4, <1>7 DEF GenerateSQL
<1>8. ASSUME NEW t \in ToolCalls, RunQuery(t) PROVE Allowed
  BY <1>4, <1>8 DEF RunQuery
<1>9. ASSUME NEW cited \in SUBSET Shown, NEW stray \in SUBSET Strays, Speak(cited, stray) PROVE Allowed
  <2>1. CASE execution = None
    BY <1>9, <2>1, DeliveredRefines DEF Speak
  <2>2. CASE execution # None
    BY <1>4, <1>9, <2>2 DEF Speak
  <2> QED
    BY <2>1, <2>2
<1>10. ASSUME NEW declared, NEW brackets, Answer(declared, brackets) PROVE Allowed
  BY <1>10, DeliveredRefines DEF Answer
<1>11. CASE Disconnect
  <2>1. stages["ask"] = "streaming"
    BY <1>11, OpenAsk DEF Disconnect, stages
  <2>2. stages' = [stages EXCEPT !["ask"] = "abandoned"] /\ phases' = phases
    BY <1>11 DEF Disconnect, stages, phases, StageOf, LastShown
  <2>3. Contract!Abandon("ask")
    BY <2>1, <2>2 DEF Contract!Abandon, stages, phases, LastShown
  <2> QED
    BY <2>3, ContractOfAsk
<1>12. CASE UNCHANGED vars
  <2>1. StageOf' = StageOf /\ events' = events
    BY <1>12 DEF vars, StageOf, Succeeded, Refused
  <2> QED
    BY <2>1, SilentStep
<1> QED
  BY <1>1, <1>2, <1>3, <1>5, <1>6, <1>7, <1>8, <1>9, <1>10, <1>11, <1>12 DEF Next, Step

\* The agent keeps the contract of an ask pipeline: its plain calls show nothing
\* and return or raise, its streams announce their phase and end with a result
\* or an error, unless the client has left.
THEOREM AgentImplementsContract == Spec => KeepsContract
<1>1. Init => Contract!ContractInit
  BY DEF Init, Contract!ContractInit, StageOf, Contract!Silent, Silent
<1>2. TypeOK /\ ShownInv /\ [Next]_vars => [Contract!ContractNext]_Contract!contractVars
  BY StepAllowed DEF Allowed
<1> QED
  BY <1>1, <1>2, TypeCorrect, ShownKept, PTL DEF Spec, KeepsContract, Contract!ContractSpec
=============================================================================
