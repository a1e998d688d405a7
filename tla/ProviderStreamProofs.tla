------------------------ MODULE ProviderStreamProofs ------------------------
(***************************************************************************)
(* Completions, for any number of calls, of retries, of threads in the     *)
(* pool, and any events of a stream.                                       *)
(***************************************************************************)
EXTENDS ProviderStream, Integers, SequenceTheorems, WellFoundedInduction, TLAPS

-----------------------------------------------------------------------------
(***************************************************************************)
(* The invariants, call by call.                                           *)
(***************************************************************************)
\* Where a call stands, what it waits for, and whether an exchange is open.
Stands(c) ==
  /\ streamed[c] => mode[c]
  /\ ~Blocking => /\ active[c] <=> pc[c] = "reading"
                  /\ pc[c] # "waiting" /\ job[c] = "none" /\ last[c] = Nothing
  /\ Blocking => pc[c] # "reading"
  /\ pc[c] = "idle" => ~active[c] /\ job[c] = "none"
  /\ outcome[c] = "open" <=> pc[c] # "closed"
  /\ outcome[c] \notin {"open", "abandoned"} => ~active[c] /\ job[c] = "none"
  /\ streamed[c] =>
       /\ job[c] # "complete"
       /\ job[c] = "join" => ~active[c]
       /\ pc[c] = "waiting" => job[c] \in {"get", "join"}
  /\ ~streamed[c] => job[c] \in {"none", "complete"}

\* A chunk is a text, or it tells reason and usage; a worker's exchange has
\* one of these at most, at its end.  Texts are of the latest exchange.
Yields(c) ==
  \A i \in DOMAIN yielded[c] :
    LET y == yielded[c][i]
    IN  /\ y.text # None => y.finish = None /\ y.usage = None
        /\ OfExchange(y.text, exchange[c])
        /\ Blocking /\ (active[c] \/ i < Len(yielded[c])) => y.text # None

\* What the worker has to put for an exchange it has read: chunks, then the end.
Sent(y, i) == IF i <= Len(y) THEN y[i] ELSE End

OnTheWay(y, got, q, rest) ==
  /\ Len(got) + Len(q) + Len(rest) = Len(y) + 1
  /\ \A i \in DOMAIN q : q[i] = Sent(y, Len(got) + i)
  /\ \A i \in DOMAIN rest : rest[i] = Sent(y, Len(got) + Len(q) + i)

Delivering(c) == OnTheWay(yielded[c], chunks[c], queue[c], unsent[c])

Failing(c) ==
  /\ chunks[c] = <<>>
  /\ \E k \in {"retryable", "fatal"} : queue[c] \o unsent[c] = LastWords(k)

\* What the caller has is the beginning of what the exchange has yielded.
IsStart(got, y) == Len(got) <= Len(y) /\ \A i \in DOMAIN got : got[i] = y[i]

Begins(c) == IsStart(chunks[c], yielded[c])

\* From the vendor to the caller.  Through a worker nothing comes before the
\* exchange has been read; then it is on its way as a whole.
Flows(c) ==
  /\ Begins(c)
  /\ ~streamed[c] \/ pc[c] = "idle" => chunks[c] = <<>>
  /\ streamed[c] /\ ~Blocking => chunks[c] = yielded[c]
  /\ streamed[c] /\ Blocking =>
       /\ active[c] \/ pc[c] = "idle" => chunks[c] = <<>> /\ queue[c] = <<>> /\ unsent[c] = <<>>
       /\ pc[c] = "waiting" /\ ~active[c] /\ job[c] = "get" => Delivering(c) \/ Failing(c)
       /\ pc[c] = "waiting" /\ job[c] = "join" => chunks[c] = yielded[c]
       /\ outcome[c] \in {"unavailable", "error"} => chunks[c] = <<>>
       /\ outcome[c] = "done" => chunks[c] = yielded[c]

\* The response is the text of the exchange.
Responds(c) == outcome[c] = "done" /\ mode[c] => answer[c].texts = TextsOf(yielded[c])

-----------------------------------------------------------------------------
(***************************************************************************)
(* Every variable keeps its shape.                                         *)
(***************************************************************************)
LEMMA ValuesOK ==
  /\ None \in Places /\ Nothing \in Metadatas /\ NoResponse \in Responses
  /\ \A t, f, u \in Places : Chunk(t, f, u) \in Chunks
  /\ End \in Items /\ \A k \in {"retryable", "fatal"} : Error(k) \in Items
  /\ Chunks \subseteq Items
BY DEF None, Places, Nothing, Metadatas, NoResponse, Response, Responses, Chunk, Chunks, Items

LEMMA PlaceOK ==
  ASSUME TypeOK, NEW c \in Calls
  PROVE  /\ exchange[c] \in Nat /\ heard[c] \in Nat
         /\ <<exchange[c], heard[c] + 1>> \in Places /\ <<exchange[c], 1>> \in Places
BY DEF TypeOK, Places

LEMMA MadeOK ==
  ASSUME NEW at \in Places, NEW e \in Events, NEW k \in Metadatas
  PROVE  /\ Delta(at, e) \in Seq(Chunks) /\ Terminal(k) \in Seq(Chunks)
         /\ Learned(k, at, e) \in Metadatas
<1>1. Chunk(at, None, None) \in Chunks /\ Chunk(None, k.finish, k.usage) \in Chunks
  BY ValuesOK DEF Metadatas
<1> QED
  BY <1>1, ValuesOK DEF Delta, Terminal, Learned, Metadatas

LEMMA TextsOK ==
  ASSUME NEW cs \in Seq(Chunks)
  PROVE  TextsOf(cs) \in Seq(Places)
<1>1. DOMAIN cs = 1 .. Len(cs) /\ Len(cs) \in Nat /\ \A i \in 1 .. Len(cs) : cs[i] \in Chunks
  BY LenProperties
<1>2. TextsOf(cs) \in [1 .. Len(cs) -> Places]
  BY <1>1 DEF TextsOf, Chunks
<1> QED
  BY <1>1, <1>2, SeqDef

\* A set of places in a list has a first and a last element.
LEMMA FirstAndLast ==
  ASSUME NEW n \in Nat, NEW S \in SUBSET (1 .. n), S # {}
  PROVE  /\ \E i \in S : \A j \in S : i <= j
         /\ \E i \in S : \A j \in S : j <= i
<1>1. ASSUME NEW T \in SUBSET Nat, T # {} PROVE \E i \in T : \A j \in T : i <= j
  <2>1. \E i \in T : \A j \in T : ~(<<j, i>> \in OpToRel(<, Nat))
    BY <1>1, NatLessThanWellFounded, WFMin
  <2>2. PICK i \in T : \A j \in T : ~(j < i)
    BY <2>1 DEF OpToRel
  <2> QED
    BY <2>2
<1>2. \E i \in S : \A j \in S : i <= j
  BY <1>1
<1> DEFINE T == {n - i : i \in S}
<1>3. T \in SUBSET Nat
  OBVIOUS
<1>3a. T # {}
  <2>1. PICK i \in S : TRUE
    OBVIOUS
  <2>2. n - i \in T
    OBVIOUS
  <2> QED
    BY <2>2
<1>4. PICK k \in T : \A j \in T : k <= j
  <2> HIDE DEF T
  <2> QED
    BY <1>1, <1>3, <1>3a
<1>5. PICK i \in S : k = n - i
  BY <1>4
<1>6. ASSUME NEW j \in S PROVE j <= i
  <2>1. n - j \in T
    OBVIOUS
  <2>2. n - i <= n - j
    BY <1>4, <1>5, <2>1
  <2> QED
    BY <2>2
<1> QED
  BY <1>2, <1>6

\* What the two functions find in a list of chunks.
LEMMA MetadataOK ==
  ASSUME NEW cs \in Seq(Chunks)
  PROVE  Metadata(cs) \in Metadatas /\ AuditedMetadata(cs) \in Metadatas
<1> DEFINE reasons == {i \in DOMAIN cs : cs[i].finish # None}
           used == {i \in DOMAIN cs : cs[i].usage # None}
           stops == {i \in used : \E j \in reasons : i <= j}
           After(S) == {i \in S : \A p \in stops : p <= i}
           Earliest(S) == CHOOSE i \in S : (\A p \in stops : p <= i)
                                          /\ \A j \in S : (\A p \in stops : p <= j) => i <= j
           latest == IF used = {} THEN 0 ELSE CHOOSE i \in used : \A j \in used : j <= i
           ended == {i \in DOMAIN cs : i >= latest /\ cs[i].finish # None}
<1>0. /\ DOMAIN cs = 1 .. Len(cs) /\ Len(cs) \in Nat
      /\ \A i \in 1 .. Len(cs) : cs[i] \in Chunks
  BY LenProperties
<1>1. /\ DOMAIN cs = 1 .. Len(cs) /\ Len(cs) \in Nat
      /\ \A i \in 1 .. Len(cs) : cs[i].finish \in Places /\ cs[i].usage \in Places
  BY <1>0 DEF Chunks
<1>2. reasons \in SUBSET (1 .. Len(cs)) /\ used \in SUBSET (1 .. Len(cs)) /\ stops \in SUBSET (1 .. Len(cs))
  BY <1>1
<1>3. ASSUME NEW S \in {reasons, used}, S # {} PROVE After(S) # {}
  <2>1. CASE stops = {}
    BY <2>1, <1>3
  <2>2. CASE stops # {}
    <3>1. PICK m \in stops : \A p \in stops : p <= m
      BY <2>2, <1>1, <1>2, FirstAndLast
    <3>2. PICK j \in reasons : m <= j
      OBVIOUS
    <3>3. \A p \in stops : p <= j
      BY <1>1, <1>2, <3>1, <3>2
    <3> QED
      BY <3>1, <3>2, <3>3
  <2> QED
    BY <2>1, <2>2
<1>4. ASSUME NEW S \in {reasons, used}, S # {} PROVE Earliest(S) \in 1 .. Len(cs)
  <2>1. After(S) \in SUBSET (1 .. Len(cs)) /\ After(S) # {}
    BY <1>2, <1>3, <1>4
  <2>2. \E i \in After(S) : \A j \in After(S) : i <= j
    BY <1>1, <2>1, FirstAndLast
  <2>3. Earliest(S) \in S
    BY <2>2
  <2> QED
    BY <1>2, <2>3
<1>5. Metadata(cs) \in Metadatas
  <2>1. reasons # {} => cs[Earliest(reasons)].finish \in Places
    BY <1>1, <1>4
  <2>2. used # {} => cs[Earliest(used)].usage \in Places
    BY <1>1, <1>4
  <2> HIDE DEF Earliest
  <2>3. Metadata(cs) = [finish |-> IF reasons = {} THEN None ELSE cs[Earliest(reasons)].finish,
                        usage |-> IF used = {} THEN None ELSE cs[Earliest(used)].usage]
    BY DEF Metadata, Earliest
  <2> HIDE DEF reasons, used
  <2> QED
    BY <2>1, <2>2, <2>3, ValuesOK DEF Metadatas
<1>6. AuditedMetadata(cs) \in Metadatas
  <2>1. used # {} => latest \in 1 .. Len(cs)
    BY <1>1, <1>2, FirstAndLast
  <2>2. ended \in SUBSET (1 .. Len(cs))
    BY <1>1
  <2> DEFINE end == CHOOSE i \in ended : \A j \in ended : j <= i
  <2>3. ended # {} => end \in 1 .. Len(cs)
    <3> HIDE DEF ended
    <3> QED
      BY <1>1, <2>2, FirstAndLast
  <2>4. used = {} <=> latest = 0
    <3>1. CASE used = {}
      BY <3>1
    <3>2. CASE used # {}
      <4> HIDE DEF latest, used
      <4> QED
        BY <1>1, <2>1, <3>2
    <3> QED
      BY <3>1, <3>2
  <2>5. AuditedMetadata(cs) = [finish |-> IF ended = {} THEN None ELSE cs[end].finish,
                               usage |-> IF latest = 0 THEN None ELSE cs[latest].usage]
    BY DEF AuditedMetadata
  <2> HIDE DEF ended, end, latest, used
  <2> QED
    BY <1>1, <2>1, <2>3, <2>4, <2>5, ValuesOK DEF Metadatas
<1> QED
  BY <1>5, <1>6

\* With one chunk at most that tells reason or usage, the two find the same.
LEMMA GatheredAgree ==
  ASSUME NEW cs \in Seq(Chunks),
         \A i \in DOMAIN cs : cs[i].text # None => cs[i].finish = None /\ cs[i].usage = None,
         ~ \E i, j \in DOMAIN cs : i < j /\ cs[i].text = None /\ cs[j].text = None
  PROVE  Metadata(cs) = AuditedMetadata(cs)
<1> DEFINE reasons == {i \in DOMAIN cs : cs[i].finish # None}
           used == {i \in DOMAIN cs : cs[i].usage # None}
           stops == {i \in used : \E j \in reasons : i <= j}
           Earliest(S) == CHOOSE i \in S : (\A p \in stops : p <= i)
                                          /\ \A j \in S : (\A p \in stops : p <= j) => i <= j
           latest == IF used = {} THEN 0 ELSE CHOOSE i \in used : \A j \in used : j <= i
           ended == {i \in DOMAIN cs : i >= latest /\ cs[i].finish # None}
           end == CHOOSE i \in ended : \A j \in ended : j <= i
<1>1. DOMAIN cs = 1 .. Len(cs) /\ Len(cs) \in Nat
  BY LenProperties
<1>2. \A i, j \in reasons \cup used : i = j
  <2> SUFFICES ASSUME NEW i \in reasons \cup used, NEW j \in reasons \cup used, i < j PROVE FALSE
    BY <1>1
  <2> QED
    OBVIOUS
<1>3. reasons \subseteq 1 .. Len(cs) /\ used \subseteq 1 .. Len(cs)
  BY <1>1
<1>4. Metadata(cs) = [finish |-> IF reasons = {} THEN None ELSE cs[Earliest(reasons)].finish,
                      usage |-> IF used = {} THEN None ELSE cs[Earliest(used)].usage]
  BY DEF Metadata
<1>5. AuditedMetadata(cs) = [finish |-> IF ended = {} THEN None ELSE cs[end].finish,
                             usage |-> IF latest = 0 THEN None ELSE cs[latest].usage]
  BY DEF AuditedMetadata
<1>6. ASSUME NEW k \in reasons PROVE Earliest(reasons) = k
  <2>1. reasons = {k} /\ stops \subseteq {k} /\ k \in Nat
    BY <1>2, <1>3
  <2> HIDE DEF reasons, stops
  <2> QED
    BY <2>1
<1>7. ASSUME NEW k \in used PROVE Earliest(used) = k /\ latest = k
  <2>1. used = {k} /\ stops \subseteq {k} /\ k \in Nat
    BY <1>2, <1>3
  <2> HIDE DEF used, stops
  <2> QED
    BY <2>1
<1>8. ended = reasons
  <2>1. ASSUME NEW i \in reasons PROVE i >= latest
    <3>1. CASE used = {}
      BY <1>3, <3>1
    <3>2. ASSUME NEW k \in used PROVE i >= latest
      BY <1>2, <1>3, <1>7, <3>2
    <3> QED
      BY <3>1, <3>2
  <2>2. \A i : i \in ended <=> i \in reasons
    <3> HIDE DEF latest
    <3> QED
      BY <2>1
  <2> HIDE DEF ended, reasons
  <2> QED
    BY <2>2
<1>9. ASSUME NEW k \in reasons PROVE end = k
  <2>1. ended = {k} /\ k \in Nat
    BY <1>2, <1>3, <1>8
  <2> HIDE DEF ended
  <2> QED
    BY <2>1
<1>10. used = {} <=> latest = 0
  <2>1. CASE used = {}
    BY <2>1
  <2>2. ASSUME NEW k \in used PROVE latest # 0
    <3>1. latest = k /\ k \in 1 .. Len(cs)
      BY <1>3, <1>7, <2>2
    <3> HIDE DEF latest
    <3> QED
      BY <1>1, <3>1
  <2> QED
    BY <2>1, <2>2
<1> HIDE DEF reasons, used, Earliest, latest, ended, end
<1> QED
  BY <1>4, <1>5, <1>6, <1>7, <1>8, <1>9, <1>10

-----------------------------------------------------------------------------
(***************************************************************************)
(* What a step leaves alone.                                               *)
(***************************************************************************)
Acts(c) == Start(c) \/ Work(c) \/ Disconnect(c)

Same(d) ==
  /\ UNCHANGED <<vendor, streamed, wants>>
  /\ pc'[d] = pc[d] /\ job'[d] = job[d]
  /\ attempt'[d] = attempt[d] /\ exchange'[d] = exchange[d] /\ active'[d] = active[d]
  /\ mode'[d] = mode[d] /\ last'[d] = last[d] /\ yielded'[d] = yielded[d]
  /\ unsent'[d] = unsent[d] /\ queue'[d] = queue[d] /\ chunks'[d] = chunks[d]
  /\ metered'[d] = metered[d] /\ logged'[d] = logged[d]
  /\ outcome'[d] = outcome[d] /\ answer'[d] = answer[d]

LEMMA EndedOthers ==
  ASSUME TypeOK, NEW c \in Calls, NEW out, NEW resp, NEW m, Ended(c, out, resp, m), NEW d \in Calls \ {c}
  PROVE  /\ pc'[d] = pc[d] /\ metered'[d] = metered[d] /\ logged'[d] = logged[d]
         /\ outcome'[d] = outcome[d] /\ answer'[d] = answer[d]
BY DEF Ended, TypeOK

LEMMA ReturnsOthers ==
  ASSUME TypeOK, NEW c \in Calls, NEW out, NEW resp, Returns(c, out, resp), NEW d \in Calls \ {c}
  PROVE  /\ pc'[d] = pc[d] /\ metered'[d] = metered[d] /\ logged'[d] = logged[d]
         /\ outcome'[d] = outcome[d] /\ answer'[d] = answer[d]
BY EndedOthers DEF Returns, books

\* Calls do not touch each other, save for the threads of the pool.
LEMMA OthersKeep ==
  ASSUME TypeOK, NEW c \in Calls, Acts(c), NEW d \in Calls \ {c}
  PROVE  Same(d)
<1> USE DEF TypeOK, fixed, upstream, books, Same, Opens, OpensAttempt, Closes, FreesThread,
        StreamDone
<1>1. CASE Start(c)
  BY <1>1 DEF Start
<1>2. CASE TakeThread(c)
  BY <1>2 DEF TakeThread
<1>3. CASE Got(c)
  BY <1>3, EndedOthers, ReturnsOthers DEF Got
<1>4. CASE Joined(c)
  BY <1>4, EndedOthers, ReturnsOthers DEF Joined
<1>5. CASE Disconnect(c)
  BY <1>5, EndedOthers, ReturnsOthers DEF Disconnect
<1>6. ASSUME NEW e \in Events, Receive(c, e) PROVE Same(d)
  BY <1>6 DEF Receive
<1>7. CASE Finish(c)
  BY <1>7, EndedOthers, ReturnsOthers DEF Finish
<1>8. CASE Answered(c)
  BY <1>8, EndedOthers, ReturnsOthers DEF Answered
<1>9. ASSUME NEW k \in {"retryable", "fatal"}, Fail(c, k) PROVE Same(d)
  <2>1. UNCHANGED <<fixed, queue, chunks>>
    BY <1>9 DEF Fail
  <2>2. CASE Opens(c, attempt[c], FALSE) /\ UNCHANGED <<pc, job, running, unsent, books>>
    BY <2>1, <2>2
  <2>3. CASE OpensAttempt(c) /\ UNCHANGED <<pc, job, running, unsent, books>>
    BY <2>1, <2>3
  <2>4. CASE /\ Closes(c) /\ UNCHANGED yielded
             /\ unsent' = [unsent EXCEPT ![c] = LastWords(k)]
             /\ UNCHANGED <<pc, job, running, books>>
    BY <2>1, <2>4
  <2>5. CASE /\ Closes(c) /\ UNCHANGED yielded
             /\ Returns(c, Raised(k), NoResponse)
             /\ IF Blocking THEN FreesThread(c) ELSE UNCHANGED <<job, running>>
             /\ UNCHANGED unsent
    BY <2>1, <2>5, ReturnsOthers
  <2> QED
    BY <1>9, <2>2, <2>3, <2>4, <2>5 DEF Fail
<1>10. CASE Put(c)
  BY <1>10 DEF Put
<1> QED
  BY <1>1, <1>2, <1>3, <1>4, <1>5, <1>6, <1>7, <1>8, <1>9, <1>10 DEF Acts, Work

\* What an end of a call writes has the shape of the books.
BooksOK ==
  /\ pc \in [Calls -> {"idle", "waiting", "reading", "closed"}]
  /\ metered \in [Calls -> Seq({"success", "error"})] /\ logged \in [Calls -> Seq(Metadatas)]
  /\ outcome \in [Calls -> {"open", "done", "unavailable", "error", "abandoned"}]
  /\ answer \in [Calls -> Responses]

LEMMA CountedIs ==
  /\ Counted("done") = <<"success">>
  /\ Counted("unavailable") = <<"error">> /\ Counted("error") = <<"error">>
  /\ Counted("abandoned") = <<>>
BY DEF Counted

LEMMA EndedOK ==
  ASSUME TypeOK, NEW c \in Calls, NEW out \in {"done", "unavailable", "error", "abandoned"},
         NEW r \in Responses, NEW m, m.finish \in Places, m.usage \in Places, Ended(c, out, r, m)
  PROVE  BooksOK'
<1>1. Counted(out) \in Seq({"success", "error"})
  <2>1. <<"success">> \in Seq({"success", "error"}) /\ <<"error">> \in Seq({"success", "error"})
    OBVIOUS
  <2>2. <<>> \in Seq({"success", "error"})
    OBVIOUS
  <2> QED
    BY <2>1, <2>2, CountedIs
<1>2. [finish |-> m.finish, usage |-> m.usage] \in Metadatas
  BY DEF Metadatas
<1>3. metered' \in [Calls -> Seq({"success", "error"})]
  BY <1>1 DEF Ended, TypeOK
<1>4. logged' \in [Calls -> Seq(Metadatas)]
  BY <1>2 DEF Ended, TypeOK
<1>5. /\ pc' \in [Calls -> {"idle", "waiting", "reading", "closed"}]
      /\ outcome' \in [Calls -> {"open", "done", "unavailable", "error", "abandoned"}]
      /\ answer' \in [Calls -> Responses]
  BY DEF Ended, TypeOK
<1> QED
  BY <1>3, <1>4, <1>5 DEF BooksOK

LEMMA BooksStay == TypeOK /\ UNCHANGED <<pc, books>> => BooksOK'
BY DEF TypeOK, BooksOK, books

LEMMA FailedOK ==
  ASSUME TypeOK, NEW c \in Calls, NEW out \in {"unavailable", "error", "abandoned"},
         Ended(c, out, NoResponse, NoResponse)
  PROVE  BooksOK'
BY ValuesOK, EndedOK DEF NoResponse, Response, Responses

LEMMA ReturnsOK ==
  ASSUME TypeOK, NEW c \in Calls, NEW out \in {"done", "unavailable", "error"},
         NEW resp \in Responses, Returns(c, out, resp)
  PROVE  BooksOK'
BY EndedOK, BooksStay DEF Returns, Responses

LEMMA StreamDoneOK ==
  ASSUME TypeOK, NEW c \in Calls, StreamDone(c)
  PROVE  BooksOK'
<1> DEFINE m == Metadata(chunks[c])
           r == Response(TextsOf(chunks[c]), m.finish, m.usage)
           a == AuditedMetadata(chunks[c])
<1>1. chunks[c] \in Seq(Chunks)
  BY DEF TypeOK
<1>2. m \in Metadatas /\ a \in Metadatas /\ TextsOf(chunks[c]) \in Seq(Places)
  BY <1>1, MetadataOK, TextsOK
<1>3. r \in Responses /\ a.finish \in Places /\ a.usage \in Places
  BY <1>2 DEF Response, Responses, Metadatas
<1>4. Ended(c, "done", r, a)
  BY DEF StreamDone
<1> HIDE DEF r, a
<1> QED
  BY <1>3, <1>4, EndedOK

LEMMA OpensOK ==
  ASSUME TypeOK, NEW c \in Calls, NEW n \in Nat, NEW stream \in BOOLEAN, Opens(c, n, stream)
  PROVE  /\ attempt' \in [Calls -> Nat] /\ exchange' \in [Calls -> Nat]
         /\ active' \in [Calls -> BOOLEAN] /\ mode' \in [Calls -> BOOLEAN]
         /\ heard' \in [Calls -> Nat] /\ last' \in [Calls -> Metadatas]
         /\ yielded' \in [Calls -> Seq(Chunks)]
BY ValuesOK DEF Opens, TypeOK

LEMMA AttemptOK ==
  ASSUME TypeOK, NEW c \in Calls, OpensAttempt(c)
  PROVE  /\ attempt' \in [Calls -> Nat] /\ exchange' \in [Calls -> Nat]
         /\ active' \in [Calls -> BOOLEAN] /\ mode' \in [Calls -> BOOLEAN]
         /\ heard' \in [Calls -> Nat] /\ last' \in [Calls -> Metadatas]
         /\ yielded' \in [Calls -> Seq(Chunks)]
<1>1. attempt[c] + 1 \in Nat /\ (streamed[c] \/ wants[c]) \in BOOLEAN
  BY DEF TypeOK
<1> QED
  BY <1>1, OpensOK DEF OpensAttempt

LEMMA CollectedOK ==
  ASSUME TypeOK, NEW c \in Calls
  PROVE  Collected(c) \in Seq(Chunks)
<1>1. last[c] \in Metadatas /\ yielded[c] \in Seq(Chunks)
  BY DEF TypeOK
<1>2. Terminal(last[c]) \in Seq(Chunks)
  <2>1. Chunk(None, last[c].finish, last[c].usage) \in Chunks
    BY <1>1, ValuesOK DEF Metadatas
  <2> QED
    BY <2>1 DEF Terminal
<1> QED
  BY <1>1, <1>2 DEF Collected

LEMMA TypeStep ==
  ASSUME TypeOK, NEW c \in Calls, Acts(c)
  PROVE  TypeOK'
<1> USE DEF TypeOK, BooksOK, fixed, upstream, books
<1>1. CASE Start(c)
  BY <1>1, AttemptOK DEF Start
<1>2. CASE TakeThread(c)
  BY <1>2, AttemptOK DEF TakeThread
<1>3. CASE Got(c)
  <2>1. queue[c] \in Seq(Items) /\ queue[c] # <<>> /\ chunks[c] \in Seq(Chunks)
    BY <1>3 DEF Got
  <2>2. Head(queue[c]) \in Items /\ Tail(queue[c]) \in Seq(Items)
    BY <2>1
  <2>3. Head(queue[c]).kind = "chunk" => Head(queue[c]) \in Chunks
    BY <2>2 DEF Items, End, Error
  <2>4. chunks' \in [Calls -> Seq(Chunks)] /\ queue' \in [Calls -> Seq(Items)]
    BY <1>3, <2>1, <2>2, <2>3 DEF Got
  <2>5. BooksOK'
    <3>1. \A k : Raised(k) \in {"unavailable", "error"}
      BY DEF Raised
    <3> QED
      BY <1>3, <3>1, FailedOK, BooksStay DEF Got
  <2>6. job' \in [Calls -> {"none", "get", "join", "complete"}] /\ running' \subseteq Calls
    BY <1>3 DEF Got
  <2> QED
    BY <1>3, <2>4, <2>5, <2>6 DEF Got
<1>4. CASE Joined(c)
  BY <1>4, StreamDoneOK, BooksStay DEF Joined
<1>5. CASE Disconnect(c)
  BY <1>5, FailedOK DEF Disconnect
<1>6. ASSUME NEW e \in Events, Receive(c, e) PROVE TypeOK'
  <2> DEFINE at == <<exchange[c], heard[c] + 1>>
             made == Delta(at, e) \o IF Blocking THEN <<>> ELSE Terminal(Learned(Nothing, at, e))
  <2>1. /\ at \in Places /\ last[c] \in Metadatas /\ yielded[c] \in Seq(Chunks)
        /\ chunks[c] \in Seq(Chunks) /\ heard[c] \in Nat
    BY PlaceOK
  <2>2. Delta(at, e) \in Seq(Chunks) /\ Learned(Nothing, at, e) \in Metadatas /\ Learned(last[c], at, e) \in Metadatas
    BY <2>1, MadeOK, ValuesOK
  <2>3. Terminal(Learned(Nothing, at, e)) \in Seq(Chunks)
    BY <2>1, <2>2, MadeOK
  <2>4. made \in Seq(Chunks)
    BY <2>2, <2>3
  <2>5. /\ yielded' = [yielded EXCEPT ![c] = @ \o made]
        /\ last' = [last EXCEPT ![c] = IF Blocking THEN Learned(@, at, e) ELSE @]
        /\ chunks' = [chunks EXCEPT ![c] = IF streamed[c] /\ ~Blocking THEN @ \o made ELSE @]
        /\ heard' = [heard EXCEPT ![c] = @ + 1]
        /\ UNCHANGED <<fixed, pc, job, running, attempt, exchange, active, mode, unsent, queue, books>>
    BY <1>6 DEF Receive
  <2> HIDE DEF made, at
  <2>6. /\ yielded' \in [Calls -> Seq(Chunks)] /\ chunks' \in [Calls -> Seq(Chunks)]
        /\ last' \in [Calls -> Metadatas] /\ heard' \in [Calls -> Nat]
    BY <2>1, <2>2, <2>4, <2>5
  <2> QED
    BY <2>5, <2>6
<1>7. CASE Finish(c)
  <2> DEFINE m == Metadata(Collected(c))
             r == Response(TextsOf(Collected(c)), m.finish, m.usage)
  <2>1. Collected(c) \in Seq(Chunks)
    BY CollectedOK
  <2>2. Collected(c) \o <<End>> \in Seq(Items)
    BY <2>1, ValuesOK
  <2>3. r \in Responses
    <3>1. m \in Metadatas /\ TextsOf(Collected(c)) \in Seq(Places)
      BY <2>1, MetadataOK, TextsOK
    <3> QED
      BY <3>1 DEF Response, Responses, Metadatas
  <2>4. BooksOK'
    BY <1>7, <2>3, StreamDoneOK, ReturnsOK, BooksStay DEF Finish
  <2>5. /\ unsent' \in [Calls -> Seq(Items)] /\ running' \subseteq Calls
        /\ job' \in [Calls -> {"none", "get", "join", "complete"}]
    BY <1>7, <2>2 DEF Finish, FreesThread
  <2>6. yielded' \in [Calls -> Seq(Chunks)] /\ active' \in [Calls -> BOOLEAN]
    BY <1>7, <2>1 DEF Finish, Closes
  <2> QED
    BY <1>7, <2>4, <2>5, <2>6 DEF Finish, Closes
<1>8. CASE Answered(c)
  <2> DEFINE at == <<exchange[c], 1>>
  <2>1. PICK usage \in {None, at} : Returns(c, "done", Response(<<at>>, at, usage))
    BY <1>8 DEF Answered
  <2>2. Response(<<at>>, at, usage) \in Responses
    <3>1. at \in Places /\ usage \in Places
      BY PlaceOK, ValuesOK
    <3> HIDE DEF at
    <3>2. <<at>> \in Seq(Places)
      BY <3>1
    <3> QED
      BY <3>1, <3>2 DEF Response, Responses
  <2>3. BooksOK'
    BY <2>1, <2>2, ReturnsOK
  <2>4. /\ running' \subseteq Calls /\ active' \in [Calls -> BOOLEAN]
        /\ job' \in [Calls -> {"none", "get", "join", "complete"}]
    BY <1>8 DEF Answered, Closes, FreesThread
  <2> QED
    BY <1>8, <2>3, <2>4 DEF Answered, Closes
<1>9. ASSUME NEW k \in {"retryable", "fatal"}, Fail(c, k) PROVE TypeOK'
  <2>1. CASE Opens(c, attempt[c], FALSE) /\ UNCHANGED <<pc, job, running, unsent, books>>
    BY <1>9, <2>1, OpensOK DEF Fail
  <2>2. CASE OpensAttempt(c) /\ UNCHANGED <<pc, job, running, unsent, books>>
    BY <1>9, <2>2, AttemptOK DEF Fail
  <2>3. CASE /\ Closes(c) /\ UNCHANGED yielded
             /\ unsent' = [unsent EXCEPT ![c] = LastWords(k)]
             /\ UNCHANGED <<pc, job, running, books>>
    <3>1. LastWords(k) \in Seq(Items)
      BY ValuesOK DEF LastWords
    <3> QED
      BY <1>9, <2>3, <3>1 DEF Fail, Closes
  <2>4. CASE /\ Closes(c) /\ UNCHANGED yielded
             /\ Returns(c, Raised(k), NoResponse)
             /\ IF Blocking THEN FreesThread(c) ELSE UNCHANGED <<job, running>>
             /\ UNCHANGED unsent
    <3>1. BooksOK'
      <4>1. Raised(k) \in {"unavailable", "error"}
        BY DEF Raised
      <4> QED
        BY <2>4, <4>1, ValuesOK, ReturnsOK
    <3>2. /\ running' \subseteq Calls /\ active' \in [Calls -> BOOLEAN]
          /\ job' \in [Calls -> {"none", "get", "join", "complete"}]
      BY <2>4 DEF Closes, FreesThread
    <3> QED
      BY <1>9, <2>4, <3>1, <3>2 DEF Fail, Closes
  <2> QED
    BY <1>9, <2>1, <2>2, <2>3, <2>4 DEF Fail
<1>10. CASE Put(c)
  <2>1. unsent[c] \in Seq(Items) /\ unsent[c] # <<>> /\ queue[c] \in Seq(Items)
    BY <1>10 DEF Put
  <2>2. Append(queue[c], Head(unsent[c])) \in Seq(Items) /\ Tail(unsent[c]) \in Seq(Items)
    BY <2>1
  <2> QED
    BY <1>10, <2>2 DEF Put
<1> QED
  BY <1>1, <1>2, <1>3, <1>4, <1>5, <1>6, <1>7, <1>8, <1>9, <1>10 DEF Acts, Work

LEMMA TypeInit == Init => TypeOK
BY ValuesOK DEF Init, TypeOK

\* Every reachable state of the calls to a provider has the shape TypeOK gives.
THEOREM TypeCorrect == Spec => []TypeOK
<1>1. TypeOK /\ [Next]_vars => TypeOK'
  <2> SUFFICES ASSUME TypeOK, [Next]_vars PROVE TypeOK'
    OBVIOUS
  <2>1. CASE UNCHANGED vars
    BY <2>1 DEF vars, TypeOK, fixed, upstream, books
  <2> QED
    BY <2>1, TypeStep DEF Next, Acts
<1> QED
  BY <1>1, TypeInit, PTL DEF Spec

-----------------------------------------------------------------------------
(***************************************************************************)
(* Where calls stand.                                                      *)
(***************************************************************************)
\* A call was counted as what it ended as.
Reports(c) ==
  /\ outcome[c] = "done" =>
       /\ metered[c] = <<"success">> /\ Len(logged[c]) = 1
       /\ \/ logged[c][1] = [finish |-> answer[c].finish, usage |-> answer[c].usage]
          \/ Scattered(c)
  /\ outcome[c] \in {"unavailable", "error"} => metered[c] = <<"error">> /\ logged[c] = <<>>
  /\ outcome[c] \in {"open", "abandoned"} => metered[c] = <<>> /\ logged[c] = <<>>

LEMMA SameKeeps ==
  ASSUME NEW d \in Calls, Same(d)
  PROVE  /\ Stands(d) => Stands(d)'
         /\ Yields(d) => Yields(d)'
         /\ Flows(d) => Flows(d)'
         /\ Responds(d) => Responds(d)'
         /\ Reports(d) => Reports(d)'
<1> USE DEF Same
<1>1. Stands(d) => Stands(d)'
  BY DEF Stands, Blocking
<1>2. Yields(d) => Yields(d)'
  BY DEF Yields, Blocking
<1>3. Flows(d) => Flows(d)'
  <2>1. Begins(d) => Begins(d)'
    BY DEF Begins
  <2>3. Delivering(d) => Delivering(d)'
    BY DEF Delivering
  <2>4. Failing(d) => Failing(d)'
    BY DEF Failing
  <2> QED
    BY <2>1, <2>3, <2>4 DEF Flows, Blocking
<1>4. Responds(d) => Responds(d)'
  BY DEF Responds
<1>5. Scattered(d) => Scattered(d)'
  BY DEF Scattered
<1>6. Reports(d) => Reports(d)'
  BY <1>5 DEF Reports
<1> QED
  BY <1>1, <1>2, <1>3, <1>4, <1>6

-----------------------------------------------------------------------------
(***************************************************************************)
(* What each action writes for its own call.                               *)
(***************************************************************************)
Closing(c, out, resp, m) ==
  /\ pc'[c] = "closed" /\ outcome'[c] = out /\ answer'[c] = resp
  /\ metered'[c] = metered[c] \o Counted(out)
  /\ logged'[c] = IF out = "done" THEN Append(logged[c], [finish |-> m.finish, usage |-> m.usage])
                                  ELSE logged[c]

BooksKept(c) ==
  /\ outcome'[c] = outcome[c] /\ answer'[c] = answer[c]
  /\ metered'[c] = metered[c] /\ logged'[c] = logged[c]

Still(c) == pc'[c] = pc[c] /\ BooksKept(c)

Opened(c, stream) ==
  /\ active'[c] = TRUE /\ mode'[c] = stream /\ last'[c] = Nothing /\ yielded'[c] = <<>>
  /\ exchange'[c] = exchange[c] + 1

Upstreams(c) ==
  /\ active'[c] = active[c] /\ mode'[c] = mode[c] /\ last'[c] = last[c]
  /\ yielded'[c] = yielded[c] /\ exchange'[c] = exchange[c]

Shut(c) ==
  active'[c] = FALSE /\ mode'[c] = mode[c] /\ last'[c] = last[c] /\ exchange'[c] = exchange[c]

Flowing(c) == unsent'[c] = unsent[c] /\ queue'[c] = queue[c] /\ chunks'[c] = chunks[c]

Settings == UNCHANGED <<vendor, streamed, wants>>

LEMMA EndedIs ==
  ASSUME TypeOK, NEW c \in Calls, NEW out, NEW resp, NEW m, Ended(c, out, resp, m)
  PROVE  Closing(c, out, resp, m)
BY DEF Ended, TypeOK, Closing

LEMMA ReturnsIs ==
  ASSUME TypeOK, NEW c \in Calls, NEW out, NEW resp, Returns(c, out, resp)
  PROVE  \/ pc[c] = "closed" /\ Still(c)
         \/ pc[c] # "closed" /\ Closing(c, out, resp, resp)
BY EndedIs DEF Returns, books, Still, BooksKept

LEMMA OpensIs ==
  ASSUME TypeOK, NEW c \in Calls, NEW n, NEW stream, Opens(c, n, stream)
  PROVE  Opened(c, stream)
BY DEF Opens, TypeOK, Opened

LEMMA AttemptIs ==
  ASSUME TypeOK, NEW c \in Calls, OpensAttempt(c)
  PROVE  Opened(c, streamed[c] \/ wants[c])
BY OpensIs DEF OpensAttempt

LEMMA ClosesIs ==
  ASSUME TypeOK, NEW c \in Calls, Closes(c)
  PROVE  Shut(c)
BY DEF Closes, TypeOK, Shut

LEMMA FreesIs ==
  ASSUME TypeOK, NEW c \in Calls, IF Blocking THEN FreesThread(c) ELSE UNCHANGED <<job, running>>
  PROVE  job'[c] = IF Blocking /\ ~streamed[c] THEN "none" ELSE job[c]
BY DEF FreesThread, TypeOK

LEMMA StartIs ==
  ASSUME TypeOK, NEW c \in Calls, Start(c)
  PROVE  /\ Settings /\ BooksKept(c) /\ Flowing(c)
         /\ pc[c] = "idle" /\ pc'[c] = IF Blocking THEN "waiting" ELSE "reading"
         /\ job'[c] = IF ~Blocking THEN "none" ELSE IF streamed[c] THEN "get" ELSE "complete"
         /\ IF Blocking /\ ~streamed[c] THEN Upstreams(c) ELSE Opened(c, streamed[c] \/ wants[c])
<1>1. Settings /\ BooksKept(c) /\ Flowing(c) /\ pc[c] = "idle"
  BY DEF Start, fixed, books, Settings, BooksKept, Flowing
<1>2. /\ pc'[c] = IF Blocking THEN "waiting" ELSE "reading"
      /\ job'[c] = IF ~Blocking THEN "none" ELSE IF streamed[c] THEN "get" ELSE "complete"
  BY DEF Start, TypeOK
<1>3. IF Blocking /\ ~streamed[c] THEN Upstreams(c) ELSE Opened(c, streamed[c] \/ wants[c])
  BY AttemptIs DEF Start, upstream, Upstreams
<1> QED
  BY <1>1, <1>2, <1>3

LEMMA TakeThreadIs ==
  ASSUME TypeOK, NEW c \in Calls, TakeThread(c)
  PROVE  /\ Settings /\ Still(c) /\ Flowing(c)
         /\ job[c] # "none" /\ job'[c] = job[c]
         /\ IF job[c] = "complete" THEN Opened(c, streamed[c] \/ wants[c]) ELSE Upstreams(c)
<1>1. Settings /\ Still(c) /\ Flowing(c) /\ job[c] # "none" /\ job'[c] = job[c]
  BY DEF TakeThread, fixed, books, Settings, Still, BooksKept, Flowing
<1>2. IF job[c] = "complete" THEN Opened(c, streamed[c] \/ wants[c]) ELSE Upstreams(c)
  BY AttemptIs DEF TakeThread, upstream, Upstreams
<1> QED
  BY <1>1, <1>2

LEMMA GotIs ==
  ASSUME TypeOK, NEW c \in Calls, Got(c)
  PROVE  LET item == Head(queue[c])
             fails == item.kind \in {"retryable", "fatal"}
         IN  /\ Settings /\ Upstreams(c) /\ unsent'[c] = unsent[c]
             /\ job[c] = "get" /\ queue[c] # <<>> /\ queue'[c] = Tail(queue[c])
             /\ \/ /\ pc[c] = "closed" /\ job'[c] = "none" /\ chunks'[c] = chunks[c] /\ Still(c)
                \/ /\ pc[c] # "closed" /\ fails /\ job'[c] = "none"
                   /\ chunks'[c] = chunks[c]
                   /\ Closing(c, Raised(item.kind), NoResponse, NoResponse)
                \/ /\ pc[c] # "closed" /\ item.kind = "end" /\ job'[c] = "join"
                   /\ chunks'[c] = chunks[c] /\ Still(c)
                \/ /\ pc[c] # "closed" /\ item.kind \notin {"end", "retryable", "fatal"} /\ job'[c] = "get"
                   /\ chunks'[c] = IF item.kind = "chunk" THEN Append(chunks[c], item) ELSE chunks[c]
                   /\ Still(c)
<1> DEFINE item == Head(queue[c])
           gone == pc[c] = "closed"
           fails == item.kind \in {"retryable", "fatal"}
<1>1. /\ Settings /\ Upstreams(c) /\ unsent'[c] = unsent[c] /\ job[c] = "get" /\ queue[c] # <<>>
  BY DEF Got, fixed, upstream, Settings, Upstreams
<1>2. /\ queue'[c] = Tail(queue[c])
      /\ job'[c] = IF gone \/ fails THEN "none" ELSE IF item.kind = "end" THEN "join" ELSE "get"
      /\ chunks'[c] = IF item.kind = "chunk" /\ ~gone THEN Append(chunks[c], item) ELSE chunks[c]
  BY DEF Got, TypeOK
<1>3. IF fails /\ ~gone THEN Closing(c, Raised(item.kind), NoResponse, NoResponse) ELSE Still(c)
  BY EndedIs DEF Got, books, Still, BooksKept
<1> HIDE DEF item
<1>4. CASE gone
  <2>1. job'[c] = "none" /\ chunks'[c] = chunks[c]
    BY <1>2, <1>4
  <2>2. Still(c)
    BY <1>3, <1>4
  <2> QED
    BY <1>1, <1>2, <1>4, <2>1, <2>2 DEF item
<1>5. CASE ~gone /\ fails
  BY <1>1, <1>2, <1>3, <1>5 DEF item
<1>6. CASE ~gone /\ item.kind = "end"
  BY <1>1, <1>2, <1>3, <1>6 DEF item
<1>7. CASE ~gone /\ ~fails /\ item.kind # "end"
  BY <1>1, <1>2, <1>3, <1>7 DEF item
<1> QED
  BY <1>4, <1>5, <1>6, <1>7

LEMMA JoinedIs ==
  ASSUME TypeOK, NEW c \in Calls, Joined(c)
  PROVE  /\ Settings /\ Upstreams(c) /\ Flowing(c)
         /\ job[c] = "join" /\ job'[c] = "none" /\ ~active[c] /\ unsent[c] = <<>>
         /\ IF pc[c] = "closed" THEN Still(c) ELSE StreamDone(c)
<1>1. /\ Settings /\ Upstreams(c) /\ Flowing(c)
      /\ job[c] = "join" /\ ~active[c] /\ unsent[c] = <<>>
      /\ IF pc[c] = "closed" THEN Still(c) ELSE StreamDone(c)
  BY DEF Joined, fixed, upstream, books, Settings, Upstreams, Flowing, Still, BooksKept
<1>2. job'[c] = "none"
  BY DEF Joined, TypeOK
<1> QED
  BY <1>1, <1>2

LEMMA StreamDoneIs ==
  ASSUME TypeOK, NEW c \in Calls, StreamDone(c)
  PROVE  Closing(c, "done", Response(TextsOf(chunks[c]), Metadata(chunks[c]).finish, Metadata(chunks[c]).usage),
                 AuditedMetadata(chunks[c]))
BY EndedIs DEF StreamDone

LEMMA DisconnectIs ==
  ASSUME TypeOK, NEW c \in Calls, Disconnect(c)
  PROVE  /\ Settings /\ Flowing(c) /\ pc[c] \in {"waiting", "reading"}
         /\ Closing(c, "abandoned", NoResponse, NoResponse)
         /\ job'[c] = IF c \in running THEN job[c] ELSE "none"
         /\ active'[c] = (active[c] /\ Blocking)
         /\ mode'[c] = mode[c] /\ last'[c] = last[c] /\ yielded'[c] = yielded[c] /\ exchange'[c] = exchange[c]
<1>1. /\ Settings /\ Flowing(c) /\ pc[c] \in {"waiting", "reading"}
      /\ mode'[c] = mode[c] /\ last'[c] = last[c] /\ yielded'[c] = yielded[c] /\ exchange'[c] = exchange[c]
  BY DEF Disconnect, fixed, Settings, Flowing
<1>2. Closing(c, "abandoned", NoResponse, NoResponse)
  BY EndedIs DEF Disconnect
<1>3. /\ job'[c] = IF c \in running THEN job[c] ELSE "none"
      /\ active'[c] = (active[c] /\ Blocking)
  BY DEF Disconnect, TypeOK
<1> QED
  BY <1>1, <1>2, <1>3

Made(c, e) ==
  LET at == <<exchange[c], heard[c] + 1>>
  IN  Delta(at, e) \o IF Blocking THEN <<>> ELSE Terminal(Learned(Nothing, at, e))

LEMMA ReceiveIs ==
  ASSUME TypeOK, NEW c \in Calls, NEW e \in Events, Receive(c, e)
  PROVE  /\ Settings /\ Still(c) /\ job'[c] = job[c]
         /\ active[c] /\ mode[c] /\ active'[c] = active[c] /\ mode'[c] = mode[c] /\ exchange'[c] = exchange[c]
         /\ ~Blocking => last'[c] = last[c]
         /\ yielded'[c] = yielded[c] \o Made(c, e)
         /\ chunks'[c] = IF streamed[c] /\ ~Blocking THEN chunks[c] \o Made(c, e) ELSE chunks[c]
         /\ unsent'[c] = unsent[c] /\ queue'[c] = queue[c]
<1>1. /\ Settings /\ Still(c) /\ job'[c] = job[c]
      /\ active[c] /\ mode[c] /\ active'[c] = active[c] /\ mode'[c] = mode[c] /\ exchange'[c] = exchange[c]
      /\ unsent'[c] = unsent[c] /\ queue'[c] = queue[c]
  BY DEF Receive, fixed, books, Settings, Still, BooksKept
<1>2. ~Blocking => last'[c] = last[c]
  BY DEF Receive, TypeOK
<1>3. /\ yielded' = [yielded EXCEPT ![c] = @ \o Made(c, e)]
      /\ chunks' = [chunks EXCEPT ![c] = IF streamed[c] /\ ~Blocking THEN @ \o Made(c, e) ELSE @]
  BY DEF Receive, Made
<1>4. /\ yielded'[c] = yielded[c] \o Made(c, e)
      /\ chunks'[c] = IF streamed[c] /\ ~Blocking THEN chunks[c] \o Made(c, e) ELSE chunks[c]
  BY <1>3 DEF TypeOK
<1> QED
  BY <1>1, <1>2, <1>4

LEMMA FinishIs ==
  ASSUME TypeOK, NEW c \in Calls, Finish(c)
  PROVE  /\ Settings /\ Shut(c) /\ active[c] /\ mode[c] /\ yielded'[c] = Collected(c)
         /\ queue'[c] = queue[c] /\ chunks'[c] = chunks[c]
         /\ \/ /\ streamed[c] /\ Blocking /\ Still(c) /\ job'[c] = job[c]
               /\ unsent'[c] = Collected(c) \o <<End>>
            \/ /\ streamed[c] /\ ~Blocking /\ StreamDone(c) /\ job'[c] = job[c] /\ unsent'[c] = unsent[c]
            \/ /\ ~streamed[c] /\ unsent'[c] = unsent[c]
               /\ job'[c] = IF Blocking THEN "none" ELSE job[c]
               /\ LET m == Metadata(Collected(c))
                      r == Response(TextsOf(Collected(c)), m.finish, m.usage)
                  IN  \/ pc[c] = "closed" /\ Still(c)
                      \/ pc[c] # "closed" /\ Closing(c, "done", r, r)
<1>1. /\ Settings /\ Shut(c) /\ active[c] /\ mode[c] /\ queue'[c] = queue[c] /\ chunks'[c] = chunks[c]
  BY ClosesIs DEF Finish, fixed, Settings
<1>2. yielded'[c] = Collected(c)
  BY DEF Finish, TypeOK
<1>3. CASE /\ streamed[c] /\ Blocking
           /\ unsent' = [unsent EXCEPT ![c] = Collected(c) \o <<End>>]
           /\ UNCHANGED <<pc, job, running, books>>
  <2>1. unsent'[c] = Collected(c) \o <<End>>
    BY <1>3 DEF TypeOK
  <2> QED
    BY <1>1, <1>2, <1>3, <2>1 DEF books, Still, BooksKept
<1>4. CASE streamed[c] /\ ~Blocking /\ StreamDone(c) /\ UNCHANGED <<job, running, unsent>>
  BY <1>1, <1>2, <1>4
<1>5. CASE /\ ~streamed[c]
           /\ LET m == Metadata(Collected(c))
              IN  Returns(c, "done", Response(TextsOf(Collected(c)), m.finish, m.usage))
           /\ IF Blocking THEN FreesThread(c) ELSE UNCHANGED <<job, running>>
           /\ UNCHANGED unsent
  BY <1>1, <1>2, <1>5, ReturnsIs, FreesIs
<1> QED
  BY <1>3, <1>4, <1>5 DEF Finish

LEMMA AnsweredIs ==
  ASSUME TypeOK, NEW c \in Calls, Answered(c)
  PROVE  /\ Settings /\ Shut(c) /\ active[c] /\ ~mode[c] /\ yielded'[c] = yielded[c] /\ Flowing(c)
         /\ job'[c] = IF Blocking /\ ~streamed[c] THEN "none" ELSE job[c]
         /\ \E r : \/ pc[c] = "closed" /\ Still(c)
                   \/ pc[c] # "closed" /\ Closing(c, "done", r, r)
<1>1. /\ Settings /\ Shut(c) /\ active[c] /\ ~mode[c] /\ yielded'[c] = yielded[c] /\ Flowing(c)
      /\ job'[c] = IF Blocking /\ ~streamed[c] THEN "none" ELSE job[c]
  BY ClosesIs, FreesIs DEF Answered, fixed, Settings, Flowing
<1>2. PICK r : Returns(c, "done", r)
  BY DEF Answered
<1>3. \/ pc[c] = "closed" /\ Still(c)
      \/ pc[c] # "closed" /\ Closing(c, "done", r, r)
  BY <1>2, ReturnsIs
<1> QED
  BY <1>1, <1>3

LEMMA FailIs ==
  ASSUME TypeOK, NEW c \in Calls, NEW k \in {"retryable", "fatal"}, Fail(c, k)
  PROVE  /\ Settings /\ active[c] /\ queue'[c] = queue[c] /\ chunks'[c] = chunks[c]
         /\ \/ /\ ~streamed[c] /\ Opened(c, FALSE) /\ Still(c) /\ job'[c] = job[c] /\ unsent'[c] = unsent[c]
            \/ /\ Blocking \/ ~streamed[c]
               /\ Opened(c, streamed[c] \/ wants[c]) /\ Still(c) /\ job'[c] = job[c] /\ unsent'[c] = unsent[c]
            \/ /\ streamed[c] /\ Blocking /\ Shut(c) /\ yielded'[c] = yielded[c]
               /\ unsent'[c] = LastWords(k) /\ Still(c) /\ job'[c] = job[c]
            \/ /\ ~(streamed[c] /\ Blocking) /\ Shut(c) /\ yielded'[c] = yielded[c] /\ unsent'[c] = unsent[c]
               /\ job'[c] = IF Blocking /\ ~streamed[c] THEN "none" ELSE job[c]
               /\ \/ pc[c] = "closed" /\ Still(c)
                  \/ pc[c] # "closed" /\ Closing(c, Raised(k), NoResponse, NoResponse)
<1>1. Settings /\ active[c] /\ queue'[c] = queue[c] /\ chunks'[c] = chunks[c]
  BY DEF Fail, fixed, Settings
<1>2. CASE ~streamed[c] /\ Opens(c, attempt[c], FALSE) /\ UNCHANGED <<pc, job, running, unsent, books>>
  BY <1>1, <1>2, OpensIs DEF books, Still, BooksKept
<1>3. CASE Retries(c, k) /\ OpensAttempt(c) /\ UNCHANGED <<pc, job, running, unsent, books>>
  BY <1>1, <1>3, AttemptIs DEF Retries, books, Still, BooksKept
<1>4. CASE /\ Closes(c) /\ UNCHANGED yielded /\ streamed[c] /\ Blocking
           /\ unsent' = [unsent EXCEPT ![c] = LastWords(k)]
           /\ UNCHANGED <<pc, job, running, books>>
  <2>1. unsent'[c] = LastWords(k)
    BY <1>4 DEF TypeOK
  <2> QED
    BY <1>1, <1>4, <2>1, ClosesIs DEF books, Still, BooksKept
<1>5. CASE /\ Closes(c) /\ UNCHANGED yielded /\ ~(streamed[c] /\ Blocking)
           /\ Returns(c, Raised(k), NoResponse)
           /\ IF Blocking THEN FreesThread(c) ELSE UNCHANGED <<job, running>>
           /\ UNCHANGED unsent
  BY <1>1, <1>5, ClosesIs, ReturnsIs, FreesIs
<1> QED
  BY <1>2, <1>3, <1>4, <1>5 DEF Fail

LEMMA PutIs ==
  ASSUME TypeOK, NEW c \in Calls, Put(c)
  PROVE  /\ Settings /\ Still(c) /\ Upstreams(c) /\ job'[c] = job[c] /\ chunks'[c] = chunks[c]
         /\ unsent[c] # <<>> /\ queue'[c] = Append(queue[c], Head(unsent[c])) /\ unsent'[c] = Tail(unsent[c])
<1>1. /\ Settings /\ Still(c) /\ Upstreams(c) /\ job'[c] = job[c] /\ chunks'[c] = chunks[c]
      /\ unsent[c] # <<>>
  BY DEF Put, fixed, upstream, books, Settings, Still, BooksKept, Upstreams
<1>2. queue'[c] = Append(queue[c], Head(unsent[c])) /\ unsent'[c] = Tail(unsent[c])
  BY DEF Put, TypeOK
<1> QED
  BY <1>1, <1>2

LEMMA RaisedOK == \A k : Raised(k) \in {"unavailable", "error"}
BY DEF Raised

LEMMA StandsStep ==
  ASSUME TypeOK, NEW c \in Calls, Stands(c), Flows(c), Acts(c)
  PROVE  Stands(c)'
<1> USE DEF Stands, Blocking, Settings, Still, BooksKept, Closing, Opened, Upstreams, Shut
<1>1. CASE Start(c)
  <2>1. CASE ~Blocking
    BY <1>1, <2>1, StartIs
  <2>2. CASE Blocking /\ streamed[c]
    BY <1>1, <2>2, StartIs
  <2>3. CASE Blocking /\ ~streamed[c]
    BY <1>1, <2>3, StartIs
  <2> QED
    BY <2>1, <2>2, <2>3
<1>2. CASE TakeThread(c)
  BY <1>2, TakeThreadIs
<1>3. CASE Got(c)
  <2> DEFINE item == Head(queue[c])
  <2>1. Settings /\ Upstreams(c) /\ job[c] = "get"
    BY <1>3, GotIs
  <2>2. \/ pc[c] = "closed" /\ job'[c] = "none" /\ Still(c)
        \/ /\ pc[c] # "closed" /\ job'[c] = "none"
           /\ Closing(c, Raised(item.kind), NoResponse, NoResponse)
        \/ pc[c] # "closed" /\ item.kind = "end" /\ job'[c] = "join" /\ Still(c)
        \/ pc[c] # "closed" /\ job'[c] = "get" /\ Still(c)
    BY <1>3, GotIs
  <2>3. streamed[c] => ~active[c]
    BY <1>3, GotIs DEF Flows
  <2> HIDE DEF item
  <2> QED
    BY <2>1, <2>2, <2>3, RaisedOK
<1>4. CASE Joined(c)
  BY <1>4, JoinedIs, StreamDoneIs
<1>5. CASE Disconnect(c)
  BY <1>5, DisconnectIs
<1>6. ASSUME NEW e \in Events, Receive(c, e) PROVE Stands(c)'
  BY <1>6, ReceiveIs
<1>7. CASE Finish(c)
  BY <1>7, FinishIs, StreamDoneIs
<1>8. CASE Answered(c)
  BY <1>8, AnsweredIs
<1>9. ASSUME NEW k \in {"retryable", "fatal"}, Fail(c, k) PROVE Stands(c)'
  BY <1>9, FailIs, RaisedOK
<1>10. CASE Put(c)
  BY <1>10, PutIs
<1> QED
  BY <1>1, <1>2, <1>3, <1>4, <1>5, <1>6, <1>7, <1>8, <1>9, <1>10 DEF Acts, Work

-----------------------------------------------------------------------------
(***************************************************************************)
(* What an exchange has yielded.                                           *)
(***************************************************************************)
Tells(y) == y.text # None => y.finish = None /\ y.usage = None

LEMMA PlaceIs ==
  ASSUME TypeOK, NEW c \in Calls, NEW at, at = <<exchange[c], heard[c] + 1>>
  PROVE  at \in Places /\ at # None /\ at[1] = exchange[c]
<1>1. at \in Places /\ exchange[c] \in Nat /\ heard[c] \in Nat
  BY PlaceOK
<1>2. at[2] = heard[c] + 1 /\ at[1] = exchange[c]
  BY <1>1
<1>3. None[2] = 0
  BY DEF None
<1> QED
  BY <1>1, <1>2, <1>3

LEMMA DeltaIs ==
  ASSUME NEW c \in Calls, NEW e \in Events, NEW at \in Places, at # None, at[1] = exchange[c]
  PROVE  /\ Delta(at, e) \in Seq(Chunks)
         /\ \A i \in DOMAIN Delta(at, e) :
              LET y == Delta(at, e)[i]
              IN  Tells(y) /\ y.text # None /\ OfExchange(y.text, exchange[c])
<1>1. Delta(at, e) \in Seq(Chunks)
  BY MadeOK, ValuesOK
<1>2. CASE e.choices /\ e.text
  <2>1. Delta(at, e) = <<Chunk(at, None, None)>>
    BY <1>2 DEF Delta
  <2> QED
    BY <1>1, <2>1 DEF Chunk, Tells, OfExchange
<1>3. CASE ~(e.choices /\ e.text)
  <2>1. Delta(at, e) = <<>>
    BY <1>3 DEF Delta
  <2> QED
    BY <1>1, <2>1
<1> QED
  BY <1>2, <1>3

LEMMA TerminalIs ==
  ASSUME NEW m \in Metadatas
  PROVE  /\ Terminal(m) \in Seq(Chunks) /\ Len(Terminal(m)) <= 1
         /\ \A i \in DOMAIN Terminal(m) : Terminal(m)[i].text = None
<1>1. Chunk(None, m.finish, m.usage) \in Chunks
  BY ValuesOK DEF Metadatas
<1>2. CASE m = Nothing
  BY <1>2 DEF Terminal
<1>3. CASE m # Nothing
  <2>1. Terminal(m) = <<Chunk(None, m.finish, m.usage)>>
    BY <1>3 DEF Terminal
  <2> QED
    BY <1>1, <2>1 DEF Chunk
<1> QED
  BY <1>2, <1>3

LEMMA MadeIs ==
  ASSUME TypeOK, NEW c \in Calls, NEW e \in Events
  PROVE  /\ Made(c, e) \in Seq(Chunks)
         /\ \A i \in DOMAIN Made(c, e) :
              LET y == Made(c, e)[i]
              IN  Tells(y) /\ OfExchange(y.text, exchange[c]) /\ (Blocking => y.text # None)
<1> DEFINE at == <<exchange[c], heard[c] + 1>>
           delta == Delta(at, e)
           rest == Terminal(Learned(Nothing, at, e))
<1>1. /\ delta \in Seq(Chunks)
      /\ \A i \in DOMAIN delta : Tells(delta[i]) /\ delta[i].text # None /\ OfExchange(delta[i].text, exchange[c])
  <2>1. at \in Places /\ at # None /\ at[1] = exchange[c]
    BY PlaceIs
  <2> HIDE DEF at
  <2> QED
    BY <2>1, DeltaIs
<1>2. rest \in Seq(Chunks) /\ \A i \in DOMAIN rest : rest[i].text = None
  <2>1. Learned(Nothing, at, e) \in Metadatas
    BY PlaceOK, ValuesOK, MadeOK
  <2> QED
    BY <2>1, TerminalIs
<1>3. \A i \in DOMAIN rest : Tells(rest[i]) /\ OfExchange(rest[i].text, exchange[c])
  BY <1>2 DEF Tells, OfExchange
<1>4. Made(c, e) = delta \o IF Blocking THEN <<>> ELSE rest
  BY DEF Made
<1> HIDE DEF delta, rest
<1>5. CASE Blocking
  <2>1. Made(c, e) = delta
    BY <1>1, <1>4, <1>5
  <2> QED
    BY <1>1, <1>5, <2>1
<1>6. CASE ~Blocking
  <2>1. Made(c, e) = delta \o rest
    BY <1>4, <1>6
  <2>2. /\ Made(c, e) \in Seq(Chunks) /\ DOMAIN Made(c, e) = 1 .. (Len(delta) + Len(rest))
        /\ \A i \in DOMAIN Made(c, e) :
             \/ i \in DOMAIN delta /\ Made(c, e)[i] = delta[i]
             \/ i - Len(delta) \in DOMAIN rest /\ Made(c, e)[i] = rest[i - Len(delta)]
    BY <1>1, <1>2, <2>1
  <2> QED
    BY <1>1, <1>3, <1>6, <2>2
<1> QED
  BY <1>5, <1>6

LEMMA YieldsStep ==
  ASSUME TypeOK, NEW c \in Calls, Stands(c), Yields(c), Acts(c)
  PROVE  Yields(c)'
<1>1. yielded[c] \in Seq(Chunks) /\ last[c] \in Metadatas
  BY DEF TypeOK
<1>2. ASSUME Settings, Upstreams(c) PROVE Yields(c)'
  BY <1>2 DEF Settings, Upstreams, Yields, Blocking
<1>3. ASSUME NEW stream, Settings, Opened(c, stream) PROVE Yields(c)'
  BY <1>3 DEF Opened, Yields
<1>4. ASSUME Settings, Shut(c), yielded'[c] = yielded[c] PROVE Yields(c)'
  BY <1>4 DEF Settings, Shut, Yields, Blocking
<1>5. CASE Start(c)
  BY <1>2, <1>3, <1>5, StartIs
<1>6. CASE TakeThread(c)
  BY <1>2, <1>3, <1>6, TakeThreadIs
<1>7. CASE Got(c)
  BY <1>2, <1>7, GotIs
<1>8. CASE Joined(c)
  BY <1>2, <1>8, JoinedIs
<1>9. CASE Put(c)
  BY <1>2, <1>9, PutIs
<1>10. CASE Disconnect(c)
  BY <1>10, DisconnectIs DEF Settings, Yields, Blocking
<1>11. CASE Answered(c)
  BY <1>4, <1>11, AnsweredIs
<1>12. ASSUME NEW k \in {"retryable", "fatal"}, Fail(c, k) PROVE Yields(c)'
  BY <1>3, <1>4, <1>12, FailIs
<1>13. ASSUME NEW e \in Events, Receive(c, e) PROVE Yields(c)'
  <2> DEFINE made == Made(c, e)
  <2>1. /\ Settings /\ exchange'[c] = exchange[c] /\ active[c]
        /\ yielded'[c] = yielded[c] \o made
    BY <1>13, ReceiveIs
  <2>2. /\ made \in Seq(Chunks)
        /\ \A i \in DOMAIN made : /\ Tells(made[i]) /\ OfExchange(made[i].text, exchange[c])
                                  /\ Blocking => made[i].text # None
    BY MadeIs
  <2> HIDE DEF made
  <2>3. \A i \in DOMAIN yielded'[c] :
          \/ i \in DOMAIN yielded[c] /\ yielded'[c][i] = yielded[c][i]
          \/ i - Len(yielded[c]) \in DOMAIN made /\ yielded'[c][i] = made[i - Len(yielded[c])]
    BY <1>1, <2>1, <2>2
  <2>4. Blocking' = Blocking
    BY <2>1 DEF Settings, Blocking
  <2> QED
    BY <2>1, <2>2, <2>3, <2>4 DEF Yields, Tells
<1>14. CASE Finish(c)
  <2> DEFINE rest == Terminal(last[c])
  <2>1. /\ Settings /\ exchange'[c] = exchange[c] /\ active[c] /\ active'[c] = FALSE
        /\ yielded'[c] = yielded[c] \o rest
    BY <1>14, FinishIs DEF Shut, Collected
  <2>2. rest \in Seq(Chunks) /\ Len(rest) <= 1 /\ \A i \in DOMAIN rest : rest[i].text = None
    BY <1>1, TerminalIs
  <2> HIDE DEF rest
  <2>3. \A i \in DOMAIN yielded'[c] :
          \/ i \in DOMAIN yielded[c] /\ yielded'[c][i] = yielded[c][i]
          \/ yielded'[c][i].text = None /\ i >= Len(yielded'[c])
    BY <1>1, <2>1, <2>2
  <2>4. Blocking' = Blocking
    BY <2>1 DEF Settings, Blocking
  <2>5. DOMAIN yielded'[c] \subseteq Nat /\ Len(yielded'[c]) \in Nat
    BY <1>1, <2>1, <2>2
  <2> QED
    BY <2>1, <2>3, <2>4, <2>5 DEF Yields, OfExchange
<1> QED
  BY <1>5, <1>6, <1>7, <1>8, <1>9, <1>10, <1>11, <1>12, <1>13, <1>14 DEF Acts, Work

-----------------------------------------------------------------------------
(***************************************************************************)
(* From the vendor to the caller.                                          *)
(***************************************************************************)
LEMMA FlowTypes ==
  ASSUME TypeOK, NEW c \in Calls
  PROVE  /\ yielded[c] \in Seq(Chunks) /\ chunks[c] \in Seq(Chunks)
         /\ queue[c] \in Seq(Items) /\ unsent[c] \in Seq(Items)
         /\ active[c] \in BOOLEAN
BY DEF TypeOK

LEMMA OnItsWay ==
  ASSUME NEW c, Flowing(c), yielded'[c] = yielded[c]
  PROVE  /\ Begins(c) => Begins(c)'
         /\ Delivering(c) => Delivering(c)'
         /\ Failing(c) => Failing(c)'
BY DEF Flowing, Begins, Delivering, Failing

\* Nothing of a call moves, and its exchange stays as it is.
LEMMA FlowsRest ==
  ASSUME NEW c, Flows(c), Settings, Flowing(c), Upstreams(c), Still(c),
         job'[c] = job[c]
  PROVE  Flows(c)'
BY OnItsWay DEF Flows, Settings, Upstreams, Still, BooksKept, Flowing, Blocking

\* A call whose chunks are none may open another exchange.
LEMMA FlowsOpened ==
  ASSUME TypeOK, NEW c \in Calls, NEW stream, Settings, Flowing(c), Opened(c, stream), BooksKept(c),
         Stands(c), Flows(c), active[c] \/ pc[c] = "idle" \/ ~streamed[c],
         ~Blocking /\ streamed[c] => pc[c] = "idle"
  PROVE  Flows(c)'
<1>1. chunks[c] = <<>>
  BY DEF Flows
<1>2. Begins(c)'
  BY <1>1 DEF Begins, IsStart, Flowing, Opened
<1>3. outcome'[c] = outcome[c] /\ active'[c] /\ yielded'[c] = <<>> /\ Blocking' = Blocking
  BY DEF BooksKept, Opened, Settings, Blocking
<1> QED
  BY <1>1, <1>2, <1>3 DEF Flows, Stands, Settings, Flowing

\* The next item of an exchange on its way is its next chunk, or its end.
LEMMA NextItem ==
  ASSUME NEW y \in Seq(Chunks), NEW got \in Seq(Chunks), NEW q \in Seq(Items), NEW rest \in Seq(Items),
         OnTheWay(y, got, q, rest), IsStart(got, y), q # <<>>
  PROVE  \/ Len(got) < Len(y) /\ Head(q) = y[Len(got) + 1] /\ Head(q) \in Chunks
         \/ Head(q) = End /\ got = y
<1>1. Len(got) \in Nat /\ Len(y) \in Nat /\ Len(q) \in Nat /\ Len(rest) \in Nat
  OBVIOUS
<1>2. Head(q) = Sent(y, Len(got) + 1)
  <2>1. Head(q) = q[1] /\ 1 \in DOMAIN q
    OBVIOUS
  <2> QED
    BY <1>1, <2>1 DEF OnTheWay
<1>3. CASE Len(got) < Len(y)
  <2>1. Len(got) + 1 \in 1 .. Len(y)
    BY <1>1, <1>3
  <2>2. Sent(y, Len(got) + 1) = y[Len(got) + 1]
    BY <2>1 DEF Sent
  <2> QED
    BY <1>2, <1>3, <2>1, <2>2
<1>4. CASE Len(got) = Len(y)
  <2>1. Sent(y, Len(got) + 1) = End
    BY <1>1, <1>4 DEF Sent
  <2>2. got = y
    BY <1>4, SeqEqual DEF IsStart
  <2> QED
    BY <1>2, <2>1, <2>2
<1> QED
  BY <1>1, <1>3, <1>4 DEF IsStart

LEMMA TakesItem ==
  ASSUME NEW y \in Seq(Chunks), NEW got \in Seq(Chunks), NEW q \in Seq(Items), NEW rest \in Seq(Items),
         OnTheWay(y, got, q, rest), IsStart(got, y), q # <<>>,
         Len(got) < Len(y), Head(q) = y[Len(got) + 1], Head(q) \in Chunks
  PROVE  /\ OnTheWay(y, Append(got, Head(q)), Tail(q), rest)
         /\ IsStart(Append(got, Head(q)), y)
<1> DEFINE got2 == Append(got, Head(q))
           q2 == Tail(q)
<1>1. Len(got) \in Nat /\ Len(y) \in Nat /\ Len(q) \in Nat /\ Len(rest) \in Nat
  OBVIOUS
<1>2. /\ Len(got2) = Len(got) + 1 /\ DOMAIN got2 = 1 .. (Len(got) + 1)
      /\ \A i \in DOMAIN got2 : got2[i] = IF i <= Len(got) THEN got[i] ELSE y[Len(got) + 1]
  OBVIOUS
<1>3. /\ Len(q2) = Len(q) - 1 /\ DOMAIN q2 = 1 .. (Len(q) - 1)
      /\ \A i \in DOMAIN q2 : q2[i] = q[i + 1] /\ i + 1 \in DOMAIN q
  OBVIOUS
<1>4. /\ Len(got) + Len(q) + Len(rest) = Len(y) + 1
      /\ \A i \in DOMAIN q : q[i] = Sent(y, Len(got) + i)
      /\ \A i \in DOMAIN rest : rest[i] = Sent(y, Len(got) + Len(q) + i)
  BY DEF OnTheWay
<1> HIDE DEF got2, q2
<1>5. IsStart(got2, y)
  <2>1. \A i \in 1 .. Len(got) : got[i] = y[i]
    BY DEF IsStart
  <2>2. ASSUME NEW i \in 1 .. (Len(got) + 1) PROVE got2[i] = y[i]
    <3>1. i \in 1 .. Len(got) \/ i = Len(got) + 1
      BY <1>1
    <3> QED
      BY <1>1, <1>2, <2>1, <3>1
  <2> QED
    BY <1>1, <1>2, <2>2 DEF IsStart
<1>6. OnTheWay(y, got2, q2, rest)
  <2>1. Len(got2) + Len(q2) + Len(rest) = Len(y) + 1
    <3>1. Len(got) + Len(q) + Len(rest) = Len(y) + 1
      BY <1>4
    <3>2. Len(got2) + Len(q2) = Len(got) + Len(q)
      BY <1>1, <1>2, <1>3
    <3> QED
      BY <3>1, <3>2
  <2>2. ASSUME NEW i \in DOMAIN q2 PROVE q2[i] = Sent(y, Len(got2) + i)
    <3>1. Len(got) + (i + 1) = Len(got2) + i
      BY <1>1, <1>2, <1>3
    <3> QED
      BY <1>3, <1>4, <3>1
  <2>3. ASSUME NEW i \in DOMAIN rest PROVE rest[i] = Sent(y, Len(got2) + Len(q2) + i)
    <3>1. Len(got2) + Len(q2) = Len(got) + Len(q)
      BY <1>1, <1>2, <1>3
    <3> QED
      BY <1>4, <3>1
  <2> QED
    BY <2>1, <2>2, <2>3 DEF OnTheWay
<1> QED
  BY <1>5, <1>6 DEF got2, q2

\* What the worker puts stays in order.
LEMMA PutsItem ==
  ASSUME NEW q \in Seq(Items), NEW rest \in Seq(Items), rest # <<>>
  PROVE  /\ Append(q, Head(rest)) \o Tail(rest) = q \o rest
         /\ \A y \in Seq(Chunks), got \in Seq(Chunks) :
              OnTheWay(y, got, q, rest) => OnTheWay(y, got, Append(q, Head(rest)), Tail(rest))
<1> DEFINE q2 == Append(q, Head(rest))
           rest2 == Tail(rest)
<1>1. Len(q) \in Nat /\ Len(rest) \in Nat /\ 1 \in DOMAIN rest
  OBVIOUS
<1>2. /\ Len(q2) = Len(q) + 1 /\ DOMAIN q2 = 1 .. (Len(q) + 1)
      /\ \A i \in DOMAIN q2 : \/ i \in DOMAIN q /\ q2[i] = q[i]
                              \/ i = Len(q) + 1 /\ q2[i] = rest[1]
  OBVIOUS
<1>3. /\ Len(rest2) = Len(rest) - 1 /\ DOMAIN rest2 = 1 .. (Len(rest) - 1)
      /\ \A i \in DOMAIN rest2 : rest2[i] = rest[i + 1] /\ i + 1 \in DOMAIN rest
  OBVIOUS
<1>4. q2 \o rest2 = q \o rest
  <2>1. /\ Head(rest) \in Items /\ rest2 \in Seq(Items)
        /\ rest = <<Head(rest)>> \o rest2
    OBVIOUS
  <2>2. <<Head(rest)>> \in Seq(Items)
    BY <2>1
  <2>3. q2 = q \o <<Head(rest)>>
    BY <2>1, AppendIsConcat
  <2> HIDE DEF q2, rest2
  <2>4. (q \o <<Head(rest)>>) \o rest2 = q \o (<<Head(rest)>> \o rest2)
    BY <2>1, <2>2, ConcatAssociative
  <2> QED
    BY <2>1, <2>3, <2>4
<1>5. ASSUME NEW y \in Seq(Chunks), NEW got \in Seq(Chunks), OnTheWay(y, got, q, rest)
      PROVE  OnTheWay(y, got, q2, rest2)
  <2> HIDE DEF q2, rest2
  <2>1. /\ Len(got) + Len(q) + Len(rest) = Len(y) + 1
        /\ \A i \in DOMAIN q : q[i] = Sent(y, Len(got) + i)
        /\ \A i \in DOMAIN rest : rest[i] = Sent(y, Len(got) + Len(q) + i)
    BY <1>5 DEF OnTheWay
  <2>2. Len(got) \in Nat
    OBVIOUS
  <2>3. Len(got) + Len(q2) + Len(rest2) = Len(y) + 1
    <3>1. Len(got) + Len(q) + Len(rest) = Len(y) + 1
      BY <2>1
    <3>2. Len(q2) = Len(q) + 1 /\ Len(rest2) = Len(rest) - 1
      BY <1>2, <1>3
    <3> QED
      BY <1>1, <2>2, <3>1, <3>2
  <2>4. \A i \in DOMAIN q2 : q2[i] = Sent(y, Len(got) + i)
    <3>1. rest[1] = Sent(y, Len(got) + (Len(q) + 1))
      <4>1. Len(got) + Len(q) + 1 = Len(got) + (Len(q) + 1)
        BY <1>1, <2>2
      <4> QED
        BY <1>1, <2>1, <4>1
    <3> QED
      BY <1>2, <2>1, <3>1
  <2>5. ASSUME NEW i \in DOMAIN rest2 PROVE rest2[i] = Sent(y, Len(got) + Len(q2) + i)
    <3>1. Len(got) + Len(q) + (i + 1) = Len(got) + Len(q2) + i
      BY <1>1, <1>2, <1>3, <2>2
    <3> QED
      BY <1>3, <2>1, <3>1
  <2> QED
    BY <2>3, <2>4, <2>5 DEF OnTheWay
<1> HIDE DEF q2, rest2
<1>6. \A y \in Seq(Chunks), got \in Seq(Chunks) : OnTheWay(y, got, q, rest) => OnTheWay(y, got, q2, rest2)
  BY <1>5
<1> QED
  BY <1>4, <1>6 DEF q2, rest2

LEMMA LastWordsIs ==
  ASSUME NEW k \in {"retryable", "fatal"}, NEW q \in Seq(Items), NEW rest \in Seq(Items),
         q \o rest = LastWords(k), q # <<>>
  PROVE  Head(q).kind = k
<1>1. Head(q) = q[1] /\ (q \o rest)[1] = q[1]
  OBVIOUS
<1>2. LastWords(k)[1] = Error(k)
  BY DEF LastWords
<1> QED
  BY <1>1, <1>2 DEF Error

\* The end of an exchange a worker has read: all of it is on its way.
LEMMA AllOnTheWay ==
  ASSUME NEW y \in Seq(Chunks)
  PROVE  OnTheWay(y, <<>>, <<>>, y \o <<End>>)
<1>1. <<End>> \in Seq(Items) /\ y \in Seq(Items)
  BY ValuesOK, SeqMonotonic
<1>2. /\ Len(y \o <<End>>) = Len(y) + 1 /\ Len(y) \in Nat
      /\ DOMAIN (y \o <<End>>) = 1 .. (Len(y) + 1)
      /\ \A i \in 1 .. (Len(y) + 1) : (y \o <<End>>)[i] = IF i <= Len(y) THEN y[i] ELSE End
  BY <1>1
<1> QED
  BY <1>2 DEF OnTheWay, Sent

LEMMA FlowsGot ==
  ASSUME TypeOK, NEW c \in Calls, Stands(c), Flows(c), Got(c)
  PROVE  Flows(c)'
<1> DEFINE item == Head(queue[c])
           y == yielded[c]
           got == chunks[c]
           q == queue[c]
           rest == unsent[c]
<1>1. /\ Settings /\ Upstreams(c) /\ rest' = rest /\ job[c] = "get" /\ q # <<>> /\ q' = Tail(q)
      /\ \/ /\ pc[c] = "closed" /\ job'[c] = "none" /\ got' = got /\ Still(c)
         \/ /\ pc[c] # "closed" /\ item.kind \in {"retryable", "fatal"} /\ job'[c] = "none"
            /\ got' = got
            /\ Closing(c, Raised(item.kind), NoResponse, NoResponse)
         \/ /\ pc[c] # "closed" /\ item.kind = "end" /\ job'[c] = "join"
            /\ got' = got /\ Still(c)
         \/ /\ pc[c] # "closed" /\ item.kind \notin {"end", "retryable", "fatal"} /\ job'[c] = "get"
            /\ got' = (IF item.kind = "chunk" THEN Append(got, item) ELSE got)
            /\ Still(c)
  BY GotIs
<1>2. /\ streamed[c] /\ Blocking /\ ~active[c] /\ pc[c] # "idle" /\ pc[c] # "reading"
      /\ outcome[c] \in {"unavailable", "error", "done"} => FALSE
  BY <1>1 DEF Stands, Flows
<1>3. /\ y \in Seq(Chunks) /\ got \in Seq(Chunks) /\ q \in Seq(Items) /\ rest \in Seq(Items)
      /\ pc[c] \in {"idle", "waiting", "reading", "closed"}
  BY FlowTypes DEF TypeOK
<1>4. y' = y /\ active'[c] = active[c] /\ streamed' = streamed /\ Blocking' = Blocking
  BY <1>1 DEF Settings, Upstreams, Blocking
<1>5. IsStart(got, y)
  BY DEF Flows, Begins
<1>6. CASE pc[c] = "closed"
  <2>1. got' = got /\ Still(c)
    BY <1>1, <1>6
  <2>2. IsStart(got', y')
    BY <1>4, <1>5, <2>1
  <2> QED
    BY <1>2, <1>4, <1>6, <2>1, <2>2 DEF Flows, Begins, Still, BooksKept
<1>7. CASE pc[c] # "closed"
  <2>1. pc[c] = "waiting"
    BY <1>2, <1>3, <1>7
  <2>2. CASE Failing(c)
    <3>1. got = <<>> /\ \E k \in {"retryable", "fatal"} : q \o rest = LastWords(k)
      BY <2>2 DEF Failing
    <3>2. item.kind \in {"retryable", "fatal"}
      BY <1>1, <1>3, <3>1, LastWordsIs
    <3>3. got' = <<>> /\ Closing(c, Raised(item.kind), NoResponse, NoResponse)
      BY <1>1, <1>7, <3>1, <3>2
    <3>4. pc'[c] = "closed" /\ outcome'[c] \in {"unavailable", "error"}
      BY <3>3, RaisedOK DEF Closing
    <3>5. IsStart(got', y')
      BY <1>4, <1>5, <3>1, <3>3
    <3> HIDE DEF item, got, y
    <3> QED
      BY <1>2, <1>4, <3>3, <3>4, <3>5 DEF Flows, Begins, got, y
  <2>3. CASE Delivering(c)
    <3>1. OnTheWay(y, got, q, rest)
      BY <2>3 DEF Delivering
    <3>2. \/ Len(got) < Len(y) /\ item = y[Len(got) + 1] /\ item \in Chunks
          \/ item = End /\ got = y
      BY <1>1, <1>3, <1>5, <3>1, NextItem
    <3>3. CASE Len(got) < Len(y) /\ item = y[Len(got) + 1] /\ item \in Chunks
      <4>1. item.kind = "chunk"
        BY <3>3 DEF Chunks
      <4>2. job'[c] = "get" /\ got' = Append(got, item) /\ Still(c)
        BY <1>1, <1>7, <4>1
      <4>3. OnTheWay(y', got', q', rest') /\ IsStart(got', y')
        BY <1>1, <1>3, <1>4, <1>5, <3>1, <3>3, <4>2, TakesItem
      <4>4. pc'[c] = "waiting" /\ outcome'[c] = outcome[c] /\ Delivering(c)' /\ Begins(c)'
        BY <2>1, <4>2, <4>3 DEF Still, BooksKept, Delivering, Begins
      <4> QED
        BY <1>2, <1>4, <4>2, <4>4 DEF Flows
    <3>4. CASE item = End /\ got = y
      <4>1. item.kind = "end"
        BY <3>4 DEF End
      <4>2. job'[c] = "join" /\ got' = got /\ Still(c)
        BY <1>1, <1>7, <4>1
      <4>3. got' = y' /\ IsStart(got', y') /\ pc'[c] = "waiting" /\ outcome'[c] = outcome[c]
        BY <1>4, <1>5, <2>1, <3>4, <4>2 DEF Still, BooksKept
      <4> QED
        BY <1>2, <1>4, <4>2, <4>3 DEF Flows, Begins
    <3> QED
      BY <3>2, <3>3, <3>4
  <2> QED
    BY <1>1, <1>2, <2>1, <2>2, <2>3 DEF Flows
<1> QED
  BY <1>6, <1>7

LEMMA FlowsPut ==
  ASSUME TypeOK, NEW c \in Calls, Stands(c), Flows(c), Put(c)
  PROVE  Flows(c)'
<1>1. /\ Settings /\ Still(c) /\ Upstreams(c) /\ job'[c] = job[c] /\ chunks'[c] = chunks[c]
      /\ unsent[c] # <<>> /\ queue'[c] = Append(queue[c], Head(unsent[c])) /\ unsent'[c] = Tail(unsent[c])
  BY PutIs
<1>2. /\ yielded[c] \in Seq(Chunks) /\ chunks[c] \in Seq(Chunks)
      /\ queue[c] \in Seq(Items) /\ unsent[c] \in Seq(Items)
  BY FlowTypes
<1>3. Begins(c)'
  BY <1>1 DEF Flows, Begins, Upstreams
<1>4. Delivering(c) => Delivering(c)'
  BY <1>1, <1>2, PutsItem DEF Delivering, Upstreams
<1>5. Failing(c) => Failing(c)'
  BY <1>1, <1>2, PutsItem DEF Failing
<1>6. /\ Blocking' = Blocking /\ streamed' = streamed /\ active'[c] = active[c]
      /\ pc'[c] = pc[c] /\ outcome'[c] = outcome[c] /\ yielded'[c] = yielded[c]
  BY <1>1 DEF Settings, Still, BooksKept, Upstreams, Blocking
<1> QED
  BY <1>1, <1>3, <1>4, <1>5, <1>6 DEF Flows

LEMMA FlowsReceive ==
  ASSUME TypeOK, NEW c \in Calls, NEW e \in Events, Stands(c), Flows(c), Receive(c, e)
  PROVE  Flows(c)'
<1> DEFINE made == Made(c, e)
<1>1. /\ Settings /\ Still(c) /\ active[c] /\ active'[c] = active[c] /\ job'[c] = job[c]
      /\ yielded'[c] = yielded[c] \o made
      /\ chunks'[c] = IF streamed[c] /\ ~Blocking THEN chunks[c] \o made ELSE chunks[c]
      /\ unsent'[c] = unsent[c] /\ queue'[c] = queue[c]
  BY ReceiveIs
<1>2. yielded[c] \in Seq(Chunks) /\ made \in Seq(Chunks)
  BY FlowTypes, MadeIs
<1>3. /\ Blocking' = Blocking /\ streamed' = streamed /\ pc'[c] = pc[c] /\ outcome'[c] = outcome[c]
      /\ pc[c] # "idle"
  BY <1>1 DEF Settings, Still, BooksKept, Blocking, Stands
<1> HIDE DEF made
<1>4. CASE streamed[c] /\ ~Blocking
  <2>1. chunks'[c] = yielded'[c] /\ yielded'[c] \in Seq(Chunks)
    <3>1. chunks[c] = yielded[c]
      BY <1>4 DEF Flows
    <3>2. chunks'[c] = chunks[c] \o made
      BY <1>1, <1>4
    <3>3. yielded[c] \o made \in Seq(Chunks)
      BY <1>2
    <3> QED
      BY <1>1, <3>1, <3>2, <3>3
  <2>2. Begins(c)'
    BY <2>1 DEF Begins, IsStart
  <2> QED
    BY <1>3, <1>4, <2>1, <2>2 DEF Flows
<1>5. CASE ~(streamed[c] /\ ~Blocking)
  <2>1. chunks'[c] = <<>>
    BY <1>1, <1>5 DEF Flows
  <2>2. yielded'[c] \in Seq(Chunks)
    BY <1>1, <1>2
  <2>3. Begins(c)'
    BY <2>1, <2>2 DEF Begins, IsStart
  <2>4. outcome[c] \notin {"unavailable", "error", "done"} /\ (streamed[c] => job[c] # "join")
    BY <1>1 DEF Stands
  <2>5. streamed[c] => queue[c] = <<>> /\ unsent[c] = <<>>
    BY <1>1, <1>5 DEF Flows
  <2> QED
    BY <1>1, <1>3, <1>5, <2>1, <2>3, <2>4, <2>5 DEF Flows
<1> QED
  BY <1>4, <1>5

LEMMA FlowsFinish ==
  ASSUME TypeOK, NEW c \in Calls, Stands(c), Flows(c), Finish(c)
  PROVE  Flows(c)'
<1>1. /\ Settings /\ Shut(c) /\ active[c] /\ yielded'[c] = Collected(c)
      /\ queue'[c] = queue[c] /\ chunks'[c] = chunks[c]
  BY FinishIs
<1>2. Collected(c) \in Seq(Chunks) /\ yielded[c] \in Seq(Chunks)
  BY CollectedOK, FlowTypes
<1>3. Blocking' = Blocking /\ streamed' = streamed /\ pc[c] # "idle"
  BY <1>1 DEF Settings, Blocking, Stands
<1>4. CASE streamed[c] /\ Blocking
  <2>1. Still(c) /\ job'[c] = job[c] /\ unsent'[c] = Collected(c) \o <<End>>
    BY <1>4, FinishIs
  <2>2. chunks[c] = <<>> /\ queue[c] = <<>>
    BY <1>1, <1>4 DEF Flows
  <2>3. Delivering(c)'
    BY <1>1, <1>2, <2>1, <2>2, AllOnTheWay DEF Delivering
  <2>4. Begins(c)'
    BY <1>1, <1>2, <2>2 DEF Begins, IsStart
  <2>5. pc'[c] = pc[c] /\ outcome'[c] = outcome[c] /\ active'[c] = FALSE /\ job'[c] # "join"
        /\ outcome[c] \notin {"unavailable", "error", "done"}
    BY <1>1, <1>4, <2>1 DEF Still, BooksKept, Shut, Stands
  <2> QED
    BY <1>1, <1>3, <1>4, <2>2, <2>3, <2>4, <2>5 DEF Flows
<1>5. CASE streamed[c] /\ ~Blocking
  <2>1. Collected(c) = yielded[c]
    <3>1. Terminal(last[c]) = <<>>
      BY <1>5 DEF Stands, Terminal
    <3> QED
      BY <1>2, <3>1 DEF Collected
  <2>2. chunks'[c] = yielded'[c] /\ Begins(c)'
    BY <1>1, <1>5, <2>1 DEF Flows, Begins
  <2>3. pc'[c] = "closed"
    BY <1>5, FinishIs, StreamDoneIs DEF Closing
  <2> QED
    BY <1>3, <1>5, <2>2, <2>3 DEF Flows
<1>6. CASE ~streamed[c]
  <2>1. chunks'[c] = <<>>
    BY <1>1, <1>6 DEF Flows
  <2>2. Begins(c)'
    BY <1>1, <1>2, <2>1 DEF Begins, IsStart
  <2> QED
    BY <1>3, <1>6, <2>1, <2>2 DEF Flows
<1> QED
  BY <1>4, <1>5, <1>6

LEMMA FlowsFail ==
  ASSUME TypeOK, NEW c \in Calls, NEW k \in {"retryable", "fatal"}, Stands(c), Flows(c), Fail(c, k)
  PROVE  Flows(c)'
<1>1. Settings /\ active[c] /\ queue'[c] = queue[c] /\ chunks'[c] = chunks[c]
  BY FailIs
<1>2. Blocking' = Blocking /\ streamed' = streamed /\ pc[c] # "idle"
  BY <1>1 DEF Settings, Blocking, Stands
<1>3. ASSUME NEW stream, Blocking \/ ~streamed[c], Opened(c, stream), Still(c), unsent'[c] = unsent[c]
      PROVE  Flows(c)'
  <2>1. Flowing(c) /\ BooksKept(c)
    BY <1>1, <1>3 DEF Flowing, Still
  <2> QED
    BY <1>1, <1>3, <2>1, FlowsOpened
<1>4. CASE /\ streamed[c] /\ Blocking /\ Shut(c) /\ yielded'[c] = yielded[c]
           /\ unsent'[c] = LastWords(k) /\ Still(c) /\ job'[c] = job[c]
  <2>1. chunks[c] = <<>> /\ queue[c] = <<>>
    BY <1>1, <1>4 DEF Flows
  <2>2. Failing(c)'
    <3>1. LastWords(k) \in Seq(Items)
      BY ValuesOK DEF LastWords
    <3>2. <<>> \o LastWords(k) = LastWords(k)
      BY <3>1, ConcatEmptySeq
    <3> QED
      BY <1>1, <1>4, <2>1, <3>2 DEF Failing, LastWords
  <2>3. Begins(c)'
    BY <1>1, <1>4 DEF Flows, Begins
  <2>4. /\ pc'[c] = pc[c] /\ outcome'[c] = outcome[c] /\ active'[c] = FALSE /\ job'[c] # "join"
        /\ outcome[c] \notin {"unavailable", "error", "done"}
    BY <1>1, <1>4 DEF Still, BooksKept, Shut, Stands
  <2> QED
    BY <1>1, <1>2, <1>4, <2>1, <2>2, <2>3, <2>4 DEF Flows
<1>5. CASE ~(streamed[c] /\ Blocking) /\ Shut(c) /\ yielded'[c] = yielded[c] /\ pc'[c] # "idle"
  <2>1. Begins(c)'
    BY <1>1, <1>5 DEF Flows, Begins
  <2> QED
    BY <1>1, <1>2, <1>5, <2>1 DEF Flows
<1> QED
  BY <1>2, <1>3, <1>4, <1>5, FailIs DEF Still, Closing

LEMMA FlowsStep ==
  ASSUME TypeOK, NEW c \in Calls, Stands(c), Flows(c), Acts(c)
  PROVE  Flows(c)'
<1>1. CASE Start(c)
  <2>1. /\ Settings /\ BooksKept(c) /\ Flowing(c) /\ pc[c] = "idle" /\ pc'[c] # "idle"
        /\ job'[c] = IF ~Blocking THEN "none" ELSE IF streamed[c] THEN "get" ELSE "complete"
    BY <1>1, StartIs
  <2>2. CASE Blocking /\ ~streamed[c]
    <3>1. Upstreams(c) /\ Blocking' /\ ~streamed'[c]
      BY <1>1, <2>1, <2>2, StartIs DEF Settings, Blocking
    <3>2. Begins(c)' /\ chunks'[c] = <<>>
      BY <2>1, <2>2, <3>1 DEF Flows, Flowing, Begins, Upstreams
    <3> QED
      BY <3>1, <3>2 DEF Flows
  <2>3. CASE ~(Blocking /\ ~streamed[c])
    <3>1. Opened(c, streamed[c] \/ wants[c])
      BY <1>1, <2>3, StartIs
    <3> QED
      BY <2>1, <3>1, FlowsOpened
  <2> QED
    BY <2>2, <2>3
<1>2. CASE TakeThread(c)
  <2>1. Settings /\ Still(c) /\ Flowing(c) /\ job[c] # "none" /\ job'[c] = job[c]
    BY <1>2, TakeThreadIs
  <2>2. CASE job[c] = "complete"
    <3>1. Opened(c, streamed[c] \/ wants[c]) /\ ~streamed[c]
      BY <1>2, <2>2, TakeThreadIs DEF Stands
    <3> QED
      BY <2>1, <3>1, FlowsOpened DEF Still
  <2>3. CASE job[c] # "complete"
    BY <1>2, <2>1, <2>3, TakeThreadIs, FlowsRest
  <2> QED
    BY <2>2, <2>3
<1>3. CASE Got(c)
  BY <1>3, FlowsGot
<1>4. CASE Joined(c)
  <2>1. /\ Settings /\ Upstreams(c) /\ Flowing(c)
        /\ job[c] = "join" /\ job'[c] = "none" /\ ~active[c] /\ unsent[c] = <<>>
        /\ IF pc[c] = "closed" THEN Still(c) ELSE StreamDone(c)
    BY <1>4, JoinedIs
  <2>2. Begins(c)' /\ chunks'[c] = chunks[c] /\ yielded'[c] = yielded[c]
    BY <2>1 DEF Flows, Begins, Flowing, Upstreams
  <2>3. Blocking /\ streamed[c] /\ Blocking' /\ streamed'[c]
    BY <2>1 DEF Settings, Stands, Blocking
  <2>4. pc[c] \in {"waiting", "closed"} /\ active'[c] = active[c]
    BY <2>1, <2>3 DEF TypeOK, Stands, Upstreams
  <2>5. CASE pc[c] = "closed"
    BY <2>1, <2>2, <2>3, <2>4, <2>5 DEF Flows, Still, BooksKept
  <2>6. CASE pc[c] = "waiting"
    <3>1. chunks[c] = yielded[c]
      BY <2>1, <2>3, <2>6 DEF Flows
    <3>2. pc'[c] = "closed" /\ outcome'[c] = "done"
      BY <2>1, <2>6, StreamDoneIs DEF Closing
    <3> QED
      BY <2>1, <2>2, <2>3, <2>4, <3>1, <3>2 DEF Flows
  <2> QED
    BY <2>4, <2>5, <2>6
<1>5. CASE Disconnect(c)
  <2>1. /\ Settings /\ Flowing(c) /\ pc'[c] = "closed" /\ outcome'[c] = "abandoned"
        /\ active'[c] = (active[c] /\ Blocking) /\ yielded'[c] = yielded[c]
    BY <1>5, DisconnectIs DEF Closing
  <2>2. Begins(c)' /\ Blocking' = Blocking /\ streamed' = streamed
    BY <2>1 DEF Flows, Begins, Flowing, Settings, Blocking
  <2> QED
    BY <2>1, <2>2 DEF Flows, Flowing
<1>6. ASSUME NEW e \in Events, Receive(c, e) PROVE Flows(c)'
  BY <1>6, FlowsReceive
<1>7. CASE Finish(c)
  BY <1>7, FlowsFinish
<1>8. CASE Answered(c)
  <2>1. /\ Settings /\ ~streamed[c] /\ yielded'[c] = yielded[c] /\ Flowing(c)
    BY <1>8, AnsweredIs DEF Stands
  <2>2. Begins(c)' /\ ~streamed'[c] /\ chunks'[c] = <<>>
    BY <2>1 DEF Flows, Begins, Flowing, Settings
  <2> QED
    BY <2>2 DEF Flows
<1>9. ASSUME NEW k \in {"retryable", "fatal"}, Fail(c, k) PROVE Flows(c)'
  BY <1>9, FlowsFail
<1>10. CASE Put(c)
  BY <1>10, FlowsPut
<1> QED
  BY <1>1, <1>2, <1>3, <1>4, <1>5, <1>6, <1>7, <1>8, <1>9, <1>10 DEF Acts, Work

-----------------------------------------------------------------------------
(***************************************************************************)
(* What a call reports.                                                    *)
(***************************************************************************)
LEMMA TextsAnswered ==
  ASSUME NEW c, NEW out, NEW texts, NEW finish, NEW usage, NEW m,
         Closing(c, out, Response(texts, finish, usage), m)
  PROVE  answer'[c].texts = texts
BY DEF Closing, Response

\* A call that has ended stays as it ended, and has no exchange any more
\* unless it was given up.
LEMMA RespondsStep ==
  ASSUME TypeOK, NEW c \in Calls, Stands(c), Flows(c), Responds(c), Acts(c)
  PROVE  Responds(c)'
<1>1. ASSUME outcome'[c] # "done" PROVE Responds(c)'
  BY <1>1 DEF Responds
<1>2. ASSUME BooksKept(c), outcome[c] = "open" PROVE Responds(c)'
  BY <1>1, <1>2 DEF BooksKept
<1>3. ASSUME Upstreams(c), Still(c) PROVE Responds(c)'
  BY <1>3 DEF Responds, Upstreams, Still, BooksKept
<1>4. ASSUME active[c], BooksKept(c) PROVE Responds(c)'
  BY <1>1, <1>4 DEF Stands, BooksKept
<1>5. CASE Start(c)
  BY <1>2, <1>5, StartIs DEF Stands
<1>6. CASE TakeThread(c)
  <2>1. outcome[c] # "done"
    BY <1>6, TakeThreadIs DEF Stands
  <2> QED
    BY <1>1, <1>6, <2>1, TakeThreadIs DEF Still, BooksKept
<1>7. CASE Got(c)
  BY <1>1, <1>3, <1>7, GotIs, RaisedOK DEF Closing
<1>8. CASE Joined(c)
  <2>1. CASE pc[c] = "closed"
    BY <1>3, <1>8, <2>1, JoinedIs
  <2>2. CASE pc[c] # "closed"
    <3>1. StreamDone(c) /\ Upstreams(c) /\ job[c] = "join"
      BY <1>8, <2>2, JoinedIs
    <3>2. answer'[c].texts = TextsOf(chunks[c])
      BY <3>1, StreamDoneIs, TextsAnswered
    <3>3. pc[c] = "waiting" /\ streamed[c] /\ Blocking
      BY <2>2, <3>1 DEF Stands, TypeOK
    <3>4. chunks[c] = yielded[c] /\ yielded'[c] = yielded[c]
      BY <3>1, <3>3 DEF Flows, Upstreams
    <3>5. answer'[c].texts = TextsOf(yielded'[c])
      BY <3>2, <3>4
    <3> QED
      BY <3>5 DEF Responds, TextsOf
  <2> QED
    BY <2>1, <2>2
<1>9. CASE Disconnect(c)
  BY <1>1, <1>9, DisconnectIs DEF Closing
<1>10. ASSUME NEW e \in Events, Receive(c, e) PROVE Responds(c)'
  BY <1>4, <1>10, ReceiveIs DEF Still
<1>11. CASE Finish(c)
  <2>1. active[c] /\ yielded'[c] = Collected(c)
    BY <1>11, FinishIs
  <2>2. CASE streamed[c] /\ Blocking
    BY <1>4, <1>11, <2>1, <2>2, FinishIs DEF Still
  <2>3. CASE streamed[c] /\ ~Blocking
    <3>1. answer'[c].texts = TextsOf(chunks[c])
      BY <1>11, <2>3, FinishIs, StreamDoneIs, TextsAnswered
    <3>2. chunks[c] = Collected(c)
      <4>1. chunks[c] = yielded[c] /\ Terminal(last[c]) = <<>> /\ yielded[c] \in Seq(Chunks)
        BY <2>3, FlowTypes DEF Flows, Stands, Terminal
      <4> QED
        BY <4>1 DEF Collected
    <3>3. answer'[c].texts = TextsOf(yielded'[c])
      BY <2>1, <3>1, <3>2
    <3> QED
      BY <3>3 DEF Responds, TextsOf
  <2>4. CASE ~streamed[c]
    <3> DEFINE m == Metadata(Collected(c))
               r == Response(TextsOf(Collected(c)), m.finish, m.usage)
    <3>1. (pc[c] = "closed" /\ Still(c)) \/ Closing(c, "done", r, r)
      BY <1>11, <2>4, FinishIs
    <3>2. ASSUME Closing(c, "done", r, r) PROVE Responds(c)'
      <4>1. answer'[c].texts = TextsOf(Collected(c))
        BY <3>2, TextsAnswered
      <4> QED
        BY <2>1, <4>1 DEF Responds, TextsOf
    <3> HIDE DEF r
    <3> QED
      BY <1>4, <2>1, <3>1, <3>2 DEF Still
  <2> QED
    BY <2>2, <2>3, <2>4
<1>12. CASE Answered(c)
  <2>1. mode'[c] = FALSE
    BY <1>12, AnsweredIs DEF Shut, TypeOK
  <2> QED
    BY <2>1 DEF Responds
<1>13. ASSUME NEW k \in {"retryable", "fatal"}, Fail(c, k) PROVE Responds(c)'
  BY <1>1, <1>4, <1>13, FailIs, RaisedOK DEF Still, Closing
<1>14. CASE Put(c)
  BY <1>3, <1>14, PutIs
<1> QED
  BY <1>5, <1>6, <1>7, <1>8, <1>9, <1>10, <1>11, <1>12, <1>13, <1>14 DEF Acts, Work

\* A call is counted when it ends, and had not been before.
LEMMA ReportsKept ==
  ASSUME NEW c, Reports(c), BooksKept(c), chunks'[c] = chunks[c] \/ outcome[c] # "done"
  PROVE  Reports(c)'
BY DEF Reports, BooksKept, Scattered

LEMMA ReportsFailure ==
  ASSUME NEW c, Stands(c), Reports(c), pc[c] # "closed",
         NEW out \in {"unavailable", "error", "abandoned"}, NEW resp, NEW m, Closing(c, out, resp, m)
  PROVE  Reports(c)'
<1>1. metered[c] = <<>> /\ logged[c] = <<>>
  BY DEF Stands, Reports
<1>2. outcome'[c] = out /\ logged'[c] = <<>> /\ metered'[c] = <<>> \o Counted(out)
  BY <1>1 DEF Closing
<1>3. CASE out = "abandoned"
  BY <1>2, <1>3, CountedIs DEF Reports
<1>4. CASE out # "abandoned"
  <2>1. metered'[c] = <<"error">>
    BY <1>2, <1>4, CountedIs
  <2> QED
    BY <1>2, <1>4, <2>1 DEF Reports
<1> QED
  BY <1>3, <1>4

LEMMA ReportsSuccess ==
  ASSUME NEW c, Stands(c), Reports(c), pc[c] # "closed", NEW resp, NEW m, Closing(c, "done", resp, m),
         [finish |-> m.finish, usage |-> m.usage] = [finish |-> resp.finish, usage |-> resp.usage]
           \/ Scattered(c)'
  PROVE  Reports(c)'
<1> DEFINE record == [finish |-> m.finish, usage |-> m.usage]
<1>1. metered[c] = <<>> /\ logged[c] = <<>>
  BY DEF Stands, Reports
<1>2. outcome'[c] = "done" /\ answer'[c] = resp /\ logged'[c] = Append(<<>>, record)
      /\ metered'[c] = <<>> \o <<"success">>
  BY <1>1, CountedIs DEF Closing
<1>3. metered'[c] = <<"success">>
  BY <1>2
<1> HIDE DEF record
<1>4. Len(logged'[c]) = 1 /\ logged'[c][1] = record
  BY <1>2
<1>5. \/ logged'[c][1] = [finish |-> answer'[c].finish, usage |-> answer'[c].usage]
      \/ Scattered(c)'
  BY <1>2, <1>4 DEF record
<1> QED
  BY <1>2, <1>3, <1>4, <1>5 DEF Reports

\* What a stream's caller and the observer read from its chunks.
LEMMA ReportsStream ==
  ASSUME TypeOK, NEW c \in Calls, Stands(c), Yields(c), Flows(c), Reports(c), pc[c] # "closed",
         StreamDone(c), chunks'[c] = chunks[c]
  PROVE  Reports(c)'
<1> DEFINE cs == chunks[c]
           m == Metadata(cs)
           a == AuditedMetadata(cs)
           texts == TextsOf(cs)
           resp == Response(texts, m.finish, m.usage)
<1>1. Closing(c, "done", resp, a)
  BY StreamDoneIs
<1>2. cs \in Seq(Chunks)
  BY FlowTypes
<1>3. \A i \in DOMAIN cs : cs[i].text # None => cs[i].finish = None /\ cs[i].usage = None
  <2>1. yielded[c] \in Seq(Chunks)
    BY FlowTypes
  <2>2. \A i \in DOMAIN cs : i \in DOMAIN yielded[c] /\ cs[i] = yielded[c][i]
    BY <1>2, <2>1 DEF Flows, Begins, IsStart
  <2> QED
    BY <2>2 DEF Yields
<1>4. \/ m = a
      \/ \E i, j \in DOMAIN cs : i < j /\ cs[i].text = None /\ cs[j].text = None
  BY <1>2, <1>3, GatheredAgree
<1>5. m = a \/ Scattered(c)'
  BY <1>4 DEF Scattered
<1> HIDE DEF m, a, texts
<1>6. resp.finish = m.finish /\ resp.usage = m.usage
  BY DEF Response
<1> HIDE DEF resp
<1> QED
  BY <1>1, <1>5, <1>6, ReportsSuccess

LEMMA ReportsStep ==
  ASSUME TypeOK, NEW c \in Calls, Stands(c), Yields(c), Flows(c), Reports(c), Acts(c)
  PROVE  Reports(c)'
<1>1. CASE Start(c)
  BY <1>1, StartIs, ReportsKept DEF Flowing
<1>2. CASE TakeThread(c)
  BY <1>2, TakeThreadIs, ReportsKept DEF Flowing, Still
<1>3. CASE Got(c)
  <2>1. CASE Still(c)
    <3>1. chunks'[c] = chunks[c] \/ outcome[c] # "done"
      BY <1>3, GotIs DEF Stands
    <3> QED
      BY <2>1, <3>1, ReportsKept DEF Still
  <2>2. ASSUME NEW out, pc[c] # "closed", Closing(c, Raised(out), NoResponse, NoResponse) PROVE Reports(c)'
    BY <2>2, RaisedOK, ReportsFailure
  <2> QED
    BY <1>3, <2>1, <2>2, GotIs
<1>4. CASE Joined(c)
  <2>1. chunks'[c] = chunks[c] /\ IF pc[c] = "closed" THEN Still(c) ELSE StreamDone(c)
    BY <1>4, JoinedIs DEF Flowing
  <2> QED
    BY <2>1, ReportsKept, ReportsStream DEF Still
<1>5. CASE Disconnect(c)
  BY <1>5, DisconnectIs, ReportsFailure
<1>6. ASSUME NEW e \in Events, Receive(c, e) PROVE Reports(c)'
  <2>1. Still(c) /\ outcome[c] # "done"
    BY <1>6, ReceiveIs DEF Stands
  <2> QED
    BY <2>1, ReportsKept DEF Still
<1>7. CASE Finish(c)
  <2>1. chunks'[c] = chunks[c] /\ active[c]
    BY <1>7, FinishIs
  <2>2. CASE streamed[c] /\ Blocking
    BY <1>7, <2>1, <2>2, FinishIs, ReportsKept DEF Still
  <2>3. CASE streamed[c] /\ ~Blocking
    <3>1. StreamDone(c) /\ pc[c] # "closed"
      BY <1>7, <2>1, <2>3, FinishIs DEF Stands
    <3> QED
      BY <2>1, <3>1, ReportsStream
  <2>4. CASE ~streamed[c]
    <3> DEFINE m == Metadata(Collected(c))
               r == Response(TextsOf(Collected(c)), m.finish, m.usage)
    <3>1. \/ pc[c] = "closed" /\ Still(c)
          \/ pc[c] # "closed" /\ Closing(c, "done", r, r)
      BY <1>7, <2>4, FinishIs
    <3> HIDE DEF r
    <3> QED
      BY <2>1, <3>1, ReportsKept, ReportsSuccess DEF Still
  <2> QED
    BY <2>2, <2>3, <2>4
<1>8. CASE Answered(c)
  <2>1. PICK r : \/ pc[c] = "closed" /\ Still(c)
                 \/ pc[c] # "closed" /\ Closing(c, "done", r, r)
    BY <1>8, AnsweredIs
  <2>2. chunks'[c] = chunks[c]
    BY <1>8, AnsweredIs DEF Flowing
  <2> QED
    BY <2>1, <2>2, ReportsKept, ReportsSuccess DEF Still
<1>9. ASSUME NEW k \in {"retryable", "fatal"}, Fail(c, k) PROVE Reports(c)'
  <2>1. chunks'[c] = chunks[c]
    BY <1>9, FailIs
  <2>2. CASE Still(c)
    BY <2>1, <2>2, ReportsKept DEF Still
  <2>3. CASE pc[c] # "closed" /\ Closing(c, Raised(k), NoResponse, NoResponse)
    BY <2>3, RaisedOK, ReportsFailure
  <2> QED
    BY <1>9, <2>2, <2>3, FailIs
<1>10. CASE Put(c)
  BY <1>10, PutIs, ReportsKept DEF Still
<1> QED
  BY <1>1, <1>2, <1>3, <1>4, <1>5, <1>6, <1>7, <1>8, <1>9, <1>10 DEF Acts, Work

-----------------------------------------------------------------------------
(***************************************************************************)
(* The invariant, and what follows from it.                                *)
(***************************************************************************)
CallOK(c) == Stands(c) /\ Yields(c) /\ Flows(c) /\ Responds(c) /\ Reports(c)

CallInv == TypeOK /\ \A c \in Calls : CallOK(c)

LEMMA CallInit == Init => CallInv
<1> SUFFICES ASSUME Init PROVE CallInv
  OBVIOUS
<1>1. TypeOK
  BY TypeInit
<1>2. ASSUME NEW c \in Calls PROVE CallOK(c)
  <2>1. /\ pc[c] = "idle" /\ job[c] = "none" /\ active[c] = FALSE /\ mode = streamed
        /\ last[c] = Nothing /\ yielded[c] = <<>> /\ unsent[c] = <<>> /\ queue[c] = <<>>
        /\ chunks[c] = <<>> /\ metered[c] = <<>> /\ logged[c] = <<>> /\ outcome[c] = "open"
    BY DEF Init
  <2>2. Stands(c) /\ Yields(c) /\ Responds(c) /\ Reports(c)
    BY <2>1 DEF Stands, Yields, Responds, Reports
  <2>3. Flows(c)
    BY <2>1 DEF Flows, Begins, IsStart
  <2> QED
    BY <2>2, <2>3 DEF CallOK
<1> QED
  BY <1>1, <1>2 DEF CallInv

LEMMA CallStep == CallInv /\ [Next]_vars => CallInv'
<1> SUFFICES ASSUME CallInv, [Next]_vars PROVE CallInv'
  OBVIOUS
<1>1. TypeOK /\ \A c \in Calls : CallOK(c)
  BY DEF CallInv
<1>2. CASE UNCHANGED vars
  <2>1. TypeOK'
    BY <1>1, <1>2 DEF vars, TypeOK, fixed, upstream, books
  <2>2. \A c \in Calls : Same(c)
    BY <1>2 DEF vars, fixed, upstream, books, Same
  <2> QED
    BY <1>1, <2>1, <2>2, SameKeeps DEF CallInv, CallOK
<1>3. ASSUME NEW c \in Calls, Acts(c) PROVE CallInv'
  <2>1. TypeOK'
    BY <1>1, <1>3, TypeStep
  <2>2. CallOK(c)'
    BY <1>1, <1>3, StandsStep, YieldsStep, FlowsStep, RespondsStep, ReportsStep DEF CallOK
  <2>3. ASSUME NEW d \in Calls \ {c} PROVE CallOK(d)'
    BY <1>1, <1>3, <2>3, OthersKeep, SameKeeps DEF CallOK
  <2> QED
    BY <2>1, <2>2, <2>3 DEF CallInv
<1> QED
  BY <1>2, <1>3 DEF Next, Acts

LEMMA CallsOK == Spec => []CallInv
BY CallInit, CallStep, PTL DEF Spec

\* Whatever a caller is handed is of one exchange, from its start and without
\* a gap, through any number of attempts, fallbacks and other calls.
THEOREM HandedFromOneExchange == Spec => []OneExchange
<1>1. CallInv => OneExchange
  <2> SUFFICES ASSUME CallInv, NEW c \in Calls
               PROVE  /\ IsPrefix(chunks[c], yielded[c])
                      /\ \A i \in DOMAIN chunks[c] : OfExchange(chunks[c][i].text, exchange[c])
                      /\ outcome[c] = "done" /\ mode[c] => answer[c].texts = TextsOf(yielded[c])
                      /\ Blocking /\ streamed[c] /\ outcome[c] \in {"unavailable", "error"} => chunks[c] = <<>>
    BY DEF OneExchange
  <2>1. yielded[c] \in Seq(Chunks) /\ chunks[c] \in Seq(Chunks)
    BY FlowTypes DEF CallInv
  <2>2. Yields(c) /\ Flows(c) /\ Responds(c)
    BY DEF CallInv, CallOK
  <2>3. Len(chunks[c]) <= Len(yielded[c]) /\ \A i \in 1 .. Len(chunks[c]) : chunks[c][i] = yielded[c][i]
    BY <2>1, <2>2 DEF Flows, Begins, IsStart
  <2>4. IsPrefix(chunks[c], yielded[c])
    <3>1. SubSeq(yielded[c], 1, Len(chunks[c])) = chunks[c]
      BY <2>1, <2>3
    <3> QED
      BY <2>1, <2>3, <3>1 DEF IsPrefix
  <2>5. \A i \in DOMAIN chunks[c] : OfExchange(chunks[c][i].text, exchange[c])
    BY <2>1, <2>2, <2>3 DEF Yields
  <2> QED
    BY <2>2, <2>4, <2>5 DEF Flows, Responds
<1> QED
  BY <1>1, CallsOK, PTL

\* Every call is counted once and as what it ended as, and its usage record
\* says what its response says unless the vendor spread usage and reason.
THEOREM CountedAsReported == Spec => []MeteredAsReported
<1>1. CallInv => MeteredAsReported
  BY DEF CallInv, CallOK, Reports, MeteredAsReported
<1> QED
  BY <1>1, CallsOK, PTL

\* Through a worker the exception does not arise: usage and reason are told
\* in one chunk at the end, so the two functions find the same.
GatheredThroughWorkers ==
  \A c \in Calls : Blocking /\ streamed[c] /\ outcome[c] = "done" =>
    logged[c] = <<[finish |-> answer[c].finish, usage |-> answer[c].usage]>>

THEOREM WorkersAgree == Spec => []GatheredThroughWorkers
<1>1. ASSUME CallInv, NEW c \in Calls, Blocking, streamed[c], outcome[c] = "done"
      PROVE  logged[c] = <<[finish |-> answer[c].finish, usage |-> answer[c].usage]>>
  <2>1. /\ yielded[c] \in Seq(Chunks) /\ chunks[c] = yielded[c] /\ Yields(c) /\ Reports(c)
        /\ logged[c] \in Seq(Metadatas)
    BY <1>1, FlowTypes DEF CallInv, CallOK, Flows, TypeOK
  <2>2. ~Scattered(c)
    BY <1>1, <2>1 DEF Yields, Scattered
  <2>3. Len(logged[c]) = 1 /\ logged[c][1] = [finish |-> answer[c].finish, usage |-> answer[c].usage]
    BY <1>1, <2>1, <2>2 DEF Reports
  <2> QED
    BY <2>1, <2>3
<1>2. CallInv => GatheredThroughWorkers
  BY <1>1 DEF GatheredThroughWorkers
<1> QED
  BY <1>2, CallsOK, PTL
=============================================================================
