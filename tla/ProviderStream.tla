--------------------------- MODULE ProviderStream ---------------------------
(***************************************************************************)
(* Completions through a language model provider: plain and streamed calls *)
(* of several clients, with retries, the fallback from a streamed exchange *)
(* to a plain one, the worker thread with its queue, and the observer that *)
(* meters every call.                                                      *)
(*                                                                         *)
(* An exchange is one request to the vendor.  Its events are told apart by *)
(* <<exchange, position>>, so that it shows where a chunk came from.  The  *)
(* providers of Groq and OpenRouter wrap a blocking client: a plain call   *)
(* runs in the event loop's thread pool, a streamed one in a thread of its *)
(* own that first reads a whole exchange, with retries, and then puts its  *)
(* chunks into a queue, from which the event loop takes them one by one,   *)
(* waiting in the pool.  The provider of OpenAI has an asynchronous client *)
(* and passes chunks on as they arrive.                                    *)
(***************************************************************************)
EXTENDS Naturals, Sequences, FiniteSets, SequencesExt

CONSTANTS Calls,       \* clients' calls
          Vendors,     \* which of "blocking" and "async" clients are tried
          Events,      \* the events a stream may consist of
          MaxEvents,   \* bound: events of one exchange of each call
          MaxRetries,  \* groq_max_retries, openai_max_retries, ...
          PoolSize     \* threads of the event loop's default executor

None == <<0, 0>>

ASSUME EventsAssumption ==
  Events \subseteq [choices : BOOLEAN, text : BOOLEAN, finish : BOOLEAN, usage : BOOLEAN]
ASSUME BoundsAssumption == MaxRetries \in Nat /\ MaxEvents \in [Calls -> Nat] /\ PoolSize \in Nat \ {0}

VARIABLES
  vendor,    \* the kind of client, fixed
  streamed,  \* per call: complete_stream, or complete
  wants,     \* per call: LLMRequest.stream, which complete looks at
  pc,        \* per call: idle, waiting (for a job), reading (async), closed
  job,       \* per call: what it has asked the pool to do
  running,   \* the calls whose job holds a thread of the pool
  attempt,   \* per call: attempts made, 0 before the first
  exchange,  \* per call: requests sent to the vendor
  active,    \* per call: whether an exchange is under way
  mode,      \* per call: whether that exchange is streamed
  heard,     \* per call: the number of its events so far
  last,      \* per call: the last finish reason and usage read from them
  yielded,   \* per call: the chunks iter_sdk_stream_chunks made of them
  unsent,    \* per call: what the worker has still to put into the queue
  queue,     \* per call: sync_queue
  chunks,    \* per call: the chunks handed to the caller
  metered,   \* per call: outcomes counted by record_llm_request
  logged,    \* per call: llm_usage records
  outcome,   \* per call: open, done, unavailable, error, abandoned
  answer     \* per call: the response, or the result of the stream

fixed == <<vendor, streamed, wants>>
upstream == <<attempt, exchange, active, mode, heard, last, yielded>>
books == <<metered, logged, outcome, answer>>
vars == <<fixed, pc, job, running, upstream, unsent, queue, chunks, books>>

Chunk(text, finish, usage) == [kind |-> "chunk", text |-> text, finish |-> finish, usage |-> usage]
End == [kind |-> "end"]
Error(k) == [kind |-> k]
Response(texts, finish, usage) == [texts |-> texts, finish |-> finish, usage |-> usage]
NoResponse == Response(<<>>, None, None)

(***************************************************************************)
(* Chunks.                                                                 *)
(***************************************************************************)
\* join_stream_text; a chunk without text adds nothing.
TextsOf(cs) == [i \in DOMAIN cs |-> cs[i].text]

\* iter_sdk_stream_chunks, event by event: the text of a delta, what is known
\* of finish reason and usage after it, and the chunk that tells them at the
\* end, if there is any.  Events without choices are skipped.
Nothing == [finish |-> None, usage |-> None]
Delta(at, e) == IF e.choices /\ e.text THEN <<Chunk(at, None, None)>> ELSE <<>>
Learned(known, at, e) ==
  [finish |-> IF e.choices /\ e.finish THEN at ELSE known.finish,
   usage |-> IF e.choices /\ e.usage THEN at ELSE known.usage]
Terminal(known) == IF known = Nothing THEN <<>> ELSE <<Chunk(None, known.finish, known.usage)>>

\* terminal_stream_metadata, read from the last chunk to the first: what is
\* found is overwritten until a chunk with usage is met and a reason known.
Metadata(cs) ==
  LET reasons == {i \in DOMAIN cs : cs[i].finish # None}
      used == {i \in DOMAIN cs : cs[i].usage # None}
      stops == {i \in used : \E j \in reasons : i <= j}
      Earliest(S) == CHOOSE i \in S : (\A p \in stops : p <= i)
                                     /\ \A j \in S : (\A p \in stops : p <= j) => i <= j
  IN  [finish |-> IF reasons = {} THEN None ELSE cs[Earliest(reasons)].finish,
       usage |-> IF used = {} THEN None ELSE cs[Earliest(used)].usage]

\* Mutation: the observer looks at usage, and stops, before it looks at the reason.
AuditedUsageFirst(cs) ==
  LET used == {i \in DOMAIN cs : cs[i].usage # None}
      latest == IF used = {} THEN 0 ELSE CHOOSE i \in used : \A j \in used : j <= i
      ended == {i \in DOMAIN cs : i > latest /\ cs[i].finish # None}
  IN  [finish |-> IF ended = {} THEN None
                  ELSE cs[CHOOSE i \in ended : \A j \in ended : j <= i].finish,
       usage |-> IF latest = 0 THEN None ELSE cs[latest].usage]

\* terminal_stream_usage, which the observer uses: from the last chunk on,
\* the first reason met, until the first usage.
AuditedMetadata(cs) ==
  LET used == {i \in DOMAIN cs : cs[i].usage # None}
      latest == IF used = {} THEN 0 ELSE CHOOSE i \in used : \A j \in used : j <= i
      ended == {i \in DOMAIN cs : i >= latest /\ cs[i].finish # None}
  IN  [finish |-> IF ended = {} THEN None
                  ELSE cs[CHOOSE i \in ended : \A j \in ended : j <= i].finish,
       usage |-> IF latest = 0 THEN None ELSE cs[latest].usage]

(***************************************************************************)
(* Ends of calls, with the observer's records.                             *)
(***************************************************************************)
Blocking == vendor = "blocking"

Counted(out) == CASE out = "done" -> <<"success">>
                  [] out \in {"unavailable", "error"} -> <<"error">>
                  [] OTHER -> <<>>

\* The call ends towards its caller: r is the response as returned, m its
\* usage and finish reason as the observer reads them.
Ended(c, out, r, m) ==
  /\ pc' = [pc EXCEPT ![c] = "closed"]
  /\ outcome' = [outcome EXCEPT ![c] = out]
  /\ answer' = [answer EXCEPT ![c] = r]
  /\ metered' = [metered EXCEPT ![c] = @ \o Counted(out)]
  /\ logged' = [logged EXCEPT ![c] =
                 IF out = "done"
                 THEN Append(@, [finish |-> m.finish, usage |-> m.usage]) ELSE @]

\* A blocking call that was given up returns to nobody.
Returns(c, out, r) ==
  IF pc[c] = "closed" THEN UNCHANGED <<pc, books>> ELSE Ended(c, out, r, r)

StreamDone(c) ==
  LET m == Metadata(chunks[c])
  IN  Ended(c, "done", Response(TextsOf(chunks[c]), m.finish, m.usage),
            AuditedMetadata(chunks[c]))

Raised(k) == IF k = "retryable" THEN "unavailable" ELSE "error"

(***************************************************************************)
(* The caller.                                                             *)
(***************************************************************************)
Init ==
  /\ vendor \in Vendors
  /\ streamed \in [Calls -> BOOLEAN] /\ wants \in [Calls -> BOOLEAN]
  /\ \A c \in Calls : streamed[c] => ~wants[c]
  /\ pc = [c \in Calls |-> "idle"] /\ job = [c \in Calls |-> "none"] /\ running = {}
  /\ attempt = [c \in Calls |-> 0] /\ exchange = [c \in Calls |-> 0]
  /\ active = [c \in Calls |-> FALSE] /\ mode = streamed
  /\ heard = [c \in Calls |-> 0] /\ last = [c \in Calls |-> Nothing]
  /\ yielded = [c \in Calls |-> <<>>]
  /\ unsent = [c \in Calls |-> <<>>] /\ queue = [c \in Calls |-> <<>>]
  /\ chunks = [c \in Calls |-> <<>>]
  /\ metered = [c \in Calls |-> <<>>] /\ logged = [c \in Calls |-> <<>>]
  /\ outcome = [c \in Calls |-> "open"] /\ answer = [c \in Calls |-> NoResponse]

\* Another request to the vendor, of attempt n.
Opens(c, n, stream) ==
  /\ attempt' = [attempt EXCEPT ![c] = n]
  /\ exchange' = [exchange EXCEPT ![c] = @ + 1]
  /\ active' = [active EXCEPT ![c] = TRUE]
  /\ mode' = [mode EXCEPT ![c] = stream]
  /\ heard' = [heard EXCEPT ![c] = 0]
  /\ last' = [last EXCEPT ![c] = Nothing]
  /\ yielded' = [yielded EXCEPT ![c] = <<>>]

OpensAttempt(c) == Opens(c, attempt[c] + 1, streamed[c] \/ wants[c])

\* complete or complete_stream is called.  A streamed call of a blocking
\* client starts its worker and asks the pool to wait for the queue.
Start(c) ==
  /\ pc[c] = "idle"
  /\ pc' = [pc EXCEPT ![c] = IF Blocking THEN "waiting" ELSE "reading"]
  /\ job' = [job EXCEPT ![c] = IF ~Blocking THEN "none"
                              ELSE IF streamed[c] THEN "get" ELSE "complete"]
  /\ IF Blocking /\ ~streamed[c] THEN UNCHANGED upstream ELSE OpensAttempt(c)
  /\ UNCHANGED <<fixed, running, unsent, queue, chunks, books>>

\* asyncio.to_thread: a job gets one of the pool's threads.
TakeThread(c) ==
  /\ job[c] # "none" /\ c \notin running /\ Cardinality(running) < PoolSize
  /\ running' = running \cup {c}
  /\ IF job[c] = "complete" THEN OpensAttempt(c) ELSE UNCHANGED upstream
  /\ UNCHANGED <<fixed, pc, job, unsent, queue, chunks, books>>

\* What sync_queue.get returned is handed to the caller, who asks for the
\* next, or ends the stream.
Got(c) ==
  /\ job[c] = "get" /\ c \in running /\ queue[c] # <<>>
  /\ running' = running \ {c}
  /\ queue' = [queue EXCEPT ![c] = Tail(@)]
  /\ LET item == Head(queue[c])
         gone == pc[c] = "closed"
     IN  /\ job' = [job EXCEPT ![c] =
                     IF gone \/ item.kind \in {"retryable", "fatal"} THEN "none"
                     ELSE IF item.kind = "end" THEN "join" ELSE "get"]
         /\ chunks' = [chunks EXCEPT ![c] =
                        IF item.kind = "chunk" /\ ~gone THEN Append(@, item) ELSE @]
         /\ IF item.kind \in {"retryable", "fatal"} /\ ~gone
            THEN Ended(c, Raised(item.kind), NoResponse, NoResponse)
            ELSE UNCHANGED <<pc, books>>
  /\ UNCHANGED <<fixed, upstream, unsent>>

\* thread.join returned: the stream is over.
Joined(c) ==
  /\ job[c] = "join" /\ c \in running /\ ~active[c] /\ unsent[c] = <<>>
  /\ running' = running \ {c}
  /\ job' = [job EXCEPT ![c] = "none"]
  /\ IF pc[c] = "closed" THEN UNCHANGED <<pc, books>> ELSE StreamDone(c)
  /\ UNCHANGED <<fixed, upstream, unsent, queue, chunks>>

\* The client hangs up and its task is cancelled.  A job without a thread is
\* withdrawn, one that has a thread goes on; so does the worker.
Disconnect(c) ==
  /\ pc[c] \in {"waiting", "reading"}
  /\ Ended(c, "abandoned", NoResponse, NoResponse)
  /\ job' = [job EXCEPT ![c] = IF c \in running THEN @ ELSE "none"]
  /\ active' = [active EXCEPT ![c] = @ /\ Blocking]
  /\ UNCHANGED <<fixed, running, attempt, exchange, mode, heard, last, yielded, unsent, queue, chunks>>

(***************************************************************************)
(* Exchanges: in the worker, in the pool, or in the event loop.            *)
(***************************************************************************)
\* A blocking client's stream goes through one iterator, which tells the
\* reason and the usage at its end; each event of the other through its own.
Receive(c, e) ==
  /\ active[c] /\ mode[c] /\ heard[c] < MaxEvents[c]
  /\ LET at == <<exchange[c], heard[c] + 1>>
         made == Delta(at, e) \o IF Blocking THEN <<>> ELSE Terminal(Learned(Nothing, at, e))
     IN  /\ yielded' = [yielded EXCEPT ![c] = @ \o made]
         /\ last' = [last EXCEPT ![c] = IF Blocking THEN Learned(@, at, e) ELSE @]
         /\ chunks' = [chunks EXCEPT ![c] = IF streamed[c] /\ ~Blocking THEN @ \o made ELSE @]
  /\ heard' = [heard EXCEPT ![c] = @ + 1]
  /\ UNCHANGED <<fixed, pc, job, running, attempt, exchange, active, mode, unsent, queue, books>>

\* The thread of a blocking plain call is free again.
FreesThread(c) ==
  /\ running' = running \ {c}
  /\ job' = [job EXCEPT ![c] = IF streamed[c] THEN @ ELSE "none"]

Closes(c) ==
  /\ active' = [active EXCEPT ![c] = FALSE]
  /\ UNCHANGED <<attempt, exchange, mode, heard, last>>

\* What a streamed exchange has yielded when it is read to its end.
Collected(c) == yielded[c] \o Terminal(last[c])

\* The stream of events comes to its end.
Finish(c) ==
  /\ active[c] /\ mode[c] /\ Closes(c)
  /\ yielded' = [yielded EXCEPT ![c] = Collected(c)]
  /\ \/ /\ streamed[c] /\ Blocking
        /\ unsent' = [unsent EXCEPT ![c] = Collected(c) \o <<End>>]
        /\ UNCHANGED <<pc, job, running, books>>
     \/ /\ streamed[c] /\ ~Blocking
        /\ StreamDone(c)
        /\ UNCHANGED <<job, running, unsent>>
     \/ /\ ~streamed[c]
        /\ LET m == Metadata(Collected(c))
           IN  Returns(c, "done", Response(TextsOf(Collected(c)), m.finish, m.usage))
        /\ IF Blocking THEN FreesThread(c) ELSE UNCHANGED <<job, running>>
        /\ UNCHANGED unsent
  /\ UNCHANGED <<fixed, queue, chunks>>

\* A plain exchange is answered; usage may be missing.
Answered(c) ==
  /\ active[c] /\ ~mode[c] /\ Closes(c) /\ UNCHANGED yielded
  /\ LET at == <<exchange[c], 1>>
     IN  \E usage \in {None, at} : Returns(c, "done", Response(<<at>>, at, usage))
  /\ IF Blocking THEN FreesThread(c) ELSE UNCHANGED <<job, running>>
  /\ UNCHANGED <<fixed, unsent, queue, chunks>>

\* Mutation: the stream of the asynchronous client is retried like the others.
RetriesStreams(c, k) == k = "retryable" /\ attempt[c] <= MaxRetries

\* Whether a failed attempt is repeated.  The asynchronous stream is not.
Retries(c, k) == k = "retryable" /\ attempt[c] <= MaxRetries /\ (Blocking \/ ~streamed[c])

\* Mutation: a worker that fails puts nothing.
LastWordsNone(k) == <<>>

\* What the worker puts after its last attempt has failed.
LastWords(k) == <<Error(k), End>>

\* An exchange fails, before its first event or after any.  complete falls
\* back from a streamed exchange to a plain one within the attempt; then the
\* attempt is repeated, or the call fails.
Fail(c, k) ==
  /\ active[c]
  /\ \/ /\ mode[c] /\ ~streamed[c]
        /\ Opens(c, attempt[c], FALSE)
        /\ UNCHANGED <<pc, job, running, unsent, books>>
     \/ /\ mode[c] = streamed[c]  /\ Retries(c, k)
        /\ OpensAttempt(c)
        /\ UNCHANGED <<pc, job, running, unsent, books>>
     \/ /\ mode[c] = streamed[c] /\ ~Retries(c, k) /\ Closes(c) /\ UNCHANGED yielded
        /\ \/ /\ streamed[c] /\ Blocking
              /\ unsent' = [unsent EXCEPT ![c] = LastWords(k)]
              /\ UNCHANGED <<pc, job, running, books>>
           \/ /\ ~(streamed[c] /\ Blocking)
              /\ Returns(c, Raised(k), NoResponse)
              /\ IF Blocking THEN FreesThread(c) ELSE UNCHANGED <<job, running>>
              /\ UNCHANGED unsent
  /\ UNCHANGED <<fixed, queue, chunks>>

\* The worker puts the next item.
Put(c) ==
  /\ unsent[c] # <<>>
  /\ queue' = [queue EXCEPT ![c] = Append(@, Head(unsent[c]))]
  /\ unsent' = [unsent EXCEPT ![c] = Tail(@)]
  /\ UNCHANGED <<fixed, pc, job, running, upstream, chunks, books>>

Work(c) ==
  \/ TakeThread(c) \/ Got(c) \/ Joined(c) \/ Put(c)
  \/ Finish(c) \/ Answered(c)
  \/ \E e \in Events : Receive(c, e)
  \/ \E k \in {"retryable", "fatal"} : Fail(c, k)

Next == \E c \in Calls : Start(c) \/ Work(c) \/ Disconnect(c)

Spec == Init /\ [][Next]_vars /\ \A c \in Calls : WF_vars(Work(c))

(***************************************************************************)
(* Properties.                                                             *)
(***************************************************************************)
Places == Nat \X Nat
Chunks == [kind : {"chunk"}, text : Places, finish : Places, usage : Places]
Items == Chunks \cup {End} \cup {Error(k) : k \in {"retryable", "fatal"}}
Metadatas == [finish : Places, usage : Places]
Responses == [texts : Seq(Places), finish : Places, usage : Places]

\* The shape of the state.
TypeOK ==
  /\ vendor \in Vendors
  /\ streamed \in [Calls -> BOOLEAN] /\ wants \in [Calls -> BOOLEAN]
  /\ pc \in [Calls -> {"idle", "waiting", "reading", "closed"}]
  /\ job \in [Calls -> {"none", "get", "join", "complete"}] /\ running \subseteq Calls
  /\ attempt \in [Calls -> Nat] /\ exchange \in [Calls -> Nat]
  /\ active \in [Calls -> BOOLEAN] /\ mode \in [Calls -> BOOLEAN]
  /\ heard \in [Calls -> Nat] /\ last \in [Calls -> Metadatas]
  /\ yielded \in [Calls -> Seq(Chunks)] /\ chunks \in [Calls -> Seq(Chunks)]
  /\ unsent \in [Calls -> Seq(Items)] /\ queue \in [Calls -> Seq(Items)]
  /\ metered \in [Calls -> Seq({"success", "error"})] /\ logged \in [Calls -> Seq(Metadatas)]
  /\ outcome \in [Calls -> {"open", "done", "unavailable", "error", "abandoned"}]
  /\ answer \in [Calls -> Responses]

\* What a caller has been handed, chunk by chunk or as a response, is that of
\* one exchange with the vendor, from its start and without a gap, however
\* often the provider tried again or fell back; and a blocking client's
\* stream that fails has handed out nothing.
OfExchange(at, n) == at = None \/ at[1] = n
OneExchange ==
  \A c \in Calls :
    /\ IsPrefix(chunks[c], yielded[c])
    /\ \A i \in DOMAIN chunks[c] : OfExchange(chunks[c][i].text, exchange[c])
    /\ outcome[c] = "done" /\ mode[c] => answer[c].texts = TextsOf(yielded[c])
    /\ Blocking /\ streamed[c] /\ outcome[c] \in {"unavailable", "error"} => chunks[c] = <<>>

\* A call is counted once, when it ends and as what it ended as, however many
\* exchanges it took, and not at all when its client gave it up.  A success
\* has one usage record, which says of usage and finish reason what the
\* response says, unless the vendor spread them over several events that
\* were passed on one by one: then the two functions that read them differ.
Scattered(c) == \E i, j \in DOMAIN chunks[c] : i < j /\ chunks[c][i].text = None /\ chunks[c][j].text = None
MeteredAsReported ==
  \A c \in Calls :
    /\ outcome[c] = "done" =>
         /\ metered[c] = <<"success">> /\ Len(logged[c]) = 1
         /\ \/ logged[c][1] = [finish |-> answer[c].finish, usage |-> answer[c].usage]
            \/ Scattered(c)
    /\ outcome[c] \in {"unavailable", "error"} => metered[c] = <<"error">> /\ logged[c] = <<>>
    /\ outcome[c] \in {"open", "abandoned"} => metered[c] = <<>> /\ logged[c] = <<>>

\* Every call that was made ends, and leaves neither a worker nor a thread of
\* the pool behind, also when its client has gone.
Settled(c) == pc[c] = "idle" \/ ( /\ pc[c] = "closed" /\ c \notin running
                                  /\ ~active[c] /\ unsent[c] = <<>> )
CallsEnd == <>[](\A c \in Calls : Settled(c))
=============================================================================
