---------------------------- MODULE ChatSessions ----------------------------
(***************************************************************************)
(* Chat turns and the history of the session they belong to: the routes    *)
(* POST /chat, POST /chat/stream and DELETE /chat/sessions/{id},           *)
(* ChatSessionUseCase, and the two session stores.  Sessions share nothing *)
(* but the store, so one session is modelled, from its creation on.        *)
(*                                                                         *)
(* The memory store never suspends, so a whole exchange is one step there. *)
(* With Redis every command is a suspension point: turns, deletions and    *)
(* the expiry of the session's two keys interleave between commands, a     *)
(* command may fail, and the client of a stream may hang up.  What the     *)
(* pipeline does until it answers is AskPipeline's business.               *)
(***************************************************************************)
EXTENDS Naturals, Sequences, SequencesExt

CONSTANTS
    Turns,          \* the chat calls made in the session
    MaxMessages     \* chat_session_max_messages

ASSUME MaxMessagesAssumption == MaxMessages \in Nat /\ MaxMessages >= 2

VARIABLES
    backend,    \* the store the application was built with
    stream,     \* stream[t]: the turn came through POST /chat/stream
    header,     \* does the session's own entry exist?
    count,      \* its message_count
    messages,   \* its message list
    newer,      \* Redis: the key whose expiry was set last
    pc,         \* pc[t]: where the turn is
    role,       \* role[t]: the message of the exchange being appended
    text,       \* text[t]: the answer the pipeline gave
    counted,    \* counted[t]: the list length the turn has read
    out,        \* out[t]: how the turn ended for its client
    trimmed,    \* history: messages the cap has dropped
    erased,     \* history: messages a deletion or an expiry has dropped
    disturbed,  \* history: an exchange was overlapped or cut short in Redis
    unseen      \* history: turns the session left after they had re-read it

session == <<header, count, messages, newer>>
turn    == <<pc, role, text, counted, out>>
history == <<trimmed, erased, disturbed, unseen>>
vars    == <<backend, stream, session, turn, history>>

Message(t, who) == [turn |-> t, role |-> who]
Messages == [turn : Turns, role : {"user", "assistant"}]

Init ==
    /\ backend \in {"memory", "redis"}
    /\ stream \in [Turns -> BOOLEAN]
    /\ header = TRUE
    /\ count = 0
    /\ messages = <<>>
    /\ newer = "header"
    /\ pc = [t \in Turns |-> "idle"]
    /\ role = [t \in Turns |-> "user"]
    /\ text = [t \in Turns |-> "none"]
    /\ counted = [t \in Turns |-> 0]
    /\ out = [t \in Turns |-> "open"]
    /\ trimmed = {}
    /\ erased = {}
    /\ disturbed = FALSE
    /\ unseen = {}

-----------------------------------------------------------------------------
Goto(t, l) == pc' = [pc EXCEPT ![t] = l]

End(t, how) ==
    /\ out' = [out EXCEPT ![t] = how]
    /\ Goto(t, "end")

\* The exchange raises: a plain call's client gets an error response, while a
\* stream, whose response has begun, just stops.
Raise(t) == End(t, IF stream[t] THEN "broken" ELSE "raised")

\* Recorded: the done event is sent, or the response returned.
Finish(t) == End(t, IF stream[t] THEN "done" ELSE "returned")

\* A Redis exchange has passed its limit check and is appending.
Appending == {"exists", "push", "reread", "llen", "write"}

\* It has pushed a message that its session entry does not count yet, or the
\* question without its answer.
HalfDone(t) ==
    \/ pc[t] \in {"reread", "llen", "write"}
    \/ pc[t] \in Appending /\ role[t] = "assistant"

-----------------------------------------------------------------------------
\* The route requires the session before it starts to answer.
Arrive(t) ==
    /\ pc[t] = "idle"
    /\ IF header
       THEN Goto(t, "asking") /\ UNCHANGED out
       ELSE End(t, "refused")
    /\ UNCHANGED <<backend, stream, session, role, text, counted, history>>

\* The pipeline fails; a stream passes its error event on.
AskFails(t) ==
    /\ pc[t] = "asking"
    /\ End(t, IF stream[t] THEN "error" ELSE "raised")
    /\ UNCHANGED <<backend, stream, session, role, text, counted, history>>

\* record_exchange counts on room for both messages.
Fits == count + 2 <= MaxMessages

\* Mutation: an exchange is stored answer first.
ExchangeReversed(t, answer) ==
    (IF answer = "text" THEN <<Message(t, "assistant")>> ELSE <<>>)
        \o <<Message(t, "user")>>

\* The messages the memory store keeps of an exchange.  A message may not be
\* empty, and that is found out once the question is appended.
Exchange(t, answer) ==
    <<Message(t, "user")>>
        \o (IF answer = "text" THEN <<Message(t, "assistant")>> ELSE <<>>)

\* Mutation: the done event goes out before the exchange is recorded.
RecordInMemoryLate(t, answer) ==
    IF header /\ Fits
    THEN /\ messages' = messages \o Exchange(t, answer)
         /\ count' = Len(messages')
         /\ Finish(t)
    ELSE Finish(t) /\ UNCHANGED <<count, messages>>

\* The memory store records the exchange without suspending.
RecordInMemory(t, answer) ==
    IF header /\ Fits
    THEN /\ messages' = messages \o Exchange(t, answer)
         /\ count' = Len(messages')
         /\ IF answer = "text" THEN Finish(t) ELSE Raise(t)
    ELSE Raise(t) /\ UNCHANGED <<count, messages>>

\* The pipeline answers; the answer may be empty.
Answered(t) ==
    /\ pc[t] = "asking"
    /\ \E answer \in {"text", "empty"} :
          /\ text' = [text EXCEPT ![t] = answer]
          /\ \/ backend = "memory" /\ RecordInMemory(t, answer)
             \/ backend = "redis" /\ Goto(t, "require") /\ UNCHANGED <<count, messages, out>>
    /\ UNCHANGED <<backend, stream, header, newer, role, counted, history>>

-----------------------------------------------------------------------------
(***************************************************************************)
(* The exchange in Redis, one command at a time.                           *)
(***************************************************************************)

\* GET of the session entry, then the limit check.
Require(t) ==
    /\ pc[t] = "require"
    /\ IF header /\ Fits
       THEN Goto(t, "exists") /\ UNCHANGED out
       ELSE Raise(t)
    /\ disturbed' = (disturbed \/ (header /\ Fits /\ \E q \in Turns : pc[q] \in Appending))
    /\ UNCHANGED <<backend, stream, session, role, text, counted, trimmed, erased, unseen>>

\* EXISTS; the message is built first, and an empty one is refused.
Exists(t) ==
    /\ pc[t] = "exists"
    /\ IF header /\ ~(role[t] = "assistant" /\ text[t] = "empty")
       THEN Goto(t, "push") /\ UNCHANGED out
       ELSE Raise(t)
    /\ UNCHANGED <<backend, stream, session, role, text, counted, history>>

\* Mutation: the list is never trimmed.
LastOfUntrimmed(s, n) == s

\* The last n elements of s.
LastOf(s, n) == IF Len(s) > n THEN SubSeq(s, Len(s) - n + 1, Len(s)) ELSE s

\* MULTI: RPUSH, LTRIM to the cap, EXPIRE.  It creates a missing list.
Push(t) ==
    /\ pc[t] = "push"
    /\ LET pushed == Append(messages, Message(t, role[t]))
           kept   == LastOf(pushed, MaxMessages)
       IN  /\ messages' = kept
           /\ trimmed' = trimmed \cup (ToSet(pushed) \ ToSet(kept))
    /\ newer' = "list"
    /\ Goto(t, "reread")
    /\ UNCHANGED <<backend, stream, header, count, role, text, counted, out, erased, disturbed, unseen>>

\* Mutation: a turn waits for its session to come back.
RereadWaits(t) ==
    /\ pc[t] = "reread"
    /\ header
    /\ Goto(t, "llen")
    /\ UNCHANGED <<backend, stream, session, role, text, counted, out, history>>

\* Mutation: the session is not looked up again.
RereadSkipped(t) ==
    /\ pc[t] = "reread"
    /\ Goto(t, "llen")
    /\ UNCHANGED <<backend, stream, session, role, text, counted, out, history>>

\* GET of the session entry again.
Reread(t) ==
    /\ pc[t] = "reread"
    /\ IF header THEN Goto(t, "llen") /\ UNCHANGED out ELSE Raise(t)
    /\ UNCHANGED <<backend, stream, session, role, text, counted, history>>

\* Mutation: the count is taken from the entry instead of the list.
LlenStale(t) ==
    /\ pc[t] = "llen"
    /\ counted' = [counted EXCEPT ![t] = count]
    /\ Goto(t, "write")
    /\ UNCHANGED <<backend, stream, session, role, text, out, history>>

Llen(t) ==
    /\ pc[t] = "llen"
    /\ counted' = [counted EXCEPT ![t] = Len(messages)]
    /\ Goto(t, "write")
    /\ UNCHANGED <<backend, stream, session, role, text, out, history>>

\* SET of the entry with the new count; it creates a missing entry.  Then the
\* exchange goes on with the answer, or is done.
Write(t) ==
    /\ pc[t] = "write"
    /\ header' = TRUE
    /\ count' = counted[t]
    /\ newer' = "header"
    /\ IF role[t] = "user"
       THEN /\ role' = [role EXCEPT ![t] = "assistant"]
            /\ Goto(t, "exists")
            /\ UNCHANGED out
       ELSE Finish(t) /\ UNCHANGED role
    /\ unseen' = unseen \ {t}
    /\ UNCHANGED <<backend, stream, messages, text, counted, trimmed, erased, disturbed>>

-----------------------------------------------------------------------------
\* A Redis command fails: the connection is lost or times out.  Before the
\* route has required the session the client gets a plain error response.
RedisFails(t) ==
    /\ backend = "redis"
    /\ \/ pc[t] = "idle" /\ End(t, "refused")
       \/ pc[t] \in Appending \cup {"require"} /\ Raise(t)
    /\ disturbed' = (disturbed \/ HalfDone(t))
    /\ UNCHANGED <<backend, stream, session, role, text, counted, trimmed, erased, unseen>>

\* The client of a stream hangs up and the turn is cancelled where it waits.
Disconnect(t) ==
    /\ stream[t]
    /\ pc[t] \notin {"idle", "end"}
    /\ End(t, "abandoned")
    /\ disturbed' = (disturbed \/ HalfDone(t))
    /\ UNCHANGED <<backend, stream, session, role, text, counted, trimmed, erased, unseen>>

\* The session's messages, or some key of it, go while exchanges are under way.
Overtakes == disturbed' = (disturbed \/ \E t \in Turns : pc[t] \in Appending)

\* The session entry goes; some turns will not look it up again.
LoseHeader ==
    /\ header' = FALSE
    /\ count' = 0
    /\ unseen' = unseen \cup {t \in Turns : pc[t] \in {"llen", "write"}}
    /\ Overtakes

LoseMessages ==
    /\ messages' = <<>>
    /\ erased' = erased \cup ToSet(messages)

\* DELETE /chat/sessions/{id}: both keys go at once.
Delete ==
    /\ header \/ messages # <<>>
    /\ LoseHeader
    /\ LoseMessages
    /\ UNCHANGED <<backend, stream, newer, turn, trimmed>>

\* The memory store purges an expired session and its messages together.
ExpireInMemory ==
    /\ backend = "memory"
    /\ header
    /\ LoseHeader
    /\ LoseMessages
    /\ UNCHANGED <<backend, stream, newer, turn, trimmed>>

\* In Redis each key expires by itself, the one refreshed last expiring last.
ExpireList ==
    /\ backend = "redis"
    /\ messages # <<>>
    /\ newer = "header" \/ ~header
    /\ LoseMessages
    /\ Overtakes
    /\ UNCHANGED <<backend, stream, header, count, newer, turn, trimmed, unseen>>

ExpireEntry ==
    /\ backend = "redis"
    /\ header
    /\ newer = "list" \/ messages = <<>>
    /\ LoseHeader
    /\ UNCHANGED <<backend, stream, messages, newer, turn, trimmed, erased>>

-----------------------------------------------------------------------------
Serve(t) ==
    \/ AskFails(t) \/ Answered(t)
    \/ Require(t) \/ Exists(t) \/ Push(t) \/ Reread(t) \/ Llen(t) \/ Write(t)

Next ==
    \/ \E t \in Turns : Arrive(t) \/ Serve(t) \/ RedisFails(t) \/ Disconnect(t)
    \/ Delete \/ ExpireInMemory \/ ExpireList \/ ExpireEntry

Spec == Init /\ [][Next]_vars

\* The event loop runs every ready turn; the pipeline answers or fails
\* (AskPipeline!EveryCallEnds) and Redis answers or times out.
FairSpec == Spec /\ \A t \in Turns : WF_vars(Serve(t))

-----------------------------------------------------------------------------
\* The shape of the state.
TypeOK ==
    /\ backend \in {"memory", "redis"}
    /\ stream \in [Turns -> BOOLEAN]
    /\ header \in BOOLEAN
    /\ count \in Nat
    /\ messages \in Seq(Messages)
    /\ newer \in {"header", "list"}
    /\ pc \in [Turns -> Appending \cup {"idle", "asking", "require", "end"}]
    /\ role \in [Turns -> {"user", "assistant"}]
    /\ text \in [Turns -> {"none", "text", "empty"}]
    /\ counted \in [Turns -> Nat]
    /\ out \in [Turns -> {"open", "refused", "error", "raised", "done", "returned",
                          "broken", "abandoned"}]
    /\ trimmed \subseteq Messages
    /\ erased \subseteq Messages
    /\ disturbed \in BOOLEAN
    /\ unseen \subseteq Turns

\* However turns race, the history never outgrows the cap: in memory thanks
\* to the check, in Redis, where the check can be passed by several turns at
\* once, thanks to the trim.
HistoryBounded == Len(messages) <= MaxMessages /\ count <= MaxMessages

\* Every message is told by an exchange of an answered turn: a question comes
\* before its own answer, directly unless exchanges overlapped.
ExchangesInOrder ==
    \A i, j \in 1 .. Len(messages) :
        /\ text[messages[i].turn] # "none"
        /\ messages[i].turn = messages[j].turn /\ i < j =>
              /\ messages[i].role = "user" /\ messages[j].role = "assistant"
              /\ ~disturbed => j = i + 1

\* A turn reported as done had its question and its answer stored: they are
\* in the history unless the cap, a deletion or an expiry took them out.
AcknowledgedRecorded ==
    \A t \in Turns :
        out[t] \in {"done", "returned"} =>
            {Message(t, "user"), Message(t, "assistant")}
                \subseteq ToSet(messages) \cup trimmed \cup erased

\* As long as exchanges have followed one another, none cut short or
\* overtaken by a deletion or an expiry, the store between two of them is
\* exact: the count is the length of the list (or the list has expired first),
\* no message was dropped by the cap, nothing is left of a deleted or expired
\* session, and a question without an answer is one whose answer was empty.
\* With the memory store that is always.
UndisturbedExact ==
    ~disturbed /\ (\A t \in Turns : pc[t] \notin Appending) =>
        /\ header => count = Len(messages) \/ (backend = "redis" /\ messages = <<>>)
        /\ trimmed = {}
        /\ ~header => messages = <<>>
        /\ \A t \in Turns :
              text[t] # "empty" /\ Message(t, "user") \in ToSet(messages)
                  => Message(t, "assistant") \in ToSet(messages)

\* A session that was deleted or has expired comes back only through a turn
\* that had already looked it up again when it went: the second look-up of
\* each append keeps the window that short, and closes it in memory.
NoResurrection ==
    [][~header /\ header' => \E t \in unseen : pc[t] = "write"]_vars

\* Every turn that arrives ends.
TurnEnds == \A t \in Turns : pc[t] = "asking" ~> out[t] # "open"
=============================================================================
