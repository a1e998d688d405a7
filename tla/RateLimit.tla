------------------------------ MODULE RateLimit ------------------------------
(***************************************************************************)
(* The sliding-window rate limiter: MemoryRateLimiter, a list of hits in   *)
(* one process, and RedisRateLimiter, a sorted set that several processes  *)
(* share.  Buckets share nothing, so one is modelled.  Time is counted in  *)
(* ticks, several to the second, because Retry-After is rounded to whole   *)
(* seconds and the limiters compare fractions.                             *)
(*                                                                         *)
(* The memory limiter never suspends.  The Redis limiter takes its         *)
(* timestamp, then sends one MULTI that counts the call in, and only a     *)
(* call over the limit sends two more commands to be counted out again:    *)
(* other calls come in between, commands fail, timestamps collide or       *)
(* arrive out of order.  The processes' clocks are taken to agree.         *)
(***************************************************************************)
EXTENDS Integers, FiniteSets, FiniteSetsExt, TLC

CONSTANTS
    Calls,      \* the calls checked against the bucket
    Limit,      \* rate_limit_requests
    Window,     \* rate_limit_window_seconds
    Second,     \* ticks in a second
    MaxTime     \* bound: the last tick

ASSUME CallsAssumption == IsFiniteSet(Calls)
ASSUME LimitAssumption == Limit \in Nat \ {0}
ASSUME WindowAssumption == Window \in Nat \ {0}
ASSUME TimeAssumption == Second \in Nat \ {0} /\ MaxTime \in Nat

VARIABLES
    backend,    \* the limiter the application was built with
    clock,      \* the time
    hits,       \* memory: the calls whose timestamps the list holds
    members,    \* redis: the sorted set, a member per timestamp
    expires,    \* redis: when the key expires
    pc,         \* pc[c]: where the check of call c is
    stamp,      \* stamp[c]: the time the limiter took for it
    verdict,    \* verdict[c]: what it decided
    until,      \* until[c]: when a refused call was told to come again
    newest,     \* history: the timestamp the last MULTI carried
    orderly,    \* history: MULTIs came in order and within a second
    calm        \* history: calm[c]: since that was worked out for c, nothing
                \* was let in, and no other check was under way then or failed

clocks  == <<backend, clock>>
redis   == <<members, expires>>
history == <<newest, orderly>>
vars    == <<clocks, hits, redis, pc, stamp, verdict, until, history, calm>>

Span == Window * Second

Init ==
    /\ backend \in {"memory", "redis"}
    /\ clock = 0
    /\ hits = {}
    /\ members = {}
    /\ expires = 0
    /\ pc = [c \in Calls |-> "idle"]
    /\ stamp = [c \in Calls |-> 0]
    /\ verdict = [c \in Calls |-> "none"]
    /\ until = [c \in Calls |-> 0]
    /\ newest = -1
    /\ orderly = TRUE
    /\ calm = [c \in Calls |-> FALSE]

-----------------------------------------------------------------------------
Goto(c, l) == pc' = [pc EXCEPT ![c] = l]

\* The check is over.  A call that is let in, or that fails, ends every calm.
Decide(c, v) ==
    /\ verdict' = [verdict EXCEPT ![c] = v]
    /\ Goto(c, "end")

Busy == calm' = [c \in Calls |-> FALSE]

\* A hit counts while it is younger than the window.
InWindow(t, now) == t > now - Span

\* Mutation: Retry-After rounds down.
RetryAtEarly(oldest, now) == now + Second * ((oldest + Span - now) \div Second)

\* Retry-After in whole seconds, at least one: when the oldest hit is out.
RetryAt(oldest, now) ==
    LET seconds == (oldest + Span - now) \div Second + 1
    IN  now + Second * (IF seconds < 1 THEN 1 ELSE seconds)

-----------------------------------------------------------------------------
\* The hits of the last window.  The list grows in the order of time, so its
\* first entry is its oldest.
Recent == {d \in hits : InWindow(stamp[d], clock)}
OldestHit == Min({stamp[d] : d \in Recent})

\* Mutation: a call that is one over is let in.
CheckInMemoryOver(c) ==
    /\ backend = "memory"
    /\ pc[c] = "idle"
    /\ stamp' = [stamp EXCEPT ![c] = clock]
    /\ IF Cardinality(Recent) > Limit
       THEN /\ until' = [until EXCEPT ![c] = RetryAt(OldestHit, clock)]
            /\ calm' = [calm EXCEPT ![c] = TRUE]
            /\ Decide(c, "refused")
            /\ UNCHANGED hits
       ELSE /\ hits' = Recent \cup {c}
            /\ Busy
            /\ Decide(c, "allowed")
            /\ UNCHANGED until
    /\ UNCHANGED <<clocks, redis, history>>

\* MemoryRateLimiter.check.
CheckInMemory(c) ==
    /\ backend = "memory"
    /\ pc[c] = "idle"
    /\ stamp' = [stamp EXCEPT ![c] = clock]
    /\ IF Cardinality(Recent) >= Limit
       THEN /\ until' = [until EXCEPT ![c] = RetryAt(OldestHit, clock)]
            /\ calm' = [calm EXCEPT ![c] = TRUE]
            /\ Decide(c, "refused")
            /\ UNCHANGED hits
       ELSE /\ hits' = Recent \cup {c}
            /\ Busy
            /\ Decide(c, "allowed")
            /\ UNCHANGED until
    /\ UNCHANGED <<clocks, redis, history>>

-----------------------------------------------------------------------------
\* RedisRateLimiter.check: the time is read, the MULTI is on its way.
Stamp(c) ==
    /\ backend = "redis"
    /\ pc[c] = "idle"
    /\ stamp' = [stamp EXCEPT ![c] = clock]
    /\ Goto(c, "sent")
    /\ UNCHANGED <<clocks, hits, redis, verdict, until, history, calm>>

\* What the set holds once the MULTI of c has run: ZREMRANGEBYSCORE, ZADD.
CountedIn(c) == {m \in members : InWindow(m, stamp[c])} \cup {stamp[c]}

\* The MULTI's effect; EXPIRE is a second longer than the window.
Multi(c) ==
    /\ members' = CountedIn(c)
    /\ expires' = clock + Span + Second
    /\ newest' = stamp[c]
    /\ orderly' = (orderly /\ stamp[c] > newest /\ clock <= stamp[c] + Second)

Commit(c) ==
    /\ pc[c] = "sent"
    /\ Multi(c)
    /\ IF Cardinality(CountedIn(c)) > Limit
       THEN Goto(c, "over") /\ UNCHANGED <<verdict, calm>>
       ELSE Decide(c, "allowed") /\ Busy
    /\ UNCHANGED <<clocks, hits, stamp, until>>

\* ZRANGE 0 0: the oldest member, none if the key has gone meanwhile.
ReadOldest(c) ==
    /\ pc[c] = "over"
    /\ until' = [until EXCEPT ![c] =
                    IF members = {} THEN stamp[c] + Second ELSE RetryAt(Min(members), stamp[c])]
    /\ Goto(c, "remove")
    /\ calm' = [calm EXCEPT ![c] =
                  \A d \in Calls \ {c} : pc[d] \in {"idle", "end"} /\ verdict[d] # "failed"]
    /\ UNCHANGED <<clocks, hits, redis, stamp, verdict, history>>

\* Mutation: a refused call stays counted.
CountedOutNot(c) == members

\* ZREM of the call's own member.
CountedOut(c) == members \ {stamp[c]}

Remove(c) ==
    /\ pc[c] = "remove"
    /\ members' = CountedOut(c)
    /\ Decide(c, "refused")
    /\ UNCHANGED <<clocks, hits, expires, stamp, until, history, calm>>

\* A command fails or its process dies; a MULTI may have run all the same.
RedisFails(c) ==
    /\ pc[c] \in {"sent", "over", "remove"}
    /\ \/ UNCHANGED <<redis, history>>
       \/ pc[c] = "sent" /\ Multi(c)
    /\ Decide(c, "failed")
    /\ Busy
    /\ UNCHANGED <<clocks, hits, stamp, until>>

\* Time passes; Redis drops the key when it is due.
Tick ==
    /\ clock < MaxTime
    /\ clock' = clock + 1
    /\ members' = IF clock' >= expires THEN {} ELSE members
    /\ UNCHANGED <<backend, hits, expires, pc, stamp, verdict, until, history, calm>>

-----------------------------------------------------------------------------
Check(c) ==
    \/ CheckInMemory(c)
    \/ Stamp(c) \/ Commit(c) \/ ReadOldest(c) \/ Remove(c) \/ RedisFails(c)

Next == Tick \/ \E c \in Calls : Check(c)

Spec == Init /\ [][Next]_vars

Symmetry == Permutations(Calls)
-----------------------------------------------------------------------------
Times == 0 .. MaxTime

\* The shape of the state.
TypeOK ==
    /\ backend \in {"memory", "redis"}
    /\ clock \in Times
    /\ hits \subseteq Calls
    /\ members \subseteq Times
    /\ expires \in 0 .. MaxTime + Span + Second
    /\ pc \in [Calls -> {"idle", "sent", "over", "remove", "end"}]
    /\ stamp \in [Calls -> Times]
    /\ verdict \in [Calls -> {"none", "allowed", "refused", "failed"}]
    /\ until \in [Calls -> 0 .. MaxTime + Span + Second]
    /\ newest \in Times \cup {-1}
    /\ orderly \in BOOLEAN
    /\ calm \in [Calls -> BOOLEAN]

Allowed == {c \in Calls : verdict[c] = "allowed"}

\* In no window are more calls let in than the limit: always in one process,
\* and in Redis as long as the calls reach it in the order of distinct
\* timestamps, each within a second, however refused calls come and go.
WindowBound ==
    orderly => \A c \in Allowed :
        Cardinality({d \in Allowed : stamp[d] <= stamp[c] /\ InWindow(stamp[d], stamp[c])}) <= Limit

\* The limiter turns c away in this step.
TurnsAway(c) ==
    \/ pc[c] = "idle" /\ verdict'[c] = "refused"
    \/ pc[c] = "sent" /\ pc'[c] = "over"

\* Calls that may still weigh on the bucket: let in, being counted out, or
\* failed half way.
Weighs(d) == verdict[d] \in {"allowed", "failed"} \/ pc[d] \in {"over", "remove"}

\* A call is turned away only for Limit other calls of its window: a refused
\* call costs nobody anything once it has been answered.
RefusalEarned ==
    [][\A c \in Calls : TurnsAway(c) =>
          Cardinality({d \in Calls \ {c} : Weighs(d) /\ InWindow(stamp[d], stamp'[c])}) >= Limit]_vars

\* Retry-After keeps its word: a call that comes no sooner than a refused one
\* was told, with nothing let in since, is let in.  In Redis this takes
\* orderly calls, and no refused one being counted out at that moment.
RetryHonoured ==
    [][\A c, d \in Calls :
          TurnsAway(c) /\ verdict[d] = "refused" /\ calm[d] /\ orderly' => stamp'[c] < until[d]
             \/ \E e \in Calls \ {c} : pc[e] \in {"over", "remove"}]_vars
=============================================================================
