------------------------------- MODULE Caches -------------------------------
(***************************************************************************)
(* The application cache and its two users: RunQueryUseCase, which caches  *)
(* the result of a validated SQL text, and BuildSchemaContextUseCase,      *)
(* which caches the schema context of a question.  A query reads the       *)
(* database as it is; a context is built from the schema registry, which a *)
(* process parses once, when it starts, while the key of a context carries *)
(* the modification time the schema file has now.                          *)
(*                                                                         *)
(* The memory cache is a process's own and never suspends.  The Redis      *)
(* cache is shared by all processes, GET and SET take time and may fail.   *)
(* One SQL text or one question is modelled, asked by several users:       *)
(* queries, contexts, other texts and other questions have other keys.     *)
(* The pipeline of AskUseCase passes on whom it asks for; the tool of the  *)
(* LangChain agent and the schema and SQL routes do not, and their calls   *)
(* share one key even when keys are scoped by user.                        *)
(***************************************************************************)
EXTENDS Naturals, FiniteSets, FiniteSetsExt, TLC

CONSTANTS
    Procs,          \* the processes of the API
    Users,          \* who asks: API keys and subjects
    Calls,          \* the calls made
    TTL,            \* seconds an entry lives
    MaxTime,        \* bound: the last second
    MaxVersion      \* bound: versions of the data and of the schema file

ASSUME TTLAssumption == TTL \in Nat \ {0}
ASSUME BoundsAssumption == MaxTime \in Nat /\ MaxVersion \in Nat \ {0}

Kinds == {"query", "schema"}
Shared == "redis"

VARIABLES
    kind,       \* what the calls ask for: query results or schema contexts
    store,      \* the cache the application was built with
    scoped,     \* cache_query_results_scope_user, cache_schema_context_scope_user
    clock,      \* the time
    data,       \* the version of the database's data
    file,       \* the version of the schema file (its mtime)
    loaded,     \* loaded[p]: the version in the registry of process p
    entries,    \* what the caches hold
    pc,         \* pc[c]: where the call is
    asker,      \* asker[c]: its process, that process's schema, and the user
                \* its caller passes on
    key,        \* key[c]: its cache key
    result,     \* result[c]: the result it has
    age,        \* history: how old the result was when it was read
    floor,      \* history: the newest version others had been served before
    lag,        \* history: the longest time a result took into the cache
    crossed,    \* history: two misses of one key overlapped
    mixed       \* history: a context was built from another version of the
                \* file than its key says

settings == <<kind, store, scoped>>
world    == <<clock, data, file>>
local    == <<pc, asker, key, result, age, floor>>
history  == <<lag, crossed, mixed>>
vars     == <<settings, world, loaded, entries, local, history>>

Versions == 1 .. MaxVersion
Anyone == "anyone"
NoAsk == [user |-> Anyone]
NoKey == [user |-> Anyone, mtime |-> 0]
NoResult == [user |-> Anyone, version |-> 0, at |-> 0]

Init ==
    /\ kind \in Kinds
    /\ store \in {"memory", "redis"}
    /\ scoped \in BOOLEAN
    /\ clock = 0
    /\ data = 1
    /\ file = 1
    /\ loaded = [p \in Procs |-> 1]
    /\ entries = {}
    /\ pc = [c \in Calls |-> "idle"]
    /\ asker = [c \in Calls |-> NoAsk]
    /\ key = [c \in Calls |-> NoKey]
    /\ result = [c \in Calls |-> NoResult]
    /\ age = [c \in Calls |-> 0]
    /\ floor = [c \in Calls |-> 0]
    /\ lag = 0
    /\ crossed = FALSE
    /\ mixed = FALSE

-----------------------------------------------------------------------------
Goto(c, l) == pc' = [pc EXCEPT ![c] = l]

\* The cache a process uses.
Place(p) == IF store = "redis" THEN Shared ELSE p

\* Whom a caller can pass on as the cache scope: the pipeline its user, the
\* agent's tool and the routes nobody, whoever asks.  Where results are not
\* scoped, users are not told apart.
Scopes == Users \cup {Anyone}
PassedOn == IF scoped THEN Scopes ELSE {Anyone}

\* Mutation: the key of a query result forgets who asks.
KeyUnscoped(user) == [user |-> Anyone, mtime |-> IF kind = "schema" THEN file ELSE 0]

\* query_result_cache_key and schema_context_cache_key, of one text and one
\* question: the scope passed, if results are scoped; which file the context
\* is of.
KeyOf(user) ==
    [user  |-> IF scoped THEN user ELSE Anyone,
     mtime |-> IF kind = "schema" THEN file ELSE 0]

\* The entry a GET finds: at most one.
Found(p, k) == {e \in entries : e.place = Place(p) /\ e.key = k}

\* Mutation: an entry starts to age when it is read again.
StoredTouched(p, k, value) ==
    {e \in entries : ~(e.place = Place(p) /\ e.key = k)}
        \cup {[place |-> Place(p), key |-> k, value |-> value, expires |-> MaxTime + 1]}

\* What the caches hold after a SET, the time to live counted from then.
Stored(p, k, value) ==
    {e \in entries : ~(e.place = Place(p) /\ e.key = k)}
        \cup {[place |-> Place(p), key |-> k, value |-> value, expires |-> clock + TTL]}

\* Mutation: a context is rebuilt from the file.
ComputedFromFile(a) ==
    [user |-> a.user, version |-> IF kind = "query" THEN data ELSE file, at |-> clock]

\* A query reads the database, a context comes from the registry.
Computed(a) ==
    [user    |-> a.user,
     version |-> IF kind = "query" THEN data ELSE loaded[a.proc],
     at      |-> clock]

\* The newest version already served from the cache a call is going to use.
Floor(p, k) ==
    Max({0} \cup {result[d].version :
                    d \in {d \in Calls : pc[d] = "done" /\ key[d] = k /\ Place(asker[d].proc) = Place(p)}})

-----------------------------------------------------------------------------
\* The calls that fail leave nothing behind.
Fail(cs) ==
    /\ pc' = [c \in Calls |-> IF c \in cs THEN "failed" ELSE pc[c]]
    /\ asker' = [c \in Calls |-> IF c \in cs THEN NoAsk ELSE asker[c]]
    /\ key' = [c \in Calls |-> IF c \in cs THEN NoKey ELSE key[c]]
    /\ result' = [c \in Calls |-> IF c \in cs THEN NoResult ELSE result[c]]
    /\ floor' = [c \in Calls |-> IF c \in cs THEN 0 ELSE floor[c]]
    /\ UNCHANGED age

Serve(c, value) ==
    /\ result' = [result EXCEPT ![c] = value]
    /\ age' = [age EXCEPT ![c] = clock - value.at]
    /\ Goto(c, "done")

\* With the memory cache a call runs through without suspending: a hit, or a
\* computation and a SET.
RunInMemory(c, a, k) ==
    \/ /\ Found(a.proc, k) # {}
       /\ \E e \in Found(a.proc, k) : Serve(c, e.value)
       /\ UNCHANGED <<entries, mixed>>
    \/ /\ Found(a.proc, k) = {}
       /\ Serve(c, Computed(a))
       /\ entries' = Stored(a.proc, k, Computed(a))
       /\ mixed' = (mixed \/ (kind = "schema" /\ loaded[a.proc] # file))

\* A call comes in; its key is made at once.
Ask(c) ==
    /\ pc[c] = "idle"
    /\ \E p \in Procs, u \in PassedOn :
          LET a == [proc |-> p, user |-> u, loaded |-> loaded[p]]
              k == KeyOf(u)
          IN  /\ asker' = [asker EXCEPT ![c] = a]
              /\ key' = [key EXCEPT ![c] = k]
              /\ floor' = [floor EXCEPT ![c] = Floor(p, k)]
              /\ \/ store = "memory" /\ RunInMemory(c, a, k)
                 \/ store = "redis" /\ Goto(c, "get") /\ UNCHANGED <<entries, result, age, mixed>>
    /\ UNCHANGED <<settings, world, loaded, lag, crossed>>

\* With the memory cache, a computation that raises leaves nothing behind.
RaiseInMemory(c) ==
    /\ pc[c] = "idle"
    /\ store = "memory"
    /\ \E p \in Procs, u \in PassedOn : Found(p, KeyOf(u)) = {}
    /\ Fail({c})
    /\ UNCHANGED <<settings, world, loaded, entries, history>>

\* Redis: GET.
Get(c) ==
    /\ pc[c] = "get"
    /\ \/ \E e \in Found(asker[c].proc, key[c]) : Serve(c, e.value)
       \/ /\ Found(asker[c].proc, key[c]) = {}
          /\ Goto(c, "compute")
          /\ UNCHANGED <<result, age>>
    /\ UNCHANGED <<settings, world, loaded, entries, asker, key, floor, history>>

\* The process computes, without suspending, or the computation raises.
Compute(c) ==
    /\ pc[c] = "compute"
    /\ \/ /\ result' = [result EXCEPT ![c] = Computed(asker[c])]
          /\ mixed' = (mixed \/ (kind = "schema" /\ loaded[asker[c].proc] # key[c].mtime))
          /\ Goto(c, "set")
          /\ UNCHANGED <<asker, key, floor, age>>
       \/ Fail({c}) /\ UNCHANGED mixed
    /\ UNCHANGED <<settings, world, loaded, entries, lag, crossed>>

\* The SET takes effect.
Put(c) ==
    /\ entries' = Stored(asker[c].proc, key[c], result[c])
    /\ lag' = Max({lag, clock - result[c].at})
    /\ crossed' = (crossed \/ \E d \in Calls \ {c} : pc[d] \in {"compute", "set"} /\ key[d] = key[c])

\* Mutation: the answer does not wait for the SET, which follows later.
SetUnawaited(c) ==
    /\ \/ pc[c] = "set" /\ UNCHANGED <<entries, lag, crossed>>
       \/ pc[c] = "done" /\ store = "redis" /\ Put(c)
    /\ Goto(c, "done")
    /\ UNCHANGED <<settings, world, loaded, asker, key, result, age, floor, mixed>>

Set(c) ==
    /\ pc[c] = "set"
    /\ Put(c)
    /\ Goto(c, "done")
    /\ UNCHANGED <<settings, world, loaded, asker, key, result, age, floor, mixed>>

\* A command fails, and the call with it: its result is lost even if the query
\* was answered.  A SET may have taken effect all the same.
RedisFails(c) ==
    /\ pc[c] \in {"get", "set"}
    /\ Fail({c})
    /\ \/ UNCHANGED <<entries, lag, crossed>>
       \/ pc[c] = "set" /\ Put(c)
    /\ UNCHANGED <<settings, world, loaded, mixed>>

\* A process is restarted: it parses the schema file, its memory cache is
\* empty, and the calls it was serving are gone.
Restart(p) ==
    /\ loaded' = [loaded EXCEPT ![p] = file]
    /\ entries' = {e \in entries : e.place # p}
    /\ Fail({c \in Calls : pc[c] \in {"get", "compute", "set"} /\ asker[c].proc = p})
    /\ UNCHANGED <<settings, world, history>>

\* What the calls of a behaviour read changes.
ChangeData ==
    /\ kind = "query"
    /\ data < MaxVersion
    /\ data' = data + 1
    /\ UNCHANGED <<settings, clock, file, loaded, entries, local, history>>

ReplaceSchemaFile ==
    /\ kind = "schema"
    /\ file < MaxVersion
    /\ file' = file + 1
    /\ UNCHANGED <<settings, clock, data, loaded, entries, local, history>>

\* Time passes, and entries expire.
Tick ==
    /\ clock < MaxTime
    /\ clock' = clock + 1
    /\ entries' = {e \in entries : clock' < e.expires}
    /\ UNCHANGED <<settings, data, file, loaded, local, history>>

Next ==
    \/ \E c \in Calls : Ask(c) \/ RaiseInMemory(c) \/ Get(c) \/ Compute(c) \/ Set(c) \/ RedisFails(c)
    \/ \E p \in Procs : Restart(p)
    \/ ChangeData \/ ReplaceSchemaFile \/ Tick

Spec == Init /\ [][Next]_vars

Symmetry == Permutations(Calls) \cup Permutations(Procs) \cup Permutations(Users)
-----------------------------------------------------------------------------
Results == [user : Scopes, version : 0 .. MaxVersion, at : 0 .. MaxTime]
Keys == [user : Scopes, mtime : 0 .. MaxVersion]
Asks == [proc : Procs, user : Scopes, loaded : Versions]

\* The shape of the state; a cache holds at most one entry for a key.
TypeOK ==
    /\ kind \in Kinds
    /\ store \in {"memory", "redis"}
    /\ scoped \in BOOLEAN
    /\ clock \in 0 .. MaxTime
    /\ data \in Versions /\ file \in Versions
    /\ loaded \in [Procs -> Versions]
    /\ entries \subseteq [place : Procs \cup {Shared}, key : Keys, value : Results, expires : 1 .. MaxTime + TTL]
    /\ \A e, f \in entries : e.place = f.place /\ e.key = f.key => e = f
    /\ pc \in [Calls -> {"idle", "get", "compute", "set", "done", "failed"}]
    /\ asker \in [Calls -> Asks \cup {NoAsk}]
    /\ key \in [Calls -> Keys]
    /\ result \in [Calls -> Results]
    /\ age \in [Calls -> 0 .. MaxTime]
    /\ floor \in [Calls -> 0 .. MaxVersion]
    /\ lag \in 0 .. MaxTime
    /\ crossed \in BOOLEAN /\ mixed \in BOOLEAN

Done(c, what) == pc[c] = "done" /\ kind = what

\* With user scope, rows served to a caller that passes on its user were
\* computed for that user, never for another and never for a caller that
\* passes nobody on, whichever process or earlier call put them into the
\* cache.  Callers that pass nobody on are served each other's rows, whoever
\* asks: the agent's tool is one, although docs/PERFORMANCE.md says that
\* different subjects never share query rows.
UsersApart ==
    \A c \in Calls : Done(c, "query") /\ scoped => result[c].user = asker[c].user

\* No result is served that is older than the time to live, save for the time
\* its SET took to reach the cache.
AgeBounded == \A c \in Calls : pc[c] = "done" /\ age[c] > 0 => age[c] < TTL + lag

\* Once someone has been served a version of the data, nobody who asks the
\* same of the same cache later is served an older one; in Redis as long as
\* no two misses overlapped, for then an older result can overwrite a newer.
NeverBackInTime ==
    \A c \in Calls : Done(c, "query") /\ ~crossed => result[c].version >= floor[c]

\* A process serves contexts of the schema it has loaded or of a newer one:
\* always its own with the memory cache, in Redis until a process has
\* answered between an edit of the file and its own restart.
ContextIsCurrent ==
    \A c \in Calls :
        Done(c, "schema") =>
            /\ store = "memory" => result[c].version = asker[c].loaded
            /\ ~mixed => result[c].version >= asker[c].loaded
=============================================================================
