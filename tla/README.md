# InsightAI in TLA+

InsightAI answers questions about a company's database and documents. A
question becomes SQL, the SQL is checked, rewritten by governance policies and
run read-only, and the rows are summarised by a language model; or the question
is answered from an index of documents; or from both. This directory holds a
model of that program: TLA+ modules translated from `src/src/insightai`, TLC
configurations that check them, and proofs for TLAPS. Paths below are relative
to `src/src/insightai` unless they begin with `docs/` or `README.md`.

## 1. The system

The service is one or more processes of a FastAPI application. A process runs
one asyncio event loop, so its calls interleave only where they await: on the
language model, the embedding service, Redis, or the client of a stream. Queries
to the analytics database are synchronous and block the loop. An uncontended
`asyncio.Lock` does not suspend, so what an in-memory store does under its lock
is one step. Processes share Redis, the databases and a few files.

| component | state it keeps | operations | what is hard | what makes it correct |
|---|---|---|---|---|
| SQL ask pipeline: `AskUseCase`, `governed_sql`, `RunQueryUseCase` | one call's SQL, rows, answer, events, audit records | `execute`, `execute_stream` | five or more exits, plain and streamed, each with its own handler | only governed text that passed the check reaches the database; result, tokens and audit belong together |
| hybrid pipeline: `HybridAskUseCase`, the router, retrieval | the route, chunks found | the same, over four routes | one pipeline runs inside another, and its failures, tokens and audit pass through two layers | the answer is the one the route calls for; one terminal event; a failure is audited once |
| chat turns and sessions: `chat.py`, `ChatSessionUseCase`, session stores | a session entry with a count, a list of messages | create, require, record, list, delete, expiry | two keys and five commands to an append in Redis, streams that break off | bounded, ordered history, acknowledged turns stored, a deleted session stays deleted |
| knowledge index: ingest, JSONL and manifest, loader, start-up sync, vector stores | two files, a table or a list in memory | ingest, load, sync, search | crashes between two files and between two transactions, tools beside the API, another embedding model | the store holds chunks of one build, all or none of them unless the file was cut; what is served is searched |
| rate limiting: limiters and their dependency | hits in a window | `check` | time, rounding, a second round trip to take a refused call out again | never more than the limit in a window, refusals are earned, Retry-After is true |
| caches: query results, schema contexts | entries with an expiry | get, set | overlapping misses, failures, a registry older than the file it came from | users that callers pass on apart, bounded age, no going back in time, contexts of the loaded schema |
| authentication: `auth/service.py`, key store, `cli/keys.py` | key rows | issue, revoke, look up | expiry and revocation during a call, order of key sources | a revoked key opens nothing; an issued key works under the policies it was issued under |
| governance: resolver, enforcer, SQL transforms, attribute contract | the policy catalog | merge policies of roles, deny, filter rows | a merge of roles may grant or deny more than each of them | no denied table, no unfiltered scope |
| SQL validators, semantic layer | none | validate, match | parsing | read-only statements only |
| LLM providers, frameworks, generators | retries under way, a worker thread with a queue, threads of the pool | complete, stream | a stream that fails half way, retried from the start; a client that goes while its worker runs | text of one exchange, each call counted once, no worker left behind |
| LangChain agent | one call's tool context | run | a loop chosen by a model, tool calls of a round that run together | the rows are those of the SQL shown, citations mean what their author saw |
| schema documents, registry, context builder | tables parsed at start-up | parse, score, choose | a line parser of many flags; a choice that is cut to size twice | the tables are those of the document, the best of them are in the context |
| semantic layer: `YamlSemanticCatalogLoader`, matcher, post-processing of SQL | none | load, match, label, clean | labels put on SQL after the fact; patterns that do not know literals | what is called trusted has been approved; cleaned SQL means the same |
| prompts: row caps, sampling, chunking, citations | none | pure functions | boundaries, rounding | nothing is left out unsaid |
| explainability and routing | none | classify, build | four callers, two of which amend the result of another | an explanation is of the answer it comes with |
| application database, observability, HTTP surface, configuration | connections, metrics | start, stop, write | order of start-up | - |

The calls between them: the HTTP routes check the rate limit and the key, pass
a chat question through `ChatSessionUseCase` to a pipeline, and record the
exchange. A pipeline asks the schema context builder (cached), the SQL
generator, the validators, the governance enforcer and `RunQueryUseCase`
(cached), and the retriever, which embeds the question and searches the vector
store that the sync or the loader filled. Everything a process caches or limits
lives in its memory or in Redis, by configuration.

What is hard to test in this code, with the line where it bites and the
properties that watch it, is the list `hazards` in `PROJECT.json`.

## 2. Modules

    AskPhases ---- AskContract            what an ask pipeline promises
        \              |
         AskPipeline --+ (refinement)     the two pipelines
              |        |
              |        AgentAsk (refinement)   the agent and its tool calls
              |              |
    AskPipelineProofs   AgentAskProofs    invariants and the refinements, proved
    ChatSessions      turns and session stores (a turn's pipeline is one choice)
    KnowledgeIndex    files, loaders, vector stores, the starting API
    RateLimit         both limiters
    Caches            both caches and their two users
      |
    ChatSessionsProofs, RateLimitProofs,
    CachesProofs      the invariants of each, proved
    Access            keys, authentication, policies
      |   \
      |    MCAccess   policy files, roles and statements for TLC
    AccessProofs      its invariants, proved
    ProviderStream    clients of the language model, plain and streamed
      |   \
      |    MCProviderStream
    ProviderStreamProofs   its invariants, proved
    SchemaDocs        the markdown parser, line by line
    Orders            finite sets as sorted lists
      |
    SchemaContext     registry and context builder, as functions
    TrustedSql        the semantic layer, as functions
    SqlText           post-processing of SQL
    ResultRows        row caps and samples
    DocumentChunks    how a document is cut
    AnswerExplained   the router and the explanation
      \____ MCPromptData   cases of the last six for TLC, and documents of SchemaDocs
              |
    PromptDataProofs  the invariants of SchemaDocs, KnowledgeIndex and MCPromptData,
                      and what the functions promise, proved

The modules share no state because the components do not: a chat turn sees a
pipeline only as an answer or a failure that comes at last, which is what
`AskContract` promises and `EveryCallEnds` shows. Definitions bear the names of
the functions they translate where that is possible; `map` in `PROJECT.json`
gives the lines of each.

### AskContract, AskPipeline

`AskContract` is the abstract specification: the promise of `IAskPipeline` and
`AskStreamEvent` (`domain/ports/ask_pipeline.py`, `domain/models/ask.py`). A
streamed call announces phases in one order, speaks tokens only in the last,
and ends with one terminal event; a plain call is silent and returns or raises.
How far a stream's phases go is the constant `LastPhase`: the pipelines announce
`answering` before they end well, the agent announces nothing after its first.

`AskPipeline` is the program. Its variables are per call: the request (streamed
or not, dry run, forced route, forced enforcement), the route, the SQL text, the
texts handed to the database, what the answer is grounded on, the phase last
announced, whose tokens were forwarded, the answer, the audit records, and how
the call ended. An SQL text is told apart by two bits: whether the validator
accepts it, and whether the governance enforcer returned it. An action is what
happens between two suspensions:

| action | code |
|---|---|
| `Start`, `Route` | `HybridAskUseCase.execute`, `execute_stream`, `ClassifyQueryRouteUseCase`, or `AskUseCase` alone when RAG is off |
| `Retrieve` | `RetrieveRAGContextUseCase` and the fallback to SQL, which only the plain rag call has |
| `GenerateSQL` | schema context, SQL generation, parsing, post-processing |
| `Govern` | `prepare_governed_sql`: validate, enforce, validate again |
| `SkipQuery`, `BeginQuery`, `RunQuery` | dry run; `RunQueryUseCase` with its own validation and its cache |
| `Token`, `AnswerComplete`, `AnswerFails`, `AnswerExhausted` | the three generators of answers: SQL, documents, merged |
| `Failed` | every handler: one audit record, then the error event or the exception |
| `Disconnect` | the client of a stream hangs up; nothing is audited |

An `agent` route forced on a stream fails an assertion in the code, and does so
in the model. A dry run announces the phase of answering, as the code does
(`docs/PHASE_12_GOVERNANCE.md` has the phases end with validation).

### ChatSessions

One session from its creation on, several turns, one of the two stores. With the
memory store an exchange is one step (`RecordInMemory`). With Redis it is
`Require`, then `Exists`, `Push`, `Reread`, `Llen`, `Write` for the question and
again for the answer, one step for each command of `append_message`, and
between them other turns, `Delete`, the separate expiry of the two keys
(`ExpireList`, `ExpireEntry`), failing commands and clients that hang up. `newer`
says which key's expiry was set last and so which goes first. `trimmed`,
`erased`, `disturbed` and `unseen` only record what has happened. Listing
messages changes nothing and is not modelled.

### KnowledgeIndex

Processes: the API (`Server`) and tools (`insightai-ingest`, `insightai-rag-load`
with and without `--no-clear`, `insightai-knowledge-sync` with and without
`--force`). Shared: the folder's version, the JSONL file (its records and whether
it ends inside a line), the manifest's width, the pgvector table's width and
rows. A build is two chunks, one whose id every version shares, so that rows of
two builds can mix and replace each other. Widths tell embedding models apart;
a process takes one when it starts. `Truncate`, `WriteLine`, `WriteLastLine`,
`TruncateManifest`, `WriteManifest`, `ReadManifest`, `ReadRecords`, `Clear`,
`EnsureSchema`, `Upsert` are the steps of ingest and load in the order of the
code, each of which may fail, and a process may `Crash` in front of any. Neither
file is written atomically: opening it empties it. A JSONL file that ends between
two lines loads like a whole one, since nobody compares it with the number of
chunks in the manifest; `short` records the stores a load has filled from such a
file, and `disturbed` those where loads overlapped or rows were added to what was
there. Two ingests that write one file at once are left out (`WritersApart`):
they make any mixture of lines.

### RateLimit

One bucket, both limiters, time in ticks, two to the second, since the limiters
compare fractions and Retry-After is in whole seconds. The memory limiter is one
step; its list of timestamps is the set `hits` of the calls they belong to, whose
order is that of `stamp`, because the list grows with the clock. The Redis limiter is `Stamp` (the time is read), `Commit` (MULTI: purge,
add, count, expire), and over the limit `ReadOldest` and `Remove`; any command
may fail, and a failed MULTI may have run. A member is its timestamp, as in the
code, so equal timestamps collide. The processes' clocks agree.

### Caches

One SQL text or one question of several users, in several processes, with the
memory cache (an entry belongs to one process, a call is one step) or Redis
(`Get`, `Compute`, `Set`, each may fail). With keys scoped by user, `AskUseCase`
passes on for whom it asks; the agent's tool and the schema and SQL routes do not,
and all their calls have one key, whoever asks (`PassedOn`, `Anyone`). A query result is a version of the
data; a context is a version of the schema file, taken from the registry its
process parsed at start-up, under a key with the file's present modification
time. Restarts lose the memory cache and the calls under way. The time to live
is positive (zero or less means no expiry in the code, and is left out). SQL and question digests are
taken to be injective.

### Access

Three programs: the command line that issues and revokes keys (`Create`,
`Revoke`), the operator's editor (`Edit` of `policies.yaml`), and the API, which
numbers the environment's keys when it starts and reads the file twice, to validate
it (`Restart`) and to load it (`LoadPolicies`), between which it may be edited. A
request is `Receive`, then by mode `ReadClaims`, or `LookUp` and `Check`, then
`Enforce`. `LookUp` is the SELECT of `SqlApiKeyStore.verify`, `Check` what comes
after the hashing of the secret, so that a revocation or the clock can come in
between. `api` is "down" while a file that does not validate keeps the API from
starting, and "validated" between its two reads. `accepted`, `late` and `subjects` only record what has happened.

Policies are data: a catalog has a default for missing attributes, dimensions
with their bindings, and for each role its tables, scopes, masks and its own word
on missing attributes. A glob is the set of tables it matches. `Denied`,
`Allowed`, `Scopes`, `Mask` and `MissingAction` are `merge_role_policies`,
`Filters` is `resolve_row_filters`, `Projected` is `apply_column_masks`,
`Evaluate` the enforcer, `Required` and `MeetsContract` the attribute contract,
`Valid` the semantic part of `validate_governance_catalog`. A statement is the
tables it names, each once, and the plain columns it projects: joins of a table
with itself, subqueries, expressions and `SELECT *` are left to sqlglot and its
tests. Bindings have the operator `in_principal_attribute`, the only one there is.

Things the model made visible, and that its properties take as they are. A role
can make the default for missing attributes stricter and not more lenient
(`MissingAction`), though `docs/GOVERNANCE.md` calls its setting a per-role
override. When all columns of a projection are excluded, none is
(`Projected`). Roles that differ on missing attributes are merged to the strictest,
while the contract asks each role by itself; `create` may then accept a key that
is always refused. `ContractMatchesEnforcement` speaks of roles that agree
(`Agreed`); `AcceptedKeyServed` says that this is the only reason for which an
accepted key lacks an attribute (`LetOffAlone`): a role is let off by its own
word and by default, while another of the key's roles says "deny". Both speak of
one version of the file. A key issued under one version and served under another,
and an API that started while its file was edited and now runs with policies
nobody validated, have no promise. A key without roles meets no policy and sees everything.

### ProviderStream

Calls to a provider, plain (`complete`) or streamed (`complete_stream`), of the
providers of Groq and OpenRouter, which wrap a blocking client, or of OpenAI,
whose client is asynchronous. An exchange is one request to the vendor. What
comes back is known by the exchange and the place in it, so that a mixture
shows: `yielded` has the chunks that `iter_sdk_stream_chunks` has made of the
events of the latest exchange, `heard` and `last` are how many there were and what
the generator remembers of finish reason and usage. The asynchronous client runs
the generator anew for each event. `Start`, `Receive`, `Finish`, `Fail` are the call, the vendor's events and
its failures; a retryable failure starts the next attempt (`Retries`), an empty
stream falls back to a plain exchange. A blocking client's stream is read whole
by a worker thread, with all its retries, and `Put` into a queue item by item;
the event loop takes items through jobs in the thread pool (`TakeThread`, `Got`,
`Joined`), which may all be taken. `Disconnect` is a client that goes while all
of that is under way. The observer's records are `metered` and `logged`; usage
and finish reason are read by `Metadata` for the caller and by
`AuditedMetadata` for the log, as in the code.

### AgentAsk

One run of `LangChainAgentAskUseCase`. The model calls tools in a `Round`; each
call suspends at its own points (`Search`, `GenerateSQL`, `RunQuery`) and writes
the one context of the run. `Speak` is the model's last message, `Answer` the
second generator, which is asked when rows were fetched. An answer has citations
it declares and numbers in brackets in its text; both may be numbers of documents
the author was shown or of none (`Strays`), and `Enriched` joins them, if there are
sources. The model's own words declare nothing. A tool that raises ends
the run. The agent is a third pipeline behind the same port: `Contract` is
`AskContract` with one call, whose last phase is the only one the agent
announces. `suspends` says whether the query cache is in Redis, without which
storing SQL and rows is one step.

### SchemaDocs, SchemaContext

`SchemaDocs` reads a document as it is written: a step is a line, of a kind that
one of the parser's patterns matches, and every pass of the parser takes it. In
its own variables (`note`, `notes`) the model keeps what the document says,
namely which heading a line stands under; the properties compare the two. Lines
inside a code block, descriptions and titles are read by the loops that skip
them. `SchemaContext` has the registry's hubs and join patterns, the score of a
table, the choice, the foreign-key parents and the patterns of a context. The title
of a pattern begins with the name of its table (`UnderTable`), by which it is found.

### TrustedSql, SqlText, ResultRows, DocumentChunks, AnswerExplained

Functions, each with the promise it is checked against, which is written from
what a user of it relies on and not from its steps. `TrustedSql` loads the
catalog, matches a question before the model is asked and SQL after it
(`Generate`). `SqlText` works on marks of SQL and of the fences of markdown. It takes out the
first fenced block (`Extracted`), which drops the text around it, strips comments,
collapses white space and refuses a second statement, and is compared with a
reader that knows literals and comments. `ResultRows` follows a row from the statement's own
limit through the cap and the sample to the notes in the prompt and the answer.
`DocumentChunks` cuts sections and windows. `AnswerExplained` is the router and
`ExplainabilityBuilder` with each of its callers. `MCPromptData` gives them cases
and lets `SchemaDocs` run beside them.

Where the code sorts, or keeps in a loop some of what it visits, the function says
which elements it keeps and in which order (`Orders`): a set, an order as a set of
pairs, and the list they give. Only the text of SQL is a fold over its marks,
because its scanner is a state machine.

## 3. Runs

| run | instance | what it shows |
|---|---|---|
| `ask_pipeline` | 1 call, every request and setting; 15,312 states | `GuardedExecution`, `DeliveredSQLChecked`, `AnswerMatchesRoute`, `TokensOfFinalAnswer`, `AuditTrail`, `FailureAudited`, `EveryCallEnds`, and that the pipeline implements `AskContract` (`KeepsContract`) |
| `chat_sessions` | 2 turns, cap 3; 178,676 states | `HistoryBounded`, `ExchangesInOrder`, `AcknowledgedRecorded`, `UndisturbedExact`, `NoResurrection`, `TurnEnds` |
| `knowledge_index` | API and one tool, 2 folder versions, 3 starts, 2 widths; 836,780 states | `IndexIsOneBuild`, `KnownWidthIsTables`, `ServesAnIndex`, `JobsEnd` |
| `rate_limit` | 4 calls, limit 1, window 1 s of 2 ticks, 5 ticks; 985,518 states | `WindowBound`, `RefusalEarned`, `RetryHonoured` |
| `caches` | 3 calls, 2 users, 2 processes, TTL 2, 2 versions; 1,726,666 states | `UsersApart`, `AgeBounded`, `NeverBackInTime`, `ContextIsCurrent` |
| `access` | 1 key, 1 environment key, 1 request, 2 roles, 6 files, 2 tables and columns, 4 statements; 2,412,166 states | `RevokedStaysOut`, `WithinEveryRole`, `ContractMatchesEnforcement`, `AcceptedKeyServed` |
| `provider_stream` | 2 calls, both kinds of client, 1 retry, 1 thread; 262,389 states | `OneExchange`, `MeteredAsReported`, `CallsEnd` |
| `agent_ask` | 3 tool calls, 2 documents; 65,452 states | `RowsOfTheirSQL`, `CitationsMeant`, and that the agent implements `AskContract` (`KeepsContract`) |
| `prompt_data` | documents of 6 lines and their headings, and the cases of `MCPromptData`; 640,419 states | `TablesAsSaid`, `ChoicesKept` (contexts and trusted SQL), `SqlKept`, `CutsKept` (rows and chunks), `ExplanationFits` |
| `access_subject` | as `access`, 2 environment keys | violated: a key keeps its name over a restart |
| `agent_dry_run` | as `agent_ask` | violated: a dry run of the agent runs nothing |
| `schema_columns` | 6 lines | violated: a blank line under a heading loses no column |

Each property has a mutant in `PROJECT.json`, a plausible slip in the code that
breaks it. Every module with a state has a type invariant, which is proved
(section 4).

**Bounds.** Calls of the ask pipeline share only settings that never change, so
one call is enough, and the theorems hold for any number. In a session the
races are between two turns and a deletion; cap 3 is the smallest at which one
exchange fits, a second does not, and two that pass the check together make the
trim bite. In the index the interesting pairs are the API beside a tool, a start
after a crash (three starts), and an index of one version or width under
another's manifest (two of each). A limit of one with four calls in a span of
2.5 windows has a hit enter, refuse, leave, and two more collide, arrive late or
fail. Three calls to a cache are a writer, a slower writer and a reader; time 2
with TTL 2 lets an entry live, age and expire. Requests share nothing but the key
table, the file and the process, which they do not change, and keys do not touch
each other, so one of each will do; two roles are what a merge needs, in both
orders and in files where they differ in every part of a policy, one of them
disabled, one invalid and one without roles; time 1 lets a key expire, one edit lets the file of
issue and the file of service differ. Two calls to a provider share nothing but the pool: with one thread in it,
one call can keep the other waiting at each of its jobs, and the second needs no
text for that; one retry and two events let an exchange fail after its first
chunk and be tried again. Three tool calls are two of a kind that race and one of
the other. Six lines beside the headings of a document are an anchor, a heading,
a line under it, another heading, a line under that, and one to go wrong with.
Five marks of SQL have room for a comment in a word, in a literal and unclosed; in a
fenced block, closed or not, three do, with text, a statement or a second block
around it. The
limits in the functions (25 hubs, 5 parents, 100 characters of a chunk and more)
are scaled down to 2 or 3 so that they bite. Symmetry is used only where
runs check safety and the sets carry no order. `MaxTime`, `MaxStarts`,
`MaxVersion`, `MaxEdits`, `MaxEvents` and `MaxLines` are the only counters, and are capped
in the guards of `Tick`, `Start`, `EditFolder`, `ChangeData`, `ReplaceSchemaFile`, `Edit`,
`Receive` and `ReadLine`. Deadlock is not
checked: when every call has been made, the system rests.

**Conditions.** Some properties name the circumstances in which the code keeps
them; each was found to be needed by a run without it. `orderly`: the Redis
limiter bounds a window only while MULTIs arrive in the order of distinct
timestamps. `crossed`: overlapping misses in Redis can let an old result
overwrite a newer one. `lag`: the time to live counts from the SET.
`mixed`: a process that answers between an edit of the schema file and its own
restart stores a context of the old schema under the new file's time, and in
Redis the restarted process is served it. `disturbed` in `ChatSessions`: overlapping or
interrupted exchanges leave inexact counts; in `KnowledgeIndex`: overlapping
loads and `--no-clear` leave mixtures. `short`: a load of a file that was not
written to its end leaves a part of one build. `LetOffAlone`, and the version of
the file, in `AcceptedKeyServed`: see Access above. `together`
and `wordless`: SQL calls of one round that run together, with a query cache in
Redis, or a later call that ends without SQL, leave the agent with the SQL of one call
and the rows of another. In `CitationsMeant`, a model that has searched more than
once and answers itself has its citations looked up in its last search; and an
answer over rows that is delivered without sources keeps the numbers it declares,
which name nothing. `Scattered`: a vendor that
spreads usage and finish reason over several events has them read differently by
the log and by the caller, unless a worker has gathered them first. `astray`,
`apart`: in a schema document, a description that is not indented text swallows
headings, and text between the heading of columns and their rows ends them.
`lone`: a literal that holds the marks of a comment is not kept by the
post-processor; white space collapses, in literals too, and text outside the
first fenced block is dropped, so `SqlKept` compares neither. `ExplanationFits` does
not compare the index of a citation with the number the answer cites it by, asks
no warning of a merged answer, and has the mode of a dry run in the explanation
only. `UsersApart` is about callers that pass their user on. These are properties of the code as it is and are not softened
further.

**Fairness.** Liveness is claimed of the server's own steps only: weak fairness
of `Step(r)`, `Serve(t)`, `Work(p)`, and in `ProviderStream` of `Work(c)`, which is a
call's job, its worker thread and the vendor it talks to. The event loop runs every task that is
ready; a call to the model, the embedding service, Redis or the database ends
with an answer or with the time-out its client has. Nobody is bound to send a
request, to hang up, to crash, to fail or to restart. A vendor answers or its client's
time-out fails the exchange, and threads are scheduled by the system. Since a step can end in
more than one way, fairness never picks success. A stream of tokens is finite:
in the model it adds to a set of speakers, so that it cannot go on for ever
without leaving the state unchanged.

## 4. Proofs

`AskPipelineProofs` proves, for every set of calls and every setting, that
`AskPipeline` has

- `TypeCorrect`: the type invariant, inductive by itself;
- `ExecutionIsGuarded`, `DeliveredSQLIsChecked`, from `SQLInv`;
- `AnswerFollowsRoute`, `TokensAreOfFinalAnswer`, from `AnswerInv`;
- `TrailIsFaithful`, `FailuresAreAudited`, from `AuditInv`.

No assumption is made, about constants or otherwise. The properties speak of
calls that have ended or of texts already executed, and are not inductive: that
a delivered text was governed depends on what the call knew when it was last
validated. `SQLInv` therefore says of every place in the pipeline what holds of
the text there: from `validated` on, it is governed and accepted. `AnswerInv`
says where a call can be on each route, whose tokens can have been forwarded
there, and which rows the answer stands on. `AuditInv` says that while a call is
open its trail holds completions only, and which one it already has when the
second generator of a merging route is at work. Each is proved in three facts:
`Init` establishes it, every action keeps it (one step for each action, the
lemmas on `Failed`, `Status`, `Goto` and `EnterSQL` shared), and with `TypeOK`
it implies the property. What `prepare_governed_sql` returns is a lemma of its
own, `PreparedForms`.

The same module proves `ImplementsContract`: every step of the pipeline, seen
through `StageOf`, is a step of `AskContract` or leaves its variables alone. The
contract's guards speak of the last phase announced, which the pipeline does not
test; `ContractInv` ties it to where the call stands (`PhaseAt`), says that only
streams announce and speak, and that a call is at its end exactly when it has an
outcome. The steps are then sorted into six kinds (admits, moves on, speaks,
succeeds, fails, abandons), one lemma each.

`AccessProofs` proves, for any keys, policies, lists of roles, statements and
number of requests, the type invariant and the four properties of the run `access`: `TypeCorrect`,
`RevokedIsOut`, `NoRoleIsOutvoted`, `ContractIsEnforced`, `AcceptedIsServed`. It
assumes what `Access` says of its constants: `RoleListsAssumption`,
`CatalogsAssumption`, `StatementsAssumption` (their types), `KeysAssumption` (keys
are told apart) and `BoundsAssumption`; TLC evaluates them in both runs. No set
need be finite but the list of roles.

- `RevokedStaysOut` rests on `LateInv`: once a key cannot be used it never can be
  again, so a row read after that moment is inactive. Its lemmas
  `UnusableStays` and `InactiveStays` are about time and the key table alone.
- `WithinEveryRole` rests on `SenderInv`, which ties the principal of a request,
  and before that the row it found, to the key as it was issued, and the outcome
  to `Evaluate`; and on `EvaluateWithin`, which compares the merged policy with
  each role. Which role masks a column is the largest index of a set
  (`Largest`, from the library's theorem on least elements).
- `ContractMatchesEnforcement` needs no step: `ContractAgrees` shows it of any
  file and principal.
- `AcceptedKeyServed` adds `IssuedInv` (an issued key met the contract of the file
  it was issued under). A process may run with a file nobody validated, so that
  none of the proofs rests on a valid one. `RefusedBetweenRoles` shows that an
  attribute which no role's contract asks for and the merge finds missing is one
  that a role was let off. `ServerInv`: no request is under way before the API has
  loaded its policies.

`ChatSessionsProofs` proves, for any number of turns and any cap of two messages
or more (`MaxMessagesAssumption`, the least the settings allow), the type
invariant and all safety properties of the run `chat_sessions`.

- `HistoryBounded` needs the bound of `counted`, the count a turn has read and
  is going to write (`BoundInv`).
- `ExchangesInOrder` says what a list may hold; `OrderInv` adds what it may still
  get: a message is not in the list while its turn may store it (`MayStore`).
  `AloneInv` says that undisturbed exchanges have the list to themselves, and that
  an answer about to be pushed finds its question at the end.
- `AcknowledgedRecorded` is the case of ended turns in `AckInv`, which speaks of each
  message from its push on.
- `UndisturbedExact` speaks of the store at rest. `ExactInv` carries it through the
  five commands of an append: where the entry lags behind the list, what a turn
  has counted, and that there is room for what it adds.
- `NoResurrection` is an action property; `ResurrectInv` has every turn that could
  create an entry that is gone in `unseen`.

What the trim keeps of a list is the lemma `LastOfKeeps`; the rest of the argument
is about places of a list, before and after one append.

`PromptDataProofs` proves of `KnowledgeIndex`, for any tools, versions, widths and
number of starts, the type invariant and the safety properties of
`knowledge_index`. It assumes `WidthsAssumption`, `BoundsAssumption` and
`ToolsAssumption` (no tool has the name of the shared store). `IndexIsOneBuild`
rests on `FileInv`, by which the file and what has been read of it are of one build,
and on `BuildInv`: a load that has cleared an undisturbed store finds it empty, is the
only one there, and holds a whole build in its hand unless it found the file
`short`. `KnownWidthIsTables` rests
on `WidthInv`: a load never goes on with nothing, and no store knows a width before
a load has told it. `ServesAnIndex` is read off the steps that end a start, with
`ServerInv`.

The same module proves of `SchemaDocs`, for documents of any length about any
tables, the type invariant and `TablesAsSaid`, from `LinesAssumption` (`MaxLines`
is a number). `Agrees` relates what the parser holds of a table to what is noted
of it: unless a description went astray, the same foreign keys, no columns but
noted ones, and sections open that the note stands under too. `ReadAgrees` shows
that a line of any kind keeps it, `TableInv` says it of the block being read and of
every block that has ended; `PartInv` ties domains and hubs to the parts written.

And it proves of the functions, for every input and not only for the cases of the
run, what the modules promise:

- `ContextsKept`: the context of any list of tables with distinct names, for any
  question with finitely many words and any cap, satisfies `ContextKeeps`.
- `TrustedSqlIsApproved`: for any catalog and any text, `TrustedIsApproved` and
  `ApprovedIsUsed`.
- `RowsComeAsSaid`: for any statement, number of rows, cap and size of a sample,
  `RowsAsSaid`. That the spread between head and tail repeats no row and does not
  run into the tail is `SpreadsApart` and `SpreadAcross`, integer arithmetic about
  rounding to even.
- `ChunksComeAsSaid`: for any text, size and overlap below it, `ChunksAsSaid`.
  Sections part the text at headings (`SectionOf`), whatever is as short as the
  overlap is whole in a window of its section (`WindowWith`) and still in the chunk
  that is left of it (`CutWith`), and trimming a window moves neither end past the
  next one's (`CutsForward`).
- `AnswersAreExplained`: for any ask, `ExplainsTheResult`; one lemma for each of
  the callers, since two of them amend what another has built.

They rest on the lemmas about `Orders`. A strict order gives each of n elements a
rank below n of its own, so every rank is some element's (`RanksOrder`, from the
library's theorem on injections of finite sets), and `Sorted` lists each element
once and nothing before what it should follow (`SortedInOrder`). The induction is in
the library's theorems on cardinality; no function is unfolded. `CaseInv` carries the
theorems to the run: whatever `MCSpec` has given is a case one of them speaks of,
and a result is that of its function. `ChoicesAreKept`, `CutsAreKept` and
`ExplanationsFit` follow, for any bounds on marks, rows and texts.

`RateLimitProofs` proves, for any limit, window and finite set of calls, the type
invariant and the three properties of `rate_limit`, of which two are action
properties. Time is any number of ticks, and so is a second.

- `WindowBound`, in memory, from `MemoryInv`: the list holds calls that were let in,
  at most the limit, and who is not in it is out of the window. In Redis from
  `OrderInv`: while MULTIs come in order, calls counted in have timestamps of
  their own, and one that was let in stays a member until it is out of every
  window to come, the key's expiry included. Members of refused calls may be as
  many as there are calls; `OlderInv` bounds those that are no younger than some
  call let in.
- `RefusalEarned` from `MembersInv`: a member of the set is some call's that was let
  in, is being counted out, or failed.
- `RetryHonoured` from `CalmInv`: once Retry-After was worked out, the members that
  will stand against a call that keeps to it are fewer than the limit. That the
  rounding never ends too early is `RetryLater`.

`CachesProofs` proves, for any processes, users, calls, versions and positive time to live,
the type invariant and the four properties of `caches`. `ApartInv`, `AgeInv` and
`ContextInv` say of entries and of results on their way what the properties say of
results served: whose they are, when they fall due, which schema they are of.
`NeverBackInTime` compares calls that were served at different times. `ForwardInv`
relates every entry and every result on its way into the cache to what was
served under the same key and to the floor of who is about to read it; while no
two misses overlap, a miss has its key to itself, which is its last conjunct.
The type invariant is stronger than `TypeOK`: nothing stored or on its way is from
the future, a call under way knows who asks, and none is under way with the
memory cache.

`AgentAskProofs` proves, for any finite set of tool calls and any number of
documents, the type invariant and the two properties of `agent_ask`.
`RowsOfTheirSQL` rests on `SqlInv`: unless SQL calls ran together, the one at work
is the one whose SQL the context holds, and the context holds the SQL of its rows
or of a query on its way. `CitationsMeant` rests on `CitedInv`: of an answer with sources, every number was
seen by its author under some search, no number meant for the last search is lost,
and with one search that is where it is looked up. `AgentImplementsContract` (`KeepsContract`) shows that
every step of the agent is a step of `AskContract` or changes nothing its caller
sees; `ShownInv` says what has been shown in each phase of the run.

`ProviderStreamProofs` proves, for any calls, number of retries, threads of the
pool and events of a stream, the type invariant and the two safety properties of
`provider_stream`, from what `ProviderStream` assumes of its constants. Calls share
only the pool, so `CallInv` speaks of each call by itself, and `OthersKeep` shows that
a step of one leaves every other as it is.

- `Stands` says where a call can be with an exchange under way or over, and what
  job it waits for; `Yields` which chunks an exchange can have made.
- `HandedFromOneExchange` (`OneExchange`) rests on `Flows`. Through a worker nothing
  is handed out, queued or unsent while an exchange is under way, and a call that
  waits afterwards has either the whole exchange on its way (`OnTheWay`: what the
  caller has, the queue and the unsent items are, in this order, its chunks and the
  end) or nothing but the worker's last words. Taking and putting an item keep that
  (`NextItem`, `TakesItem`, `PutsItem`, lemmas about sequences alone).
- `CountedAsReported` (`MeteredAsReported`) compares the two functions that read usage
  and finish reason. `GatheredAgree` shows that they find the same in any list with at
  most one chunk that has no text.
- `WorkersAgree` draws the conclusion for blocking clients: the exception that
  `MeteredAsReported` makes never arises in their streams, whatever the vendor sends.

Every invariant named here was checked by TLC on the instance of its run, or on a
larger one (`CaseInv` with shorter texts), beside the proof. `CaseInv` also shows that
the theorems about functions are not empty: every case of the run meets their
hypotheses.

Only model-checked:

- liveness (`EveryCallEnds`, `TurnEnds`, `JobsEnd`, `CallsEnd`), which the prover
  does not do under fairness;
- `SqlKept`: the post-processor and the reader it is compared with are folds over
  the marks of a text (`SqlText`), and what a fold computes for every text needs
  induction over data.

## 5. Where code and documents part

Three have a run that reaches them.

1. `infrastructure/auth/service.py` calls the name of an environment key stable.
   It is the key's place in a frozenset, and changes with the process: two keys
   may swap audit names and rate-limit buckets at a restart (`access_subject`).
2. `domain/models/ask.py` has a dry run validate only. The agent's tool executes
   the SQL it has generated whatever the mode of the request (`agent_dry_run`).
3. The parser of `infrastructure/schema/markdown_parser.py` loses the columns of a
   table if a blank line follows their heading, as it does in both fixtures of the
   tests (`schema_columns`).

Others were met while the modules were written. The models behave as the code
does; no run is kept for them.

- `docs/PHASE_12_GOVERNANCE.md:185` has a denial audited as `GOVERNANCE_DENIED`. A
  plain call on the hybrid pipeline audits `pipeline_error`
  (`application/use_cases/hybrid_ask.py:88`).
- `api/v1/routes/chat.py` says a stream ends with `done` or `error`. If the exchange
  cannot be recorded it ends with neither (line 134).
- `docs/RAG_INGEST.md` has the API search pgvector after a load. A process that
  finds rows skips the step that tells its store the width, and every search
  returns nothing (`infrastructure/rag/pgvector_store.py:124`).
- The same document has the loader ensure the table. It truncates it first, and a
  first load into a new database fails (`infrastructure/rag/load_vectors.py:38`).
- `README.md` has a restart reload the schema. Contexts that the process before it
  cached in Redis after the edit are served until they expire.
- `cache_query_results_ttl_seconds` has no lower bound, and a time to live of zero
  means for ever in `infrastructure/cache/memory_cache.py`.
- The docstring of the Groq provider has chunks "yielded incrementally". The worker
  hands out the first when the whole exchange has been read.
- `llm_provider.py` has errors of a stream raised "after retries". The stream of the
  OpenAI provider is not retried.
- `docs/PERFORMANCE.md:66` has different subjects never share query rows with scoped
  keys. `AskUseCase` passes a scope; the agent's tool
  (`infrastructure/ai/langchain/tools.py:66`) does not, so that all subjects share
  the rows of agent asks (`application/use_cases/run_query.py:142`). `UsersApart`
  speaks of those who are passed on, and says that they do not get shared rows.
- The agent's path has no governance: the tool generates SQL and runs it
  (`infrastructure/ai/langchain/tools.py:52-68`) and never calls
  `prepare_governed_sql`, with policies enabled too. `AskPipeline` shows governed SQL
  of the other two pipelines; `AgentAsk` promises none.
- `docs/GOVERNANCE.md:124` has `create` reject keys that omit required attributes. A
  key whose roles differ on missing attributes is accepted and always refused
  (`infrastructure/governance/attribute_contract.py:25`, and the merge in the
  resolver).
- `infrastructure/governance/bootstrap.py` validates `policies.yaml` (line 40) and
  reads it again (line 48): a file edited between the two is enforced unvalidated.
- A JSONL index cut between two lines loads as if it were whole; the number of
  chunks in its manifest is never compared (`infrastructure/rag/load_vectors.py`).
- An answer over rows that is delivered without sources keeps the citations it
  declares, though they name no document: `infrastructure/rag/citations.py:45`
  returns early.
- `infrastructure/ai/sql_postprocessor.py:44` takes the first fenced block of a reply
  and drops the rest before the check for a single statement: a second statement in
  another block is discarded, not refused. A fence inside a literal counts too.
- `domain/models/explainability.py:201-203` has the index of a citation match the
  answer's text, counted from 0. Answers cite from 1, so the index is one less than
  the number in the text. The model keeps both as the code has them.
- A merged answer is given no verdict of the validator, so its explanation warns of
  nothing.
- A dry run on the route of both is delivered with `dry_run` false
  (`domain/models/ask.py:96`) and an explanation without the validator's verdict.
- `referenced_tables`, by its description those of the executed or validated SQL,
  has the tables of the schema context too.
- The row cap takes the place of a limit that is not a literal (`FETCH`, an
  expression), so that a statement may return more rows than it asks for.
- An empty heading in a document takes the next line as its title, and a heading
  without a body is in no chunk. The hub part of a hand-written schema ends at
  the heading 2.2 and at no other.
- A question is matched to a trusted asset whatever the dialect of the asset.
- A statement with `;` in front, or with several apart at its end, is refused as
  more than one.

## 6. Plan

Done: the ask pipeline with its contract and proofs, chat sessions, the
knowledge index, rate limits, caches, access, the agent, the providers, each with
its proofs; schema documents and contexts, the functions of prompts and explanations.
The agent keeps the contract of the two pipelines, and the functions of prompts
and explanations are proved for every input but the post-processing of SQL. What
is left is the parts below, and `SqlKept`, should a prover come that does induction.

Not modelled, and not planned: the parsing of a model's JSON and, by sqlglot, of
SQL; the wording of prompts; logging, metrics and tracing beyond the records
named above, which only write; migrations and wiring; the admin routes, which
compare one claim and keep no state; two ingests that write one file at a time,
which make any mixture of lines.
