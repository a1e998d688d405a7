--------------------------- MODULE KnowledgeIndex ---------------------------
(***************************************************************************)
(* The document index: the Knowledge folder is chunked and embedded into a *)
(* JSONL file with a manifest beside it (DocumentIngestService), the file  *)
(* is loaded into a vector store (VectorIndexLoadService), and the API     *)
(* searches the store.  The API does all of it when it starts              *)
(* (sync_knowledge_on_startup), the command-line tools do parts of it in   *)
(* processes of their own.  Processes share the two files and, with        *)
(* pgvector, one table; they crash, restart, and may be configured with    *)
(* another embedding model, whose vectors have another width.              *)
(*                                                                         *)
(* Two ingests at the same time are left out: WritersApart says so.        *)
(***************************************************************************)
EXTENDS Naturals

CONSTANTS
    Tools,          \* processes that run command-line jobs
    MaxVersion,     \* bound: versions of the Knowledge folder
    MaxStarts,      \* bound: processes started
    Widths          \* vector widths of the embedding models in use

ASSUME WidthsAssumption == Widths \subseteq Nat \ {0}
ASSUME BoundsAssumption == MaxVersion \in Nat \ {0} /\ MaxStarts \in Nat

Server == "server"
Procs  == Tools \cup {Server}
Shared == "table"
Unset  == 0             \* no width known, no table, no manifest

ASSUME ToolsAssumption == Shared \notin Tools

VARIABLES
    setting,    \* backend, sync_on_startup and sync_force
    folder,     \* the version of the Knowledge folder; 0 when it is empty
    jsonl,      \* the records in the JSONL file
    cut,        \* does the JSONL file end in the middle of a line?
    manifest,   \* the width in manifest.json, if that can be read
    table,      \* the width of the pgvector table
    rows,       \* rows[s]: the records in the table, or in a process's memory
    starts,     \* how many processes have been started
    pc,         \* pc[p]: where process p is
    job,        \* job[p]: what it is doing
    width,      \* width[p]: the width of its embedding model
    known,      \* known[p]: the width its store object knows
    version,    \* version[p]: the folder version it has chunked
    declared,   \* declared[p]: the width it has read from the manifest
    read,       \* read[p]: the records it has read back from the file
    disturbed,  \* history: the stores whose last load overlapped another or
                \* added to what was there
    short       \* history: the other stores whose last load read a file that
                \* was not written to its end, by a crash or not yet

files  == <<jsonl, cut, manifest>>
store  == <<table, rows, known>>
local  == <<job, width, version, declared, read>>
history == <<disturbed, short>>
vars   == <<setting, folder, starts, files, store, local, pc, history>>

\* Every version of the folder has the chunk 0 and one chunk of its own.
Chunks(v) == {0, v}
Record(i, v, w) == [id |-> i, version |-> v, width |-> w]
Records == [id : 0 .. MaxVersion, version : 1 .. MaxVersion, width : Widths]
Build(v, w) == {Record(i, v, w) : i \in Chunks(v)}
Builds == {Build(v, w) : v \in 1 .. MaxVersion, w \in Widths}
PartsOfBuilds == UNION {SUBSET b : b \in Builds}

Jobs == {"startup", "sync", "force", "ingest", "load", "append"}

\* A first start: no files yet, and a table only if an earlier installation
\* has left one, truncated.
Init ==
    /\ setting \in [pgvector : BOOLEAN, sync : BOOLEAN, force : BOOLEAN]
    /\ folder \in 0 .. 1
    /\ starts = 0
    /\ jsonl = {}
    /\ cut = FALSE
    /\ manifest = Unset
    /\ table \in IF setting.pgvector THEN Widths \cup {Unset} ELSE {Unset}
    /\ rows = [s \in Procs \cup {Shared} |-> {}]
    /\ pc = [p \in Procs |-> "down"]
    /\ job = [p \in Procs |-> "startup"]
    /\ width = [p \in Procs |-> Unset]
    /\ known = [p \in Procs |-> Unset]
    /\ version = [p \in Procs |-> 0]
    /\ declared = [p \in Procs |-> Unset]
    /\ read = [p \in Procs |-> {}]
    /\ disturbed = {}
    /\ short = {}

-----------------------------------------------------------------------------
Goto(p, l) == pc' = [pc EXCEPT ![p] = l]

\* The store of process p: one table for all, or its own memory.
Place(p) == IF setting.pgvector THEN Shared ELSE p

NoTable == setting.pgvector /\ table = Unset

\* The job of a process is over, and what it has read with it.
Forget(p) ==
    /\ job' = [job EXCEPT ![p] = "startup"]
    /\ width' = [width EXCEPT ![p] = Unset]
    /\ version' = [version EXCEPT ![p] = 0]
    /\ declared' = [declared EXCEPT ![p] = Unset]
    /\ read' = [read EXCEPT ![p] = {}]

\* The process goes, and its store object and memory with it.
Exit(p, left) ==
    /\ Goto(p, "down")
    /\ Forget(p)
    /\ known' = [known EXCEPT ![p] = Unset]
    /\ rows' = [left EXCEPT ![p] = {}]

\* A job raises, which ends the process: the API does not start.
Fail(p) ==
    /\ Exit(p, rows)
    /\ UNCHANGED <<setting, folder, starts, files, table, history>>

\* A job is done, leaving these rows: the API serves, a tool exits.
Done(p, left) ==
    IF p = Server
    THEN Goto(p, "serving") /\ Forget(p) /\ rows' = left /\ UNCHANGED known
    ELSE Exit(p, left)

\* The job goes on; nothing but files changes.
Proceed(p, l) ==
    /\ Goto(p, l)
    /\ UNCHANGED <<setting, folder, starts, store, history>>

-----------------------------------------------------------------------------
\* The Knowledge folder is edited.
EditFolder ==
    /\ folder < MaxVersion
    /\ folder' = folder + 1
    /\ UNCHANGED <<setting, starts, files, store, local, pc, history>>

\* A process starts, with the embedding model then configured.  The API
\* serves at once if it does not sync or there is nothing to sync.
Start(p) ==
    /\ pc[p] = "down"
    /\ starts < MaxStarts
    /\ starts' = starts + 1
    /\ \E w \in Widths, j \in IF p = Server THEN {"startup"} ELSE Jobs \ {"startup"} :
          /\ width' = [width EXCEPT ![p] = w]
          /\ job' = [job EXCEPT ![p] = j]
          /\ \/ j = "startup" /\ Goto(p, IF setting.sync /\ folder > 0 THEN "count" ELSE "serving")
             \/ j \in {"sync", "force"} /\ folder > 0 /\ Goto(p, "count")
             \/ j = "ingest" /\ Goto(p, "chunk")
             \/ j \in {"load", "append"} /\ Goto(p, "read_manifest")
    /\ UNCHANGED <<setting, folder, files, store, version, declared, read, history>>

Forced(p) == job[p] = "force" \/ (job[p] = "startup" /\ setting.force)

\* Mutation: a JSONL file left by an earlier run counts as an index.
HasIndexOrFile(p) == rows[Place(p)] # {} \/ jsonl # {}

HasIndex(p) == rows[Place(p)] # {}

\* Mutation: a sync waits for the table to be there.
CountWaits(p) ==
    /\ pc[p] = "count"
    /\ ~NoTable
    /\ \/ /\ Forced(p) \/ ~HasIndex(p)
          /\ Proceed(p, "chunk")
          /\ UNCHANGED <<files, local>>
       \/ /\ ~Forced(p) /\ HasIndex(p)
          /\ Done(p, rows)
          /\ UNCHANGED <<setting, folder, starts, files, table, history>>

\* Unless it is forced, a sync leaves a store alone that holds any chunk.
\* Counting the rows of a table that does not exist raises.
Count(p) ==
    /\ pc[p] = "count"
    /\ \/ /\ Forced(p) \/ ~(NoTable \/ HasIndex(p))
          /\ Proceed(p, "chunk")
          /\ UNCHANGED <<files, local>>
       \/ /\ ~Forced(p) /\ ~NoTable /\ HasIndex(p)
          /\ Done(p, rows)
          /\ UNCHANGED <<setting, folder, starts, files, table, history>>
       \/ ~Forced(p) /\ NoTable /\ Fail(p)

\* A process is writing the JSONL file.
Writing == {"truncate", "line", "last_line", "manifest", "manifest_text"}

WritersApart == \A p \in Procs : pc[p] \notin Writing

\* Read and chunk the documents and embed the chunks, before any writing.
Chunk(p) ==
    /\ pc[p] = "chunk"
    /\ \/ /\ folder > 0
          /\ WritersApart
          /\ version' = [version EXCEPT ![p] = folder]
          /\ Proceed(p, "truncate")
          /\ UNCHANGED <<files, job, width, declared, read>>
       \/ Fail(p)

\* write_jsonl_index opens the file for writing, which empties it, and writes
\* a line per record; what has reached the disk may end inside a line.
Truncate(p) ==
    /\ pc[p] = "truncate"
    /\ jsonl' = {}
    /\ cut' = FALSE
    /\ Proceed(p, "line")
    /\ UNCHANGED <<manifest, local>>

WriteLine(p) ==
    /\ pc[p] = "line"
    /\ jsonl' = {Record(0, version[p], width[p])}
    /\ cut' \in BOOLEAN
    /\ Proceed(p, "last_line")
    /\ UNCHANGED <<manifest, local>>

WriteLastLine(p) ==
    /\ pc[p] = "last_line"
    /\ jsonl' = Build(version[p], width[p])
    /\ cut' = FALSE
    /\ Proceed(p, "manifest")
    /\ UNCHANGED <<manifest, local>>

\* write_manifest opens its file, which empties it, and writes the text; until
\* then a load finds a manifest it cannot read, which is as good as none.
TruncateManifest(p) ==
    /\ pc[p] = "manifest"
    /\ manifest' = Unset
    /\ Proceed(p, "manifest_text")
    /\ UNCHANGED <<jsonl, cut, local>>

WriteManifest(p) ==
    /\ pc[p] = "manifest_text"
    /\ manifest' = width[p]
    /\ \/ /\ job[p] # "ingest"
          /\ Goto(p, "read_manifest")
          /\ version' = [version EXCEPT ![p] = 0]
          /\ UNCHANGED <<rows, known, job, width, declared, read>>
       \/ job[p] = "ingest" /\ Done(p, rows)
    /\ UNCHANGED <<setting, folder, starts, jsonl, cut, table, history>>

-----------------------------------------------------------------------------
\* load_jsonl reads the manifest, then the records.
ReadManifest(p) ==
    /\ pc[p] = "read_manifest"
    /\ \/ /\ manifest # Unset
          /\ declared' = [declared EXCEPT ![p] = manifest]
          /\ Proceed(p, "read_records")
          /\ UNCHANGED <<files, job, width, version, read>>
       \/ manifest = Unset /\ Fail(p)

ReadRecords(p) ==
    /\ pc[p] = "read_records"
    /\ \/ /\ ~cut /\ jsonl # {}
          /\ read' = [read EXCEPT ![p] = jsonl]
          /\ Proceed(p, IF job[p] = "append" THEN "ensure" ELSE "clear")
          /\ UNCHANGED <<files, job, width, version, declared>>
       \/ (cut \/ jsonl = {}) /\ Fail(p)

\* A process is between clearing the store and filling it.
Loading(q) == pc[q] \in {"ensure", "upsert"}

Overlaps(p) == \E q \in Procs \ {p} : Place(q) = Place(p) /\ Loading(q)

\* Mutation: a load leaves the old rows in place.
EmptiedNot(p) == rows

Emptied(p) == [rows EXCEPT ![Place(p)] = {}]

\* delete_all, in a transaction of its own.  A missing table raises.
Clear(p) ==
    /\ pc[p] = "clear"
    /\ \/ /\ ~NoTable
          /\ rows' = Emptied(p)
          /\ Goto(p, "ensure")
          /\ disturbed' = IF Overlaps(p) THEN disturbed \cup {Place(p)} ELSE disturbed \ {Place(p)}
          /\ short' = IF read[p] \in Builds \/ Overlaps(p)
                      THEN short \ {Place(p)} ELSE short \cup {Place(p)}
          /\ UNCHANGED <<setting, folder, starts, files, table, known, local>>
       \/ NoTable /\ Fail(p)

\* ensure_schema creates a missing table; one that exists keeps its width.
EnsureSchema(p) ==
    /\ pc[p] = "ensure"
    /\ table' = IF NoTable THEN declared[p] ELSE table
    /\ known' = [known EXCEPT ![p] = declared[p]]
    /\ Goto(p, "upsert")
    /\ UNCHANGED <<setting, folder, starts, files, rows, local, history>>

\* Mutation: the store does not compare the records' width with its own.
FitsTableOnly(p) == setting.pgvector => \A rec \in read[p] : rec.width = table

\* The records have the width the store knows and the table was made for.
FitsStore(p) ==
    \A rec \in read[p] :
        /\ rec.width = known[p]
        /\ setting.pgvector => rec.width = table

\* What the store holds once the records are in.
Upserted(p) == {old \in rows[Place(p)] : \A rec \in read[p] : rec.id # old.id} \cup read[p]

\* upsert_records: every batch in one transaction, replacing rows by id.
Upsert(p) ==
    /\ pc[p] = "upsert"
    /\ \/ /\ FitsStore(p)
          /\ Done(p, [rows EXCEPT ![Place(p)] = Upserted(p)])
          /\ disturbed' = IF job[p] = "append" THEN disturbed \cup {Place(p)} ELSE disturbed
          /\ short' = IF job[p] = "append" THEN short \ {Place(p)} ELSE short
          /\ UNCHANGED <<setting, folder, starts, files, table>>
       \/ ~FitsStore(p) /\ Fail(p)

\* The process is killed, or the API is stopped.
Crash(p) ==
    /\ pc[p] # "down"
    /\ Exit(p, rows)
    /\ UNCHANGED <<setting, folder, starts, files, table, history>>

-----------------------------------------------------------------------------
Work(p) ==
    \/ Count(p) \/ Chunk(p)
    \/ Truncate(p) \/ WriteLine(p) \/ WriteLastLine(p) \/ TruncateManifest(p) \/ WriteManifest(p)
    \/ ReadManifest(p) \/ ReadRecords(p)
    \/ Clear(p) \/ EnsureSchema(p) \/ Upsert(p)

Next == EditFolder \/ \E p \in Procs : Start(p) \/ Work(p) \/ Crash(p)

Spec == Init /\ [][Next]_vars

\* A process that runs makes progress: files, the embedding service and the
\* database answer or fail.
FairSpec == Spec /\ \A p \in Procs : WF_vars(Work(p))
-----------------------------------------------------------------------------
Labels == Writing \cup {"down", "count", "chunk", "read_manifest",
                        "read_records", "clear", "ensure", "upsert", "serving"}

\* The shape of the state.
TypeOK ==
    /\ setting \in [pgvector : BOOLEAN, sync : BOOLEAN, force : BOOLEAN]
    /\ folder \in 0 .. MaxVersion
    /\ starts \in 0 .. MaxStarts
    /\ jsonl \subseteq Records
    /\ cut \in BOOLEAN
    /\ manifest \in Widths \cup {Unset}
    /\ table \in Widths \cup {Unset}
    /\ rows \in [Procs \cup {Shared} -> SUBSET Records]
    /\ pc \in [Procs -> Labels]
    /\ job \in [Procs -> Jobs]
    /\ width \in [Procs -> Widths \cup {Unset}]
    /\ known \in [Procs -> Widths \cup {Unset}]
    /\ version \in [Procs -> 0 .. MaxVersion]
    /\ declared \in [Procs -> Widths \cup {Unset}]
    /\ read \in [Procs -> SUBSET Records]
    /\ disturbed \subseteq Procs \cup {Shared} /\ short \subseteq Procs \cup {Shared}

\* Whatever crashes between its two transactions, a load that overlaps no
\* other leaves chunks of one build in the store, never of two versions of the
\* folder or of two models: all of them or none, unless it read the JSONL file
\* before that was written to its end (a crash between two lines, or a writer
\* still at work).  Such a file loads like a whole one, as nobody compares it
\* with the number of chunks in the manifest; the store then has a part.
IndexIsOneBuild ==
    \A s \in DOMAIN rows \ disturbed :
        /\ rows[s] \in PartsOfBuilds \cup {{}}
        /\ s \notin short => rows[s] \in Builds \cup {{}}

\* A width the serving API knows is the width of the table it searches,
\* though the manifest it comes from may be another build's.
KnownWidthIsTables ==
    setting.pgvector /\ pc[Server] = "serving" /\ known[Server] # Unset
        => known[Server] = table

\* The API that syncs a folder with documents starts to serve only over an
\* index that has chunks, however its last start ended.
ServesAnIndex ==
    [][pc[Server] \notin {"down", "serving"} /\ pc'[Server] = "serving"
          => rows'[Place(Server)] # {}]_vars

\* A start of the API, and every job of a tool, comes to an end.
JobsEnd ==
    \A p \in Procs : pc[p] \notin {"down", "serving"} ~> pc[p] \in {"down", "serving"}
=============================================================================
