-------------------------- MODULE PromptDataProofs --------------------------
(***************************************************************************)
(* What goes into a prompt and comes with its answer.  The document index, *)
(* for any number of tools, of starts, of versions of the Knowledge folder *)
(* and of widths of the embedding models; the parser of schema documents,  *)
(* for documents of any length and about any tables; and the functions     *)
(* that choose and cut, for every input.                                   *)
(***************************************************************************)
EXTENDS KnowledgeIndex, MCPromptData, FiniteSetTheorems, WellFoundedInduction, TLAPS

(***************************************************************************)
(* TypeOK, with what makes it inductive: a process with a job has an       *)
(* embedding model, and one that writes has chunked a version.             *)
(***************************************************************************)
WorkOK ==
    \A p \in Procs :
        /\ pc[p] \notin {"down", "serving"} => width[p] \in Widths
        /\ pc[p] \in Writing => version[p] \in 1 .. MaxVersion

TypeInv == TypeOK /\ WorkOK

LEMMA DistinctNames == Server \in Procs /\ Shared \notin Procs /\ Unset \notin Widths
BY ToolsAssumption, WidthsAssumption DEF Procs, Server, Shared, Unset

LEMMA RecordOK ==
    ASSUME NEW i \in 0 .. MaxVersion, NEW v \in 1 .. MaxVersion, NEW w \in Widths
    PROVE  Record(i, v, w) \in Records
BY DEF Record, Records

LEMMA BuildOK ==
    ASSUME NEW v \in 1 .. MaxVersion, NEW w \in Widths
    PROVE  Build(v, w) \subseteq Records /\ Build(v, w) \in Builds
<1>1. 0 \in 0 .. MaxVersion /\ v \in 0 .. MaxVersion
  BY BoundsAssumption
<1> QED
  BY <1>1, RecordOK DEF Build, Builds, Chunks

LEMMA PlaceOK == ASSUME NEW p \in Procs PROVE Place(p) \in Procs \cup {Shared}
BY DEF Place

\* What the end of a process leaves.
LEMMA ExitOK ==
    ASSUME TypeInv, NEW p \in Procs, NEW left \in [Procs \cup {Shared} -> SUBSET Records], Exit(p, left)
    PROVE  /\ pc' = [pc EXCEPT ![p] = "down"]
           /\ rows' = [left EXCEPT ![p] = {}]
           /\ known' = [known EXCEPT ![p] = Unset]
           /\ pc' \in [Procs -> Labels] /\ job' \in [Procs -> Jobs]
           /\ rows' \in [Procs \cup {Shared} -> SUBSET Records]
           /\ width' \in [Procs -> Widths \cup {Unset}] /\ known' \in [Procs -> Widths \cup {Unset}]
           /\ version' \in [Procs -> 0 .. MaxVersion]
           /\ declared' \in [Procs -> Widths \cup {Unset}] /\ read' \in [Procs -> SUBSET Records]
           /\ WorkOK'
<1>1. 0 \in 0 .. MaxVersion /\ "startup" \in Jobs /\ "down" \in Labels
  BY BoundsAssumption DEF Jobs, Labels
<1> QED
  BY <1>1 DEF TypeInv, TypeOK, WorkOK, Exit, Forget, Goto, Writing

\* What the end of a job leaves.
LEMMA DoneOK ==
    ASSUME TypeInv, NEW p \in Procs, NEW left \in [Procs \cup {Shared} -> SUBSET Records], Done(p, left)
    PROVE  /\ pc' = [pc EXCEPT ![p] = IF p = Server THEN "serving" ELSE "down"]
           /\ rows' = IF p = Server THEN left ELSE [left EXCEPT ![p] = {}]
           /\ known' = IF p = Server THEN known ELSE [known EXCEPT ![p] = Unset]
           /\ pc' \in [Procs -> Labels] /\ job' \in [Procs -> Jobs]
           /\ rows' \in [Procs \cup {Shared} -> SUBSET Records]
           /\ width' \in [Procs -> Widths \cup {Unset}] /\ known' \in [Procs -> Widths \cup {Unset}]
           /\ version' \in [Procs -> 0 .. MaxVersion]
           /\ declared' \in [Procs -> Widths \cup {Unset}] /\ read' \in [Procs -> SUBSET Records]
           /\ WorkOK'
<1>1. 0 \in 0 .. MaxVersion /\ "startup" \in Jobs /\ "serving" \in Labels
  BY BoundsAssumption DEF Jobs, Labels
<1>2. CASE p = Server
  BY <1>1, <1>2 DEF TypeInv, TypeOK, WorkOK, Done, Forget, Goto, Writing
<1>3. CASE p # Server
  <2>1. Exit(p, left)
    BY <1>3 DEF Done
  <2> QED
    BY <1>3, <2>1, ExitOK
<1> QED
  BY <1>2, <1>3

LEMMA TypeStep == TypeInv /\ [Next]_vars => TypeInv'
<1> SUFFICES ASSUME TypeInv, [Next]_vars PROVE TypeInv'
  OBVIOUS
<1> USE DEF files, store, local, history
<1>0. TypeOK /\ WorkOK
  BY DEF TypeInv
<1>r. rows \in [Procs \cup {Shared} -> SUBSET Records]
  BY <1>0 DEF TypeOK
<1>1. CASE EditFolder
  BY <1>0, <1>1, BoundsAssumption DEF EditFolder, TypeInv, TypeOK, WorkOK
<1>2. ASSUME NEW p \in Procs, Start(p) PROVE TypeInv'
  <2>1. PICK w \in Widths, j \in Jobs, l \in Labels \ Writing :
           width' = [width EXCEPT ![p] = w] /\ job' = [job EXCEPT ![p] = j] /\ pc' = [pc EXCEPT ![p] = l]
    BY <1>2 DEF Start, Goto, Jobs, Labels, Writing
  <2>2. starts' \in 0 .. MaxStarts
    BY <1>0, <1>2, BoundsAssumption DEF Start, TypeOK
  <2> QED
    BY <1>0, <1>2, <2>1, <2>2 DEF Start, TypeInv, TypeOK, WorkOK
<1>f. ASSUME NEW p \in Procs, Fail(p) PROVE TypeInv'
  BY <1>0, <1>r, <1>f, ExitOK DEF Fail, TypeInv, TypeOK
<1>p. ASSUME NEW p \in Procs, NEW l \in Labels \ {"down", "serving"}, Proceed(p, l),
             pc[p] \notin {"down", "serving"}, UNCHANGED <<job, width>>,
             l \in Writing => version'[p] \in 1 .. MaxVersion,
             \A q \in Procs \ {p} : version'[q] = version[q],
             version' \in [Procs -> 0 .. MaxVersion],
             declared' \in [Procs -> Widths \cup {Unset}], read' \in [Procs -> SUBSET Records],
             jsonl' \subseteq Records, cut' \in BOOLEAN, manifest' \in Widths \cup {Unset}
      PROVE  TypeInv'
  BY <1>0, <1>p DEF Proceed, Goto, TypeInv, TypeOK, WorkOK
<1>d. ASSUME NEW p \in Procs, NEW left \in [Procs \cup {Shared} -> SUBSET Records], Done(p, left),
             UNCHANGED <<setting, folder, starts>>,
             jsonl' \subseteq Records, cut' \in BOOLEAN, manifest' \in Widths \cup {Unset},
             table' = table, disturbed' \subseteq Procs \cup {Shared},
             short' \subseteq Procs \cup {Shared}
      PROVE  TypeInv'
  BY <1>0, <1>d, DoneOK DEF TypeInv, TypeOK
<1>3. ASSUME NEW p \in Procs, Count(p) PROVE TypeInv'
  <2>1. CASE Proceed(p, "chunk") /\ UNCHANGED <<files, local>>
    BY <1>0, <1>3, <1>p, <2>1 DEF Count, TypeOK, Labels, Writing
  <2> QED
    BY <1>0, <1>r, <1>3, <1>d, <1>f, <2>1 DEF Count, TypeOK
<1>4. ASSUME NEW p \in Procs, Chunk(p) PROVE TypeInv'
  <2>1. CASE /\ folder > 0 /\ version' = [version EXCEPT ![p] = folder] /\ Proceed(p, "truncate")
             /\ UNCHANGED <<files, job, width, declared, read>>
    <3>1. folder \in 1 .. MaxVersion /\ version' \in [Procs -> 0 .. MaxVersion]
      BY <1>0, <2>1 DEF TypeOK
    <3>2. version'[p] \in 1 .. MaxVersion /\ \A q \in Procs \ {p} : version'[q] = version[q]
      BY <1>0, <2>1, <3>1 DEF TypeOK
    <3>3. "truncate" \in Labels \ {"down", "serving"} /\ pc[p] \notin {"down", "serving"}
      BY <1>4 DEF Chunk, Labels, Writing
    <3> QED
      BY <1>0, <1>p, <2>1, <3>1, <3>2, <3>3 DEF TypeOK
  <2> QED
    BY <1>4, <1>f, <2>1 DEF Chunk
<1>w. ASSUME NEW p \in Procs, pc[p] \in Writing
      PROVE  version[p] \in 1 .. MaxVersion /\ width[p] \in Widths /\ pc[p] \notin {"down", "serving"}
  BY <1>0, <1>w DEF WorkOK, Writing
<1>m. ASSUME NEW p \in Procs, TruncateManifest(p) PROVE TypeInv'
  <2>1. pc[p] \in Writing
    BY <1>m DEF TruncateManifest, Writing
  <2>2. version[p] \in 1 .. MaxVersion /\ width[p] \in Widths /\ pc[p] \notin {"down", "serving"}
    BY <1>w, <2>1
  <2>3. /\ manifest' = Unset /\ Proceed(p, "manifest_text") /\ UNCHANGED <<jsonl, cut, local>>
    BY <1>m DEF TruncateManifest
  <2>4. "manifest_text" \in Labels \ {"down", "serving"}
    BY DEF Labels, Writing
  <2> QED
    BY <1>0, <1>p, <2>2, <2>3, <2>4 DEF TypeOK
<1>5. ASSUME NEW p \in Procs, Truncate(p) \/ WriteLine(p) \/ WriteLastLine(p) PROVE TypeInv'
  <2>1. pc[p] \in Writing
    BY <1>5 DEF Truncate, WriteLine, WriteLastLine, Writing
  <2>2. version[p] \in 1 .. MaxVersion /\ width[p] \in Widths /\ pc[p] \notin {"down", "serving"}
    BY <1>w, <2>1
  <2>3. jsonl' \subseteq Records /\ cut' \in BOOLEAN
    <3>1. 0 \in 0 .. MaxVersion
      BY BoundsAssumption
    <3> QED
      BY <1>5, <2>2, <3>1, RecordOK, BuildOK DEF Truncate, WriteLine, WriteLastLine
  <2>4. PICK l \in Writing : Proceed(p, l)
    BY <1>5 DEF Truncate, WriteLine, WriteLastLine, Writing
  <2>5. UNCHANGED <<manifest, local>>
    BY <1>5 DEF Truncate, WriteLine, WriteLastLine
  <2>6. l \in Labels \ {"down", "serving"}
    BY DEF Labels, Writing
  <2> QED
    BY <1>0, <1>p, <2>2, <2>3, <2>4, <2>5, <2>6 DEF TypeOK
<1>6. ASSUME NEW p \in Procs, WriteManifest(p) PROVE TypeInv'
  <2>1. width[p] \in Widths /\ pc[p] \notin {"down", "serving"}
    BY <1>6, <1>w DEF WriteManifest, Writing
  <2>2. CASE /\ Goto(p, "read_manifest") /\ version' = [version EXCEPT ![p] = 0]
             /\ UNCHANGED <<rows, known, job, width, declared, read>>
    <3>1. 0 \in 0 .. MaxVersion /\ "read_manifest" \in Labels /\ "read_manifest" \notin Writing
      BY BoundsAssumption DEF Labels, Writing
    <3> QED
      BY <1>0, <1>6, <2>1, <2>2, <3>1 DEF WriteManifest, Goto, TypeInv, TypeOK, WorkOK
  <2>3. CASE Done(p, rows)
    <3>1. manifest' \in Widths \cup {Unset} /\ jsonl' \subseteq Records /\ cut' \in BOOLEAN
          /\ disturbed' \subseteq Procs \cup {Shared} /\ short' \subseteq Procs \cup {Shared}
      BY <1>0, <1>6, <2>1 DEF WriteManifest, TypeOK
    <3> QED
      BY <1>6, <1>r, <1>d, <2>3, <3>1 DEF WriteManifest
  <2> QED
    BY <1>6, <2>2, <2>3 DEF WriteManifest
<1>7. ASSUME NEW p \in Procs, ReadManifest(p) PROVE TypeInv'
  <2>1. CASE /\ declared' = [declared EXCEPT ![p] = manifest] /\ Proceed(p, "read_records")
             /\ UNCHANGED <<files, job, width, version, read>>
    <3>1. declared' \in [Procs -> Widths \cup {Unset}]
      BY <1>0, <2>1 DEF TypeOK
    <3>2. "read_records" \in Labels \ {"down", "serving"} /\ "read_records" \notin Writing
          /\ pc[p] \notin {"down", "serving"}
      BY <1>7 DEF ReadManifest, Labels, Writing
    <3> QED
      BY <1>0, <1>p, <2>1, <3>1, <3>2 DEF TypeOK
  <2> QED
    BY <1>7, <1>f, <2>1 DEF ReadManifest
<1>8. ASSUME NEW p \in Procs, ReadRecords(p) PROVE TypeInv'
  <2>1. CASE /\ read' = [read EXCEPT ![p] = jsonl]
             /\ Proceed(p, IF job[p] = "append" THEN "ensure" ELSE "clear")
             /\ UNCHANGED <<files, job, width, version, declared>>
    <3>1. read' \in [Procs -> SUBSET Records]
      BY <1>0, <2>1 DEF TypeOK
    <3>2. PICK l \in Labels \ {"down", "serving"} : Proceed(p, l) /\ l \notin Writing
      BY <2>1 DEF Labels, Writing
    <3>3. pc[p] \notin {"down", "serving"}
      BY <1>8 DEF ReadRecords
    <3> QED
      BY <1>0, <1>p, <2>1, <3>1, <3>2, <3>3 DEF TypeOK
  <2> QED
    BY <1>8, <1>f, <2>1 DEF ReadRecords
<1>9. ASSUME NEW p \in Procs, Clear(p) PROVE TypeInv'
  <2>1. CASE /\ rows' = Emptied(p) /\ Goto(p, "ensure")
             /\ UNCHANGED <<setting, folder, starts, files, table, known, local>>
    <3>1. disturbed' \subseteq Procs \cup {Shared} /\ short' \subseteq Procs \cup {Shared}
      BY <1>0, <1>9, PlaceOK DEF Clear, TypeOK, Fail
    <3>2. rows' \in [Procs \cup {Shared} -> SUBSET Records]
      BY <1>r, <2>1 DEF Emptied
    <3>3. "ensure" \in Labels \ Writing /\ pc[p] \notin {"down", "serving"}
      BY <1>9 DEF Clear, Labels, Writing
    <3> QED
      BY <1>0, <2>1, <3>1, <3>2, <3>3 DEF Goto, TypeInv, TypeOK, WorkOK
  <2> QED
    BY <1>9, <1>f, <2>1 DEF Clear
<1>10. ASSUME NEW p \in Procs, EnsureSchema(p) PROVE TypeInv'
  <2>1. "upsert" \in Labels \ Writing /\ pc[p] \notin {"down", "serving"}
    BY <1>10 DEF EnsureSchema, Labels, Writing
  <2> QED
    BY <1>0, <1>10, <2>1 DEF EnsureSchema, Goto, TypeInv, TypeOK, WorkOK
<1>11. ASSUME NEW p \in Procs, Upsert(p) PROVE TypeInv'
  <2>1. CASE /\ Done(p, [rows EXCEPT ![Place(p)] = Upserted(p)])
             /\ disturbed' = (IF job[p] = "append" THEN disturbed \cup {Place(p)} ELSE disturbed)
             /\ short' = (IF job[p] = "append" THEN short \ {Place(p)} ELSE short)
             /\ UNCHANGED <<setting, folder, starts, files, table>>
    <3>1. Upserted(p) \subseteq Records
      BY <1>0, PlaceOK DEF Upserted, TypeOK
    <3>2. [rows EXCEPT ![Place(p)] = Upserted(p)] \in [Procs \cup {Shared} -> SUBSET Records]
      BY <1>r, <3>1
    <3>3. disturbed' \subseteq Procs \cup {Shared} /\ short' \subseteq Procs \cup {Shared}
      BY <1>0, <2>1, PlaceOK DEF TypeOK
    <3> QED
      BY <1>0, <1>d, <2>1, <3>2, <3>3 DEF TypeOK
  <2> QED
    BY <1>11, <1>f, <2>1 DEF Upsert
<1>12. ASSUME NEW p \in Procs, Crash(p) PROVE TypeInv'
  BY <1>0, <1>r, <1>12, ExitOK DEF Crash, TypeInv, TypeOK
<1>13. CASE UNCHANGED vars
  BY <1>0, <1>13 DEF vars, TypeInv, TypeOK, WorkOK
<1> QED
  BY <1>1, <1>2, <1>3, <1>4, <1>5, <1>6, <1>7, <1>8, <1>9, <1>10, <1>11, <1>12, <1>13, <1>m
  DEF Next, Work

LEMMA TypeInvHolds == Spec => []TypeInv
<1>1. Init => TypeInv
  <2> SUFFICES ASSUME Init PROVE TypeInv
    OBVIOUS
  <2>1. 0 \in 0 .. MaxVersion /\ 0 \in 0 .. MaxStarts /\ folder \in 0 .. MaxVersion
    BY BoundsAssumption DEF Init
  <2>2. "down" \in Labels /\ "startup" \in Jobs
    BY DEF Labels, Jobs
  <2> QED
    BY <2>1, <2>2 DEF Init, TypeInv, TypeOK, WorkOK, Writing
<1> QED
  BY <1>1, TypeStep, PTL DEF Spec

\* Every reachable state of the index has the shape TypeOK gives.
THEOREM TypeCorrect == Spec => []TypeOK
<1>1. TypeInv => TypeOK
  BY DEF TypeInv
<1> QED
  BY <1>1, TypeInvHolds, PTL

-----------------------------------------------------------------------------
(***************************************************************************)
(* The width a store knows.  Only a load tells it, what is loaded is never *)
(* empty and fits the table, and a table that exists keeps its width.      *)
(***************************************************************************)
WidthInv ==
    /\ \A p \in Procs :
          /\ pc[p] \in {"clear", "ensure", "upsert"} => read[p] # {}
          /\ pc[p] \notin {"upsert", "serving"} => known[p] = Unset
    /\ KnownWidthIsTables

LEMMA WidthStep == TypeInv /\ WidthInv /\ [Next]_vars => WidthInv'
<1> SUFFICES ASSUME TypeInv, WidthInv, [Next]_vars PROVE WidthInv'
  OBVIOUS
<1> USE DistinctNames DEF files, store, local, history
<1>0. TypeOK
  BY DEF TypeInv
<1>r. rows \in [Procs \cup {Shared} -> SUBSET Records]
  BY <1>0 DEF TypeOK
<1>e. ASSUME NEW p \in Procs, NEW left \in [Procs \cup {Shared} -> SUBSET Records], Exit(p, left),
             UNCHANGED <<setting, table>>
      PROVE  WidthInv'
  <2>1. /\ pc' = [pc EXCEPT ![p] = "down"]
        /\ known' = [known EXCEPT ![p] = Unset]
        /\ read' = [read EXCEPT ![p] = {}]
    BY <1>e DEF Exit, Forget, Goto
  <2> QED
    BY <1>0, <1>e, <2>1 DEF WidthInv, KnownWidthIsTables, TypeOK
<1>f. ASSUME NEW p \in Procs, Fail(p) PROVE WidthInv'
  BY <1>f, <1>r, <1>e DEF Fail
\* A process goes on, with what its store knows as it was.
<1>g. ASSUME NEW p \in Procs, NEW l, Goto(p, l), l \notin {"upsert", "serving"},
             l \in {"clear", "ensure"} => read'[p] # {},
             \A q \in Procs \ {p} : read'[q] = read[q],
             pc[p] \notin {"upsert", "serving"}, UNCHANGED <<setting, table, known>>
      PROVE  WidthInv'
  BY <1>0, <1>g DEF Goto, WidthInv, KnownWidthIsTables, TypeOK
\* The API begins to serve, knowing no width or the table's.
<1>d. ASSUME NEW p \in Procs, NEW left \in [Procs \cup {Shared} -> SUBSET Records], Done(p, left),
             UNCHANGED <<setting, table>>,
             setting.pgvector /\ known[p] # Unset => known[p] = table
      PROVE  WidthInv'
  <2>1. CASE p = Server
    <3>1. /\ pc' = [pc EXCEPT ![p] = "serving"] /\ known' = known
          /\ \A q \in Procs \ {p} : read'[q] = read[q]
      BY <1>0, <1>d, <2>1 DEF Done, Forget, Goto, TypeOK
    <3> QED
      BY <1>0, <1>d, <2>1, <3>1 DEF WidthInv, KnownWidthIsTables, TypeOK
  <2>2. CASE p # Server
    BY <1>d, <1>e, <2>2 DEF Done
  <2> QED
    BY <2>1, <2>2
<1>1. CASE EditFolder
  BY <1>1 DEF EditFolder, WidthInv, KnownWidthIsTables
<1>2. ASSUME NEW p \in Procs, Start(p) PROVE WidthInv'
  <2>1. PICK l \in {"count", "serving", "chunk", "read_manifest"} : Goto(p, l)
    BY <1>2 DEF Start
  <2>2. pc[p] = "down" /\ known[p] = Unset /\ UNCHANGED <<setting, table, known, read>>
    BY <1>2 DEF Start, WidthInv
  <2> QED
    BY <1>0, <2>1, <2>2 DEF Goto, WidthInv, KnownWidthIsTables, TypeOK
<1>3. ASSUME NEW p \in Procs, Count(p) PROVE WidthInv'
  <2>1. pc[p] = "count" /\ known[p] = Unset
    BY <1>3 DEF Count, WidthInv
  <2> QED
    BY <1>r, <1>3, <1>f, <1>g, <1>d, <2>1 DEF Count, Proceed
<1>4. ASSUME NEW p \in Procs, Chunk(p) PROVE WidthInv'
  BY <1>4, <1>f, <1>g DEF Chunk, Proceed
<1>5. ASSUME NEW p \in Procs, Truncate(p) \/ WriteLine(p) \/ WriteLastLine(p) PROVE WidthInv'
  BY <1>5, <1>g DEF Truncate, WriteLine, WriteLastLine, Proceed
<1>m. ASSUME NEW p \in Procs, TruncateManifest(p) PROVE WidthInv'
  BY <1>m, <1>g DEF TruncateManifest, Proceed
<1>6. ASSUME NEW p \in Procs, WriteManifest(p) PROVE WidthInv'
  <2>1. pc[p] = "manifest_text" /\ known[p] = Unset
    BY <1>6 DEF WriteManifest, WidthInv
  <2> QED
    BY <1>r, <1>6, <1>g, <1>d, <2>1 DEF WriteManifest
<1>7. ASSUME NEW p \in Procs, ReadManifest(p) PROVE WidthInv'
  BY <1>7, <1>f, <1>g DEF ReadManifest, Proceed
<1>8. ASSUME NEW p \in Procs, ReadRecords(p) PROVE WidthInv'
  <2>1. CASE /\ jsonl # {} /\ read' = [read EXCEPT ![p] = jsonl]
             /\ Proceed(p, IF job[p] = "append" THEN "ensure" ELSE "clear")
    <3>1. read'[p] # {} /\ \A q \in Procs \ {p} : read'[q] = read[q]
      BY <1>0, <2>1 DEF TypeOK
    <3> QED
      BY <1>8, <1>g, <2>1, <3>1 DEF ReadRecords, Proceed
  <2> QED
    BY <1>8, <1>f, <2>1 DEF ReadRecords
<1>9. ASSUME NEW p \in Procs, Clear(p) PROVE WidthInv'
  <2>1. pc[p] = "clear" /\ read[p] # {}
    BY <1>9 DEF Clear, WidthInv
  <2> QED
    BY <1>9, <1>f, <1>g, <2>1 DEF Clear
<1>10. ASSUME NEW p \in Procs, EnsureSchema(p) PROVE WidthInv'
  <2>1. /\ pc[p] = "ensure" /\ pc' = [pc EXCEPT ![p] = "upsert"]
        /\ known' = [known EXCEPT ![p] = declared[p]]
        /\ UNCHANGED <<setting, read>>
    BY <1>10 DEF EnsureSchema, Goto
  <2>2. setting.pgvector /\ table # Unset => table' = table
    BY <1>10 DEF EnsureSchema, NoTable
  <2> QED
    BY <1>0, <2>1, <2>2 DEF WidthInv, KnownWidthIsTables, TypeOK
<1>11. ASSUME NEW p \in Procs, Upsert(p) PROVE WidthInv'
  <2>1. CASE FitsStore(p) /\ Done(p, [rows EXCEPT ![Place(p)] = Upserted(p)])
    <3>1. PICK rec \in read[p] : TRUE
      BY <1>11 DEF Upsert, WidthInv
    <3>2. rec.width = known[p] /\ (setting.pgvector => rec.width = table)
      BY <2>1, <3>1 DEF FitsStore
    <3>3. Upserted(p) \subseteq Records
      BY <1>0, PlaceOK DEF Upserted, TypeOK
    <3>4. [rows EXCEPT ![Place(p)] = Upserted(p)] \in [Procs \cup {Shared} -> SUBSET Records]
      BY <1>r, <3>3
    <3> QED
      BY <1>11, <1>d, <2>1, <3>2, <3>4 DEF Upsert
  <2> QED
    BY <1>11, <1>f, <2>1 DEF Upsert
<1>12. ASSUME NEW p \in Procs, Crash(p) PROVE WidthInv'
  BY <1>12, <1>r, <1>e DEF Crash
<1>13. CASE UNCHANGED vars
  BY <1>13 DEF vars, WidthInv, KnownWidthIsTables
<1> QED
  BY <1>1, <1>2, <1>3, <1>4, <1>5, <1>6, <1>7, <1>8, <1>9, <1>10, <1>11, <1>12, <1>13, <1>m
  DEF Next, Work

LEMMA WidthInvHolds == Spec => []WidthInv
<1>1. Init => WidthInv
  <2> SUFFICES ASSUME Init PROVE WidthInv
    OBVIOUS
  <2>1. \A p \in Procs : pc[p] = "down" /\ known[p] = Unset
    BY DEF Init
  <2> QED
    BY <2>1, DistinctNames DEF WidthInv, KnownWidthIsTables
<1> QED
  BY <1>1, WidthStep, TypeInvHolds, PTL DEF Spec

\* A width that the serving API knows is the width of the table it searches,
\* whichever process made the table and whatever the manifest said meanwhile.
THEOREM KnownWidthStaysTables == Spec => []KnownWidthIsTables
<1>1. WidthInv => KnownWidthIsTables
  BY DEF WidthInv
<1> QED
  BY <1>1, WidthInvHolds, PTL

-----------------------------------------------------------------------------
(***************************************************************************)
(* The builds.  The file is never more than one build.  In a store that    *)
(* nothing has disturbed, a load that has cleared it has it to itself: it  *)
(* is empty, and what the load has read is a build, or a part of one if    *)
(* the file was short.                                                     *)
(***************************************************************************)
FileInv == jsonl \in PartsOfBuilds \cup {{}} /\ \A p \in Procs : read[p] \in PartsOfBuilds \cup {{}}

LoadsAt(p, s) == Place(p) = s /\ Loading(p) /\ job[p] # "append"

BuildInv ==
    \A s \in (Procs \cup {Shared}) \ disturbed :
        /\ rows[s] \in PartsOfBuilds \cup {{}}
        /\ s \notin short => rows[s] \in Builds \cup {{}}
        /\ \A p \in Procs : LoadsAt(p, s) =>
              /\ rows[s] = {} /\ (s \notin short => read[p] \in Builds)
              /\ \A q \in Procs : LoadsAt(q, s) => q = p

LEMMA FileStep == TypeInv /\ FileInv /\ [Next]_vars => FileInv'
<1> SUFFICES ASSUME TypeInv, FileInv, [Next]_vars PROVE FileInv'
  OBVIOUS
<1> USE DEF files, store, local, history
<1>0. read \in [Procs -> SUBSET Records] /\ jsonl \in PartsOfBuilds \cup {{}}
  BY DEF TypeInv, TypeOK, FileInv
<1>1. ASSUME UNCHANGED <<jsonl, read>> PROVE FileInv'
  BY <1>1 DEF FileInv
<1>2. ASSUME NEW p \in Procs, Forget(p), UNCHANGED jsonl PROVE FileInv'
  BY <1>0, <1>2 DEF Forget, FileInv
<1>3. ASSUME NEW p \in Procs, Truncate(p) PROVE FileInv'
  BY <1>3 DEF Truncate, FileInv
<1>4. ASSUME NEW p \in Procs, WriteLine(p) \/ WriteLastLine(p) PROVE FileInv'
  <2>1. version[p] \in 1 .. MaxVersion /\ width[p] \in Widths
    BY <1>4 DEF TypeInv, WorkOK, Writing, WriteLine, WriteLastLine
  <2>2. Build(version[p], width[p]) \in Builds
    BY <2>1 DEF Builds
  <2>3. Record(0, version[p], width[p]) \in Build(version[p], width[p])
    BY DEF Build, Chunks
  <2>4. jsonl' \subseteq Build(version[p], width[p])
    BY <1>4, <2>3 DEF WriteLine, WriteLastLine
  <2> QED
    BY <1>4, <2>2, <2>4 DEF FileInv, PartsOfBuilds, WriteLine, WriteLastLine
<1>5. ASSUME NEW p \in Procs, ReadRecords(p) PROVE FileInv'
  <2>1. CASE read' = [read EXCEPT ![p] = jsonl] /\ UNCHANGED jsonl
    BY <1>0, <2>1 DEF FileInv
  <2> QED
    BY <1>2, <1>5, <2>1 DEF ReadRecords, Fail, Exit
<1>6. ASSUME NEW p \in Procs, Done(p, rows), UNCHANGED jsonl PROVE FileInv'
  BY <1>2, <1>6 DEF Done, Exit
<1>7. ASSUME NEW p \in Procs, Upsert(p) PROVE FileInv'
  BY <1>2, <1>7 DEF Upsert, Done, Fail, Exit
<1>8. ASSUME NEW p \in Procs,
             \/ Start(p) \/ Count(p) \/ Chunk(p) \/ TruncateManifest(p) \/ WriteManifest(p)
             \/ ReadManifest(p) \/ Clear(p) \/ EnsureSchema(p) \/ Crash(p)
      PROVE  FileInv'
  BY <1>1, <1>2, <1>6, <1>8 DEF Start, Count, Chunk, TruncateManifest, WriteManifest, ReadManifest, Clear,
     EnsureSchema, Crash, Proceed, Fail, Exit
<1>9. CASE EditFolder \/ UNCHANGED vars
  BY <1>1, <1>9 DEF EditFolder, vars
<1> QED
  BY <1>3, <1>4, <1>5, <1>7, <1>8, <1>9 DEF Next, Work

LEMMA BuildStep == TypeInv /\ FileInv /\ BuildInv /\ [Next]_vars => BuildInv'
<1> SUFFICES ASSUME TypeInv, FileInv, BuildInv, [Next]_vars PROVE BuildInv'
  OBVIOUS
<1> USE DistinctNames DEF files, store, local, history
<1>0. TypeOK
  BY DEF TypeInv
<1>r. rows \in [Procs \cup {Shared} -> SUBSET Records]
  BY <1>0 DEF TypeOK
\* A process goes, and with it its memory.
<1>e. ASSUME NEW p \in Procs, Exit(p, rows), UNCHANGED <<setting, history>> PROVE BuildInv'
  <2>1. /\ pc' = [pc EXCEPT ![p] = "down"] /\ rows' = [rows EXCEPT ![p] = {}]
        /\ read' = [read EXCEPT ![p] = {}] /\ job' = [job EXCEPT ![p] = "startup"]
    BY <1>e DEF Exit, Forget, Goto
  <2>2. ASSUME NEW q \in Procs, NEW s, LoadsAt(q, s)' PROVE LoadsAt(q, s) /\ q # p
    BY <1>0, <1>e, <2>1, <2>2 DEF LoadsAt, Loading, Place, TypeOK
  <2> QED
    BY <1>r, <1>e, <2>1, <2>2 DEF BuildInv
<1>f. ASSUME NEW p \in Procs, Fail(p) PROVE BuildInv'
  BY <1>f, <1>e DEF Fail
\* A process goes on, and does not begin to load in earnest.
<1>g. ASSUME NEW p \in Procs, NEW l, Goto(p, l),
             l = "ensure" => job[p] = "append",
             l = "upsert" => pc[p] = "ensure",
             \A q \in Procs : q # p \/ l = "upsert" => read'[q] = read[q] /\ job'[q] = job[q],
             l = "ensure" => job'[p] = job[p],
             UNCHANGED <<setting, rows, history>>
      PROVE  BuildInv'
  <2>1. ASSUME NEW q \in Procs, NEW s, LoadsAt(q, s)' PROVE LoadsAt(q, s) /\ read'[q] = read[q]
    BY <1>0, <1>g, <2>1 DEF LoadsAt, Loading, Place, Goto, TypeOK
  <2> QED
    BY <1>g, <2>1 DEF BuildInv
\* A job ends that has left the stores alone.
<1>d. ASSUME NEW p \in Procs, Done(p, rows), UNCHANGED <<setting, history>> PROVE BuildInv'
  <2>1. CASE p = Server
    BY <1>0, <1>d, <1>g, <2>1 DEF Done, Forget, TypeOK
  <2>2. CASE p # Server
    BY <1>d, <1>e, <2>2 DEF Done
  <2> QED
    BY <2>1, <2>2
<1>1. CASE EditFolder \/ UNCHANGED vars
  BY <1>1 DEF EditFolder, vars, BuildInv, LoadsAt, Loading, Place
<1>2. ASSUME NEW p \in Procs, Start(p) PROVE BuildInv'
  <2>1. PICK l \in {"count", "serving", "chunk", "read_manifest"} : Goto(p, l)
    BY <1>2 DEF Start
  <2>2. UNCHANGED <<setting, rows, history, read>> /\ \A q \in Procs \ {p} : job'[q] = job[q]
    BY <1>0, <1>2 DEF Start, TypeOK
  <2> QED
    BY <1>g, <2>1, <2>2
<1>3. ASSUME NEW p \in Procs, Count(p) PROVE BuildInv'
  BY <1>3, <1>f, <1>g, <1>d DEF Count, Proceed
<1>4. ASSUME NEW p \in Procs, Chunk(p) PROVE BuildInv'
  BY <1>4, <1>f, <1>g DEF Chunk, Proceed
<1>5. ASSUME NEW p \in Procs, Truncate(p) \/ WriteLine(p) \/ WriteLastLine(p) PROVE BuildInv'
  BY <1>5, <1>g DEF Truncate, WriteLine, WriteLastLine, Proceed
<1>m. ASSUME NEW p \in Procs, TruncateManifest(p) PROVE BuildInv'
  BY <1>m, <1>g DEF TruncateManifest, Proceed
<1>6. ASSUME NEW p \in Procs, WriteManifest(p) PROVE BuildInv'
  BY <1>6, <1>g, <1>d DEF WriteManifest
<1>7. ASSUME NEW p \in Procs, ReadManifest(p) PROVE BuildInv'
  BY <1>7, <1>f, <1>g DEF ReadManifest, Proceed
<1>8. ASSUME NEW p \in Procs, ReadRecords(p) PROVE BuildInv'
  <2>1. CASE /\ read' = [read EXCEPT ![p] = jsonl] /\ UNCHANGED job
             /\ Proceed(p, IF job[p] = "append" THEN "ensure" ELSE "clear")
    <3>1. \A q \in Procs \ {p} : read'[q] = read[q]
      BY <1>0, <2>1 DEF TypeOK
    <3> QED
      BY <1>g, <2>1, <3>1 DEF Proceed
  <2> QED
    BY <1>8, <1>f, <2>1 DEF ReadRecords
<1>9. ASSUME NEW p \in Procs, Clear(p) PROVE BuildInv'
  <2>1. CASE /\ rows' = Emptied(p) /\ Goto(p, "ensure")
             /\ disturbed' = (IF Overlaps(p) THEN disturbed \cup {Place(p)} ELSE disturbed \ {Place(p)})
             /\ short' = (IF read[p] \in Builds \/ Overlaps(p)
                          THEN short \ {Place(p)} ELSE short \cup {Place(p)})
             /\ UNCHANGED <<setting, local>>
    <3>1. ASSUME NEW q \in Procs, NEW s, LoadsAt(q, s)' PROVE LoadsAt(q, s) \/ (q = p /\ s = Place(p))
      BY <1>0, <2>1, <3>1 DEF LoadsAt, Loading, Place, Goto, TypeOK
    <3>2. rows' = [rows EXCEPT ![Place(p)] = {}]
      BY <2>1 DEF Emptied
    <3>3. ASSUME NEW s \in (Procs \cup {Shared}) \ disturbed'
          PROVE  /\ rows'[s] \in PartsOfBuilds \cup {{}}
                 /\ s \notin short' => rows'[s] \in Builds \cup {{}}
                 /\ \A q \in Procs : LoadsAt(q, s)' =>
                       /\ rows'[s] = {} /\ (s \notin short' => read'[q] \in Builds)
                       /\ \A x \in Procs : LoadsAt(x, s)' => x = q
      <4>1. CASE s = Place(p)
        <5>1. ~Overlaps(p) /\ (s \notin short' => read[p] \in Builds)
          BY <2>1, <3>3, <4>1
        <5>2. ASSUME NEW q \in Procs, LoadsAt(q, s)' PROVE q = p
          BY <3>1, <4>1, <5>1, <5>2 DEF Overlaps, LoadsAt
        <5>3. rows'[s] = {}
          BY <1>r, <3>2, <4>1
        <5> QED
          BY <2>1, <5>1, <5>2, <5>3
      <4>2. CASE s # Place(p)
        <5>1. s \notin disturbed /\ rows'[s] = rows[s] /\ (s \in short' <=> s \in short)
          BY <1>r, <2>1, <3>2, <3>3, <4>2
        <5>2. ASSUME NEW q \in Procs, LoadsAt(q, s)' PROVE LoadsAt(q, s)
          BY <3>1, <4>2, <5>2
        <5> QED
          BY <2>1, <5>1, <5>2 DEF BuildInv
      <4> QED
        BY <4>1, <4>2
    <3> QED
      BY <3>3 DEF BuildInv
  <2> QED
    BY <1>9, <1>f, <2>1 DEF Clear
<1>10. ASSUME NEW p \in Procs, EnsureSchema(p) PROVE BuildInv'
  BY <1>10, <1>g DEF EnsureSchema
<1>11. ASSUME NEW p \in Procs, Upsert(p) PROVE BuildInv'
  <2> DEFINE left == [rows EXCEPT ![Place(p)] = Upserted(p)]
  <2>1. CASE /\ Done(p, left)
             /\ disturbed' = (IF job[p] = "append" THEN disturbed \cup {Place(p)} ELSE disturbed)
             /\ short' = (IF job[p] = "append" THEN short \ {Place(p)} ELSE short)
             /\ UNCHANGED setting
    <3>1. Upserted(p) \subseteq Records
      BY <1>0, PlaceOK DEF Upserted, TypeOK
    <3>2. left \in [Procs \cup {Shared} -> SUBSET Records]
      BY <1>r, <3>1
    <3>3. /\ pc' = [pc EXCEPT ![p] = IF p = Server THEN "serving" ELSE "down"]
          /\ \A s \in Procs \cup {Shared} : rows'[s] \in {left[s], {}}
      <4>1. pc' = [pc EXCEPT ![p] = IF p = Server THEN "serving" ELSE "down"]
        BY <2>1 DEF Done, Exit, Goto
      <4>2. rows' = left \/ rows' = [left EXCEPT ![p] = {}]
        BY <2>1 DEF Done, Exit
      <4> QED
        BY <3>2, <4>1, <4>2
    <3>4. \A q \in Procs \ {p} : read'[q] = read[q] /\ job'[q] = job[q]
      BY <1>0, <2>1 DEF Done, Exit, Forget, TypeOK
    <3>5. ASSUME NEW q \in Procs, NEW s, LoadsAt(q, s)' PROVE LoadsAt(q, s) /\ q # p
      BY <1>0, <2>1, <3>3, <3>4, <3>5 DEF LoadsAt, Loading, Place, TypeOK
    <3>6. ASSUME NEW s \in (Procs \cup {Shared}) \ disturbed'
          PROVE  /\ rows'[s] \in PartsOfBuilds \cup {{}}
                 /\ s \notin short' => rows'[s] \in Builds \cup {{}}
                 /\ \A q \in Procs : LoadsAt(q, s)' =>
                       /\ rows'[s] = {} /\ (s \notin short' => read'[q] \in Builds)
                       /\ \A x \in Procs : LoadsAt(x, s)' => x = q
      <4>1. s \notin disturbed /\ (s \in short' <=> s \in short)
        BY <2>1, <3>6
      <4>2. CASE s = Place(p)
        <5>1. LoadsAt(p, s)
          BY <1>11, <2>1, <3>6, <4>2 DEF Upsert, LoadsAt, Loading
        <5>2. /\ rows[s] = {} /\ read[p] \in PartsOfBuilds \cup {{}}
              /\ s \notin short => read[p] \in Builds
              /\ \A q \in Procs : LoadsAt(q, s) => q = p
          BY <4>1, <5>1 DEF BuildInv, FileInv
        <5>3. left[s] = read[p]
          BY <1>r, <4>2, <5>2 DEF Upserted
        <5> QED
          BY <3>3, <3>5, <4>1, <5>2, <5>3
      <4>3. CASE s # Place(p)
        <5>1. left[s] = rows[s]
          BY <1>r, <4>3
        <5> QED
          BY <3>3, <3>4, <3>5, <4>1, <5>1 DEF BuildInv
      <4> QED
        BY <4>2, <4>3
    <3> QED
      BY <3>6 DEF BuildInv
  <2> QED
    BY <1>11, <1>f, <2>1 DEF Upsert
<1>12. ASSUME NEW p \in Procs, Crash(p) PROVE BuildInv'
  BY <1>12, <1>e DEF Crash
<1> QED
  BY <1>1, <1>2, <1>3, <1>4, <1>5, <1>6, <1>7, <1>8, <1>9, <1>10, <1>11, <1>12, <1>m
  DEF Next, Work

\* Wherever processes crash, and however the loads of several interleave, a
\* store whose last load overlapped no other holds chunks of one build, and all
\* of them or none unless the file was read before it was written to its end.
THEOREM IndexStaysOneBuild == Spec => []IndexIsOneBuild
<1>1. Init => FileInv /\ BuildInv
  BY DEF Init, FileInv, BuildInv, LoadsAt, Loading
<1>2. TypeInv /\ BuildInv => IndexIsOneBuild
  BY DEF TypeInv, TypeOK, BuildInv, IndexIsOneBuild
<1> QED
  BY <1>1, <1>2, FileStep, BuildStep, TypeInvHolds, PTL DEF Spec

-----------------------------------------------------------------------------
(***************************************************************************)
(* Serving.                                                                *)
(***************************************************************************)
ServerInv == job[Server] = "startup"

LEMMA ServerStep == TypeInv /\ ServerInv /\ [Next]_vars => ServerInv'
<1> SUFFICES ASSUME TypeInv, ServerInv, [Next]_vars PROVE ServerInv'
  OBVIOUS
<1>0. job \in [Procs -> Jobs]
  BY DEF TypeInv, TypeOK
<1>1. ASSUME NEW p \in Procs, Forget(p) PROVE ServerInv'
  BY <1>0, <1>1, DistinctNames DEF Forget, ServerInv
<1>2. ASSUME NEW p \in Procs, Start(p) PROVE ServerInv'
  BY <1>0, <1>2, DistinctNames DEF Start, ServerInv
<1>3. CASE UNCHANGED job
  BY <1>3 DEF ServerInv
<1> QED
  BY <1>1, <1>2, <1>3 DEF Next, EditFolder, Work, Count, Chunk, Truncate, WriteLine, WriteLastLine,
     TruncateManifest, WriteManifest, ReadManifest, ReadRecords, Clear, EnsureSchema, Upsert, Crash,
     Fail, Exit, Done, vars, local

\* The API that syncs begins to serve only over a store that has chunks.
THEOREM ServesOverAnIndex == Spec => ServesAnIndex
<1> DEFINE Begins == pc[Server] \notin {"down", "serving"} /\ pc'[Server] = "serving"
<1>1. TypeInv /\ WidthInv /\ ServerInv /\ [Next]_vars =>
         (Begins => rows'[Place(Server)] # {})
  <2> SUFFICES ASSUME TypeInv, WidthInv, ServerInv, [Next]_vars, Begins
               PROVE  rows'[Place(Server)] # {}
    OBVIOUS
  <2> USE DistinctNames
  <2>0. TypeOK /\ rows \in [Procs \cup {Shared} -> SUBSET Records] /\ pc \in [Procs -> Labels]
    BY DEF TypeInv, TypeOK
  <2>1. ASSUME NEW p \in Procs, NEW l, Goto(p, l) PROVE l = "serving" /\ p = Server
    BY <2>0, <2>1 DEF Goto
  <2>2. ASSUME NEW p \in Procs, Count(p) PROVE rows'[Place(Server)] # {}
    BY <2>1, <2>2 DEF Count, Proceed, Done, Fail, Exit, HasIndex
  <2>3. ASSUME NEW p \in Procs, Upsert(p) PROVE rows'[Place(Server)] # {}
    <3>1. p = Server /\ Done(p, [rows EXCEPT ![Place(p)] = Upserted(p)])
      BY <2>1, <2>3 DEF Upsert, Done, Fail, Exit
    <3>2. read[p] # {}
      BY <2>3 DEF Upsert, WidthInv
    <3>3. rows'[Place(p)] = Upserted(p)
      BY <2>0, <3>1, PlaceOK DEF Done
    <3> QED
      BY <3>1, <3>2, <3>3 DEF Upserted
  <2>4. ASSUME NEW p \in Procs, WriteManifest(p) PROVE FALSE
    BY <2>1, <2>4 DEF WriteManifest, Done, Exit, ServerInv
  <2>5. ASSUME NEW p \in Procs, Start(p) PROVE FALSE
    BY <2>1, <2>5 DEF Start
  <2>6. ASSUME NEW p \in Procs,
               \/ Chunk(p) \/ Truncate(p) \/ WriteLine(p) \/ WriteLastLine(p) \/ ReadManifest(p)
               \/ ReadRecords(p) \/ Clear(p) \/ EnsureSchema(p) \/ Crash(p) \/ TruncateManifest(p)
        PROVE  FALSE
    BY <2>1, <2>6 DEF Chunk, Truncate, WriteLine, WriteLastLine, ReadManifest, ReadRecords, Clear,
       EnsureSchema, Crash, TruncateManifest, Proceed, Fail, Exit
  <2>7. CASE EditFolder \/ UNCHANGED vars
    BY <2>7 DEF EditFolder, vars
  <2> QED
    BY <2>2, <2>3, <2>4, <2>5, <2>6, <2>7 DEF Next, Work
<1>2. Init => ServerInv
  BY DistinctNames DEF Init, ServerInv
<1>3. Spec => []ServerInv
  BY <1>2, ServerStep, TypeInvHolds, PTL DEF Spec
<1> QED
  BY <1>1, <1>3, TypeInvHolds, WidthInvHolds, PTL DEF Spec, ServesAnIndex

-----------------------------------------------------------------------------
(***************************************************************************)
(* Schema documents.                                                       *)
(***************************************************************************)

\* What the table pass holds of a table, and what is noted of it.
Headlines == {"outgoing", "incoming", "columns", "examples"}
BlockSet == [table : Tables \cup {"none"}, first : BOOLEAN, domain : Tables \cup {"none"},
             fks : SUBSET Tables, columns : SUBSET Tables, examples : Nat, inColumns : BOOLEAN,
             fkSection : {"none", "outgoing", "incoming"}, inExamples : BOOLEAN, pending : BOOLEAN,
             fenced : BOOLEAN, describing : {"no", "empty", "some"}]
NoteSet == [under : Headlines \cup {"none"}, fks : SUBSET Tables, columns : SUBSET Tables,
            apart : {"no", "blank", "text"}, astray : BOOLEAN]

\* What a line can be.
LEMMA WrittenIs ==
  ASSUME NEW l \in Written
  PROVE  /\ l.kind \in {"anchor", "title", "fk", "row", "meta", "domainRow", "hubRow"} => l.name \in Tables
         /\ l.kind = "heading" => l.name \in Headlines
         /\ block.fenced \/ joins.fenced => l.kind \in {"text", "fence"}
<1>1. CASE l \in {Line("text"), Line("fence")}
  BY <1>1 DEF Line
<1>2. CASE ~(block.fenced \/ joins.fenced)
  <2>1. \/ \E k \in {"text", "bar", "joinTitle", "fence", "blank", "section", "describe", "indented", "exTitle"} :
             l = Line(k)
        \/ \E k \in {"domainRow", "hubRow", "title", "fk", "row", "meta"}, t \in Tables : l = Of(k, t)
        \/ \E t \in Tables : l = Of("anchor", t)
        \/ \E h \in Blocks : l = Of("heading", h)
    BY <1>2 DEF Written
  <2>2. Blocks \subseteq Headlines
    BY DEF Blocks, Headlines
  <2> QED
    BY <1>2, <2>1, <2>2 DEF Line, Of
<1> QED
  BY <1>1, <1>2 DEF Written

-----------------------------------------------------------------------------
(***************************************************************************)
(* The pass over the tables, against the note.                             *)
(***************************************************************************)
\* The first line of a block and a code block are not in a description.
Orderly(b) == (b.first => ~b.fenced) /\ (b.first \/ b.fenced => b.describing = "no")

\* A block has what the note has, and stands in the sections it names.
Agrees(b, n) ==
  ~n.astray =>
    /\ b.fks = n.fks /\ b.columns \subseteq n.columns
    /\ n.apart = "no" => b.columns = n.columns
    /\ b.fkSection = "outgoing" <=> n.under = "outgoing"
    /\ b.inColumns => n.under = "columns"
    /\ n.under = "columns" /\ n.apart = "no" => b.inColumns

LEMMA BeginningOK ==
  /\ NoBlock \in BlockSet /\ Orderly(NoBlock) /\ NoNote \in NoteSet
  /\ \A t \in Tables :
       /\ BlockOf(t) \in BlockSet /\ Orderly(BlockOf(t))
       /\ Agrees(BlockOf(t), NoNote)
BY DEF NoBlock, BlockSet, Orderly, NoNote, NoteSet, BlockOf, Agrees

LEMMA RoundOK ==
  ASSUME NEW l \in Written, NEW b \in BlockSet, ~b.first, ~b.fenced, b.describing = "no"
  PROVE  Round(b, l) \in BlockSet /\ Orderly(Round(b, l))
<1> USE WrittenIs DEF BlockSet, Orderly
<1>1. CASE l.kind = "meta"
  BY <1>1 DEF Round
<1>2. CASE l.kind = "describe"
  BY <1>2 DEF Round
<1>3. CASE l.kind = "heading"
  BY <1>3 DEF Round, Headed
<1>4. CASE l.kind = "fk"
  BY <1>4 DEF Round
<1>5. CASE l.kind = "row"
  BY <1>5 DEF Round
<1>6. CASE l.kind = "exTitle"
  BY <1>6 DEF Round
<1>7. CASE l.kind = "fence"
  BY <1>7 DEF Round
<1>8. CASE l.kind \notin {"meta", "describe", "heading", "fk", "row", "exTitle", "fence"}
  BY <1>8 DEF Round
<1> QED
  BY <1>1, <1>2, <1>3, <1>4, <1>5, <1>6, <1>7, <1>8

LEMMA ReadOK ==
  ASSUME NEW l \in Written, block \in BlockSet, Orderly(block)
  PROVE  Read(block, l) \in BlockSet /\ Orderly(Read(block, l))
<1>1. CASE block.fenced /\ l.kind = "fence"
  <2> DEFINE r == [block EXCEPT !.fenced = FALSE, !.pending = FALSE, !.examples = @ + 1]
  <2>1. ~block.first /\ block.describing = "no"
    BY <1>1 DEF Orderly
  <2>2. r \in BlockSet /\ r.describing = "no" /\ ~r.first
    <3>1. block.examples + 1 \in Nat
      BY DEF BlockSet
    <3> DEFINE e == block.examples + 1
    <3>2. r = [block EXCEPT !.fenced = FALSE, !.pending = FALSE, !.examples = e]
      OBVIOUS
    <3>3. e \in Nat
      BY <3>1
    <3> HIDE DEF e, r
    <3> QED
      BY <2>1, <3>2, <3>3 DEF BlockSet
  <2>3. Read(block, l) = r
    BY <1>1, <2>1 DEF Read, Describes
  <2> HIDE DEF r
  <2> QED
    BY <2>2, <2>3 DEF Orderly
<1>2. CASE block.fenced /\ l.kind # "fence"
  <2>1. l.kind = "text"
    BY <1>2, WrittenIs
  <2>2. Read(block, l) = block
    BY <1>2, <2>1 DEF Read, Describes, Orderly
  <2> QED
    BY <2>2
<1>3. CASE ~block.fenced /\ block.first /\ l.kind = "title"
  BY <1>3 DEF Read, BlockSet, Orderly, Describes
<1>4. CASE ~block.fenced /\ Describes(block, l)
  BY <1>4 DEF Read, BlockSet, Orderly, Describes
<1>5. CASE ~block.fenced /\ ~(block.first /\ l.kind = "title") /\ ~Describes(block, l)
  <2> DEFINE b == [block EXCEPT !.first = FALSE, !.describing = "no"]
  <2>1. b \in BlockSet /\ ~b.first /\ ~b.fenced /\ b.describing = "no"
    BY <1>5 DEF BlockSet
  <2>2. Read(block, l) = Round(b, l)
    BY <1>5 DEF Read
  <2> HIDE DEF b
  <2> QED
    BY <2>1, <2>2, RoundOK
<1> QED
  BY <1>1, <1>2, <1>3, <1>4, <1>5

\* The note after a line that ends nothing.
Lost(l) == note.under = "columns" /\ l.kind \notin {"bar", "row", "meta", "describe", "heading"}
Apart(l) ==
  CASE note.under = "columns" /\ l.kind = "blank" /\ note.columns = {} /\ note.apart # "text" -> "blank"
    [] Lost(l) /\ ~(l.kind = "blank" /\ note.columns = {}) -> "text"
    [] OTHER -> note.apart
Astray(l) == note.astray \/ (block.describing # "no" /\ l.kind \notin {"indented", "blank", "meta"})
Continued(l) ==
  [under   |-> IF l.kind = "heading" THEN l.name ELSE note.under,
   fks     |-> note.fks \cup (IF l.kind = "fk" /\ note.under = "outgoing" THEN {l.name} ELSE {}),
   columns |-> note.columns \cup (IF l.kind = "row" /\ note.under = "columns" THEN {l.name} ELSE {}),
   apart   |-> Apart(l),
   astray  |-> Astray(l)]

LEMMA NotedContinues ==
  ASSUME NEW l, note \in NoteSet, l.kind \notin {"anchor", "section"}
  PROVE  Noted(l) = Continued(l)
BY DEF Noted, Continued, Apart, Lost, Astray, NoteSet

LEMMA ApartIs ==
  ASSUME NEW l, note \in NoteSet
  PROVE  /\ Apart(l) \in {"no", "blank", "text"}
         /\ IF Lost(l) THEN Apart(l) # "no" ELSE Apart(l) = note.apart
BY DEF Apart, Lost, NoteSet

LEMMA NotedOK ==
  ASSUME NEW l \in Written, note \in NoteSet, block \in BlockSet
  PROVE  Noted(l) \in NoteSet
<1>1. CASE l.kind \in {"anchor", "section"}
  BY <1>1, BeginningOK DEF Noted
<1>2. CASE l.kind \notin {"anchor", "section"}
  <2>1. Astray(l) \in BOOLEAN
    BY DEF Astray, NoteSet
  <2>2. Continued(l) \in NoteSet
    BY <2>1, ApartIs, WrittenIs DEF Continued, NoteSet
  <2> QED
    BY <1>2, <2>2, NotedContinues
<1> QED
  BY <1>1, <1>2

\* A line that ends nothing keeps block and note in agreement.
LEMMA ReadAgrees ==
  ASSUME NEW l \in Written, block \in BlockSet, note \in NoteSet, Orderly(block), Agrees(block, note),
         l.kind \notin {"anchor", "section"}
  PROVE  Agrees(Read(block, l), Noted(l))
<1> DEFINE n == Noted(l)
           r == Read(block, l)
<1> SUFFICES ASSUME ~n.astray PROVE Agrees(r, n)
  BY DEF Agrees
<1>1. /\ n.under = IF l.kind = "heading" THEN l.name ELSE note.under
      /\ n.fks = note.fks \cup (IF l.kind = "fk" /\ note.under = "outgoing" THEN {l.name} ELSE {})
      /\ n.columns = note.columns \cup (IF l.kind = "row" /\ note.under = "columns" THEN {l.name} ELSE {})
      /\ IF Lost(l) THEN n.apart # "no" ELSE n.apart = note.apart
      /\ ~note.astray /\ (block.describing = "no" \/ l.kind \in {"indented", "blank", "meta"})
  <2>1. n = Continued(l)
    BY NotedContinues
  <2>2. ~Astray(l)
    BY <2>1 DEF Continued
  <2>3. ~note.astray /\ (block.describing = "no" \/ l.kind \in {"indented", "blank", "meta"})
    BY <2>2 DEF Astray
  <2>4. n.apart = Apart(l)
    BY <2>1 DEF Continued
  <2> HIDE DEF n
  <2> QED
    BY <2>1, <2>3, <2>4, ApartIs DEF Continued
<1>2. /\ block.fks = note.fks /\ block.columns \subseteq note.columns
      /\ note.apart = "no" => block.columns = note.columns
      /\ block.fkSection = "outgoing" <=> note.under = "outgoing"
      /\ block.inColumns => note.under = "columns"
      /\ note.under = "columns" /\ note.apart = "no" => block.inColumns
  BY <1>1 DEF Agrees
<1> HIDE DEF n
\* Nothing but what a description or a code block is about.
<1>3. ASSUME r.fks = block.fks, r.columns = block.columns, r.fkSection = block.fkSection,
             r.inColumns = block.inColumns, l.kind \notin {"fk", "row", "heading"}
      PROVE  Agrees(r, n)
  BY <1>1, <1>2, <1>3 DEF Agrees, Lost
<1>4. CASE block.fenced
  <2>1. l.kind \in {"text", "fence"}
    BY <1>4, WrittenIs
  <2>2. CASE l.kind = "fence"
    BY <1>3, <1>4, <2>2 DEF Read, Describes, Orderly, BlockSet
  <2>3. CASE l.kind = "text"
    BY <1>3, <1>4, <2>3 DEF Read, Describes, Orderly
  <2> QED
    BY <2>1, <2>2, <2>3
<1>5. CASE ~block.fenced /\ block.first /\ l.kind = "title"
  BY <1>3, <1>5 DEF Read, Describes, Orderly, BlockSet
<1>6. CASE ~block.fenced /\ Describes(block, l)
  <2>1. l.kind \in {"indented", "blank"}
    BY <1>1, <1>6 DEF Describes
  <2> QED
    BY <1>3, <1>6, <2>1 DEF Read, Describes, Orderly, BlockSet
<1>7. CASE ~block.fenced /\ ~(block.first /\ l.kind = "title") /\ ~Describes(block, l)
  <2> DEFINE b == [block EXCEPT !.first = FALSE, !.describing = "no"]
  <2>1. /\ b \in BlockSet
        /\ b.fks = block.fks /\ b.columns = block.columns /\ b.fkSection = block.fkSection
        /\ b.inColumns = block.inColumns
    BY DEF BlockSet
  <2>2. r = Round(b, l)
    BY <1>7 DEF Read
  <2> HIDE DEF b, r
  <2>3. CASE l.kind = "meta"
    BY <1>3, <2>1, <2>2, <2>3 DEF Round, BlockSet
  <2>4. CASE l.kind = "describe"
    BY <1>3, <2>1, <2>2, <2>4 DEF Round, BlockSet
  <2>5. CASE l.kind = "heading"
    <3>1. r = Headed(b, l.name) /\ l.name \in Headlines
      BY <2>2, <2>5, WrittenIs DEF Round
    <3>2. /\ r.fks = block.fks /\ r.columns = block.columns
          /\ r.inColumns <=> l.name = "columns"
          /\ r.fkSection = "outgoing" <=> l.name = "outgoing"
      BY <2>1, <3>1 DEF Headed, BlockSet, Headlines
    <3> QED
      BY <1>1, <1>2, <2>5, <3>2 DEF Agrees, Lost
  <2>6. CASE l.kind = "fk"
    <3>1. CASE b.fkSection = "outgoing" /\ ~b.inColumns
      <4>1. r.fks = block.fks \cup {l.name} /\ r.columns = block.columns
            /\ r.fkSection = "outgoing" /\ ~r.inColumns
        BY <2>1, <2>2, <2>6, <3>1 DEF Round, BlockSet
      <4> QED
        BY <1>1, <1>2, <2>1, <2>6, <3>1, <4>1 DEF Agrees, Lost
    <3>2. CASE ~(b.fkSection = "outgoing" /\ ~b.inColumns)
      <4>1. r = [b EXCEPT !.inColumns = FALSE]
        BY <2>1, <2>2, <2>6, <3>2 DEF Round, BlockSet
      <4>2. note.under # "outgoing"
        BY <1>2, <2>1, <3>2
      <4>3. r.fks = block.fks /\ r.columns = block.columns /\ r.fkSection = block.fkSection /\ ~r.inColumns
        BY <2>1, <4>1 DEF BlockSet
      <4> QED
        BY <1>1, <1>2, <2>6, <4>2, <4>3 DEF Agrees, Lost
    <3> QED
      BY <3>1, <3>2
  <2>7. CASE l.kind = "row"
    <3>1. CASE b.inColumns
      <4>1. r.fks = block.fks /\ r.columns = block.columns \cup {l.name}
            /\ r.fkSection = block.fkSection /\ r.inColumns
        BY <2>1, <2>2, <2>7, <3>1 DEF Round, BlockSet
      <4> QED
        BY <1>1, <1>2, <2>1, <2>7, <3>1, <4>1 DEF Agrees, Lost
    <3>2. CASE ~b.inColumns
      <4>1. r.fks = block.fks /\ r.columns = block.columns
            /\ r.fkSection = block.fkSection /\ ~r.inColumns
        BY <2>1, <2>2, <2>7, <3>2 DEF Round, BlockSet
      <4> QED
        BY <1>1, <1>2, <2>1, <2>7, <3>2, <4>1 DEF Agrees, Lost
    <3> QED
      BY <3>1, <3>2
  <2>8. CASE l.kind \notin {"meta", "describe", "heading", "fk", "row"}
    <3>1. /\ r.fks = block.fks /\ r.columns = block.columns /\ r.fkSection = block.fkSection
          /\ r.inColumns => block.inColumns
          /\ l.kind = "bar" => r.inColumns = block.inColumns
      <4>1. CASE l.kind = "exTitle"
        BY <2>1, <2>2, <4>1 DEF Round, BlockSet
      <4>2. CASE l.kind = "fence"
        BY <2>1, <2>2, <4>2 DEF Round, BlockSet
      <4>3. CASE l.kind \notin {"exTitle", "fence"}
        BY <2>1, <2>2, <2>8, <4>3 DEF Round, BlockSet
      <4> QED
        BY <4>1, <4>2, <4>3
    <3> QED
      BY <1>1, <1>2, <2>8, <3>1 DEF Agrees, Lost
  <2> QED
    BY <2>3, <2>4, <2>5, <2>6, <2>7, <2>8
<1> QED
  BY <1>4, <1>5, <1>6, <1>7

(***************************************************************************)
(* What holds at every line.                                               *)
(***************************************************************************)
PartNames == {"domains", "hubs", "tables", "2.2", "joins", "2.4"}
NotesSet == [blocks : Seq(NoteSet), domains : SUBSET Tables, hubs : SUBSET Tables,
             parts : SUBSET PartNames]

DocTypeInv ==
  /\ format \in {"legacy", "django"} /\ part \in 0..Len(Parts) /\ lines \in Nat
  /\ seen \subseteq Tables /\ domains \subseteq Tables /\ hubs \subseteq Tables
  /\ joins \in [titled : BOOLEAN, fenced : BOOLEAN, found : Nat] /\ joins.found <= lines
  /\ lines <= MaxLines
  /\ block \in BlockSet /\ note \in NoteSet /\ tables \in Seq(BlockSet) /\ ended \in BOOLEAN
  /\ notes \in NotesSet

\* The blocks ended agree with their notes, and so does the one being read.
TableInv ==
  /\ Orderly(block)
  /\ block # NoBlock => Agrees(block, note)
  /\ Len(tables) = Len(notes.blocks)
  /\ \A i \in 1..Len(tables) : Agrees(tables[i], notes.blocks[i])

\* Hub rows of later parts are taken for hubs only where 2.2 was left out.
PartInv ==
  /\ domains = notes.domains
  /\ format = "legacy" /\ part <= 2 => "2.2" \notin notes.parts
  /\ (format = "legacy" /\ part > 2 => "2.2" \in notes.parts) => hubs = notes.hubs

DocInv == DocTypeInv /\ TableInv /\ PartInv

LEMMA DocInvInit ==
  ASSUME DocInit PROVE DocInv
<1>1. <<>> \in Seq(BlockSet) /\ <<>> \in Seq(NoteSet) /\ Len(<<>>) = 0
  OBVIOUS
<1>2. notes \in NotesSet
  BY <1>1 DEF DocInit, NotesSet
<1>3. 0 \in 0..Len(Parts)
  <2>1. Len(Parts) \in {3, 5}
    BY DEF Parts
  <2> QED
    BY <2>1
<1>4. joins \in [titled : BOOLEAN, fenced : BOOLEAN, found : Nat] /\ joins.found = 0
  BY DEF DocInit
<1>5. DocTypeInv
  <2>1. /\ format \in {"legacy", "django"} /\ lines \in Nat /\ joins.found <= lines /\ lines <= MaxLines
        /\ seen \subseteq Tables /\ domains \subseteq Tables /\ hubs \subseteq Tables /\ ended \in BOOLEAN
        /\ part = 0
    <3>1. lines = 0 /\ format \in {"legacy", "django"} /\ part = 0 /\ seen = {} /\ domains = {} /\ hubs = {}
      BY DEF DocInit
    <3>2. ended \in BOOLEAN
      BY DEF DocInit
    <3> QED
      BY LinesAssumption, <1>4, <3>1, <3>2
  <2>2. block \in BlockSet /\ note \in NoteSet /\ tables \in Seq(BlockSet)
    BY <1>1, BeginningOK DEF DocInit
  <2> QED
    BY <1>2, <1>3, <1>4, <2>1, <2>2 DEF DocTypeInv
<1>6. TableInv
  BY BeginningOK DEF DocInit, TableInv
<1>7. PartInv
  BY DEF DocInit, PartInv
<1> QED
  BY <1>5, <1>6, <1>7 DEF DocInv

LEMMA PartStep ==
  ASSUME DocInv, NextPart PROVE DocInv'
<1>0. PICK p \in {part + 1} \cup (IF format = "legacy" /\ part = 2 THEN {4} ELSE {}) :
        part' = p /\ notes' = [notes EXCEPT !.parts = @ \cup {Parts[p][1]}]
  BY DEF NextPart
<1>1. /\ joins' = [joins EXCEPT !.titled = FALSE]
      /\ UNCHANGED <<format, lines, seen, domains, hubs, block, tables, note, ended>>
      /\ ~InTables
  BY DEF NextPart
<1>2. format \in {"legacy", "django"} /\ part \in 0..Len(Parts) /\ part # Len(Parts)
  BY <1>1 DEF DocInv, DocTypeInv, InTables
<1>3. p \in 1..Len(Parts) /\ Parts[p][1] \in PartNames /\ Parts' = Parts
      /\ (Parts[p][1] = "2.2" <=> format = "legacy" /\ p = 3)
  <2>1. CASE format = "django"
    <3>1. Parts = <<<<"domains", 2>>, <<"hubs", 2>>, <<"tables", 2>>>> /\ Len(Parts) = 3
      BY <2>1 DEF Parts
    <3>2. p \in 1..3
      BY <1>0, <1>2, <2>1, <3>1
    <3>3. p = 1 \/ p = 2 \/ p = 3
      BY <3>2
    <3> QED
      BY <1>1, <2>1, <3>1, <3>3 DEF PartNames, Parts
  <2>2. CASE format = "legacy"
    <3>1. Parts = <<<<"domains", 2>>, <<"hubs", 3>>, <<"2.2", 3>>, <<"joins", 3>>, <<"2.4", 3>>>> /\ Len(Parts) = 5
      BY <2>2 DEF Parts
    <3>2. p \in 1..5
      BY <1>0, <1>2, <2>2, <3>1
    <3>3. p = 1 \/ p = 2 \/ p = 3 \/ p = 4 \/ p = 5
      BY <3>2
    <3> QED
      BY <1>1, <2>2, <3>1, <3>3 DEF PartNames, Parts
  <2> QED
    BY <1>2, <2>1, <2>2
<1>4. /\ notes' \in NotesSet
      /\ notes'.blocks = notes.blocks /\ notes'.domains = notes.domains /\ notes'.hubs = notes.hubs
      /\ notes'.parts = notes.parts \cup {Parts[p][1]}
  BY <1>0, <1>3 DEF DocInv, DocTypeInv, NotesSet
<1>5. joins' \in [titled : BOOLEAN, fenced : BOOLEAN, found : Nat] /\ joins'.found = joins.found
  BY <1>1 DEF DocInv, DocTypeInv
<1>6. DocTypeInv'
  <2>1. part' \in 0..Len(Parts')
    <3>1. Len(Parts) \in {3, 5}
      BY DEF Parts
    <3>2. p \in 0..Len(Parts)
      BY <1>3, <3>1
    <3> QED
      BY <1>0, <1>3, <3>2
  <2>2. /\ format' \in {"legacy", "django"} /\ lines' \in Nat /\ joins'.found <= lines' /\ lines' <= MaxLines
        /\ seen' \subseteq Tables /\ domains' \subseteq Tables /\ hubs' \subseteq Tables /\ ended' \in BOOLEAN
    BY <1>1, <1>5 DEF DocInv, DocTypeInv
  <2>3. block' \in BlockSet /\ note' \in NoteSet /\ tables' \in Seq(BlockSet)
    BY <1>1 DEF DocInv, DocTypeInv
  <2> QED
    BY <1>4, <1>5, <2>1, <2>2, <2>3 DEF DocTypeInv, BlockSet, NoteSet
<1>7. TableInv'
  BY <1>1, <1>4 DEF DocInv, TableInv, Orderly, Agrees, NoBlock
<1>8. PartInv'
  <2>1. domains' = notes'.domains
    BY <1>1, <1>4 DEF DocInv, PartInv
  <2>2. ASSUME format = "legacy", p <= 2 PROVE "2.2" \notin notes'.parts
    BY <1>0, <1>2, <1>3, <1>4, <2>2 DEF DocInv, PartInv
  <2>3. ASSUME format = "legacy" /\ p > 2 => "2.2" \in notes'.parts PROVE hubs = notes.hubs
    <3>1. CASE format = "legacy" /\ part > 2
      <4>1. p > 2 /\ p # 3
        BY <1>0, <1>2, <3>1
      <4> QED
        BY <1>3, <1>4, <2>3, <3>1, <4>1 DEF DocInv, PartInv
    <3>2. CASE ~(format = "legacy" /\ part > 2)
      BY <3>2 DEF DocInv, PartInv
    <3> QED
      BY <3>1, <3>2
  <2> QED
    BY <1>0, <1>1, <1>4, <2>1, <2>2, <2>3 DEF PartInv
<1> QED
  BY <1>6, <1>7, <1>8 DEF DocInv

\* The block ended and its note come last, and agree as they did before.
LEMMA EndedAgrees ==
  ASSUME DocInv, block # NoBlock, tables' = Append(tables, block),
         notes'.blocks = Append(notes.blocks, note)
  PROVE  /\ tables' \in Seq(BlockSet) /\ notes'.blocks \in Seq(NoteSet)
         /\ Len(tables') = Len(notes'.blocks)
         /\ \A i \in 1..Len(tables') : Agrees(tables'[i], notes'.blocks[i])
<1>1. /\ block \in BlockSet /\ note \in NoteSet /\ tables \in Seq(BlockSet) /\ notes.blocks \in Seq(NoteSet)
      /\ Len(tables) = Len(notes.blocks) /\ Agrees(block, note)
      /\ \A i \in 1..Len(tables) : Agrees(tables[i], notes.blocks[i])
  BY DEF DocInv, DocTypeInv, TableInv, NotesSet
<1>2. /\ tables' \in Seq(BlockSet) /\ notes'.blocks \in Seq(NoteSet)
      /\ Len(tables') = Len(tables) + 1 /\ Len(notes'.blocks) = Len(notes.blocks) + 1
      /\ Len(tables) \in Nat
  BY <1>1
<1>3. ASSUME NEW i \in 1..Len(tables') PROVE Agrees(tables'[i], notes'.blocks[i])
  <2>1. CASE i <= Len(tables)
    <3>1. i \in 1..Len(tables) /\ tables'[i] = tables[i] /\ notes'.blocks[i] = notes.blocks[i]
      BY <1>1, <1>2, <2>1
    <3> QED
      BY <1>1, <3>1
  <2>2. CASE i = Len(tables) + 1
    <3>1. tables'[i] = block /\ notes'.blocks[i] = note
      BY <1>1, <1>2, <2>2
    <3> QED
      BY <1>1, <3>1
  <2>3. i <= Len(tables) \/ i = Len(tables) + 1
    BY <1>2
  <2> QED
    BY <2>1, <2>2, <2>3
<1> QED
  BY <1>1, <1>2, <1>3

LEMMA EndStep ==
  ASSUME DocInv, EndOfFile PROVE DocInv'
<1>1. /\ ended' = TRUE /\ block' = NoBlock /\ note' = NoNote
      /\ UNCHANGED <<format, part, lines, seen, domains, hubs, joins>>
  BY DEF EndOfFile
<1>2. /\ tables' \in Seq(BlockSet) /\ notes'.blocks \in Seq(NoteSet)
      /\ Len(tables') = Len(notes'.blocks)
      /\ \A i \in 1..Len(tables') : Agrees(tables'[i], notes'.blocks[i])
      /\ notes' = [notes EXCEPT !.blocks = notes'.blocks]
  <2>1. CASE block = NoBlock
    BY <2>1 DEF EndOfFile, DocInv, DocTypeInv, TableInv, NotesSet
  <2>2. CASE block # NoBlock
    <3>1. tables' = Append(tables, block) /\ notes' = [notes EXCEPT !.blocks = Append(@, note)]
      BY <2>2 DEF EndOfFile
    <3>2. notes'.blocks = Append(notes.blocks, note)
      BY <3>1 DEF DocInv, DocTypeInv
    <3> QED
      BY <2>2, <3>1, <3>2, EndedAgrees
  <2> QED
    BY <2>1, <2>2
<1>3. /\ notes' \in NotesSet
      /\ notes'.domains = notes.domains /\ notes'.hubs = notes.hubs /\ notes'.parts = notes.parts
  BY <1>2 DEF DocInv, DocTypeInv, NotesSet
<1>4. DocTypeInv'
  BY <1>1, <1>2, <1>3, BeginningOK DEF DocInv, DocTypeInv, BlockSet, NoteSet, Parts
<1>5. TableInv'
  <2>1. Orderly(NoBlock)
    BY BeginningOK
  <2> QED
    BY <1>1, <1>2, <2>1 DEF TableInv, NoBlock, Orderly, Agrees
<1>6. PartInv'
  BY <1>1, <1>3 DEF DocInv, PartInv
<1> QED
  BY <1>4, <1>5, <1>6 DEF DocInv

LEMMA LineStep ==
  ASSUME DocInv, NEW l \in Written, ReadLine(l) PROVE DocInv'
<1>0. /\ lines < MaxLines /\ lines' = lines + 1
      /\ seen' = IF l.kind = "anchor" THEN seen \cup {l.name} ELSE seen
      /\ DomainPass(l) /\ HubPass(l) /\ JoinPass(l) /\ TablePass(l) /\ Note(l)
      /\ UNCHANGED <<format, part, ended>>
  BY DEF ReadLine
<1>1. l.kind \in {"anchor", "domainRow", "hubRow"} => l.name \in Tables
  BY WrittenIs
<1>2. /\ notes' = [notes EXCEPT !.blocks = notes'.blocks, !.domains = notes'.domains, !.hubs = notes'.hubs]
      /\ notes'.parts = notes.parts
      /\ notes'.blocks = IF Ends(block, l) THEN Append(notes.blocks, note) ELSE notes.blocks
      /\ notes'.domains = IF Current = "domains" /\ l.kind \in {"domainRow", "hubRow"}
                          THEN notes.domains \cup {l.name} ELSE notes.domains
      /\ notes'.hubs = IF Current = "hubs" /\ l.kind = "hubRow" THEN notes.hubs \cup {l.name} ELSE notes.hubs
      /\ note' = Noted(l)
  BY <1>0 DEF Note, DocInv, DocTypeInv
\* The table pass.
<1>3. /\ tables' \in Seq(BlockSet) /\ notes'.blocks \in Seq(NoteSet)
      /\ Len(tables') = Len(notes'.blocks)
      /\ \A i \in 1..Len(tables') : Agrees(tables'[i], notes'.blocks[i])
  <2>1. CASE Ends(block, l)
    <3>1. block # NoBlock /\ tables' = Append(tables, block)
      BY <1>0, <2>1 DEF TablePass, Ends
    <3> QED
      BY <1>2, <2>1, <3>1, EndedAgrees
  <2>2. CASE ~Ends(block, l)
    BY <1>0, <1>2, <2>2 DEF TablePass, DocInv, DocTypeInv, TableInv, NotesSet
  <2> QED
    BY <2>1, <2>2
<1>4. block' \in BlockSet /\ Orderly(block') /\ (block' # NoBlock => Agrees(block', note'))
  <2>0. block \in BlockSet /\ note \in NoteSet /\ Orderly(block) /\ (block # NoBlock => Agrees(block, note))
    BY DEF DocInv, DocTypeInv, TableInv
  <2>1. CASE l.kind = "anchor"
    <3>1. block' = BlockOf(l.name) /\ l.name \in Tables /\ note' = NoNote
      BY <1>0, <1>1, <1>2, <2>1 DEF TablePass, Noted
    <3> QED
      BY <3>1, BeginningOK
  <2>2. CASE l.kind # "anchor" /\ Ends(block, l)
    <3>1. block' = NoBlock
      BY <1>0, <2>2 DEF TablePass
    <3> QED
      BY <3>1, BeginningOK
  <2>3. CASE l.kind # "anchor" /\ ~Ends(block, l) /\ block = NoBlock
    <3>1. block' = NoBlock
      BY <1>0, <2>3 DEF TablePass
    <3> QED
      BY <3>1, BeginningOK
  <2>4. CASE l.kind # "anchor" /\ ~Ends(block, l) /\ block # NoBlock
    <3>1. block' = Read(block, l)
      BY <1>0, <2>4 DEF TablePass
    <3>2. block' \in BlockSet /\ Orderly(block')
      BY <2>0, <3>1, ReadOK
    <3>3. l.kind # "section"
      BY <2>4, WrittenIs DEF Ends
    <3> QED
      BY <1>2, <2>0, <2>4, <3>1, <3>2, <3>3, ReadAgrees
  <2> QED
    BY <2>1, <2>2, <2>3, <2>4
<1>5. TableInv'
  BY <1>3, <1>4 DEF TableInv, Orderly, Agrees, NoBlock
<1>6. note' \in NoteSet
  BY <1>2, NotedOK DEF DocInv, DocTypeInv
\* The other passes.
<1>7. domains' \subseteq Tables /\ hubs' \subseteq Tables /\ seen' \subseteq Tables
  BY <1>0, <1>1 DEF DomainPass, HubPass, DocInv, DocTypeInv
<1>8. joins' \in [titled : BOOLEAN, fenced : BOOLEAN, found : Nat] /\ joins'.found <= lines + 1
  <2>1. joins \in [titled : BOOLEAN, fenced : BOOLEAN, found : Nat] /\ joins.found <= lines /\ lines \in Nat
    BY DEF DocInv, DocTypeInv
  <2>2. CASE joins' = joins
    BY <2>1, <2>2
  <2>3. CASE joins' = [joins EXCEPT !.fenced = FALSE, !.found = @ + 1]
    <3> DEFINE f == joins.found + 1
    <3>1. f \in Nat /\ f <= lines + 1
      BY <2>1
    <3>2. joins' = [joins EXCEPT !.fenced = FALSE, !.found = f]
      BY <2>3
    <3> HIDE DEF f
    <3> QED
      BY <2>1, <3>1, <3>2
  <2>4. CASE joins' = [joins EXCEPT !.fenced = joins.titled /\ l.kind = "fence", !.titled = l.kind = "joinTitle"]
    <3> DEFINE fenced == joins.titled /\ l.kind = "fence"
               titled == l.kind = "joinTitle"
    <3>1. fenced \in BOOLEAN /\ titled \in BOOLEAN
      BY <2>1
    <3>2. joins' = [joins EXCEPT !.fenced = fenced, !.titled = titled]
      BY <2>4
    <3>3. joins' = [titled |-> titled, fenced |-> fenced, found |-> joins.found]
      BY <2>1, <3>2
    <3> HIDE DEF fenced, titled
    <3>4. joins' \in [titled : BOOLEAN, fenced : BOOLEAN, found : Nat]
      BY <2>1, <3>1, <3>3
    <3>5. joins'.found = joins.found
      BY <3>3
    <3> QED
      BY <2>1, <3>4, <3>5
  <2> QED
    BY <1>0, <2>2, <2>3, <2>4 DEF JoinPass
<1>9. notes' \in NotesSet
  <2>1. notes'.domains \subseteq Tables /\ notes'.hubs \subseteq Tables
    BY <1>1, <1>2 DEF DocInv, DocTypeInv, NotesSet
  <2> DEFINE bs == notes'.blocks
             ds == notes'.domains
             hs == notes'.hubs
  <2>2. bs \in Seq(NoteSet) /\ ds \in SUBSET Tables /\ hs \in SUBSET Tables
    BY <1>3, <2>1
  <2>3. notes' = [notes EXCEPT !.blocks = bs, !.domains = ds, !.hubs = hs]
    BY <1>2
  <2> HIDE DEF bs, ds, hs
  <2> QED
    BY <2>2, <2>3 DEF DocInv, DocTypeInv, NotesSet
<1>10. DocTypeInv'
  <2>1. Parts' = Parts /\ lines' \in Nat /\ lines' <= MaxLines
    <3>1. lines \in Nat /\ lines < MaxLines /\ lines' = lines + 1
      BY <1>0 DEF DocInv, DocTypeInv
    <3> QED
      BY LinesAssumption, <1>0, <3>1 DEF Parts
  <2> QED
    BY <1>0, <1>3, <1>4, <1>6, <1>7, <1>8, <1>9, <2>1 DEF DocTypeInv, DocInv, BlockSet, NoteSet
<1>11. PartInv'
  <2>1. format \in {"legacy", "django"} /\ part \in 0..Len(Parts)
    BY DEF DocInv, DocTypeInv
  <2>2. (Current = "domains" <=> part = 1) /\ (Current = "hubs" <=> part = 2)
    <3>1. CASE format = "django"
      <4>1. Parts = <<<<"domains", 2>>, <<"hubs", 2>>, <<"tables", 2>>>> /\ Len(Parts) = 3
        BY <3>1 DEF Parts
      <4>2. part = 0 \/ part = 1 \/ part = 2 \/ part = 3
        BY <2>1, <4>1
      <4> QED
        BY <4>1, <4>2 DEF Current
    <3>2. CASE format = "legacy"
      <4>1. Parts = <<<<"domains", 2>>, <<"hubs", 3>>, <<"2.2", 3>>, <<"joins", 3>>, <<"2.4", 3>>>> /\ Len(Parts) = 5
        BY <3>2 DEF Parts
      <4>2. part = 0 \/ part = 1 \/ part = 2 \/ part = 3 \/ part = 4 \/ part = 5
        BY <2>1, <4>1
      <4> QED
        BY <4>1, <4>2 DEF Current
    <3> QED
      BY <2>1, <3>1, <3>2
  <2>3. domains' = notes'.domains
    BY <1>0, <1>2, <2>2 DEF DomainPass, InDomains, DocInv, PartInv
  <2>4. (format = "legacy" /\ part > 2 => "2.2" \in notes.parts) => hubs' = notes'.hubs
    <3> SUFFICES ASSUME format = "legacy" /\ part > 2 => "2.2" \in notes.parts PROVE hubs' = notes'.hubs
      OBVIOUS
    <3>1. hubs = notes.hubs /\ (format = "legacy" /\ part <= 2 => "2.2" \notin notes.parts)
      BY DEF DocInv, PartInv
    <3>2. part \in Int
      BY <2>1
    <3>3. InHubs <=> part = 2
      BY <2>1, <3>1, <3>2 DEF InHubs
    <3> QED
      BY <1>0, <1>2, <2>2, <3>1, <3>3 DEF HubPass
  <2> QED
    BY <1>0, <1>2, <2>3, <2>4 DEF PartInv, DocInv
<1> QED
  BY <1>5, <1>10, <1>11 DEF DocInv

\* The invariant holds at every line of every document.
THEOREM DocInvHolds == DocSpec => []DocInv
<1>1. DocInit => DocInv
  BY DocInvInit
<1>2. DocInv /\ [DocNext]_docVars => DocInv'
  <2> SUFFICES ASSUME DocInv, [DocNext]_docVars PROVE DocInv'
    OBVIOUS
  <2>1. CASE UNCHANGED docVars
    BY <2>1 DEF docVars, DocInv, DocTypeInv, TableInv, PartInv, Parts, Orderly, Agrees,
       NoBlock, BlockSet, NoteSet
  <2> QED
    BY <2>1, PartStep, EndStep, LineStep DEF DocNext
<1> QED
  BY <1>1, <1>2, PTL DEF DocSpec

\* Every state in which the parser can be, of any document, has the shape that
\* SchemaDocs gives it.
THEOREM SchemaTypeCorrect == DocSpec => []DocTypeOK
<1>1. DocInv => DocTypeOK
  <2> SUFFICES ASSUME DocInv PROVE DocTypeOK
    OBVIOUS
  <2>1. part \in 0..5
    <3>1. Len(Parts) \in {3, 5} /\ part \in 0..Len(Parts)
      BY DEF Parts, DocInv, DocTypeInv
    <3>2. CASE Len(Parts) = 3
      BY <3>1, <3>2
    <3>3. CASE Len(Parts) = 5
      BY <3>1, <3>3
    <3> QED
      BY <3>1, <3>2, <3>3
  <2>2. joins \in [titled : BOOLEAN, fenced : BOOLEAN, found : 0..MaxLines]
    BY LinesAssumption DEF DocInv, DocTypeInv
  <2> QED
    BY <2>1, <2>2 DEF DocTypeOK, DocInv, DocTypeInv, TableInv
<1> QED
  BY <1>1, DocInvHolds, PTL

\* For a document of any length, in either format: a table whose description is
\* not astray has been read with the foreign keys listed as its own, with no
\* column but those under its heading of columns, and with all of them if no line
\* stands between that heading and the rows; the domains are those of their part,
\* and so are the hubs, once the tables have begun, if 2.2 ends the part of a
\* legacy document.  The parser does lose keys, columns or hubs of the documents
\* left out, of which the theorem says nothing.
THEOREM SchemaReadAsSaid == DocSpec => []TablesAsSaid
<1>1. DocInv => TablesAsSaid
  <2> SUFFICES ASSUME DocInv PROVE TablesAsSaid
    OBVIOUS
  <2>1. DOMAIN tables = 1..Len(tables) /\ \A i \in 1..Len(tables) : Agrees(tables[i], notes.blocks[i])
    BY DEF DocInv, DocTypeInv, TableInv
  <2>2. ForeignKeysAsSaid
    BY <2>1 DEF ForeignKeysAsSaid, Agrees
  <2>3. ColumnsAsSaid
    BY <2>1 DEF ColumnsAsSaid, Agrees
  <2>4. PartsApart
    BY DEF PartsApart, DocInv, PartInv
  <2> QED
    BY <2>2, <2>3, <2>4 DEF TablesAsSaid
<1> QED
  BY <1>1, DocInvHolds, PTL

(***************************************************************************)
(* Finite sets as sequences (Orders): what the functions below rest on.    *)
(***************************************************************************)
\* before is a strict order of the elements of S.
Orders(before, S) ==
  /\ \A x \in S : <<x, x>> \notin before
  /\ \A x, y \in S : x # y => <<x, y>> \in before \/ <<y, x>> \in before
  /\ \A x, y, z \in S : <<x, y>> \in before /\ <<y, z>> \in before => <<x, z>> \in before

\* Ranks tell the elements of a finite set apart, and there is one for each.
LEMMA RanksOrder ==
  ASSUME NEW S, IsFiniteSet(S), NEW before, Orders(before, S)
  PROVE  /\ \A x \in S : Rank(S, before, x) \in 0..(Cardinality(S) - 1)
         /\ \A x, y \in S : <<x, y>> \in before => Rank(S, before, x) < Rank(S, before, y)
         /\ \A x, y \in S : Rank(S, before, x) = Rank(S, before, y) => x = y
         /\ \A k \in 1..Cardinality(S) : \E x \in S : Rank(S, before, x) = k - 1
<1> DEFINE n == Cardinality(S)
           Lower(x) == {y \in S : <<y, x>> \in before}
           r == [x \in S |-> Cardinality(Lower(x)) + 1]
<1>0. n \in Nat
  BY FS_CardinalityType
<1>1. ASSUME NEW x \in S
      PROVE  IsFiniteSet(Lower(x)) /\ Cardinality(Lower(x)) \in Nat /\ Cardinality(Lower(x)) <= n - 1
  <2>1. IsFiniteSet(S \ {x}) /\ Cardinality(S \ {x}) = n - 1
    BY FS_RemoveElement
  <2>2. Lower(x) \in SUBSET (S \ {x})
    BY DEF Orders
  <2>3. IsFiniteSet(Lower(x)) /\ Cardinality(Lower(x)) <= Cardinality(S \ {x})
    BY <2>1, <2>2, FS_Subset
  <2>4. Cardinality(Lower(x)) \in Nat
    BY <2>3, FS_CardinalityType
  <2> QED
    BY <2>1, <2>3, <2>4
<1>2. ASSUME NEW x \in S, NEW y \in S, <<x, y>> \in before
      PROVE  Cardinality(Lower(x)) < Cardinality(Lower(y))
  <2>1. Lower(x) \in SUBSET Lower(y)
    BY <1>2 DEF Orders
  <2>2. x \in Lower(y) /\ x \notin Lower(x)
    BY <1>2 DEF Orders
  <2>3. Lower(x) # Lower(y)
    BY <2>2
  <2>4. Cardinality(Lower(x)) <= Cardinality(Lower(y)) /\ Cardinality(Lower(y)) # Cardinality(Lower(x))
    BY <1>1, <2>1, <2>3, FS_Subset
  <2>5. Cardinality(Lower(x)) \in Nat /\ Cardinality(Lower(y)) \in Nat
    BY <1>1
  <2> HIDE DEF Lower
  <2> QED
    BY <2>4, <2>5
<1> HIDE DEF Lower
<1>3. ASSUME NEW x \in S, NEW y \in S, Cardinality(Lower(x)) = Cardinality(Lower(y))
      PROVE  x = y
  <2>1. ~(<<x, y>> \in before) /\ ~(<<y, x>> \in before)
    BY <1>1, <1>2, <1>3
  <2> QED
    BY <2>1 DEF Orders
<1>4. ASSUME NEW k \in 1..n
      PROVE  \E x \in S : Cardinality(Lower(x)) = k - 1
  <2>1. r \in [S -> 1..n]
    BY <1>0, <1>1
  <2>2. \A x, y \in S : r[x] = r[y] => x = y
    BY <1>1, <1>3
  <2>3. r \in Injection(S, 1..n)
    BY <2>1, <2>2 DEF Injection, IsInjective
  <2>4. IsFiniteSet(1..n) /\ Cardinality(1..n) = n
    BY <1>0, FS_Interval
  <2>5. r \in Surjection(S, 1..n)
    BY <2>3, <2>4, FS_Injection
  <2>6. PICK x \in S : r[x] = k
    BY <2>5 DEF Surjection
  <2> QED
    BY <1>1, <2>6
<1>5. \A x \in S : Rank(S, before, x) = Cardinality(Lower(x))
  BY DEF Rank, Lower
<1> HIDE DEF r
<1>6. \A x \in S : Rank(S, before, x) \in 0..(n - 1)
  BY <1>0, <1>1, <1>5
<1> QED
  BY <1>2, <1>3, <1>4, <1>5, <1>6

\* Sorted gives each element once, in order.
LEMMA SortedInOrder ==
  ASSUME NEW S, IsFiniteSet(S), NEW before, Orders(before, S)
  PROVE  /\ Cardinality(S) \in Nat
         /\ Sorted(S, before) \in [1..Cardinality(S) -> S]
         /\ \A k \in 1..Cardinality(S) : Rank(S, before, Sorted(S, before)[k]) = k - 1
         /\ \A i, j \in 1..Cardinality(S) : i < j => <<Sorted(S, before)[i], Sorted(S, before)[j]>> \in before
         /\ \A x \in S : \E i \in 1..Cardinality(S) : Sorted(S, before)[i] = x
<1> DEFINE n == Cardinality(S)
           s == Sorted(S, before)
<1>0. n \in Nat
  BY FS_CardinalityType
<1>1. ASSUME NEW k \in 1..n
      PROVE  s[k] \in S /\ Rank(S, before, s[k]) = k - 1
  <2>1. \E x \in S : Rank(S, before, x) = k - 1
    BY RanksOrder
  <2>2. s[k] = Nth(S, before, k)
    BY DEF Sorted
  <2> QED
    BY <2>1, <2>2 DEF Nth
<1>2. s \in [1..n -> S]
  <2>1. \A k \in 1..n : Nth(S, before, k) \in S
    BY <1>1 DEF Sorted
  <2> QED
    BY <2>1 DEF Sorted
<1> HIDE DEF s
<1>3. ASSUME NEW i \in 1..n, NEW j \in 1..n, i < j
      PROVE  <<s[i], s[j]>> \in before
  <2>1. s[i] \in S /\ s[j] \in S /\ Rank(S, before, s[i]) = i - 1 /\ Rank(S, before, s[j]) = j - 1
    BY <1>1
  <2>2. Rank(S, before, s[i]) < Rank(S, before, s[j])
    BY <1>0, <1>3, <2>1
  <2>3. s[i] # s[j]
    BY <2>2, <2>1, <1>0
  <2>4. ~(<<s[j], s[i]>> \in before)
    BY <2>1, <2>2, <1>0, RanksOrder
  <2> QED
    BY <2>1, <2>3, <2>4 DEF Orders
<1>4. ASSUME NEW x \in S
      PROVE  \E i \in 1..n : s[i] = x
  <2>1. Rank(S, before, x) \in 0..(n - 1)
    BY RanksOrder
  <2>2. PICK i \in 1..n : Rank(S, before, x) = i - 1
    <3>1. Rank(S, before, x) + 1 \in 1..n /\ Rank(S, before, x) = (Rank(S, before, x) + 1) - 1
      BY <1>0, <2>1
    <3> QED
      BY <3>1
  <2>3. s[i] \in S /\ Rank(S, before, s[i]) = Rank(S, before, x)
    BY <1>1, <2>2
  <2>4. s[i] = x
    BY <2>3, RanksOrder
  <2> QED
    BY <2>4
<1>5. \A k \in 1..n : Rank(S, before, s[k]) = k - 1
  BY <1>1
<1> QED
  BY <1>0, <1>2, <1>3, <1>4, <1>5 DEF s

\* The orders of Orders.
LEMMA UpwardsOrders ==
  ASSUME NEW S \in SUBSET Int
  PROVE  Orders(Upwards(S), S)
BY DEF Orders, Upwards

LEMMA LexicalOrders ==
  ASSUME NEW S \in SUBSET (Int \X Int)
  PROVE  Orders(Lexical(S), S)
<1>1. \A x \in S : x = <<x[1], x[2]>> /\ x[1] \in Int /\ x[2] \in Int
  OBVIOUS
<1>2. \A x, y \in S : <<x, y>> \in Lexical(S) <=> x[1] < y[1] \/ (x[1] = y[1] /\ x[2] < y[2])
  BY DEF Lexical
<1>3. \A x, y \in S : x # y => x[1] # y[1] \/ x[2] # y[2]
  BY <1>1
<1>4. \A x, y \in S : x # y => <<x, y>> \in Lexical(S) \/ <<y, x>> \in Lexical(S)
  BY <1>1, <1>2, <1>3
<1>5. \A x, y, z \in S : <<x, y>> \in Lexical(S) /\ <<y, z>> \in Lexical(S) => <<x, z>> \in Lexical(S)
  BY <1>1, <1>2
<1> QED
  BY <1>1, <1>2, <1>4, <1>5 DEF Orders

LEMMA DownwardsOrders ==
  ASSUME NEW S \in SUBSET Int, NEW key, \A x \in S : key[x] \in Int
  PROVE  Orders(Downwards(S, key), S)
<1>1. \A x, y \in S : <<x, y>> \in Downwards(S, key) <=> key[x] > key[y] \/ (key[x] = key[y] /\ x < y)
  BY DEF Downwards
<1> QED
  BY <1>1 DEF Orders

\* Numbers in their order.
LEMMA AscendingInOrder ==
  ASSUME NEW S \in SUBSET Int, IsFiniteSet(S)
  PROVE  /\ Cardinality(S) \in Nat
         /\ Ascending(S) \in [1..Cardinality(S) -> S]
         /\ \A i, j \in 1..Cardinality(S) : i < j => Ascending(S)[i] < Ascending(S)[j]
         /\ \A x \in S : \E i \in 1..Cardinality(S) : Ascending(S)[i] = x
<1> USE UpwardsOrders DEF Ascending
<1>1. \A i, j \in 1..Cardinality(S) :
        i < j => <<Sorted(S, Upwards(S))[i], Sorted(S, Upwards(S))[j]>> \in Upwards(S)
  BY SortedInOrder
<1>2. \A i, j \in 1..Cardinality(S) : i < j => Ascending(S)[i] < Ascending(S)[j]
  BY <1>1 DEF Upwards
<1> QED
  BY <1>2, SortedInOrder

\* A set of natural numbers has a least element, a bounded one a greatest.
LEMMA LeastOf ==
  ASSUME NEW S \in SUBSET Nat, S # {}
  PROVE  \E x \in S : \A y \in S : x <= y
<1>1. \E x \in S : \A y \in S : ~(<<y, x>> \in OpToRel(<, Nat))
  BY NatLessThanWellFounded, WFMin
<1>2. PICK x \in S : \A y \in S : ~(y < x)
  BY <1>1 DEF OpToRel
<1> QED
  BY <1>2

\* Of a set that begins another, the order is the beginning of the order.
LEMMA AscendingBegins ==
  ASSUME NEW S \in SUBSET Int, NEW T \in SUBSET Int, IsFiniteSet(T), S \subseteq T,
         \A x \in S : \A y \in T \ S : x < y
  PROVE  /\ Cardinality(S) <= Cardinality(T)
         /\ \A k \in 1..Cardinality(S) : Ascending(T)[k] = Ascending(S)[k]
<1>1. IsFiniteSet(S) /\ Cardinality(S) <= Cardinality(T)
  BY FS_Subset
<1>2. Cardinality(S) \in Nat /\ Cardinality(T) \in Nat
  BY <1>1, FS_CardinalityType
<1>3. ASSUME NEW x \in S PROVE Rank(S, Upwards(S), x) = Rank(T, Upwards(T), x)
  <2>1. \A y \in S : <<y, x>> \in Upwards(S) <=> y < x
    BY DEF Upwards
  <2>2. x \in T
    OBVIOUS
  <2>3. \A y \in T : <<y, x>> \in Upwards(T) <=> y < x
    BY <2>2 DEF Upwards
  <2>4. \A y \in T \ S : ~(y < x)
    <3>1. \A y \in T \ S : x < y /\ x \in Int /\ y \in Int
      OBVIOUS
    <3> QED
      BY <3>1
  <2>5. {y \in S : <<y, x>> \in Upwards(S)} = {y \in T : <<y, x>> \in Upwards(T)}
    BY <2>1, <2>3, <2>4
  <2> QED
    BY <2>5 DEF Rank
<1>4. ASSUME NEW k \in 1..Cardinality(S) PROVE Ascending(T)[k] = Ascending(S)[k]
  <2>1. Orders(Upwards(S), S) /\ Orders(Upwards(T), T)
    BY UpwardsOrders
  <2>2. Ascending(S)[k] \in S /\ Rank(S, Upwards(S), Ascending(S)[k]) = k - 1
    BY <1>1, <2>1, SortedInOrder DEF Ascending
  <2>3. k \in 1..Cardinality(T)
    BY <1>1, <1>2
  <2>4. Ascending(T)[k] \in T /\ Rank(T, Upwards(T), Ascending(T)[k]) = k - 1
    BY <2>1, <2>3, SortedInOrder DEF Ascending
  <2>5. Rank(T, Upwards(T), Ascending(S)[k]) = Rank(T, Upwards(T), Ascending(T)[k])
    BY <1>3, <2>2, <2>4
  <2>6. \A x, y \in T : Rank(T, Upwards(T), x) = Rank(T, Upwards(T), y) => x = y
    BY <2>1, RanksOrder
  <2>7. Ascending(S)[k] \in T
    BY <2>2
  <2> QED
    BY <2>4, <2>5, <2>6, <2>7
<1> QED
  BY <1>1, <1>4

\* Once keeps the first of each element, in their order.
LEMMA FirstsOf ==
  ASSUME NEW T, NEW s \in Seq(T)
  PROVE  /\ Firsts(s) \in SUBSET (1..Len(s)) /\ IsFiniteSet(Firsts(s))
         /\ \A i \in 1..Len(s) : \E j \in Firsts(s) : s[j] = s[i]
         /\ \A i, j \in Firsts(s) : s[i] = s[j] => i = j
<1>1. DOMAIN s = 1..Len(s) /\ Len(s) \in Nat
  OBVIOUS
<1>2. Firsts(s) \in SUBSET (1..Len(s)) /\ IsFiniteSet(Firsts(s))
  <2>1. Firsts(s) \in SUBSET (1..Len(s))
    BY <1>1 DEF Firsts
  <2>2. IsFiniteSet(1..Len(s))
    BY <1>1, FS_Interval
  <2> QED
    BY <2>1, <2>2, FS_Subset
<1>3. ASSUME NEW i \in 1..Len(s) PROVE \E j \in Firsts(s) : s[j] = s[i]
  <2> DEFINE Same == {j \in 1..Len(s) : s[j] = s[i]}
  <2>1. Same \in SUBSET Nat /\ Same # {}
    OBVIOUS
  <2>2. PICK j \in Same : \A m \in Same : j <= m
    BY <2>1, LeastOf
  <2>3. \A m \in 1..(j - 1) : m \in 1..Len(s) /\ m < j
    BY <1>1
  <2>4. j \in Firsts(s)
    BY <1>1, <2>2, <2>3 DEF Firsts
  <2> QED
    BY <2>2, <2>4
<1>4. ASSUME NEW i \in Firsts(s), NEW j \in Firsts(s), s[i] = s[j], i < j PROVE FALSE
  <2>1. i \in 1..(j - 1)
    BY <1>1, <1>2, <1>4
  <2> QED
    BY <1>4, <2>1 DEF Firsts
<1> QED
  BY <1>1, <1>2, <1>3, <1>4

LEMMA OnceOfEach ==
  ASSUME NEW T, NEW s \in Seq(T)
  PROVE  /\ Once(s) \in Seq(T) /\ IsInjective(Once(s))
         /\ \A k \in DOMAIN Once(s) : \E i \in DOMAIN s : Once(s)[k] = s[i]
         /\ \A i \in DOMAIN s : \E k \in DOMAIN Once(s) : Once(s)[k] = s[i]
<1> DEFINE F == Firsts(s)
           n == Cardinality(F)
           a == Ascending(F)
           o == Once(s)
<1>1. /\ F \in SUBSET (1..Len(s)) /\ IsFiniteSet(F)
      /\ \A i \in 1..Len(s) : \E j \in F : s[j] = s[i]
      /\ \A i, j \in F : s[i] = s[j] => i = j
  BY FirstsOf
<1>2. /\ n \in Nat /\ a \in [1..n -> F]
      /\ \A i, j \in 1..n : i < j => a[i] < a[j]
      /\ \A x \in F : \E i \in 1..n : a[i] = x
  <2>1. F \in SUBSET Int
    BY <1>1
  <2> QED
    BY <1>1, <2>1, AscendingInOrder
<1>3. DOMAIN s = 1..Len(s) /\ Len(s) \in Nat
  OBVIOUS
<1>4. o = [k \in 1..n |-> s[a[k]]]
  BY <1>2 DEF Once, At
<1> HIDE DEF F, n, a, o
<1>5. \A k \in 1..n : a[k] \in F /\ a[k] \in 1..Len(s) /\ o[k] = s[a[k]] /\ s[a[k]] \in T
  <2> SUFFICES ASSUME NEW k \in 1..n
               PROVE  a[k] \in F /\ a[k] \in 1..Len(s) /\ o[k] = s[a[k]] /\ s[a[k]] \in T
    OBVIOUS
  <2>1. a[k] \in F
    BY <1>2
  <2>2. a[k] \in 1..Len(s)
    BY <1>1, <2>1
  <2>3. s[a[k]] \in T
    BY <2>2
  <2> QED
    BY <1>4, <2>1, <2>2, <2>3
<1>6. o \in [1..n -> T] /\ DOMAIN o = 1..n
  BY <1>4, <1>5
<1>7. o \in Seq(T)
  BY <1>2, <1>6
<1>8. IsInjective(o)
  <2> SUFFICES ASSUME NEW i \in 1..n, NEW j \in 1..n, o[i] = o[j] PROVE i = j
    BY <1>6 DEF IsInjective
  <2>1. a[i] = a[j]
    BY <1>1, <1>5
  <2>2. a[i] \in Int /\ a[j] \in Int
    BY <1>5
  <2> QED
    BY <1>2, <2>1, <2>2
<1>9. \A i \in DOMAIN s : \E k \in 1..n : o[k] = s[i]
  <2> SUFFICES ASSUME NEW i \in 1..Len(s) PROVE \E k \in 1..n : o[k] = s[i]
    BY <1>3
  <2>1. PICK j \in F : s[j] = s[i]
    BY <1>1
  <2>2. PICK k \in 1..n : a[k] = j
    BY <1>2
  <2> QED
    BY <1>5, <2>1, <2>2
<1>10. \A k \in 1..n : \E i \in DOMAIN s : o[k] = s[i]
  BY <1>3, <1>5
<1> QED
  BY <1>6, <1>7, <1>8, <1>9, <1>10 DEF o

\* What stands in front stays in front.
LEMMA OnceBegins ==
  ASSUME NEW T, NEW s \in Seq(T), NEW t \in Seq(T)
  PROVE  IsPrefix(Once(s), Once(s \o t))
<1> DEFINE u == s \o t
<1>1. /\ u \in Seq(T) /\ Len(u) = Len(s) + Len(t) /\ Len(s) \in Nat /\ Len(t) \in Nat
      /\ DOMAIN u = 1..Len(u) /\ DOMAIN s = 1..Len(s)
      /\ \A i \in 1..Len(s) : u[i] = s[i]
  OBVIOUS
<1> HIDE DEF u
<1>2. /\ Firsts(s) \in SUBSET (1..Len(s)) /\ IsFiniteSet(Firsts(s))
      /\ Firsts(u) \in SUBSET (1..Len(u)) /\ IsFiniteSet(Firsts(u))
  BY <1>1, FirstsOf
<1>3. ASSUME NEW i \in 1..Len(s) PROVE i \in Firsts(s) <=> i \in Firsts(u)
  <2>1. \A j \in 1..(i - 1) : u[j] = s[j]
    BY <1>1
  <2> QED
    BY <1>1, <2>1 DEF Firsts
<1>4. Firsts(s) \subseteq Firsts(u) /\ \A x \in Firsts(s) : \A y \in Firsts(u) \ Firsts(s) : x < y
  BY <1>1, <1>2, <1>3
<1> DEFINE m == Cardinality(Firsts(s))
           n == Cardinality(Firsts(u))
<1>5. /\ m <= n /\ m \in Nat /\ n \in Nat
      /\ \A k \in 1..m : Ascending(Firsts(u))[k] = Ascending(Firsts(s))[k]
  <2>1. Firsts(s) \in SUBSET Int /\ Firsts(u) \in SUBSET Int
    BY <1>2
  <2> QED
    BY <1>2, <1>4, <2>1, AscendingBegins, FS_CardinalityType
<1>6. /\ Ascending(Firsts(s)) \in [1..m -> Firsts(s)]
      /\ Ascending(Firsts(u)) \in [1..n -> Firsts(u)]
  <2>1. Firsts(s) \in SUBSET Int /\ Firsts(u) \in SUBSET Int
    BY <1>2
  <2> QED
    BY <1>2, <2>1, AscendingInOrder
<1>7. /\ Once(s) = [k \in 1..m |-> s[Ascending(Firsts(s))[k]]]
      /\ Once(u) = [k \in 1..n |-> u[Ascending(Firsts(u))[k]]]
  BY <1>6 DEF Once, At
<1>8. Once(s) \in Seq(T) /\ Once(u) \in Seq(T)
  BY <1>1, OnceOfEach
<1> HIDE DEF m, n
<1>9. Len(Once(s)) = m /\ Len(Once(u)) = n
  BY <1>5, <1>7, <1>8
<1>10. \A k \in 1..m : Once(u)[k] = Once(s)[k]
  <2> SUFFICES ASSUME NEW k \in 1..m PROVE Once(u)[k] = Once(s)[k]
    OBVIOUS
  <2>1. Once(s)[k] = s[Ascending(Firsts(s))[k]] /\ Once(u)[k] = u[Ascending(Firsts(u))[k]]
    BY <1>5, <1>7
  <2>2. Ascending(Firsts(s))[k] \in 1..Len(s)
    BY <1>2, <1>6
  <2> QED
    BY <1>1, <1>5, <2>1, <2>2
<1>11. SubSeq(Once(s), 1, m) = SubSeq(Once(u), 1, m)
  <2>1. SubSeq(Once(s), 1, m) = [k \in 1..m |-> Once(s)[k]]
    BY <1>5, <1>8, <1>9
  <2>2. SubSeq(Once(u), 1, m) = [k \in 1..m |-> Once(u)[k]]
    BY <1>5, <1>8, <1>9
  <2> QED
    BY <1>10, <2>1, <2>2
<1> QED
  BY <1>5, <1>9, <1>11 DEF IsPrefix, u

\* What AtMost leaves is the beginning.
LEMMA AtMostOf ==
  ASSUME NEW T, NEW s \in Seq(T), NEW n \in Nat
  PROVE  /\ AtMost(s, n) \in Seq(T)
         /\ Len(AtMost(s, n)) = IF n < Len(s) THEN n ELSE Len(s)
         /\ \A i \in 1..Len(AtMost(s, n)) : AtMost(s, n)[i] = s[i] /\ i \in 1..Len(s)
<1> DEFINE m == IF n < Len(s) THEN n ELSE Len(s)
<1>1. m \in Nat /\ m <= Len(s) /\ Len(s) \in Nat
  OBVIOUS
<1>2. AtMost(s, n) = SubSeq(s, 1, m)
  BY DEF AtMost
<1> HIDE DEF m
<1>3. SubSeq(s, 1, m) = [k \in 1..m |-> s[k]]
  BY <1>1
<1>4. \A k \in 1..m : s[k] \in T /\ k \in 1..Len(s)
  BY <1>1
<1>5. [k \in 1..m |-> s[k]] \in [1..m -> T]
  BY <1>4
<1>6. AtMost(s, n) \in Seq(T) /\ Len(AtMost(s, n)) = m
  BY <1>1, <1>2, <1>3, <1>5
<1>7. \A i \in 1..m : AtMost(s, n)[i] = s[i]
  BY <1>2, <1>3
<1> QED
  BY <1>4, <1>6, <1>7 DEF m

\* The numbers up to n are in order.
LEMMA AscendingCounts ==
  ASSUME NEW n \in Nat, NEW k \in 1..n
  PROVE  Ascending(1..n)[k] = k
<1> DEFINE S == 1..n
<1>1. S \in SUBSET Int /\ IsFiniteSet(S) /\ Cardinality(S) = n
  BY FS_Interval
<1>2. Orders(Upwards(S), S)
  BY UpwardsOrders
<1>3. {y \in S : <<y, k>> \in Upwards(S)} = 1..(k - 1)
  <2>1. \A y \in S : <<y, k>> \in Upwards(S) <=> y < k
    BY DEF Upwards
  <2>2. \A y \in S : y < k <=> y \in 1..(k - 1)
    OBVIOUS
  <2>3. 1..(k - 1) \subseteq S
    OBVIOUS
  <2> HIDE DEF S
  <2> QED
    BY <2>1, <2>2, <2>3
<1>4. Cardinality(1..(k - 1)) = k - 1
  BY FS_Interval
<1>5. Rank(S, Upwards(S), k) = k - 1
  BY <1>3, <1>4 DEF Rank
<1> HIDE DEF S
<1>6. Ascending(S)[k] \in S /\ Rank(S, Upwards(S), Ascending(S)[k]) = k - 1
  BY <1>1, <1>2, SortedInOrder DEF Ascending
<1>7. \A x, y \in S : Rank(S, Upwards(S), x) = Rank(S, Upwards(S), y) => x = y
  BY <1>1, <1>2, RanksOrder
<1>8. k \in S
  BY DEF S
<1>9. Ascending(S)[k] = k
  BY <1>5, <1>6, <1>7, <1>8
<1> QED
  BY <1>9 DEF S

\* What has no repetitions stays as it is, also in front of something else.
LEMMA OnceKeeps ==
  ASSUME NEW T, NEW s \in Seq(T), IsInjective(s), NEW t \in Seq(T)
  PROVE  /\ Len(s) <= Len(Once(s \o t))
         /\ \A k \in 1..Len(s) : Once(s \o t)[k] = s[k]
<1> DEFINE n == Len(s)
           o == Once(s \o t)
<1>1. n \in Nat /\ DOMAIN s = 1..n
  OBVIOUS
<1>2. Firsts(s) = 1..n
  <2>1. \A i \in 1..n : \A j \in 1..(i - 1) : j \in DOMAIN s /\ j # i
    BY <1>1
  <2>2. \A i \in 1..n : \A j \in 1..(i - 1) : s[j] # s[i]
    BY <1>1, <2>1 DEF IsInjective
  <2> QED
    BY <1>1, <2>2 DEF Firsts
<1>3. Cardinality(1..n) = n
  <2> HIDE DEF n
  <2>1. Cardinality(1..n) = IF 1 > n THEN 0 ELSE n - 1 + 1
    BY <1>1, FS_Interval
  <2> QED
    BY <1>1, <2>1
<1>4. Ascending(1..n) \in [1..n -> 1..n]
  <2>1. 1..n \in SUBSET Int /\ IsFiniteSet(1..n)
    BY <1>1, FS_Interval
  <2> QED
    BY <1>3, <2>1, AscendingInOrder
<1>5. Once(s) = [k \in 1..n |-> s[Ascending(1..n)[k]]]
  BY <1>2, <1>4 DEF Once, At
<1>6. \A k \in 1..n : Once(s)[k] = s[k]
  BY <1>1, <1>5, AscendingCounts
<1>7. Once(s) \in Seq(T) /\ o \in Seq(T)
  <2>1. s \o t \in Seq(T)
    OBVIOUS
  <2> QED
    BY <2>1, OnceOfEach
<1>8. Len(Once(s)) = n
  BY <1>1, <1>5, <1>7
<1>9. Len(Once(s)) <= Len(o) /\ SubSeq(Once(s), 1, n) = SubSeq(o, 1, n)
  BY <1>8, OnceBegins DEF IsPrefix
<1> HIDE DEF n, o
<1>10. SubSeq(Once(s), 1, n) = [k \in 1..n |-> Once(s)[k]]
  BY <1>1, <1>7, <1>8
<1>11. SubSeq(o, 1, n) = [k \in 1..n |-> o[k]]
  BY <1>1, <1>7, <1>8, <1>9
<1>12. \A k \in 1..n : o[k] = s[k]
  BY <1>6, <1>9, <1>10, <1>11
<1> QED
  BY <1>8, <1>9, <1>12 DEF n, o

\* What has a number each, the greatest first.
LEMMA BestInOrder ==
  ASSUME NEW S \in SUBSET Int, IsFiniteSet(S), NEW key, \A x \in S : key[x] \in Int
  PROVE  /\ Cardinality(S) \in Nat
         /\ Best(S, key) \in [1..Cardinality(S) -> S]
         /\ \A i, j \in 1..Cardinality(S) :
              i < j => key[Best(S, key)[i]] >= key[Best(S, key)[j]] /\ Best(S, key)[i] # Best(S, key)[j]
         /\ \A x \in S : \E i \in 1..Cardinality(S) : Best(S, key)[i] = x
<1> DEFINE n == Cardinality(S)
           b == Best(S, key)
<1>1. Orders(Downwards(S, key), S)
  BY DownwardsOrders
<1>2. /\ n \in Nat /\ b \in [1..n -> S]
      /\ \A i, j \in 1..n : i < j => <<b[i], b[j]>> \in Downwards(S, key)
      /\ \A x \in S : \E i \in 1..n : b[i] = x
  BY <1>1, SortedInOrder DEF Best
<1> HIDE DEF n, b
<1>3. ASSUME NEW i \in 1..n, NEW j \in 1..n, i < j PROVE key[b[i]] >= key[b[j]] /\ b[i] # b[j]
  <2>1. <<b[i], b[j]>> \in Downwards(S, key)
    BY <1>2, <1>3
  <2>2. key[b[i]] > key[b[j]] \/ (key[b[i]] = key[b[j]] /\ b[i] < b[j])
    BY <2>1 DEF Downwards
  <2>3. b[i] \in S /\ b[j] \in S /\ b[i] \in Int /\ b[j] \in Int
    BY <1>2
  <2>4. key[b[i]] \in Int /\ key[b[j]] \in Int
    BY <2>3
  <2> QED
    BY <2>2, <2>3, <2>4
<1> QED
  BY <1>2, <1>3 DEF n, b

\* A function of finitely many values.
LEMMA ImageFinite ==
  ASSUME NEW S, IsFiniteSet(S), NEW f
  PROVE  IsFiniteSet({f[x] : x \in S})
<1> DEFINE T == {f[x] : x \in S}
           g == [x \in S |-> f[x]]
<1>1. g \in Surjection(S, T)
  <2>1. g \in [S -> T]
    OBVIOUS
  <2>2. \A y \in T : \E x \in S : g[x] = y
    OBVIOUS
  <2> QED
    BY <2>1, <2>2 DEF Surjection
<1> QED
  BY <1>1, FS_Surjection

\* The places of a list of lists.
LEMMA PlacesOf ==
  ASSUME NEW T, NEW lists, NEW n \in Nat, DOMAIN lists = 1..n, \A i \in 1..n : lists[i] \in Seq(T)
  PROVE  /\ IsFiniteSet(Places(lists))
         /\ \A p \in Places(lists) : /\ p = <<p[1], p[2]>> /\ p[1] \in 1..n /\ p[2] \in 1..Len(lists[p[1]])
                                     /\ p \in Int \X Int /\ lists[p[1]][p[2]] \in T
         /\ \A i \in 1..n : \A j \in 1..Len(lists[i]) : <<i, j>> \in Places(lists)
<1> DEFINE f == [i \in 1..n |-> {<<i, j>> : j \in DOMAIN lists[i]}]
           g(i) == [j \in 1..Len(lists[i]) |-> <<i, j>>]
<1>1. \A i \in 1..n : DOMAIN lists[i] = 1..Len(lists[i]) /\ Len(lists[i]) \in Nat
  OBVIOUS
<1>2. Places(lists) = UNION {f[i] : i \in 1..n}
  BY DEF Places
<1>3. ASSUME NEW i \in 1..n PROVE IsFiniteSet(f[i])
  <2>1. IsFiniteSet(1..Len(lists[i]))
    <3> DEFINE m == Len(lists[i])
    <3>1. m \in Nat
      BY ONLY <1>1, i \in 1..n
    <3> HIDE DEF m
    <3>2. IsFiniteSet(1..m)
      BY ONLY <3>1, FS_Interval
    <3> QED
      BY ONLY <3>2 DEF m
  <2>2. f[i] = {g(i)[j] : j \in 1..Len(lists[i])}
    BY <1>1
  <2> DEFINE h == g(i)
  <2>3. f[i] = {h[j] : j \in 1..Len(lists[i])}
    BY <2>2
  <2> HIDE DEF f, g, h
  <2>4. IsFiniteSet({h[j] : j \in 1..Len(lists[i])})
    BY <2>1, ImageFinite
  <2> QED
    BY <2>3, <2>4
<1>4. IsFiniteSet({f[i] : i \in 1..n})
  <2>1. IsFiniteSet(1..n)
    BY FS_Interval
  <2> HIDE DEF f
  <2> QED
    BY <2>1, ImageFinite
<1>5. IsFiniteSet(Places(lists))
  <2> HIDE DEF f
  <2>1. \A U \in {f[i] : i \in 1..n} : IsFiniteSet(U)
    BY <1>3
  <2> QED
    BY <1>2, <1>4, <2>1, FS_UNION
<1>6. ASSUME NEW p \in Places(lists)
      PROVE  /\ p = <<p[1], p[2]>> /\ p[1] \in 1..n /\ p[2] \in 1..Len(lists[p[1]])
             /\ p \in Int \X Int /\ lists[p[1]][p[2]] \in T
  <2>1. PICK i \in 1..n : p \in {<<i, j>> : j \in DOMAIN lists[i]}
    BY DEF Places
  <2>2. PICK j \in 1..Len(lists[i]) : p = <<i, j>>
    BY <1>1, <2>1
  <2>3. p[1] = i /\ p[2] = j
    BY <2>2
  <2>4. lists[i][j] \in T
    OBVIOUS
  <2>5. j \in Int /\ i \in Int
    BY <1>1
  <2> QED
    BY <2>2, <2>3, <2>4, <2>5
<1>7. ASSUME NEW i \in 1..n, NEW j \in 1..Len(lists[i]) PROVE <<i, j>> \in Places(lists)
  BY <1>1 DEF Places
<1> QED
  BY <1>5, <1>6, <1>7

\* What some places of a list of lists hold.
LEMMA WithinOf ==
  ASSUME NEW T, NEW lists, NEW n \in Nat, DOMAIN lists = 1..n, \A i \in 1..n : lists[i] \in Seq(T),
         NEW P \in SUBSET Places(lists)
  PROVE  /\ Within(lists, InPlace(P)) \in Seq(T)
         /\ \A k \in DOMAIN Within(lists, InPlace(P)) : \E p \in P : Within(lists, InPlace(P))[k] = lists[p[1]][p[2]]
         /\ \A p \in P : \E k \in DOMAIN Within(lists, InPlace(P)) : Within(lists, InPlace(P))[k] = lists[p[1]][p[2]]
<1> DEFINE m == Cardinality(P)
           up == InPlace(P)
           w == Within(lists, up)
<1>1. IsFiniteSet(P) /\ P \in SUBSET (Int \X Int) /\ \A p \in P : lists[p[1]][p[2]] \in T
  <2>1. IsFiniteSet(Places(lists))
    BY PlacesOf
  <2>2. IsFiniteSet(P)
    BY <2>1, FS_Subset
  <2>3. \A p \in Places(lists) : p \in Int \X Int /\ lists[p[1]][p[2]] \in T
    BY PlacesOf
  <2> QED
    BY <2>2, <2>3
<1>2. m \in Nat /\ up \in [1..m -> P] /\ \A p \in P : \E k \in 1..m : up[k] = p
  <2>1. Orders(Lexical(P), P)
    BY <1>1, LexicalOrders
  <2> QED
    BY <1>1, <2>1, SortedInOrder DEF InPlace
<1> HIDE DEF up, m
<1>3. w = [k \in 1..m |-> lists[up[k][1]][up[k][2]]]
  BY <1>2 DEF Within
<1>4. \A k \in 1..m : up[k] \in P
  BY <1>2
<1>5. w \in [1..m -> T]
  BY <1>1, <1>3, <1>4
<1>6. w \in Seq(T) /\ DOMAIN w = 1..m
  BY <1>2, <1>5
<1>7. \A k \in 1..m : w[k] = lists[up[k][1]][up[k][2]]
  BY <1>3
<1> HIDE DEF w
<1>8. \A p \in P : \E k \in 1..m : w[k] = lists[p[1]][p[2]]
  BY <1>2, <1>7
<1>9. \A k \in 1..m : \E p \in P : w[k] = lists[p[1]][p[2]]
  BY <1>4, <1>7
<1> QED
  BY <1>6, <1>8, <1>9 DEF w, up

\* A sequence behind another.
LEMMA Joined ==
  ASSUME NEW T, NEW s \in Seq(T), NEW t \in Seq(T)
  PROVE  /\ s \o t \in Seq(T) /\ Len(s \o t) = Len(s) + Len(t)
         /\ Len(s) \in Nat /\ Len(t) \in Nat /\ DOMAIN (s \o t) = 1..(Len(s) + Len(t))
         /\ \A i \in 1..Len(s) : (s \o t)[i] = s[i]
         /\ \A i \in 1..Len(t) : (s \o t)[Len(s) + i] = t[i]
<1>1. s \o t \in Seq(T) /\ Len(s \o t) = Len(s) + Len(t)
  OBVIOUS
<1>2. Len(s) \in Nat /\ Len(t) \in Nat /\ DOMAIN (s \o t) = 1..(Len(s) + Len(t))
  BY <1>1
<1>3. \A i \in 1..Len(s) : (s \o t)[i] = s[i]
  OBVIOUS
<1>4. \A i \in 1..Len(t) : (s \o t)[Len(s) + i] = t[i]
  BY <1>2
<1> QED
  BY <1>1, <1>2, <1>3, <1>4

\* Sequences and functions.
LEMMA Listed ==
  ASSUME NEW T, NEW n \in Nat, NEW s \in [1..n -> T]
  PROVE  s \in Seq(T) /\ Len(s) = n /\ DOMAIN s = 1..n
OBVIOUS

LEMMA Elements ==
  ASSUME NEW T, NEW s \in Seq(T)
  PROVE  /\ Len(s) \in Nat /\ DOMAIN s = 1..Len(s) /\ s \in [1..Len(s) -> T]
         /\ \A i \in 1..Len(s) : s[i] \in T
OBVIOUS

(***************************************************************************)
(* The rows of a result and of a prompt (ResultRows).                      *)
(***************************************************************************)
\* A quotient is rounded to a whole number that is no more than a half away.
LEMMA HalfToEvenNear ==
  ASSUME NEW a \in Nat, NEW b \in Nat \ {0}
  PROVE  /\ HalfToEven(a, b) \in Nat
         /\ 2 * (b * HalfToEven(a, b)) <= 2 * a + b
         /\ 2 * a - b <= 2 * (b * HalfToEven(a, b))
<1> DEFINE q == a \div b
           m == a % b
<1>1. q \in Nat /\ m \in Nat /\ m < b /\ a = b * q + m
  OBVIOUS
<1>2. b * q \in Nat /\ b * (q + 1) = b * q + b
  BY <1>1
<1>3. HalfToEven(a, b) = IF 2 * m > b \/ (2 * m = b /\ q % 2 = 1) THEN q + 1 ELSE q
  BY DEF HalfToEven
<1> HIDE DEF q, m
<1>4. CASE 2 * m > b \/ (2 * m = b /\ q % 2 = 1)
  <2>1. HalfToEven(a, b) = q + 1 /\ 2 * m >= b
    BY <1>1, <1>3, <1>4
  <2> QED
    BY <1>1, <1>2, <2>1
<1>5. CASE ~(2 * m > b \/ (2 * m = b /\ q % 2 = 1))
  <2>1. HalfToEven(a, b) = q /\ 2 * m <= b
    BY <1>1, <1>3, <1>5
  <2> QED
    BY <1>1, <1>2, <2>1
<1> QED
  BY <1>4, <1>5

\* The steps of a spread that are longer than one row keep apart.
LEMMA SpreadsApart ==
  ASSUME NEW d \in Nat, NEW b \in Nat \ {0}, d > b, NEW i \in 0..b
  PROVE  /\ HalfToEven(i * d, b) \in 0..d
         /\ \A j \in 0..b : i < j => HalfToEven(i * d, b) < HalfToEven(j * d, b)
<1>1. i \in Nat /\ i * d \in Nat
  OBVIOUS
<1> DEFINE h == HalfToEven(i * d, b)
<1>2. h \in Nat /\ 2 * (b * h) <= 2 * (i * d) + b /\ 2 * (i * d) - b <= 2 * (b * h)
  BY <1>1, HalfToEvenNear
<1> HIDE DEF h
<1>3. h <= d
  <2>1. i * d <= b * d
    BY <1>1
  <2>2. b * h \in Nat /\ b * d \in Nat /\ 2 * (b * h) <= 2 * (b * d) + b
    BY <1>1, <1>2, <2>1
  <2>3. ASSUME h >= d + 1 PROVE FALSE
    <3>1. b * h >= b * (d + 1) /\ b * (d + 1) = b * d + b
      BY <1>2, <2>3
    <3> QED
      BY <2>2, <3>1
  <2> QED
    BY <1>2, <2>3
<1>4. ASSUME NEW j \in 0..b, i < j PROVE h < HalfToEven(j * d, b)
  <2> DEFINE k == HalfToEven(j * d, b)
  <2>1. j \in Nat /\ j * d \in Nat
    OBVIOUS
  <2>2. k \in Nat /\ 2 * (j * d) - b <= 2 * (b * k)
    BY <2>1, HalfToEvenNear
  <2> HIDE DEF k
  <2>3. j * d >= i * d + d
    <3>1. j >= i + 1 /\ (i + 1) * d = i * d + d
      BY <1>1, <1>4, <2>1
    <3>2. j * d >= (i + 1) * d
      BY <1>1, <2>1, <3>1
    <3> QED
      BY <3>1, <3>2
  <2>4. b * k > b * h
    BY <1>1, <1>2, <2>1, <2>2, <2>3
  <2>5. ASSUME k <= h PROVE FALSE
    <3>1. b * k <= b * h
      BY <1>2, <2>2, <2>5
    <3> QED
      BY <1>2, <2>2, <2>4, <3>1
  <2> QED
    BY <1>2, <2>2, <2>5 DEF k
<1> QED
  BY <1>2, <1>3, <1>4 DEF h

\* So many rows between two, of more rows than that, are as many as asked for.
LEMMA EvenIndicesApart ==
  ASSUME NEW start \in Nat, NEW end \in Nat, NEW count \in Nat \ {0}, end - start >= count
  PROVE  /\ EvenIndices(start, end, count) \subseteq start..end
         /\ IsFiniteSet(EvenIndices(start, end, count))
         /\ Cardinality(EvenIndices(start, end, count)) = count
<1>1. CASE count = 1
  <2>1. EvenIndices(start, end, count) = {(start + end) \div 2}
    BY <1>1 DEF EvenIndices
  <2>2. (start + end) \div 2 \in start..end
    OBVIOUS
  <2> DEFINE mid == (start + end) \div 2
  <2>3. EvenIndices(start, end, count) = {mid} /\ mid \in start..end
    BY <2>1, <2>2
  <2> HIDE DEF mid
  <2>4. IsFiniteSet({mid}) /\ Cardinality({mid}) = 1
    BY FS_Singleton
  <2> QED
    BY <1>1, <2>3, <2>4
<1>2. CASE count # 1
  <2> DEFINE d == end - start
             b == count - 1
             P(i) == start + HalfToEven(i * d, b)
             E == {P(i) : i \in 0..b}
             f == [i \in 0..b |-> P(i)]
  <2>1. d \in Nat /\ b \in Nat \ {0} /\ d > b /\ count = b + 1
    BY <1>2
  <2>2. EvenIndices(start, end, count) = E
    BY <1>2 DEF EvenIndices
  <2> HIDE DEF d, b
  <2>3. \A i \in 0..b : P(i) \in start..(start + d) /\ P(i) \in Nat
    BY <2>1, SpreadsApart
  <2>4. ASSUME NEW i \in 0..b, NEW j \in 0..b, i < j PROVE P(i) < P(j)
    <3>1. HalfToEven(i * d, b) < HalfToEven(j * d, b)
      BY <2>1, <2>4, SpreadsApart
    <3>2. HalfToEven(i * d, b) \in 0..d /\ HalfToEven(j * d, b) \in 0..d
      BY <2>1, SpreadsApart
    <3> QED
      BY <2>1, <3>1, <3>2
  <2> HIDE DEF P
  <2>5. \A i, j \in 0..b : P(i) = P(j) => i = j
    BY <2>1, <2>3, <2>4
  <2>6. f \in Surjection(0..b, E) /\ f \in Injection(0..b, E)
    <3>1. f \in [0..b -> E]
      OBVIOUS
    <3>2. \A i, j \in 0..b : f[i] = f[j] => i = j
      BY <2>5
    <3>3. \A e \in E : \E i \in 0..b : f[i] = e
      OBVIOUS
    <3> QED
      BY <3>1, <3>2, <3>3 DEF Surjection, Injection, IsInjective
  <2>7. IsFiniteSet(0..b) /\ Cardinality(0..b) = b + 1
    BY <2>1, FS_Interval
  <2>8. IsFiniteSet(E) /\ Cardinality(E) = b + 1
    BY <2>6, <2>7, FS_Surjection
  <2>9. start + d = end
    BY DEF d
  <2> QED
    BY <2>1, <2>2, <2>3, <2>8, <2>9
<1> QED
  BY <1>1, <1>2

LEMMA ThirdOfRows ==
  ASSUME NEW max \in Nat \ {0}
  PROVE  /\ Third(max) \in Nat \ {0} /\ Third(max) <= max
         /\ max < 3 => Third(max) = 1
         /\ max >= 3 => max - 2 * Third(max) >= 1
BY DEF Third, Most

\* A sample of more rows than may be shown has as many as may be, in order,
\* from the first to the last.
LEMMA SpreadAcross ==
  ASSUME NEW max \in Nat \ {0}, NEW total \in Nat, total > max
  PROVE  LET s == Spread(total, max)
         IN  /\ s \in [1..max -> 0..(total - 1)] /\ Len(s) = max
             /\ \A i, j \in 1..max : i < j => s[i] < s[j]
             /\ s[1] = 0
             /\ max >= 2 => s[max] = total - 1
<1> DEFINE third == Third(max)
           slots == max - 2 * third
           last == total - third - 1
           middle == IF slots > 0 /\ last >= third THEN EvenIndices(third, last, slots) ELSE {}
           head == 0..(third - 1)
           tail == (total - third)..(total - 1)
           chosen == head \cup middle \cup tail
           n == Cardinality(chosen)
           all == Ascending(chosen)
<1>1. /\ third \in Nat \ {0} /\ third <= max /\ (max < 3 => third = 1) /\ (max >= 3 => slots >= 1)
      /\ last \in Int /\ slots \in Int
  BY ThirdOfRows
<1>2. Spread(total, max) = AtMost(all, max)
  BY DEF Spread, Picked
<1> HIDE DEF third
<1>3. /\ IsFiniteSet(middle) /\ middle \subseteq third..last
      /\ Cardinality(middle) = IF max >= 3 THEN slots ELSE 0
  <2>1. CASE max >= 3
    <3>1. third \in Nat /\ last \in Nat /\ slots \in Nat \ {0} /\ last - third >= slots /\ last >= third
      BY <1>1, <2>1
    <3>2. middle = EvenIndices(third, last, slots)
      BY <3>1
    <3> HIDE DEF middle, last, slots
    <3> QED
      BY <2>1, <3>1, <3>2, EvenIndicesApart
  <2>2. CASE max < 3
    <3>1. middle = {}
      BY <1>1, <2>2
    <3> HIDE DEF middle
    <3> QED
      BY <2>2, <3>1, FS_EmptySet
  <2> QED
    BY <2>1, <2>2
<1> HIDE DEF middle
<1>4. /\ IsFiniteSet(head) /\ Cardinality(head) = third
      /\ IsFiniteSet(tail) /\ Cardinality(tail) = third
  <2>1. IsFiniteSet(head) /\ Cardinality(head) = third
    BY <1>1, FS_Interval
  <2>2. IsFiniteSet(tail) /\ Cardinality(tail) = third
    BY <1>1, FS_Interval
  <2> QED
    BY <2>1, <2>2
<1>5. head \cap middle = {} /\ (head \cup middle) \cap tail = {}
  BY <1>1, <1>3
<1>6. IsFiniteSet(chosen) /\ n = IF max >= 3 THEN max ELSE 2
  <2>1. IsFiniteSet(head \cup middle) /\ Cardinality(head \cup middle) = third + Cardinality(middle)
    <3>1. Cardinality(head \cap middle) = 0
      BY <1>5, FS_EmptySet
    <3>2. /\ IsFiniteSet(head \cup middle)
          /\ Cardinality(head \cup middle) = Cardinality(head) + Cardinality(middle) - Cardinality(head \cap middle)
      BY <1>3, <1>4, FS_Union
    <3> QED
      BY <1>1, <1>3, <1>4, <3>1, <3>2
  <2>2. IsFiniteSet(chosen) /\ n = third + Cardinality(middle) + third
    <3>1. Cardinality((head \cup middle) \cap tail) = 0
      BY <1>5, FS_EmptySet
    <3>2. /\ IsFiniteSet(chosen)
          /\ n = Cardinality(head \cup middle) + Cardinality(tail) - Cardinality((head \cup middle) \cap tail)
      BY <2>1, <1>4, FS_Union
    <3> QED
      BY <1>1, <1>3, <1>4, <2>1, <3>1, <3>2
  <2> QED
    BY <1>1, <1>3, <2>2
<1>7. /\ chosen \subseteq 0..(total - 1) /\ 0 \in chosen /\ (total - 1) \in chosen
  BY <1>1, <1>3
<1> HIDE DEF chosen
<1>8. /\ all \in [1..n -> chosen]
      /\ \A i, j \in 1..n : i < j => all[i] < all[j]
      /\ \A x \in chosen : \E i \in 1..n : all[i] = x
  <2>1. chosen \in SUBSET Int
    BY <1>7
  <2> QED
    BY <1>6, <2>1, AscendingInOrder
<1> HIDE DEF all, n
<1>9. n \in Nat /\ n >= max /\ (max >= 2 => n = max) /\ n >= 2
  BY <1>6
<1>a. \A i \in 1..n : all[i] \in 0..(total - 1)
  BY <1>7, <1>8
<1>10. all[1] = 0
  <2>1. PICK i \in 1..n : all[i] = 0
    BY <1>7, <1>8
  <2>2. all[1] \in 0..(total - 1)
    BY <1>9, <1>a
  <2>3. i # 1 => all[1] < all[i]
    BY <1>8, <1>9
  <2> QED
    BY <2>1, <2>2, <2>3
<1>11. all[n] = total - 1
  <2>1. PICK i \in 1..n : all[i] = total - 1
    BY <1>7, <1>8
  <2>2. all[n] \in 0..(total - 1)
    BY <1>9, <1>a
  <2>3. i # n => all[i] < all[n]
    BY <1>8, <1>9
  <2> QED
    BY <2>1, <2>2, <2>3
<1>12. Spread(total, max) = [i \in 1..max |-> all[i]]
  <2>1. all \in Seq(chosen) /\ Len(all) = n
    BY <1>8, <1>9
  <2>2. AtMost(all, max) = SubSeq(all, 1, max)
    BY <1>9, <2>1 DEF AtMost
  <2>3. SubSeq(all, 1, max) = [i \in 1..max |-> all[i]]
    BY <1>9, <2>1
  <2> QED
    BY <1>2, <2>2, <2>3
<1>13. \A i \in 1..max : i \in 1..n /\ all[i] \in 0..(total - 1)
  BY <1>9, <1>a
<1> QED
  BY <1>8, <1>9, <1>10, <1>11, <1>12, <1>13
\* What the executor and the sampling promise, of every statement and every
\* number of rows and caps: the result has the rows asked for up to the cap,
\* and what is left out of it or of the prompt is said.
THEOREM RowsComeAsSaid ==
  ASSUME NEW statement, statement.form \in Forms, statement.own \in Nat,
         NEW available \in Nat, NEW max \in Nat \ {0}, NEW display \in Nat \ {0},
         NEW noted \in BOOLEAN
  PROVE  RowsAsSaid(statement, available, max, display, noted,
                    RowsOf(statement, available, max, display, noted))
<1> DEFINE asked == Asked(statement, available)
           result == Executed(statement, available, max)
           sample == Sample(result.rows, display)
           shown == sample.indices
           r == RowsOf(statement, available, max, display, noted)
<1>1. asked \in Nat
  BY DEF Asked, Least
<1>2. result = [rows |-> Least(asked, max), truncated |-> (asked > max)]
  <2> DEFINE fetched == Fetched(statement, available, max + 1)
  <2>1. fetched = IF statement.form = "explain" THEN available ELSE Least(asked, max + 1)
    BY DEF Fetched, Asked, Forms, Least
  <2>2. statement.form = "explain" => asked = available
    BY DEF Asked
  <2>3. result = [rows |-> Least(fetched, max), truncated |-> (fetched > max)]
    BY DEF Executed
  <2> HIDE DEF fetched, asked
  <2>4. Least(fetched, max) = Least(asked, max) /\ (fetched > max <=> asked > max)
    BY <1>1, <2>1, <2>2 DEF Least
  <2>5. (fetched > max) = (asked > max)
    BY <2>4
  <2> QED
    BY <2>3, <2>4, <2>5
<1>3. /\ result.rows = Least(asked, max) /\ (result.truncated <=> asked > max)
      /\ result.rows \in Nat
  <2> HIDE DEF result, asked
  <2>1. result.rows = Least(asked, max) /\ (result.truncated <=> asked > max)
    BY <1>2
  <2> QED
    BY <1>1, <2>1 DEF Least
<1>4. /\ r.result = result
      /\ r.prompt.shown = shown
      /\ r.prompt.sampledNote = IF sample.sampled THEN <<Len(shown), result.rows>> ELSE <<>>
      /\ r.prompt.truncatedNote = (result.rows > 0 /\ result.truncated)
      /\ r.answer.rowCount = result.rows
      /\ r.answer.truncationNoted <=> noted \/ result.truncated
  BY DEF RowsOf, Formatted, Answered
<1> HIDE DEF result, asked, r
<1> DEFINE Shows == /\ Len(shown) = Least(result.rows, display)
                    /\ \A i, j \in DOMAIN shown : i < j => shown[i] < shown[j]
                    /\ \A i \in DOMAIN shown : shown[i] \in 0..(result.rows - 1)
                    /\ shown # <<>> => shown[1] = 0
                    /\ Len(shown) >= 2 => Last(shown) = result.rows - 1
                    /\ sample.sampled <=> Len(shown) < result.rows
<1>5. ASSUME result.rows <= display PROVE Shows
  <2>1. sample = [indices |-> [i \in 1..result.rows |-> i - 1], sampled |-> FALSE]
    BY <1>5 DEF Sample
  <2>2. shown = [i \in 1..result.rows |-> i - 1] /\ sample.sampled = FALSE
    BY <2>1
  <2>3. shown \in [1..result.rows -> Int] /\ Len(shown) = result.rows /\ DOMAIN shown = 1..result.rows
    BY <1>3, <2>2
  <2>4. \A i \in DOMAIN shown : shown[i] = i - 1
    BY <2>2, <2>3
  <2> HIDE DEF shown, sample
  <2> QED
    BY <1>3, <1>5, <2>2, <2>3, <2>4 DEF Least, Last
<1>6. ASSUME result.rows > display PROVE Shows
  <2>1. sample = [indices |-> Spread(result.rows, display), sampled |-> TRUE]
    BY <1>3, <1>6 DEF Sample
  <2>2. shown = Spread(result.rows, display) /\ sample.sampled = TRUE
    BY <2>1
  <2> HIDE DEF shown, sample
  <2>3. /\ shown \in [1..display -> 0..(result.rows - 1)] /\ Len(shown) = display
        /\ \A i, j \in 1..display : i < j => shown[i] < shown[j]
        /\ shown[1] = 0
        /\ display >= 2 => shown[display] = result.rows - 1
    BY <1>3, <1>6, <2>2, SpreadAcross
  <2>4. DOMAIN shown = 1..display
    BY <2>3
  <2> QED
    BY <1>3, <1>6, <2>2, <2>3, <2>4 DEF Least, Last
<1> HIDE DEF shown, sample
<1>7. Shows
  BY <1>5, <1>6, <1>3
<1>8. r.prompt.truncatedNote = (asked > max)
  <2>1. (result.rows > 0 /\ result.truncated) <=> asked > max
    BY <1>1, <1>3 DEF Least
  <2>2. (result.rows > 0 /\ result.truncated) = (asked > max)
    BY <2>1
  <2> QED
    BY <1>4, <2>2
<1>9. asked > max => r.answer.truncationNoted /\ r.answer.rowCount = max
  BY <1>1, <1>3, <1>4 DEF Least
<1>10. r.prompt.sampledNote = IF Len(shown) < result.rows THEN <<Len(shown), result.rows>> ELSE <<>>
  BY <1>4, <1>7
<1>11. r.result = [rows |-> Least(asked, max), truncated |-> asked > max] /\ r.prompt.shown = shown
  BY <1>2, <1>4
<1>12. r.result.rows = result.rows
  BY <1>4
<1>13. RowsAsSaid(statement, available, max, display, noted, r)
  BY <1>7, <1>8, <1>9, <1>10, <1>11, <1>12 DEF RowsAsSaid, asked
<1> QED
  BY <1>13 DEF r

(***************************************************************************)
(* The explanation of an answer (AnswerExplained).                         *)
(***************************************************************************)

\* The warnings of a verdict: none twice, none that says what it should not,
\* and an error among them just if there is a violation.
LEMMA WarnedOf ==
  ASSUME NEW M, NEW v, v.violations \in Seq(M), v.warnings \in Seq(M)
  PROVE  /\ IsInjective(WarningsOf(v))
         /\ \A i \in DOMAIN WarningsOf(v) : WarningsOf(v)[i].message \notin {"blank", "secret", "trace"}
         /\ (\E i \in DOMAIN WarningsOf(v) : WarningsOf(v)[i].severity = "error") <=> v.violations # <<>>
<1> DEFINE N == {Sanitized(m) : m \in M}
           T == [severity : {"error", "warning"}, message : N]
           errors == [i \in DOMAIN v.violations |-> Warning("error", Sanitized(v.violations[i]))]
           others == [i \in DOMAIN v.warnings |-> Warning("warning", Sanitized(v.warnings[i]))]
           s == errors \o others
           w == WarningsOf(v)
<1>1. \A m \in N : m \notin {"blank", "secret", "trace"}
  BY DEF Sanitized
<1>2. \A m \in M : Warning("error", Sanitized(m)) \in T /\ Warning("warning", Sanitized(m)) \in T
  BY DEF Warning
<1>3. \A t \in T : t.message \in N
  OBVIOUS
<1>4. \A m \in M : /\ Warning("error", Sanitized(m)).severity = "error"
                   /\ Warning("warning", Sanitized(m)).severity = "warning"
  BY DEF Warning
<1>5. w = Once(s)
  BY DEF WarningsOf, Each
<1> DEFINE a == Len(v.violations)
           b == Len(v.warnings)
<1>6. /\ a \in Nat /\ b \in Nat /\ DOMAIN v.violations = 1..a /\ DOMAIN v.warnings = 1..b
      /\ \A i \in 1..a : v.violations[i] \in M
      /\ \A i \in 1..b : v.warnings[i] \in M
      /\ v.violations # <<>> <=> a > 0
  OBVIOUS
<1> HIDE DEF N, T, a, b
<1>7. errors \in [1..a -> T] /\ others \in [1..b -> T]
  BY <1>2, <1>6
<1>8. errors \in Seq(T) /\ others \in Seq(T) /\ Len(errors) = a /\ Len(others) = b
  BY <1>6, <1>7, Listed
<1>9. /\ \A i \in 1..a : errors[i].severity = "error"
      /\ \A i \in 1..b : others[i].severity = "warning"
  BY <1>4, <1>6
<1> HIDE DEF errors, others
<1>10. s \in Seq(T) /\ Len(s) = a + b /\ DOMAIN s = 1..(a + b)
  BY <1>8, Joined
<1>11. /\ \A i \in 1..a : s[i] = errors[i]
       /\ \A i \in 1..b : s[a + i] = others[i]
  BY <1>8, Joined
<1> HIDE DEF s, w
<1>12. \A i \in 1..(a + b) : s[i].severity = "error" <=> i <= a
  <2> SUFFICES ASSUME NEW i \in 1..(a + b) PROVE s[i].severity = "error" <=> i <= a
    OBVIOUS
  <2>1. CASE i <= a
    <3>1. i \in 1..a
      BY <1>6, <2>1
    <3> QED
      BY <1>9, <1>11, <2>1, <3>1
  <2>2. CASE i > a
    <3>1. i - a \in 1..b /\ ~(i <= a) /\ i = a + (i - a)
      BY <1>6, <2>2
    <3>2. s[i] = others[i - a]
      BY <1>11, <3>1
    <3>3. s[i].severity = "warning"
      BY <1>9, <3>1, <3>2
    <3> QED
      BY <3>1, <3>3
  <2> QED
    BY <1>6, <2>1, <2>2
<1>13. /\ w \in Seq(T) /\ IsInjective(w)
       /\ \A k \in DOMAIN w : \E i \in DOMAIN s : w[k] = s[i]
       /\ \A i \in DOMAIN s : \E k \in DOMAIN w : w[k] = s[i]
  BY <1>5, <1>10, OnceOfEach
<1>14. \A k \in DOMAIN w : w[k].message \notin {"blank", "secret", "trace"}
  <2>1. \A k \in DOMAIN w : w[k] \in T
    BY <1>13
  <2> QED
    BY <1>1, <1>3, <2>1
<1>15. ASSUME NEW k \in DOMAIN w, w[k].severity = "error" PROVE v.violations # <<>>
  <2>1. PICK i \in 1..(a + b) : w[k] = s[i]
    BY <1>10, <1>13
  <2>2. i <= a
    BY <1>12, <1>15, <2>1
  <2> QED
    BY <1>6, <2>2
<1>16. ASSUME v.violations # <<>> PROVE \E k \in DOMAIN w : w[k].severity = "error"
  <2>1. 1 \in DOMAIN s /\ s[1].severity = "error"
    BY <1>6, <1>10, <1>12, <1>16
  <2> QED
    BY <1>13, <2>1
<1> QED
  BY <1>13, <1>14, <1>15, <1>16 DEF w

\* An ask: what TLC's cases are instances of.
AskIs(ask, T, M) ==
  /\ ask.hybrid \in BOOLEAN /\ ask.stream \in BOOLEAN /\ ask.fallback \in BOOLEAN /\ ask.dryRun \in BOOLEAN
  /\ ask.requested \in {"auto", "sql", "rag", "both", "agent"}
  /\ ask.signals.sql \in Nat /\ ask.signals.rag \in Nat /\ ask.signals.connector \in BOOLEAN
  /\ ask.sources \in Nat
  /\ ask.used \in Seq(T) /\ ask.context \in Seq(T)
  /\ ask.verdict.outcome \in {"absent", "raises", "given"}
  /\ ask.verdict.violations \in Seq(M) /\ ask.verdict.warnings \in Seq(M)

\* What the router says.
LEMMA RouteSaid ==
  ASSUME NEW T, NEW M, NEW ask, AskIs(ask, T, M)
  PROVE  LET route == RouteOf(ask.requested, ask.signals)
         IN  /\ route.route \in {"sql", "rag", "both", "agent"}
             /\ route.confidence \in 0..100
             /\ route.why # Nothing
             /\ ask.requested = "auto" =>
                  /\ route.route \in {"sql", "rag", "both"}
                  /\ route.route \in {"rag", "both"} => ask.signals.rag > 0 \/ ask.signals.connector
                  /\ ask.signals.sql > 0 => route.route \in {"sql", "both"}
<1> DEFINE q == ask.signals
           route == RouteOf(ask.requested, q)
           x == q.sql
           y == q.rag
           c == q.connector
<1>1. x \in Nat /\ y \in Nat /\ c \in BOOLEAN
  BY DEF AskIs
<1>2. CASE ask.requested # "auto"
  <2>1. route = [route |-> ask.requested, confidence |-> 100, why |-> "requested"]
    BY <1>2 DEF RouteOf, Classified
  <2>2. route.route = ask.requested /\ route.confidence = 100 /\ route.why = "requested"
    BY <2>1
  <2>3. ask.requested \in {"sql", "rag", "both", "agent"}
    BY <1>2 DEF AskIs
  <2> QED
    BY <1>2, <2>2, <2>3 DEF Nothing
<1>3. CASE ask.requested = "auto"
  <2>1. route = ByKeywords(q)
    BY <1>3 DEF RouteOf
  <2>2. CASE c \/ (x >= 1 /\ y >= 1)
    <3>1. route = [route |-> "both", confidence |-> UpTo(95, 55 + 10 * (x + y)), why |-> "both"]
      BY <1>1, <2>1, <2>2 DEF ByKeywords, Classified
    <3>2. route.route = "both" /\ route.confidence = UpTo(95, 55 + 10 * (x + y)) /\ route.why = "both"
      BY <3>1
    <3>3. UpTo(95, 55 + 10 * (x + y)) \in 0..100
      BY <1>1 DEF UpTo
    <3> QED
      BY <1>1, <2>2, <3>2, <3>3 DEF Nothing
  <2>3. CASE ~c /\ x = 0 /\ y >= 1
    <3>1. route = [route |-> "rag", confidence |-> UpTo(90, 50 + 10 * y), why |-> "document"]
      BY <1>1, <2>1, <2>3 DEF ByKeywords, Classified
    <3>2. route.route = "rag" /\ route.confidence = UpTo(90, 50 + 10 * y) /\ route.why = "document"
      BY <3>1
    <3>3. UpTo(90, 50 + 10 * y) \in 0..100
      BY <1>1 DEF UpTo
    <3> QED
      BY <1>1, <2>3, <3>2, <3>3 DEF Nothing
  <2>4. CASE ~c /\ x >= 1 /\ y = 0
    <3>1. route = [route |-> "sql", confidence |-> UpTo(90, 50 + 10 * x), why |-> "analytics"]
      BY <1>1, <2>1, <2>4 DEF ByKeywords, Classified
    <3>2. route.route = "sql" /\ route.confidence = UpTo(90, 50 + 10 * x) /\ route.why = "analytics"
      BY <3>1
    <3>3. UpTo(90, 50 + 10 * x) \in 0..100
      BY <1>1 DEF UpTo
    <3> QED
      BY <1>1, <2>4, <3>2, <3>3 DEF Nothing
  <2>5. CASE ~c /\ x = 0 /\ y = 0
    <3>1. route = [route |-> "sql", confidence |-> 45, why |-> "default"]
      BY <1>1, <2>1, <2>5 DEF ByKeywords, Classified
    <3>2. route.route = "sql" /\ route.confidence = 45 /\ route.why = "default"
      BY <3>1
    <3> QED
      BY <1>1, <2>5, <3>2 DEF Nothing
  <2> QED
    BY <1>1, <2>2, <2>3, <2>4, <2>5
<1> QED
  BY <1>2, <1>3

\* The validation of an explanation is what it has been given of it.
LEMMA ValidationSaid ==
  ASSUME NEW T, NEW M, NEW ask, AskIs(ask, T, M)
  PROVE  LET v == ValidationOf(ask.verdict)
             w == IF v = <<>> THEN <<>> ELSE WarningsOf(v[1])
         IN  /\ IsInjective(w)
             /\ \A i \in DOMAIN w : w[i].message \notin {"blank", "secret", "trace"}
             /\ v # <<>> => ((\E i \in DOMAIN w : w[i].severity = "error") <=> v[1].violations # <<>>)
<1> DEFINE v == ValidationOf(ask.verdict)
           w == IF v = <<>> THEN <<>> ELSE WarningsOf(v[1])
<1>1. CASE ask.verdict.outcome = "absent"
  <2>1. v = <<>>
    BY <1>1 DEF ValidationOf
  <2>2. w = <<>>
    BY <2>1
  <2> QED
    BY <2>1, <2>2 DEF IsInjective
<1>2. ASSUME v # <<>>, NEW K, v[1].violations \in Seq(K), v[1].warnings \in Seq(K)
      PROVE  /\ IsInjective(w)
             /\ \A i \in DOMAIN w : w[i].message \notin {"blank", "secret", "trace"}
             /\ (\E i \in DOMAIN w : w[i].severity = "error") <=> v[1].violations # <<>>
  <2>1. w = WarningsOf(v[1])
    BY <1>2
  <2> HIDE DEF v, w
  <2> QED
    BY <1>2, <2>1, WarnedOf
<1>3. CASE ask.verdict.outcome = "raises"
  <2>1. v = <<[violations |-> <<"unavailable">>, warnings |-> <<>>]>>
    BY <1>3 DEF ValidationOf
  <2>a. /\ v # <<>> /\ v[1] = [violations |-> <<"unavailable">>, warnings |-> <<>>]
        /\ <<"unavailable">> \in Seq({"unavailable"}) /\ <<>> \in Seq({"unavailable"})
    BY <2>1
  <2>2. v # <<>> /\ v[1].violations \in Seq({"unavailable"}) /\ v[1].warnings \in Seq({"unavailable"})
    BY <2>a
  <2> HIDE DEF v, w
  <2> QED
    BY <1>2, <2>2 DEF v, w
<1>4. CASE ask.verdict.outcome = "given"
  <2>1. v = <<[violations |-> ask.verdict.violations, warnings |-> ask.verdict.warnings]>>
    BY <1>4 DEF ValidationOf
  <2>2. v # <<>> /\ v[1].violations \in Seq(M) /\ v[1].warnings \in Seq(M)
    BY <2>1 DEF AskIs
  <2> HIDE DEF v, w
  <2> QED
    BY <1>2, <2>2 DEF v, w
<1> QED
  BY <1>1, <1>3, <1>4 DEF AskIs

\* What the two pipelines give, part by part.
LEMMA SqlResultSaid ==
  ASSUME NEW ask
  PROVE  LET r == SqlResult(ask)
             v == ValidationOf(ask.verdict)
             e == r.explanation
         IN  /\ r = [route |-> "sql", sql |-> <<SqlPart(ask)>>, rows |-> IF ask.dryRun THEN "none" ELSE "fetched",
                     sources |-> 0, dryRun |-> ask.dryRun, explanation |-> e]
             /\ e = [route |-> "sql", why |-> Nothing, confidence |-> 0, tables |-> Once(ask.used \o ask.context),
                     selection |-> ask.context, trusted |-> ask.asset, governed |-> ask.governed,
                     validation |-> v, warnings |-> IF v = <<>> THEN <<>> ELSE WarningsOf(v[1]),
                     citations |-> <<>>, dryRun |-> ask.dryRun, executed |-> ~ask.dryRun]
<1> DEFINE request == [route |-> <<>>, sql |-> <<SqlPart(ask)>>, retrieved |-> <<>>,
                       validation |-> ValidationOf(ask.verdict), dryRun |-> ask.dryRun, executed |-> ~ask.dryRun]
<1>1. /\ request.route = <<>> /\ request.sql # <<>> /\ request.sql[1] = SqlPart(ask) /\ request.retrieved = <<>>
      /\ request.validation = ValidationOf(ask.verdict) /\ request.dryRun = ask.dryRun
      /\ request.executed = ~ask.dryRun
  OBVIOUS
<1>2. /\ SqlPart(ask).used = ask.used /\ SqlPart(ask).context = ask.context
      /\ SqlPart(ask).asset = ask.asset /\ SqlPart(ask).governed = ask.governed
  BY DEF SqlPart
<1>3. SqlResult(ask) = [route |-> "sql", sql |-> <<SqlPart(ask)>>, rows |-> IF ask.dryRun THEN "none" ELSE "fetched",
                        sources |-> 0, dryRun |-> ask.dryRun, explanation |-> Explain(request)]
  BY DEF SqlResult
<1> HIDE DEF request
<1>4. Explain(request) =
        [route |-> "sql", why |-> Nothing, confidence |-> 0, tables |-> Once(ask.used \o ask.context),
         selection |-> ask.context, trusted |-> ask.asset, governed |-> ask.governed,
         validation |-> ValidationOf(ask.verdict),
         warnings |-> IF ValidationOf(ask.verdict) = <<>> THEN <<>> ELSE WarningsOf(ValidationOf(ask.verdict)[1]),
         citations |-> <<>>, dryRun |-> ask.dryRun, executed |-> ~ask.dryRun]
  BY <1>1, <1>2 DEF Explain
<1> QED
  BY <1>3, <1>4

\* The sources of an answer are cited from 0 on.
LEMMA CitedSaid ==
  ASSUME NEW n \in Nat
  PROVE  /\ Len(Cited(n)) = n /\ DOMAIN Cited(n) = 1..n
         /\ \A i \in 1..n : Cited(n)[i].source = i
<1>1. Cited(n) = [i \in 1..n |-> [index |-> i - 1, source |-> i]]
  BY DEF Cited
<1>2. Cited(n) \in Seq([index : Int, source : Int])
  BY <1>1
<1> QED
  BY <1>1, <1>2

\* A list of tables starts with those that are used.
LEMMA TablesSaid ==
  ASSUME NEW T, NEW M, NEW ask, AskIs(ask, T, M)
  PROVE  /\ IsInjective(Once(ask.used \o ask.context))
         /\ IsPrefix(Once(ask.used), Once(ask.used \o ask.context))
<1>1. ask.used \in Seq(T) /\ ask.context \in Seq(T)
  BY DEF AskIs
<1> HIDE DEF AskIs
<1>2. ask.used \o ask.context \in Seq(T)
  BY <1>1
<1> QED
  BY <1>1, <1>2, OnceOfEach, OnceBegins

\* The result of the SQL pipeline by itself, or in place of documents.
LEMMA SqlExplained ==
  ASSUME NEW T, NEW M, NEW ask, AskIs(ask, T, M),
         NEW r, r = SqlResult(ask),
         ~ask.hybrid \/ RouteOf(ask.requested, ask.signals).route = "rag"
  PROVE  ExplainsTheResult(ask, r)
<1> DEFINE v == ValidationOf(ask.verdict)
           e == r.explanation
           w == IF v = <<>> THEN <<>> ELSE WarningsOf(v[1])
           chosen == Once(ask.used \o ask.context)
           s == SqlResult(ask)
           x == s.explanation
           Routed == RouteOf(ask.requested, ask.signals).route
<1>0. /\ s = [route |-> "sql", sql |-> <<SqlPart(ask)>>, rows |-> IF ask.dryRun THEN "none" ELSE "fetched",
             sources |-> 0, dryRun |-> ask.dryRun, explanation |-> x]
      /\ x = [route |-> "sql", why |-> Nothing, confidence |-> 0, tables |-> chosen,
              selection |-> ask.context, trusted |-> ask.asset, governed |-> ask.governed,
              validation |-> v, warnings |-> w, citations |-> <<>>, dryRun |-> ask.dryRun, executed |-> ~ask.dryRun]
  BY SqlResultSaid
<1> HIDE DEF v, w, chosen, s, x
<1>1. /\ r.route = "sql" /\ r.sql = <<SqlPart(ask)>> /\ r.rows = (IF ask.dryRun THEN "none" ELSE "fetched")
      /\ r.sources = 0 /\ r.dryRun = ask.dryRun
      /\ e.route = "sql" /\ e.why = Nothing /\ e.confidence = 0 /\ e.tables = chosen
      /\ e.trusted = ask.asset /\ e.governed = ask.governed /\ e.validation = v /\ e.warnings = w
      /\ e.citations = <<>> /\ e.dryRun = ask.dryRun /\ e.executed = ~ask.dryRun
  BY <1>0 DEF s
<1>2. r.sql[1].used = ask.used /\ r.sql[1].asset = ask.asset /\ r.sql[1].governed = ask.governed /\ r.sql # <<>>
  BY <1>1 DEF SqlPart
<1>3. IsInjective(chosen) /\ IsPrefix(Once(ask.used), chosen)
  BY TablesSaid DEF chosen
<1>4. /\ IsInjective(w)
      /\ \A i \in DOMAIN w : w[i].message \notin {"blank", "secret", "trace"}
      /\ v # <<>> => ((\E i \in DOMAIN w : w[i].severity = "error") <=> v[1].violations # <<>>)
  BY ValidationSaid DEF v, w
<1> HIDE DEF e
<1>5. WarnedSafely(ask, r)
  BY <1>1, <1>4 DEF WarnedSafely, e
<1>6. ask.dryRun \in BOOLEAN /\ ask.hybrid \in BOOLEAN
  BY DEF AskIs
<1>7. e.executed <=> r.rows = "fetched"
  BY <1>1, <1>6
<1>8. Len(e.citations) = r.sources /\ \A i \in DOMAIN e.citations : e.citations[i].source = i
  BY <1>1
<1>9. OfItsResult(ask, r)
  BY <1>1, <1>2, <1>3, <1>6, <1>7, <1>8 DEF OfItsResult, e
<1>10. RoutedAsAsked(ask, r)
  <2>1. Routed = "rag" /\ ask.requested = "auto" => ~(ask.signals.sql > 0)
    BY RouteSaid
  <2> QED
    BY <1>1, <1>6, <2>1 DEF RoutedAsAsked
<1> QED
  BY <1>5, <1>9, <1>10 DEF ExplainsTheResult

\* The same on the route of SQL.
LEMMA AmendedExplained ==
  ASSUME NEW T, NEW M, NEW ask, AskIs(ask, T, M), ask.hybrid,
         NEW route, route = RouteOf(ask.requested, ask.signals), route.route = "sql",
         NEW r,
         r = [SqlResult(ask) EXCEPT !.explanation = [@ EXCEPT !.route = "sql", !.why = route.why,
                                                              !.confidence = route.confidence]]
  PROVE  ExplainsTheResult(ask, r)
<1> DEFINE v == ValidationOf(ask.verdict)
           e == r.explanation
           w == IF v = <<>> THEN <<>> ELSE WarningsOf(v[1])
           chosen == Once(ask.used \o ask.context)
           s == SqlResult(ask)
           x == s.explanation
<1>0. /\ s = [route |-> "sql", sql |-> <<SqlPart(ask)>>, rows |-> IF ask.dryRun THEN "none" ELSE "fetched",
             sources |-> 0, dryRun |-> ask.dryRun, explanation |-> x]
      /\ x = [route |-> "sql", why |-> Nothing, confidence |-> 0, tables |-> chosen,
              selection |-> ask.context, trusted |-> ask.asset, governed |-> ask.governed,
              validation |-> v, warnings |-> w, citations |-> <<>>, dryRun |-> ask.dryRun, executed |-> ~ask.dryRun]
  BY SqlResultSaid
<1> HIDE DEF v, w, chosen, s, x
<1> DEFINE y == [x EXCEPT !.route = "sql", !.why = route.why, !.confidence = route.confidence]
<1>b. r = [s EXCEPT !.explanation = y]
  <2>1. s.explanation = x
    BY <1>0
  <2>2. r = [s EXCEPT !.explanation = [@ EXCEPT !.route = "sql", !.why = route.why,
                                                !.confidence = route.confidence]]
    BY DEF s
  <2> QED
    BY <2>1, <2>2
<1>c. /\ y.route = "sql" /\ y.why = route.why /\ y.confidence = route.confidence /\ y.tables = chosen
      /\ y.trusted = ask.asset /\ y.governed = ask.governed /\ y.validation = v /\ y.warnings = w
      /\ y.citations = <<>> /\ y.dryRun = ask.dryRun /\ y.executed = ~ask.dryRun
  BY <1>0
<1> HIDE DEF y
<1>d. /\ r.route = "sql" /\ r.sql = <<SqlPart(ask)>> /\ r.rows = (IF ask.dryRun THEN "none" ELSE "fetched")
      /\ r.sources = 0 /\ r.dryRun = ask.dryRun /\ e = y
  BY <1>0, <1>b
<1> HIDE DEF e
<1>1. /\ r.route = "sql" /\ r.sql = <<SqlPart(ask)>> /\ r.rows = (IF ask.dryRun THEN "none" ELSE "fetched")
      /\ r.sources = 0 /\ r.dryRun = ask.dryRun
      /\ e.route = "sql" /\ e.why = route.why /\ e.confidence = route.confidence /\ e.tables = chosen
      /\ e.trusted = ask.asset /\ e.governed = ask.governed /\ e.validation = v /\ e.warnings = w
      /\ e.citations = <<>> /\ e.dryRun = ask.dryRun /\ e.executed = ~ask.dryRun
  <2>1. e = y
    BY <1>d
  <2>2. /\ e.route = "sql" /\ e.why = route.why /\ e.confidence = route.confidence /\ e.tables = chosen
        /\ e.trusted = ask.asset /\ e.governed = ask.governed /\ e.validation = v /\ e.warnings = w
        /\ e.citations = <<>> /\ e.dryRun = ask.dryRun /\ e.executed = ~ask.dryRun
    BY ONLY <1>c, <2>1
  <2>3. /\ r.route = "sql" /\ r.sql = <<SqlPart(ask)>> /\ r.rows = (IF ask.dryRun THEN "none" ELSE "fetched")
        /\ r.sources = 0 /\ r.dryRun = ask.dryRun
    BY <1>d
  <2> QED
    BY <2>2, <2>3
<1>2. r.sql[1].used = ask.used /\ r.sql[1].asset = ask.asset /\ r.sql[1].governed = ask.governed /\ r.sql # <<>>
  <2> DEFINE given == SqlPart(ask)
  <2>1. given.used = ask.used /\ given.asset = ask.asset /\ given.governed = ask.governed
    BY ONLY DEF SqlPart
  <2> HIDE DEF given
  <2>2. r.sql = <<given>>
    BY ONLY <1>1 DEF given
  <2>3. r.sql[1] = given /\ r.sql # <<>>
    BY ONLY <2>2
  <2> QED
    BY ONLY <2>1, <2>3
<1>3. IsInjective(chosen) /\ IsPrefix(Once(ask.used), chosen)
  BY TablesSaid DEF chosen
<1>4. /\ IsInjective(w)
      /\ \A i \in DOMAIN w : w[i].message \notin {"blank", "secret", "trace"}
      /\ v # <<>> => ((\E i \in DOMAIN w : w[i].severity = "error") <=> v[1].violations # <<>>)
  BY ValidationSaid DEF v, w
<1> HIDE DEF e
<1>5. WarnedSafely(ask, r)
  BY <1>1, <1>4 DEF WarnedSafely, e
<1>6. ask.dryRun \in BOOLEAN /\ ask.hybrid \in BOOLEAN
  BY DEF AskIs
<1>7. e.executed <=> r.rows = "fetched"
  <2>1. CASE ask.dryRun = TRUE
    <3>1. e.executed = FALSE /\ r.rows = "none"
      BY <1>1, <2>1
    <3> QED
      BY <3>1
  <2>2. CASE ask.dryRun = FALSE
    <3>1. e.executed = TRUE /\ r.rows = "fetched"
      BY <1>1, <2>2
    <3> QED
      BY <3>1
  <2> QED
    BY <1>6, <2>1, <2>2
<1>8. Len(e.citations) = r.sources /\ \A i \in DOMAIN e.citations : e.citations[i].source = i
  BY <1>1
<1>a. route.confidence \in 0..100 /\ route.why # Nothing
  BY RouteSaid
<1>9. OfItsResult(ask, r)
  BY <1>1, <1>2, <1>3, <1>6, <1>7, <1>8, <1>a DEF OfItsResult, e
<1>10. RoutedAsAsked(ask, r)
  BY <1>1 DEF RoutedAsAsked
<1> QED
  BY <1>5, <1>9, <1>10 DEF ExplainsTheResult

\* An answer from the documents.
LEMMA RagExplained ==
  ASSUME NEW T, NEW M, NEW ask, AskIs(ask, T, M), ask.hybrid,
         NEW route, route = RouteOf(ask.requested, ask.signals), route.route = "rag",
         NEW r, r = RagResult(ask, route)
  PROVE  ExplainsTheResult(ask, r)
<1> DEFINE e == r.explanation
           request == [route |-> <<route>>, sql |-> <<>>, retrieved |-> <<ask.sources>>,
                       validation |-> <<>>, dryRun |-> FALSE, executed |-> FALSE]
<1>1. /\ r.route = "rag" /\ r.sql = <<>> /\ r.rows = "none" /\ r.sources = ask.sources
      /\ e = Explain(request)
  BY DEF RagResult
<1>2. /\ request.route # <<>> /\ request.route[1] = route /\ request.sql = <<>> /\ request.validation = <<>>
      /\ request.retrieved # <<>> /\ request.retrieved[1] = ask.sources /\ request.executed = FALSE
  OBVIOUS
<1> HIDE DEF e, request
<1>3. /\ e.route = "rag" /\ e.why = route.why /\ e.confidence = route.confidence
      /\ e.tables = <<>> /\ e.trusted = Nothing /\ e.validation = <<>> /\ e.warnings = <<>>
      /\ e.citations = Cited(ask.sources) /\ e.executed = FALSE
  BY <1>1, <1>2 DEF Explain
<1>4. WarnedSafely(ask, r)
  BY <1>1, <1>3 DEF WarnedSafely, IsInjective, e
<1>5. route.confidence \in 0..100 /\ route.why # Nothing /\ ask.sources \in Nat
  BY RouteSaid DEF AskIs
<1>6. Len(e.citations) = r.sources /\ \A i \in DOMAIN e.citations : e.citations[i].source = i
  BY <1>1, <1>3, <1>5, CitedSaid
<1>7. OfItsResult(ask, r)
  BY <1>1, <1>3, <1>5, <1>6 DEF OfItsResult, IsInjective, e
<1>8. RoutedAsAsked(ask, r)
  BY <1>1, RouteSaid DEF RoutedAsAsked
<1> QED
  BY <1>4, <1>7, <1>8 DEF ExplainsTheResult

\* An answer from both.
LEMMA BothExplained ==
  ASSUME NEW T, NEW M, NEW ask, AskIs(ask, T, M), ask.hybrid,
         NEW route, route = RouteOf(ask.requested, ask.signals), route.route \in {"both", "agent"},
         NEW r, r = BothResult(ask, route)
  PROVE  ExplainsTheResult(ask, r)
<1> DEFINE e == r.explanation
           sql == SqlResult(ask)
           request == [route |-> <<route>>, sql |-> sql.sql, retrieved |-> <<ask.sources>>,
                       validation |-> <<>>, dryRun |-> sql.dryRun, executed |-> ~sql.dryRun]
           chosen == Once(ask.used \o ask.context)
<1>0. sql = [route |-> "sql", sql |-> <<SqlPart(ask)>>, rows |-> IF ask.dryRun THEN "none" ELSE "fetched",
             sources |-> 0, dryRun |-> ask.dryRun, explanation |-> sql.explanation]
  BY SqlResultSaid
<1>1. sql.sql = <<SqlPart(ask)>> /\ sql.dryRun = ask.dryRun
  <2> HIDE DEF sql
  <2> QED
    BY <1>0
<1>2. r = [sql EXCEPT !.route = route.route, !.sources = ask.sources, !.dryRun = FALSE,
                      !.explanation = Explain(request)]
  BY DEF BothResult
<1>3. /\ request.route # <<>> /\ request.route[1] = route /\ request.sql = <<SqlPart(ask)>> /\ request.validation = <<>>
      /\ request.retrieved # <<>> /\ request.retrieved[1] = ask.sources /\ request.dryRun = ask.dryRun
      /\ request.executed = ~ask.dryRun
  BY <1>1
<1>4. /\ SqlPart(ask).used = ask.used /\ SqlPart(ask).context = ask.context
      /\ SqlPart(ask).asset = ask.asset /\ SqlPart(ask).governed = ask.governed
  BY DEF SqlPart
<1> HIDE DEF request, sql
<1>5. /\ r.route = route.route /\ r.sources = ask.sources /\ e = Explain(request)
      /\ r.sql = <<SqlPart(ask)>> /\ r.rows = (IF ask.dryRun THEN "none" ELSE "fetched")
  BY <1>0, <1>2
<1> HIDE DEF e
<1>6. request.sql # <<>> /\ request.sql[1] = SqlPart(ask) /\ r.sql # <<>> /\ r.sql[1] = SqlPart(ask)
  BY <1>3, <1>5
<1>7. /\ e.route = route.route /\ e.why = route.why /\ e.confidence = route.confidence
      /\ e.tables = chosen /\ e.trusted = ask.asset /\ e.governed = ask.governed
      /\ e.validation = <<>> /\ e.warnings = <<>>
      /\ e.citations = Cited(ask.sources) /\ e.dryRun = ask.dryRun /\ e.executed = ~ask.dryRun
  BY <1>3, <1>4, <1>5, <1>6 DEF Explain
<1>8. WarnedSafely(ask, r)
  BY <1>5, <1>7 DEF WarnedSafely, IsInjective, e
<1>9. /\ route.confidence \in 0..100 /\ route.why # Nothing /\ ask.sources \in Nat /\ ask.dryRun \in BOOLEAN
  BY RouteSaid DEF AskIs
<1>10. Len(e.citations) = r.sources /\ \A i \in DOMAIN e.citations : e.citations[i].source = i
  BY <1>5, <1>7, <1>9, CitedSaid
<1>11. IsInjective(chosen) /\ IsPrefix(Once(ask.used), chosen)
  BY TablesSaid
<1> HIDE DEF chosen
<1>12. e.executed <=> r.rows = "fetched"
  BY <1>5, <1>7, <1>9
<1>13. OfItsResult(ask, r)
  BY <1>4, <1>5, <1>6, <1>7, <1>9, <1>10, <1>11, <1>12 DEF OfItsResult, e
<1>14. RoutedAsAsked(ask, r)
  BY <1>5, RouteSaid DEF RoutedAsAsked
<1> QED
  BY <1>8, <1>13, <1>14 DEF ExplainsTheResult

\* What ExplainsTheResult says, of every ask: the answer comes from where the
\* question asks it; the explanation names the answer's route, has a citation
\* for each of its sources, in their order, and the tables, asset and filters of
\* its SQL; and on the route of SQL it warns of an error exactly if the verdict
\* has violations.  The numbers of the citations are not compared with those the
\* answer's words cite, and nothing is promised of the warnings of a merged answer
\* but that they are fit to be said: it gets no verdict.
THEOREM AnswersAreExplained ==
  ASSUME NEW T, NEW M, NEW ask, AskIs(ask, T, M)
  PROVE  ExplainsTheResult(ask, ResultOf(ask))
<1> DEFINE route == RouteOf(ask.requested, ask.signals)
           r == ResultOf(ask)
<1>1. /\ ask.hybrid \in BOOLEAN /\ ask.stream \in BOOLEAN /\ ask.fallback \in BOOLEAN
  BY DEF AskIs
<1>2. route.route \in {"sql", "rag", "both", "agent"}
  BY RouteSaid
<1>3. /\ ~ask.hybrid => r = SqlResult(ask)
      /\ ask.hybrid /\ route.route = "sql" =>
           r = [SqlResult(ask) EXCEPT !.explanation = [@ EXCEPT !.route = "sql", !.why = route.why,
                                                                !.confidence = route.confidence]]
      /\ ask.hybrid /\ route.route = "rag" => r = SqlResult(ask) \/ r = RagResult(ask, route)
      /\ ask.hybrid /\ route.route \in {"both", "agent"} => r = BothResult(ask, route)
  BY <1>1, <1>2 DEF ResultOf
<1> HIDE DEF r
<1>4. CASE ~ask.hybrid
  BY <1>3, <1>4, SqlExplained DEF r
<1>5. CASE ask.hybrid /\ route.route = "sql"
  BY <1>3, <1>5, AmendedExplained DEF r
<1>6. CASE ask.hybrid /\ route.route = "rag"
  BY <1>3, <1>6, SqlExplained, RagExplained DEF r
<1>7. CASE ask.hybrid /\ route.route \in {"both", "agent"}
  BY <1>3, <1>7, BothExplained DEF r
<1> QED
  BY <1>1, <1>2, <1>4, <1>5, <1>6, <1>7

(***************************************************************************)
(* Trusted SQL (TrustedSql).                                               *)
(***************************************************************************)
\* A directory whose files list assets of A.
Holding(dir, A) ==
  /\ dir.examples.items \in Seq(A) /\ dir.metrics.items \in Seq(A)
  /\ \A a \in A : a.enabled \in BOOLEAN

\* What is kept of a list are those of it that are enabled.
LEMMA EnabledOnly ==
  ASSUME NEW A, NEW items \in Seq(A)
  PROVE  /\ Enabled(items) \in Seq(A)
         /\ \A a \in A : a \in ToSet(Enabled(items)) <=> a \in ToSet(items) /\ a.enabled
<1> DEFINE S == {i \in DOMAIN items : items[i].enabled}
           n == Cardinality(S)
           up == Ascending(S)
<1>1. DOMAIN items = 1..Len(items) /\ Len(items) \in Nat
  OBVIOUS
<1>2. S \in SUBSET (1..Len(items)) /\ IsFiniteSet(S) /\ S \in SUBSET Int
  <2>1. S \in SUBSET (1..Len(items)) /\ S \in SUBSET Int
    BY <1>1
  <2>2. IsFiniteSet(1..Len(items))
    BY <1>1, FS_Interval
  <2> QED
    BY <2>1, <2>2, FS_Subset
<1>3. /\ n \in Nat /\ up \in [1..n -> S] /\ \A x \in S : \E i \in 1..n : up[i] = x
  BY <1>2, AscendingInOrder
<1>4. Enabled(items) = [k \in 1..n |-> items[up[k]]]
  BY <1>3 DEF Enabled, At
<1>5. \A i \in S : items[i] \in A /\ items[i].enabled /\ i \in DOMAIN items
  BY <1>1
<1>6. \A i \in DOMAIN items : items[i].enabled => i \in S
  OBVIOUS
<1> HIDE DEF S, n, up
<1>7. \A k \in 1..n : up[k] \in S
  BY <1>3
<1>8. Enabled(items) \in [1..n -> A]
  BY <1>4, <1>5, <1>7
<1>9. Enabled(items) \in Seq(A) /\ DOMAIN Enabled(items) = 1..n
  BY <1>3, <1>8
<1>10. ASSUME NEW a \in A, a \in ToSet(Enabled(items)) PROVE a \in ToSet(items) /\ a.enabled
  <2>1. PICK k \in 1..n : a = Enabled(items)[k]
    BY <1>9, <1>10 DEF ToSet
  <2>2. a = items[up[k]]
    BY <1>4, <2>1
  <2> QED
    BY <1>5, <1>7, <2>2 DEF ToSet
<1>11. ASSUME NEW a \in A, a \in ToSet(items), a.enabled PROVE a \in ToSet(Enabled(items))
  <2>1. PICK i \in DOMAIN items : a = items[i]
    BY <1>11 DEF ToSet
  <2>2. PICK k \in 1..n : up[k] = i
    BY <1>3, <1>6, <1>11, <2>1
  <2>3. Enabled(items)[k] = a
    BY <1>4, <2>1, <2>2
  <2> QED
    BY <1>9, <2>3 DEF ToSet
<1> QED
  BY <1>9, <1>10, <1>11

\* The catalog is what is enabled of the files.
LEMMA CatalogOf ==
  ASSUME NEW A, NEW dir, Holding(dir, A)
  PROVE  LET catalog == Catalog(dir)
         IN  /\ catalog.examples \in Seq(A) /\ catalog.metrics \in Seq(A)
             /\ \A a \in A : a \in ToSet(catalog.examples) <=> a \in Assets(dir, "trusted_example") /\ a.enabled
             /\ \A a \in A : a \in ToSet(catalog.metrics) <=> a \in Assets(dir, "trusted_metric") /\ a.enabled
<1>1. Items(dir.examples) \in Seq(A) /\ Items(dir.metrics) \in Seq(A)
  BY DEF Holding, Items
<1>2. /\ Assets(dir, "trusted_example") = ToSet(Items(dir.examples))
      /\ Assets(dir, "trusted_metric") = ToSet(Items(dir.metrics))
  BY DEF Assets
<1>3. /\ Catalog(dir).examples = Enabled(Items(dir.examples))
      /\ Catalog(dir).metrics = Enabled(Items(dir.metrics))
  BY DEF Catalog
<1> QED
  BY <1>1, <1>2, <1>3, EnabledOnly

\* The first that fits is one that fits, where there is one.
LEMMA FirstFits ==
  ASSUME NEW A, NEW catalog, catalog.examples \in Seq(A), catalog.metrics \in Seq(A), NEW fitting
  PROVE  LET f == First(catalog, fitting)
         IN  /\ f # <<>> => \/ f[1] = "trusted_example" /\ f[2] \in ToSet(catalog.examples) \cap fitting
                            \/ f[1] = "trusted_metric" /\ f[2] \in ToSet(catalog.metrics) \cap fitting
             /\ f = <<>> => InCatalog(catalog) \cap fitting = {}
<1> DEFINE e == {i \in DOMAIN catalog.examples : catalog.examples[i] \in fitting}
           m == {i \in DOMAIN catalog.metrics : catalog.metrics[i] \in fitting}
           f == First(catalog, fitting)
<1>1. f = IF e # {} THEN <<"trusted_example", catalog.examples[Min(e)]>>
          ELSE IF m # {} THEN <<"trusted_metric", catalog.metrics[Min(m)]>>
          ELSE <<>>
  BY DEF First
<1>2. e \in SUBSET Nat /\ m \in SUBSET Nat
  OBVIOUS
<1>3. \A i \in e : i \in DOMAIN catalog.examples /\ catalog.examples[i] \in ToSet(catalog.examples) \cap fitting
  BY DEF ToSet
<1>4. \A i \in m : i \in DOMAIN catalog.metrics /\ catalog.metrics[i] \in ToSet(catalog.metrics) \cap fitting
  BY DEF ToSet
<1>5. e = {} /\ m = {} => InCatalog(catalog) \cap fitting = {}
  BY DEF InCatalog, ToSet
<1> HIDE DEF e, m, f
<1>6. /\ e # {} => Min(e) \in e
      /\ m # {} => Min(m) \in m
  <2>1. /\ e # {} => \E x \in e : \A y \in e : x <= y
        /\ m # {} => \E x \in m : \A y \in m : x <= y
    BY <1>2, LeastOf
  <2> QED
    BY <2>1 DEF Min
<1>7. CASE e # {}
  <2>1. f = <<"trusted_example", catalog.examples[Min(e)]>>
    BY <1>1, <1>7
  <2>2. f # <<>> /\ f[1] = "trusted_example" /\ f[2] = catalog.examples[Min(e)]
    BY <2>1
  <2> QED
    BY <1>3, <1>6, <1>7, <2>2 DEF f
<1>8. CASE e = {} /\ m # {}
  <2>1. f = <<"trusted_metric", catalog.metrics[Min(m)]>>
    BY <1>1, <1>8
  <2>2. f # <<>> /\ f[1] = "trusted_metric" /\ f[2] = catalog.metrics[Min(m)]
    BY <2>1
  <2> QED
    BY <1>4, <1>6, <1>8, <2>2 DEF f
<1>9. CASE e = {} /\ m = {}
  <2>1. f = <<>>
    BY <1>1, <1>9
  <2> QED
    BY <1>5, <1>9, <2>1 DEF f
<1> QED
  BY <1>7, <1>8, <1>9

TrustedSources == {"trusted_example", "trusted_metric"}

\* A match names an enabled asset of the files, and how it was found.
NamesAsset(dir, m, A, question, sql, kind) ==
  /\ m.source \in TrustedSources
  /\ \E asset \in A : /\ asset \in Assets(dir, m.source) /\ asset.enabled
                     /\ m.id = asset.id /\ m.sql = asset.sql
                     /\ \/ m.confidence = "question_match"
                        \/ m.confidence = "exact_sql" /\ asset.sql = sql
                        \/ m.confidence = "normalized_sql" /\ SameSql(asset, sql, kind)

\* What an asset that has been found makes of a match.
LEMMA FoundNames ==
  ASSUME NEW A, NEW dir, Holding(dir, A), NEW fitting, NEW f, f = First(Catalog(dir), fitting), f # <<>>,
         NEW question, NEW sql, NEW kind, NEW how,
         \/ how = "question_match"
         \/ how = "exact_sql" /\ f[2].sql = sql
         \/ how = "normalized_sql" /\ SameSql(f[2], sql, kind)
  PROVE  NamesAsset(dir, MatchOf(f[1], f[2], how), A, question, sql, kind)
<1> DEFINE m == MatchOf(f[1], f[2], how)
           catalog == Catalog(dir)
<1>1. /\ catalog.examples \in Seq(A) /\ catalog.metrics \in Seq(A)
      /\ \A a \in A : a \in ToSet(catalog.examples) <=> a \in Assets(dir, "trusted_example") /\ a.enabled
      /\ \A a \in A : a \in ToSet(catalog.metrics) <=> a \in Assets(dir, "trusted_metric") /\ a.enabled
  BY CatalogOf
<1>2. m.source = f[1] /\ m.id = f[2].id /\ m.sql = f[2].sql /\ m.confidence = how
  BY DEF MatchOf
<1>3. ToSet(catalog.examples) \subseteq A /\ ToSet(catalog.metrics) \subseteq A
  BY <1>1 DEF ToSet
<1> HIDE DEF m, catalog
<1>4. \/ f[1] = "trusted_example" /\ f[2] \in ToSet(catalog.examples)
      \/ f[1] = "trusted_metric" /\ f[2] \in ToSet(catalog.metrics)
  BY <1>1, FirstFits DEF catalog
<1>5. f[2] \in A /\ f[2] \in Assets(dir, f[1]) /\ f[2].enabled /\ f[1] \in TrustedSources
  BY <1>1, <1>3, <1>4 DEF TrustedSources
<1>6. NamesAsset(dir, m, A, question, sql, kind)
  BY <1>2, <1>5 DEF NamesAsset
<1> QED
  BY <1>6 DEF m

\* A match names such an asset or is none.
LEMMA MatchNames ==
  ASSUME NEW A, NEW dir, Holding(dir, A), NEW question, NEW sql, NEW kind
  PROVE  LET m == Match(Catalog(dir), question, sql, kind)
         IN  m = NoMatch \/ NamesAsset(dir, m, A, question, sql, kind)
<1> DEFINE catalog == Catalog(dir)
           fits == {a \in InCatalog(catalog) : a.sql = sql \/ SameSql(a, sql, kind)}
           asks == {a \in InCatalog(catalog) : question \in a.phrases}
           f == First(catalog, fits)
           g == First(catalog, asks)
           how == IF f[2].sql = sql THEN "exact_sql" ELSE "normalized_sql"
<1>1. catalog.examples \in Seq(A) /\ catalog.metrics \in Seq(A)
  BY CatalogOf
<1>2. f # <<>> => f[2] \in fits
  <2>1. f # <<>> => \/ f[1] = "trusted_example" /\ f[2] \in ToSet(catalog.examples) \cap fits
                    \/ f[1] = "trusted_metric" /\ f[2] \in ToSet(catalog.metrics) \cap fits
    <3> HIDE DEF catalog, fits
    <3> QED
      BY <1>1, FirstFits
  <2> QED
    BY <2>1
<1>3. MatchSql(catalog, sql, kind) = NoMatch \/ NamesAsset(dir, MatchSql(catalog, sql, kind), A, question, sql, kind)
  <2>1. MatchSql(catalog, sql, kind) = IF f = <<>> THEN NoMatch ELSE MatchOf(f[1], f[2], how)
    BY DEF MatchSql
  <2>2. f # <<>> =>
          \/ how = "exact_sql" /\ f[2].sql = sql
          \/ how = "normalized_sql" /\ SameSql(f[2], sql, kind)
    BY <1>2
  <2> HIDE DEF f, how, fits
  <2>3. f # <<>> => NamesAsset(dir, MatchOf(f[1], f[2], how), A, question, sql, kind)
    BY <2>2, FoundNames DEF f
  <2> QED
    BY <2>1, <2>3
<1>4. MatchQuestion(catalog, question) = NoMatch
      \/ NamesAsset(dir, MatchQuestion(catalog, question), A, question, sql, kind)
  <2>1. MatchQuestion(catalog, question) =
          IF question = Empty \/ g = <<>> THEN NoMatch ELSE MatchOf(g[1], g[2], "question_match")
    BY DEF MatchQuestion
  <2> HIDE DEF g, asks
  <2>2. g # <<>> => NamesAsset(dir, MatchOf(g[1], g[2], "question_match"), A, question, sql, kind)
    BY FoundNames DEF g
  <2> QED
    BY <2>1, <2>2
<1>5. Match(catalog, question, sql, kind) \in {NoMatch, MatchSql(catalog, sql, kind), MatchQuestion(catalog, question)}
  BY DEF Match
<1> HIDE DEF catalog
<1> QED
  BY <1>3, <1>4, <1>5 DEF catalog

\* What GenerateSQLUseCase promises, of all catalogs, requests and texts: what
\* bears the name of a trusted asset is SQL of that asset, or parses to the
\* same, and approved SQL is used when the model is not.
THEOREM TrustedSqlIsApproved ==
  ASSUME NEW A, NEW dir, Holding(dir, A), NEW enabled \in BOOLEAN,
         NEW request, request.useLlm \in BOOLEAN, NEW sql
  PROVE  LET a == Generate(enabled, dir, request, sql)
         IN  TrustedIsApproved(dir, request, sql, a) /\ ApprovedIsUsed(enabled, dir, request, a)
<1> DEFINE catalog == IF enabled THEN Catalog(dir) ELSE [examples |-> <<>>, metrics |-> <<>>]
           asked == Match(catalog, request.question, None, request.kind)
           written == [source |-> "llm", id |-> None, confidence |-> None, sql |-> sql]
           error == [source |-> "error", id |-> None, confidence |-> None, sql |-> None]
           match == Match(catalog, request.question, sql, request.kind)
           verified == Verified(written, match)
           a == Generate(enabled, dir, request, sql)
<1>1. a = IF enabled /\ ~Loads(dir) THEN error
          ELSE IF asked # NoMatch /\ ~request.useLlm THEN asked
          ELSE IF sql = None THEN written
          ELSE verified
  BY DEF Generate
<1>2. \A x : Match([examples |-> <<>>, metrics |-> <<>>], request.question, x, request.kind) = NoMatch
  <2> DEFINE none == [examples |-> <<>>, metrics |-> <<>>]
  <2>1. none.examples = <<>> /\ none.metrics = <<>>
    OBVIOUS
  <2> HIDE DEF none
  <2>2. \A fitting : First(none, fitting) = <<>>
    BY <2>1 DEF First
  <2>3. \A x : MatchSql(none, x, request.kind) = NoMatch /\ MatchQuestion(none, request.question) = NoMatch
    BY <2>2 DEF MatchSql, MatchQuestion
  <2>4. \A x : Match(none, request.question, x, request.kind) = NoMatch
    BY <2>3 DEF Match
  <2> QED
    BY <2>4 DEF none
<1>3. /\ asked = NoMatch \/ NamesAsset(dir, asked, A, request.question, None, request.kind)
      /\ match = NoMatch \/ NamesAsset(dir, match, A, request.question, sql, request.kind)
  <2>1. CASE enabled
    <3>1. catalog = Catalog(dir)
      BY <2>1
    <3> HIDE DEF catalog
    <3> QED
      BY <3>1, MatchNames
  <2>2. CASE ~enabled
    <3>1. catalog = [examples |-> <<>>, metrics |-> <<>>]
      BY <2>2
    <3> HIDE DEF catalog
    <3> QED
      BY <1>2, <3>1
  <2> QED
    BY <2>1, <2>2
<1>4. /\ written.source = "llm" /\ written.sql = sql
      /\ error.source = "error" /\ NoMatch.source = "llm" /\ NoMatch.confidence = "none"
  BY DEF NoMatch, None
<1>5. /\ match.confidence \notin {"exact_sql", "normalized_sql"} => verified = written
      /\ match.confidence \in {"exact_sql", "normalized_sql"} =>
           verified = [source |-> match.source, id |-> match.id, confidence |-> match.confidence, sql |-> sql]
  BY DEF Verified
<1> HIDE DEF asked, written, error, match, verified, a, catalog
<1>6. verified.sql = sql
  <2>1. match.confidence \in {"exact_sql", "normalized_sql"} => verified.sql = sql
    BY <1>5
  <2> QED
    BY <1>4, <1>5, <2>1
<1>7. TrustedIsApproved(dir, request, sql, a)
  <2> DEFINE Named == \E asset \in Assets(dir, a.source) :
                        /\ asset.id = a.id /\ asset.enabled
                        /\ a.sql = asset.sql \/ SameSql(asset, a.sql, request.kind)
  <2>1. request.useLlm /\ a.source # "error" => a.sql = sql
    BY <1>1, <1>4, <1>6
  <2>2. ASSUME a.source \in TrustedSources, a = asked, NamesAsset(dir, asked, A, request.question, None, request.kind)
        PROVE  Named
    BY <2>2 DEF NamesAsset
  <2>3. ASSUME a.source \in TrustedSources, a = verified
        PROVE  Named
    <3>1. match.confidence \in {"exact_sql", "normalized_sql"}
      BY <1>4, <1>5, <2>3 DEF TrustedSources
    <3>2. verified.source = match.source /\ verified.id = match.id /\ verified.sql = sql
      BY <1>5, <3>1
    <3>3. NamesAsset(dir, match, A, request.question, sql, request.kind)
      BY <1>3, <1>4, <3>1
    <3> QED
      BY <2>3, <3>1, <3>2, <3>3 DEF NamesAsset
  <2>4. a.source \in TrustedSources => (a = asked /\ asked # NoMatch) \/ a = verified
    BY <1>1, <1>4 DEF TrustedSources
  <2>5. a.source \in TrustedSources => Named
    <3> HIDE DEF Named
    <3> QED
      BY <1>3, <2>2, <2>3, <2>4
  <2> QED
    BY <2>1, <2>5 DEF TrustedIsApproved, TrustedSources
<1>8. ApprovedIsUsed(enabled, dir, request, a)
  <2> SUFFICES ASSUME enabled, Loads(dir), ~request.useLlm, request.question # Empty,
                      NEW source \in TrustedSources, NEW asset \in Assets(dir, source),
                      asset.enabled, request.question \in asset.phrases
               PROVE  a.source \in TrustedSources
    BY DEF ApprovedIsUsed, TrustedSources
  <2> DEFINE asks == {x \in InCatalog(catalog) : request.question \in x.phrases}
             g == First(catalog, asks)
  <2>1. catalog = Catalog(dir)
    BY DEF catalog
  <2>2. /\ catalog.examples \in Seq(A) /\ catalog.metrics \in Seq(A)
        /\ \A x \in A : x \in ToSet(catalog.examples) <=> x \in Assets(dir, "trusted_example") /\ x.enabled
        /\ \A x \in A : x \in ToSet(catalog.metrics) <=> x \in Assets(dir, "trusted_metric") /\ x.enabled
    BY <2>1, CatalogOf
  <2>3. asset \in A
    <3>1. Items(dir.examples) \in Seq(A) /\ Items(dir.metrics) \in Seq(A)
      BY DEF Holding, Items
    <3> QED
      BY <3>1 DEF Assets, ToSet, TrustedSources
  <2>4. asset \in InCatalog(catalog)
    BY <2>2, <2>3 DEF InCatalog, TrustedSources
  <2>5. asset \in InCatalog(catalog) \cap asks
    BY <2>4
  <2> HIDE DEF asks
  <2>6. g # <<>>
    BY <2>2, <2>5, FirstFits
  <2>7. g[1] \in TrustedSources
    BY <2>2, <2>6, FirstFits DEF TrustedSources
  <2>8. MatchQuestion(catalog, request.question) = MatchOf(g[1], g[2], "question_match")
    BY <2>6 DEF MatchQuestion, asks
  <2> HIDE DEF g
  <2>9. asked = MatchOf(g[1], g[2], "question_match")
    BY <2>8 DEF asked, Match
  <2>10. asked.source = g[1]
    BY <2>9 DEF MatchOf
  <2>11. asked # NoMatch
    BY <1>4, <2>7, <2>10 DEF TrustedSources
  <2> QED
    BY <1>1, <2>7, <2>10, <2>11
<1> QED
  BY <1>7, <1>8 DEF a

(***************************************************************************)
(* The tables and patterns of a context (SchemaContext).                   *)
(***************************************************************************)
\* A schema document: tables of D, each name a number and there once.
References == [to : Nat, exact : BOOLEAN]
Documented(doc, D, E) ==
  /\ doc \in Seq(D)
  /\ \A t \in D : t.name \in Nat /\ t.fks \in Seq(References) /\ t.examples \in Seq(E)
  /\ \A i, j \in 1..Len(doc) : doc[i].name = doc[j].name => i = j

\* The names of a document are finitely many, and each is that of a table.
LEMMA TablesNamed ==
  ASSUME NEW D, NEW E, NEW doc, Documented(doc, D, E)
  PROVE  /\ Names(doc) \in SUBSET Nat /\ IsFiniteSet(Names(doc))
         /\ \A n \in Names(doc) : Table(doc, n) \in D /\ Table(doc, n) \in ToSet(doc) /\ Table(doc, n).name = n
<1>1. doc \in Seq(D) /\ DOMAIN doc = 1..Len(doc) /\ Len(doc) \in Nat /\ \A i \in 1..Len(doc) : doc[i] \in D
  BY DEF Documented
<1>2. ToSet(doc) = {doc[i] : i \in 1..Len(doc)} /\ ToSet(doc) \subseteq D
  BY <1>1 DEF ToSet
<1> DEFINE f == [t \in D |-> t.name]
<1>3. \A t \in ToSet(doc) : f[t] = t.name
  BY <1>2
<1>4. Names(doc) = {f[t] : t \in ToSet(doc)}
  BY <1>3 DEF Names
<1>5. IsFiniteSet(ToSet(doc))
  <2>1. IsFiniteSet(1..Len(doc))
    BY <1>1, FS_Interval
  <2> QED
    BY <1>2, <2>1, ImageFinite
<1>6. IsFiniteSet(Names(doc))
  <2> HIDE DEF f
  <2> QED
    BY <1>4, <1>5, ImageFinite
<1>7. Names(doc) \in SUBSET Nat
  BY <1>2 DEF Names, Documented
<1>8. ASSUME NEW n \in Names(doc) PROVE Table(doc, n) \in ToSet(doc) /\ Table(doc, n).name = n
  <2>1. \E t \in ToSet(doc) : t.name = n
    BY DEF Names
  <2> QED
    BY <2>1 DEF Table
<1> QED
  BY <1>2, <1>6, <1>7, <1>8

\* A score is a number.
LEMMA ScoreIsNumber ==
  ASSUME NEW doc, NEW t, NEW q, IsFiniteSet(q.words)
  PROVE  Score(doc, t, q) \in Int
<1> DEFINE hub == IsHub(doc, t.name)
           a == Cardinality(q.words \cap Indexed(doc, t))
           b == Cardinality(q.words \cap t.words)
           base == BaseScore(doc, hub, t, q)
<1>1. a \in Nat /\ b \in Nat
  <2>1. IsFiniteSet(q.words \cap Indexed(doc, t)) /\ IsFiniteSet(q.words \cap t.words)
    BY FS_Intersection
  <2> QED
    BY <2>1, FS_CardinalityType
<1>2. base = 20 * If(t.name \in q.names, 1) + 5 * a + 6 * b + 4 * (b + If(t.name \in q.names, 1))
             + If(t.domain \in q.words, 4) + If(hub, 3) + If(hub /\ InDegree(doc, t.name) >= 5, 1)
  BY DEF BaseScore
<1> HIDE DEF a, b, base
<1>3. \A c : If(c, 1) \in Int /\ If(c, 3) \in Int /\ If(c, 4) \in Int
  BY DEF If
<1>4. base \in Int
  <2>1. /\ If(t.name \in q.names, 1) \in Int /\ If(t.domain \in q.words, 4) \in Int /\ If(hub, 3) \in Int
        /\ If(hub /\ InDegree(doc, t.name) >= 5, 1) \in Int
    BY DEF If
  <2> QED
    BY <1>1, <1>2, <2>1
<1>5. WithDefault(base, hub) \in Int
  BY <1>4 DEF WithDefault
<1>6. If(t.domain \in q.words, 3) \in Int
  BY DEF If
<1>7. Score(doc, t, q) = WithDefault(base, hub) + If(t.domain \in q.words, 3)
  BY DEF Score, Boosted, base
<1> QED
  BY <1>5, <1>6, <1>7

\* The ranking: all tables with a score, the greatest first.
LEMMA RankedOf ==
  ASSUME NEW D, NEW E, NEW doc, Documented(doc, D, E), NEW q, IsFiniteSet(q.words)
  PROVE  LET r == Ranked(Scores(doc, q))
             n == Cardinality(Scored(doc, q))
         IN  /\ n \in Nat /\ Scored(doc, q) \subseteq Names(doc)
             /\ r \in Seq(Names(doc)) /\ Len(r) = n
             /\ \A i \in 1..n : r[i] \in Scored(doc, q)
             /\ \A i, j \in 1..n :
                  i < j => /\ Score(doc, Table(doc, r[i]), q) >= Score(doc, Table(doc, r[j]), q)
                           /\ r[i] # r[j]
             /\ \A x \in Scored(doc, q) : \E i \in 1..n : r[i] = x
<1> DEFINE S == Scored(doc, q)
           key == Scores(doc, q)
           n == Cardinality(S)
           r == Ranked(key)
<1>1. /\ DOMAIN key = Names(doc)
      /\ \A x \in Names(doc) : key[x] = Score(doc, Table(doc, x), q)
  BY DEF Scores
<1>2. S = ScoredBy(key) /\ S \subseteq Names(doc)
  BY <1>1 DEF Scored, ScoredBy
<1> HIDE DEF key, S
<1>3. Names(doc) \in SUBSET Nat /\ IsFiniteSet(Names(doc))
  BY TablesNamed
<1>4. S \in SUBSET Int /\ IsFiniteSet(S)
  BY <1>2, <1>3, FS_Subset
<1>5. \A x \in S : key[x] \in Int
  BY <1>1, <1>2, ScoreIsNumber
<1>6. r = Best(S, key)
  BY <1>2 DEF Ranked
<1>7. /\ n \in Nat /\ r \in [1..n -> S]
      /\ \A i, j \in 1..n : i < j => key[r[i]] >= key[r[j]] /\ r[i] # r[j]
      /\ \A x \in S : \E i \in 1..n : r[i] = x
  BY <1>4, <1>5, <1>6, BestInOrder
<1> HIDE DEF n, r
<1>8. \A i \in 1..n : r[i] \in S /\ r[i] \in Names(doc) /\ key[r[i]] = Score(doc, Table(doc, r[i]), q)
  BY <1>1, <1>2, <1>7
<1>9. r \in [1..n -> Names(doc)]
  BY <1>7, <1>8
<1>10. r \in Seq(Names(doc)) /\ Len(r) = n
  BY <1>7, <1>9
<1> QED
  BY <1>2, <1>7, <1>8, <1>10 DEF n, r, S, key

\* References to tables of a document, and those that are spelled as they are.
Known(doc) == [to : Names(doc), exact : BOOLEAN]
Exactly(doc) == [to : Names(doc), exact : {TRUE}]

LEMMA Spellings ==
  ASSUME NEW doc, Names(doc) \in SUBSET Nat
  PROVE  /\ \A r \in Exactly(doc) : r \in Known(doc) /\ r.to \in Names(doc) /\ r.exact = TRUE
         /\ \A r \in Known(doc) : r.to \in Names(doc) /\ r.exact \in BOOLEAN
         /\ \A r \in Known(doc) : r.exact = TRUE => r = [to |-> r.to, exact |-> TRUE]
         /\ \A r \in References : r.to \in Names(doc) => r \in Known(doc)
         /\ \A n \in Names(doc) : [to |-> n, exact |-> TRUE] \in Exactly(doc)
<1>1. ASSUME NEW r \in Exactly(doc)
      PROVE  r.to \in Names(doc) /\ r.exact = TRUE /\ r = [to |-> r.to, exact |-> TRUE]
  <2>1. r.to \in Names(doc) /\ r.exact \in {TRUE} /\ r = [to |-> r.to, exact |-> r.exact]
    BY DEF Exactly
  <2>2. r.exact = TRUE
    BY <2>1
  <2> QED
    BY <2>1, <2>2
<1>2. \A n \in Names(doc) : [to |-> n, exact |-> TRUE] \in Known(doc) /\ [to |-> n, exact |-> TRUE] \in Exactly(doc)
  BY DEF Known, Exactly
<1>3. \A r \in Known(doc) : /\ r.to \in Names(doc) /\ r.exact \in BOOLEAN
                            /\ r = [to |-> r.to, exact |-> r.exact]
  BY DEF Known
<1>4. ASSUME NEW r \in References, r.to \in Names(doc) PROVE r \in Known(doc)
  <2>1. r = [to |-> r.to, exact |-> r.exact] /\ r.exact \in BOOLEAN
    BY DEF References
  <2> QED
    BY <1>4, <2>1 DEF Known
<1>5. ASSUME NEW r \in Exactly(doc) PROVE r \in Known(doc)
  <2>1. r.to \in Names(doc) /\ r = [to |-> r.to, exact |-> TRUE]
    BY <1>1
  <2> QED
    BY <1>2, <2>1
<1>6. ASSUME NEW r \in Known(doc), r.exact = TRUE PROVE r = [to |-> r.to, exact |-> TRUE]
  <2>1. r = [to |-> r.to, exact |-> r.exact]
    BY <1>3
  <2> QED
    BY <1>6, <2>1
<1>7. \A r \in Known(doc) : r.to \in Names(doc) /\ r.exact \in BOOLEAN
  BY <1>3
<1>8. \A r \in Exactly(doc) : r \in Known(doc) /\ r.to \in Names(doc) /\ r.exact = TRUE
  BY <1>1, <1>5
<1> QED
  BY <1>2, <1>4, <1>6, <1>7, <1>8

\* The tables selected: the best of the ranking, each once; without any, hubs.
LEMMA SelectedOf ==
  ASSUME NEW D, NEW E, NEW doc, Documented(doc, D, E), NEW q, IsFiniteSet(q.words), NEW max \in Nat
  PROVE  LET s == Selected(doc, q, max)
             r == Ranked(Scores(doc, q))
             n == Cardinality(Scored(doc, q))
         IN  /\ s \in Seq(Exactly(doc))
             /\ IsInjective(s)
             /\ n > 0 /\ max > 0 => /\ Len(s) = IF max < n THEN max ELSE n
                                    /\ \A i \in 1..Len(s) : s[i].to = r[i] /\ i \in 1..n
<1> DEFINE r == Ranked(Scores(doc, q))
           n == Cardinality(Scored(doc, q))
           top == AtMost(r, max)
           hubSet == Hubs(doc) \cap Names(doc)
           up == Ascending(hubSet)
           few == AtMost(up, 5)
           names == OrHubs(doc, top)
           s == Selected(doc, q, max)
<1>1. /\ n \in Nat /\ r \in Seq(Names(doc)) /\ Len(r) = n
      /\ \A i, j \in 1..n : i < j => r[i] # r[j]
  BY RankedOf
<1>2. names = IF top # <<>> THEN top ELSE few
  BY DEF OrHubs
<1>3. s = [i \in DOMAIN names |-> [to |-> names[i], exact |-> TRUE]]
  BY DEF Selected, Spelled
<1> HIDE DEF r, n, s
<1>4. /\ top \in Seq(Names(doc)) /\ Len(top) = IF max < n THEN max ELSE n
      /\ \A i \in 1..Len(top) : top[i] = r[i] /\ i \in 1..n
  BY <1>1, AtMostOf
<1> HIDE DEF top
<1>5. \A i, j \in 1..Len(top) : i < j => top[i] # top[j]
  BY <1>1, <1>4
<1>6. hubSet \in SUBSET Int /\ IsFiniteSet(hubSet) /\ hubSet \subseteq Names(doc)
  <2>1. Names(doc) \in SUBSET Nat /\ IsFiniteSet(Names(doc))
    BY TablesNamed
  <2> QED
    BY <2>1, FS_Subset
<1> HIDE DEF hubSet
<1> DEFINE m == Cardinality(hubSet)
<1>7. /\ m \in Nat /\ up \in [1..m -> hubSet]
      /\ \A i, j \in 1..m : i < j => up[i] < up[j]
  BY <1>6, AscendingInOrder
<1> HIDE DEF up, m
<1>8. up \in Seq(hubSet) /\ Len(up) = m
  BY <1>7
<1>9. /\ few \in Seq(hubSet)
      /\ \A i \in 1..Len(few) : few[i] = up[i] /\ i \in 1..m
  BY <1>8, AtMostOf
<1> HIDE DEF few
<1>10. \A i, j \in 1..Len(few) : i < j => few[i] # few[j]
  <2> SUFFICES ASSUME NEW i \in 1..Len(few), NEW j \in 1..Len(few), i < j PROVE few[i] # few[j]
    OBVIOUS
  <2>1. few[i] = up[i] /\ few[j] = up[j] /\ i \in 1..m /\ j \in 1..m
    BY <1>9
  <2>2. up[i] < up[j] /\ up[i] \in Int /\ up[j] \in Int
    BY <1>6, <1>7, <2>1
  <2> QED
    BY <2>1, <2>2
<1>11. few \in Seq(Names(doc))
  <2>1. few \in [1..Len(few) -> hubSet] /\ Len(few) \in Nat
    BY <1>9
  <2>2. few \in [1..Len(few) -> Names(doc)]
    BY <1>6, <2>1
  <2> QED
    BY <2>1, <2>2
<1>12. names \in Seq(Names(doc)) /\ \A i, j \in 1..Len(names) : i < j => names[i] # names[j]
  BY <1>2, <1>4, <1>5, <1>10, <1>11
<1> HIDE DEF names
<1>13. DOMAIN names = 1..Len(names) /\ Len(names) \in Nat
  BY <1>12
<1>a. Names(doc) \in SUBSET Nat
  BY TablesNamed
<1>14. \A i \in 1..Len(names) : s[i] = [to |-> names[i], exact |-> TRUE]
  BY <1>3, <1>13
<1>15. \A i \in 1..Len(names) : [to |-> names[i], exact |-> TRUE] \in Exactly(doc)
  <2>1. \A i \in 1..Len(names) : names[i] \in Names(doc)
    BY <1>12, Elements
  <2>2. \A x \in Names(doc) : [to |-> x, exact |-> TRUE] \in Exactly(doc)
    BY <1>a, Spellings
  <2> QED
    BY <2>1, <2>2
<1>16. s \in [1..Len(names) -> Exactly(doc)]
  BY <1>3, <1>13, <1>15
<1>17. s \in Seq(Exactly(doc)) /\ DOMAIN s = 1..Len(names) /\ Len(s) = Len(names)
  BY <1>13, <1>16, Listed
<1>18. \A i \in 1..Len(names) : s[i].to = names[i]
  <2> SUFFICES ASSUME NEW i \in 1..Len(names) PROVE s[i].to = names[i]
    OBVIOUS
  <2>1. s[i] = [to |-> names[i], exact |-> TRUE]
    BY <1>14
  <2> QED
    BY <2>1
<1>19. IsInjective(s)
  <2> SUFFICES ASSUME NEW i \in 1..Len(names), NEW j \in 1..Len(names), s[i] = s[j] PROVE i = j
    BY <1>17 DEF IsInjective
  <2>1. names[i] = names[j]
    BY <1>18
  <2>2. ~(i < j) /\ ~(j < i)
    BY <1>12, <2>1
  <2> QED
    BY <1>13, <2>2
<1>20. ASSUME n > 0, max > 0
       PROVE  Len(s) = (IF max < n THEN max ELSE n) /\ \A i \in 1..Len(s) : s[i].to = r[i] /\ i \in 1..n
  <2>1. Len(top) > 0
    BY <1>1, <1>4, <1>20
  <2>2. top # <<>>
    BY <2>1
  <2>3. names = top
    BY <1>2, <2>2
  <2> QED
    BY <1>4, <1>17, <1>18, <2>3
<1> QED
  BY <1>17, <1>19, <1>20 DEF s, r, n

\* The parents: every reference of one of the first tables to a table.
LEMMA ParentsOf ==
  ASSUME NEW D, NEW E, NEW doc, Documented(doc, D, E),
         NEW s \in Seq(Exactly(doc))
  PROVE  LET ps == Parents(doc, s)
         IN  /\ ps \in Seq(Known(doc))
             /\ \A k \in DOMAIN ps : \E t \in ToSet(doc) : ps[k] \in ToSet(t.fks)
             /\ \A i \in 1..SeedLimit : i <= Len(s) =>
                  \A fk \in ToSet(Table(doc, s[i].to).fks) :
                    fk.to \in Names(doc) => \E k \in DOMAIN ps : ps[k] = fk
<1> DEFINE seed == AtMost(s, SeedLimit)
           lists == [i \in DOMAIN seed |-> Table(doc, s[i].to).fks]
           P == {p \in Places(lists) : lists[p[1]][p[2]].to \in Names(doc)}
           ps == Parents(doc, s)
           n == Len(seed)
<1>1. /\ seed \in Seq(Exactly(doc)) /\ n = IF SeedLimit < Len(s) THEN SeedLimit ELSE Len(s)
      /\ \A i \in 1..n : i \in 1..Len(s)
  BY LimitsAssumption, AtMostOf
<1>2. n \in Nat /\ DOMAIN seed = 1..n /\ Len(s) \in Nat
  BY <1>1
<1>3. ps = Within(lists, InPlace(P))
  BY DEF Parents
<1> HIDE DEF seed, n
<1>a. Names(doc) \in SUBSET Nat
  BY TablesNamed
<1>4. \A i \in 1..n : s[i].to \in Names(doc)
  <2>1. \A i \in 1..n : s[i] \in Exactly(doc)
    BY <1>1, Elements
  <2> QED
    BY <1>a, <2>1, Spellings
<1>5. \A i \in 1..n : Table(doc, s[i].to) \in D /\ Table(doc, s[i].to) \in ToSet(doc)
  BY <1>4, TablesNamed
<1>6. DOMAIN lists = 1..n /\ \A i \in 1..n : lists[i] = Table(doc, s[i].to).fks
  BY <1>2
<1> HIDE DEF lists
<1>7. \A i \in 1..n : lists[i] \in Seq(References)
  BY <1>5, <1>6 DEF Documented
<1>8. P \in SUBSET Places(lists)
  OBVIOUS
<1>9. \A p \in Places(lists) : p[1] \in 1..n /\ p[2] \in 1..Len(lists[p[1]]) /\ lists[p[1]][p[2]] \in References
  BY <1>2, <1>6, <1>7, PlacesOf
<1>10. \A i \in 1..n : \A j \in 1..Len(lists[i]) : <<i, j>> \in Places(lists)
  BY <1>2, <1>6, <1>7, PlacesOf
<1>11. \A p \in P : lists[p[1]][p[2]].to \in Names(doc) /\ p \in Places(lists)
  OBVIOUS
<1>12. \A p \in Places(lists) : lists[p[1]][p[2]].to \in Names(doc) => p \in P
  OBVIOUS
<1> HIDE DEF P, ps
<1>13. /\ ps \in Seq(References)
       /\ \A k \in DOMAIN ps : \E p \in P : ps[k] = lists[p[1]][p[2]]
       /\ \A p \in P : \E k \in DOMAIN ps : ps[k] = lists[p[1]][p[2]]
  <2>1. DOMAIN lists = 1..n /\ \A i \in 1..n : lists[i] \in Seq(References)
    BY <1>6, <1>7
  <2>2. /\ Within(lists, InPlace(P)) \in Seq(References)
        /\ \A k \in DOMAIN Within(lists, InPlace(P)) : \E p \in P : Within(lists, InPlace(P))[k] = lists[p[1]][p[2]]
        /\ \A p \in P : \E k \in DOMAIN Within(lists, InPlace(P)) : Within(lists, InPlace(P))[k] = lists[p[1]][p[2]]
    <3>1. \A Q \in SUBSET Places(lists) :
            /\ Within(lists, InPlace(Q)) \in Seq(References)
            /\ \A k \in DOMAIN Within(lists, InPlace(Q)) :
                 \E p \in Q : Within(lists, InPlace(Q))[k] = lists[p[1]][p[2]]
            /\ \A p \in Q :
                 \E k \in DOMAIN Within(lists, InPlace(Q)) : Within(lists, InPlace(Q))[k] = lists[p[1]][p[2]]
      BY <1>2, <2>1, WithinOf
    <3> QED
      BY <1>8, <3>1
  <2> QED
    BY <1>3, <2>2
<1>14. \A r \in References : r.to \in Names(doc) => r \in Known(doc)
  BY <1>a, Spellings
<1>15. \A k \in DOMAIN ps : ps[k] \in Known(doc)
  BY <1>9, <1>11, <1>13, <1>14
<1>16. ps \in Seq(Known(doc))
  <2>1. DOMAIN ps = 1..Len(ps) /\ Len(ps) \in Nat /\ ps \in [1..Len(ps) -> References]
    BY <1>13, Elements
  <2>2. ps \in [1..Len(ps) -> Known(doc)]
    BY <1>15, <2>1
  <2> QED
    BY <2>1, <2>2, Listed
<1>17. ASSUME NEW k \in DOMAIN ps PROVE \E t \in ToSet(doc) : ps[k] \in ToSet(t.fks)
  <2>1. PICK p \in P : ps[k] = lists[p[1]][p[2]]
    BY <1>13
  <2>2. p[1] \in 1..n /\ p[2] \in 1..Len(lists[p[1]])
    BY <1>9, <1>11
  <2>3. ps[k] \in ToSet(lists[p[1]])
    <3>1. p[2] \in DOMAIN lists[p[1]]
      BY <1>7, <2>2
    <3> QED
      BY <2>1, <3>1 DEF ToSet
  <2> QED
    BY <1>5, <1>6, <2>2, <2>3
<1>18. ASSUME NEW i \in 1..SeedLimit, i <= Len(s), NEW fk \in ToSet(Table(doc, s[i].to).fks), fk.to \in Names(doc)
       PROVE  \E k \in DOMAIN ps : ps[k] = fk
  <2>1. i \in 1..n
    BY <1>1, <1>2, <1>18, LimitsAssumption
  <2>2. PICK j \in DOMAIN lists[i] : lists[i][j] = fk
    BY <1>6, <2>1 DEF ToSet
  <2>3. j \in 1..Len(lists[i])
    BY <1>7, <2>1, <2>2
  <2>4. <<i, j>> \in Places(lists)
    BY <1>10, <2>1, <2>3
  <2>5. <<i, j>>[1] = i /\ <<i, j>>[2] = j
    OBVIOUS
  <2>6. <<i, j>> \in P
    BY <1>12, <1>18, <2>2, <2>4, <2>5
  <2> QED
    BY <1>13, <2>2, <2>5, <2>6
<1> QED
  BY <1>16, <1>17, <1>18 DEF ps

\* The tables of a context: those selected, and then parents, as many as fit.
LEMMA ExpandedOf ==
  ASSUME NEW D, NEW E, NEW doc, Documented(doc, D, E),
         NEW s \in Seq(Exactly(doc)), IsInjective(s), NEW max \in Nat
  PROVE  LET x == Expanded(doc, s, max)
             ps == Parents(doc, s)
         IN  /\ x \in Seq(Known(doc)) /\ Len(x) <= max
             /\ IsInjective(x)
             /\ \A k \in 1..Len(s) : k <= max => k \in 1..Len(x) /\ x[k] = s[k]
             /\ \A k \in DOMAIN ps : Len(x) = max \/ \E i \in DOMAIN x : x[i] = ps[k]
             /\ \A i \in DOMAIN x : x[i].exact = TRUE \/ \E t \in ToSet(doc) : x[i] \in ToSet(t.fks)
<1> DEFINE T == Known(doc)
           ps == Parents(doc, s)
           all == s \o ps
           once == Once(all)
           x == Expanded(doc, s, max)
<1>1. ps \in Seq(T) /\ \A k \in DOMAIN ps : \E t \in ToSet(doc) : ps[k] \in ToSet(t.fks)
  BY ParentsOf
<1>2. /\ s \in Seq(T) /\ \A i \in 1..Len(s) : s[i].exact = TRUE
      /\ DOMAIN s = 1..Len(s) /\ Len(s) \in Nat
  <2>1. DOMAIN s = 1..Len(s) /\ Len(s) \in Nat /\ s \in [1..Len(s) -> Exactly(doc)]
    BY Elements
  <2>2. Names(doc) \in SUBSET Nat
    BY TablesNamed
  <2>3. \A i \in 1..Len(s) : s[i] \in T /\ s[i].exact = TRUE
    <3>1. \A i \in 1..Len(s) : s[i] \in Exactly(doc)
      BY Elements
    <3> QED
      BY <2>2, <3>1, Spellings
  <2>4. s \in [1..Len(s) -> T]
    <3> HIDE DEF T
    <3> QED
      BY <2>1, <2>3
  <2>5. s \in Seq(T)
    <3> HIDE DEF T
    <3> QED
      BY <2>1, <2>4, Listed
  <2> QED
    BY <2>1, <2>3, <2>5
<1>3. x = AtMost(once, max)
  BY DEF Expanded
<1> HIDE DEF T, ps, x
<1>4. /\ all \in Seq(T) /\ Len(all) = Len(s) + Len(ps) /\ DOMAIN all = 1..(Len(s) + Len(ps))
      /\ \A i \in 1..Len(s) : all[i] = s[i]
      /\ \A i \in 1..Len(ps) : all[Len(s) + i] = ps[i]
      /\ Len(ps) \in Nat /\ DOMAIN ps = 1..Len(ps)
  BY <1>1, <1>2, Joined
<1> HIDE DEF all
<1>5. /\ once \in Seq(T) /\ IsInjective(once)
      /\ \A k \in DOMAIN once : \E i \in DOMAIN all : once[k] = all[i]
      /\ \A i \in DOMAIN all : \E k \in DOMAIN once : once[k] = all[i]
  BY <1>4, OnceOfEach
<1>6. Len(s) <= Len(once) /\ \A k \in 1..Len(s) : once[k] = s[k]
  BY <1>1, <1>2, OnceKeeps DEF all
<1> HIDE DEF once
<1>7. DOMAIN once = 1..Len(once) /\ Len(once) \in Nat
  BY <1>5
<1>8. /\ x \in Seq(T) /\ Len(x) = IF max < Len(once) THEN max ELSE Len(once)
      /\ \A i \in 1..Len(x) : x[i] = once[i] /\ i \in 1..Len(once)
  BY <1>3, <1>5, AtMostOf
<1>9. DOMAIN x = 1..Len(x) /\ Len(x) \in Nat /\ Len(x) <= max
  BY <1>7, <1>8
<1>10. IsInjective(x)
  <2> SUFFICES ASSUME NEW i \in 1..Len(x), NEW j \in 1..Len(x), x[i] = x[j] PROVE i = j
    BY <1>9 DEF IsInjective
  <2>1. once[i] = once[j] /\ i \in DOMAIN once /\ j \in DOMAIN once
    BY <1>7, <1>8
  <2> QED
    BY <1>5, <2>1 DEF IsInjective
<1>11. ASSUME NEW k \in 1..Len(s), k <= max PROVE k \in 1..Len(x) /\ x[k] = s[k]
  <2>1. k \in 1..Len(x)
    BY <1>2, <1>6, <1>7, <1>8, <1>11
  <2> QED
    BY <1>6, <1>8, <2>1
<1>12. ASSUME NEW k \in DOMAIN ps, Len(x) # max PROVE \E i \in DOMAIN x : x[i] = ps[k]
  <2>1. Len(x) = Len(once)
    BY <1>8, <1>12
  <2>2. Len(s) + k \in DOMAIN all /\ all[Len(s) + k] = ps[k]
    BY <1>2, <1>4
  <2>3. PICK i \in DOMAIN once : once[i] = ps[k]
    BY <1>5, <2>2
  <2>4. i \in 1..Len(x)
    BY <1>7, <2>1
  <2> QED
    BY <1>8, <1>9, <2>3, <2>4
<1>13. ASSUME NEW i \in DOMAIN x PROVE x[i].exact = TRUE \/ \E t \in ToSet(doc) : x[i] \in ToSet(t.fks)
  <2>1. i \in DOMAIN once /\ x[i] = once[i]
    BY <1>7, <1>8, <1>9
  <2>2. PICK k \in DOMAIN all : x[i] = all[k]
    BY <1>5, <2>1
  <2>3. CASE k <= Len(s)
    <3>1. k \in 1..Len(s)
      BY <1>4, <2>3
    <3> QED
      BY <1>2, <1>4, <2>2, <3>1
  <2>4. CASE k > Len(s)
    <3>1. k - Len(s) \in 1..Len(ps) /\ k = Len(s) + (k - Len(s))
      BY <1>2, <1>4, <2>4
    <3>2. x[i] = ps[k - Len(s)]
      BY <1>4, <2>2, <3>1
    <3> QED
      BY <1>1, <1>4, <3>1, <3>2
  <2>5. k <= Len(s) \/ k > Len(s)
    BY <1>2, <1>4
  <2> QED
    BY <2>3, <2>4, <2>5
<1> QED
  BY <1>8, <1>9, <1>10, <1>11, <1>12, <1>13 DEF T, ps, x

\* What the examples of a document can be as those of its tables.
TitledIn(D, E) == {UnderTable(t, e) : t \in D, e \in E}

\* The join patterns of a document: each SQL once.
LEMMA PatternsOf ==
  ASSUME NEW D, NEW E0, NEW doc, Documented(doc, D, E0)
  PROVE  /\ JoinPatterns(doc) \in Seq(TitledIn(D, E0))
         /\ \A i, j \in DOMAIN JoinPatterns(doc) : JoinPatterns(doc)[i].sql = JoinPatterns(doc)[j].sql => i = j
<1> DEFINE E == TitledIn(D, E0)
           lists == [i \in DOMAIN doc |-> OwnExamples(doc[i])]
           Joining(e) == e.kind = "sql" /\ (e.join \/ e.related # {})
           P == {p \in Places(lists) : Joining(lists[p[1]][p[2]])}
           all == Within(lists, InPlace(P))
           texts == [i \in DOMAIN all |-> all[i].sql]
           F == Firsts(texts)
           a == Ascending(F)
           n == Cardinality(F)
           ps == JoinPatterns(doc)
           N == Len(doc)
<1>1. ps = At(all, a)
  BY DEF JoinPatterns
<1>2. /\ doc \in Seq(D) /\ DOMAIN doc = 1..N /\ N \in Nat
      /\ \A i \in 1..N : doc[i] \in D /\ doc[i].examples \in Seq(E0)
  <2>1. doc \in Seq(D) /\ DOMAIN doc = 1..N /\ N \in Nat /\ \A i \in 1..N : doc[i] \in D
    BY Elements DEF Documented
  <2> QED
    BY <2>1 DEF Documented
<1> HIDE DEF ps, N, E
<1>3. DOMAIN lists = 1..N /\ \A i \in 1..N : lists[i] \in Seq(E)
  <2>1. ASSUME NEW i \in 1..N PROVE OwnExamples(doc[i]) \in Seq(E)
    <3>1. doc[i] \in D /\ doc[i].examples \in Seq(E0)
      BY <1>2
    <3> DEFINE ex == doc[i].examples
    <3>2. Len(ex) \in Nat /\ DOMAIN ex = 1..Len(ex) /\ \A j \in 1..Len(ex) : ex[j] \in E0
      BY <3>1, Elements
    <3>3. \A j \in 1..Len(ex) : UnderTable(doc[i], ex[j]) \in E
      BY <3>1, <3>2 DEF E, TitledIn
    <3>4. OwnExamples(doc[i]) = [j \in 1..Len(ex) |-> UnderTable(doc[i], ex[j])]
      BY <3>2 DEF OwnExamples
    <3> HIDE DEF ex
    <3>5. OwnExamples(doc[i]) \in [1..Len(ex) -> E]
      BY <3>3, <3>4
    <3> QED
      BY <3>2, <3>5, Listed
  <2> QED
    BY <1>2, <2>1
<1>4. P \in SUBSET Places(lists)
  OBVIOUS
<1> HIDE DEF P, lists
<1>5. all \in Seq(E)
  <2>1. \A Q \in SUBSET Places(lists) : Within(lists, InPlace(Q)) \in Seq(E)
    BY <1>2, <1>3, WithinOf
  <2> QED
    BY <1>4, <2>1
<1> HIDE DEF all
<1>6. DOMAIN all = 1..Len(all) /\ Len(all) \in Nat /\ \A i \in 1..Len(all) : all[i] \in E
  BY <1>5, Elements
<1> DEFINE U == {e.sql : e \in E}
<1>7. texts \in Seq(U) /\ Len(texts) = Len(all) /\ \A i \in 1..Len(all) : texts[i] = all[i].sql
  <2>1. \A i \in 1..Len(all) : all[i].sql \in U
    BY <1>6
  <2>2. texts \in [1..Len(all) -> U]
    BY <1>6, <2>1
  <2>3. \A i \in 1..Len(all) : texts[i] = all[i].sql
    BY <1>6
  <2> HIDE DEF texts, U
  <2> QED
    BY <1>6, <2>2, <2>3, Listed
<1> HIDE DEF texts, U
<1>8. /\ F \in SUBSET (1..Len(all)) /\ IsFiniteSet(F)
      /\ \A i, j \in F : texts[i] = texts[j] => i = j
  BY <1>7, FirstsOf
<1> HIDE DEF F
<1>9. /\ n \in Nat /\ a \in [1..n -> F]
      /\ \A i, j \in 1..n : i < j => a[i] < a[j]
  <2>1. F \in SUBSET Int
    BY <1>8
  <2> QED
    BY <1>8, <2>1, AscendingInOrder
<1> HIDE DEF a, n
<1>10. ps = [k \in 1..n |-> all[a[k]]]
  BY <1>1, <1>9 DEF At
<1>11. \A k \in 1..n : a[k] \in F /\ a[k] \in 1..Len(all) /\ a[k] \in Int
  <2>1. \A k \in 1..n : a[k] \in F
    BY <1>9
  <2>2. \A x \in F : x \in 1..Len(all) /\ x \in Int
    BY <1>8
  <2> QED
    BY <2>1, <2>2
<1>12. \A k \in 1..n : ps[k] = all[a[k]] /\ all[a[k]] \in E
  BY <1>6, <1>10, <1>11
<1>13. ps \in [1..n -> E]
  BY <1>10, <1>12
<1>14. ps \in Seq(E) /\ DOMAIN ps = 1..n
  BY <1>9, <1>13, Listed
<1>15. ASSUME NEW i \in 1..n, NEW j \in 1..n, ps[i].sql = ps[j].sql PROVE i = j
  <2>1. texts[a[i]] = texts[a[j]]
    BY <1>7, <1>11, <1>12, <1>15
  <2>2. a[i] = a[j]
    BY <1>8, <1>11, <2>1
  <2> QED
    BY <1>9, <1>11, <2>2
<1>16. \A i, j \in DOMAIN ps : ps[i].sql = ps[j].sql => i = j
  BY <1>14, <1>15
<1> QED
  BY <1>14, <1>16 DEF ps, E

\* The patterns chosen: each fits, and none is there twice.
LEMMA FittingOf ==
  ASSUME NEW E, NEW ps \in Seq(E), NEW fits, DOMAIN fits = DOMAIN ps, \A i \in DOMAIN ps : fits[i] \in Int,
         \A i, j \in DOMAIN ps : ps[i].sql = ps[j].sql => i = j
  PROVE  LET c == Fitting(ps, fits)
         IN  /\ \A k \in DOMAIN c : \E i \in DOMAIN ps : c[k] = ps[i] /\ fits[i] > 0
             /\ \A i, j \in DOMAIN c : c[i].sql = c[j].sql => i = j
<1> DEFINE S == {i \in DOMAIN ps : fits[i] > 0}
           b == Best(S, fits)
           few == AtMost(b, 3)
           n == Cardinality(S)
           c == Fitting(ps, fits)
<1>1. DOMAIN ps = 1..Len(ps) /\ Len(ps) \in Nat
  BY Elements
<1>2. S \in SUBSET Int /\ IsFiniteSet(S) /\ \A x \in S : fits[x] \in Int
  <2>1. S \in SUBSET (1..Len(ps)) /\ S \in SUBSET Int /\ \A x \in S : fits[x] \in Int
    BY <1>1
  <2>2. IsFiniteSet(1..Len(ps))
    BY <1>1, FS_Interval
  <2> QED
    BY <2>1, <2>2, FS_Subset
<1>3. c = At(ps, few)
  BY DEF Fitting
<1>4. \A x \in S : x \in DOMAIN ps /\ fits[x] > 0
  OBVIOUS
<1> HIDE DEF S, c
<1>5. /\ n \in Nat /\ b \in [1..n -> S]
      /\ \A i, j \in 1..n : i < j => b[i] # b[j]
  BY <1>2, BestInOrder
<1> HIDE DEF b, n
<1>6. b \in Seq(S) /\ Len(b) = n
  BY <1>5, Listed
<1>7. few \in Seq(S) /\ \A i \in 1..Len(few) : few[i] = b[i] /\ i \in 1..n
  <2>1. 3 \in Nat
    OBVIOUS
  <2>2. /\ AtMost(b, 3) \in Seq(S)
        /\ \A i \in 1..Len(AtMost(b, 3)) : AtMost(b, 3)[i] = b[i] /\ i \in 1..Len(b)
    BY <1>6, <2>1, AtMostOf
  <2> QED
    BY <1>6, <2>2
<1> HIDE DEF few
<1>8. DOMAIN few = 1..Len(few) /\ Len(few) \in Nat /\ \A i \in 1..Len(few) : few[i] \in S
  BY <1>7, Elements
<1>9. DOMAIN c = 1..Len(few) /\ \A k \in 1..Len(few) : c[k] = ps[few[k]]
  BY <1>3, <1>8 DEF At
<1>10. ASSUME NEW i \in 1..Len(few), NEW j \in 1..Len(few), c[i].sql = c[j].sql PROVE i = j
  <2>1. few[i] = few[j]
    BY <1>4, <1>8, <1>9, <1>10
  <2>2. ~(i < j) /\ ~(j < i)
    BY <1>5, <1>7, <2>1
  <2> QED
    BY <1>8, <2>2
<1>11. \A k \in 1..Len(few) : \E i \in DOMAIN ps : c[k] = ps[i] /\ fits[i] > 0
  BY <1>4, <1>8, <1>9
<1> QED
  BY <1>9, <1>10, <1>11 DEF c

\* What SchemaContextBuilder.build promises, of every document, question and
\* number of tables: the context has the tables that score best, their parents
\* if there is room, and patterns that apply.
THEOREM ContextsKept ==
  ASSUME NEW D, NEW E, NEW doc, Documented(doc, D, E), NEW q, IsFiniteSet(q.words), NEW max \in Nat
  PROVE  ContextKeeps(doc, q, max, ContextOf(doc, q, max))
<1> DEFINE s == Selected(doc, q, max)
           x == Expanded(doc, s, max)
           chosen == NamesOf(x)
           c == ContextOf(doc, q, max)
           ps == Parents(doc, s)
           r == Ranked(Scores(doc, q))
           n == Cardinality(Scored(doc, q))
           first == IF n < max THEN n ELSE max
           S(m) == Score(doc, Table(doc, m), q)
<1>0. Names(doc) \in SUBSET Nat
  BY TablesNamed
<1>1. /\ s \in Seq(Exactly(doc)) /\ IsInjective(s)
      /\ n > 0 /\ max > 0 => /\ Len(s) = IF max < n THEN max ELSE n
                             /\ \A i \in 1..Len(s) : s[i].to = r[i] /\ i \in 1..n
  BY SelectedOf
<1>2. c = [tables |-> chosen, joins |-> Joins(doc, q, ToSet(chosen))]
  BY DEF ContextOf, WithJoins
<1>3. c.tables = chosen /\ c.joins = Joins(doc, q, ToSet(chosen))
  BY <1>2
<1>4. /\ n \in Nat /\ Scored(doc, q) \subseteq Names(doc)
      /\ r \in Seq(Names(doc)) /\ Len(r) = n
      /\ \A i \in 1..n : r[i] \in Scored(doc, q)
      /\ \A i, j \in 1..n : i < j => S(r[i]) >= S(r[j]) /\ r[i] # r[j]
      /\ \A y \in Scored(doc, q) : \E i \in 1..n : r[i] = y
  BY RankedOf
<1> HIDE DEF s, r, n, c
<1>5. /\ x \in Seq(Known(doc)) /\ Len(x) <= max
      /\ IsInjective(x)
      /\ \A k \in 1..Len(s) : k <= max => k \in 1..Len(x) /\ x[k] = s[k]
      /\ \A k \in DOMAIN ps : Len(x) = max \/ \E i \in DOMAIN x : x[i] = ps[k]
      /\ \A i \in DOMAIN x : x[i].exact = TRUE \/ \E t \in ToSet(doc) : x[i] \in ToSet(t.fks)
  BY <1>1, ExpandedOf
<1>6. \A i \in 1..SeedLimit : i <= Len(s) =>
        \A fk \in ToSet(Table(doc, s[i].to).fks) :
          fk.to \in Names(doc) => \E k \in DOMAIN ps : ps[k] = fk
  BY <1>1, ParentsOf
<1> HIDE DEF x, ps
<1>7. DOMAIN x = 1..Len(x) /\ Len(x) \in Nat /\ \A i \in 1..Len(x) : x[i] \in Known(doc)
  BY <1>5, Elements
<1>8. \A i \in 1..Len(x) : x[i].to \in Names(doc)
  BY <1>0, <1>7, Spellings
<1>9. chosen \in Seq(Names(doc)) /\ Len(chosen) = Len(x) /\ DOMAIN chosen = 1..Len(x)
      /\ \A i \in 1..Len(x) : chosen[i] = x[i].to
  <2>1. chosen = [i \in 1..Len(x) |-> x[i].to]
    BY <1>7 DEF NamesOf
  <2> HIDE DEF chosen
  <2>2. chosen \in [1..Len(x) -> Names(doc)]
    BY <1>8, <2>1
  <2> QED
    BY <1>7, <2>1, <2>2, Listed
<1> HIDE DEF chosen
<1>10. DOMAIN s = 1..Len(s) /\ Len(s) \in Nat
  BY <1>1, Elements
<1>11. n > 0 /\ max > 0 => \A i \in 1..first : i \in 1..Len(x) /\ chosen[i] = s[i].to /\ chosen[i] = r[i] /\ i \in 1..Len(s)
  <2> SUFFICES ASSUME n > 0, max > 0, NEW i \in 1..first
               PROVE  i \in 1..Len(x) /\ chosen[i] = s[i].to /\ chosen[i] = r[i] /\ i \in 1..Len(s)
    OBVIOUS
  <2>1. i \in 1..Len(s) /\ i <= max /\ s[i].to = r[i]
    <3>1. Len(s) = (IF max < n THEN max ELSE n) /\ \A k \in 1..Len(s) : s[k].to = r[k]
      BY <1>1
    <3>2. i \in 1..Len(s) /\ i <= max
      BY <1>4, <3>1
    <3> QED
      BY <3>1, <3>2
  <2>2. i \in 1..Len(x) /\ x[i] = s[i]
    BY <1>5, <2>1
  <2> QED
    BY <1>9, <2>1, <2>2
<1>12. Fits(doc, max, c)
  <2>1. Len(c.tables) <= max /\ ToSet(c.tables) \subseteq Names(doc)
    BY <1>3, <1>5, <1>8, <1>9 DEF ToSet
  <2>2. ASSUME \A t \in ToSet(doc) : \A fk \in ToSet(t.fks) : fk.exact PROVE IsInjective(chosen)
    <3>1. \A i \in 1..Len(x) : x[i] = [to |-> chosen[i], exact |-> TRUE]
      <4> SUFFICES ASSUME NEW i \in 1..Len(x) PROVE x[i] = [to |-> chosen[i], exact |-> TRUE]
        OBVIOUS
      <4>1. x[i].exact \in BOOLEAN /\ (x[i].exact = TRUE => x[i] = [to |-> x[i].to, exact |-> TRUE])
        BY <1>0, <1>7, Spellings
      <4>2. x[i].exact = TRUE
        BY <1>5, <1>7, <2>2, <4>1
      <4> QED
        BY <1>9, <4>1, <4>2
    <3> SUFFICES ASSUME NEW i \in 1..Len(x), NEW j \in 1..Len(x), chosen[i] = chosen[j] PROVE i = j
      BY <1>9 DEF IsInjective
    <3>2. x[i] = x[j]
      BY <3>1
    <3> QED
      BY <1>5, <1>7, <3>2 DEF IsInjective
  <2> QED
    BY <1>3, <2>1, <2>2 DEF Fits
<1>13. Relevant(doc, q, max, c)
  <2> DEFINE kept == {c.tables[i] : i \in 1..first}
  <2> SUFFICES ASSUME NEW a \in kept, NEW m \in Scored(doc, q) \ kept PROVE S(m) <= S(a)
    BY DEF Relevant, n
  <2>1. PICK i \in 1..first : a = chosen[i]
    BY <1>3
  <2>2. n > 0 /\ max > 0 /\ i <= n /\ i \in 1..n
    BY <1>4, <2>1
  <2>3. a = r[i]
    BY <1>11, <2>1, <2>2
  <2>4. PICK j \in 1..n : r[j] = m
    BY <1>4
  <2>5. j \notin 1..first
    BY <1>3, <1>11, <2>2, <2>4
  <2>6. i < j
    BY <1>4, <2>1, <2>4, <2>5
  <2>7. S(a) >= S(m)
    BY <1>4, <2>2, <2>3, <2>4, <2>6
  <2>8. S(a) \in Int /\ S(m) \in Int
    BY ScoreIsNumber
  <2> HIDE DEF S
  <2> QED
    BY <2>7, <2>8
<1>14. Joinable(doc, q, max, c)
  <2> SUFFICES ASSUME NEW i \in 1..SeedLimit, i <= n, i <= max,
                      NEW fk \in ToSet(Table(doc, c.tables[i]).fks), fk.to \in Names(doc)
               PROVE  fk.to \in ToSet(c.tables) \/ Len(c.tables) = max
    BY DEF Joinable, n
  <2>1. n > 0 /\ max > 0 /\ i \in 1..first
    BY <1>4, LimitsAssumption
  <2>2. chosen[i] = s[i].to /\ i \in 1..Len(s)
    BY <1>11, <2>1
  <2>3. PICK k \in DOMAIN ps : ps[k] = fk
    BY <1>3, <1>6, <1>10, <2>2
  <2>4. ASSUME Len(x) # max PROVE fk.to \in ToSet(chosen)
    <3>1. PICK j \in 1..Len(x) : x[j] = fk
      BY <1>5, <1>7, <2>3, <2>4
    <3> QED
      BY <1>9, <3>1 DEF ToSet
  <2> QED
    BY <1>3, <1>9, <2>4
<1>15. JoinsApply(q, c)
  <2> DEFINE patterns == JoinPatterns(doc)
             fits == [i \in DOMAIN patterns |-> Fit(patterns[i], q, ToSet(chosen))]
             Applies(p) == \/ p.words \cap q.words # {} \/ p.tables \cap ToSet(c.tables) # {}
                           \/ (p.join /\ "join" \in q.words)
  <2>1. /\ patterns \in Seq(TitledIn(D, E))
        /\ \A i, j \in DOMAIN patterns : patterns[i].sql = patterns[j].sql => i = j
    BY PatternsOf
  <2>2. c.joins = Fitting(patterns, fits)
    BY <1>3 DEF Joins, JoinsOf
  <2> HIDE DEF patterns
  <2>3. \A p : Fit(p, q, ToSet(chosen)) \in Int
    BY DEF Fit, If
  <2>4. DOMAIN fits = DOMAIN patterns /\ \A i \in DOMAIN patterns : fits[i] \in Int
    BY <2>3
  <2>5. ASSUME NEW p, Fit(p, q, ToSet(chosen)) > 0 PROVE Applies(p)
    BY <1>3, <2>5 DEF Fit, If
  <2>6. \A i \in DOMAIN patterns : fits[i] > 0 => Applies(patterns[i])
    BY <2>5
  <2> HIDE DEF fits, Applies
  <2>7. /\ \A k \in DOMAIN c.joins : \E i \in DOMAIN patterns : c.joins[k] = patterns[i] /\ fits[i] > 0
        /\ \A i, j \in DOMAIN c.joins : c.joins[i].sql = c.joins[j].sql => i = j
    BY <2>1, <2>2, <2>4, FittingOf
  <2>8. \A p \in ToSet(c.joins) : Applies(p)
    BY <2>6, <2>7 DEF ToSet
  <2> QED
    BY <2>7, <2>8 DEF JoinsApply, Applies
<1>16. ContextKeeps(doc, q, max, c)
  BY <1>12, <1>13, <1>14, <1>15 DEF ContextKeeps
<1> QED
  BY <1>16 DEF c

(***************************************************************************)
(* The chunks of a document (DocumentChunks).                              *)
(***************************************************************************)
\* The least and the greatest position of a part of a text.
LEMMA EndsOf ==
  ASSUME NEW a \in Nat, NEW b \in Int, NEW S \in SUBSET (a..b), S # {}
  PROVE  /\ Min(S) \in S /\ \A x \in S : Min(S) <= x
         /\ Max(S) \in S /\ \A x \in S : x <= Max(S)
<1>1. \E x \in S : \A y \in S : x <= y
  <2>1. S \in SUBSET Nat
    OBVIOUS
  <2> QED
    BY <2>1, LeastOf
<1>2. \E x \in S : \A y \in S : x >= y
  <2> DEFINE Mirror == {m \in Nat : b - m \in S}
  <2>1. \A x \in S : x \in Int /\ b - x \in Nat /\ b - (b - x) = x
    OBVIOUS
  <2>2. Mirror \in SUBSET Nat /\ Mirror # {}
    BY <2>1
  <2>3. PICK m \in Mirror : \A y \in Mirror : m <= y
    BY <2>2, LeastOf
  <2>4. \A x \in S : b - x \in Mirror
    BY <2>1
  <2>5. m \in Nat /\ b - m \in S
    OBVIOUS
  <2>6. \A y \in S : b - m >= y
    <3> TAKE y \in S
    <3>1. m <= b - y
      BY <2>3, <2>4
    <3> QED
      BY <2>1, <2>5, <3>1
  <2> QED
    BY <2>5, <2>6
<1>3. Min(S) \in S /\ \A x \in S : Min(S) <= x
  BY <1>1 DEF Min
<1>4. Max(S) \in S /\ \A x \in S : Max(S) >= x
  BY <1>2 DEF Max
<1>5. \A x \in S : x \in Int
  OBVIOUS
<1> QED
  BY <1>3, <1>4, <1>5

\* What is stripped begins and ends with a character.
LEMMA StrippedOf ==
  ASSUME NEW text, NEW a \in Nat, NEW b \in Int, Solid(text, a, b) # {}
  PROVE  /\ Stripped(text, a, b).first \in a..b /\ text[Stripped(text, a, b).first] \notin White
         /\ Stripped(text, a, b).last \in a..b /\ text[Stripped(text, a, b).last] \notin White
         /\ Stripped(text, a, b).first <= Stripped(text, a, b).last
         /\ \A i \in Solid(text, a, b) : Stripped(text, a, b).first <= i /\ i <= Stripped(text, a, b).last
<1> DEFINE S == Solid(text, a, b)
<1>1. S \in SUBSET (a..b)
  BY DEF Solid
<1>2. \A i \in S : text[i] \notin White
  BY DEF Solid
<1> HIDE DEF S
<1>3. /\ Min(S) \in S /\ \A x \in S : Min(S) <= x
      /\ Max(S) \in S /\ \A x \in S : x <= Max(S)
  <2>1. S # {}
    BY DEF S
  <2> QED
    BY <1>1, <2>1, EndsOf
<1>4. Stripped(text, a, b).first = Min(S) /\ Stripped(text, a, b).last = Max(S)
  BY DEF Stripped, S
<1> QED
  BY <1>1, <1>2, <1>3, <1>4 DEF S

\* A part that begins and ends later has its characters later.
LEMMA StrippedLater ==
  ASSUME NEW text, NEW a \in Nat, NEW b \in Int, NEW c \in Nat, NEW d \in Int, a <= c, b <= d,
         Solid(text, a, b) # {}, Solid(text, c, d) # {}
  PROVE  /\ Stripped(text, a, b).first <= Stripped(text, c, d).first
         /\ Stripped(text, a, b).last <= Stripped(text, c, d).last
<1> DEFINE f == Stripped(text, a, b).first
           l == Stripped(text, a, b).last
           g == Stripped(text, c, d).first
           m == Stripped(text, c, d).last
<1>1. /\ f \in a..b /\ l \in a..b /\ text[f] \notin White /\ text[l] \notin White /\ f <= l
      /\ \A i \in Solid(text, a, b) : f <= i /\ i <= l
  BY StrippedOf
<1>2. /\ g \in c..d /\ m \in c..d /\ text[g] \notin White /\ text[m] \notin White /\ g <= m
      /\ \A i \in Solid(text, c, d) : g <= i /\ i <= m
  BY StrippedOf
<1> HIDE DEF f, l, g, m
<1>3. f <= g
  <2> SUFFICES ASSUME g < f PROVE FALSE
    BY <1>1, <1>2
  <2>1. g \in a..b
    BY <1>1, <1>2
  <2>2. g \in Solid(text, a, b)
    BY <1>2, <2>1 DEF Solid
  <2> QED
    BY <1>1, <1>2, <2>2
<1>4. l <= m
  <2> SUFFICES ASSUME m < l PROVE FALSE
    BY <1>1, <1>2
  <2>1. l \in c..d
    BY <1>1, <1>2
  <2>2. l \in Solid(text, c, d)
    BY <1>1, <2>1 DEF Solid
  <2> QED
    BY <1>1, <1>2, <2>2
<1> QED
  BY <1>3, <1>4 DEF f, l, g, m

\* The end of a line: no line ends between.
LEMMA LineEndOf ==
  ASSUME NEW text, Len(text) \in Nat, NEW i \in 1..Len(text)
  PROVE  /\ LineEnd(text, i) \in i..Len(text)
         /\ \A j \in i..Len(text) : j < LineEnd(text, i) => text[j + 1] # "nl"
         /\ LineEnd(text, i) = Len(text) \/ text[LineEnd(text, i) + 1] = "nl"
<1> DEFINE N == Len(text)
           S == {j \in i..N : j = N \/ text[j + 1] = "nl"}
<1>1. S \in SUBSET (i..N) /\ N \in S
  OBVIOUS
<1>2. LineEnd(text, i) = Min(S)
  BY DEF LineEnd
<1>3. Min(S) \in S /\ \A x \in S : Min(S) <= x
  <2>1. i \in Nat /\ N \in Int
    OBVIOUS
  <2> HIDE DEF S
  <2> QED
    BY <1>1, <2>1, EndsOf
<1>4. \A j \in i..N : j < Min(S) => text[j + 1] # "nl"
  <2> SUFFICES ASSUME NEW j \in i..N, j < Min(S), text[j + 1] = "nl" PROVE FALSE
    OBVIOUS
  <2>1. j \in S
    OBVIOUS
  <2>2. Min(S) <= j /\ Min(S) \in Int
    BY <1>3, <2>1
  <2> QED
    BY <2>2
<1> QED
  BY <1>2, <1>3, <1>4

\* A text with no white space at its ends.
Edged(text, T) ==
  /\ text \in Seq(T) /\ Len(text) \in Nat
  /\ Len(text) > 0 => text[Len(text)] \notin White

LEMMA NormalisedOf ==
  ASSUME NEW T, NEW given \in Seq(T)
  PROVE  Edged(Normalised(given), T)
<1>1. CASE Solid(given, 1, Len(given)) = {}
  BY <1>1 DEF Normalised, Edged
<1>2. CASE Solid(given, 1, Len(given)) # {}
  <2> DEFINE a == Stripped(given, 1, Len(given)).first
             b == Stripped(given, 1, Len(given)).last
             s == SubSeq(given, a, b)
  <2>1. /\ a \in 1..Len(given) /\ b \in 1..Len(given) /\ a <= b /\ given[b] \notin White
        /\ Len(given) \in Nat
    BY <1>2, StrippedOf
  <2>2. Normalised(given) = s
    BY <1>2 DEF Normalised
  <2> HIDE DEF a, b
  <2>3. s \in Seq(T) /\ Len(s) = b - a + 1 /\ s[b - a + 1] = given[b]
    BY <2>1
  <2> HIDE DEF s
  <2>4. Len(s) \in Nat
    BY <2>1, <2>3
  <2> QED
    BY <2>1, <2>2, <2>3, <2>4 DEF Edged
<1> QED
  BY <1>1, <1>2

\* Where the title of a heading is.
LEMMA TitleOf ==
  ASSUME NEW T, NEW text, Edged(text, T), NEW i \in HeadingStarts(text)
  PROVE  /\ i \in 1..(Len(text) - 1) /\ text[i] = "#" /\ LineStart(text, i)
         /\ TitleAfter(text, i).first \in (i + 1)..Len(text)
         /\ HeadingEnd(text, i) = LineEnd(text, TitleAfter(text, i).first)
         /\ HeadingEnd(text, i) \in (i + 1)..Len(text)
<1> DEFINE N == Len(text)
           S == Solid(text, i + 1, N)
           first == Min(S)
<1>1. /\ i \in 1..(N - 1) /\ text[i] = "#" /\ LineStart(text, i)
      /\ N \in Nat /\ text[N] \notin White
  BY DEF HeadingStarts, Edged
<1>2. S \in SUBSET ((i + 1)..N) /\ N \in S /\ \A x \in S : text[x] \notin White
  BY <1>1 DEF Solid
<1> HIDE DEF S
<1>3. first \in S
  <2>1. i + 1 \in Nat /\ N \in Int /\ S # {}
    BY <1>1, <1>2
  <2>2. S \in SUBSET ((i + 1)..N)
    BY <1>2
  <2> HIDE DEF N
  <2> QED
    BY <2>1, <2>2, EndsOf
<1>4. first \in (i + 1)..N /\ text[first] \notin White
  BY <1>2, <1>3
<1>5. TitleAfter(text, i) = Stripped(text, first, LineEnd(text, first))
  BY DEF TitleAfter, S
<1> HIDE DEF first
<1>6. LineEnd(text, first) \in first..N
  <2>1. first \in 1..N
    BY <1>1, <1>4
  <2> QED
    BY <1>1, <2>1, LineEndOf
<1>7. first \in Solid(text, first, LineEnd(text, first))
  BY <1>1, <1>4, <1>6 DEF Solid
<1>8. TitleAfter(text, i).first = first
  <2>1. first \in Nat /\ LineEnd(text, first) \in Int
    BY <1>1, <1>4, <1>6
  <2>2. /\ Stripped(text, first, LineEnd(text, first)).first \in first..LineEnd(text, first)
        /\ Stripped(text, first, LineEnd(text, first)).first <= first
    BY <1>7, <2>1, StrippedOf
  <2> QED
    BY <1>5, <2>1, <2>2
<1>9. HeadingEnd(text, i) = LineEnd(text, TitleAfter(text, i).first)
  BY DEF HeadingEnd
<1>10. HeadingEnd(text, i) \in (i + 1)..N
  <2>1. HeadingEnd(text, i) \in first..N
    BY <1>6, <1>8, <1>9
  <2> QED
    BY <1>1, <1>4, <2>1
<1> QED
  BY <1>1, <1>4, <1>8, <1>9, <1>10

\* The headings that are found from left to right, up to n.
Found(text, n, H) ==
  /\ H \in SUBSET (HeadingStarts(text) \cap 1..n)
  /\ \A i \in HeadingStarts(text) \cap 1..n : i \in H <=> \A h \in H : h < i => HeadingEnd(text, h) < i

LEMMA HeadingsOf ==
  ASSUME NEW text, Len(text) \in Nat
  PROVE  /\ Headings(text) \in SUBSET HeadingStarts(text)
         /\ \A i \in HeadingStarts(text) :
              i \in Headings(text) <=> \A h \in Headings(text) : h < i => HeadingEnd(text, h) < i
<1> DEFINE HS == HeadingStarts(text)
           N == Len(text)
           Missed == {n \in Nat : ~ \E H \in SUBSET HS : Found(text, n, H)}
<1>0. HS \in SUBSET (1..N)
  BY DEF HeadingStarts
<1>1. Missed = {}
  <2> SUFFICES ASSUME Missed # {} PROVE FALSE
    OBVIOUS
  <2>1. PICK n \in Missed : \A m \in Missed : n <= m
    <3>1. Missed \in SUBSET Nat
      OBVIOUS
    <3> HIDE DEF Missed
    <3> QED
      BY <3>1, LeastOf
  <2>2. n # 0
    <3>1. Found(text, 0, {})
      <4>1. 1..0 = {}
        OBVIOUS
      <4> QED
        BY <4>1 DEF Found
    <3> QED
      BY <3>1
  <2>3. n - 1 \in Nat /\ n - 1 \notin Missed
    <3>1. n \in Nat /\ n - 1 \in Nat /\ n - 1 < n
      BY <2>2
    <3>2. \A m \in Missed : m \in Nat
      OBVIOUS
    <3> HIDE DEF Missed
    <3> QED
      BY <2>1, <3>1, <3>2
  <2>4. PICK G \in SUBSET HS : Found(text, n - 1, G)
    BY <2>3
  <2>5. /\ G \in SUBSET (HS \cap 1..(n - 1))
        /\ \A i \in HS \cap 1..(n - 1) : i \in G <=> \A h \in G : h < i => HeadingEnd(text, h) < i
    BY <2>4 DEF Found
  <2>6. n \in Nat /\ n # 0 /\ 1..n = 1..(n - 1) \cup {n} /\ n \notin 1..(n - 1)
    BY <2>2
  <2>7. ~ \E H \in SUBSET HS : Found(text, n, H)
    OBVIOUS
  <2> HIDE DEF Missed
  <2>8. CASE n \in HS /\ \A h \in G : h < n => HeadingEnd(text, h) < n
    <3> DEFINE H == G \cup {n}
    <3>1. H \in SUBSET HS /\ H \in SUBSET (HS \cap 1..n)
      BY <2>5, <2>6, <2>8
    <3>2. \A h \in G : h < n
      BY <2>5, <2>6
    <3>3. \A i \in HS \cap 1..(n - 1) : i \in H <=> \A h \in H : h < i => HeadingEnd(text, h) < i
      <4> TAKE i \in HS \cap 1..(n - 1)
      <4>1. ~(n < i) /\ (i \in H <=> i \in G)
        BY <2>6
      <4> QED
        BY <2>5, <4>1
    <3>4. \A h \in H : h < n => HeadingEnd(text, h) < n
      BY <2>6, <2>8
    <3>5. n \in H
      OBVIOUS
    <3> HIDE DEF H
    <3>6. \A i \in HS \cap 1..n : i \in H <=> \A h \in H : h < i => HeadingEnd(text, h) < i
      BY <2>6, <3>3, <3>4, <3>5
    <3> QED
      BY <2>7, <3>1, <3>6 DEF Found
  <2>9. CASE ~(n \in HS /\ \A h \in G : h < n => HeadingEnd(text, h) < n)
    <3>1. G \in SUBSET (HS \cap 1..n)
      BY <2>5, <2>6
    <3>2. \A i \in HS \cap 1..n : i \in G <=> \A h \in G : h < i => HeadingEnd(text, h) < i
      <4> TAKE i \in HS \cap 1..n
      <4>1. CASE i = n
        <5>1. n \notin G
          BY <2>5, <2>6
        <5> QED
          BY <2>9, <4>1, <5>1
      <4>2. CASE i # n
        BY <2>5, <2>6, <4>2
      <4> QED
        BY <4>1, <4>2
    <3> QED
      BY <2>7, <3>1, <3>2 DEF Found
  <2> QED
    BY <2>8, <2>9
<1>2. PICK H \in SUBSET HS : Found(text, N, H)
  BY <1>1
<1>3. HS \cap 1..N = HS
  BY <1>0
<1>4. H \in SUBSET HS /\ \A i \in HS : i \in H <=> \A h \in H : h < i => HeadingEnd(text, h) < i
  BY <1>2, <1>3 DEF Found
<1> HIDE DEF Missed
<1> QED
  BY <1>4 DEF Headings

\* The section of a heading, or before the first, and its body.
LEMMA SectionOf ==
  ASSUME NEW T, NEW text, Edged(text, T), NEW k \in {0} \cup Headings(text)
  PROVE  /\ Len(text) \in Nat /\ k \in 0..Len(text)
         /\ SectionStart(text, k) \in Nat /\ SectionStart(text, k) >= 1
         /\ SectionStart(text, k) > k /\ SectionEnd(text, Headings(text), k) \in 0..Len(text)
         /\ \A h \in Headings(text) : h > k => SectionEnd(text, Headings(text), k) < h
         /\ \A b \in 1..Len(text) :
              (\A h \in Headings(text) : h > k => b < h) => b <= SectionEnd(text, Headings(text), k)
<1> DEFINE N == Len(text)
           heads == Headings(text)
           later == {h \in heads : h > k}
           end == SectionEnd(text, heads, k)
<1>1. N \in Nat /\ heads \in SUBSET HeadingStarts(text)
  BY HeadingsOf DEF Edged
<1>2. \A h \in heads : h \in 1..(N - 1) /\ HeadingEnd(text, h) \in (h + 1)..N
  BY <1>1, TitleOf
<1>3. end = IF later = {} THEN N ELSE Min(later) - 1
  BY DEF SectionEnd
<1>4. k \in 0..N
  BY <1>1, <1>2
<1>5. SectionStart(text, k) \in Nat /\ SectionStart(text, k) >= 1 /\ SectionStart(text, k) > k
  <2>1. CASE k = 0
    BY <2>1 DEF SectionStart
  <2>2. CASE k # 0
    <3>1. k \in heads
      BY <2>2
    <3>2. SectionStart(text, k) = HeadingEnd(text, k) + 1
      BY <2>2 DEF SectionStart
    <3> QED
      BY <1>1, <1>2, <3>1, <3>2
  <2> QED
    BY <2>1, <2>2
<1>6. later \in SUBSET (1..N) /\ \A h \in later : h \in heads /\ h > k
  BY <1>1, <1>2
<1>7. \A h \in heads : h > k => h \in later
  OBVIOUS
<1> HIDE DEF later, end, heads
<1>8. CASE later = {}
  <2>1. end = N
    BY <1>3, <1>8
  <2> QED
    BY <1>1, <1>4, <1>5, <1>7, <1>8, <2>1 DEF end, heads
<1>9. CASE later # {}
  <2>1. Min(later) \in later /\ \A x \in later : Min(later) <= x
    <3>1. 1 \in Nat /\ N \in Int /\ later \in SUBSET (1..N) /\ later # {}
      BY <1>1, <1>6, <1>9
    <3> HIDE DEF N
    <3> QED
      BY <3>1, EndsOf
  <2>2. end = Min(later) - 1
    BY <1>3, <1>9
  <2>3. Min(later) \in 1..N /\ Min(later) \in heads /\ Min(later) > k
    BY <1>6, <2>1
  <2>4. end \in 0..N
    BY <1>1, <2>2, <2>3
  <2>5. \A h \in heads : h > k => end < h
    <3> TAKE h \in heads
    <3> HAVE h > k
    <3>1. h \in later /\ h \in 1..N
      BY <1>6, <1>7
    <3>2. Min(later) <= h
      BY <2>1, <3>1
    <3> QED
      BY <1>1, <2>2, <2>3, <3>1, <3>2
  <2>6. \A b \in 1..N : (\A h \in heads : h > k => b < h) => b <= end
    <3> TAKE b \in 1..N
    <3> HAVE \A h \in heads : h > k => b < h
    <3>1. b < Min(later)
      BY <2>3
    <3> QED
      BY <1>1, <2>2, <2>3, <3>1
  <2> QED
    BY <1>1, <1>4, <1>5, <2>4, <2>5, <2>6 DEF end, heads
<1> QED
  BY <1>8, <1>9

LEMMA BodyOf ==
  ASSUME NEW T, NEW text, Edged(text, T), NEW k \in Sections(text, Headings(text))
  PROVE  LET body == Body(text, Headings(text), k)
         IN  /\ k \in {0} \cup Headings(text)
             /\ body.first \in 1..Len(text) /\ body.last \in 1..Len(text) /\ body.first <= body.last
             /\ SectionStart(text, k) <= body.first /\ body.last <= SectionEnd(text, Headings(text), k)
             /\ \A i \in Solid(text, SectionStart(text, k), SectionEnd(text, Headings(text), k)) :
                  body.first <= i /\ i <= body.last
<1> DEFINE s == SectionStart(text, k)
           e == SectionEnd(text, Headings(text), k)
           f == Stripped(text, s, e).first
           l == Stripped(text, s, e).last
<1>1. k \in {0} \cup Headings(text) /\ Solid(text, s, e) # {}
  BY DEF Sections
<1>2. Len(text) \in Nat /\ s \in Nat /\ s >= 1 /\ e \in 0..Len(text)
  BY <1>1, SectionOf
<1>3. f \in s..e /\ l \in s..e /\ f <= l /\ \A i \in Solid(text, s, e) : f <= i /\ i <= l
  <2>1. s \in Nat /\ e \in Int /\ Solid(text, s, e) # {}
    BY <1>1, <1>2
  <2> HIDE DEF s, e
  <2> QED
    BY <2>1, StrippedOf
<1>4. Body(text, Headings(text), k) = Stripped(text, s, e)
  BY DEF Body
<1> HIDE DEF f, l, s, e
<1>5. f \in 1..Len(text) /\ l \in 1..Len(text) /\ s <= f /\ l <= e
  BY <1>2, <1>3
<1> QED
  BY <1>1, <1>3, <1>4, <1>5 DEF f, l, s, e

\* Steps lead forward.
LEMMA StepsForward ==
  ASSUME NEW step \in Nat, step >= 1
  PROVE  /\ \A n \in Nat : n * step \in Nat /\ n <= n * step
         /\ \A m, n \in Nat : m < n => m * step <= n * step
         /\ \A n \in Nat : (n + 1) * step = n * step + step
<1>1. \A n \in Nat : n * step \in Nat
  OBVIOUS
<1>2. \A n \in Nat : (n + 1) * step = n * step + step
  OBVIOUS
<1>3. \A n \in Nat : n <= n * step
  OBVIOUS
<1>4. \A m, n \in Nat : m < n => m * step <= n * step
  <2> SUFFICES ASSUME NEW m \in Nat, NEW n \in Nat, m < n PROVE m * step <= n * step
    OBVIOUS
  <2> DEFINE d == n - m
  <2>1. d \in Nat /\ n = m + d
    OBVIOUS
  <2>2. n * step = m * step + d * step
    BY <2>1
  <2>3. d * step \in Nat /\ m * step \in Nat
    BY <2>1
  <2> QED
    BY <2>2, <2>3
<1> QED
  BY <1>1, <1>2, <1>3, <1>4

\* A body within the text.
Whole(text, body) ==
  /\ Len(text) \in Nat
  /\ body.first \in 1..Len(text) /\ body.last \in 1..Len(text) /\ body.first <= body.last

\* The windows of a body lie in it, forward.
LEMMA WindowsOf ==
  ASSUME NEW text, NEW body, Whole(text, body), NEW size \in Nat, size >= 1, NEW step \in Nat, step >= 1,
         NEW n \in Windows(text, body, size, step)
  PROVE  /\ n \in Nat /\ n <= body.last - body.first
         /\ From(body, step, n) \in Nat /\ body.first <= From(body, step, n)
         /\ To(body, size, step, n) \in Int /\ To(body, size, step, n) <= body.last
         /\ To(body, size, step, n) - From(body, step, n) < size
         /\ Solid(text, From(body, step, n), To(body, size, step, n)) # {}
         /\ \A m \in Nat : m < n => /\ From(body, step, m) <= From(body, step, n)
                                    /\ To(body, size, step, m) <= To(body, size, step, n)
<1>1. /\ Len(text) \in Nat /\ body.first \in 1..Len(text) /\ body.last \in 1..Len(text)
      /\ body.first <= body.last
  BY DEF Whole
<1>2. /\ n \in 0..(body.last - body.first)
      /\ Solid(text, From(body, step, n), To(body, size, step, n)) # {}
  BY DEF Windows
<1>3. n \in Nat /\ n <= body.last - body.first /\ n * step \in Nat
  BY <1>1, <1>2, StepsForward
<1>4. From(body, step, n) \in Nat /\ body.first <= From(body, step, n)
  BY <1>1, <1>3 DEF From
<1>5. /\ To(body, size, step, n) \in Int /\ To(body, size, step, n) <= body.last
      /\ To(body, size, step, n) - From(body, step, n) < size
  BY <1>1, <1>4 DEF To
<1>6. ASSUME NEW m \in Nat, m < n
      PROVE  /\ From(body, step, m) <= From(body, step, n)
             /\ To(body, size, step, m) <= To(body, size, step, n)
  <2>1. m * step <= n * step /\ m * step \in Nat
    BY <1>3, <1>6, StepsForward
  <2>2. From(body, step, m) = body.first + m * step /\ From(body, step, n) = body.first + n * step
    BY DEF From
  <2> DEFINE x == m * step
             y == n * step
  <2>3. x <= y /\ x \in Nat /\ y \in Nat /\ From(body, step, m) = body.first + x
        /\ From(body, step, n) = body.first + y
    BY <1>3, <2>1, <2>2
  <2> HIDE DEF x, y
  <2>4. From(body, step, m) <= From(body, step, n) /\ From(body, step, m) \in Nat
    BY <1>1, <2>3
  <2> QED
    BY <1>1, <1>4, <2>4 DEF To
<1> QED
  BY <1>2, <1>3, <1>4, <1>5, <1>6

\* What a window begins and ends with.
Spans(body, size, step, n) ==
  /\ From(body, step, n) \in Nat /\ From(body, step, n) >= body.first + n
  /\ From(body, step, n + 1) = From(body, step, n) + step
  /\ \/ /\ To(body, size, step, n) = body.last
        /\ body.last <= From(body, step, n) + size - 1
     \/ /\ To(body, size, step, n) = From(body, step, n) + size - 1
        /\ To(body, size, step, n) < body.last

LEMMA WindowAt ==
  ASSUME NEW text, NEW body, Whole(text, body), NEW size \in Nat, size >= 1, NEW step \in Nat, step >= 1,
         NEW n \in Nat
  PROVE  Spans(body, size, step, n)
<1>1. Len(text) \in Nat /\ body.first \in 1..Len(text) /\ body.last \in 1..Len(text)
  BY DEF Whole
<1>2. n * step \in Nat /\ n <= n * step /\ (n + 1) * step = n * step + step
  BY StepsForward
<1>3. From(body, step, n) \in Nat /\ From(body, step, n) >= body.first + n
  BY <1>1, <1>2 DEF From
<1>4. From(body, step, n + 1) = From(body, step, n) + step
  BY <1>1, <1>2 DEF From
<1>5. \/ /\ To(body, size, step, n) = body.last
         /\ body.last <= From(body, step, n) + size - 1
      \/ /\ To(body, size, step, n) = From(body, step, n) + size - 1
         /\ To(body, size, step, n) < body.last
  BY <1>1, <1>3 DEF To
<1> QED
  BY <1>3, <1>4, <1>5 DEF Spans

\* Two characters no farther apart than the overlap are in a window together.
LEMMA WindowWith ==
  ASSUME NEW text, NEW body, Whole(text, body), NEW size \in Nat, NEW overlap \in Nat, overlap < size,
         NEW a \in Int, NEW b \in Int, body.first <= a, a <= b, b <= body.last, b - a <= overlap,
         text[a] \notin White
  PROVE  \E n \in Windows(text, body, size, Step(size, overlap)) :
           /\ From(body, Step(size, overlap), n) <= a
           /\ b <= To(body, size, Step(size, overlap), n)
<1> DEFINE step == Step(size, overlap)
           Reaching == {n \in Nat : b <= To(body, size, step, n)}
           all == body.last - body.first
<1>1. /\ Len(text) \in Nat /\ body.first \in 1..Len(text) /\ body.last \in 1..Len(text)
      /\ body.first <= body.last
  BY DEF Whole
<1>2. step \in Nat /\ step >= 1 /\ step = size - overlap /\ size >= 1
  BY DEF Step
<1> HIDE DEF step
<1>3. \A n \in Nat : Spans(body, size, step, n)
  BY <1>2, WindowAt
<1>4. all \in Reaching
  <2>1. all \in Nat
    BY <1>1
  <2>2. Spans(body, size, step, all)
    BY <1>3, <2>1
  <2>3. From(body, step, all) >= body.last /\ From(body, step, all) \in Nat
    BY <1>1, <2>1, <2>2 DEF Spans
  <2>4. To(body, size, step, all) = body.last
    BY <1>1, <1>2, <2>2, <2>3 DEF Spans
  <2> QED
    BY <1>1, <2>1, <2>4
<1>5. PICK n \in Reaching : \A m \in Reaching : n <= m
  <2>1. Reaching \in SUBSET Nat /\ Reaching # {}
    BY <1>4
  <2> HIDE DEF Reaching
  <2> QED
    BY <2>1, LeastOf
<1>6. n \in Nat /\ n <= all /\ b <= To(body, size, step, n)
  BY <1>4, <1>5
<1> DEFINE f == From(body, step, n)
           t == To(body, size, step, n)
<1>7. f \in Nat /\ t \in Int
  <2>1. Spans(body, size, step, n)
    BY <1>3, <1>6
  <2> QED
    BY <1>1, <1>2, <2>1 DEF Spans
<1>8. ASSUME f <= a, n > 0 => To(body, size, step, n - 1) < body.last
      PROVE  n \in Windows(text, body, size, step)
  <2>1. n \in 0..(body.last - body.first)
    BY <1>1, <1>6
  <2>2. a \in f..t
    BY <1>6, <1>7, <1>8
  <2>3. a \in Solid(text, f, t)
    BY <2>2 DEF Solid
  <2> QED
    BY <1>8, <2>1, <2>3 DEF Windows
<1>9. CASE n = 0
  <2>1. f = body.first
    <3>1. 0 * step = 0
      BY <1>2
    <3> QED
      BY <1>1, <1>9, <3>1 DEF From
  <2> HIDE DEF f
  <2>2. n \in Windows(text, body, size, step)
    BY <1>8, <1>9, <2>1
  <2> QED
    BY <1>6, <2>1, <2>2 DEF step, f
<1>10. CASE n # 0
  <2> DEFINE m == n - 1
             g == From(body, step, m)
             u == To(body, size, step, m)
  <2>1. m \in Nat /\ ~(n <= m) /\ m + 1 = n
    BY <1>6, <1>10
  <2>2. m \notin Reaching
    <3> HIDE DEF Reaching, m
    <3> QED
      BY <1>5, <2>1
  <2> HIDE DEF m
  <2>3. /\ g \in Nat /\ From(body, step, m + 1) = g + step
        /\ (u = body.last /\ body.last <= g + size - 1) \/ (u = g + size - 1 /\ u < body.last)
    <3>1. Spans(body, size, step, m)
      BY <1>3, <2>1
    <3> QED
      BY <3>1 DEF Spans
  <2>4. ~(b <= u)
    BY <2>1, <2>2
  <2> HIDE DEF g, u, f
  <2>5. u = g + size - 1 /\ u < body.last /\ u < b
    BY <1>1, <2>3, <2>4
  <2>6. f = g + step
    BY <2>1, <2>3 DEF f
  <2>7. f <= a
    BY <1>2, <2>3, <2>5, <2>6
  <2>8. n \in Windows(text, body, size, step)
    <3>1. To(body, size, step, n - 1) < body.last
      BY <2>5 DEF u, m
    <3> QED
      BY <1>8, <2>7, <3>1
  <2> QED
    BY <1>6, <2>7, <2>8 DEF step, f
<1> QED
  BY <1>9, <1>10

\* The cuts are finitely many: sections and windows are numbered by positions.
LEMMA CutsOf ==
  ASSUME NEW T, NEW text, Edged(text, T), NEW size \in Nat, size >= 1, NEW step \in Nat, step >= 1
  PROVE  /\ \A p \in Cuts(text, Headings(text), size, step) :
              /\ p[1] \in Sections(text, Headings(text))
              /\ p[2] \in Windows(text, Body(text, Headings(text), p[1]), size, step)
         /\ \A k \in Sections(text, Headings(text)) :
              \A n \in Windows(text, Body(text, Headings(text), k), size, step) :
                <<k, n>> \in Cuts(text, Headings(text), size, step)
         /\ Cuts(text, Headings(text), size, step) \in SUBSET (Int \X Int)
         /\ IsFiniteSet(Cuts(text, Headings(text), size, step))
<1> DEFINE heads == Headings(text)
           cuts == Cuts(text, heads, size, step)
           N == Len(text)
<1>1. \A p \in cuts : /\ p = <<p[1], p[2]>> /\ p[1] \in Sections(text, heads)
                      /\ p[2] \in Windows(text, Body(text, heads, p[1]), size, step)
  BY DEF Cuts
<1>2. \A k \in Sections(text, heads) : \A n \in Windows(text, Body(text, heads, k), size, step) : <<k, n>> \in cuts
  BY DEF Cuts
<1>3. N \in Nat
  BY DEF Edged
<1> HIDE DEF cuts
<1>4. \A p \in cuts : p[1] \in 0..N /\ p[2] \in 0..N
  <2> TAKE p \in cuts
  <2>1. p[1] \in {0} \cup heads
    BY <1>1 DEF Sections
  <2>2. p[1] \in 0..N
    BY <2>1, SectionOf
  <2> DEFINE body == Body(text, heads, p[1])
  <2>3. body.first \in 1..N /\ body.last \in 1..N
    BY <1>1, BodyOf
  <2>4. p[2] \in 0..(body.last - body.first)
    BY <1>1 DEF Windows
  <2> HIDE DEF body
  <2>5. p[2] \in 0..N
    BY <1>3, <2>3, <2>4
  <2> QED
    BY <2>2, <2>5
<1>5. cuts \in SUBSET ((0..N) \X (0..N))
  BY <1>1, <1>4
<1>6. IsFiniteSet((0..N) \X (0..N))
  <2>1. IsFiniteSet(0..N)
    BY <1>3, FS_Interval
  <2> QED
    BY <2>1, FS_Product
<1>7. IsFiniteSet(cuts)
  BY <1>5, <1>6, FS_Subset
<1>8. cuts \in SUBSET (Int \X Int)
  BY <1>3, <1>5
<1> QED
  BY <1>1, <1>2, <1>7, <1>8 DEF cuts

\* A chunk lies in its section, is no longer than it may be and begins and ends
\* with a character.
InSection(text, k, size, c) ==
  /\ c.first \in 1..Len(text) /\ c.last \in 1..Len(text) /\ c.first <= c.last
  /\ c.last - c.first < size
  /\ text[c.first] \notin White /\ text[c.last] \notin White
  /\ SectionStart(text, k) <= c.first /\ c.last <= SectionEnd(text, Headings(text), k)

LEMMA CutFits ==
  ASSUME NEW T, NEW text, Edged(text, T), NEW size \in Nat, size >= 1, NEW step \in Nat, step >= 1,
         NEW p \in Cuts(text, Headings(text), size, step)
  PROVE  InSection(text, p[1], size, ChunkAt(text, Headings(text), size, step, p).text)
<1> DEFINE body == Body(text, Headings(text), p[1])
           f == From(body, step, p[2])
           t == To(body, size, step, p[2])
           c == Stripped(text, f, t)
           s == SectionStart(text, p[1])
           e == SectionEnd(text, Headings(text), p[1])
<1>1. /\ p[1] \in Sections(text, Headings(text)) /\ p[2] \in Windows(text, body, size, step)
  BY CutsOf
<1>2. ChunkAt(text, Headings(text), size, step, p).text = c
  BY DEF ChunkAt
<1>3. /\ body.first \in 1..Len(text) /\ body.last \in 1..Len(text) /\ body.first <= body.last
      /\ s <= body.first /\ body.last <= e
      /\ p[1] \in {0} \cup Headings(text)
  BY <1>1, BodyOf
<1>4. Len(text) \in Nat
  BY DEF Edged
<1>5. s \in Nat /\ e \in 0..Len(text)
  BY <1>3, SectionOf
<1>6. Whole(text, body)
  BY <1>3, <1>4 DEF Whole
<1> HIDE DEF body, s, e
<1>7. /\ f \in Nat /\ body.first <= f /\ t \in Int /\ t <= body.last /\ t - f < size
      /\ Solid(text, f, t) # {}
  BY <1>1, <1>6, WindowsOf
<1> HIDE DEF f, t
<1>8. c.first \in f..t /\ c.last \in f..t /\ c.first <= c.last /\ text[c.first] \notin White /\ text[c.last] \notin White
  BY <1>7, StrippedOf
<1> HIDE DEF c
<1>9. c.first \in 1..Len(text) /\ c.last \in 1..Len(text) /\ c.last - c.first < size
  BY <1>3, <1>4, <1>7, <1>8
<1>10. s <= c.first /\ c.last <= e
  BY <1>3, <1>4, <1>5, <1>7, <1>8
<1>11. InSection(text, p[1], size, c)
  BY <1>8, <1>9, <1>10 DEF InSection, s, e
<1> QED
  BY <1>2, <1>11

\* Of two cuts, what the first gives begins and ends no later.
LEMMA CutsForward ==
  ASSUME NEW T, NEW text, Edged(text, T), NEW size \in Nat, size >= 1, NEW step \in Nat, step >= 1,
         NEW p \in Cuts(text, Headings(text), size, step), NEW q \in Cuts(text, Headings(text), size, step),
         p[1] < q[1] \/ (p[1] = q[1] /\ p[2] < q[2])
  PROVE  LET c == ChunkAt(text, Headings(text), size, step, p).text
             d == ChunkAt(text, Headings(text), size, step, q).text
         IN  c.first <= d.first /\ c.last <= d.last
<1> DEFINE heads == Headings(text)
           c == ChunkAt(text, heads, size, step, p).text
           d == ChunkAt(text, heads, size, step, q).text
<1>1. InSection(text, p[1], size, c) /\ InSection(text, q[1], size, d)
  BY CutFits
<1>2. /\ p[1] \in Sections(text, heads) /\ p[2] \in Windows(text, Body(text, heads, p[1]), size, step)
      /\ q[1] \in Sections(text, heads) /\ q[2] \in Windows(text, Body(text, heads, q[1]), size, step)
  BY CutsOf
<1>3. p[1] \in {0} \cup heads /\ q[1] \in {0} \cup heads
  BY <1>2 DEF Sections
<1>4. CASE p[1] < q[1]
  <2>1. Len(text) \in Nat /\ p[1] \in 0..Len(text) /\ q[1] \in 0..Len(text) /\ q[1] \in heads
    <3>1. Len(text) \in Nat /\ p[1] \in 0..Len(text) /\ q[1] \in 0..Len(text)
      BY <1>3, SectionOf
    <3> QED
      BY <1>3, <1>4, <3>1
  <2>2. SectionEnd(text, heads, p[1]) < q[1] /\ SectionEnd(text, heads, p[1]) \in Int
    BY <1>3, <1>4, <2>1, SectionOf
  <2>3. q[1] < SectionStart(text, q[1]) /\ SectionStart(text, q[1]) \in Nat
    BY <1>3, SectionOf
  <2>4. c.first \in Int /\ c.last \in Int /\ c.first <= c.last /\ c.last <= SectionEnd(text, heads, p[1])
    BY <1>1, <2>1 DEF InSection
  <2>5. d.first \in Int /\ d.last \in Int /\ d.first <= d.last /\ SectionStart(text, q[1]) <= d.first
    BY <1>1, <2>1 DEF InSection
  <2> HIDE DEF c, d
  <2>6. c.first <= d.first /\ c.last <= d.last
    BY <2>1, <2>2, <2>3, <2>4, <2>5
  <2> QED
    BY <2>6 DEF c, d
<1>5. CASE p[1] = q[1] /\ p[2] < q[2]
  <2> DEFINE body == Body(text, heads, q[1])
             f == From(body, step, p[2])
             t == To(body, size, step, p[2])
             g == From(body, step, q[2])
             u == To(body, size, step, q[2])
  <2>1. c = Stripped(text, f, t) /\ d = Stripped(text, g, u)
    BY <1>5 DEF ChunkAt
  <2>2. Whole(text, body)
    <3>1. /\ body.first \in 1..Len(text) /\ body.last \in 1..Len(text) /\ body.first <= body.last
      BY <1>2, BodyOf
    <3> QED
      BY <3>1 DEF Whole, Edged
  <2>3. p[2] \in Windows(text, body, size, step) /\ q[2] \in Windows(text, body, size, step)
    BY <1>2, <1>5
  <2> HIDE DEF body
  <2>4. f \in Nat /\ t \in Int /\ Solid(text, f, t) # {} /\ p[2] \in Nat
    BY <2>2, <2>3, WindowsOf
  <2>5. g \in Nat /\ u \in Int /\ Solid(text, g, u) # {} /\ f <= g /\ t <= u
    BY <1>5, <2>2, <2>3, <2>4, WindowsOf
  <2> HIDE DEF f, t, g, u, c, d
  <2>6. c.first <= d.first /\ c.last <= d.last
    BY <2>1, <2>4, <2>5, StrippedLater
  <2> QED
    BY <2>6 DEF c, d
<1> QED
  BY <1>4, <1>5

\* What is under a heading: no part of the lines of a heading.
Under(text) == Solid(text, 1, Len(text)) \ OfHeading(text)

\* What fits in the overlap and one more is whole in some chunk.
LEMMA CutWith ==
  ASSUME NEW T, NEW text, Edged(text, T), NEW size \in Nat, NEW overlap \in Nat, overlap < size,
         NEW a \in Under(text), NEW b \in Under(text), a <= b, b - a <= overlap,
         HeadingStarts(text) \cap a..b = {}
  PROVE  \E p \in Cuts(text, Headings(text), size, Step(size, overlap)) :
           Holds(ChunkAt(text, Headings(text), size, Step(size, overlap), p), a, b)
<1> DEFINE heads == Headings(text)
           N == Len(text)
           step == Step(size, overlap)
           S == {h \in {0} \cup heads : h <= a}
           k == Max(S)
<1>1. /\ N \in Nat /\ a \in 1..N /\ b \in 1..N /\ text[a] \notin White /\ text[b] \notin White
      /\ \A h \in HeadingStarts(text) : a \notin h..HeadingEnd(text, h)
  BY DEF Edged, Under, Solid, OfHeading
<1>2. heads \in SUBSET HeadingStarts(text) /\ \A h \in heads : h \in 1..N /\ HeadingEnd(text, h) \in 1..N
  <2>1. heads \in SUBSET HeadingStarts(text)
    BY <1>1, HeadingsOf
  <2>2. \A h \in heads : h \in 1..(N - 1) /\ HeadingEnd(text, h) \in (h + 1)..N
    BY <2>1, TitleOf
  <2> QED
    BY <1>1, <2>1, <2>2
<1>3. step \in Nat /\ step >= 1 /\ size >= 1
  BY DEF Step
<1> HIDE DEF heads, step
<1>4. k \in S /\ \A h \in S : h <= k
  <2>1. S \in SUBSET (0..N) /\ 0 \in S
    BY <1>1, <1>2
  <2>2. 0 \in Nat /\ N \in Int /\ S # {}
    BY <1>1, <2>1
  <2> HIDE DEF S, N
  <2> QED
    BY <2>1, <2>2, EndsOf
<1> HIDE DEF k
<1>5. k \in {0} \cup heads /\ k <= a /\ k \in Int
  BY <1>1, <1>2, <1>4
<1>6. \A h \in heads : h > k => b < h
  <2> TAKE h \in heads
  <2> HAVE h > k
  <2>1. h \in Int /\ h \notin S
    <3>1. h \in Int /\ ~(h <= k)
      BY <1>2, <1>5
    <3> HIDE DEF S
    <3> QED
      BY <1>4, <3>1
  <2>2. ~(h <= a)
    BY <2>1
  <2>3. h \notin a..b
    BY <1>2
  <2> QED
    BY <1>1, <2>1, <2>2, <2>3
<1> HIDE DEF S
<1> DEFINE s == SectionStart(text, k)
           e == SectionEnd(text, heads, k)
<1>7. s \in Nat /\ s >= 1 /\ e \in 0..N /\ b <= e
  BY <1>1, <1>5, <1>6, SectionOf DEF heads
<1>8. s <= a
  <2>1. CASE k = 0
    BY <1>1, <2>1 DEF SectionStart
  <2>2. CASE k # 0
    <3>1. k \in heads /\ s = HeadingEnd(text, k) + 1
      BY <1>5, <2>2 DEF SectionStart
    <3>2. a \notin k..HeadingEnd(text, k) /\ HeadingEnd(text, k) \in 1..N
      BY <1>1, <1>2, <3>1
    <3> HIDE DEF s
    <3> QED
      BY <1>1, <1>5, <3>1, <3>2
  <2> QED
    BY <2>1, <2>2
<1> HIDE DEF s, e
<1>9. a \in Solid(text, s, e) /\ b \in Solid(text, s, e)
  BY <1>1, <1>7, <1>8 DEF Solid
<1>10. k \in Sections(text, heads)
  BY <1>5, <1>9 DEF Sections, s, e
<1> DEFINE body == Body(text, heads, k)
<1>11. /\ body.first \in 1..N /\ body.last \in 1..N /\ body.first <= body.last
       /\ body.first <= a /\ b <= body.last
  BY <1>9, <1>10, BodyOf DEF s, e, heads
<1>12. Whole(text, body)
  BY <1>1, <1>11 DEF Whole
<1> HIDE DEF body
<1>13. PICK n \in Windows(text, body, size, step) : From(body, step, n) <= a /\ b <= To(body, size, step, n)
  <2>1. a \in Int /\ b \in Int
    BY <1>1
  <2>2. \E n \in Windows(text, body, size, Step(size, overlap)) :
          From(body, Step(size, overlap), n) <= a /\ b <= To(body, size, Step(size, overlap), n)
    BY <1>1, <1>11, <1>12, <2>1, WindowWith
  <2> QED
    BY <2>2 DEF step
<1> DEFINE p == <<k, n>>
           f == From(body, step, n)
           t == To(body, size, step, n)
<1>14. p \in Cuts(text, heads, size, step)
  BY <1>3, <1>10, <1>13, CutsOf DEF body, heads
<1>15. ChunkAt(text, heads, size, step, p).text = Stripped(text, f, t)
  BY DEF ChunkAt, body
<1>16. f \in Nat /\ t \in Int /\ f <= a /\ b <= t
  BY <1>3, <1>12, <1>13, WindowsOf
<1> HIDE DEF p, f, t
<1>17. a \in Solid(text, f, t) /\ b \in Solid(text, f, t)
  BY <1>1, <1>16 DEF Solid
<1>18. Stripped(text, f, t).first <= a /\ b <= Stripped(text, f, t).last
  BY <1>16, <1>17, StrippedOf
<1>19. Holds(ChunkAt(text, heads, size, step, p), a, b)
  BY <1>15, <1>18 DEF Holds
<1> QED
  BY <1>14, <1>19 DEF heads, step

\* Where the title is on the line of its #, no heading swallows another.
LEMMA EveryHeading ==
  ASSUME NEW T, NEW text, Edged(text, T),
         \A i \in HeadingStarts(text) : LineEnd(text, i) >= TitleAfter(text, i).first
  PROVE  Headings(text) = HeadingStarts(text)
<1> DEFINE N == Len(text)
<1>1. N \in Nat
  BY DEF Edged
<1>2. ASSUME NEW i \in HeadingStarts(text), NEW j \in HeadingStarts(text), i < j
      PROVE  HeadingEnd(text, i) < j
  <2> DEFINE first == TitleAfter(text, i).first
             end == HeadingEnd(text, i)
  <2>1. /\ i \in 1..(N - 1) /\ text[i] = "#" /\ first \in (i + 1)..N /\ end = LineEnd(text, first)
        /\ first <= LineEnd(text, i)
    BY TitleOf
  <2>2. j \in 1..(N - 1) /\ LineStart(text, j)
    BY TitleOf
  <2>3. text[j - 1] = "nl"
    BY <1>1, <1>2, <2>1, <2>2 DEF LineStart
  <2>4. j - 1 # i
    BY <2>1, <2>3
  <2> DEFINE m == j - 2
  <2>5. m \in i..N /\ m + 1 = j - 1 /\ text[m + 1] = "nl"
    BY <1>1, <1>2, <2>1, <2>2, <2>3, <2>4
  <2>6. LineEnd(text, i) \in i..N /\ ~(m < LineEnd(text, i))
    <3>1. i \in 1..N
      BY <1>1, <2>1
    <3> HIDE DEF m
    <3> QED
      BY <1>1, <2>5, <3>1, LineEndOf
  <2>7. m \in first..N
    BY <1>1, <2>1, <2>2, <2>5, <2>6
  <2>8. end \in first..N /\ ~(m < end)
    <3>1. first \in 1..N
      BY <1>1, <2>1
    <3> HIDE DEF m, first
    <3> QED
      BY <1>1, <2>1, <2>5, <2>7, <3>1, LineEndOf
  <2>9. end < j
    <3> HIDE DEF end, first
    <3> QED
      BY <1>1, <2>1, <2>2, <2>5, <2>8
  <2> QED
    BY <2>9
<1>3. /\ Headings(text) \in SUBSET HeadingStarts(text)
      /\ \A i \in HeadingStarts(text) :
           i \in Headings(text) <=> \A h \in Headings(text) : h < i => HeadingEnd(text, h) < i
  BY <1>1, HeadingsOf
<1> QED
  BY <1>2, <1>3

\* A chunk that bears the title of the heading before it.
Titled(text, chunk) ==
  LET above == {i \in HeadingStarts(text) : i < chunk.text.first}
  IN  /\ HeadingStarts(text) \cap chunk.text.first..chunk.text.last = {}
      /\ chunk.section = IF above = {} THEN NoTitle ELSE TitleAfter(text, Max(above))

\* Then a chunk is under the heading whose title it bears.
LEMMA CutTitled ==
  ASSUME NEW T, NEW text, Edged(text, T), NEW size \in Nat, size >= 1, NEW step \in Nat, step >= 1,
         \A i \in HeadingStarts(text) : LineEnd(text, i) >= TitleAfter(text, i).first,
         NEW p \in Cuts(text, Headings(text), size, step)
  PROVE  Titled(text, ChunkAt(text, Headings(text), size, step, p))
<1> DEFINE heads == HeadingStarts(text)
           c == ChunkAt(text, Headings(text), size, step, p)
           f == c.text.first
           l == c.text.last
           above == {i \in heads : i < f}
           k == p[1]
           N == Len(text)
<1>1. Headings(text) = heads
  BY EveryHeading
<1>2. InSection(text, k, size, c.text)
  BY CutFits
<1>3. k \in {0} \cup Headings(text)
  BY CutsOf DEF Sections
<1>4. /\ N \in Nat /\ k \in 0..N /\ SectionStart(text, k) \in Nat /\ SectionStart(text, k) > k
      /\ SectionEnd(text, Headings(text), k) \in 0..N
      /\ \A h \in Headings(text) : h > k => SectionEnd(text, Headings(text), k) < h
  BY <1>3, SectionOf
<1>5. /\ f \in 1..N /\ l \in 1..N /\ f <= l
      /\ SectionStart(text, k) <= f /\ l <= SectionEnd(text, Headings(text), k)
  BY <1>2 DEF InSection
<1>6. c.section = Title(text, k)
  BY DEF ChunkAt
<1>7. \A h \in heads : h \in 1..N
  BY <1>4 DEF HeadingStarts
<1> HIDE DEF c, k, heads
<1>8. k < f
  BY <1>4, <1>5
<1>9. \A h \in heads : h > k => l < h
  <2> TAKE h \in heads
  <2> HAVE h > k
  <2>1. SectionEnd(text, Headings(text), k) < h /\ h \in 1..N
    BY <1>1, <1>4, <1>7
  <2> QED
    BY <1>4, <1>5, <2>1
<1>10. \A h \in heads : h \in above <=> h <= k
  <2> TAKE h \in heads
  <2>1. h \in 1..N /\ (h > k => l < h)
    BY <1>7, <1>9
  <2> QED
    BY <1>4, <1>5, <1>8, <2>1
<1>11. heads \cap f..l = {}
  <2> SUFFICES ASSUME NEW h \in heads, h \in f..l PROVE FALSE
    OBVIOUS
  <2>1. h \in 1..N /\ (h > k => l < h)
    BY <1>7, <1>9
  <2> QED
    BY <1>4, <1>5, <1>8, <2>1
<1>12. CASE k = 0
  <2>1. above = {}
    BY <1>7, <1>10, <1>12
  <2> QED
    BY <1>6, <1>11, <1>12, <2>1 DEF Title, Titled, c, heads, k
<1>13. CASE k # 0
  <2>1. k \in above
    BY <1>1, <1>3, <1>4, <1>10, <1>13
  <2>2. \A h \in above : k >= h /\ h \in 1..N
    BY <1>4, <1>7, <1>10
  <2>3. Max(above) = k
    <3>1. above \in SUBSET (1..N) /\ above # {}
      BY <2>1, <2>2
    <3>2. 1 \in Nat /\ N \in Int
      BY <1>4
    <3> HIDE DEF above, N
    <3>3. Max(above) \in above /\ \A x \in above : x <= Max(above)
      BY <3>1, <3>2, EndsOf
    <3>4. Max(above) \in 1..Len(text) /\ k >= Max(above) /\ k <= Max(above)
      BY <2>1, <2>2, <3>3 DEF N
    <3>5. k \in Int
      BY <1>4
    <3> QED
      BY <3>4, <3>5
  <2>4. above # {}
    BY <2>1
  <2> QED
    BY <1>6, <1>11, <1>13, <2>3, <2>4 DEF Title, Titled, c, heads, k
<1> QED
  BY <1>12, <1>13

\* The chunks of a document leave nothing out but headings and are in order.
THEOREM ChunksComeAsSaid ==
  ASSUME NEW T, NEW given \in Seq(T), NEW size \in Nat, NEW overlap \in Nat, overlap < size
  PROVE  ChunksAsSaid(given, size, overlap, ChunksOf(given, size, overlap))
<1> DEFINE text == Normalised(given)
           heads == Headings(text)
           step == Step(size, overlap)
           cuts == Cuts(text, heads, size, step)
           n == Cardinality(cuts)
           order == InPlace(cuts)
           at(k) == ChunkAt(text, heads, size, step, order[k])
           chunks == ChunksOf(given, size, overlap)
<1>1. Edged(text, T)
  BY NormalisedOf
<1>2. step \in Nat /\ step >= 1 /\ size >= 1
  BY DEF Step
<1>3. /\ n \in Nat /\ order \in [1..n -> cuts]
      /\ \A i, j \in 1..n : i < j => <<order[i], order[j]>> \in Lexical(cuts)
      /\ \A p \in cuts : \E i \in 1..n : order[i] = p
  <2>1. cuts \in SUBSET (Int \X Int) /\ IsFiniteSet(cuts)
    BY <1>1, <1>2, CutsOf
  <2> HIDE DEF cuts
  <2>2. Orders(Lexical(cuts), cuts)
    BY <2>1, LexicalOrders
  <2> QED
    BY <2>1, <2>2, SortedInOrder DEF InPlace
<1>4. chunks = [k \in 1..n |-> ChunkAt(text, heads, size, step, order[k])]
  <2>1. DOMAIN order = 1..n
    BY <1>3
  <2>2. chunks = [k \in DOMAIN order |-> ChunkAt(text, heads, size, step, order[k])]
    BY DEF ChunksOf
  <2> HIDE DEF chunks, order, n
  <2> QED
    BY <2>1, <2>2
<1>5. DOMAIN chunks = 1..n /\ \A k \in 1..n : chunks[k] = ChunkAt(text, heads, size, step, order[k])
  BY <1>4
<1> HIDE DEF chunks, order, n
<1>6. ASSUME NEW a \in Under(text), NEW b \in Under(text), a <= b, b - a <= overlap,
             HeadingStarts(text) \cap a..b = {}
      PROVE  \E k \in DOMAIN chunks : Holds(chunks[k], a, b)
  <2>1. PICK p \in cuts : Holds(ChunkAt(text, heads, size, step, p), a, b)
    BY <1>1, <1>6, CutWith
  <2>2. PICK k \in 1..n : order[k] = p
    BY <1>3
  <2> QED
    BY <1>5, <2>1, <2>2
<1>7. ASSUME NEW k \in DOMAIN chunks
      PROVE  /\ order[k] \in cuts /\ chunks[k] = ChunkAt(text, heads, size, step, order[k])
             /\ InSection(text, order[k][1], size, chunks[k].text)
  <2>1. order[k] \in cuts /\ chunks[k] = ChunkAt(text, heads, size, step, order[k])
    BY <1>3, <1>5
  <2> QED
    BY <1>1, <1>2, <2>1, CutFits
<1>8. ASSUME NEW k \in DOMAIN chunks, k > 1
      PROVE  /\ chunks[k - 1].text.first <= chunks[k].text.first
             /\ chunks[k - 1].text.last <= chunks[k].text.last
  <2>1. k \in 1..n /\ k - 1 \in 1..n /\ k - 1 < k
    BY <1>3, <1>5, <1>8
  <2> DEFINE p == order[k - 1]
             q == order[k]
  <2>2. <<p, q>> \in Lexical(cuts) /\ p \in cuts /\ q \in cuts
    BY <1>3, <2>1
  <2>3. /\ chunks[k - 1] = ChunkAt(text, heads, size, step, p)
        /\ chunks[k] = ChunkAt(text, heads, size, step, q)
    BY <1>5, <2>1
  <2> HIDE DEF p, q
  <2>4. p[1] < q[1] \/ (p[1] = q[1] /\ p[2] < q[2])
    BY <2>2 DEF Lexical
  <2> QED
    BY <1>1, <1>2, <2>2, <2>3, <2>4, CutsForward
<1>9. ASSUME \A i \in HeadingStarts(text) : LineEnd(text, i) >= TitleAfter(text, i).first,
             NEW k \in DOMAIN chunks
      PROVE  Titled(text, chunks[k])
  <2>1. order[k] \in cuts /\ chunks[k] = ChunkAt(text, heads, size, step, order[k])
    BY <1>7
  <2> QED
    BY <1>1, <1>2, <1>9, <2>1, CutTitled
<1>10. ASSUME NEW k \in DOMAIN chunks
       PROVE  /\ chunks[k].text.first <= chunks[k].text.last
              /\ chunks[k].text.last - chunks[k].text.first < size
              /\ {text[chunks[k].text.first], text[chunks[k].text.last]} \cap White = {}
  BY <1>7 DEF InSection
<1> HIDE DEF text, chunks
<1>11. \A a, b \in Under(text) :
         /\ a <= b /\ b - a <= overlap /\ HeadingStarts(text) \cap a..b = {}
         => \E k \in DOMAIN chunks : Holds(chunks[k], a, b)
  BY <1>6
<1>12. (\A i \in HeadingStarts(text) : LineEnd(text, i) >= TitleAfter(text, i).first) =>
         \A k \in DOMAIN chunks : Titled(text, chunks[k])
  BY <1>9
<1>13. ChunksAsSaid(given, size, overlap, chunks)
  BY <1>8, <1>10, <1>11, <1>12 DEF ChunksAsSaid, Under, Titled, text
<1> QED
  BY <1>13 DEF chunks

(***************************************************************************)
(* The cases that TLC computes are instances of what is proved above.      *)
(***************************************************************************)
CaseExamples == {Example(k, s, j, t) : k \in {"sql", "orm"}, s \in {"j1", "j2", "j3"}, j \in BOOLEAN, t \in SUBSET (1..3)}
CaseTables == {MCTable(n, f, e) : n \in 1..3, f \in ForeignKeys, e \in Examples}

ContextGiven(c) ==
  Documented(c.doc, CaseTables, CaseExamples) /\ IsFiniteSet(c.question.words) /\ c.max \in Nat
TrustedGiven(c) ==
  Holding(c.dir, MCAssets) /\ c.enabled \in BOOLEAN /\ c.request.useLlm \in BOOLEAN
RowsGiven(c) ==
  /\ c.statement.form \in Forms /\ c.statement.own \in Nat /\ c.available \in Nat
  /\ c.max \in Nat \ {0} /\ c.display \in Nat \ {0} /\ c.noted \in BOOLEAN
ChunksGiven(c) ==
  c.text \in Seq({"x", "sp", "nl", "#"}) /\ c.size \in Nat /\ c.overlap \in Nat /\ c.overlap < c.size
ExplainedGiven(c) == AskIs(c, {"t1", "t2", "t3"}, {"blank", "trace", "secret", "no select"})

\* A case is one that a theorem speaks of, and its result is what the code gives.
CaseInv ==
  work # Idle =>
    /\ work.done \in BOOLEAN
    /\ work.of = "context" => ContextGiven(work.case)
    /\ work.of = "trusted" => TrustedGiven(work.case)
    /\ work.of = "rows" => RowsGiven(work.case)
    /\ work.of = "chunks" => ChunksGiven(work.case)
    /\ work.of = "explained" => ExplainedGiven(work.case)
    /\ work.done => work.result = Result(work.of, work.case)

\* Lists that are written out.
LEMMA Tuples ==
  ASSUME NEW T
  PROVE  /\ <<>> \in Seq(T)
         /\ \A a \in T : <<a>> \in Seq(T)
         /\ \A a, b \in T : <<a, b>> \in Seq(T)
         /\ \A a, b, c \in T : <<a, b, c>> \in Seq(T)
         /\ \A a \in T : <<a, a, a, a, a>> \in Seq(T)
OBVIOUS

\* The cases of contexts: lists of references and of examples.
LEMMA ContextCases ==
  ASSUME NEW f1 \in ForeignKeys, NEW f2 \in ForeignKeys, NEW f3 \in ForeignKeys, NEW e \in Examples
  PROVE  Documented(<<MCTable(1, f1, <<>>), MCTable(2, f2, e), MCTable(3, f3, e)>>, CaseTables, CaseExamples)
<1> DEFINE doc == <<MCTable(1, f1, <<>>), MCTable(2, f2, e), MCTable(3, f3, e)>>
<1>1. \A f \in ForeignKeys : f \in Seq(References)
  <2>1. /\ Fk(1) \in References /\ Fk(2) \in References /\ Fk(3) \in References /\ Fk(4) \in References
        /\ [to |-> 1, exact |-> FALSE] \in References
    BY DEF Fk, References
  <2>2. /\ <<>> \in Seq(References) /\ <<Fk(1)>> \in Seq(References) /\ <<Fk(3), Fk(4)>> \in Seq(References)
        /\ <<Fk(2), Fk(1)>> \in Seq(References) /\ <<[to |-> 1, exact |-> FALSE]>> \in Seq(References)
        /\ <<Fk(3), Fk(3), Fk(3), Fk(3), Fk(3)>> \in Seq(References)
    BY <2>1, Tuples
  <2> QED
    BY <2>2 DEF ForeignKeys
<1>2. \A x \in Examples : x \in Seq(CaseExamples)
  <2> DEFINE a == Example("sql", "j1", TRUE, {1})
             b == Example("sql", "j1", TRUE, {3})
             c == Example("sql", "j2", FALSE, {2})
             d == Example("orm", "j3", TRUE, {1})
  <2>1. {1} \in SUBSET (1..3) /\ {2} \in SUBSET (1..3) /\ {3} \in SUBSET (1..3)
    OBVIOUS
  <2>2. a \in CaseExamples /\ b \in CaseExamples /\ c \in CaseExamples /\ d \in CaseExamples
    <3>1. \A k \in {"sql", "orm"}, i \in {"j1", "j2", "j3"}, j \in BOOLEAN, t \in SUBSET (1..3) :
            Example(k, i, j, t) \in CaseExamples
      BY DEF CaseExamples
    <3>2. /\ "sql" \in {"sql", "orm"} /\ "orm" \in {"sql", "orm"} /\ "j1" \in {"j1", "j2", "j3"}
          /\ "j2" \in {"j1", "j2", "j3"} /\ "j3" \in {"j1", "j2", "j3"} /\ TRUE \in BOOLEAN /\ FALSE \in BOOLEAN
      OBVIOUS
    <3>3. a \in CaseExamples
      BY <2>1, <3>1, <3>2
    <3>4. b \in CaseExamples
      BY <2>1, <3>1, <3>2
    <3>5. c \in CaseExamples
      BY <2>1, <3>1, <3>2
    <3>6. d \in CaseExamples
      BY <2>1, <3>1, <3>2
    <3> QED
      BY <3>3, <3>4, <3>5, <3>6
  <2>3. Examples = {<<>>, <<a, b>>, <<c, d>>}
    BY DEF Examples
  <2> HIDE DEF a, b, c, d
  <2>4. <<>> \in Seq(CaseExamples) /\ <<a, b>> \in Seq(CaseExamples) /\ <<c, d>> \in Seq(CaseExamples)
    BY <2>2, Tuples
  <2> QED
    BY <2>3, <2>4
<1>3. <<>> \in Examples
  BY DEF Examples
<1>4. \A t \in CaseTables : t.name \in Nat /\ t.fks \in Seq(References) /\ t.examples \in Seq(CaseExamples)
  <2> SUFFICES ASSUME NEW n \in 1..3, NEW f \in ForeignKeys, NEW x \in Examples
               PROVE  /\ MCTable(n, f, x).name \in Nat /\ MCTable(n, f, x).fks \in Seq(References)
                      /\ MCTable(n, f, x).examples \in Seq(CaseExamples)
    BY DEF CaseTables
  <2>1. MCTable(n, f, x).name = n /\ MCTable(n, f, x).fks = f /\ MCTable(n, f, x).examples = x
    BY DEF MCTable
  <2>2. n \in Nat /\ f \in Seq(References) /\ x \in Seq(CaseExamples)
    BY <1>1, <1>2
  <2> QED
    BY ONLY <2>1, <2>2
<1>5. \A n \in 1..3 : \A f \in ForeignKeys, x \in Examples : MCTable(n, f, x) \in CaseTables /\ MCTable(n, f, x).name = n
  <2>1. \A n \in 1..3 : \A f \in ForeignKeys, x \in Examples : MCTable(n, f, x) \in CaseTables
    BY DEF CaseTables
  <2>2. \A n, f, x : MCTable(n, f, x).name = n
    BY DEF MCTable
  <2> QED
    BY ONLY <2>1, <2>2
<1>6. /\ MCTable(1, f1, <<>>) \in CaseTables /\ MCTable(2, f2, e) \in CaseTables /\ MCTable(3, f3, e) \in CaseTables
      /\ MCTable(1, f1, <<>>).name = 1 /\ MCTable(2, f2, e).name = 2 /\ MCTable(3, f3, e).name = 3
  BY <1>3, <1>5
<1>7. doc \in Seq(CaseTables) /\ Len(doc) = 3 /\ doc[1].name = 1 /\ doc[2].name = 2 /\ doc[3].name = 3
  BY <1>6
<1> HIDE DEF doc
<1>8. \A i, j \in 1..Len(doc) : doc[i].name = doc[j].name => i = j
  <2>1. \A i \in 1..3 : doc[i].name = i
    BY <1>7
  <2> QED
    BY <1>7, <2>1
<1>9. Documented(doc, CaseTables, CaseExamples)
  BY <1>4, <1>7, <1>8 DEF Documented
<1> QED
  BY <1>9 DEF doc

\* The cases of explanations: lists of names and of messages.
LEMMA ExplainedCases ==
  ASSUME NEW T, T = {"t1", "t2", "t3"}, NEW M, M = {"blank", "trace", "secret", "no select"}
  PROVE  /\ \A t \in MCTables : t[1] \in Seq(T) /\ t[2] \in Seq(T)
         /\ \A v \in Verdicts : /\ v.outcome \in {"absent", "raises", "given"}
                                /\ v.violations \in Seq(M) /\ v.warnings \in Seq(M)
         /\ \A q \in Questioned : /\ q[1] \in {"auto", "sql", "rag", "both", "agent"}
                                  /\ q[2].sql \in Nat /\ q[2].rag \in Nat /\ q[2].connector \in BOOLEAN
<1>1. \A t \in MCTables : t[1] \in Seq(T) /\ t[2] \in Seq(T)
  <2>0. "t1" \in T /\ "t2" \in T /\ "t3" \in T
    OBVIOUS
  <2>1. <<>> \in Seq(T) /\ <<"t1">> \in Seq(T) /\ <<"t2", "t1", "t2">> \in Seq(T) /\ <<"t3", "t1">> \in Seq(T)
    BY ONLY <2>0, Tuples
  <2> DEFINE both(x, y) == <<x, y>>
  <2>2. \A x, y \in Seq(T) : both(x, y)[1] \in Seq(T) /\ both(x, y)[2] \in Seq(T)
    OBVIOUS
  <2>3. \A t \in MCTables : \E x, y \in Seq(T) : t = both(x, y)
    BY <2>1 DEF MCTables
  <2> HIDE DEF both
  <2> QED
    BY ONLY <2>2, <2>3
<1>2. \A v \in Verdicts : /\ v.outcome \in {"absent", "raises", "given"}
                          /\ v.violations \in Seq(M) /\ v.warnings \in Seq(M)
  <2>0. "blank" \in M /\ "trace" \in M /\ "secret" \in M /\ "no select" \in M
    OBVIOUS
  <2>1. /\ <<>> \in Seq(M) /\ <<"blank", "trace">> \in Seq(M)
        /\ <<"secret", "no select", "trace">> \in Seq(M) /\ <<"no select", "secret">> \in Seq(M)
    BY ONLY <2>0, Tuples
  <2>2. \A o, x, y : Verdict(o, x, y).outcome = o /\ Verdict(o, x, y).violations = x /\ Verdict(o, x, y).warnings = y
    BY DEF Verdict
  <2>3. \A v \in Verdicts : \E o \in {"absent", "raises", "given"}, x, y \in Seq(M) : v = Verdict(o, x, y)
    BY <2>1 DEF Verdicts
  <2> QED
    BY ONLY <2>2, <2>3
<1>3. \A q \in Questioned : /\ q[1] \in {"auto", "sql", "rag", "both", "agent"}
                            /\ q[2].sql \in Nat /\ q[2].rag \in Nat /\ q[2].connector \in BOOLEAN
  <2> DEFINE K == [sql : {0, 1, 2, 9}, rag : {0, 1}, connector : BOOLEAN]
  <2>1. \A g \in K : g.sql \in Nat /\ g.rag \in Nat /\ g.connector \in BOOLEAN
    <3>1. \A g \in K : g.sql \in {0, 1, 2, 9} /\ g.rag \in {0, 1} /\ g.connector \in BOOLEAN
      BY ONLY DEF K
    <3>2. (\A n \in {0, 1, 2, 9} : n \in Nat) /\ (\A n \in {0, 1} : n \in Nat)
      BY ONLY SMT
    <3> HIDE DEF K
    <3> QED
      BY ONLY <3>1, <3>2
  <2>2. Signals \subseteq K /\ [sql |-> 1, rag |-> 0, connector |-> FALSE] \in K
    <3>1. Signals \subseteq K
      BY DEF Signals
    <3>2. \A c \in BOOLEAN : [sql |-> 1, rag |-> 0, connector |-> c] \in K
      OBVIOUS
    <3>3. FALSE \in BOOLEAN
      OBVIOUS
    <3> QED
      BY ONLY <3>1, <3>2, <3>3
  <2> HIDE DEF K
  <2>3. Questioned \subseteq {"auto", "sql", "rag", "both", "agent"} \X K
    BY <2>2 DEF Questioned
  <2> QED
    BY <2>1, <2>3
<1> QED
  BY <1>1, <1>2, <1>3

\* CaseInv is inductive: a case is given, and then computed.
LEMMA CaseInvHolds == MCSpec => []CaseInv
<1>1. MCInit => CaseInv
  BY DEF MCInit, CaseInv
<1>2. CaseInv /\ [MCNext]_<<docVars, work>> => CaseInv'
  <2> SUFFICES ASSUME CaseInv, [MCNext]_<<docVars, work>> PROVE CaseInv'
    OBVIOUS
  <2>1. CASE UNCHANGED work
    BY <2>1 DEF CaseInv
  <2>2. CASE ContextCase
    <3>1. PICK f1, f2, f3 \in ForeignKeys, e \in Examples, q \in Questions, max \in 1..3 :
            LET doc == <<MCTable(1, f1, <<>>), MCTable(2, f2, e), MCTable(3, f3, e)>>
            IN  work' = [of |-> "context", case |-> [doc |-> doc, question |-> q, max |-> max], done |-> FALSE]
      BY <2>2 DEF ContextCase, Given
    <3>2. IsFiniteSet(q.words)
      <4>1. q.words \in {{}, {"u"}, {"w"}, {"u", "v", "join"}}
        BY DEF Questions
      <4>2. IsFiniteSet({}) /\ IsFiniteSet({"u"}) /\ IsFiniteSet({"w"})
        BY FS_EmptySet, FS_Singleton
      <4>3. IsFiniteSet({"u", "v", "join"})
        <5>1. IsFiniteSet({"u"}) /\ IsFiniteSet({"v"}) /\ IsFiniteSet({"join"})
          BY FS_Singleton
        <5>2. IsFiniteSet({"u"} \cup {"v"})
          BY <5>1, FS_Union
        <5>3. IsFiniteSet(({"u"} \cup {"v"}) \cup {"join"})
          BY <5>1, <5>2, FS_Union
        <5>4. {"u", "v", "join"} = ({"u"} \cup {"v"}) \cup {"join"}
          OBVIOUS
        <5> QED
          BY <5>3, <5>4
      <4> QED
        BY <4>1, <4>2, <4>3
    <3>3. /\ work'.of = "context" /\ work'.done = FALSE /\ ContextGiven(work'.case)
      BY <3>1, <3>2, ContextCases DEF ContextGiven
    <3> QED
      BY <3>3 DEF CaseInv
  <2>3. CASE TrustedCase
    <3>1. PICK examples \in Files, metrics \in {f \in Files : Len(f.items) < 2}, exists \in BOOLEAN,
               enabled \in BOOLEAN, request \in Requests, sql \in {"s1", "s2", "s3", None} :
            work' = [of |-> "trusted",
                     case |-> [enabled |-> enabled, dir |-> [exists |-> exists, examples |-> examples, metrics |-> metrics],
                               request |-> request, sql |-> sql],
                     done |-> FALSE]
      BY <2>3 DEF TrustedCase, Given
    <3>2. \A f \in Files : f.items \in Seq(MCAssets)
      <4>1. \A f \in Files : f.items = <<>> \/ \E n \in 0..2 : f.items \in [1..n -> MCAssets]
        BY DEF Files
      <4>2. \A n \in 0..2 : \A s \in [1..n -> MCAssets] : s \in Seq(MCAssets)
        OBVIOUS
      <4>3. <<>> \in Seq(MCAssets)
        BY ONLY Tuples
      <4>4. TAKE f \in Files
      <4>5. CASE f.items = <<>>
        BY ONLY <4>3, <4>5
      <4>6. CASE \E n \in 0..2 : f.items \in [1..n -> MCAssets]
        BY ONLY <4>2, <4>6
      <4> QED
        BY <4>1, <4>5, <4>6
    <3>3. \A a \in MCAssets : a.enabled \in BOOLEAN
      <4>1. \A i, s, p, e, d : Asset(i, s, p, e, d).enabled = e
        BY DEF Asset
      <4>2. \A a \in MCAssets : \E i, s, p, d : \E e \in BOOLEAN : a = Asset(i, s, p, e, d)
        BY DEF MCAssets
      <4> QED
        BY ONLY <4>1, <4>2
    <3>4. request.useLlm \in BOOLEAN
      BY DEF Requests
    <3>5. /\ work'.of = "trusted" /\ work'.done = FALSE /\ TrustedGiven(work'.case)
      BY <3>1, <3>2, <3>3, <3>4 DEF TrustedGiven, Holding
    <3> QED
      BY <3>5 DEF CaseInv
  <2>4. CASE SqlCase
    <3>1. PICK s : Given("sql", s)
      BY <2>4 DEF SqlCase
    <3>2. work'.of = "sql" /\ work'.done = FALSE
      BY <3>1 DEF Given
    <3> QED
      BY <3>2 DEF CaseInv
  <2>5. CASE RowsCase
    <3>1. PICK form \in Forms, own \in {0, 2, 5}, available \in 0..MaxAvailable, cap \in 0..MaxAvailable,
               display \in 1..MaxAvailable, noted \in BOOLEAN :
            work' = [of |-> "rows",
                     case |-> [statement |-> [form |-> form, own |-> own], available |-> available,
                               max |-> MaxRows(cap, DefaultRows), display |-> display, noted |-> noted],
                     done |-> FALSE]
      BY <2>5 DEF RowsCase, Given
    <3>2. MaxRows(cap, DefaultRows) \in Nat \ {0}
      BY DEF MaxRows, DefaultRows
    <3>3. /\ work'.of = "rows" /\ work'.done = FALSE /\ RowsGiven(work'.case)
      BY <3>1, <3>2 DEF RowsGiven
    <3> QED
      BY <3>3 DEF CaseInv
  <2>6. CASE ChunksCase
    <3>1. PICK n \in 0..MaxText : \E s \in [1..n -> {"x", "sp", "nl", "#"}], size \in 1..3 :
            \E overlap \in 0..(size - 1) :
              work' = [of |-> "chunks", case |-> [text |-> s, size |-> size, overlap |-> overlap], done |-> FALSE]
      BY <2>6 DEF ChunksCase, Given
    <3>2. PICK s \in [1..n -> {"x", "sp", "nl", "#"}], size \in 1..3 :
            \E overlap \in 0..(size - 1) :
              work' = [of |-> "chunks", case |-> [text |-> s, size |-> size, overlap |-> overlap], done |-> FALSE]
      BY <3>1
    <3>3. PICK overlap \in 0..(size - 1) :
            work' = [of |-> "chunks", case |-> [text |-> s, size |-> size, overlap |-> overlap], done |-> FALSE]
      BY <3>2
    <3>4. n \in Nat /\ s \in Seq({"x", "sp", "nl", "#"}) /\ size \in Nat /\ overlap \in Nat /\ overlap < size
      OBVIOUS
    <3>5. /\ work'.of = "chunks" /\ work'.done = FALSE /\ ChunksGiven(work'.case)
      BY <3>3, <3>4 DEF ChunksGiven
    <3> QED
      BY <3>5 DEF CaseInv
  <2>7. CASE ExplainedCase
    <3>0. PICK hybrid \in BOOLEAN, stream \in BOOLEAN, fallback \in BOOLEAN, dryRun \in BOOLEAN,
               q \in Questioned, sources \in 0..2, t \in MCTables, asset \in {Nothing, "a"},
               verdict \in Verdicts, governed \in {{}, {"mask", "filter"}} :
            /\ ~(q[1] = "agent" /\ stream)
            /\ Given("explained", [hybrid |-> hybrid, stream |-> stream, fallback |-> fallback, dryRun |-> dryRun,
                                   requested |-> q[1], signals |-> q[2], sources |-> sources, used |-> t[1],
                                   context |-> t[2], asset |-> asset, verdict |-> verdict, governed |-> governed])
      BY <2>7 DEF ExplainedCase
    <3>1. work' = [of |-> "explained",
              case |-> [hybrid |-> hybrid, stream |-> stream, fallback |-> fallback, dryRun |-> dryRun,
                        requested |-> q[1], signals |-> q[2], sources |-> sources, used |-> t[1],
                        context |-> t[2], asset |-> asset, verdict |-> verdict, governed |-> governed],
              done |-> FALSE]
      BY <3>0 DEF Given
    <3>2. /\ work'.of = "explained" /\ work'.done = FALSE /\ ExplainedGiven(work'.case)
      <4> DEFINE c == work'.case
                 T == {"t1", "t2", "t3"}
                 M == {"blank", "trace", "secret", "no select"}
      <4>1. /\ work'.of = "explained" /\ work'.done = FALSE
            /\ c.hybrid = hybrid /\ c.stream = stream /\ c.fallback = fallback /\ c.dryRun = dryRun
            /\ c.requested = q[1] /\ c.signals = q[2] /\ c.sources = sources
            /\ c.used = t[1] /\ c.context = t[2] /\ c.verdict = verdict
        BY ONLY <3>1
      <4>2. t[1] \in Seq(T) /\ t[2] \in Seq(T)
        BY ExplainedCases
      <4>3. /\ verdict.outcome \in {"absent", "raises", "given"}
            /\ verdict.violations \in Seq(M) /\ verdict.warnings \in Seq(M)
        BY ExplainedCases
      <4>4. /\ q[1] \in {"auto", "sql", "rag", "both", "agent"}
            /\ q[2].sql \in Nat /\ q[2].rag \in Nat /\ q[2].connector \in BOOLEAN
        BY ExplainedCases
      <4>5. sources \in Nat
        OBVIOUS
      <4> HIDE DEF c, T, M
      <4>6. AskIs(c, T, M)
        BY <4>1, <4>2, <4>3, <4>4, <4>5 DEF AskIs
      <4> QED
        BY <4>1, <4>6 DEF ExplainedGiven, c, T, M
    <3> QED
      BY <3>2 DEF CaseInv
  <2>8. CASE Compute
    <3>1. work' = [of |-> work.of, case |-> work.case, done |-> TRUE, result |-> Result(work.of, work.case)]
          /\ work # Idle
      BY <2>8 DEF Compute
    <3>2. /\ work'.of = work.of /\ work'.case = work.case /\ work'.done = TRUE
          /\ work'.result = Result(work.of, work.case)
      BY <3>1
    <3> QED
      BY <3>1, <3>2 DEF CaseInv
  <2> QED
    BY <2>1, <2>2, <2>3, <2>4, <2>5, <2>6, <2>7, <2>8 DEF MCNext, WriteDocument, GiveCase
<1> QED
  BY <1>1, <1>2, PTL DEF MCSpec

\* Whatever case is given: the context and the trusted SQL are what was promised.
THEOREM ChoicesAreKept == MCSpec => []ChoicesKept
<1>1. CaseInv => ChoicesKept
  <2> SUFFICES ASSUME CaseInv PROVE ChoicesKept
    OBVIOUS
  <2> DEFINE c == work.case
  <2>1. ASSUME Worked("context") PROVE ContextKeeps(c.doc, c.question, c.max, work.result)
    <3>1. ContextGiven(c) /\ work.result = ContextOf(c.doc, c.question, c.max)
      BY <2>1 DEF CaseInv, Worked, Idle, Result
    <3> QED
      BY <3>1, ContextsKept DEF ContextGiven
  <2>2. ASSUME Worked("trusted")
        PROVE  /\ TrustedIsApproved(c.dir, c.request, c.sql, work.result)
               /\ ApprovedIsUsed(c.enabled, c.dir, c.request, work.result)
    <3>1. TrustedGiven(c) /\ work.result = Generate(c.enabled, c.dir, c.request, c.sql)
      BY <2>2 DEF CaseInv, Worked, Idle, Result
    <3> QED
      BY <3>1, TrustedSqlIsApproved DEF TrustedGiven
  <2> QED
    BY <2>1, <2>2 DEF ChoicesKept
<1> QED
  BY <1>1, CaseInvHolds, PTL

\* Whatever case is given: rows and chunks are cut as was promised.
THEOREM CutsAreKept == MCSpec => []CutsKept
<1>1. CaseInv => CutsKept
  <2> SUFFICES ASSUME CaseInv PROVE CutsKept
    OBVIOUS
  <2> DEFINE c == work.case
  <2>1. ASSUME Worked("rows")
        PROVE  RowsAsSaid(c.statement, c.available, c.max, c.display, c.noted, work.result)
    <3>1. RowsGiven(c) /\ work.result = RowsOf(c.statement, c.available, c.max, c.display, c.noted)
      BY <2>1 DEF CaseInv, Worked, Idle, Result
    <3> QED
      BY <3>1, RowsComeAsSaid DEF RowsGiven
  <2>2. ASSUME Worked("chunks") PROVE ChunksAsSaid(c.text, c.size, c.overlap, work.result)
    <3>1. ChunksGiven(c) /\ work.result = ChunksOf(c.text, c.size, c.overlap)
      BY <2>2 DEF CaseInv, Worked, Idle, Result
    <3> QED
      BY <3>1, ChunksComeAsSaid DEF ChunksGiven
  <2> QED
    BY <2>1, <2>2 DEF CutsKept
<1> QED
  BY <1>1, CaseInvHolds, PTL

\* Whatever ask is given: its explanation says of its answer what
\* ExplainsTheResult lists.
THEOREM ExplanationsFit == MCSpec => []ExplanationFits
<1>1. CaseInv => ExplanationFits
  <2> SUFFICES ASSUME CaseInv, Worked("explained") PROVE ExplainsTheResult(work.case, work.result)
    BY DEF ExplanationFits
  <2>1. ExplainedGiven(work.case) /\ work.result = ResultOf(work.case)
    BY DEF CaseInv, Worked, Idle, Result
  <2> QED
    BY <2>1, AnswersAreExplained DEF ExplainedGiven
<1> QED
  BY <1>1, CaseInvHolds, PTL
=============================================================================
