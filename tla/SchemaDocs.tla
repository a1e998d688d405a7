----------------------------- MODULE SchemaDocs -----------------------------
(***************************************************************************)
(* SchemaMarkdownParser: a schema document, hand-written (legacy) or       *)
(* exported by django-db-schema-doc, read into domains, hub tables, join   *)
(* patterns and tables.                                                    *)
(*                                                                         *)
(* A document is written line by line, a line being the regular expression *)
(* it matches and the name in it.  The parser makes a pass over all the    *)
(* lines for each part of the result; the passes share nothing, so every   *)
(* line takes all of them one step on.  Beside them the model notes what   *)
(* the document says: which heading each line stands under.                *)
(*                                                                         *)
(* Documents have their parts in order, the tables last, a table once;     *)
(* between the fences of a code block there is code only.                  *)
(* The names of the specification itself begin with Doc, for the modules   *)
(* that extend this one beside others.                                     *)
(***************************************************************************)
EXTENDS Naturals, Sequences

CONSTANTS Tables,    \* names of tables; columns and domains are told apart by them
          MaxLines   \* bound: lines of a document besides the headings of its parts
ASSUME LinesAssumption == MaxLines \in Nat

VARIABLES
  format,  \* legacy or django, as detect_markdown_format finds it
  part,    \* how many headings of parts have been written
  lines,   \* how many other lines
  seen,    \* tables that have had their anchor
  domains, \* domain pass: names found
  hubs,    \* hub pass: tables found
  joins,   \* join pass: [titled, fenced, found]
  block,   \* table pass: the block of a table, or NoBlock
  tables,  \* table pass: the blocks it has ended
  note,    \* what the document says of the block: [under, fks, columns, ...]
  notes,   \* the same of the blocks ended, and of domains and hubs
  ended
docVars == <<format, part, lines, seen, domains, hubs, joins, block, tables, note, notes, ended>>

(***************************************************************************)
(* Lines.                                                                  *)
(***************************************************************************)
Line(k) == [kind |-> k]
Of(k, t) == [kind |-> k, name |-> t]

\* The headings of the parts, in order, with their level.  Those of a
\* hand-written document that the parser knows are numbered; 2.2 may be missing.
Parts == IF format = "django"
         THEN <<<<"domains", 2>>, <<"hubs", 2>>, <<"tables", 2>>>>
         ELSE <<<<"domains", 2>>, <<"hubs", 3>>, <<"2.2", 3>>, <<"joins", 3>>, <<"2.4", 3>>>>
Current == IF part = 0 THEN "none" ELSE Parts[part][1]
InTables == part = Len(Parts)

Blocks == {"outgoing", "incoming", "columns"} \cup (IF format = "django" THEN {"examples"} ELSE {})

\* What may be written next, but for the headings of parts.
Written ==
  IF block.fenced \/ joins.fenced THEN {Line("text"), Line("fence")}
  ELSE IF ~InTables
  THEN {Line("text"), Line("bar")} \cup {Of(k, t) : k \in {"domainRow", "hubRow"}, t \in Tables}
       \cup (IF Current = "joins" THEN {Line("joinTitle"), Line("fence")} ELSE {})
  ELSE {Of("anchor", t) : t \in Tables \ seen}
       \cup {Of(k, t) : k \in {"title", "fk", "row", "meta"}, t \in Tables}
       \cup {Of("heading", h) : h \in Blocks}
       \cup {Line(k) : k \in {"blank", "bar", "text", "section"}}
       \cup (IF format = "django"
             THEN {Line(k) : k \in {"describe", "indented", "exTitle"}}
                  \cup (IF block.pending THEN {Line("fence")} ELSE {})
             ELSE {})

(***************************************************************************)
(* The passes over the parts.                                              *)
(***************************************************************************)
\* The hand-written domain part ends at the first heading of level three; the
\* exported one at the next of level two.
InDomains == part = 1

\* The hub part of a hand-written document ends at 2.2 and nowhere else.
InHubs == part >= 2 /\ (IF format = "django" THEN part = 2 ELSE "2.2" \notin notes.parts)

\* A domain row has the first cells of a hub row, not the reverse.
DomainPass(l) ==
  domains' = IF InDomains /\ l.kind \in {"domainRow", "hubRow"} THEN domains \cup {l.name} ELSE domains
HubPass(l) ==
  hubs' = IF InHubs /\ l.kind = "hubRow" THEN hubs \cup {l.name} ELSE hubs

\* A bold line and a code block directly after it.
JoinPass(l) ==
  joins' = IF format = "django" \/ Current # "joins" THEN joins
           ELSE IF joins.fenced
           THEN IF l.kind = "fence" THEN [joins EXCEPT !.fenced = FALSE, !.found = @ + 1] ELSE joins
           ELSE [joins EXCEPT !.fenced = joins.titled /\ l.kind = "fence",
                              !.titled = l.kind = "joinTitle"]

(***************************************************************************)
(* The pass over the tables.                                               *)
(***************************************************************************)
NoBlock == [table |-> "none", first |-> FALSE, domain |-> "none", fks |-> {}, columns |-> {},
            examples |-> 0, inColumns |-> FALSE, fkSection |-> "none", inExamples |-> FALSE,
            pending |-> FALSE, fenced |-> FALSE, describing |-> "no"]
BlockOf(t) == [NoBlock EXCEPT !.table = t, !.first = TRUE]

\* The inner loop over a business description takes every line until one that
\* starts a bullet in bold, a blank one after some text, or a section.
Describes(b, l) ==
  /\ b.describing # "no"
  /\ l.kind \notin {"meta", "describe", "section", "anchor"}
  /\ ~(l.kind = "blank" /\ b.describing = "some")

\* Mutation: the section of foreign keys is forgotten when columns begin only.
HeadedForgets(b, h) ==
  [b EXCEPT !.inColumns = h = "columns",
            !.inExamples = h = "examples",
            !.fkSection = CASE h = "outgoing" -> h [] h = "columns" -> "none" [] OTHER -> @]

\* A heading opens one section and closes the others.
Headed(b, h) ==
  [b EXCEPT !.inColumns = h = "columns",
            !.inExamples = h = "examples",
            !.fkSection = IF h \in {"outgoing", "incoming"} THEN h ELSE "none"]

\* One round of the loop.  A line nothing else takes ends the columns unless
\* it starts with a bar: the blank line under the heading does.
Round(b, l) ==
  CASE l.kind = "meta"     -> [b EXCEPT !.domain = l.name]
    [] l.kind = "describe" -> [b EXCEPT !.describing = "empty"]
    [] l.kind = "heading"  -> Headed(b, l.name)
    [] l.kind = "fk" /\ b.fkSection = "outgoing" /\ ~b.inColumns -> [b EXCEPT !.fks = @ \cup {l.name}]
    [] l.kind = "row" /\ b.inColumns -> [b EXCEPT !.columns = @ \cup {l.name}]
    [] l.kind = "exTitle" /\ b.inExamples -> [b EXCEPT !.pending = TRUE]
    [] l.kind = "fence" /\ b.inExamples /\ b.pending -> [b EXCEPT !.fenced = TRUE]
    [] OTHER -> [b EXCEPT !.inColumns = @ /\ l.kind \in {"bar", "row"}]

Read(b, l) ==
  CASE b.fenced /\ l.kind = "fence" -> [b EXCEPT !.fenced = FALSE, !.pending = FALSE, !.examples = @ + 1]
    [] b.fenced /\ l.kind # "fence" -> b
    [] b.first /\ l.kind = "title"  -> [b EXCEPT !.first = FALSE]
    [] Describes(b, l) -> [b EXCEPT !.describing = IF l.kind = "indented" THEN "some" ELSE @]
    [] OTHER -> Round([b EXCEPT !.first = FALSE, !.describing = "no"], l)

\* A block ends at an anchor, a section, or the title of another table.
Ends(b, l) ==
  /\ b # NoBlock /\ ~b.fenced
  /\ \/ l.kind \in {"anchor", "section"}
     \/ l.kind = "title" /\ l.name # b.table /\ ~b.first /\ ~Describes(b, l)

TablePass(l) ==
  /\ tables' = IF Ends(block, l) THEN Append(tables, block) ELSE tables
  /\ block' = CASE l.kind = "anchor" -> BlockOf(l.name)
                [] l.kind # "anchor" /\ Ends(block, l) -> NoBlock
                [] OTHER -> IF block = NoBlock THEN block ELSE Read(block, l)

(***************************************************************************)
(* What the document says.                                                 *)
(***************************************************************************)
\* under is the heading a line stands under; astray, that a description is
\* not a text of indented lines and a blank one; apart, what there is between
\* the heading of the columns and their rows: nothing, blank lines, or text.
NoNote == [under |-> "none", fks |-> {}, columns |-> {}, apart |-> "no", astray |-> FALSE]

Noted(l) ==
  IF l.kind \in {"anchor", "section"} THEN NoNote
  ELSE [note EXCEPT
    !.under = IF l.kind = "heading" THEN l.name ELSE @,
    !.fks = IF l.kind = "fk" /\ note.under = "outgoing" THEN @ \cup {l.name} ELSE @,
    !.columns = IF l.kind = "row" /\ note.under = "columns" THEN @ \cup {l.name} ELSE @,
    !.apart = CASE note.under = "columns" /\ l.kind = "blank" /\ note.columns = {} /\ @ # "text" -> "blank"
                [] note.under = "columns" /\ l.kind \notin {"bar", "row", "meta", "describe", "heading"}
                   /\ ~(l.kind = "blank" /\ note.columns = {}) -> "text"
                [] OTHER -> @,
    !.astray = @ \/ (block.describing # "no" /\ l.kind \notin {"indented", "blank", "meta"})]

Note(l) ==
  /\ note' = Noted(l)
  /\ notes' = [notes EXCEPT
       !.blocks = IF Ends(block, l) THEN Append(@, note) ELSE @,
       !.domains = IF Current = "domains" /\ l.kind \in {"domainRow", "hubRow"} THEN @ \cup {l.name} ELSE @,
       !.hubs = IF Current = "hubs" /\ l.kind = "hubRow" THEN @ \cup {l.name} ELSE @]

(***************************************************************************)
(* Next-state relation.                                                    *)
(***************************************************************************)
DocInit ==
  /\ format \in {"legacy", "django"}
  /\ part = 0 /\ lines = 0 /\ seen = {} /\ ended = FALSE
  /\ domains = {} /\ hubs = {}
  /\ joins = [titled |-> FALSE, fenced |-> FALSE, found |-> 0]
  /\ block = NoBlock /\ tables = <<>>
  /\ note = NoNote /\ notes = [blocks |-> <<>>, domains |-> {}, hubs |-> {}, parts |-> {}]

\* The heading of the next part, or of the one after 2.2.
NextPart ==
  /\ ~ended /\ ~InTables /\ ~joins.fenced
  /\ \E p \in {part + 1} \cup (IF format = "legacy" /\ part = 2 THEN {4} ELSE {}) :
       /\ part' = p
       /\ notes' = [notes EXCEPT !.parts = @ \cup {Parts[p][1]}]
  /\ joins' = [joins EXCEPT !.titled = FALSE]
  /\ UNCHANGED <<format, lines, seen, domains, hubs, block, tables, note, ended>>

ReadLine(l) ==
  /\ ~ended /\ lines < MaxLines
  /\ lines' = lines + 1
  /\ seen' = IF l.kind = "anchor" THEN seen \cup {l.name} ELSE seen
  /\ DomainPass(l) /\ HubPass(l) /\ JoinPass(l) /\ TablePass(l) /\ Note(l)
  /\ UNCHANGED <<format, part, ended>>

\* The end of the file ends the last block.
EndOfFile ==
  /\ ~ended /\ ~block.fenced /\ ~joins.fenced
  /\ ended' = TRUE
  /\ tables' = IF block = NoBlock THEN tables ELSE Append(tables, block)
  /\ notes' = IF block = NoBlock THEN notes ELSE [notes EXCEPT !.blocks = Append(@, note)]
  /\ block' = NoBlock /\ note' = NoNote
  /\ UNCHANGED <<format, part, lines, seen, domains, hubs, joins>>

DocNext == NextPart \/ EndOfFile \/ \E l \in Written : ReadLine(l)
DocSpec == DocInit /\ [][DocNext]_docVars

(***************************************************************************)
(* Properties.                                                             *)
(***************************************************************************)
DocTypeOK ==
  /\ format \in {"legacy", "django"} /\ part \in 0..5 /\ lines \in 0..MaxLines
  /\ seen \subseteq Tables /\ domains \subseteq Tables /\ hubs \subseteq Tables
  /\ joins \in [titled : BOOLEAN, fenced : BOOLEAN, found : 0..MaxLines]
  /\ ended \in BOOLEAN /\ Len(tables) = Len(notes.blocks)

\* A foreign key is recorded of a table exactly when it is listed under the
\* heading of the outgoing ones of that table: never one of another table, an
\* incoming one, or one in the columns.
ForeignKeysAsSaid ==
  \A i \in DOMAIN tables :
    ~notes.blocks[i].astray => tables[i].fks = notes.blocks[i].fks

\* The columns of a table are rows under its heading of columns, and all of
\* them if the rows follow the heading directly.
ColumnsAsSaid ==
  \A i \in DOMAIN tables :
    ~notes.blocks[i].astray =>
      /\ tables[i].columns \subseteq notes.blocks[i].columns
      /\ notes.blocks[i].apart = "no" => tables[i].columns = notes.blocks[i].columns

\* All of them, too, if blank lines stand between.  Checked to be violated: the
\* blank line that both fixtures have there ends the columns before the first.
ColumnsKept ==
  \A i \in DOMAIN tables :
    ~notes.blocks[i].astray /\ notes.blocks[i].apart # "text" =>
      tables[i].columns = notes.blocks[i].columns

\* Domains and hubs come from their own parts, if 2.2 ends that of the hubs.
PartsApart ==
  /\ domains = notes.domains
  /\ InTables /\ (format = "legacy" => "2.2" \in notes.parts) => hubs = notes.hubs

\* What the parser has read of a table, of the domains and of the hubs is what
\* the document says of them under their own headings, but for descriptions that
\* stand astray, columns apart from their heading, and hubs no 2.2 follows.
TablesAsSaid == ForeignKeysAsSaid /\ ColumnsAsSaid /\ PartsApart
=============================================================================
