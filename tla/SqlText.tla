------------------------------ MODULE SqlText ------------------------------
(***************************************************************************)
(* What postprocess_generated_sql does to the text a model has written,    *)
(* before it is validated: the first fenced block is taken out of it, the  *)
(* comments go, white space collapses, more than one statement is refused. *)
(* The code works on the text; it has no notion of a string literal, or of *)
(* a comment in a comment.                                                 *)
(*                                                                         *)
(* A text is a sequence of marks: words, white space "sp" and "nl", the    *)
(* quote ', ; the marks of comments, and "fence" for ``` with its tag sql, *)
(* if it has one.                                                          *)
(***************************************************************************)
EXTENDS Integers, Sequences, SequencesExt

Blank == {"sp", "nl"}

\* The rest of a scan: what is in out, and in held if it was held back.
Kept(scan) == scan.out \o scan.held

(***************************************************************************)
(* The code.                                                               *)
(***************************************************************************)
\* What str.strip leaves of a text.
Trimmed(s) ==
  LET solid == {i \in DOMAIN s : s[i] \notin Blank}
  IN  IF solid = {} THEN <<>> ELSE SubSeq(s, Min(solid), Max(solid))

\* extract_sql_text: what stands between the first two fences, wherever they
\* stand, is the SQL, and all else is dropped; with fewer the whole text is.
\* (The branch for a text wrapped in a fence is never reached: the pattern
\* matches such a text.)
Extracted(s) ==
  LET fences == {i \in DOMAIN s : s[i] = "fence"}
      first == Min(fences)
  IN  IF Cardinality(fences) < 2 THEN Trimmed(s)
      ELSE Trimmed(SubSeq(s, first + 1, Min(fences \ {first}) - 1))

\* From the first open mark to the next closing one, a space; an open mark
\* that is never closed is left.
StripBlocks(s) ==
  LET Scan(a, x) ==
        CASE a.held = <<>> /\ x = "/*" -> [a EXCEPT !.held = <<x>>]
          [] a.held = <<>> /\ x # "/*" -> [a EXCEPT !.out = Append(@, x)]
          [] a.held # <<>> /\ x = "*/" -> [out |-> Append(a.out, "sp"), held |-> <<>>]
          [] a.held # <<>> /\ x # "*/" -> [a EXCEPT !.held = Append(@, x)]
  IN  Kept(FoldLeft(Scan, [out |-> <<>>, held |-> <<>>], s))

\* From -- to the end of the line, a space.
StripLines(s) ==
  LET Scan(a, x) ==
        CASE x = "nl" -> [out |-> Append(a.out, x), in |-> FALSE]
          [] x = "--" /\ ~a.in -> [out |-> Append(a.out, "sp"), in |-> TRUE]
          [] x # "nl" /\ a.in -> a
          [] OTHER -> [a EXCEPT !.out = Append(@, x)]
  IN  FoldLeft(Scan, [out |-> <<>>, in |-> FALSE], s).out

\* Mutation: comments are taken out without leaving a space.
StripCommentsGlued(s) ==
  LET Scan(a, x) ==
        CASE a.held = <<>> /\ x = "/*" -> [a EXCEPT !.held = <<x>>]
          [] a.held = <<>> /\ x # "/*" -> [a EXCEPT !.out = Append(@, x)]
          [] a.held # <<>> /\ x = "*/" -> [a EXCEPT !.held = <<>>]
          [] a.held # <<>> /\ x # "*/" -> [a EXCEPT !.held = Append(@, x)]
  IN  StripLines(Kept(FoldLeft(Scan, [out |-> <<>>, held |-> <<>>], s)))

\* strip_sql_comments: blocks before lines.
StripComments(s) == StripLines(StripBlocks(s))

\* normalize_sql_whitespace: a run of white space is one space, none at the ends.
Normalized(s) ==
  LET Scan(out, x) == IF x \notin Blank THEN Append(out, x)
                      ELSE IF out # <<>> /\ Last(out) = "sp" THEN out ELSE Append(out, "sp")
  IN  Trimmed(FoldLeft(Scan, <<>>, s))

\* assert_single_statement: the semicolons at the end do not count; before
\* them, none may have anything but white space behind it.
TrailingSemicolons(s) == {i \in DOMAIN s : \A j \in i..Len(s) : s[j] = ";"}
Single(s) ==
  LET text == Trimmed(StripComments(s))
      body == Trimmed(SubSeq(text, 1, Len(text) - Cardinality(TrailingSemicolons(text))))
  IN  \A i, j \in DOMAIN body : body[i] = ";" /\ i < j => body[j] \in Blank

\* postprocess_generated_sql, up to the validator: only what was extracted is
\* looked at.
Postprocessed(s) ==
  LET sql == Extracted(s)
      clean == Normalized(StripComments(sql))
  IN  IF sql = <<>> THEN [sql |-> <<>>, rejected |-> FALSE]
      ELSE IF ~Single(sql) \/ clean = <<>> THEN [sql |-> <<>>, rejected |-> TRUE]
      ELSE [sql |-> clean, rejected |-> FALSE]

(***************************************************************************)
(* What the text means: a reading of it with literals and comments.        *)
(***************************************************************************)
\* The SQL an author fences off, in the first block that is closed.
Fenced(s) ==
  LET Scan(b, x) ==
        CASE x = "fence" -> [b EXCEPT !.fences = @ + 1]
          [] x # "fence" /\ b.fences = 1 -> [b EXCEPT !.out = Append(@, x)]
          [] OTHER -> b
      end == FoldLeft(Scan, [fences |-> 0, out |-> <<>>], s)
  IN  IF end.fences > 1 THEN end.out ELSE s

\* state is code, literal, line or block; lone says that every mark of a
\* comment has been one.
Reading(s) ==
  LET Code(r, x) ==
        CASE x = "'"  -> [r EXCEPT !.state = "literal", !.out = Append(@, x)]
          [] x = "--" -> [r EXCEPT !.state = "line", !.out = Append(@, "sp")]
          [] x = "/*" -> [r EXCEPT !.state = "block", !.out = Append(@, "sp")]
          [] x = "*/" -> [r EXCEPT !.lone = FALSE]
          [] OTHER    -> [r EXCEPT !.out = Append(@, x)]
      Literal(r, x) ==
        [r EXCEPT !.out = Append(@, IF x = ";" THEN "quoted" ELSE x),
                  !.state = IF x = "'" THEN "code" ELSE @,
                  !.lone = @ /\ x \notin {"--", "/*", "*/"}]
      Comment(r, x, close) ==
        [r EXCEPT !.state = IF x = close THEN "code" ELSE @,
                  !.out = IF x = "nl" /\ close = "nl" THEN Append(@, x) ELSE @,
                  !.lone = @ /\ x \notin {"--", "/*", "*/"} \ {close}]
      Read(r, x) == CASE r.state = "code"    -> Code(r, x)
                      [] r.state = "literal" -> Literal(r, x)
                      [] r.state = "line"    -> Comment(r, x, "nl")
                      [] r.state = "block"   -> Comment(r, x, "*/")
      end == FoldLeft(Read, [state |-> "code", out |-> <<>>, lone |-> TRUE], s)
  IN  [end EXCEPT !.lone = @ /\ end.state \in {"code", "line"}]

\* The marks that matter, white space between them counting once.
Meaning(s) == Normalized(Reading(s).out)
Statements(s) ==
  LET m == SelectSeq(Meaning(s), LAMBDA x : x # "sp")
  IN  Cardinality({i \in DOMAIN m : m[i] # ";" /\ (i = 1 \/ m[i - 1] = ";")})

\* One statement, and semicolons at its end only, none of them in a literal.
Plain(s) ==
  LET m == Meaning(s)
  IN  /\ m # <<>> /\ "quoted" \notin ToSet(m)
      /\ \A i, j \in DOMAIN m : m[i] = ";" /\ i < j => m[j] = ";"

(***************************************************************************)
(* What postprocessing promises: r is what Postprocessed gives for s.      *)
(***************************************************************************)
\* Of a text whose literals hold no mark of a comment, and whose comments hold no
\* other, what is accepted means what was written, but for the amount of white
\* space, in literals too, and is one statement; what is plainly one statement
\* is accepted.  What was written is the first fenced block, if there is one: the
\* text around it, a statement in a second block too, is neither refused nor kept.
SqlMeans(s, r) ==
  LET written == Fenced(s)
  IN  Reading(written).lone =>
        /\ r.sql # <<>> => Meaning(r.sql) = Meaning(written) /\ Statements(written) <= 1
        /\ Plain(written) => ~r.rejected
=============================================================================
