--------------------------- MODULE DocumentChunks ---------------------------
(***************************************************************************)
(* chunk_document_text, which cuts a document into the chunks that are     *)
(* embedded: a heading starts a section, a section longer than a chunk is  *)
(* read through windows that overlap.                                      *)
(*                                                                         *)
(* A text is a sequence of marks: "x" is a character, "sp" and "nl" are    *)
(* white space, "#" one to six # and the space after them.  A part of the  *)
(* text is known by its first and its last position; size and overlap are  *)
(* those of DocumentIngestOptions, which has overlap < size.               *)
(***************************************************************************)
EXTENDS Orders, FiniteSetsExt

White == {"sp", "nl"}
NoTitle == [first |-> 0, last |-> 0]  \* a title is known by its place, too

\* str.strip: from the first to the last character that is not white, if any.
Solid(text, a, b) == {i \in a..b : text[i] \notin White}
Stripped(text, a, b) == [first |-> Min(Solid(text, a, b)), last |-> Max(Solid(text, a, b))]

LineStart(text, i) == i = 1 \/ text[i - 1] = "nl"
LineEnd(text, i) == Min({j \in i..Len(text) : j = Len(text) \/ text[j + 1] = "nl"})

(***************************************************************************)
(* _split_markdown_sections.                                               *)
(***************************************************************************)
\* _HEADER_PATTERN: the white space after # may hold line ends, so that an
\* empty heading takes the next line with text as its title.
HeadingStarts(text) == {i \in 1..(Len(text) - 1) : text[i] = "#" /\ LineStart(text, i)}
TitleAfter(text, i) ==
  LET first == Min(Solid(text, i + 1, Len(text)))
  IN  Stripped(text, first, LineEnd(text, first))
HeadingEnd(text, i) == LineEnd(text, TitleAfter(text, i).first)

\* The headings of a stripped text, by their #, as they are found from left to
\* right: a line that is the title of one before it is none itself.
Headings(text) ==
  CHOOSE H \in SUBSET HeadingStarts(text) :
    \A i \in HeadingStarts(text) : i \in H <=> \A h \in H : h < i => HeadingEnd(text, h) < i

\* The sections with something in them: what is after each heading, and, as
\* section 0, what is before the first.
SectionStart(text, k) == IF k = 0 THEN 1 ELSE HeadingEnd(text, k) + 1
SectionEnd(text, heads, k) ==
  LET later == {h \in heads : h > k} IN IF later = {} THEN Len(text) ELSE Min(later) - 1
Sections(text, heads) ==
  {k \in {0} \cup heads : Solid(text, SectionStart(text, k), SectionEnd(text, heads, k)) # {}}

Title(text, k) == IF k = 0 THEN NoTitle ELSE TitleAfter(text, k)
Body(text, heads, k) == Stripped(text, SectionStart(text, k), SectionEnd(text, heads, k))

(***************************************************************************)
(* _window_text.                                                           *)
(***************************************************************************)
\* Mutation: the overlap is one character short.
StepLong(size, overlap) == Min({size, size - overlap + 1})

Step(size, overlap) == size - overlap

\* The windows of a body, from 0 to the one that reaches its end; a body that
\* fits is its only window, and one with nothing in it is left out.
From(body, step, n) == body.first + n * step
To(body, size, step, n) ==
  LET end == From(body, step, n) + size - 1 IN IF end < body.last THEN end ELSE body.last
Windows(text, body, size, step) ==
  {n \in 0..(body.last - body.first) :
     /\ n > 0 => To(body, size, step, n - 1) < body.last
     /\ Solid(text, From(body, step, n), To(body, size, step, n)) # {}}

(***************************************************************************)
(* chunk_document_text of a text that is stripped first; the index of a    *)
(* chunk is its place in the result.                                       *)
(***************************************************************************)
Normalised(text) ==
  IF Solid(text, 1, Len(text)) = {} THEN <<>>
  ELSE LET all == Stripped(text, 1, Len(text)) IN SubSeq(text, all.first, all.last)

\* The cuts: a section, and a window of it.
Cuts(text, heads, size, step) ==
  UNION {{<<k, n>> : n \in Windows(text, Body(text, heads, k), size, step)} : k \in Sections(text, heads)}
ChunkAt(text, heads, size, step, cut) ==
  LET body == Body(text, heads, cut[1])
  IN  [section |-> Title(text, cut[1]),
       text |-> Stripped(text, From(body, step, cut[2]), To(body, size, step, cut[2]))]

ChunksOf(given, size, overlap) ==
  LET text == Normalised(given)
      heads == Headings(text)
      step == Step(size, overlap)
      cuts == InPlace(Cuts(text, heads, size, step))
  IN  [k \in DOMAIN cuts |-> ChunkAt(text, heads, size, step, cuts[k])]

(***************************************************************************)
(* What is promised of the chunks.                                         *)
(***************************************************************************)
\* The lines of a heading: its own and, if there is nothing more on it, those
\* up to the title.
OfHeading(text) == UNION {i..HeadingEnd(text, i) : i \in HeadingStarts(text)}

Holds(chunk, a, b) == chunk.text.first <= a /\ b <= chunk.text.last

\* The text under the headings is in the chunks: each character, and whatever
\* fits in the overlap and one more, whole; no chunk is empty, too long or goes
\* over a heading; they are in order; and where no heading is empty each bears
\* the title of the heading before it.
ChunksAsSaid(given, size, overlap, chunks) ==
  LET text == Normalised(given)
      under == Solid(text, 1, Len(text)) \ OfHeading(text)
  IN  /\ \A a, b \in under :
           /\ a <= b /\ b - a <= overlap /\ HeadingStarts(text) \cap a..b = {}
           => \E k \in DOMAIN chunks : Holds(chunks[k], a, b)
      /\ \A k \in DOMAIN chunks :
           LET c == chunks[k].text
           IN  /\ c.first <= c.last /\ c.last - c.first < size
               /\ {text[c.first], text[c.last]} \cap White = {}
      /\ \A k \in DOMAIN chunks : k > 1 =>
           /\ chunks[k - 1].text.first <= chunks[k].text.first
           /\ chunks[k - 1].text.last <= chunks[k].text.last
      /\ (\A i \in HeadingStarts(text) : LineEnd(text, i) >= TitleAfter(text, i).first) =>
           \A k \in DOMAIN chunks :
             LET above == {i \in HeadingStarts(text) : i < chunks[k].text.first}
             IN  /\ HeadingStarts(text) \cap chunks[k].text.first..chunks[k].text.last = {}
                 /\ chunks[k].section = IF above = {} THEN NoTitle ELSE TitleAfter(text, Max(above))
=============================================================================
