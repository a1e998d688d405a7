----------------------------- MODULE ResultRows -----------------------------
(***************************************************************************)
(* From the rows of a statement to the rows of a prompt: wrap_with_row_cap *)
(* and ReadOnlyQueryExecutor, which cap the rows of a result, and          *)
(* sample_rows_for_prompt, which picks the rows a model is shown.  A       *)
(* result is the number of its rows, which are numbered from 0.            *)
(*                                                                         *)
(* A statement has a limit of its own or not, in one of these forms:       *)
(*   plain     none                                                        *)
(*   literal   LIMIT n or TOP n                                            *)
(*   replaced  any other limit that sqlglot holds as the limit of a SELECT:*)
(*             FETCH, an expression                                        *)
(*   inside    a limit of a subquery, of a statement sqlglot does not      *)
(*             parse, or of a set operation: the cap goes around it        *)
(*   explain   EXPLAIN of any of them, which is run as it stands           *)
(***************************************************************************)
EXTENDS Orders, SequencesExt

Forms == {"plain", "literal", "replaced", "inside", "explain"}

\* The lesser and the greater of two numbers.
Least(a, b) == IF a < b THEN a ELSE b
Most(a, b) == IF a > b THEN a ELSE b

(***************************************************************************)
(* The executor.                                                           *)
(***************************************************************************)
\* RunQueryRequest.to_execution_options: a request's own cap goes before the
\* one of the settings; 0 stands for none.
MaxRows(request, default) == IF request # 0 THEN request ELSE default

\* The rows the database returns for a capped statement, of those it has.
Fetched(statement, available, cap) ==
  CASE statement.form \in {"plain", "replaced"} -> Least(available, cap)
    [] statement.form \in {"literal", "inside"} -> Least(available, Least(statement.own, cap))
    [] statement.form = "explain"               -> available

\* ReadOnlyQueryExecutor.execute: one row more than wanted tells that there
\* are more.
Executed(statement, available, max) ==
  LET fetched == Fetched(statement, available, max + 1)
  IN  [rows |-> Least(fetched, max), truncated |-> fetched > max]

(***************************************************************************)
(* The sample.                                                             *)
(***************************************************************************)
\* round(a / b) of Python: a half goes to the even neighbour.
HalfToEven(a, b) ==
  LET q == a \div b  r == 2 * (a % b)
  IN  IF r > b \/ (r = b /\ q % 2 = 1) THEN q + 1 ELSE q

\* _even_indices.
EvenIndices(start, end, count) ==
  IF count = 1 THEN {(start + end) \div 2}
  ELSE {start + HalfToEven(i * (end - start), count - 1) : i \in 0..(count - 1)}

\* _head_tail_spread_indices: a third from either end, the others spread over
\* the rows between them, of which the last is given.
Third(max) == Most(1, max \div 3)
Picked(total, max, last) ==
  LET slots == max - 2 * Third(max)
      middle == IF slots > 0 /\ last >= Third(max) THEN EvenIndices(Third(max), last, slots) ELSE {}
  IN  AtMost(Ascending((0..(Third(max) - 1)) \cup middle \cup ((total - Third(max))..(total - 1))), max)

\* Mutation: the middle runs into the tail.
SpreadIntoTail(total, max) == Picked(total, max, total - Third(max))

Spread(total, max) == Picked(total, max, total - Third(max) - 1)

\* sample_rows_for_prompt.
Sample(total, max) ==
  IF total <= max THEN [indices |-> [i \in 1..total |-> i - 1], sampled |-> FALSE]
  ELSE [indices |-> Spread(total, max), sampled |-> TRUE]

(***************************************************************************)
(* The prompt and the answer.                                              *)
(***************************************************************************)
\* format_query_result_for_prompt: the rows and the notes below them.  A
\* result without rows has no notes.
Formatted(result, display) ==
  LET sample == Sample(result.rows, display)
  IN  [shown |-> sample.indices,
       sampledNote |-> IF sample.sampled THEN <<Len(sample.indices), result.rows>> ELSE <<>>,
       truncatedNote |-> result.rows > 0 /\ result.truncated]

\* from_llm_output and from_streamed_text: the counts are those of the
\* execution, whatever the model has said of them.
Answered(result, modelNotes) ==
  [rowCount |-> result.rows, truncationNoted |-> modelNotes \/ result.truncated]

\* The way of a statement through all of it.
RowsOf(statement, available, max, display, modelNotes) ==
  LET result == Executed(statement, available, max)
  IN  [result |-> result, prompt |-> Formatted(result, display), answer |-> Answered(result, modelNotes)]

(***************************************************************************)
(* What is promised of r, which RowsOf gives.                              *)
(***************************************************************************)
\* The rows a statement asks for, by the limit it states or, if that is not
\* kept, all of them.
Asked(statement, available) ==
  IF statement.form \in {"literal", "inside"} THEN Least(available, statement.own) ELSE available

\* The result has the rows asked for up to the cap and says whether there are
\* more; the prompt shows as many as it may, each once and in order, from the
\* first to the last, says how many of how many when it leaves some out, and
\* that there are more when there are; so does the answer.
RowsAsSaid(statement, available, max, display, modelNotes, r) ==
  LET asked == Asked(statement, available)
      shown == r.prompt.shown
  IN  /\ r.result = [rows |-> Least(asked, max), truncated |-> asked > max]
      /\ Len(shown) = Least(r.result.rows, display)
      /\ \A i, j \in DOMAIN shown : i < j => shown[i] < shown[j]
      /\ \A i \in DOMAIN shown : shown[i] \in 0..(r.result.rows - 1)
      /\ shown # <<>> => shown[1] = 0
      /\ Len(shown) >= 2 => Last(shown) = r.result.rows - 1
      /\ r.prompt.sampledNote = IF Len(shown) < r.result.rows THEN <<Len(shown), r.result.rows>> ELSE <<>>
      /\ r.prompt.truncatedNote = (asked > max)
      /\ asked > max => r.answer.truncationNoted /\ r.answer.rowCount = max
=============================================================================
