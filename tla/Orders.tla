------------------------------- MODULE Orders -------------------------------
(***************************************************************************)
(* Finite sets as sequences: what sorted() with a key, or a loop that keeps*)
(* some of what it visits, gives.  The order is a set of pairs, so that    *)
(* what these operators give can be stated once for every order.           *)
(***************************************************************************)
EXTENDS Integers, Sequences, FiniteSets

\* The elements of S in an order: each stands behind those before it.
Rank(S, before, x) == Cardinality({y \in S : <<y, x>> \in before})
Nth(S, before, k) == CHOOSE x \in S : Rank(S, before, x) = k - 1
Sorted(S, before) == [k \in 1..Cardinality(S) |-> Nth(S, before, k)]

\* Numbers, and places in a list of lists, from the first to the last.
Upwards(S) == {p \in S \X S : p[1] < p[2]}
Ascending(S) == Sorted(S, Upwards(S))

Lexical(S) == {p \in S \X S : \/ p[1][1] < p[2][1]
                              \/ p[1][1] = p[2][1] /\ p[1][2] < p[2][2]}
InPlace(S) == Sorted(S, Lexical(S))

\* By a number each has, the greatest first; equals by themselves.
Downwards(S, key) == {p \in S \X S : key[p[1]] > key[p[2]] \/ (key[p[1]] = key[p[2]] /\ p[1] < p[2])}
Best(S, key) == Sorted(S, Downwards(S, key))

\* What a list has at some of its places, its first n elements, and the places
\* where something is for the first time: the list without repetitions.
At(s, places) == [k \in DOMAIN places |-> s[places[k]]]
AtMost(s, n) == SubSeq(s, 1, IF n < Len(s) THEN n ELSE Len(s))
Firsts(s) == {i \in DOMAIN s : \A j \in 1..(i - 1) : s[j] # s[i]}
Once(s) == At(s, Ascending(Firsts(s)))

\* The same of a list of lists, whose places are pairs.
Places(lists) == UNION {{<<i, j>> : j \in DOMAIN lists[i]} : i \in DOMAIN lists}
Within(lists, places) == [k \in DOMAIN places |-> lists[places[k][1]][places[k][2]]]
=============================================================================
