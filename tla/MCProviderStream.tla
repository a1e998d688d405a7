-------------------------- MODULE MCProviderStream --------------------------
(* Instances of ProviderStream for TLC.                                     *)
EXTENDS ProviderStream, TLC

CONSTANTS c1, c2  \* two calls, of which the second meets empty streams only

MCMaxEvents == c1 :> 2 @@ c2 :> 0

Event(c, t, f, u) == [choices |-> c, text |-> t, finish |-> f, usage |-> u]

\* A delta, a last delta with its reason, usage with and without choices.
MCEvents == {Event(TRUE, TRUE, FALSE, FALSE), Event(TRUE, TRUE, TRUE, FALSE),
             Event(TRUE, FALSE, FALSE, TRUE), Event(FALSE, FALSE, FALSE, TRUE)}
=============================================================================
