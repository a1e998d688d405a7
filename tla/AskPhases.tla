---------------------------- MODULE AskPhases ----------------------------
(***************************************************************************)
(* AskStreamPhase (domain/models/ask.py): the phases a streamed call       *)
(* announces, in the order a client sees them.  Silent stands for a call   *)
(* that has announced none.                                                *)
(***************************************************************************)
EXTENDS Naturals

Silent     == 0
Routing    == 1
Retrieving == 2
WritingSQL == 3
Governing  == 4
Validating == 5
Executing  == 6
Answering  == 7

Phases == Silent .. Answering
=============================================================================
