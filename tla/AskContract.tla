---------------------------- MODULE AskContract ----------------------------
(***************************************************************************)
(* What an ask pipeline promises its caller, whatever it is built from:    *)
(* IAskPipeline (src/src/insightai/domain/ports/ask_pipeline.py) and the   *)
(* events of AskStreamEvent (domain/models/ask.py).  A streamed call shows *)
(* phases in one order, speaks the answer only in the last of them, and    *)
(* ends with one terminal event after which it shows nothing; a plain call *)
(* shows nothing and returns or raises.  A pipeline need not show every    *)
(* phase: LastPhase is the one in which its streams may end well.          *)
(***************************************************************************)
EXTENDS AskPhases

CONSTANTS
    Requests,   \* the calls made to the pipeline
    LastPhase   \* the last phase of a stream that succeeds

VARIABLES
    stage,      \* stage[r]: where the call stands for its caller
    phase,      \* phase[r]: the last phase announced to the client
    spoke       \* spoke[r]: did an answer token reach the client?

contractVars == <<stage, phase, spoke>>

Stages == {"new", "streaming", "computing", "done", "failed", "abandoned"}

ContractInit ==
    /\ stage = [r \in Requests |-> "new"]
    /\ phase = [r \in Requests |-> Silent]
    /\ spoke = [r \in Requests |-> FALSE]

\* A plain call starts in silence; a streamed one announces its first phase.
Admit(r) ==
    /\ stage[r] = "new"
    /\ \/ /\ stage' = [stage EXCEPT ![r] = "computing"]
          /\ UNCHANGED phase
       \/ /\ stage' = [stage EXCEPT ![r] = "streaming"]
          /\ \E p \in {Routing, WritingSQL} : phase' = [phase EXCEPT ![r] = p]
    /\ UNCHANGED spoke

Announce(r) ==
    /\ stage[r] = "streaming"
    /\ \E p \in Phases :
          /\ p > phase[r]
          /\ phase' = [phase EXCEPT ![r] = p]
    /\ UNCHANGED <<stage, spoke>>

Speak(r) ==
    /\ stage[r] = "streaming"
    /\ phase[r] = Answering
    /\ spoke' = [spoke EXCEPT ![r] = TRUE]
    /\ UNCHANGED <<stage, phase>>

Succeed(r) ==
    /\ \/ stage[r] = "computing"
       \/ stage[r] = "streaming" /\ phase[r] = LastPhase
    /\ stage' = [stage EXCEPT ![r] = "done"]
    /\ UNCHANGED <<phase, spoke>>

Fail(r) ==
    /\ stage[r] \in {"computing", "streaming"}
    /\ stage' = [stage EXCEPT ![r] = "failed"]
    /\ UNCHANGED <<phase, spoke>>

\* The client of a stream hangs up.
Abandon(r) ==
    /\ stage[r] = "streaming"
    /\ stage' = [stage EXCEPT ![r] = "abandoned"]
    /\ UNCHANGED <<phase, spoke>>

ContractNext ==
    \E r \in Requests :
        Admit(r) \/ Announce(r) \/ Speak(r) \/ Succeed(r) \/ Fail(r) \/ Abandon(r)

ContractSpec == ContractInit /\ [][ContractNext]_contractVars
=============================================================================
