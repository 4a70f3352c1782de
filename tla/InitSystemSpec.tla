---------------------------- MODULE InitSystemSpec ----------------------------
(***************************************************************************)
(* What a call of find_init_system promises, as one step, in the terms of *)
(* its loop's comment ("For each init system, execute checker function"): *)
(* on the machine it runs on, it returns the answer of the precedence the *)
(* source comment insists on, and ends in no exception.  How the loop     *)
(* gets there is not seen.                                                 *)
(*                                                                         *)
(* InitSystem!CallRefinement checks the loop against this specification.  *)
(***************************************************************************)
CONSTANTS
    Machines,   \* what the probes can find on a machine
    None,       \* no value returned yet
    Answer(_)   \* the init system name the call returns on a machine

VARIABLES
    machine,  \* the machine the call runs on
    result,   \* the value returned, or None
    raised    \* the call ended in an exception

cvars == <<machine, result, raised>>

Init ==
    /\ machine \in Machines
    /\ result = None
    /\ raised = FALSE

\* find_init_system(): return Answer(machine).
Call ==
    /\ result = None
    /\ result' = Answer(machine)
    /\ UNCHANGED <<machine, raised>>

Spec == Init /\ [][Call]_cvars
=============================================================================
