----------------------------- MODULE InitSystem -----------------------------
(***************************************************************************)
(* src/deps/FindInitSystem.py: find_init_system runs the checks of         *)
(* KNOWN_INIT_SYSTEMS_CHECKS in insertion order and returns the name of   *)
(* the first that answers true, or 'unknown'.  The machine is fixed for a *)
(* behaviour: what the probes look at.  __is_upstart runs /sbin/init       *)
(* --version with no try, so without /sbin/init Popen raises              *)
(* FileNotFoundError; __is_systemd turns every failure of systemctl into  *)
(* False; __is_sysv wants /etc/init.d/cron to be a file and not a symlink. *)
(***************************************************************************)
EXTENDS Naturals, Sequences

CONSTANT None

\* None is Python's None: no name a check or the fall-through returns.
ASSUME NoneAssumption == None \notin {"upstart", "systemd", "sysv", "unknown"}

VARIABLES
    machine,  \* what the probes find on this machine
    i,        \* index of the next check of the loop
    result,   \* the value returned, or None
    raised    \* the loop ended in an exception

vars == <<machine, i, result, raised>>

(* Mutant: a plain dict iterated in another order (systemd first). *)
UnorderedChecks == <<"systemd", "upstart", "sysv">>

\* KNOWN_INIT_SYSTEMS_CHECKS: insertion order is execution order.
KNOWN_INIT_SYSTEMS_CHECKS == <<"upstart", "systemd", "sysv">>
Names == {"upstart", "systemd", "sysv"}
Machines == [sbinInit : BOOLEAN,        \* /sbin/init exists
             initSaysUpstart : BOOLEAN, \* its --version output contains 'upstart'
             systemctl : {"absent", "fails", "ok"},  \* systemctl's exit
             cron : {"absent", "file", "link", "dangling"}] \* /etc/init.d/cron

\* What each check_func does on machine m: "true", "false" or "raise".
Probe(m, name) ==
    CASE name = "upstart" -> IF ~m.sbinInit THEN "raise"
                             ELSE IF m.initSaysUpstart THEN "true" ELSE "false"
      [] name = "systemd" -> IF m.systemctl = "ok" THEN "true" ELSE "false"
      [] name = "sysv"    -> IF m.cron = "file" THEN "true" ELSE "false"

is_supported_init_system(isys) ==
    isys = "systemd" \/ isys = "sysv" \/ isys = "upstart"

Init ==
    /\ machine \in Machines
    /\ i = 1
    /\ result = None
    /\ raised = FALSE

(* Mutant: 'return result' (the probe's answer) instead of the name. *)
CheckNextReturnsResult ==
    /\ result = None /\ ~raised /\ i <= Len(KNOWN_INIT_SYSTEMS_CHECKS)
    /\ LET probe == Probe(machine, KNOWN_INIT_SYSTEMS_CHECKS[i]) IN
          \/ probe = "raise" /\ raised' = TRUE /\ UNCHANGED <<i, result>>
          \/ probe = "true" /\ result' = probe /\ UNCHANGED <<i, raised>>
          \/ probe = "false" /\ i' = i + 1 /\ UNCHANGED <<result, raised>>
    /\ UNCHANGED machine

\* One iteration: result = check_func(); if result: return init_sys_name
CheckNext ==
    /\ result = None /\ ~raised /\ i <= Len(KNOWN_INIT_SYSTEMS_CHECKS)
    /\ LET probe == Probe(machine, KNOWN_INIT_SYSTEMS_CHECKS[i]) IN
          \/ probe = "raise" /\ raised' = TRUE /\ UNCHANGED <<i, result>>
          \/ probe = "true" /\ result' = KNOWN_INIT_SYSTEMS_CHECKS[i] /\ UNCHANGED <<i, raised>>
          \/ probe = "false" /\ i' = i + 1 /\ UNCHANGED <<result, raised>>
    /\ UNCHANGED machine

\* The loop ran out: return 'unknown'.
ReturnUnknown ==
    /\ result = None /\ ~raised /\ i > Len(KNOWN_INIT_SYSTEMS_CHECKS)
    /\ result' = "unknown"
    /\ UNCHANGED <<machine, i, raised>>

Next == CheckNext \/ ReturnUnknown

Spec == Init /\ [][Next]_vars

-----------------------------------------------------------------------------
(* Properties *)

\* Every variable holds a value of its type.
TypeOK ==
    /\ machine \in Machines
    /\ i \in 1..(Len(KNOWN_INIT_SYSTEMS_CHECKS) + 1)
    /\ result \in Names \cup {"unknown", None}
    /\ raised \in BOOLEAN

\* Reference: the earliest init system, in the precedence the source comment
\* insists on (upstart, systemd, sysv), whose probe answers true.
Precedence == <<"upstart", "systemd", "sysv">>
FirstDetected(m) ==
    LET hits == {k \in 1..3 : Probe(m, Precedence[k]) = "true"}
        first == CHOOSE k \in hits : \A j \in hits : k <= j
    IN  IF hits = {} THEN "unknown" ELSE Precedence[first]

(***************************************************************************)
(* A returned name is the reference answer: on a machine where several     *)
(* probes succeed (systemd next to a plain /etc/init.d/cron), the earlier  *)
(* check wins, and is_supported_init_system holds exactly when some probe *)
(* succeeds.                                                               *)
(***************************************************************************)
DetectsFirstInOrder ==
    result # None =>
        /\ result = FirstDetected(machine)
        /\ is_supported_init_system(result) <=>
               \E n \in Names : Probe(machine, n) = "true"

\* The call as the loop's comment describes it: every checker is executed
\* until one answers, so the result is the precedence answer; the loop
\* index is hidden.
Call == INSTANCE InitSystemSpec WITH Answer <- FirstDetected

(***************************************************************************)
(* "For each init system, execute checker function": find_init_system     *)
(* behaves as one call of InitSystemSpec, which returns the first check,  *)
(* in KNOWN_INIT_SYSTEMS_CHECKS's order, that answers true, or 'unknown', *)
(* and never ends in an exception; the systemd and sysv checkers are      *)
(* executed whatever __is_upstart finds.                                   *)
(***************************************************************************)
CallRefinement == Call!Spec
=============================================================================
