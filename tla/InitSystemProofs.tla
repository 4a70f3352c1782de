-------------------------- MODULE InitSystemProofs --------------------------
(***************************************************************************)
(* Proofs about InitSystem: the loop of find_init_system keeps its types,  *)
(* and whatever it returns is the first probe, in the documented order,    *)
(* that succeeds on the machine.                                           *)
(***************************************************************************)
EXTENDS InitSystem, TLAPS

USE NoneAssumption

K == KNOWN_INIT_SYSTEMS_CHECKS

LEMMA ChecksValues ==
    /\ Len(K) = 3
    /\ K[1] = "upstart" /\ K[2] = "systemd" /\ K[3] = "sysv"
    /\ Names = {K[1], K[2], K[3]}
BY DEF K, KNOWN_INIT_SYSTEMS_CHECKS, Names

\* A probe answers true, false or raise; only the upstart probe raises.
LEMMA ProbeValues ==
    ASSUME NEW m \in Machines, NEW n \in Names
    PROVE  /\ Probe(m, n) \in {"true", "false", "raise"}
           /\ Probe(m, n) = "raise" => n = "upstart"
BY DEF Probe, Names

(***************************************************************************)
(* The inductive invariant of the loop: the checks before index i all      *)
(* answered false; a returned name is the check at i, which answered true; *)
(* 'unknown' comes after the last check; a raise happened at the check at  *)
(* i and returned nothing.                                                 *)
(***************************************************************************)
LoopInv ==
    /\ TypeOK
    /\ \A k \in 1..(i - 1) : Probe(machine, K[k]) = "false"
    /\ result \in Names => i \in 1..3 /\ result = K[i] /\ Probe(machine, K[i]) = "true"
    /\ result = "unknown" => i = 4
    /\ raised => i \in 1..3 /\ Probe(machine, K[i]) = "raise" /\ result = None

LEMMA InitLoopInv == Init => LoopInv
<1> SUFFICES ASSUME Init PROVE LoopInv
  OBVIOUS
<1>1. TypeOK
  <2>1. machine \in Machines /\ i \in 1..(Len(KNOWN_INIT_SYSTEMS_CHECKS) + 1)
    BY ChecksValues DEF Init, K
  <2>2. result \in Names \cup {"unknown", None} /\ raised \in BOOLEAN
    BY Zenon DEF Init
  <2>. QED BY <2>1, <2>2 DEF TypeOK
<1>2. \A k \in 1..(i - 1) : Probe(machine, K[k]) = "false"
  BY DEF Init
<1>3. result \notin Names /\ result # "unknown" /\ ~raised
  BY DEF Init, Names
<1>. QED BY <1>1, <1>2, <1>3 DEF LoopInv

LEMMA StepLoopInv == LoopInv /\ [Next]_vars => LoopInv'
<1> SUFFICES ASSUME LoopInv, [Next]_vars PROVE LoopInv'
  OBVIOUS
<1>1. i \in 1..4 /\ machine \in Machines
  BY ChecksValues DEF LoopInv, TypeOK, K
<1>2. CASE CheckNext
  <2>1. result = None /\ ~raised /\ i \in 1..3 /\ UNCHANGED machine
    BY <1>1, <1>2, ChecksValues DEF CheckNext, K
  <2> DEFINE probe == Probe(machine, K[i])
  <2>2. K[i] \in Names /\ probe \in {"true", "false", "raise"}
    BY <1>1, <2>1, ChecksValues, ProbeValues
  <2>3. CASE probe = "raise"
    <3>1. raised' = TRUE /\ UNCHANGED <<i, result, machine>>
      BY <1>2, <2>1, <2>3 DEF CheckNext, K
    <3>. QED BY <1>1, <2>1, <2>3, <3>1 DEF LoopInv, TypeOK, K
  <2>4. CASE probe = "true"
    <3>1. result' = K[i] /\ UNCHANGED <<i, raised, machine>>
      BY <1>2, <2>1, <2>4 DEF CheckNext, K
    <3>. QED BY <1>1, <2>1, <2>2, <2>4, <3>1, ChecksValues DEF LoopInv, TypeOK
  <2>5. CASE probe = "false"
    <3>1. i' = i + 1 /\ UNCHANGED <<result, raised, machine>>
      BY <1>2, <2>1, <2>5 DEF CheckNext, K
    <3>2. \A k \in 1..(i' - 1) : Probe(machine', K[k]) = "false"
      BY <1>1, <2>5, <3>1 DEF LoopInv
    <3>. QED BY <1>1, <2>1, <3>1, <3>2, ChecksValues DEF LoopInv, TypeOK, K
  <2>. QED BY <2>2, <2>3, <2>4, <2>5
<1>3. CASE ReturnUnknown
  <2>1. i = 4 /\ result' = "unknown" /\ UNCHANGED <<machine, i, raised>>
    BY <1>1, <1>3, ChecksValues DEF ReturnUnknown, K
  <2>. QED BY <1>3, <2>1 DEF LoopInv, TypeOK, ReturnUnknown, Names, K
<1>4. CASE UNCHANGED vars
  BY <1>4 DEF LoopInv, TypeOK, vars
<1>. QED BY <1>2, <1>3, <1>4 DEF Next

\* The loop keeps its variables in their types on every machine.
THEOREM TypeCorrect == Spec => []TypeOK
<1>1. LoopInv => TypeOK
  BY DEF LoopInv
<1>. QED BY InitLoopInv, StepLoopInv, <1>1, PTL DEF Spec

\* The reference answer is the check at index i when it is the first that
\* answers true.
LEMMA FirstHit ==
    ASSUME NEW m \in Machines, NEW j \in 1..3,
           Probe(m, K[j]) = "true",
           \A k \in 1..(j - 1) : Probe(m, K[k]) = "false"
    PROVE  FirstDetected(m) = K[j]
<1> DEFINE hits == {k \in 1..3 : Probe(m, Precedence[k]) = "true"}
<1>1. Precedence = K
  BY DEF Precedence, K, KNOWN_INIT_SYSTEMS_CHECKS
<1>2. j \in hits /\ \A k \in hits : j <= k
  BY <1>1
<1>3. (CHOOSE k \in hits : \A l \in hits : k <= l) = j
  BY <1>2
<1>. QED BY <1>1, <1>2, <1>3 DEF FirstDetected

\* With no check answering true, the reference answer is 'unknown'.
LEMMA NoHit ==
    ASSUME NEW m \in Machines, \A k \in 1..3 : Probe(m, K[k]) = "false"
    PROVE  FirstDetected(m) = "unknown"
<1>1. Precedence = K
  BY DEF Precedence, K, KNOWN_INIT_SYSTEMS_CHECKS
<1>. QED BY <1>1 DEF FirstDetected

\* The loop invariant gives the reference answer and the support test.
LEMMA LoopInvDetects == LoopInv => DetectsFirstInOrder
<1> SUFFICES ASSUME LoopInv, result # None
             PROVE  /\ result = FirstDetected(machine)
                    /\ is_supported_init_system(result) <=>
                           \E n \in Names : Probe(machine, n) = "true"
  BY DEF DetectsFirstInOrder
<1>1. machine \in Machines /\ result \in Names \cup {"unknown"}
  BY DEF LoopInv, TypeOK
<1>2. CASE result \in Names
  <2>1. i \in 1..3 /\ result = K[i] /\ Probe(machine, K[i]) = "true"
    BY <1>2 DEF LoopInv
  <2>2. \A k \in 1..(i - 1) : Probe(machine, K[k]) = "false"
    BY DEF LoopInv
  <2>3. result = FirstDetected(machine)
    BY <1>1, <2>1, <2>2, FirstHit
  <2>4. is_supported_init_system(result)
    BY <1>2 DEF is_supported_init_system, Names
  <2>. QED BY <1>2, <2>1, <2>3, <2>4, ChecksValues
<1>3. CASE result = "unknown"
  <2>1. \A k \in 1..3 : Probe(machine, K[k]) = "false"
    BY <1>3 DEF LoopInv
  <2>2. result = FirstDetected(machine)
    BY <1>1, <1>3, <2>1, NoHit
  <2>3. ~is_supported_init_system(result)
    BY <1>3 DEF is_supported_init_system
  <2>4. \A n \in Names : Probe(machine, n) # "true"
    BY <2>1, ChecksValues
  <2>. QED BY <2>2, <2>3, <2>4
<1>. QED BY <1>1, <1>2, <1>3

(***************************************************************************)
(* On every machine the probes can tell apart, a value find_init_system    *)
(* returns is the first check, in the order KNOWN_INIT_SYSTEMS_CHECKS      *)
(* lists them (upstart, systemd, sysv), that answers true, or 'unknown'    *)
(* when none does; and is_supported_init_system accepts it exactly when   *)
(* some probe succeeded.                                                   *)
(***************************************************************************)
THEOREM DetectsInOrder == Spec => []DetectsFirstInOrder
BY InitLoopInv, StepLoopInv, LoopInvDetects, PTL DEF Spec

=============================================================================
