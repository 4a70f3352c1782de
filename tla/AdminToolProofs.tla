--------------------------- MODULE AdminToolProofs ---------------------------
(***************************************************************************)
(* Proofs about AdminTool for every value of the constants satisfying      *)
(* AdminAssumption: both the script as written and with its menu call     *)
(* resolved.                                                               *)
(***************************************************************************)
EXTENDS AdminTool, TLAPS

USE AdminAssumption

\* The lines a step adds to out are lines of Msg.
LEMMA SayLines ==
    ASSUME NEW k \in Lines
    PROVE  Say(k) \in Msg
BY DEF Say, Msg

LEMMA TracebackLines ==
    ASSUME NEW e \in Tracebacks
    PROVE  Traceback(e) \in Msg
BY DEF Traceback, Msg

\* The start states have every variable in its type.
LEMMA TypeInit == Init => TypeOK
BY DEF Init, TypeOK

\* Every step of the script and of the daemon keeps the types.
LEMMA TypeStep == TypeOK /\ [Next]_vars => TypeOK'
<1> SUFFICES ASSUME TypeOK, [Next]_vars PROVE TypeOK'
  OBVIOUS
<1>. USE DEF TypeOK
<1>1. ASSUME NEW opt \in Options, Main(opt), UNCHANGED resolves PROVE TypeOK'
  <2>1. out' \in SUBSET Msg
    BY <1>1, SayLines, TracebackLines DEF Main, Lines, Tracebacks
  <2>. QED BY <1>1, <2>1 DEF Main
<1>2. CASE MenuInvalid /\ UNCHANGED resolves
  BY <1>2, SayLines DEF MenuInvalid, Lines
<1>3. ASSUME NEW n \in {0, 1, 2, Interrupt}, StatsAnswer(n), UNCHANGED resolves
      PROVE TypeOK'
  <2>1. out' \in SUBSET Msg
    BY <1>3, SayLines, TracebackLines DEF StatsAnswer, Lines, Tracebacks
  <2>. QED BY <1>3, <2>1 DEF StatsAnswer, Open
<1>4. ASSUME NEW n \in {0, 1, 2, Interrupt}, CleanAnswer(n), UNCHANGED resolves
      PROVE TypeOK'
  BY <1>4, SayLines DEF CleanAnswer, Lines
<1>5. ASSUME NEW c \in YesNo, ConfirmAnswer(c), UNCHANGED resolves PROVE TypeOK'
  <2>1. out' \in SUBSET Msg
    BY <1>5, SayLines DEF ConfirmAnswer, Lines
  <2>2. confirm' \in {"y", "n"}
    BY <1>5 DEF ConfirmAnswer, Lower
  <2>3. tables' \subseteq tables /\ dbFile' \in {dbFile, TRUE}
    BY <1>5 DEF ConfirmAnswer, Open
  <2>4. pc' = "idle" /\ UNCHANGED <<ans, running, resolves>>
    BY <1>5 DEF ConfirmAnswer
  <2>5. ~dbFile' => ~dbFile
    BY <2>3
  <2>6. ~dbFile' => tables' = {}
    BY <2>3, <2>5
  <2>7. tables' \in SUBSET Tables /\ dbFile' \in BOOLEAN
    BY <2>3
  <2>. QED BY <2>1, <2>2, <2>4, <2>6, <2>7, Zenon
<1>6. CASE ConfirmInterrupt /\ UNCHANGED resolves
  BY <1>6, TracebackLines DEF ConfirmInterrupt, Tracebacks
<1>7. CASE (DaemonStart \/ DaemonStop) /\ UNCHANGED resolves
  BY <1>7 DEF DaemonStart, DaemonStop
<1>8. CASE UNCHANGED vars
  BY <1>8 DEF vars
<1>. QED BY <1>1, <1>2, <1>3, <1>4, <1>5, <1>6, <1>7, <1>8 DEF Next

(***************************************************************************)
(* Every reachable state of the admin script, as written or with its menu *)
(* call resolved, has every variable in its type.                          *)
(***************************************************************************)
THEOREM TypeCorrect == Spec => []TypeOK
BY TypeInit, TypeStep, PTL DEF Spec

\* The tables no step of the script or of the daemon removes.
LEMMA DropStep ==
    ASSUME TypeOK, [Next]_vars
    PROVE  \A t \in tables \ tables' :
               /\ pc = "confirm"
               /\ confirm' = "y"
               /\ t = DropTable[ans]
<1> SUFFICES ASSUME NEW t \in tables \ tables'
             PROVE  pc = "confirm" /\ confirm' = "y" /\ t = DropTable[ans]
  OBVIOUS
<1>1. CASE \E c \in YesNo : ConfirmAnswer(c)
  <2>1. PICK c \in YesNo : ConfirmAnswer(c)
    BY <1>1
  <2>2. pc = "confirm" /\ confirm' = Lower(c)
    BY <2>1 DEF ConfirmAnswer
  <2>3. confirm' = "y" /\ tables' = tables \ {DropTable[ans]}
    BY <2>1 DEF ConfirmAnswer, Lower
  <2>. QED BY <2>2, <2>3
<1>2. CASE DaemonStart
  BY <1>2 DEF DaemonStart, TypeOK
<1>3. CASE \E opt \in Options : Main(opt)
  BY <1>3 DEF Main
<1>4. CASE \E n \in {0, 1, 2, Interrupt} : StatsAnswer(n) \/ CleanAnswer(n)
  BY <1>4 DEF StatsAnswer, CleanAnswer
<1>5. CASE MenuInvalid \/ ConfirmInterrupt \/ DaemonStop \/ UNCHANGED vars
  BY <1>5 DEF MenuInvalid, ConfirmInterrupt, DaemonStop, vars
<1>. QED BY <1>1, <1>2, <1>3, <1>4, <1>5 DEF Next

(***************************************************************************)
(* For both builds of the script: a table disappears only in the step that *)
(* answers y or Y at db_cleanup's confirmation, and it is the table its    *)
(* menu choice names; no other option, menu answer or daemon step drops   *)
(* one.                                                                    *)
(***************************************************************************)
THEOREM DropsConfirmed == Spec => DropOnlyConfirmed
<1>1. TypeOK /\ [Next]_vars =>
          [\A t \in tables \ tables' :
              /\ pc = "confirm"
              /\ confirm' = "y"
              /\ t = DropTable[ans]]_vars
  BY DropStep
<1>. QED BY <1>1, TypeCorrect, PTL DEF Spec, DropOnlyConfirmed
=============================================================================
