------------------------------ MODULE AdminTool ------------------------------
(***************************************************************************)
(* The administration script src/extra/rpiweatherd-admin.py with the       *)
(* prompts of src/extra/deps/CheckedInput.py, run again and again against  *)
(* the database file the rpiweatherd daemon uses.  Each invocation takes   *)
(* one option (main's elif chain); the database and the daemon persist    *)
(* between invocations.  The daemon is outside this repository: it may    *)
(* start or stop at any moment, and on start it creates the database file *)
(* and both tables if they are missing; while it runs, a statement of the *)
(* tool may find the database locked.                                      *)
(*                                                                         *)
(* The script imports the class (from deps.CheckedInput import             *)
(* CheckedInput) and calls CheckedInput.CheckedInput.input_choice_numeric_ *)
(* list, an attribute the class does not have.  The variable resolves is  *)
(* FALSE for the code as it is, where both menus raise AttributeError, and *)
(* TRUE for the same code with that call resolved, which lets the lines   *)
(* after the menus be checked; Resolutions says which of the two a run    *)
(* explores.                                                               *)
(***************************************************************************)
EXTENDS Naturals

CONSTANTS
    None,       \* Python's None
    Interrupt,  \* Ctrl-C typed at a prompt (KeyboardInterrupt)
    Resolutions \* the values resolves may take

ASSUME AdminAssumption ==
    None # Interrupt /\ None \notin 0..2 /\ Interrupt \notin 0..2 /\ Resolutions \subseteq BOOLEAN

VARIABLES
    pc,       \* "idle" (no invocation running), "statsMenu" (db_stats menu),
              \* "cleanMenu" (db_cleanup menu), "confirm" (its Confirm? prompt)
    ans,      \* the menu choice of db_cleanup, or None
    confirm,  \* the value input_yes_no returned, or None
    out,      \* lines printed by the current invocation
    dbFile,   \* os.path.isfile(DB_FILE_PATH)
    tables,   \* the tables the database holds
    running,  \* __is_daemon_running(): pgrep finds rpiweatherd
    resolves  \* CheckedInput.CheckedInput.input_choice_numeric_list exists

vars == <<pc, ans, confirm, out, dbFile, tables, running, resolves>>

Tables == {"tblStats", "tblData"}
\* db_cleanup's SQL_QUERIES: choice n drops this table.
DropTable == [n \in 1..2 |-> IF n = 1 THEN "tblStats" ELSE "tblData"]
\* db_stats's SQL_QUERIES: choice n reads this table.
ReadTable == [n \in 1..2 |-> IF n = 1 THEN "tblData" ELSE "tblStats"]
\* The lines input_choice accepts, and what ans[0].lower() makes of them.
YesNo == {"y", "n", "Y", "N"}
Lower(c) == IF c \in {"y", "Y"} THEN "y" ELSE "n"
Options == {"-s", "-d", "-r", "-c", "none"}
Lines == {"aborted", "entryCount", "statsTable", "done", "dbFound", "dbNotFound",
          "cantWhileRunning", "warning", "operationalError", "inputError",
          "daemonVersion", "isRunning", "isStopped", "Done."}
Tracebacks == {"OperationalError", "TypeError", "AttributeError"}
Msg == [m : Lines] \cup [m : {"traceback"}, exc : Tracebacks]
Say(k) == [m |-> k]
Traceback(e) == [m |-> "traceback", exc |-> e]

Init ==
    /\ pc = "idle"
    /\ ans = None
    /\ confirm = None
    /\ out = {}
    /\ dbFile \in BOOLEAN
    /\ tables \in IF dbFile THEN SUBSET Tables ELSE {{}}
    /\ running \in BOOLEAN
    /\ running => dbFile
    /\ resolves \in Resolutions

\* sqlite3.connect(DB_FILE_PATH): opening a missing file creates it empty.
Open == dbFile' = TRUE

(***************************************************************************)
(* main: one option per invocation.  -c is db_cleanup up to its menu: the  *)
(* file check and the pgrep check happen here, before any prompt.  A menu  *)
(* whose call does not resolve ends the invocation with AttributeError.    *)
(***************************************************************************)
Main(opt) ==
    /\ pc = "idle"
    /\ ans' = None /\ confirm' = None
    /\ \/ opt = "-s" /\ resolves /\ pc' = "statsMenu" /\ out' = {}
       \/ opt = "-s" /\ ~resolves /\ UNCHANGED pc
          /\ out' = {Traceback("AttributeError")}
       \/ opt = "-d" /\ UNCHANGED pc /\ out' = {Say("daemonVersion")}
       \/ opt = "-r" /\ UNCHANGED pc
          /\ out' = {Say(IF running THEN "isRunning" ELSE "isStopped")}
       \/ opt = "-c" /\ ~dbFile /\ UNCHANGED pc /\ out' = {Say("dbNotFound")}
       \/ opt = "-c" /\ dbFile /\ running /\ UNCHANGED pc
          /\ out' = {Say("dbFound"), Say("cantWhileRunning")}
       \/ opt = "-c" /\ dbFile /\ ~running /\ resolves /\ pc' = "cleanMenu"
          /\ out' = {Say("dbFound")}
       \/ opt = "-c" /\ dbFile /\ ~running /\ ~resolves /\ UNCHANGED pc
          /\ out' = {Say("dbFound"), Traceback("AttributeError")}
       \/ opt = "none" /\ UNCHANGED pc /\ out' = {}
    /\ UNCHANGED <<dbFile, tables, running>>

\* input_number and input_choice: a line that is not a valid answer prints an
\* error and asks again.
MenuInvalid ==
    /\ pc \in {"statsMenu", "cleanMenu", "confirm"}
    /\ out' = out \cup {Say("inputError")}
    /\ UNCHANGED <<pc, ans, confirm, dbFile, tables, running>>

(***************************************************************************)
(* db_stats after its menu: 0 or Ctrl-C (None) aborts; 1 counts tblData,  *)
(* 2 lists tblStats.  A missing table, or a database the running daemon   *)
(* has locked, raises OperationalError, which db_stats does not catch.    *)
(***************************************************************************)
StatsAnswer(n) ==
    /\ pc = "statsMenu"
    /\ pc' = "idle"
    /\ \/ n \in {0, Interrupt} /\ out' = out \cup {Say("aborted")}
          /\ UNCHANGED dbFile
       \/ /\ n \in 1..2 /\ Open
          /\ \/ /\ ReadTable[n] \in tables
                /\ out' = out \cup {Say(IF n = 1 THEN "entryCount" ELSE "statsTable"),
                                    Say("done")}
             \/ /\ ReadTable[n] \notin tables \/ running
                /\ out' = out \cup {Traceback("OperationalError")}
    /\ UNCHANGED <<ans, confirm, tables, running>>

\* db_cleanup's menu: 0 or Ctrl-C returns; 1 or 2 asks for confirmation.
CleanAnswer(n) ==
    /\ pc = "cleanMenu"
    /\ \/ n \in {0, Interrupt} /\ pc' = "idle" /\ UNCHANGED <<ans, out>>
       \/ n \in 1..2 /\ pc' = "confirm" /\ ans' = n /\ out' = out \cup {Say("warning")}
    /\ UNCHANGED <<confirm, dbFile, tables, running>>

(* Mutant: the answer is used without .lower(); only 'n' refuses. *)
ConfirmAnswerNoLower(c) ==
    /\ pc = "confirm" /\ c \in YesNo
    /\ pc' = "idle" /\ confirm' = c
    /\ \/ /\ confirm' = "n"
          /\ UNCHANGED <<out, dbFile, tables>>
       \/ /\ confirm' # "n" /\ Open
          /\ tables' = tables \ {DropTable[ans]}
          /\ out' = out \cup {Say("Done.")}
    /\ UNCHANGED <<ans, running>>

(* Mutant: the 'confirm == 'n'' test is missing; any answer drops. *)
ConfirmAnswerNoRefusal(c) ==
    /\ pc = "confirm" /\ c \in YesNo
    /\ pc' = "idle" /\ confirm' = Lower(c)
    /\ Open
    /\ tables' = tables \ {DropTable[ans]}
    /\ out' = out \cup {Say("Done.")}
    /\ UNCHANGED <<ans, running>>

(***************************************************************************)
(* input_yes_no, then the drop.  'n' returns.  'y' opens the file and runs *)
(* DROP TABLE IF EXISTS; OperationalError (the daemon holding the lock) is *)
(* caught and printed; 'Done.' follows either way.  The daemon is not      *)
(* checked again here.                                                     *)
(***************************************************************************)
ConfirmAnswer(c) ==
    /\ pc = "confirm" /\ c \in YesNo
    /\ pc' = "idle" /\ confirm' = Lower(c)
    /\ \/ /\ confirm' = "n"
          /\ UNCHANGED <<out, dbFile, tables>>
       \/ /\ confirm' = "y" /\ Open
          /\ \/ /\ tables' = tables \ {DropTable[ans]}
                /\ out' = out \cup {Say("Done.")}
             \/ /\ running /\ UNCHANGED tables
                /\ out' = out \cup {Say("operationalError"), Say("Done.")}
    /\ UNCHANGED <<ans, running>>

\* Ctrl-C at Confirm?: input_choice returns None and ans[0] raises TypeError.
ConfirmInterrupt ==
    /\ pc = "confirm"
    /\ pc' = "idle"
    /\ out' = out \cup {Traceback("TypeError")}
    /\ UNCHANGED <<ans, confirm, dbFile, tables, running>>

\* The daemon, outside this repository.
DaemonStart ==
    /\ ~running /\ running' = TRUE
    /\ dbFile' = TRUE /\ tables' = Tables
    /\ UNCHANGED <<pc, ans, confirm, out>>

DaemonStop ==
    /\ running /\ running' = FALSE
    /\ UNCHANGED <<pc, ans, confirm, out, dbFile, tables>>

\* The code of the script does not change while it runs.
Next ==
    /\ \/ \E opt \in Options : Main(opt)
       \/ MenuInvalid
       \/ \E n \in {0, 1, 2, Interrupt} : StatsAnswer(n) \/ CleanAnswer(n)
       \/ \E c \in YesNo : ConfirmAnswer(c)
       \/ ConfirmInterrupt
       \/ DaemonStart \/ DaemonStop
    /\ UNCHANGED resolves

Spec == Init /\ [][Next]_vars

-----------------------------------------------------------------------------
(* Properties *)

\* Every variable holds a value of its type.
TypeOK ==
    /\ pc \in {"idle", "statsMenu", "cleanMenu", "confirm"}
    /\ ans \in 1..2 \cup {None}
    /\ confirm \in {"y", "n", None}
    /\ out \in SUBSET Msg
    /\ dbFile \in BOOLEAN
    /\ tables \in SUBSET Tables
    /\ running \in BOOLEAN
    /\ resolves \in BOOLEAN
    /\ ~dbFile => tables = {}

(***************************************************************************)
(* A table disappears only in the step that answers 'y' or 'Y' to the      *)
(* confirmation of db_cleanup, and only the table the menu choice names.  *)
(***************************************************************************)
DropOnlyConfirmed ==
    [][\A t \in tables \ tables' :
          /\ pc = "confirm"
          /\ confirm' = "y"
          /\ t = DropTable[ans]]_vars

(***************************************************************************)
(* db_cleanup, line 104: 'Database operations can not be done while the    *)
(* daemon is running!'  No table is dropped while the daemon runs.        *)
(***************************************************************************)
NoDropWhileDaemonRuns ==
    [][tables \ tables' # {} => ~running]_vars

(***************************************************************************)
(* CheckedInput.input_yes_no's docstring: on Ctrl-C the function returns  *)
(* None.  An interrupt at the confirmation therefore never raises.        *)
(***************************************************************************)
ConfirmInterruptReturnsNone ==
    Traceback("TypeError") \notin out
=============================================================================
