--------------------------- MODULE CliSessionProofs ---------------------------
(***************************************************************************)
(* Proofs about CliSession for every value of the constants that satisfies *)
(* CliAssumption.                                                          *)
(***************************************************************************)
EXTENDS CliSession, TLAPS

USE CliAssumption

\* Every outcome get_data can have is one of the six the model knows.
Outcomes == {"ok", "empty", "httpError", "garbled", "unreachable", "invalidURL"}

LEMMA ReplyOutcomes ==
    ASSUME NEW e
    PROVE  Reply(e) \subseteq Outcomes
BY DEF Reply, Outcomes

\* A usable reply comes only from a stored endpoint, never from NoConn.
LEMMA ReplyFromEndpoint ==
    ASSUME NEW e \in Endpoints \cup {NoConn}, NEW r \in Reply(e), r # "invalidURL"
    PROVE  e \in Endpoints
BY DEF Reply, NoConn, Endpoints

LEMMA EmptyQuery == <<>> \in FetchArgs
<1>1. <<>> \in [1..0 -> {"kv", "bad"}]
  OBVIOUS
<1>. QED BY <1>1 DEF FetchArgs

\* The positions the validation loop reports are positions 1..MaxArgs.
LEMMA CheckedInRange ==
    ASSUME NEW args \in FetchArgs
    PROVE  CheckedPositions(args) \subseteq 1..MaxArgs
<1>1. PICK n \in 0..MaxArgs : args \in [1..n -> {"kv", "bad"}]
  BY DEF FetchArgs
<1>2. Len(args) = n
  BY <1>1
<1>. QED BY <1>1, <1>2 DEF CheckedPositions

\* The plain lines and the tracebacks are lines of Msg.
Plain == {"mustConnect", "argsRequired", "noParams", "notEnoughArgs",
          "notConnected", "exiting", "aborted", "inputError", "unknownSyntax",
          "ctrlC", "version", "urlError", "stats", "serverError"}

LEMMA SayMsg ==
    ASSUME NEW k \in Plain
    PROVE  Say(k) \in Msg
BY DEF Say, Msg, Plain

LEMMA TracebackMsg ==
    ASSUME NEW x \in Exceptions
    PROVE  [m |-> "traceback", exc |-> x] \in Msg
BY DEF Msg

\* The lines with a value are lines of Msg.
LEMMA RecordsMsg ==
    /\ \A u \in Units : [m |-> "configTable", units |-> u] \in Msg
    /\ \A g \in {"C", "F"} : [m |-> "entry", unit |-> g] \in Msg
    /\ \A h, g \in {"C", "F"}, b \in BOOLEAN :
          [m |-> "entries", hdr |-> h, rows |-> b, unit |-> g] \in Msg
    /\ \A e \in Endpoints, k \in {"connected", "connectFailed", "connInfo"} :
          [m |-> k, to |-> e] \in Msg
    /\ \A i \in 1..MaxArgs : [m |-> "formatError", pos |-> i] \in Msg
BY DEF Msg

\* The lines get_data's failure paths add are lines of Msg.
LEMMA FailedLines ==
    ASSUME NEW r \in Outcomes
    PROVE  /\ Printed(r) \subseteq Msg
           /\ [m |-> "traceback", exc |-> Exc(r)] \in Msg
<1>1. Printed(r) \subseteq Msg
  BY SayMsg DEF Printed, Plain
<1>2. Exc(r) \in Exceptions
  BY DEF Exc, Exceptions
<1>. QED BY <1>1, <1>2, TracebackMsg

-----------------------------------------------------------------------------
(* Type correctness *)

\* The three ways TestConnection can end keep every variable in its type.
LEMMA TestConnectionType ==
    ASSUME TypeOK, NEW e \in Endpoints \cup {NoConn}, NEW lines \in SUBSET Msg,
           TestConnection(e, lines)
    PROVE  /\ pc' \in {"idle", "crashed"}
           /\ CONFIG' \in Units \cup {None}
           /\ out' \in SUBSET Msg
           /\ req' \in Request
<1>1. PICK r \in Reply(e) :
        /\ Send(e, "config", <<>>)
        /\ \/ /\ r = "ok"
              /\ CONFIG' = srvUnits[e]
              /\ Finish(lines \cup {[m |-> "connected", to |-> e]})
           \/ /\ Handled(r)
              /\ UNCHANGED CONFIG
              /\ Finish(lines \cup Printed(r) \cup {[m |-> "connectFailed", to |-> e]})
           \/ Crash(r) /\ UNCHANGED CONFIG /\ Die(lines, Exc(r))
  BY DEF TestConnection
<1>2. r \in Outcomes
  BY ReplyOutcomes
<1>3. req' \in Request
  BY <1>1, EmptyQuery DEF Send, Request, Paths
<1>4. CASE r = "ok"
  <2>1. e \in Endpoints
    BY <1>1, <1>4, ReplyFromEndpoint
  <2>2. [m |-> "connected", to |-> e] \in Msg
    BY <2>1 DEF Msg
  <2>3. srvUnits[e] \in Units
    BY <2>1 DEF TypeOK
  <2>. QED BY <1>1, <1>3, <1>4, <2>2, <2>3 DEF Finish, Handled, Crash, Die
<1>5. CASE Handled(r)
  <2>1. e \in Endpoints
    BY <1>1, <1>5, ReplyFromEndpoint DEF Handled
  <2>2. Printed(r) \subseteq Msg
    BY <1>2, FailedLines
  <2>3. [m |-> "connectFailed", to |-> e] \in Msg
    BY <2>1 DEF Msg
  <2>. QED BY <1>1, <1>3, <1>5, <2>2, <2>3 DEF Finish, TypeOK, Handled, Crash
<1>6. CASE Crash(r)
  <2>1. [m |-> "traceback", exc |-> Exc(r)] \in Msg
    BY <1>2, FailedLines
  <2>. QED BY <1>1, <1>3, <1>6, <2>1 DEF Die, TypeOK, Crash, Handled
<1>. QED BY <1>1, <1>4, <1>5, <1>6 DEF Handled, Crash

\* do_connect with arguments, and __main__'s connect, keep the types.
LEMMA ConnectWithArgsType ==
    ASSUME TypeOK, NEW a \in ConnectArgs, ConnectWithArgs(a)
    PROVE  /\ pc' \in {"idle", "crashed"}
           /\ CONN_DETAILS' \in Endpoints \cup {NoConn}
           /\ CONFIG' \in Units \cup {None}
           /\ out' \in SUBSET Msg
           /\ req' \in Request \cup {None}
<1>1. CASE a.argc = 1 /\ UNCHANGED CONN_DETAILS
           /\ TestConnection(CONN_DETAILS, {Say("notEnoughArgs")})
  <2>1. {Say("notEnoughArgs")} \in SUBSET Msg
    BY SayMsg DEF Plain
  <2>. QED BY <1>1, <2>1, TestConnectionType DEF TypeOK
<1>2. CASE a.argc = 2 /\ a.port = BadPort
           /\ UNCHANGED <<CONN_DETAILS, CONFIG>> /\ req' = None
           /\ Die({}, "ValueError")
  <2>1. [m |-> "traceback", exc |-> "ValueError"] \in Msg
    BY TracebackMsg DEF Exceptions
  <2>. QED BY <1>2, <2>1 DEF Die, TypeOK
<1>3. CASE a.argc = 2 /\ a.port \in Ports
           /\ CONN_DETAILS' = [host |-> a.host, port |-> a.port]
           /\ TestConnection(CONN_DETAILS', {})
  <2>1. CONN_DETAILS' \in Endpoints
    BY <1>3 DEF ConnectArgs, Endpoints
  <2>. QED BY <1>3, <2>1, TestConnectionType
<1>. QED BY <1>1, <1>2, <1>3 DEF ConnectWithArgs

\* The reply of a data command, the shape do_config, do_current,
\* do_statistics and do_fetch share: GetFailed keeps the types.
LEMMA GetFailedType ==
    ASSUME NEW r \in Outcomes, NEW lines \in SUBSET Msg, GetFailed(r, lines)
    PROVE  pc' \in {"idle", "crashed"} /\ out' \in SUBSET Msg
<1>1. Printed(r) \subseteq Msg /\ [m |-> "traceback", exc |-> Exc(r)] \in Msg
  BY FailedLines
<1>2. CASE Handled(r) /\ Finish(lines \cup Printed(r))
  BY <1>1, <1>2 DEF Finish
<1>3. CASE Crash(r) /\ Die(lines, Exc(r))
  BY <1>1, <1>3 DEF Die
<1>. QED BY <1>2, <1>3 DEF GetFailed

\* __main__ hands hostname and port to do_connect as two tokens.
LEMMA StartConnectArgs ==
    ASSUME NEW argv \in StartArgs, argv.host # None, argv.port # None
    PROVE  [argc |-> 2, host |-> argv.host, port |-> argv.port] \in ConnectArgs
BY DEF StartArgs, ConnectArgs

\* A stored host means stored details, never (None, None).
LEMMA ConnectedEndpoint ==
    ASSUME CONN_DETAILS \in Endpoints \cup {NoConn}, IsConnected
    PROVE  CONN_DETAILS \in Endpoints
<1>1. NoConn.host = None
  BY DEF NoConn
<1>. QED BY <1>1 DEF IsConnected

LEMMA SendType ==
    ASSUME TypeOK, NEW p \in Paths, NEW q \in FetchArgs, Send(CONN_DETAILS, p, q)
    PROVE  req' \in Request
BY DEF Send, Request, TypeOK

LEMMA RefuseType ==
    ASSUME NEW k, Say(k) \in Msg, Refuse(k)
    PROVE  pc' = "idle" /\ out' \in SUBSET Msg /\ req' = None
BY DEF Refuse, Finish

\* The initial state of the shell has every variable in its type.
LEMMA TypeInit == Init => TypeOK
BY DEF Init, TypeOK, NoConn

\* Every step of the shell and of its environment keeps the types.
LEMMA TypeStep == TypeOK /\ [Next]_vars => TypeOK'
<1> SUFFICES ASSUME TypeOK, [Next]_vars PROVE TypeOK'
  OBVIOUS
<1>. USE DEF TypeOK
<1>1. ASSUME NEW argv \in StartArgs, Start(argv) PROVE TypeOK'
  <2>1. CASE argv.version /\ out' = {Say("version")} /\ pc' = "exited"
             /\ UNCHANGED <<CONN_DETAILS, CONFIG, req>>
    BY SayMsg, TracebackMsg, <1>1, <2>1 DEF Start, Plain, Env
  <2>2. CASE ~argv.version /\ argv.host # None /\ argv.port # None
             /\ ConnectWithArgs([argc |-> 2, host |-> argv.host, port |-> argv.port])
    <3>1. [argc |-> 2, host |-> argv.host, port |-> argv.port] \in ConnectArgs
      BY <2>2, StartConnectArgs
    <3>. QED BY <1>1, <2>2, <3>1, ConnectWithArgsType DEF Start, Env
  <2>3. CASE ~argv.version /\ (argv.host = None \/ argv.port = None)
             /\ Finish({}) /\ UNCHANGED <<CONN_DETAILS, CONFIG, req>>
    BY <1>1, <2>3 DEF Start, Finish, Env
  <2>. QED BY <1>1, <2>1, <2>2, <2>3 DEF Start
<1>2. ASSUME NEW a \in ConnectArgs, do_connect(a) PROVE TypeOK'
  BY <1>2, ConnectWithArgsType DEF do_connect, Env, Cmds, ConnectArgs
<1>3. ASSUME NEW h \in Hosts, ConnectHostInput(h) PROVE TypeOK'
  BY <1>3 DEF ConnectHostInput, Env
<1>4. CASE ConnectHostInterrupt
  <2>1. {Say("aborted")} \in SUBSET Msg
    BY SayMsg DEF Plain
  <2>. QED BY <1>4, <2>1, TestConnectionType DEF ConnectHostInterrupt, Env
<1>5. CASE ConnectHostEOF
  BY SayMsg, TracebackMsg, <1>5 DEF ConnectHostEOF, Die, Exceptions, Env
<1>6. ASSUME NEW t \in Ports \cup {BadPort}, ConnectPortInput(t) PROVE TypeOK'
  <2>1. CASE t \in Ports /\ CONN_DETAILS' = [host |-> server_name, port |-> t]
             /\ TestConnection(CONN_DETAILS', out)
    <3>1. server_name \in Hosts
      BY <1>6 DEF ConnectPortInput
    <3>. QED BY <1>6, <2>1, <3>1, TestConnectionType DEF ConnectPortInput, Env, Endpoints
  <2>2. CASE t = BadPort /\ out' = out \cup {Say("inputError")}
             /\ UNCHANGED <<pc, CONN_DETAILS, CONFIG, req>>
    BY SayMsg, TracebackMsg, <1>6, <2>2 DEF ConnectPortInput, Env, Plain
  <2>. QED BY <1>6, <2>1, <2>2 DEF ConnectPortInput
<1>7. CASE ConnectPortInterrupt
  BY SayMsg, TracebackMsg, <1>7 DEF ConnectPortInterrupt, Env, Plain
<1>8. ASSUME NEW b \in BOOLEAN, do_config(b) PROVE TypeOK'
  <2>1. CASE ~b /\ IsConnected
    <3>1. PICK r \in Reply(CONN_DETAILS) :
            /\ Send(CONN_DETAILS, "config", <<>>)
            /\ \/ r = "ok" /\ Finish({[m |-> "configTable", units |-> srvUnits[CONN_DETAILS]]})
               \/ GetFailed(r, {})
      BY <1>8, <2>1 DEF do_config, Refuse
    <3>2. r \in Outcomes /\ req' \in Request
      BY <3>1, ReplyOutcomes, SendType, EmptyQuery DEF Paths
    <3>3. CASE r = "ok"
      <4>1. CONN_DETAILS \in Endpoints
        BY <3>1, <3>3, ReplyFromEndpoint
      <4>2. {[m |-> "configTable", units |-> srvUnits[CONN_DETAILS]]} \in SUBSET Msg
        BY <4>1, RecordsMsg
      <4>. QED BY <1>8, <3>1, <3>2, <3>3, <4>2 DEF do_config, Finish, Handled, Crash, GetFailed, Env, Cmds, DataCmds
    <3>4. CASE r # "ok"
      BY <1>8, <3>1, <3>2, <3>4, GetFailedType DEF do_config, Env, Cmds, DataCmds
    <3>. QED BY <3>3, <3>4
  <2>2. CASE b \/ ~IsConnected
    BY SayMsg, TracebackMsg, <1>8, <2>2, RefuseType DEF do_config, Plain, Env, Cmds, DataCmds
  <2>. QED BY <2>1, <2>2
<1>9. ASSUME NEW b \in BOOLEAN, do_current(b) PROVE TypeOK'
  <2>1. CASE ~b /\ IsConnected
    <3>1. PICK r \in Reply(CONN_DETAILS) :
            /\ Send(CONN_DETAILS, "current", <<>>)
            /\ \/ /\ r = "ok"
                  /\ \E nonEmpty \in BOOLEAN :
                        Finish(IF nonEmpty
                               THEN {[m |-> "entry", unit |-> Glyph(srvUnits[CONN_DETAILS])]}
                               ELSE {})
               \/ GetFailed(r, {})
      BY <1>9, <2>1 DEF do_current, Refuse
    <3>2. r \in Outcomes /\ req' \in Request
      BY <3>1, ReplyOutcomes, SendType, EmptyQuery DEF Paths
    <3>3. CASE r = "ok"
      <4>1. Glyph(srvUnits[CONN_DETAILS]) \in {"C", "F"}
        BY DEF Glyph
      <4>2. {[m |-> "entry", unit |-> Glyph(srvUnits[CONN_DETAILS])]} \in SUBSET Msg
        BY <4>1, RecordsMsg
      <4>3. pc' = "idle" /\ out' \in SUBSET Msg
        BY <3>1, <3>3, <4>2 DEF Finish, Handled, Crash, GetFailed
      <4>. QED BY <1>9, <3>2, <4>3 DEF do_current, Env, Cmds, DataCmds
    <3>4. CASE r # "ok"
      BY <1>9, <3>1, <3>2, <3>4, GetFailedType DEF do_current, Env, Cmds, DataCmds
    <3>. QED BY <3>3, <3>4
  <2>2. CASE b \/ ~IsConnected
    BY SayMsg, TracebackMsg, <1>9, <2>2, RefuseType DEF do_current, Plain, Env, Cmds, DataCmds
  <2>. QED BY <2>1, <2>2
<1>10. ASSUME NEW b \in BOOLEAN, do_statistics(b) PROVE TypeOK'
  <2>1. CASE ~b /\ IsConnected
    <3>1. PICK r \in Reply(CONN_DETAILS) :
            /\ Send(CONN_DETAILS, "statistics", <<>>)
            /\ \/ r = "ok" /\ Finish({Say("stats")})
               \/ GetFailed(r, {})
      BY <1>10, <2>1 DEF do_statistics, Refuse
    <3>2. r \in Outcomes /\ req' \in Request
      BY <3>1, ReplyOutcomes, SendType, EmptyQuery DEF Paths
    <3>3. CASE r = "ok"
      <4>1. {Say("stats")} \in SUBSET Msg
        BY SayMsg DEF Plain
      <4>2. pc' = "idle" /\ out' \in SUBSET Msg
        BY <3>1, <3>3, <4>1 DEF Finish, Handled, Crash, GetFailed
      <4>. QED BY <1>10, <3>2, <4>2 DEF do_statistics, Env, Cmds, DataCmds
    <3>4. CASE r # "ok"
      BY <1>10, <3>1, <3>2, <3>4, GetFailedType DEF do_statistics, Env, Cmds, DataCmds
    <3>. QED BY <3>3, <3>4
  <2>2. CASE b \/ ~IsConnected
    BY SayMsg, TracebackMsg, <1>10, <2>2, RefuseType DEF do_statistics, Plain, Env, Cmds, DataCmds
  <2>. QED BY <2>1, <2>2
<1>11. ASSUME NEW args \in FetchArgs, do_fetch(args) PROVE TypeOK'
  <2>1. CASE IsConnected /\ args # <<>>
    <3> DEFINE warned == {[m |-> "formatError", pos |-> i] : i \in CheckedPositions(args)}
    <3>1. PICK r \in Reply(CONN_DETAILS) :
            /\ Send(CONN_DETAILS, "fetch", args)
            /\ \/ r = "ok" /\ Finish(warned \cup {Say("serverError")})
               \/ r = "ok" /\ CONFIG = None /\ Die(warned, "TypeError")
               \/ /\ r = "ok" /\ CONFIG # None
                  /\ \E rows \in BOOLEAN :
                        Finish(warned \cup {[m |-> "entries", hdr |-> Glyph(CONFIG),
                                             rows |-> rows,
                                             unit |-> Glyph(srvUnits[CONN_DETAILS])]})
               \/ GetFailed(r, warned)
      BY <1>11, <2>1 DEF do_fetch, Refuse
    <3>2. r \in Outcomes /\ req' \in Request
      BY <3>1, ReplyOutcomes, SendType DEF Paths
    <3>3. warned \in SUBSET Msg
      BY CheckedInRange, RecordsMsg
    <3>4. Glyph(CONFIG) \in {"C", "F"} /\ Glyph(srvUnits[CONN_DETAILS]) \in {"C", "F"}
      BY DEF Glyph
    <3>5. pc' \in {"idle", "crashed"} /\ out' \in SUBSET Msg
      BY SayMsg, TracebackMsg, RecordsMsg, <3>1, <3>2, <3>3, <3>4, GetFailedType
      DEF Finish, Die, Plain, Exceptions
    <3>. QED BY <1>11, <3>2, <3>5 DEF do_fetch, Env, Cmds, DataCmds
  <2>2. CASE ~IsConnected \/ args = <<>>
    BY SayMsg, TracebackMsg, <1>11, <2>2, RefuseType DEF do_fetch, Plain, Env, Cmds, DataCmds
  <2>. QED BY <2>1, <2>2
<1>12. CASE do_connection
  <2>1. CASE IsConnected
    <3>0. CONN_DETAILS \in Endpoints
      BY <2>1, ConnectedEndpoint
    <3>1. {[m |-> "connInfo", to |-> CONN_DETAILS]} \in SUBSET Msg
      BY <3>0, RecordsMsg
    <3>. QED BY <1>12, <2>1, <3>1 DEF do_connection, Finish, Env, Cmds
  <2>2. CASE ~IsConnected
    <3>1. {Say("notConnected")} \in SUBSET Msg
      BY SayMsg DEF Plain
    <3>. QED BY <1>12, <2>2, <3>1 DEF do_connection, Finish, Env, Cmds
  <2>. QED BY <2>1, <2>2
<1>13. CASE do_exit \/ LoopEOF \/ LoopInterrupt
  BY SayMsg, TracebackMsg, <1>13 DEF do_exit, LoopEOF, LoopInterrupt, Plain, Env, Cmds
<1>14. CASE Environment
  BY <1>14 DEF Environment, CloseStdin, DaemonToggle, DaemonReconfigure
<1>15. CASE UNCHANGED vars
  BY <1>15 DEF vars
<1>. QED BY <1>1, <1>2, <1>3, <1>4, <1>5, <1>6, <1>7, <1>8, <1>9, <1>10,
            <1>11, <1>12, <1>13, <1>14, <1>15 DEF Next, Shell

\* Every reachable state of the shell has every variable in its type.
THEOREM TypeCorrect == Spec => []TypeOK
BY TypeInit, TypeStep, PTL DEF Spec
-----------------------------------------------------------------------------
(* Requests and connect's reports *)

\* Inside connect's prompts nothing but 'Input error.' has been printed, no
\* request has been sent yet, and the command is connect.
PromptLines ==
    pc \in {"hostPrompt", "portPrompt"} =>
        /\ out \subseteq {Say("inputError")}
        /\ req = None
        /\ lastcmd = "connect"

\* Before __main__ has run, no command has been read.
StartFresh == pc = "start" => lastcmd = ""

\* The three safety invariants of the run cli_session with the facts about
\* the prompts and the start that make them inductive.
Safe ==
    /\ StartFresh
    /\ PromptLines
    /\ RequestTargetsSession
    /\ ConnectReportTruthful
    /\ FailedConnectKeepsEndpoint

\* The inductive invariant.
IInv == TypeOK /\ Safe

\* The tags of the two lines do_connect prints after get_config.
Reports == {"connected", "connectFailed"}
\* A set of lines without either report.
Quiet(S) == \A l \in S : l.m \notin Reports

\* Lines with another tag are neither report.
LEMMA QuietNoReport ==
    ASSUME NEW S, Quiet(S), NEW x
    PROVE  /\ [m |-> "connected", to |-> x] \notin S
           /\ [m |-> "connectFailed", to |-> x] \notin S
BY DEF Quiet, Reports

\* Quiet lines of the current command make both report invariants hold.
LEMMA QuietReports ==
    ASSUME Quiet(out')
    PROVE  ConnectReportTruthful' /\ FailedConnectKeepsEndpoint'
BY QuietNoReport DEF ConnectReportTruthful, FailedConnectKeepsEndpoint

\* The failure lines of get_data are quiet.
LEMMA FailedQuiet ==
    ASSUME NEW r, NEW lines, Quiet(lines), GetFailed(r, lines)
    PROVE  Quiet(out') /\ pc' \in {"idle", "crashed"}
BY DEF GetFailed, Handled, Crash, Finish, Die, Printed, Say, Quiet, Reports

(***************************************************************************)
(* The tail of do_connect: get_config on the details just stored.  Its GET *)
(* goes to them, 'Now connected' names them and follows a cached config,   *)
(* and 'Error connecting' names them too.                                  *)
(***************************************************************************)
LEMMA TestConnectionSafe ==
    ASSUME srvUnits \in [Endpoints -> Units], NEW e \in Endpoints \cup {NoConn},
           NEW lines, Quiet(lines), CONN_DETAILS' = e, lastcmd' \notin DataCmds,
           TestConnection(e, lines)
    PROVE  /\ RequestTargetsSession'
           /\ ConnectReportTruthful'
           /\ FailedConnectKeepsEndpoint'
           /\ pc' \in {"idle", "crashed"}
<1>1. PICK r \in Reply(e) :
        /\ Send(e, "config", <<>>)
        /\ \/ /\ r = "ok"
              /\ CONFIG' = srvUnits[e]
              /\ Finish(lines \cup {[m |-> "connected", to |-> e]})
           \/ /\ Handled(r)
              /\ UNCHANGED CONFIG
              /\ Finish(lines \cup Printed(r) \cup {[m |-> "connectFailed", to |-> e]})
           \/ Crash(r) /\ UNCHANGED CONFIG /\ Die(lines, Exc(r))
  BY DEF TestConnection
<1>2. req' = [to |-> e, path |-> "config", query |-> <<>>]
  BY <1>1 DEF Send
<1>3. RequestTargetsSession'
  BY <1>2 DEF RequestTargetsSession
<1>4. CASE r = "ok"
  <2>1. e \in Endpoints
    BY <1>1, <1>4, ReplyFromEndpoint
  <2>2. CONFIG' # None
    BY <1>1, <1>4, <2>1 DEF Units, Handled, Crash
  <2>3. out' = lines \cup {[m |-> "connected", to |-> e]} /\ pc' = "idle"
    BY <1>1, <1>4 DEF Finish, Handled, Crash, Die
  <2>4. ConnectReportTruthful'
    BY <1>2, <2>2, <2>3, QuietNoReport DEF ConnectReportTruthful
  <2>5. FailedConnectKeepsEndpoint'
    BY <2>3, QuietNoReport DEF FailedConnectKeepsEndpoint
  <2>. QED BY <1>3, <2>3, <2>4, <2>5
<1>5. CASE Handled(r)
  <2>1. out' = lines \cup Printed(r) \cup {[m |-> "connectFailed", to |-> e]}
        /\ pc' = "idle"
    BY <1>1, <1>5 DEF Finish, Handled, Crash
  <2>2. Quiet(lines \cup Printed(r))
    BY DEF Quiet, Printed, Say, Reports
  <2>3. ConnectReportTruthful'
    BY <2>1, <2>2, QuietNoReport DEF ConnectReportTruthful
  <2>4. FailedConnectKeepsEndpoint'
    BY <1>2, <2>1, <2>2, QuietNoReport DEF FailedConnectKeepsEndpoint
  <2>. QED BY <1>3, <2>1, <2>3, <2>4
<1>6. CASE Crash(r)
  <2>1. Quiet(out') /\ pc' = "crashed"
    BY <1>1, <1>6 DEF Die, Quiet, Reports, Crash, Handled
  <2>. QED BY <1>3, <2>1, QuietReports
<1>. QED BY <1>1, <1>4, <1>5, <1>6 DEF Handled, Crash

\* do_connect with arguments, and __main__'s connect, keep the invariants.
LEMMA ConnectWithArgsSafe ==
    ASSUME CONN_DETAILS \in Endpoints \cup {NoConn}, srvUnits \in [Endpoints -> Units],
           NEW a \in ConnectArgs, lastcmd' \notin DataCmds, ConnectWithArgs(a)
    PROVE  /\ RequestTargetsSession'
           /\ ConnectReportTruthful'
           /\ FailedConnectKeepsEndpoint'
           /\ pc' \in {"idle", "crashed"}
<1>1. CASE a.argc = 1 /\ UNCHANGED CONN_DETAILS
           /\ TestConnection(CONN_DETAILS, {Say("notEnoughArgs")})
  <2>1. Quiet({Say("notEnoughArgs")})
    BY DEF Quiet, Say, Reports
  <2>. QED BY <1>1, <2>1, TestConnectionSafe
<1>2. CASE a.argc = 2 /\ a.port = BadPort
           /\ UNCHANGED <<CONN_DETAILS, CONFIG>> /\ req' = None
           /\ Die({}, "ValueError")
  <2>1. Quiet(out') /\ pc' = "crashed"
    BY <1>2 DEF Die, Quiet, Reports
  <2>2. RequestTargetsSession'
    BY <1>2 DEF RequestTargetsSession
  <2>. QED BY <2>1, <2>2, QuietReports
<1>3. CASE a.argc = 2 /\ a.port \in Ports
           /\ CONN_DETAILS' = [host |-> a.host, port |-> a.port]
           /\ TestConnection(CONN_DETAILS', {})
  <2>1. CONN_DETAILS' \in Endpoints
    BY <1>3 DEF ConnectArgs, Endpoints
  <2>2. Quiet({})
    BY DEF Quiet
  <2>. QED BY <1>3, <2>1, <2>2, TestConnectionSafe
<1>. QED BY <1>1, <1>2, <1>3 DEF ConnectWithArgs

\* A command that ends with quiet lines and no request keeps the invariants.
LEMMA QuietDone ==
    ASSUME Quiet(out'), req' = None, pc' \notin {"start", "hostPrompt", "portPrompt"}
    PROVE  Safe'
BY QuietReports DEF Safe, StartFresh, PromptLines, RequestTargetsSession

\* So does a data command that sent its GET to the stored, connected details.
LEMMA QuietSent ==
    ASSUME Quiet(out'), pc' \in {"idle", "crashed"},
           req'.to = CONN_DETAILS', IsConnected'
    PROVE  Safe'
BY QuietReports DEF Safe, StartFresh, PromptLines, RequestTargetsSession

\* So does the tail of connect, which leaves the prompts.
LEMMA ConnectDone ==
    ASSUME RequestTargetsSession', ConnectReportTruthful', FailedConnectKeepsEndpoint',
           pc' \in {"idle", "crashed"}
    PROVE  Safe'
BY DEF Safe, StartFresh, PromptLines

\* The sole lines printed inside connect's prompts are quiet.
LEMMA PromptQuiet ==
    ASSUME NEW S, S \subseteq {Say("inputError")}
    PROVE  Quiet(S)
BY DEF Quiet, Say, Reports

(***************************************************************************)
(* Every step of the shell and of its environment keeps the requests aimed *)
(* at the stored session and connect's reports truthful.                   *)
(***************************************************************************)
LEMMA SafeStep == TypeOK /\ Safe /\ [Next]_vars => Safe'
<1> SUFFICES ASSUME TypeOK, Safe, [Next]_vars PROVE Safe'
  OBVIOUS
<1>0. /\ CONN_DETAILS \in Endpoints \cup {NoConn}
      /\ srvUnits \in [Endpoints -> Units]
      /\ pc = "portPrompt" => server_name \in Hosts
  BY DEF TypeOK
<1>1. ASSUME NEW argv \in StartArgs, Start(argv) PROVE Safe'
  <2>1. lastcmd' = "" /\ pc = "start"
    BY <1>1 DEF Start, Safe, StartFresh
  <2>2. CASE argv.version /\ out' = {Say("version")} /\ pc' = "exited"
             /\ UNCHANGED <<CONN_DETAILS, CONFIG, req>>
    <3>1. Quiet(out')
      BY <2>2 DEF Quiet, Say, Reports
    <3>2. RequestTargetsSession'
      BY <2>1, <2>2 DEF Safe, RequestTargetsSession, IsConnected, DataCmds
    <3>. QED BY <2>2, <3>1, <3>2, QuietReports DEF Safe, StartFresh, PromptLines
  <2>3. CASE ~argv.version /\ argv.host # None /\ argv.port # None
             /\ ConnectWithArgs([argc |-> 2, host |-> argv.host, port |-> argv.port])
    <3>1. [argc |-> 2, host |-> argv.host, port |-> argv.port] \in ConnectArgs
      BY <2>3, StartConnectArgs
    <3>. QED BY <1>0, <2>1, <2>3, <3>1, ConnectWithArgsSafe, ConnectDone DEF DataCmds
  <2>4. CASE ~argv.version /\ (argv.host = None \/ argv.port = None)
             /\ Finish({}) /\ UNCHANGED <<CONN_DETAILS, CONFIG, req>>
    <3>1. Quiet(out') /\ pc' = "idle"
      BY <2>4 DEF Finish, Quiet
    <3>2. RequestTargetsSession'
      BY <2>1, <2>4 DEF Safe, RequestTargetsSession, IsConnected, DataCmds
    <3>. QED BY <3>1, <3>2, QuietReports DEF Safe, StartFresh, PromptLines
  <2>. QED BY <1>1, <2>2, <2>3, <2>4 DEF Start
<1>2. ASSUME NEW a \in ConnectArgs, do_connect(a) PROVE Safe'
  <2>1. CASE a.argc = 0
    <3>1. pc' = "hostPrompt" /\ out' = {} /\ req' = None /\ lastcmd' = "connect"
      BY <1>2, <2>1 DEF do_connect, ConnectWithArgs
    <3>2. Quiet(out')
      BY <3>1 DEF Quiet
    <3>. QED BY <3>1, <3>2, QuietReports
         DEF Safe, StartFresh, PromptLines, RequestTargetsSession
  <2>2. CASE a.argc > 0
    <3>1. ConnectWithArgs(a) /\ lastcmd' = "connect"
      BY <1>2, <2>2 DEF do_connect
    <3>. QED BY <1>0, <3>1, ConnectWithArgsSafe, ConnectDone DEF DataCmds
  <2>. QED BY <2>1, <2>2 DEF ConnectArgs
<1>3. ASSUME NEW h \in Hosts, ConnectHostInput(h) PROVE Safe'
  <2>1. out \subseteq {Say("inputError")} /\ req = None /\ lastcmd = "connect"
    BY <1>3 DEF ConnectHostInput, Safe, PromptLines
  <2>2. Quiet(out')
    BY <1>3, <2>1, PromptQuiet DEF ConnectHostInput
  <2>. QED BY <1>3, <2>1, <2>2, QuietReports
       DEF ConnectHostInput, Safe, StartFresh, PromptLines, RequestTargetsSession
<1>4. CASE ConnectHostInterrupt
  <2>1. lastcmd' = "connect"
    BY <1>4 DEF ConnectHostInterrupt, Safe, PromptLines
  <2>2. Quiet({Say("aborted")})
    BY DEF Quiet, Say, Reports
  <2>. QED BY <1>0, <1>4, <2>1, <2>2, TestConnectionSafe, ConnectDone
       DEF ConnectHostInterrupt, DataCmds
<1>5. CASE ConnectHostEOF
  <2>1. out \subseteq {Say("inputError")} /\ req = None
    BY <1>5 DEF ConnectHostEOF, Safe, PromptLines
  <2>2. Quiet(out)
    BY <2>1, PromptQuiet
  <2>3. Quiet(out') /\ req' = None /\ pc' = "crashed"
    BY <1>5, <2>1, <2>2 DEF ConnectHostEOF, Die, Quiet, Reports
  <2>. QED BY <2>3, QuietDone
<1>6. ASSUME NEW t \in Ports \cup {BadPort}, ConnectPortInput(t) PROVE Safe'
  <2>1. out \subseteq {Say("inputError")} /\ req = None /\ lastcmd = "connect"
        /\ server_name \in Hosts
    BY <1>0, <1>6 DEF ConnectPortInput, Safe, PromptLines
  <2>2. CASE t \in Ports /\ CONN_DETAILS' = [host |-> server_name, port |-> t]
             /\ TestConnection(CONN_DETAILS', out)
    <3>1. CONN_DETAILS' \in Endpoints
      BY <2>1, <2>2 DEF Endpoints
    <3>2. Quiet(out)
      BY <2>1, PromptQuiet
    <3>. QED BY <1>0, <1>6, <2>1, <2>2, <3>1, <3>2, TestConnectionSafe, ConnectDone
         DEF ConnectPortInput, DataCmds
  <2>3. CASE t = BadPort /\ out' = out \cup {Say("inputError")}
             /\ UNCHANGED <<pc, CONN_DETAILS, CONFIG, req>>
    <3>1. Quiet(out')
      BY <2>1, <2>3, PromptQuiet
    <3>. QED BY <1>6, <2>1, <2>3, <3>1, QuietReports
         DEF ConnectPortInput, Safe, StartFresh, PromptLines, RequestTargetsSession
  <2>. QED BY <1>6, <2>2, <2>3 DEF ConnectPortInput
<1>7. CASE ConnectPortInterrupt
  <2>1. out \subseteq {Say("inputError")} /\ req = None /\ lastcmd = "connect"
    BY <1>7 DEF ConnectPortInterrupt, Safe, PromptLines
  <2>2. Quiet(out')
    BY <1>7, <2>1, PromptQuiet DEF ConnectPortInterrupt
  <2>. QED BY <1>7, <2>1, <2>2, QuietReports
       DEF ConnectPortInterrupt, Safe, StartFresh, PromptLines, RequestTargetsSession
<1>8. ASSUME NEW b \in BOOLEAN, do_config(b) PROVE Safe'
  <2>1. CASE b \/ ~IsConnected
    <3>1. Quiet(out') /\ req' = None /\ pc' = "idle"
      BY <1>8, <2>1 DEF do_config, Refuse, Finish, Quiet, Say, Reports
    <3>. QED BY <3>1, QuietDone
  <2>2. CASE ~b /\ IsConnected
    <3>1. PICK r \in Reply(CONN_DETAILS) :
            /\ Send(CONN_DETAILS, "config", <<>>)
            /\ \/ r = "ok" /\ Finish({[m |-> "configTable",
                                       units |-> srvUnits[CONN_DETAILS]]})
               \/ GetFailed(r, {})
      BY <1>8, <2>2 DEF do_config, Refuse
    <3>2. Quiet(out') /\ pc' \in {"idle", "crashed"}
      <4>1. Quiet({})
        BY DEF Quiet
      <4>. QED BY <3>1, <4>1, FailedQuiet DEF Finish, Quiet, Reports
    <3>3. req'.to = CONN_DETAILS' /\ IsConnected'
      BY <1>8, <2>2, <3>1 DEF do_config, Send, IsConnected
    <3>. QED BY <3>2, <3>3, QuietSent
  <2>. QED BY <2>1, <2>2
<1>9. ASSUME NEW b \in BOOLEAN, do_current(b) PROVE Safe'
  <2>1. CASE b \/ ~IsConnected
    <3>1. Quiet(out') /\ req' = None /\ pc' = "idle"
      BY <1>9, <2>1 DEF do_current, Refuse, Finish, Quiet, Say, Reports
    <3>. QED BY <3>1, QuietDone
  <2>2. CASE ~b /\ IsConnected
    <3>1. PICK r \in Reply(CONN_DETAILS) :
            /\ Send(CONN_DETAILS, "current", <<>>)
            /\ \/ /\ r = "ok"
                  /\ \E nonEmpty \in BOOLEAN :
                        Finish(IF nonEmpty
                               THEN {[m |-> "entry", unit |-> Glyph(srvUnits[CONN_DETAILS])]}
                               ELSE {})
               \/ GetFailed(r, {})
      BY <1>9, <2>2 DEF do_current, Refuse
    <3>2. Quiet(out') /\ pc' \in {"idle", "crashed"}
      <4>1. Quiet({})
        BY DEF Quiet
      <4>. QED BY <3>1, <4>1, FailedQuiet DEF Finish, Quiet, Reports
    <3>3. req'.to = CONN_DETAILS' /\ IsConnected'
      BY <1>9, <2>2, <3>1 DEF do_current, Send, IsConnected
    <3>. QED BY <3>2, <3>3, QuietSent
  <2>. QED BY <2>1, <2>2
<1>10. ASSUME NEW b \in BOOLEAN, do_statistics(b) PROVE Safe'
  <2>1. CASE b \/ ~IsConnected
    <3>1. Quiet(out') /\ req' = None /\ pc' = "idle"
      BY <1>10, <2>1 DEF do_statistics, Refuse, Finish, Quiet, Say, Reports
    <3>. QED BY <3>1, QuietDone
  <2>2. CASE ~b /\ IsConnected
    <3>1. PICK r \in Reply(CONN_DETAILS) :
            /\ Send(CONN_DETAILS, "statistics", <<>>)
            /\ \/ r = "ok" /\ Finish({Say("stats")})
               \/ GetFailed(r, {})
      BY <1>10, <2>2 DEF do_statistics, Refuse
    <3>2. Quiet(out') /\ pc' \in {"idle", "crashed"}
      <4>1. Quiet({})
        BY DEF Quiet
      <4>. QED BY <3>1, <4>1, FailedQuiet DEF Finish, Quiet, Say, Reports
    <3>3. req'.to = CONN_DETAILS' /\ IsConnected'
      BY <1>10, <2>2, <3>1 DEF do_statistics, Send, IsConnected
    <3>. QED BY <3>2, <3>3, QuietSent
  <2>. QED BY <2>1, <2>2
<1>11. ASSUME NEW args \in FetchArgs, do_fetch(args) PROVE Safe'
  <2>1. CASE ~IsConnected \/ args = <<>>
    <3>1. Quiet(out') /\ req' = None /\ pc' = "idle"
      BY <1>11, <2>1 DEF do_fetch, Refuse, Finish, Quiet, Say, Reports
    <3>. QED BY <3>1, QuietDone
  <2>2. CASE IsConnected /\ args # <<>>
    <3> DEFINE warned == {[m |-> "formatError", pos |-> i] : i \in CheckedPositions(args)}
    <3>1. PICK r \in Reply(CONN_DETAILS) :
            /\ Send(CONN_DETAILS, "fetch", args)
            /\ \/ r = "ok" /\ Finish(warned \cup {Say("serverError")})
               \/ r = "ok" /\ CONFIG = None /\ Die(warned, "TypeError")
               \/ /\ r = "ok" /\ CONFIG # None
                  /\ \E rows \in BOOLEAN :
                        Finish(warned \cup {[m |-> "entries", hdr |-> Glyph(CONFIG),
                                             rows |-> rows,
                                             unit |-> Glyph(srvUnits[CONN_DETAILS])]})
               \/ GetFailed(r, warned)
      BY <1>11, <2>2 DEF do_fetch, Refuse
    <3>2. Quiet(warned)
      BY DEF Quiet, Reports
    <3>3. Quiet(out') /\ pc' \in {"idle", "crashed"}
      BY <3>1, <3>2, FailedQuiet DEF Finish, Die, Quiet, Say, Reports
    <3>4. req'.to = CONN_DETAILS' /\ IsConnected'
      BY <1>11, <2>2, <3>1 DEF do_fetch, Send, IsConnected
    <3>. QED BY <3>3, <3>4, QuietSent
  <2>. QED BY <2>1, <2>2
<1>12. CASE do_connection
  <2>1. Quiet(out') /\ req' = None /\ pc' = "idle"
    BY <1>12 DEF do_connection, Finish, Quiet, Say, Reports
  <2>. QED BY <2>1, QuietDone
<1>13. CASE do_exit \/ LoopEOF \/ LoopInterrupt
  <2>1. CASE do_exit
    <3>1. Quiet(out') /\ req' = None /\ pc' = "exited"
      BY <2>1 DEF do_exit, Quiet, Say, Reports
    <3>. QED BY <3>1, QuietDone
  <2>2. CASE LoopEOF
    <3>1. out' = {Say("unknownSyntax")} /\ req' = None /\ pc' = "idle"
      BY <2>2, Zenon DEF LoopEOF, Say
    <3>2. Quiet(out')
      BY <3>1 DEF Quiet, Say, Reports
    <3>. QED BY <3>1, <3>2, QuietDone
  <2>3. CASE LoopInterrupt
    <3>1. Quiet(out') /\ req' = None /\ pc' = "exited"
      BY <2>3 DEF LoopInterrupt, Quiet, Say, Reports
    <3>. QED BY <3>1, QuietDone
  <2>. QED BY <1>13, <2>1, <2>2, <2>3
<1>14. CASE Environment
  BY <1>14 DEF Environment, CloseStdin, DaemonToggle, DaemonReconfigure, Safe,
     StartFresh, PromptLines, RequestTargetsSession, ConnectReportTruthful,
     FailedConnectKeepsEndpoint, IsConnected
<1>15. CASE UNCHANGED vars
  BY <1>15 DEF vars, Safe, StartFresh, PromptLines, RequestTargetsSession,
     ConnectReportTruthful, FailedConnectKeepsEndpoint, IsConnected
<1>. QED BY <1>1, <1>2, <1>3, <1>4, <1>5, <1>6, <1>7, <1>8, <1>9, <1>10,
            <1>11, <1>12, <1>13, <1>14, <1>15 DEF Next, Shell

\* The initial state satisfies the invariants: nothing printed, nothing sent.
LEMMA SafeInit == Init => Safe
BY DEF Init, Safe, StartFresh, PromptLines, RequestTargetsSession,
   ConnectReportTruthful, FailedConnectKeepsEndpoint

(***************************************************************************)
(* For every set of hosts and ports, every fault the daemons can give and  *)
(* every bound on fetch's arguments: every GET the shell sends goes to the *)
(* details CONN_DETAILS holds and never while disconnected for a data      *)
(* command, 'Now connected' names the stored details after a config GET to *)
(* them that cached a configuration, and 'Error connecting' names the      *)
(* details the failed connect stored.                                      *)
(***************************************************************************)
THEOREM SessionSafety ==
    Spec => [](RequestTargetsSession /\ ConnectReportTruthful /\ FailedConnectKeepsEndpoint)
<1>1. Init => IInv
  BY TypeInit, SafeInit DEF IInv
<1>2. IInv /\ [Next]_vars => IInv'
  BY TypeStep, SafeStep DEF IInv
<1>3. IInv => RequestTargetsSession /\ ConnectReportTruthful /\ FailedConnectKeepsEndpoint
  BY DEF IInv, Safe
<1>. QED BY <1>1, <1>2, <1>3, PTL DEF Spec

(***************************************************************************)
(* For every set of hosts, ports and faults: the shell prints 'Now         *)
(* connected to X on port P.' only after the config request of that       *)
(* command went to X:P, with X:P stored and a configuration cached.        *)
(***************************************************************************)
THEOREM ReportTruthful == Spec => []ConnectReportTruthful
BY SessionSafety, PTL

(***************************************************************************)
(* For every set of hosts, ports and faults: a connect whose config        *)
(* request fails keeps the new details stored and reports the failure for  *)
(* those details.                                                          *)
(***************************************************************************)
THEOREM FailedConnectKept == Spec => []FailedConnectKeepsEndpoint
BY SessionSafety, PTL

=============================================================================
