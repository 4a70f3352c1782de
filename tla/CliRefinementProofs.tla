-------------------------- MODULE CliRefinementProofs --------------------------
(***************************************************************************)
(* The shell implements the session specification of spec 4.2: for every  *)
(* value of the constants satisfying CliAssumption, each step of           *)
(* CliSession is a connect of SessionSpec, a reconfiguration of a daemon,  *)
(* or leaves the session state as it was.                                  *)
(***************************************************************************)
EXTENDS CliSessionProofs

\* The image of the stored details in SessionSpec: NoConn is absent.
connBar == IF CONN_DETAILS = NoConn THEN None ELSE CONN_DETAILS

\* The variables of SessionSpec, seen through the refinement mapping.
sessionBar == <<connBar, CONFIG, srvUnits>>

\* The details a connect stores are never NoConn.
LEMMA EndpointNotNoConn ==
    ASSUME NEW e \in Endpoints
    PROVE  e # NoConn
<1>1. e.host \in Hosts
  BY DEF Endpoints
<1>2. NoConn.host = None
  BY DEF NoConn
<1>3. None \notin Hosts
  BY CliAssumption
<1>. QED BY <1>1, <1>2, <1>3, Zenon

\* get_config keeps CONFIG or caches what the daemon at e reports, and
\* before any connection it keeps CONFIG: http://None:None raises.
LEMMA TestConnectionCache ==
    ASSUME NEW e, NEW lines, TestConnection(e, lines)
    PROVE  /\ CONFIG' \in {CONFIG, srvUnits[e]}
           /\ e = NoConn => CONFIG' = CONFIG
<1>1. PICK r \in Reply(e) :
        \/ r = "ok" /\ CONFIG' = srvUnits[e]
        \/ Handled(r) /\ UNCHANGED CONFIG
        \/ Crash(r) /\ UNCHANGED CONFIG
  BY DEF TestConnection
<1>2. e = NoConn => r = "invalidURL"
  BY DEF Reply, NoConn
<1>. QED BY <1>1, <1>2 DEF Handled, Crash

\* Storing an endpoint and testing it is SessionSpec's connect.
LEMMA StoreAndTest ==
    ASSUME NEW e \in Endpoints, NEW lines, CONN_DETAILS' = e,
           TestConnection(e, lines), UNCHANGED srvUnits
    PROVE  [Session!Next]_sessionBar
<1>1. connBar' = e
  BY EndpointNotNoConn DEF connBar
<1>2. CONFIG' \in {CONFIG, srvUnits[e]}
  BY TestConnectionCache
<1>3. Session!Connect(e)
  BY <1>1, <1>2 DEF Session!Connect, connBar
<1>. QED BY <1>3 DEF Session!Next

\* get_config on the details already stored: a connect of the same
\* endpoint, or nothing at all before any connection.
LEMMA Retest ==
    ASSUME CONN_DETAILS \in Endpoints \cup {NoConn}, NEW lines,
           UNCHANGED <<CONN_DETAILS, srvUnits>>,
           TestConnection(CONN_DETAILS, lines)
    PROVE  [Session!Next]_sessionBar
<1>1. CASE CONN_DETAILS = NoConn
  BY <1>1, TestConnectionCache DEF sessionBar, connBar
<1>2. CASE CONN_DETAILS \in Endpoints
  BY <1>2, StoreAndTest
<1>. QED BY <1>1, <1>2

\* A step that leaves the details, the cache and the daemons alone.
LEMMA Untouched ==
    ASSUME UNCHANGED <<CONN_DETAILS, CONFIG, srvUnits>>
    PROVE  [Session!Next]_sessionBar
BY DEF sessionBar, connBar

\* do_connect with arguments, also called by __main__.
LEMMA ConnectWithArgsRefines ==
    ASSUME CONN_DETAILS \in Endpoints \cup {NoConn}, NEW a \in ConnectArgs,
           ConnectWithArgs(a), UNCHANGED srvUnits
    PROVE  [Session!Next]_sessionBar
<1>1. CASE a.argc = 1 /\ UNCHANGED CONN_DETAILS
           /\ TestConnection(CONN_DETAILS, {Say("notEnoughArgs")})
  BY <1>1, Retest
<1>2. CASE a.argc = 2 /\ a.port = BadPort /\ UNCHANGED <<CONN_DETAILS, CONFIG>>
  BY <1>2, Untouched
<1>3. CASE a.argc = 2 /\ a.port \in Ports
           /\ CONN_DETAILS' = [host |-> a.host, port |-> a.port]
           /\ TestConnection(CONN_DETAILS', {})
  <2>1. [host |-> a.host, port |-> a.port] \in Endpoints
    BY <1>3 DEF ConnectArgs, Endpoints
  <2>. QED BY <1>3, <2>1, StoreAndTest
<1>. QED BY <1>1, <1>2, <1>3 DEF ConnectWithArgs

\* Every step of the shell and of its environment is a step of SessionSpec
\* or leaves its variables unchanged.
LEMMA RefineStep ==
    ASSUME CONN_DETAILS \in Endpoints \cup {NoConn},
           pc = "portPrompt" => server_name \in Hosts,
           [Next]_vars
    PROVE  [Session!Next]_sessionBar
<1>1. ASSUME NEW argv \in StartArgs, Start(argv) PROVE [Session!Next]_sessionBar
  <2>1. CASE ~argv.version /\ argv.host # None /\ argv.port # None
             /\ ConnectWithArgs([argc |-> 2, host |-> argv.host, port |-> argv.port])
    BY <1>1, <2>1, StartConnectArgs, ConnectWithArgsRefines DEF Start, Env
  <2>2. CASE UNCHANGED <<CONN_DETAILS, CONFIG>>
    BY <1>1, <2>2, Untouched DEF Start, Env
  <2>. QED BY <1>1, <2>1, <2>2 DEF Start
<1>2. ASSUME NEW a \in ConnectArgs, do_connect(a) PROVE [Session!Next]_sessionBar
  <2>1. CASE a.argc = 0
    BY <1>2, <2>1, Untouched DEF do_connect, Env
  <2>2. CASE a.argc > 0
    BY <1>2, <2>2, ConnectWithArgsRefines DEF do_connect, Env
  <2>. QED BY <1>2, <2>1, <2>2 DEF do_connect
<1>3. CASE ConnectHostInterrupt
  BY <1>3, Retest DEF ConnectHostInterrupt, Env
<1>4. ASSUME NEW t \in Ports \cup {BadPort}, ConnectPortInput(t)
      PROVE  [Session!Next]_sessionBar
  <2>1. CASE t \in Ports /\ CONN_DETAILS' = [host |-> server_name, port |-> t]
             /\ TestConnection(CONN_DETAILS', out)
    <3>1. [host |-> server_name, port |-> t] \in Endpoints
      BY <1>4, <2>1 DEF ConnectPortInput, Endpoints
    <3>. QED BY <1>4, <2>1, <3>1, StoreAndTest DEF ConnectPortInput, Env
  <2>2. CASE t = BadPort /\ UNCHANGED <<CONN_DETAILS, CONFIG>>
    BY <1>4, <2>2, Untouched DEF ConnectPortInput, Env
  <2>. QED BY <1>4, <2>1, <2>2 DEF ConnectPortInput
<1>5. ASSUME NEW e \in Endpoints, NEW u \in Units, DaemonReconfigure(e, u)
      PROVE  [Session!Next]_sessionBar
  <2>1. Session!Reconfigure(e, u)
    BY <1>5 DEF DaemonReconfigure, Session!Reconfigure, connBar
  <2>. QED BY <2>1 DEF Session!Next
<1>6. CASE \/ \E h \in Hosts : ConnectHostInput(h)
           \/ ConnectHostEOF \/ ConnectPortInterrupt
           \/ \E b \in BOOLEAN : do_config(b) \/ do_current(b) \/ do_statistics(b)
           \/ \E args \in FetchArgs : do_fetch(args)
           \/ do_connection \/ do_exit \/ LoopEOF \/ LoopInterrupt
           \/ CloseStdin \/ \E e \in Endpoints : DaemonToggle(e)
           \/ UNCHANGED vars
  <2>1. UNCHANGED <<CONN_DETAILS, CONFIG, srvUnits>>
    BY <1>6 DEF ConnectHostInput, ConnectHostEOF, ConnectPortInterrupt,
       do_config, do_current, do_statistics, do_fetch, do_connection, do_exit,
       LoopEOF, LoopInterrupt, CloseStdin, DaemonToggle, Env, vars
  <2>. QED BY <2>1, Untouched
<1>. QED BY <1>1, <1>2, <1>3, <1>4, <1>5, <1>6 DEF Next, Shell, Environment

\* The start state is SessionSpec's: no details, no cache.
LEMMA RefineInit == Init => Session!Init
BY DEF Init, Session!Init, connBar

(***************************************************************************)
(* For every set of hosts, ports and faults: the session state of the     *)
(* shell (CONN_DETAILS, CONFIG) changes only as spec 4.2 allows, by a     *)
(* connect that stores its details and then caches what the daemon at     *)
(* those details reports, or keeps the cache.                              *)
(***************************************************************************)
THEOREM Refinement == Spec => SessionRefinement
<1>1. Init => Session!Init
  BY RefineInit
<1>2. TypeOK /\ [Next]_vars => [Session!Next]_sessionBar
  BY RefineStep DEF TypeOK
<1>3. []TypeOK /\ [][Next]_vars => [][Session!Next]_sessionBar
  BY <1>2, PTL
<1>. QED BY <1>1, <1>3, TypeCorrect, PTL DEF Spec, SessionRefinement, Session!Spec, Session!svars, sessionBar, connBar
=============================================================================
