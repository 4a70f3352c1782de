------------------------------ MODULE CliSession ------------------------------
(***************************************************************************)
(* The interactive client src/extra/rpiweatherd-cli.py: the module-level   *)
(* session state (CONN_DETAILS, CONFIG), the cmd.Cmd shell CmdShell with   *)
(* one action per do_* handler, the start-up code of __main__, and the     *)
(* environment the client talks to: rpiweatherd daemons that come and go  *)
(* and change their configured units, and a standard input that may reach *)
(* end of file.                                                            *)
(*                                                                         *)
(* Data is abstracted to what the properties tell apart: a server's       *)
(* configuration is its 'units' value (the only key the client reads), a  *)
(* fetch argument is well formed ("kv") or not ("bad"), printed lines are *)
(* message records collected in out, the lines of the current command.    *)
(***************************************************************************)
EXTENDS Naturals, Sequences

CONSTANTS
    Hosts,      \* host names a user may give (model values)
    Ports,      \* port tokens int() accepts
    BadPort,    \* a port token int() rejects with ValueError
    None,       \* Python's None
    Faults,     \* failure replies a running daemon may give
    MaxArgs     \* most tokens of one fetch command

ASSUME CliAssumption ==
    /\ None \notin Hosts \cup Ports \cup {BadPort, "metric", "imperial"}
    /\ BadPort \notin Ports
    /\ Faults \subseteq {"empty", "httpError", "garbled"}
    /\ MaxArgs \in Nat

VARIABLES
    pc,           \* "start" (argument handling of __main__), "idle" (cmdloop
                  \* prompt), "hostPrompt"/"portPrompt" (inside do_connect),
                  \* "exited" or "crashed" (process gone)
    CONN_DETAILS, \* [host, port] of the stored connection
    CONFIG,       \* cached 'units' of the server configuration, or None
    server_name,  \* host typed at do_connect's first prompt
    lastcmd,      \* cmd.Cmd.lastcmd
    out,          \* lines printed by the current command
    req,          \* the GET the current command sent, or None
    stdinOpen,    \* FALSE once standard input is at end of file
    up,           \* environment: endpoints whose daemon answers
    srvUnits      \* environment: units each daemon is configured with

vars == <<pc, CONN_DETAILS, CONFIG, server_name, lastcmd, out, req,
          stdinOpen, up, srvUnits>>

Units == {"metric", "imperial"}
Endpoints == [host : Hosts, port : Ports]
\* CONN_DETAILS = (None, None, None) before any connection
NoConn == [host |-> None, port |-> None]
DataCmds == {"config", "current", "statistics", "fetch"}
Cmds == DataCmds \cup {"connect", "connection", "exit"}
Paths == {"config", "current", "statistics", "fetch"}
Glyph(u) == IF u = "metric" THEN "C" ELSE "F"
Exceptions == {"ValueError", "InvalidURL", "TypeError", "JSONDecodeError",
               "EOFError"}

\* The argument string of fetch, split: each token matches \w+=.+ or not.
FetchArgs == UNION {[1..n -> {"kv", "bad"}] : n \in 0..MaxArgs}
\* The argument string of connect: token count (capped at 2) and tokens.
ConnectArgs == [argc : 0..2, host : Hosts, port : Ports \cup {BadPort}]
\* sys.argv as argparse sees it.
StartArgs == [version : BOOLEAN, host : Hosts \cup {None},
              port : Ports \cup {BadPort, None}]

Say(k) == [m |-> k]
Msg ==
    [m : {"mustConnect", "argsRequired", "noParams", "notEnoughArgs",
          "notConnected", "exiting", "aborted", "inputError", "unknownSyntax",
          "ctrlC", "version", "urlError", "stats", "serverError"}]
    \cup [m : {"formatError"}, pos : 1..MaxArgs]
    \cup [m : {"configTable"}, units : Units]
    \cup [m : {"entry"}, unit : {"C", "F"}]
    \cup [m : {"entries"}, hdr : {"C", "F"}, rows : BOOLEAN, unit : {"C", "F"}]
    \cup [m : {"connected", "connectFailed", "connInfo"}, to : Endpoints]
    \cup [m : {"traceback"}, exc : Exceptions]
Request == [to : Endpoints \cup {NoConn}, path : Paths, query : FetchArgs]

IsConnected == CONN_DETAILS.host # None

(***************************************************************************)
(* get_data: the outcomes of one GET.  A URL with host and port None makes *)
(* http.client raise InvalidURL, which is not a URLError; an unreachable   *)
(* daemon or an HTTP error is a URLError, printed and turned into None; an *)
(* empty body is None; a body json.loads rejects raises.                   *)
(***************************************************************************)
Reply(e) == IF e.host = None THEN {"invalidURL"}
            ELSE IF e \in up THEN {"ok"} \cup Faults
            ELSE {"unreachable"}
Handled(r) == r \in {"empty", "httpError", "unreachable"}
Crash(r) == r \in {"garbled", "invalidURL"}
Exc(r) == IF r = "garbled" THEN "JSONDecodeError" ELSE "InvalidURL"
Printed(r) == IF r = "empty" THEN {} ELSE {Say("urlError")}
Send(e, path, query) == req' = [to |-> e, path |-> path, query |-> query]

\* Ending the current command back at the prompt, or with a traceback.
Finish(lines) == pc' = "idle" /\ out' = lines
Die(lines, exc) == pc' = "crashed" /\ out' = lines \cup {[m |-> "traceback", exc |-> exc]}
Refuse(k) == Finish({Say(k)}) /\ req' = None
\* What a handler does when get_data gave no usable reply.
GetFailed(r, lines) ==
    \/ Handled(r) /\ Finish(lines \cup Printed(r))
    \/ Crash(r) /\ Die(lines, Exc(r))

Env == <<stdinOpen, up, srvUnits>>

Init ==
    /\ pc = "start"
    /\ CONN_DETAILS = NoConn
    /\ CONFIG = None
    /\ server_name = None
    /\ lastcmd = ""
    /\ out = {}
    /\ req = None
    /\ stdinOpen = TRUE
    /\ up \in SUBSET Endpoints
    /\ srvUnits \in [Endpoints -> Units]

(* Mutant: get_config's result ignored, success printed on any non-fatal
   reply. *)
TestConnectionAlwaysTrue(e, lines) ==
    \E r \in Reply(e) :
        /\ Send(e, "config", <<>>)
        /\ \/ /\ r = "ok"
              /\ CONFIG' = srvUnits[e]
              /\ Finish(lines \cup {[m |-> "connected", to |-> e]})
           \/ /\ Handled(r)
              /\ UNCHANGED CONFIG
              /\ Finish(lines \cup Printed(r) \cup {[m |-> "connected", to |-> e]})
           \/ Crash(r) /\ UNCHANGED CONFIG /\ Die(lines, Exc(r))

(***************************************************************************)
(* The tail of do_connect: get_config on the stored details, then the      *)
(* success or failure line.  get_config caches data['results'] when the    *)
(* reply is truthy.                                                        *)
(***************************************************************************)
TestConnection(e, lines) ==
    \E r \in Reply(e) :
        /\ Send(e, "config", <<>>)
        /\ \/ /\ r = "ok"
              /\ CONFIG' = srvUnits[e]
              /\ Finish(lines \cup {[m |-> "connected", to |-> e]})
           \/ /\ Handled(r)
              /\ UNCHANGED CONFIG
              /\ Finish(lines \cup Printed(r) \cup {[m |-> "connectFailed", to |-> e]})
           \/ Crash(r) /\ UNCHANGED CONFIG /\ Die(lines, Exc(r))

(* Mutant: the whole token list is stored (CONN_DETAILS = parsed_args). *)
ConnectWithArgsStoresTokens(a) ==
    \/ /\ a.argc = 1
       /\ UNCHANGED CONN_DETAILS
       /\ TestConnection(CONN_DETAILS, {Say("notEnoughArgs")})
    \/ /\ a.argc = 2 /\ a.port = BadPort
       /\ UNCHANGED <<CONN_DETAILS, CONFIG>> /\ req' = None
       /\ Die({}, "ValueError")
    \/ /\ a.argc = 2 /\ a.port \in Ports
       /\ CONN_DETAILS' = a
       /\ TestConnection(CONN_DETAILS', {})

(* Mutant: the new details are stored only when get_config succeeded. *)
ConnectWithArgsStoreOnSuccess(a) ==
    \/ /\ a.argc = 1
       /\ UNCHANGED CONN_DETAILS
       /\ TestConnection(CONN_DETAILS, {Say("notEnoughArgs")})
    \/ /\ a.argc = 2 /\ a.port = BadPort
       /\ UNCHANGED <<CONN_DETAILS, CONFIG>> /\ req' = None
       /\ Die({}, "ValueError")
    \/ /\ a.argc = 2 /\ a.port \in Ports
       /\ LET e == [host |-> a.host, port |-> a.port]
          IN  /\ TestConnection(e, {})
              /\ CONN_DETAILS' = IF [m |-> "connected", to |-> e] \in out'
                                 THEN e ELSE CONN_DETAILS

(* Mutant: get_config runs on the previous details, before the new ones
   are stored. *)
ConnectWithArgsTestBeforeStore(a) ==
    \/ /\ a.argc = 1
       /\ UNCHANGED CONN_DETAILS
       /\ TestConnection(CONN_DETAILS, {Say("notEnoughArgs")})
    \/ /\ a.argc = 2 /\ a.port = BadPort
       /\ UNCHANGED <<CONN_DETAILS, CONFIG>> /\ req' = None
       /\ Die({}, "ValueError")
    \/ /\ a.argc = 2 /\ a.port \in Ports
       /\ CONN_DETAILS' = [host |-> a.host, port |-> a.port]
       /\ TestConnection(CONN_DETAILS, {})

\* do_connect with a non-empty argument string.
ConnectWithArgs(a) ==
    \/ /\ a.argc = 1
       /\ UNCHANGED CONN_DETAILS
       /\ TestConnection(CONN_DETAILS, {Say("notEnoughArgs")})
    \/ /\ a.argc = 2 /\ a.port = BadPort
       /\ UNCHANGED <<CONN_DETAILS, CONFIG>> /\ req' = None
       /\ Die({}, "ValueError")
    \/ /\ a.argc = 2 /\ a.port \in Ports
       /\ CONN_DETAILS' = [host |-> a.host, port |-> a.port]
       /\ TestConnection(CONN_DETAILS', {})

(***************************************************************************)
(* __main__: --version prints and exits; hostname and port both given      *)
(* connect before the loop (do_connect(' '.join(...))); otherwise the loop *)
(* starts unconnected.                                                     *)
(***************************************************************************)
Start(argv) ==
    /\ pc = "start"
    /\ \/ argv.version /\ out' = {Say("version")} /\ pc' = "exited"
          /\ UNCHANGED <<CONN_DETAILS, CONFIG, req>>
       \/ /\ ~argv.version /\ argv.host # None /\ argv.port # None
          /\ ConnectWithArgs([argc |-> 2, host |-> argv.host, port |-> argv.port])
       \/ /\ ~argv.version /\ (argv.host = None \/ argv.port = None)
          /\ Finish({}) /\ UNCHANGED <<CONN_DETAILS, CONFIG, req>>
    /\ UNCHANGED <<server_name, lastcmd, Env>>

\* cmdloop reads a command line only at the prompt, from an open stdin.
Prompt == pc = "idle" /\ stdinOpen

do_connect(a) ==
    /\ Prompt
    /\ lastcmd' = "connect"
    /\ \/ /\ a.argc = 0
          /\ pc' = "hostPrompt" /\ out' = {} /\ req' = None
          /\ UNCHANGED <<CONN_DETAILS, CONFIG>>
       \/ a.argc > 0 /\ ConnectWithArgs(a)
    /\ UNCHANGED <<server_name, Env>>

\* server_name = input('Enter server hostname or IP: ')
ConnectHostInput(h) ==
    /\ pc = "hostPrompt" /\ stdinOpen
    /\ server_name' = h /\ pc' = "portPrompt"
    /\ UNCHANGED <<CONN_DETAILS, CONFIG, lastcmd, out, req, Env>>

\* KeyboardInterrupt at the host prompt: 'Aborted.', then get_config anyway.
ConnectHostInterrupt ==
    /\ pc = "hostPrompt"
    /\ UNCHANGED CONN_DETAILS
    /\ TestConnection(CONN_DETAILS, {Say("aborted")})
    /\ UNCHANGED <<server_name, lastcmd, Env>>

\* EOFError at the host prompt: not caught by do_connect, cmdloop or main.
ConnectHostEOF ==
    /\ pc = "hostPrompt" /\ ~stdinOpen
    /\ Die(out, "EOFError")
    /\ UNCHANGED <<CONN_DETAILS, CONFIG, server_name, lastcmd, req, Env>>

(***************************************************************************)
(* The port loop: int(input(...)) until it parses.  The bare except also   *)
(* catches KeyboardInterrupt and EOFError: both print 'Input error.' and   *)
(* ask again.                                                              *)
(***************************************************************************)
ConnectPortInput(t) ==
    /\ pc = "portPrompt" /\ stdinOpen
    /\ \/ /\ t \in Ports
          /\ CONN_DETAILS' = [host |-> server_name, port |-> t]
          /\ TestConnection(CONN_DETAILS', out)
       \/ /\ t = BadPort
          /\ out' = out \cup {Say("inputError")}
          /\ UNCHANGED <<pc, CONN_DETAILS, CONFIG, req>>
    /\ UNCHANGED <<server_name, lastcmd, Env>>

\* Ctrl-C at the port prompt (any time) or EOFError (once stdin is closed).
ConnectPortInterrupt ==
    /\ pc = "portPrompt"
    /\ out' = out \cup {Say("inputError")}
    /\ UNCHANGED <<pc, CONN_DETAILS, CONFIG, server_name, lastcmd, req, Env>>

\* do_config; 'CONFIG = data['results']' binds a local (no 'global CONFIG').
do_config(hasArgs) ==
    /\ Prompt
    /\ lastcmd' = "config"
    /\ \/ hasArgs /\ Refuse("noParams")
       \/ ~hasArgs /\ ~IsConnected /\ Refuse("mustConnect")
       \/ /\ ~hasArgs /\ IsConnected
          /\ \E r \in Reply(CONN_DETAILS) :
                /\ Send(CONN_DETAILS, "config", <<>>)
                /\ \/ r = "ok" /\ Finish({[m |-> "configTable",
                                           units |-> srvUnits[CONN_DETAILS]]})
                   \/ GetFailed(r, {})
    /\ UNCHANGED <<CONN_DETAILS, CONFIG, server_name, Env>>

\* do_current: the entry is printed when the reply has length > 0.
do_current(hasArgs) ==
    /\ Prompt
    /\ lastcmd' = "current"
    /\ \/ hasArgs /\ Refuse("noParams")
       \/ ~hasArgs /\ ~IsConnected /\ Refuse("mustConnect")
       \/ /\ ~hasArgs /\ IsConnected
          /\ \E r \in Reply(CONN_DETAILS) :
                /\ Send(CONN_DETAILS, "current", <<>>)
                /\ \/ /\ r = "ok"
                      /\ \E nonEmpty \in BOOLEAN :
                            Finish(IF nonEmpty
                                   THEN {[m |-> "entry", unit |-> Glyph(srvUnits[CONN_DETAILS])]}
                                   ELSE {})
                   \/ GetFailed(r, {})
    /\ UNCHANGED <<CONN_DETAILS, CONFIG, server_name, Env>>

do_statistics(hasArgs) ==
    /\ Prompt
    /\ lastcmd' = "statistics"
    /\ \/ hasArgs /\ Refuse("noParams")
       \/ ~hasArgs /\ ~IsConnected /\ Refuse("mustConnect")
       \/ /\ ~hasArgs /\ IsConnected
          /\ \E r \in Reply(CONN_DETAILS) :
                /\ Send(CONN_DETAILS, "statistics", <<>>)
                /\ \/ r = "ok" /\ Finish({Say("stats")})
                   \/ GetFailed(r, {})
    /\ UNCHANGED <<CONN_DETAILS, CONFIG, server_name, Env>>

\* The positions the validation loop reports: zip(range(1, len(parsed_args)),
\* parsed_args) pairs position i with token i for i < len(parsed_args) only.
CheckedPositions(args) == {i \in 1..(Len(args) - 1) : args[i] = "bad"}

(* Mutant: the connection check of do_fetch is missing. *)
do_fetch_unguarded(args) ==
    /\ Prompt
    /\ lastcmd' = "fetch"
    /\ \/ args = <<>> /\ Refuse("argsRequired")
       \/ /\ args # <<>>
          /\ LET warned == {[m |-> "formatError", pos |-> i] : i \in CheckedPositions(args)}
             IN  \E r \in Reply(CONN_DETAILS) :
                    /\ Send(CONN_DETAILS, "fetch", args)
                    /\ \/ r = "ok" /\ Finish(warned \cup {Say("serverError")})
                       \/ GetFailed(r, warned)
    /\ UNCHANGED <<CONN_DETAILS, CONFIG, server_name, Env>>

(***************************************************************************)
(* do_fetch: format errors are reported and the query is sent anyway; a    *)
(* reply with errcode 0 prints the header, whose unit comes from the       *)
(* cached CONFIG (CONFIG['units'] raises TypeError when CONFIG is None),   *)
(* then the rows with data['units']['tempunits'] of the reply.             *)
(***************************************************************************)
do_fetch(args) ==
    /\ Prompt
    /\ lastcmd' = "fetch"
    /\ \/ ~IsConnected /\ Refuse("mustConnect")
       \/ IsConnected /\ args = <<>> /\ Refuse("argsRequired")
       \/ /\ IsConnected /\ args # <<>>
          /\ LET warned == {[m |-> "formatError", pos |-> i] : i \in CheckedPositions(args)}
             IN  \E r \in Reply(CONN_DETAILS) :
                    /\ Send(CONN_DETAILS, "fetch", args)
                    /\ \/ r = "ok" /\ Finish(warned \cup {Say("serverError")})
                       \/ r = "ok" /\ CONFIG = None /\ Die(warned, "TypeError")
                       \/ /\ r = "ok" /\ CONFIG # None
                          /\ \E rows \in BOOLEAN :
                                Finish(warned \cup {[m |-> "entries", hdr |-> Glyph(CONFIG),
                                                     rows |-> rows,
                                                     unit |-> Glyph(srvUnits[CONN_DETAILS])]})
                       \/ GetFailed(r, warned)
    /\ UNCHANGED <<CONN_DETAILS, CONFIG, server_name, Env>>

do_connection ==
    /\ Prompt
    /\ lastcmd' = "connection"
    /\ IF IsConnected THEN Finish({[m |-> "connInfo", to |-> CONN_DETAILS]})
                      ELSE Finish({Say("notConnected")})
    /\ req' = None
    /\ UNCHANGED <<CONN_DETAILS, CONFIG, server_name, Env>>

do_exit ==
    /\ Prompt
    /\ lastcmd' = "exit"
    /\ out' = {Say("exiting")} /\ pc' = "exited" /\ req' = None
    /\ UNCHANGED <<CONN_DETAILS, CONFIG, server_name, Env>>

\* cmdloop at end of file: the line 'EOF' has no do_EOF, so default()
\* prints '*** Unknown syntax: EOF' and the loop reads again.
LoopEOF ==
    /\ pc = "idle" /\ ~stdinOpen
    /\ lastcmd' = "" /\ out' = {Say("unknownSyntax")} /\ req' = None
    /\ UNCHANGED <<pc, CONN_DETAILS, CONFIG, server_name, Env>>

\* Ctrl-C at the prompt leaves cmdloop; __main__ prints and the program ends.
LoopInterrupt ==
    /\ pc = "idle"
    /\ out' = {Say("ctrlC")} /\ pc' = "exited" /\ req' = None
    /\ UNCHANGED <<CONN_DETAILS, CONFIG, server_name, lastcmd, Env>>

(* The environment: standard input closes; daemons stop, start, and are    *)
(* restarted with other units.                                             *)
CloseStdin ==
    /\ stdinOpen /\ stdinOpen' = FALSE
    /\ UNCHANGED <<pc, CONN_DETAILS, CONFIG, server_name, lastcmd, out, req, up, srvUnits>>

DaemonToggle(e) ==
    /\ up' = IF e \in up THEN up \ {e} ELSE up \cup {e}
    /\ UNCHANGED <<pc, CONN_DETAILS, CONFIG, server_name, lastcmd, out, req, stdinOpen, srvUnits>>

DaemonReconfigure(e, u) ==
    /\ srvUnits[e] # u /\ srvUnits' = [srvUnits EXCEPT ![e] = u]
    /\ UNCHANGED <<pc, CONN_DETAILS, CONFIG, server_name, lastcmd, out, req, stdinOpen, up>>

Shell ==
    \/ \E argv \in StartArgs : Start(argv)
    \/ \E a \in ConnectArgs : do_connect(a)
    \/ \E h \in Hosts : ConnectHostInput(h)
    \/ ConnectHostInterrupt \/ ConnectHostEOF
    \/ \E t \in Ports \cup {BadPort} : ConnectPortInput(t)
    \/ ConnectPortInterrupt
    \/ \E b \in BOOLEAN : do_config(b) \/ do_current(b) \/ do_statistics(b)
    \/ \E args \in FetchArgs : do_fetch(args)
    \/ do_connection \/ do_exit \/ LoopEOF \/ LoopInterrupt

Environment ==
    \/ CloseStdin
    \/ \E e \in Endpoints : DaemonToggle(e)
    \/ \E e \in Endpoints, u \in Units : DaemonReconfigure(e, u)

Next == Shell \/ Environment

Spec == Init /\ [][Next]_vars

(***************************************************************************)
(* Once standard input is at end of file, input() raises EOFError at once: *)
(* the shell's reaction (cmdloop's 'EOF' line, the host prompt's EOFError, *)
(* the port loop's bare except) needs nobody at the keyboard, so it is    *)
(* weakly fair.  Nothing else is: the user may stop typing, a daemon may  *)
(* stay down.                                                              *)
(***************************************************************************)
EOFReaction == ~stdinOpen /\ (LoopEOF \/ ConnectHostEOF \/ ConnectPortInterrupt)
FairSpec == Spec /\ WF_vars(EOFReaction)

-----------------------------------------------------------------------------
(* Properties *)

\* Every variable holds a value of its type.
TypeOK ==
    /\ pc \in {"start", "idle", "hostPrompt", "portPrompt", "exited", "crashed"}
    /\ CONN_DETAILS \in Endpoints \cup {NoConn}
    /\ CONFIG \in Units \cup {None}
    /\ server_name \in Hosts \cup {None}
    /\ pc = "portPrompt" => server_name \in Hosts
    /\ lastcmd \in Cmds \cup {""}
    /\ out \in SUBSET Msg
    /\ req \in Request \cup {None}
    /\ stdinOpen \in BOOLEAN
    /\ up \in SUBSET Endpoints
    /\ srvUnits \in [Endpoints -> Units]

(***************************************************************************)
(* Every GET goes to the details CONN_DETAILS holds once the command is    *)
(* done (do_connect stores the new details before get_config uses them),  *)
(* and config, current, statistics and fetch send nothing while no        *)
(* connection is stored (spec section 8: no request while disconnected).  *)
(***************************************************************************)
RequestTargetsSession ==
    req # None =>
        /\ req.to = CONN_DETAILS
        /\ lastcmd \in DataCmds => IsConnected

(***************************************************************************)
(* 'Now connected to X on port P.' is printed only when the config request *)
(* of this command went to X:P, the session stores X:P and a server       *)
(* configuration is cached.                                                *)
(***************************************************************************)
ConnectReportTruthful ==
    \A e \in Endpoints :
        [m |-> "connected", to |-> e] \in out =>
            /\ CONN_DETAILS = e
            /\ req = [to |-> e, path |-> "config", query |-> <<>>]
            /\ CONFIG # None

(***************************************************************************)
(* A connect whose config request fails still leaves the new details       *)
(* stored (spec 4.2 and 8: the unreachable host overwrites ConnectionInfo, *)
(* later commands retry it), and reports the failure for those details.    *)
(***************************************************************************)
FailedConnectKeepsEndpoint ==
    \A e \in Endpoints :
        [m |-> "connectFailed", to |-> e] \in out =>
            /\ CONN_DETAILS = e
            /\ req.to = e

(***************************************************************************)
(* The session state implements spec 4.2 (module SessionSpec): the stored *)
(* details are ConnectionInfo (NoConn is absent), CONFIG the cached       *)
(* ServerConfig.  Every step of the shell leaves both alone or is a        *)
(* connect: new details stored, then CONFIG either kept or set to what the *)
(* server now named reports, never what another server reports.           *)
(***************************************************************************)
Session == INSTANCE SessionSpec
               WITH conn <- IF CONN_DETAILS = NoConn THEN None ELSE CONN_DETAILS,
                    cache <- CONFIG
SessionRefinement == Session!Spec

-----------------------------------------------------------------------------
(* Statements of the spec that the code does not meet (violation runs). *)

(***************************************************************************)
(* Spec 4.3 and 8: a successful 'config' re-caches the configuration, so   *)
(* the cache reflects the most recent fetch.                               *)
(***************************************************************************)
ConfigRecaches ==
    [][\A u \in Units :
          (lastcmd' = "config" /\ [m |-> "configTable", units |-> u] \in out')
              => CONFIG' = u]_vars

(***************************************************************************)
(* Spec 4.3: the unit in the fetch header is the unit the server reports   *)
(* for the rows it prints below it.                                        *)
(***************************************************************************)
FetchHeaderMatchesRows ==
    \A l \in out : (l.m = "entries" /\ l.rows) => l.hdr = l.unit

(***************************************************************************)
(* Spec 4.3: every fetch token not matching \w+=.+ is reported with its    *)
(* 1-based position.                                                       *)
(***************************************************************************)
FetchReportsEveryMalformedArg ==
    (req # None /\ req.path = "fetch") =>
        \A i \in DOMAIN req.query :
            req.query[i] = "bad" => [m |-> "formatError", pos |-> i] \in out

(***************************************************************************)
(* Spec 4.2: after a connect whose config fetch failed, the stored details *)
(* stay usable: later commands run against them without killing the shell. *)
(***************************************************************************)
LenientAfterFailedConnect ==
    [m |-> "traceback", exc |-> "TypeError"] \notin out

\* Spec 7: a transport error is reported, never fatal.
TransportErrorNotFatal ==
    [m |-> "traceback", exc |-> "InvalidURL"] \notin out

(***************************************************************************)
(* Spec 5: an interrupt or end of input at one of connect's prompts aborts *)
(* that input; control leaves the prompt (back to the command loop) with   *)
(* no further input, once the shell reacts to the closed stdin.            *)
(***************************************************************************)
ConnectPrompts == {"hostPrompt", "portPrompt"}
EndOfInputLeavesPrompts ==
    (~stdinOpen /\ pc \in ConnectPrompts) ~> pc \notin ConnectPrompts
=============================================================================
