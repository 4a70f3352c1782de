----------------------------- MODULE SessionSpec -----------------------------
(***************************************************************************)
(* What the session state of the CLI promises, in the terms of spec 4.2:   *)
(* a ConnectionInfo, initially absent, and a cached ServerConfig,          *)
(* initially absent.  The only command that changes them is connect: it    *)
(* sets ConnectionInfo unconditionally, then tries to cache the config of  *)
(* the server it now names; a failed try leaves the cache as it was.  The  *)
(* servers' configuration belongs to the environment and may change.      *)
(*                                                                         *)
(* CliSession implements this specification (CliSession!SessionRefinement *)
(* and the theorem Refinement of CliSessionProofs).                        *)
(***************************************************************************)
CONSTANTS
    Endpoints,  \* the host and port pairs a connection can name
    Units,      \* the configurations a server can report
    None        \* absent

VARIABLES
    conn,      \* ConnectionInfo: an endpoint, or None
    cache,     \* ServerConfig: the cached configuration, or None
    srvUnits   \* environment: the configuration of each server

svars == <<conn, cache, srvUnits>>

\* Both are absent at startup.
Init ==
    /\ conn = None
    /\ cache = None
    /\ srvUnits \in [Endpoints -> Units]

\* connect: store e, then cache the configuration e reports, or fail.
Connect(e) ==
    /\ conn' = e
    /\ cache' \in {cache, srvUnits[e]}
    /\ UNCHANGED srvUnits

\* A server is restarted with another configuration.
Reconfigure(e, u) ==
    /\ srvUnits' = [srvUnits EXCEPT ![e] = u]
    /\ UNCHANGED <<conn, cache>>

Next ==
    \/ \E e \in Endpoints : Connect(e)
    \/ \E e \in Endpoints, u \in Units : Reconfigure(e, u)

Spec == Init /\ [][Next]_svars
=============================================================================
