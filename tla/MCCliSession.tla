---------------------------- MODULE MCCliSession ----------------------------
(* Model-checking instance of CliSession: two hosts, one numeric port.     *)
EXTENDS CliSession

CONSTANTS h1, h2, p1, pBad, none

MCHosts == {h1, h2}
MCPorts == {p1}
\* Every fault a running daemon can give.
MCFaults == {"empty", "httpError", "garbled"}
\* Replies without the malformed body the spec leaves open (section 9).
MCFaultsNoGarble == {"empty", "httpError"}
=============================================================================
