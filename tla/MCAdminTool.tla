---------------------------- MODULE MCAdminTool ----------------------------
(* Model-checking instance of AdminTool. *)
EXTENDS AdminTool

CONSTANTS none, intr

\* The script with the menu call resolved, and both builds.
MCResolvable == {TRUE}
MCBoth == BOOLEAN
=============================================================================
