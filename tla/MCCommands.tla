----------------------------- MODULE MCCommands -----------------------------
(* A small instance of Commands, for liveness: one agent with one pane.    *)
(* Bytes: x, and m, whose presence is a match.                             *)
EXTENDS Commands
CONSTANTS p1, w1, x, m

MCByte == {x, m}
OneByte == {<<x>>, <<m>>}

Req(modes, timeouts, args) ==
    [mode : modes, pane : Pane, timeout : timeouts, arg : args]

(* Both waiting conditions, to see every wait end. *)
TimedRequests == Req({"snapshot", "read"}, {0}, {0}) \cup Req({"regex"}, {1}, {1})
                 \cup Req({"quiescence"}, {2}, {1})
=============================================================================
