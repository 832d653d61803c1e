----------------------------- MODULE MCClosures -----------------------------
(* Small instances of Closures.  Bytes: x, and m, whose presence is a      *)
(* match.                                                                  *)
EXTENDS Closures, TLC
CONSTANTS p1, p2, w1, w2, x, m

MCByte == {x, m}
OneByte == {<<x>>, <<m>>}
PlainByte == {<<x>>}

Req(modes, timeouts, args) ==
    [mode : modes, pane : Pane, timeout : timeouts, arg : args]

(* Match waits among snapshots. *)
MatchRequests == Req({"snapshot"}, {0}, {0}) \cup Req({"regex"}, {1}, {1})

(* Every command, the rejected requests included. *)
MCRequests == Req({"snapshot"}, {0}, {0, 1}) \cup Req({"read"}, {0}, {0})
              \cup Req({"sentinel", "unsupported"}, {1}, {0})
              \cup Req({"regex"}, {1}, {1})
              \cup Req({"quiescence"}, {0, 2}, {0, 1, 2})

(* Two agents wait for a match on one pane, among snapshots; or one agent  *)
(* asks for everything, of two panes.                                      *)
MCPlan == {"together"} \cup Watcher

Agents == Permutations(Watcher)

On(p, requests) == {r \in requests : r.pane = p}

Together == [asks |-> [w \in Watcher |-> On(p1, MatchRequests)], chunks |-> OneByte, time |-> 1]

Alone == [v \in Watcher |-> [asks |-> [w \in Watcher |-> IF w = v THEN MCRequests ELSE {}],
                             chunks |-> PlainByte, time |-> 2]]

MCScope(p) == IF p \in Watcher THEN Alone[p] ELSE Together
=============================================================================
