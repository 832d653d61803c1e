----------------------------- MODULE MCRequests -----------------------------
(* Small instances of Requests.  In the worlds of one client every line of *)
(* up to four units is typed; in the others two sends, or a send and       *)
(* another command, meet.                                                  *)
EXTENDS Requests
CONSTANTS c1, c2

Pane == <<Flag("pane"), Word("%1")>>
Line(sub, units) == << <<Word(sub)>> >> \o units

TextUnits == {Pane, <<Assign("pane", "%1")>>, <<Flag("enter")>>, <<Word("hi")>>, <<End>>,
              <<Flag("bogus")>>}
UndividedUnits == {<<Flag("pane")>>, <<Word("%1")>>, <<Word("hi")>>, <<End>>}
ReadUnits == {Pane, <<Flag("after"), Word("token")>>, <<Word("hi")>>, <<End>>}

Typed(sub, units, n) == {Line(sub, us) : us \in UNION {[1..k -> units] : k \in 0..n}}

TextWith(flag) == Line("text", <<Pane, <<flag>>, <<Word("hi")>> >>)
TextEnter == TextWith(Flag("enter"))
Key       == Line("key", <<Pane, <<Word("C-c")>> >>)
WaitLine  == Line("wait", <<Pane>>)
Snapshot  == Line("snapshot", <<Pane>>)

MCLinesIn(w, c) ==
    CASE w = "shell" /\ c = c1 -> Typed("text", TextUnits, 3) \cup Typed("key", TextUnits \cup {SocketUnit}, 2)
                                 \cup Typed("key", UndividedUnits, 3)
                                 \cup {<<SocketUnit>> \o line : line \in Typed("key", TextUnits, 2)}
                                 \cup Typed("read", ReadUnits, 3) \cup Typed("list", TextUnits, 1) \cup {Snapshot}
                                 \cup {TextWith(Assign("enter", value)) : value \in {"1", "F", "yes"}}
      [] w = "shell" /\ c = c2 -> {}
      [] w = "prompt" /\ c = c1 -> {TextEnter, WaitLine}
      [] w = "prompt" /\ c = c2 -> {WaitLine}
      [] w = "slow" /\ c = c1 -> {TextEnter}
      [] w = "slow" /\ c = c2 -> {TextEnter}
      [] w = "late" /\ c = c1 -> {WaitLine, Key, Snapshot}
      [] w = "late" /\ c = c2 -> {}
=============================================================================
