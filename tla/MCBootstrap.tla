----------------------------- MODULE MCBootstrap -----------------------------
(* Small instances of Bootstrap: one pane that prints until the ring wraps *)
(* and wraps again, or two panes.  A pane's bytes are 1, 2, ...            *)
EXTENDS Bootstrap, TLC
CONSTANTS p1, p2, t1, t2

MCByte == 0..MaxPrint
FIFOs == Permutations(Tracker)

MCScope(s) ==
    IF s = "one" THEN [bytes |-> [p \in Pane |-> IF p = p1 THEN MaxPrint ELSE 0], blips |-> MaxBlips, captured |-> {p1}]
    ELSE [bytes |-> [p \in Pane |-> 2], blips |-> MaxBlips, captured |-> {}]
=============================================================================
