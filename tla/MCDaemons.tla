------------------------------ MODULE MCDaemons ------------------------------
(* Small instances of Daemons: a calm machine on which daemons crash, and  *)
(* a slow one on which they are started by hand and stopped; and one on    *)
(* which a daemon is stopped while two clients want one.                   *)
EXTENDS Daemons
CONSTANTS d1, d2, d3, c1, c2

Scopes == [
    calm   |-> [slow |-> FALSE, byHand |-> FALSE, daemons |-> Daemon, clients |-> Client,
                stops |-> 0, crashes |-> 2],
    slow   |-> [slow |-> TRUE, byHand |-> TRUE, daemons |-> {d1, d2}, clients |-> {c1},
                stops |-> 1, crashes |-> 1],
    handover |-> [slow |-> FALSE, byHand |-> FALSE, daemons |-> Daemon, clients |-> Client,
                  stops |-> 1, crashes |-> 0]]

MCScope(w) == Scopes[w]
=============================================================================
