CONSTANTS
    d1 = d1
    d2 = d2
    d3 = d3
    c1 = c1
    c2 = c2
    Daemon = {d1, d2, d3}
    Client = {c1, c2}
    NoDaemon = NoDaemon
    NoClient = NoClient
    World = {"handover"}
    Scope <- MCScope
SPECIFICATION DaemonsSpec
INVARIANT TrackedIsPiped
