------------------------------- MODULE MCFeed -------------------------------
(* Small instances of Feed: a pane's bytes are 1, 2, ...; 0 fills a ring. *)
EXTENDS Feed, TLC
CONSTANTS p1, p2, t1, t2

MCByte == 0..MaxPrint
FIFOs == Permutations(Tracker)
=============================================================================
