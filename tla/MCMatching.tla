----------------------------- MODULE MCMatching -----------------------------
(* Small instance of Matching.  68 stands for "__DONE__:" and for the same *)
(* again as token and colon, so that occurrences of the prefix overlap.    *)
(* 49 and 48 are the digits 1 and 0; 11 is the first code that overflows.  *)
(* The first two programs print sequences of several kinds, the next two   *)
(* strings and control sequences only; then come sentinels, with control   *)
(* sequences and without, and white space.                                 *)
EXTENDS Matching
MCPrefix == <<68, 68>>
MCPrograms == {
    [bytes |-> {ESC, CSI, OSC, 80, 48, SPACE, ST, BEL}, length |-> 5],
    [bytes |-> {ESC, CSI, OSC, 48, ST, BEL}, length |-> 6],
    [bytes |-> {ESC, OSC, 80, ST, BEL}, length |-> 6],
    [bytes |-> {ESC, CSI, 48, SPACE, ST}, length |-> 6],
    [bytes |-> {ESC, CSI, 49, 68, CR}, length |-> 6],
    [bytes |-> {48, 49, 68, CR}, length |-> 7],
    [bytes |-> {ESC, CSI, SPACE, TAB, CR, NL, 68}, length |-> 5]}
=============================================================================
