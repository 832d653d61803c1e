------------------------------ MODULE MCBytes ------------------------------
(***************************************************************************)
(* Small instances of the two algorithms on bytes, side by side: a ring of *)
(* 3 with chunks up to 5 (oversized), so that every alignment of head,     *)
(* wrap and overflow occurs; and the texts of MCMatching.                  *)
(***************************************************************************)
EXTENDS Buffer, MCMatching
CONSTANTS zero, a
MCByte == {zero, a}

VARIABLE part  \* the algorithm at work

BytesInit == part \in {"ring", "text"} /\ BufferInit /\ MatchingInit

BytesNext ==
    /\ \/ part = "ring" /\ BufferNext /\ UNCHANGED matchingVars
       \/ part = "text" /\ MatchingNext /\ UNCHANGED bufferVars
    /\ UNCHANGED part

BytesSpec == BytesInit /\ [][BytesNext]_<<part, bufferVars, matchingVars>>
=============================================================================
