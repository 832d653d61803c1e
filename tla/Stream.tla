------------------------------- MODULE Stream -------------------------------
(***************************************************************************)
(* What a per-pane buffer promises (spec 11.8): a byte stream with stable  *)
(* absolute positions, of which the newest Capacity bytes are retained and *)
(* any retained position can be read up to the head.  No ring, no start    *)
(* offset: the retained interval is [end - Len(retained), end).            *)
(***************************************************************************)
EXTENDS Integers, Sequences

CONSTANTS Capacity, Byte, MaxChunk, MaxEnd

(* event is the latest call, with its argument and its result. *)
VARIABLES retained, end, event

Chunk == UNION {[1..n -> Byte] : n \in 0..MaxChunk}

streamVars == <<retained, end, event>>

Call(op, arg, ok, out, head) == [op |-> op, arg |-> arg, ok |-> ok, out |-> out, head |-> head]

(* The newest Capacity bytes of s. *)
Newest(s) == IF Len(s) <= Capacity THEN s ELSE SubSeq(s, Len(s) - Capacity + 1, Len(s))

StreamInit == /\ retained = <<>>
              /\ end = 0
              /\ event = Call("new", <<>>, TRUE, <<>>, 0)

(* A chunk joins the stream and the oldest bytes over Capacity leave it. *)
StreamAppend == \E p \in Chunk :
    /\ end + Len(p) <= MaxEnd
    /\ retained' = Newest(retained \o p)
    /\ end' = end + Len(p)
    /\ event' = Call("append", p, TRUE, <<>>, end')

(* A read from a retained position returns everything from there to the head. *)
StreamRead == \E after \in 0..MaxEnd :
    LET skip == after - (end - Len(retained)) IN
    /\ event' = IF skip \in 0..Len(retained)
                THEN Call("read", after, TRUE, SubSeq(retained, skip + 1, Len(retained)), end)
                ELSE Call("read", after, FALSE, <<>>, end)
    /\ UNCHANGED <<retained, end>>

StreamSpec == StreamInit /\ [][StreamAppend \/ StreamRead]_streamVars
=============================================================================
