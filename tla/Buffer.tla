------------------------------- MODULE Buffer -------------------------------
(***************************************************************************)
(* One ring buffer used through its two operations, to compare it with the *)
(* abstract Stream.  event is the latest call, with its argument and its   *)
(* result, so that the two are compared call by call.                      *)
(***************************************************************************)
EXTENDS Ring

CONSTANTS MaxChunk,  \* bound: longest chunk appended at once
          MaxEnd     \* bound: longest stream

ASSUME BufferAssumption == MaxChunk \in Nat /\ MaxEnd \in Nat

VARIABLES buf, event

bufferVars == <<buf, event>>

Chunk == UNION {[1..n -> Byte] : n \in 0..MaxChunk}

Call(op, arg, ok, out, head) == [op |-> op, arg |-> arg, ok |-> ok, out |-> out, head |-> head]

BufferInit == buf = NewBuffer /\ event = Call("new", <<>>, TRUE, <<>>, 0)

AppendChunk == \E p \in Chunk :
    /\ buf.end + Len(p) <= MaxEnd
    /\ buf' = BufferAppend(buf, p, 1)
    /\ event' = Call("append", p, TRUE, <<>>, buf'.end)

ReadFrom == \E after \in 0..MaxEnd :
    /\ event' = IF InWindow(buf, after)
                THEN Call("read", after, TRUE, BufferRead(buf, after), buf.end)
                ELSE Call("read", after, FALSE, <<>>, buf.end)
    /\ UNCHANGED buf

BufferNext == AppendChunk \/ ReadFrom

BufferSpec == BufferInit /\ [][BufferNext]_bufferVars

-----------------------------------------------------------------------------
(* Type correctness, with the invariant stated in buffer.go:19 on the      *)
(* window: the retained interval never exceeds the ring.                   *)
BufferTypeOK == buf \in ValidBuffer

(* The bytes of the window, read slot by slot. *)
Retained == [i \in 1..(buf.end - buf.start) |-> buf.data[(buf.start + i - 1) % Capacity]]

Abstract == INSTANCE Stream WITH retained <- Retained, end <- buf.end

(* The ring implements the stream: every Append keeps exactly the newest   *)
(* Capacity bytes, whatever mixture of wrapping and oversized chunks, and  *)
(* every Read answers from exactly the retained positions with exactly the *)
(* bytes appended there (buffer.go Append and Read).                       *)
ImplementsStream == Abstract!StreamSpec
=============================================================================
