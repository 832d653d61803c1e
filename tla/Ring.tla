-------------------------------- MODULE Ring --------------------------------
(***************************************************************************)
(* internal/store/buffer.go: the byte ring behind every pane, as operators *)
(* on a record.  Byte positions are absolute: data[o % Capacity] holds the *)
(* byte at offset o for every o in [start, end).  Offsets are int64 in the *)
(* code and never come near the width.                                     *)
(***************************************************************************)
EXTENDS Integers, Sequences

CONSTANTS Capacity,  \* bytes retained per pane (1 MiB in production)
          Byte,      \* the bytes told apart
          ZeroByte   \* what make([]byte, capacity) fills the ring with

ASSUME CapacityAssumption == Capacity \in Nat \ {0}
ASSUME ByteAssumption == ZeroByte \in Byte

Slot == 0..(Capacity - 1)

(* last is the time of the last Append; 0 is Go's zero time, "none yet". *)
BufferType == [data : [Slot -> Byte], start : Nat, end : Nat, last : Nat]

(* With the invariant stated at buffer.go:19. *)
ValidBuffer == {b \in BufferType : b.start <= b.end /\ b.end - b.start <= Capacity}

NewBuffer == [data |-> [i \in Slot |-> ZeroByte], start |-> 0, end |-> 0, last |-> 0]

(* copy(data[at:], p): the bytes of p over data from slot at on. *)
Copy(data, at, p) == [i \in Slot |-> IF i - at + 1 \in 1..Len(p) THEN p[i - at + 1] ELSE data[i]]

(* A mutation of WriteRing: what runs past the ring's last slot is lost. *)
WrongWriteRing(data, head, p) == Copy(data, head, p)

(* The one or two copies that write p from slot head on, wrapping. *)
WriteRing(data, head, p) ==
    LET first == Capacity - head IN
    IF first >= Len(p)
    THEN Copy(data, head, p)
    ELSE Copy(Copy(data, head, SubSeq(p, 1, first)), 0, SubSeq(p, first + 1, Len(p)))

(* A mutation of Evict: the start stays where it is. *)
WrongEvict(start, end) == start

(* The retained window's start once the head is at end. *)
Evict(start, end) == IF end - start > Capacity THEN end - Capacity ELSE start

(* Buffer.Append for a non-empty p; an oversized p loses its leading bytes *)
(* first, so that the rest lands on the slots of its own offsets.          *)
AppendNonEmpty(b, p, time) ==
    LET dropped == IF Len(p) > Capacity THEN Len(p) - Capacity ELSE 0
        tail    == SubSeq(p, dropped + 1, Len(p))
        from    == b.end + dropped
        start   == Evict(b.start, from)
    IN [data  |-> WriteRing(b.data, from % Capacity, tail),
        start |-> Evict(start, from + Len(tail)),
        end   |-> from + Len(tail),
        last  |-> time]

BufferAppend(b, p, time) == IF p = <<>> THEN b ELSE AppendNonEmpty(b, p, time)

(* Buffer.Read's ok: after lies in [start, end]. *)
InWindow(b, after) == b.start <= after /\ after <= b.end

(* Buffer.Read's bytes from a position in the window: one copy, or two     *)
(* when they wrap.                                                         *)
BufferRead(b, after) ==
    LET n     == b.end - after
        begin == after % Capacity
        first == Capacity - begin
    IN [i \in 1..n |-> IF begin + n <= Capacity \/ i <= first
                       THEN b.data[begin + i - 1]
                       ELSE b.data[i - first - 1]]
=============================================================================
