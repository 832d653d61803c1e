----------------------------- MODULE RingProofs -----------------------------
(* What the ring's operators preserve, for every capacity and every chunk. *)
EXTENDS Ring, SequenceTheorems, TLAPS

(* The slot of an offset exists. *)
LEMMA SlotOfOffset == ASSUME NEW o \in Nat PROVE o % Capacity \in Slot
  BY CapacityAssumption DEF Slot

(* A fresh buffer is valid. *)
LEMMA NewBufferValid == NewBuffer \in ValidBuffer
  BY ByteAssumption, CapacityAssumption DEF NewBuffer, ValidBuffer, BufferType, Slot

(* A slice of a chunk is a chunk. *)
LEMMA SliceType ==
  ASSUME NEW p \in Seq(Byte), NEW from \in Nat \ {0}, NEW to \in Nat, to <= Len(p)
  PROVE  /\ SubSeq(p, from, to) \in Seq(Byte)
         /\ Len(SubSeq(p, from, to)) = IF from <= to THEN to - from + 1 ELSE 0
  <1>1. \A i \in from..to : p[i] \in Byte
    BY ElementOfSeq, LenProperties
  <1> QED BY <1>1, SubSeqProperties

(* Copying a sequence of bytes anywhere over a ring leaves a ring. *)
LEMMA CopyType ==
  ASSUME NEW data \in [Slot -> Byte], NEW at \in Int, NEW p \in Seq(Byte)
  PROVE  Copy(data, at, p) \in [Slot -> Byte]
  <1>1. ASSUME NEW i \in Slot, i - at + 1 \in 1..Len(p) PROVE p[i - at + 1] \in Byte
    BY <1>1, ElementOfSeq
  <1> QED BY <1>1 DEF Copy

(* Buffer.Append's wrapping write, from any slot, leaves a ring. *)
LEMMA WriteRingType ==
  ASSUME NEW data \in [Slot -> Byte], NEW head \in Slot, NEW p \in Seq(Byte)
  PROVE  WriteRing(data, head, p) \in [Slot -> Byte]
  <1> DEFINE first == Capacity - head
  <1>0. head \in Int /\ first \in Nat /\ first \in Int /\ Len(p) \in Nat
    BY CapacityAssumption, LenProperties DEF Slot
  <1>1. CASE first >= Len(p)
    BY <1>0, <1>1, CopyType DEF WriteRing
  <1>2. CASE ~(first >= Len(p))
    <2> DEFINE begin == SubSeq(p, 1, first)
               rest == SubSeq(p, first + 1, Len(p))
               mid == Copy(data, head, begin)
    <2>1. begin \in Seq(Byte)
      BY <1>0, <1>2, SliceType
    <2>2. rest \in Seq(Byte)
      BY <1>0, <1>2, SliceType
    <2>3. mid \in [Slot -> Byte]
      <3> HIDE DEF begin
      <3> QED BY <1>0, <2>1, CopyType
    <2>4. Copy(mid, 0, rest) \in [Slot -> Byte]
      <3> HIDE DEF mid, rest
      <3> QED BY <2>2, <2>3, CopyType
    <2> QED BY <1>2, <2>4 DEF WriteRing
  <1> QED BY <1>1, <1>2

(* A ring with a window that fits it is a valid buffer. *)
LEMMA RecordValid ==
  ASSUME NEW data \in [Slot -> Byte], NEW low \in Nat, NEW high \in Nat, NEW time \in Nat,
         low <= high, high - low <= Capacity
  PROVE  [data |-> data, start |-> low, end |-> high, last |-> time] \in ValidBuffer
  BY DEF ValidBuffer, BufferType

(* Eviction leaves a window that fits the ring. *)
LEMMA EvictFits ==
  ASSUME NEW low \in Nat, NEW high \in Nat, low <= high
  PROVE  /\ Evict(low, high) \in Nat
         /\ Evict(low, high) <= high
         /\ high - Evict(low, high) <= Capacity
  BY CapacityAssumption DEF Evict

(* Buffer.Append keeps the buffer valid, whatever it appends: the window   *)
(* never exceeds the ring, and the head advances by the chunk's length.    *)
LEMMA AppendValid ==
  ASSUME NEW b \in ValidBuffer, NEW p \in Seq(Byte), NEW time \in Nat
  PROVE  /\ BufferAppend(b, p, time) \in ValidBuffer
         /\ BufferAppend(b, p, time).end = b.end + Len(p)
  <1> DEFINE dropped == IF Len(p) > Capacity THEN Len(p) - Capacity ELSE 0
             tail == SubSeq(p, dropped + 1, Len(p))
             from == b.end + dropped
             low == Evict(b.start, from)
             high == from + Len(tail)
             ring == WriteRing(b.data, from % Capacity, tail)
  <1>1. Len(p) \in Nat /\ Capacity \in Nat /\ dropped \in Nat /\ dropped <= Len(p)
    BY CapacityAssumption, LenProperties
  <1>2. b.end \in Nat /\ b.start \in Nat /\ b.start <= b.end /\ b.data \in [Slot -> Byte]
    BY DEF ValidBuffer, BufferType
  <1>3. tail \in Seq(Byte) /\ Len(tail) = Len(p) - dropped
    <2> HIDE DEF dropped
    <2> QED BY <1>1, SliceType
  <1>4. from \in Nat /\ b.start <= from
    <2> HIDE DEF dropped
    <2> QED BY <1>1, <1>2
  <1>5. high \in Nat /\ from <= high /\ high = b.end + Len(p)
    <2> HIDE DEF tail, dropped
    <2> QED BY <1>1, <1>2, <1>3
  <1>6. low \in Nat /\ low <= high
    <2>1. low \in Nat /\ low <= from
      <3> HIDE DEF from
      <3> QED BY <1>2, <1>4, EvictFits
    <2> HIDE DEF low, from, high
    <2> QED BY <2>1, <1>4, <1>5
  <1>7. ring \in [Slot -> Byte]
    <2> HIDE DEF tail, from
    <2> QED BY <1>2, <1>3, <1>4, SlotOfOffset, WriteRingType
  <1>8. [data |-> ring, start |-> Evict(low, high), end |-> high, last |-> time] \in ValidBuffer
    <2> HIDE DEF ring, low, high
    <2> QED BY <1>5, <1>6, <1>7, EvictFits, RecordValid
  <1>9. AppendNonEmpty(b, p, time) =
          [data |-> ring, start |-> Evict(low, high), end |-> high, last |-> time]
    BY DEF AppendNonEmpty
  <1>10. CASE p = <<>>
    BY <1>2, <1>10 DEF BufferAppend
  <1>11. CASE p # <<>>
    <2> HIDE DEF ring, low, high
    <2> QED BY <1>5, <1>8, <1>9, <1>11 DEF BufferAppend
  <1> QED BY <1>10, <1>11

(* Buffer.Read from a position in the window returns exactly end - after   *)
(* bytes of the ring.                                                      *)
LEMMA ReadType ==
  ASSUME NEW b \in ValidBuffer, NEW after \in Nat, InWindow(b, after)
  PROVE  /\ BufferRead(b, after) \in Seq(Byte)
         /\ Len(BufferRead(b, after)) = b.end - after
  <1> DEFINE n == b.end - after
             begin == after % Capacity
             first == Capacity - begin
             at(i) == IF begin + n <= Capacity \/ i <= first THEN begin + i - 1 ELSE i - first - 1
  <1>1. b.end \in Nat /\ b.start \in Nat /\ b.data \in [Slot -> Byte]
    BY DEF ValidBuffer, BufferType
  <1>2. n \in Nat /\ n <= Capacity
    BY <1>1, CapacityAssumption DEF ValidBuffer, InWindow
  <1>3. begin \in Slot
    BY SlotOfOffset
  <1>4. ASSUME NEW i \in 1..n PROVE at(i) \in Slot
    <2> HIDE DEF n, begin
    <2> QED BY <1>2, <1>3, <1>4, CapacityAssumption DEF Slot
  <1>5. BufferRead(b, after) = [i \in 1..n |-> b.data[at(i)]]
    BY DEF BufferRead
  <1>6. ASSUME NEW i \in 1..n PROVE b.data[at(i)] \in Byte
    BY <1>1, <1>4, <1>6
  <1>7. BufferRead(b, after) \in [1..n -> Byte]
    <2> HIDE DEF at, n
    <2> QED BY <1>5, <1>6
  <1>8. BufferRead(b, after) \in Seq(Byte)
    BY <1>2, <1>7, SeqDef
  <1> QED BY <1>2, <1>7, <1>8, LenProperties

-----------------------------------------------------------------------------
(* Offsets that differ by less than the capacity have slots of their own,  *)
(* and the slot of an offset further on is found by wrapping once.         *)
LEMMA SlotQuotient ==
  ASSUME NEW o \in Nat
  PROVE  \E q \in Nat : o = Capacity * q + (o % Capacity)
  <1>1. o \div Capacity \in Nat /\ o = Capacity * (o \div Capacity) + (o % Capacity)
    BY CapacityAssumption
  <1> QED BY <1>1

LEMMA SlotUnique ==
  ASSUME NEW q \in Nat, NEW r \in Slot, NEW k \in Nat, NEW s \in Slot,
         Capacity * q + r = Capacity * k + s
  PROVE  r = s
  <1> USE CapacityAssumption DEF Slot
  <1>1. ASSUME NEW d \in Nat, d # 0 PROVE Capacity * d >= Capacity
    BY <1>1
  <1>2. CASE q = k
    BY <1>2
  <1>3. CASE q < k
    <2>1. Capacity * (k - q) >= Capacity
      BY <1>1, <1>3
    <2>2. Capacity * (k - q) = Capacity * k - Capacity * q
      OBVIOUS
    <2> QED BY <2>1, <2>2
  <1>4. CASE k < q
    <2>1. Capacity * (q - k) >= Capacity
      BY <1>1, <1>4
    <2>2. Capacity * (q - k) = Capacity * q - Capacity * k
      OBVIOUS
    <2> QED BY <2>1, <2>2
  <1> QED BY <1>2, <1>3, <1>4

LEMMA SlotFurther ==
  ASSUME NEW o \in Nat, NEW i \in 0..(Capacity - 1)
  PROVE  (o + i) % Capacity = IF (o % Capacity) + i < Capacity THEN (o % Capacity) + i
                              ELSE (o % Capacity) + i - Capacity
  <1>0. o % Capacity \in Slot /\ (o + i) % Capacity \in Slot /\ o + i \in Nat /\ i \in Nat
    BY SlotOfOffset, CapacityAssumption
  <1>1. PICK q \in Nat : o = Capacity * q + (o % Capacity)
    BY SlotQuotient
  <1>2. PICK k \in Nat : o + i = Capacity * k + ((o + i) % Capacity)
    BY <1>0, SlotQuotient
  <1>3. PICK r \in Slot : r = o % Capacity
    BY <1>0
  <1>4. PICK s \in Slot : s = (o + i) % Capacity
    BY <1>0
  <1>5. Capacity * k + s = Capacity * q + (r + i)
    <2>1. Capacity * k \in Nat /\ Capacity * q \in Nat
      BY CapacityAssumption
    <2> QED BY <1>0, <1>1, <1>2, <1>3, <1>4, <2>1 DEF Slot
  <1>6. CASE r + i < Capacity
    <2>1. r + i \in Slot
      BY <1>0, <1>6, CapacityAssumption DEF Slot
    <2>2. s = r + i
      BY <1>5, <2>1, SlotUnique
    <2> QED BY <1>3, <1>4, <1>6, <2>2
  <1>7. CASE ~(r + i < Capacity)
    <2>1. r + i - Capacity \in Slot
      BY <1>0, <1>7, CapacityAssumption DEF Slot
    <2>2. Capacity * k + s = Capacity * (q + 1) + (r + i - Capacity)
      <3>1. Capacity * (q + 1) = Capacity * q + Capacity
        BY CapacityAssumption
      <3> QED BY <1>0, <1>5, <3>1, CapacityAssumption DEF Slot
    <2>3. s = r + i - Capacity
      <3>1. q + 1 \in Nat
        OBVIOUS
      <3> QED BY <2>1, <2>2, <3>1, SlotUnique
    <2> QED BY <1>3, <1>4, <1>7, <2>3
  <1> QED BY <1>6, <1>7

(* What the wrapping write leaves in each slot.                            *)
LEMMA WriteAt ==
  ASSUME NEW data \in [Slot -> Byte], NEW head \in Slot, NEW p \in Seq(Byte),
         Len(p) <= Capacity, NEW x \in Slot
  PROVE  WriteRing(data, head, p)[x] =
           IF x - head + 1 \in 1..Len(p) THEN p[x - head + 1]
           ELSE IF x + Capacity - head + 1 \in 1..Len(p) THEN p[x + Capacity - head + 1]
           ELSE data[x]
  <1> DEFINE first == Capacity - head
             begin == SubSeq(p, 1, first)
             rest == SubSeq(p, first + 1, Len(p))
  <1>0. /\ head \in Nat /\ x \in Nat /\ first \in Nat /\ first # 0 /\ Len(p) \in Nat
        /\ Capacity \in Nat /\ head < Capacity /\ x < Capacity /\ first = Capacity - head
    BY CapacityAssumption, LenProperties DEF Slot
  <1>1. CASE first >= Len(p)
    <2>1. ~(x + Capacity - head + 1 \in 1..Len(p))
      BY <1>0, <1>1
    <2>2. WriteRing(data, head, p) = Copy(data, head, p)
      BY <1>1 DEF WriteRing
    <2> QED BY <2>1, <2>2 DEF Copy
  <1>2. CASE ~(first >= Len(p))
    <2>1. /\ Len(begin) = first /\ \A i \in 1..first : begin[i] = p[i]
      <3>1. \A i \in 1..first : p[i] \in Byte
        BY <1>0, <1>2, ElementOfSeq
      <3> HIDE DEF first
      <3> QED BY <1>0, <3>1, SubSeqProperties
    <2>2. /\ Len(rest) = Len(p) - first /\ \A i \in 1..(Len(p) - first) : rest[i] = p[first + i]
      <3>1. \A i \in (first + 1)..Len(p) : p[i] \in Byte
        BY <1>0, <1>2, ElementOfSeq
      <3> HIDE DEF first
      <3>2. /\ Len(rest) = IF first + 1 <= Len(p) THEN Len(p) - (first + 1) + 1 ELSE 0
            /\ \A i \in 1..(Len(p) - (first + 1) + 1) : rest[i] = p[(first + 1) + i - 1]
        BY <1>0, <3>1, SubSeqProperties
      <3>3. ASSUME NEW i \in 1..(Len(p) - first) PROVE rest[i] = p[first + i]
        <4>1. i \in 1..(Len(p) - (first + 1) + 1) /\ (first + 1) + i - 1 = first + i
          BY <1>0
        <4> HIDE DEF rest
        <4> QED BY <3>2, <4>1
      <3> QED BY <1>0, <1>2, <3>2, <3>3
    <2>3. WriteRing(data, head, p) = Copy(Copy(data, head, begin), 0, rest)
      BY <1>2 DEF WriteRing
    <2>4. WriteRing(data, head, p)[x] =
            IF x + 1 \in 1..Len(rest) THEN rest[x + 1]
            ELSE IF x - head + 1 \in 1..Len(begin) THEN begin[x - head + 1] ELSE data[x]
      <3> HIDE DEF begin, rest
      <3> QED BY <2>3, <1>0 DEF Copy
    <2> HIDE DEF begin, rest, first
    <2>5. CASE x + 1 \in 1..(Len(p) - first)
      <3>1. x + Capacity - head + 1 = first + (x + 1) /\ x + Capacity - head + 1 \in 1..Len(p)
        BY <1>0, <2>5
      <3>2. ~(x - head + 1 \in 1..Len(p))
        BY <1>0, <2>5
      <3> QED BY <2>2, <2>4, <2>5, <3>1, <3>2
    <2>6. CASE ~(x + 1 \in 1..(Len(p) - first)) /\ x - head + 1 \in 1..first
      <3>1. x - head + 1 \in 1..Len(p)
        BY <1>0, <1>2, <2>6
      <3> QED BY <2>1, <2>2, <2>4, <2>6, <3>1
    <2>7. CASE ~(x + 1 \in 1..(Len(p) - first)) /\ ~(x - head + 1 \in 1..first)
      <3>1. ~(x - head + 1 \in 1..Len(p)) /\ ~(x + Capacity - head + 1 \in 1..Len(p))
        BY <1>0, <1>2, <2>7
      <3> QED BY <2>1, <2>2, <2>4, <2>7, <3>1
    <2> QED BY <2>5, <2>6, <2>7
  <1> QED BY <1>1, <1>2

(* The bytes written at an offset land on the slots of their own offsets,  *)
(* and those of the offsets just before stay.                              *)
LEMMA WriteOwnSlots ==
  ASSUME NEW data \in [Slot -> Byte], NEW o \in Nat, NEW p \in Seq(Byte), Len(p) <= Capacity
  PROVE  /\ \A i \in 1..Len(p) : WriteRing(data, o % Capacity, p)[(o + i - 1) % Capacity] = p[i]
         /\ \A j \in 1..(Capacity - Len(p)) : j <= o =>
              WriteRing(data, o % Capacity, p)[(o - j) % Capacity] = data[(o - j) % Capacity]
  <1>c. PICK C \in Nat \ {0} : C = Capacity /\ Slot = 0..(C - 1)
    BY CapacityAssumption DEF Slot
  <1>n. PICK n \in Nat : n = Len(p)
    BY LenProperties
  <1>h. PICK head \in Slot : head = o % Capacity
    BY SlotOfOffset
  <1>1. ASSUME NEW i \in 1..n
        PROVE  WriteRing(data, head, p)[(o + i - 1) % Capacity] = p[i]
    <2>1. i - 1 \in 0..(Capacity - 1) /\ o + (i - 1) = o + i - 1 /\ o + i - 1 \in Nat
      BY <1>c, <1>n
    <2>2. PICK x \in Slot : x = (o + i - 1) % Capacity
      BY <2>1, SlotOfOffset
    <2>3. x = IF head + (i - 1) < C THEN head + (i - 1) ELSE head + (i - 1) - C
      BY <1>c, <1>h, <2>1, <2>2, SlotFurther
    <2>4. WriteRing(data, head, p)[x] =
            IF x - head + 1 \in 1..n THEN p[x - head + 1]
            ELSE IF x + C - head + 1 \in 1..n THEN p[x + C - head + 1]
            ELSE data[x]
      <3>1. WriteRing(data, head, p)[x] =
              IF x - head + 1 \in 1..Len(p) THEN p[x - head + 1]
              ELSE IF x + Capacity - head + 1 \in 1..Len(p) THEN p[x + Capacity - head + 1]
              ELSE data[x]
        BY WriteAt
      <3> QED BY <1>c, <1>n, <3>1
    <2>5. \/ x - head + 1 = i
          \/ ~(x - head + 1 \in 1..n) /\ x + C - head + 1 = i
      BY <1>c, <1>n, <2>3
    <2> QED BY <2>2, <2>4, <2>5
  <1>2. ASSUME NEW j \in 1..(C - n), j <= o
        PROVE  WriteRing(data, head, p)[(o - j) % Capacity] = data[(o - j) % Capacity]
    <2>1. o - j \in Nat
      BY <1>2
    <2>2. PICK x \in Slot : x = (o - j) % Capacity
      BY <2>1, SlotOfOffset
    <2>3. WriteRing(data, head, p)[x] =
            IF x - head + 1 \in 1..n THEN p[x - head + 1]
            ELSE IF x + C - head + 1 \in 1..n THEN p[x + C - head + 1]
            ELSE data[x]
      <3>1. WriteRing(data, head, p)[x] =
              IF x - head + 1 \in 1..Len(p) THEN p[x - head + 1]
              ELSE IF x + Capacity - head + 1 \in 1..Len(p) THEN p[x + Capacity - head + 1]
              ELSE data[x]
        BY WriteAt
      <3> QED BY <1>c, <1>n, <3>1
    <2>4. CASE n = 0
      BY <2>2, <2>3, <2>4
    <2>5. CASE n # 0
      <3>1. j \in 0..(Capacity - 1) /\ (o - j) + j = o
        BY <1>c, <2>5
      <3>2. head = IF x + j < C THEN x + j ELSE x + j - C
        BY <1>c, <1>h, <2>1, <2>2, <3>1, SlotFurther
      <3>3. ~(x - head + 1 \in 1..n) /\ ~(x + C - head + 1 \in 1..n)
        BY <1>c, <3>2
      <3> QED BY <2>2, <2>3, <3>3
    <2> QED BY <2>4, <2>5
  <1> QED BY <1>1, <1>2, <1>c, <1>n, <1>h

(* Buffer.Read's one or two copies yield the slots of the offsets read.    *)
LEMMA ReadSlots ==
  ASSUME NEW b \in ValidBuffer, NEW after \in Nat, InWindow(b, after)
  PROVE  \A i \in 1..(b.end - after) :
           BufferRead(b, after)[i] = b.data[(after + i - 1) % Capacity]
  <1>c. PICK C \in Nat \ {0} : C = Capacity /\ Slot = 0..(C - 1)
    BY CapacityAssumption DEF Slot
  <1>n. PICK n \in Nat : n = b.end - after /\ n <= C
    BY <1>c DEF ValidBuffer, BufferType, InWindow
  <1>h. PICK begin \in Slot : begin = after % Capacity
    BY SlotOfOffset
  <1>1. SUFFICES ASSUME NEW i \in 1..n
                 PROVE  BufferRead(b, after)[i] = b.data[(after + i - 1) % Capacity]
    BY <1>n
  <1>2. BufferRead(b, after)[i] = IF begin + n <= C \/ i <= C - begin
                                  THEN b.data[begin + i - 1] ELSE b.data[i - (C - begin) - 1]
    BY <1>c, <1>n, <1>h DEF BufferRead
  <1>3. i - 1 \in 0..(Capacity - 1) /\ after + (i - 1) = after + i - 1
    BY <1>c, <1>n
  <1>4. PICK x \in Slot : x = (after + i - 1) % Capacity
    BY <1>3, SlotOfOffset
  <1>5. x = IF begin + (i - 1) < C THEN begin + (i - 1) ELSE begin + (i - 1) - C
    BY <1>c, <1>h, <1>3, <1>4, SlotFurther
  <1>6. CASE begin + (i - 1) < C
    <2>1. i <= C - begin /\ begin + i - 1 = x
      BY <1>c, <1>5, <1>6
    <2> QED BY <1>2, <1>4, <2>1
  <1>7. CASE ~(begin + (i - 1) < C)
    <2>1. ~(begin + n <= C \/ i <= C - begin) /\ i - (C - begin) - 1 = x
      BY <1>c, <1>5, <1>7
    <2> QED BY <1>2, <1>4, <2>1
  <1> QED BY <1>6, <1>7

(* Evicting before and after the write is evicting once.                   *)
LEMMA EvictTwice ==
  ASSUME NEW low \in Nat, NEW from \in Nat, NEW to \in Nat, low <= from, from <= to
  PROVE  Evict(Evict(low, from), to) = Evict(low, to)
  BY CapacityAssumption DEF Evict

(* Buffer.Append evicts exactly what exceeds the capacity, and every byte  *)
(* it retains, old or new, stands on the slot of its own offset.           *)
LEMMA AppendSlots ==
  ASSUME NEW b \in ValidBuffer, NEW p \in Seq(Byte), NEW time \in Nat, p # <<>>
  PROVE  /\ BufferAppend(b, p, time).start = Evict(b.start, b.end + Len(p))
         /\ BufferAppend(b, p, time).last = time
         /\ \A o \in Nat : b.end + Len(p) <= o + Capacity /\ o < b.end + Len(p) =>
              BufferAppend(b, p, time).data[o % Capacity] =
                IF o < b.end THEN b.data[o % Capacity] ELSE p[o - b.end + 1]
  <1> DEFINE dropped == IF Len(p) > Capacity THEN Len(p) - Capacity ELSE 0
             tail == SubSeq(p, dropped + 1, Len(p))
  <1>b. /\ b.start \in Nat /\ b.end \in Nat /\ b.data \in [Slot -> Byte]
        /\ b.start <= b.end /\ b.end - b.start <= Capacity
    BY DEF ValidBuffer, BufferType
  <1>d. /\ dropped \in Nat /\ dropped <= Len(p) /\ Len(p) \in Nat
        /\ (Len(p) > Capacity => dropped = Len(p) - Capacity)
        /\ (Len(p) <= Capacity => dropped = 0)
    BY CapacityAssumption, LenProperties
  <1>t. tail \in Seq(Byte) /\ Len(tail) = Len(p) - dropped /\ tail = SubSeq(p, dropped + 1, Len(p))
    <2> HIDE DEF dropped
    <2> QED BY <1>d, SliceType
  <1>1. BufferAppend(b, p, time) =
          [data |-> WriteRing(b.data, (b.end + dropped) % Capacity, tail),
           start |-> Evict(Evict(b.start, b.end + dropped), b.end + dropped + Len(tail)),
           end |-> b.end + dropped + Len(tail), last |-> time]
    BY DEF BufferAppend, AppendNonEmpty
  <1> HIDE DEF dropped, tail
  <1>2. b.end + dropped + Len(tail) = b.end + Len(p)
    BY <1>b, <1>d, <1>t
  <1>f. PICK from \in Nat : from = b.end + dropped
    BY <1>b, <1>d
  <1>3. Evict(Evict(b.start, from), b.end + Len(p)) = Evict(b.start, b.end + Len(p))
    <2>1. PICK low \in Nat, to \in Nat : low = b.start /\ to = b.end + Len(p)
      BY <1>b, <1>d
    <2>2. low <= from /\ from <= to
      BY <1>b, <1>d, <1>f, <2>1
    <2>3. Evict(Evict(low, from), to) = Evict(low, to)
      BY <2>2, EvictTwice
    <2> QED BY <2>1, <2>3
  <1>4. ASSUME NEW o \in Nat, b.end + Len(p) <= o + Capacity, o < b.end + Len(p)
        PROVE  WriteRing(b.data, from % Capacity, tail)[o % Capacity] =
                 IF o < b.end THEN b.data[o % Capacity] ELSE p[o - b.end + 1]
    <2>c. PICK C \in Nat \ {0} : C = Capacity
      BY CapacityAssumption
    <2>n. PICK n \in Nat : n = Len(p)
      BY LenProperties
    <2>e. PICK high \in Nat : high = b.end
      BY <1>b
    <2>d. PICK k \in Nat : k = dropped
      BY <1>d
    <2>h. (n > C => k = n - C) /\ (n <= C => k = 0)
      BY <1>d, <2>c, <2>n, <2>d
    <2>f. from = high + k
      BY <1>f, <2>e, <2>d
    <2>o. high + n <= o + C /\ o < high + n
      BY <1>4, <2>c, <2>n, <2>e
    <2>t. Len(tail) = n - k
      BY <1>t, <2>n, <2>d
    <2>s. tail = SubSeq(p, k + 1, n)
      BY <1>t, <2>n, <2>d
    <2>w. /\ \A i \in 1..(n - k) :
               WriteRing(b.data, from % Capacity, tail)[(from + i - 1) % Capacity] = tail[i]
          /\ \A j \in 1..(C - (n - k)) : j <= from =>
               WriteRing(b.data, from % Capacity, tail)[(from - j) % Capacity] =
                 b.data[(from - j) % Capacity]
      <3>1. Len(tail) <= Capacity
        <4>1. n - k <= C
          BY <2>h
        <4> QED BY <2>c, <2>t, <4>1
      <3>2. /\ \A i \in 1..Len(tail) :
                 WriteRing(b.data, from % Capacity, tail)[(from + i - 1) % Capacity] = tail[i]
            /\ \A j \in 1..(Capacity - Len(tail)) : j <= from =>
                 WriteRing(b.data, from % Capacity, tail)[(from - j) % Capacity] =
                   b.data[(from - j) % Capacity]
        BY <1>b, <1>t, <3>1, WriteOwnSlots
      <3>3. 1..Len(tail) = 1..(n - k) /\ 1..(Capacity - Len(tail)) = 1..(C - (n - k))
        BY <2>c, <2>t
      <3> QED BY <3>2, <3>3
    <2>1. CASE o < from
      <3>1. PICK j \in Nat : j = from - o
        BY <2>1
      <3>2. o < high /\ j \in 1..(C - (n - k)) /\ j <= from /\ from - j = o
        BY <2>f, <2>h, <2>o, <2>1, <3>1
      <3> QED BY <2>e, <2>w, <3>2
    <2>2. CASE ~(o < from)
      <3>1. PICK i \in Nat : i = o - from + 1
        BY <2>2
      <3>2. /\ ~(o < high) /\ i \in 1..(n - k) /\ from + i - 1 = o
            /\ i \in 1..(n - (k + 1) + 1) /\ (k + 1) + i - 1 = o - high + 1
        BY <2>f, <2>h, <2>o, <2>2, <3>1
      <3>3. tail[i] = p[(k + 1) + i - 1]
        <4>1. \A x \in (k + 1)..n : p[x] \in Byte
          BY <2>n, ElementOfSeq
        <4>2. \A x \in 1..(n - (k + 1) + 1) : SubSeq(p, k + 1, n)[x] = p[(k + 1) + x - 1]
          BY <4>1, SubSeqProperties
        <4> QED BY <2>s, <3>2, <4>2
      <3> QED BY <2>e, <2>w, <3>2, <3>3
    <2> QED BY <2>1, <2>2
  <1> QED BY <1>1, <1>2, <1>3, <1>4, <1>f

(* So an Append keeps exactly the newest bytes, up to the capacity, of     *)
(* what was retained and what it appends.                                  *)
LEMMA AppendKeepsNewest ==
  ASSUME NEW b \in ValidBuffer, NEW p \in Seq(Byte), NEW time \in Nat
  PROVE  LET r == BufferRead(b, b.start)
             n == BufferAppend(b, p, time)
             s == BufferRead(n, n.start)
         IN /\ r \in Seq(Byte) /\ s \in Seq(Byte)
            /\ Len(r) = b.end - b.start
            /\ Len(s) = IF Len(r) + Len(p) > Capacity THEN Capacity ELSE Len(r) + Len(p)
            /\ \A i \in 1..Len(s) : s[i] = (r \o p)[Len(r) + Len(p) - Len(s) + i]
  <1> SUFFICES ASSUME NEW r, r = BufferRead(b, b.start),
                      NEW n, n = BufferAppend(b, p, time),
                      NEW s, s = BufferRead(n, n.start)
               PROVE  /\ r \in Seq(Byte) /\ s \in Seq(Byte)
                      /\ Len(r) = b.end - b.start
                      /\ Len(s) = IF Len(r) + Len(p) > Capacity THEN Capacity
                                  ELSE Len(r) + Len(p)
                      /\ \A i \in 1..Len(s) : s[i] = (r \o p)[Len(r) + Len(p) - Len(s) + i]
    OBVIOUS
  <1>b. /\ b.start \in Nat /\ b.end \in Nat /\ b.start <= b.end /\ b.end - b.start <= Capacity
        /\ InWindow(b, b.start) /\ Len(p) \in Nat
    BY LenProperties DEF ValidBuffer, BufferType, InWindow
  <1>v. n \in ValidBuffer /\ n.end = b.end + Len(p)
    BY AppendValid
  <1>n. n.start \in Nat /\ n.start <= n.end /\ InWindow(n, n.start)
    BY <1>v DEF ValidBuffer, BufferType, InWindow
  <1>r. /\ r \in Seq(Byte) /\ Len(r) = b.end - b.start
        /\ \A i \in 1..(b.end - b.start) : r[i] = b.data[(b.start + i - 1) % Capacity]
    BY <1>b, ReadType, ReadSlots
  <1>s. /\ s \in Seq(Byte) /\ Len(s) = n.end - n.start
        /\ \A i \in 1..(n.end - n.start) : s[i] = n.data[(n.start + i - 1) % Capacity]
    BY <1>n, <1>v, ReadType, ReadSlots
  <1>1. CASE p = <<>>
    <2>1. n = b /\ s = r /\ Len(p) = 0
      BY <1>1, EmptySeq DEF BufferAppend
    <2>2. r \o p = r
      BY <1>1, <1>r, ConcatEmptySeq
    <2>3. Len(r) \in Nat /\ Len(r) <= Capacity
      BY <1>b, <1>r
    <2> HIDE <1>r, <1>s
    <2>4. Len(s) = IF Len(r) + Len(p) > Capacity THEN Capacity ELSE Len(r) + Len(p)
      BY <2>1, <2>3, CapacityAssumption
    <2>5. \A i \in 1..Len(s) : Len(r) + Len(p) - Len(s) + i = i
      BY <2>1, <2>3
    <2> QED BY <1>r, <2>1, <2>2, <2>4, <2>5
  <1>2. CASE p # <<>>
    <2>i. PICK low \in Nat, high \in Nat, begin \in Nat, len \in Nat :
            low = b.start /\ high = b.end /\ begin = n.start /\ len = Len(p)
      BY <1>b, <1>n
    <2>c. PICK C \in Nat \ {0} : C = Capacity
      BY CapacityAssumption
    <2>a. /\ begin = Evict(low, high + len)
          /\ \A o \in Nat : b.end + Len(p) <= o + Capacity /\ o < b.end + Len(p) =>
               n.data[o % Capacity] = IF o < b.end THEN b.data[o % Capacity] ELSE p[o - b.end + 1]
      BY <1>2, <2>i, AppendSlots
    <2>h. low <= high /\ high - low <= C
      BY <1>b, <2>c, <2>i
    <2>l. /\ low <= begin /\ high + len <= begin + C
          /\ high + len - begin = IF high + len - low > C THEN C ELSE high + len - low
      BY <2>a, <2>c, <2>h DEF Evict
    <2>w. \A o \in Nat : begin <= o /\ o < high + len =>
            n.data[o % Capacity] = IF o < high THEN b.data[o % Capacity] ELSE p[o - high + 1]
      <3> SUFFICES ASSUME NEW o \in Nat, begin <= o /\ o < high + len
                   PROVE  n.data[o % Capacity] = IF o < high THEN b.data[o % Capacity] ELSE p[o - high + 1]
        OBVIOUS
      <3>1. high + len <= o + C
        BY <2>l
      <3>2. b.end + Len(p) <= o + Capacity /\ o < b.end + Len(p)
        BY <2>i, <2>c, <3>1
      <3>3. n.data[o % Capacity] = IF o < b.end THEN b.data[o % Capacity] ELSE p[o - b.end + 1]
        BY <2>a, <3>2
      <3> QED BY <2>i, <3>3
    <2>r. Len(r) = high - low /\ \A i \in 1..(high - low) : r[i] = b.data[(low + i - 1) % Capacity]
      BY <1>r, <2>i
    <2>s. /\ Len(s) = high + len - begin
          /\ \A i \in 1..(high + len - begin) : s[i] = n.data[(begin + i - 1) % Capacity]
      BY <1>s, <1>v, <2>i
    <2>p. \A k \in 1..(high - low + len) :
            (r \o p)[k] = IF k <= high - low THEN r[k] ELSE p[k - (high - low)]
      <3>1. \A k \in 1..(Len(r) + Len(p)) :
              (r \o p)[k] = IF k <= Len(r) THEN r[k] ELSE p[k - Len(r)]
        BY <1>r, ConcatProperties
      <3> QED BY <2>i, <2>r, <3>1
    <2>1. ASSUME NEW i \in 1..(high + len - begin)
          PROVE  s[i] = (r \o p)[begin - low + i]
      <3>o. PICK o \in Nat : o = begin + i - 1
        BY <2>1
      <3>k. PICK k \in Nat : k = begin - low + i
        BY <2>l
      <3>1. begin <= o /\ o < high + len /\ k \in 1..(high - low + len) /\ low + k - 1 = o
        BY <2>l, <2>h, <3>o, <3>k
      <3>2. s[i] = IF o < high THEN b.data[o % Capacity] ELSE p[o - high + 1]
        BY <2>s, <2>w, <3>1, <3>o
      <3>3. CASE o < high
        <4>1. k \in 1..(high - low)
          BY <3>1, <3>3
        <4>2. r[k] = b.data[o % Capacity]
          BY <2>r, <3>1, <4>1
        <4>3. (r \o p)[k] = r[k]
          <5>1. k \in 1..(high - low + len) /\ k <= high - low
            BY <3>1, <4>1
          <5> QED BY <2>p, <5>1
        <4>4. s[i] = (r \o p)[k]
          BY <3>2, <3>3, <4>2, <4>3
        <4> QED BY <3>k, <4>4
      <3>4. CASE ~(o < high)
        <4>1. ~(k <= high - low) /\ o - high + 1 = k - (high - low)
          BY <3>1, <3>4
        <4>2. (r \o p)[k] = p[k - (high - low)]
          BY <2>p, <3>1, <4>1
        <4>3. s[i] = (r \o p)[k]
          BY <3>2, <3>4, <4>1, <4>2
        <4> QED BY <3>k, <4>3
      <3> QED BY <3>3, <3>4
    <2>2. Len(s) = IF Len(r) + Len(p) > Capacity THEN Capacity ELSE Len(r) + Len(p)
      <3>1. Len(s) = IF (high - low) + len > C THEN C ELSE (high - low) + len
        BY <2>s, <2>l, <2>h
      <3> QED BY <2>i, <2>c, <2>r, <3>1
    <2>3. \A i \in 1..Len(s) : s[i] = (r \o p)[Len(r) + Len(p) - Len(s) + i]
      <3>1. 1..Len(s) = 1..(high + len - begin)
        BY <2>s
      <3>2. Len(r) + Len(p) - Len(s) = begin - low
        <4>1. Len(p) = len
          BY <2>i
        <4> QED BY <4>1, <2>l, <2>r, <2>s
      <3> QED BY <2>1, <3>1, <3>2
    <2> QED BY <1>r, <1>s, <2>2, <2>3
  <1> QED BY <1>1, <1>2
=============================================================================
