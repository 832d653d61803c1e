---------------------------- MODULE BufferProofs ----------------------------
(* The window invariant of one buffer, for every capacity and chunk size,  *)
(* and that the ring implements the abstract stream.                       *)
EXTENDS Buffer, RingProofs

(* A chunk is a sequence of bytes. *)
LEMMA ChunkType == ASSUME NEW p \in Chunk PROVE p \in Seq(Byte)
  <1>1. PICK n \in 0..MaxChunk : p \in [1..n -> Byte]
    BY DEF Chunk
  <1>2. n \in Nat
    BY BufferAssumption
  <1> QED BY <1>1, <1>2, SeqDef

(* The ring stays a ring and its window fits it (buffer.go:19), through    *)
(* any sequence of appends, wrapping and oversized ones included.          *)
THEOREM BufferTypeCorrect == BufferSpec => []BufferTypeOK
  <1>1. BufferInit => BufferTypeOK
    BY NewBufferValid DEF BufferInit, BufferTypeOK
  <1>2. BufferTypeOK /\ [BufferNext]_bufferVars => BufferTypeOK'
    <2> SUFFICES ASSUME BufferTypeOK, [BufferNext]_bufferVars PROVE BufferTypeOK'
      OBVIOUS
    <2>1. CASE AppendChunk
      <3>1. PICK p \in Chunk : buf' = BufferAppend(buf, p, 1)
        BY <2>1 DEF AppendChunk
      <3> QED BY <3>1, ChunkType, AppendValid DEF BufferTypeOK
    <2>2. CASE ReadFrom
      BY <2>2 DEF ReadFrom, BufferTypeOK
    <2>3. CASE UNCHANGED bufferVars
      BY <2>3 DEF bufferVars, BufferTypeOK
    <2> QED BY <2>1, <2>2, <2>3 DEF BufferNext
  <1> QED BY <1>1, <1>2, PTL DEF BufferSpec

-----------------------------------------------------------------------------
Window(b) == [i \in 1..(b.end - b.start) |-> b.data[(b.start + i - 1) % Capacity]]

(* The window slot by slot is what a read from its start returns. *)
LEMMA WindowIsRead ==
  ASSUME NEW b \in ValidBuffer PROVE Window(b) = BufferRead(b, b.start)
  <1>1. b.start \in Nat /\ InWindow(b, b.start)
    BY DEF ValidBuffer, BufferType, InWindow
  <1>2. \A i \in 1..(b.end - b.start) :
          BufferRead(b, b.start)[i] = b.data[(b.start + i - 1) % Capacity]
    BY <1>1, ReadSlots
  <1>3. BufferRead(b, b.start) = [i \in 1..(b.end - b.start) |-> BufferRead(b, b.start)[i]]
    BY DEF BufferRead
  <1> QED BY <1>2, <1>3 DEF Window

(* The newest bytes of a sequence, one by one. *)
LEMMA NewestProperties ==
  ASSUME NEW s \in Seq(Byte)
  PROVE  /\ Abstract!Newest(s) \in Seq(Byte)
         /\ Len(Abstract!Newest(s)) = IF Len(s) > Capacity THEN Capacity ELSE Len(s)
         /\ \A i \in 1..Len(Abstract!Newest(s)) :
              Abstract!Newest(s)[i] = s[Len(s) - Len(Abstract!Newest(s)) + i]
  <1>c. PICK C \in Nat \ {0} : C = Capacity
    BY CapacityAssumption
  <1>n. PICK n \in Nat : n = Len(s)
    BY LenProperties
  <1>1. CASE n <= C
    <2>1. Abstract!Newest(s) = s
      BY <1>c, <1>n, <1>1 DEF Abstract!Newest
    <2>2. ~(Len(s) > Capacity) /\ \A i \in 1..Len(s) : Len(s) - Len(s) + i = i
      BY <1>c, <1>n, <1>1
    <2> QED BY <2>1, <2>2
  <1>2. CASE ~(n <= C)
    <2>1. Abstract!Newest(s) = SubSeq(s, n - C + 1, n)
      BY <1>c, <1>n, <1>2 DEF Abstract!Newest
    <2>2. n - C + 1 \in Nat \ {0} /\ n - (n - C + 1) + 1 = C /\ n - C + 1 <= n
      BY <1>2
    <2>m. PICK m \in Nat \ {0} : m = n - C + 1
      BY <2>2
    <2>3. \A i \in m..n : s[i] \in Byte
      BY <1>n, ElementOfSeq
    <2>4. /\ SubSeq(s, m, n) \in Seq(Byte)
          /\ Len(SubSeq(s, m, n)) = C
      <3>1. /\ SubSeq(s, m, n) \in Seq(Byte)
            /\ Len(SubSeq(s, m, n)) = IF m <= n THEN n - m + 1 ELSE 0
        BY <1>n, SliceType
      <3>2. m <= n /\ n - m + 1 = C
        BY <2>2, <2>m
      <3> QED BY <3>1, <3>2
    <2>5. \A i \in 1..C : SubSeq(s, m, n)[i] = s[n - C + i]
      <3>1. \A i \in 1..(n - m + 1) : SubSeq(s, m, n)[i] = s[m + i - 1]
        BY <2>3, SubSeqProperties
      <3>2. ASSUME NEW i \in 1..C PROVE i \in 1..(n - m + 1) /\ m + i - 1 = n - C + i
        BY <2>2, <2>m
      <3> QED BY <3>1, <3>2
    <2>6. Abstract!Newest(s) = SubSeq(s, m, n)
      BY <2>1, <2>m
    <2>7. Len(s) > Capacity
      BY <1>c, <1>n, <1>2
    <2> QED BY <1>c, <1>n, <2>4, <2>5, <2>6, <2>7
  <1> QED BY <1>1, <1>2

(* An Append of the ring is an append of the stream: what it retains is    *)
(* the newest of what it retained and what it appends.                     *)
LEMMA AppendIsNewest ==
  ASSUME NEW b \in ValidBuffer, NEW p \in Seq(Byte)
  PROVE  Window(BufferAppend(b, p, 1)) = Abstract!Newest(Window(b) \o p)
  <1>n. PICK n : n = BufferAppend(b, p, 1)
    OBVIOUS
  <1>r. PICK r : r = BufferRead(b, b.start)
    OBVIOUS
  <1>s. PICK s : s = BufferRead(n, n.start)
    OBVIOUS
  <1>1. /\ r \in Seq(Byte) /\ s \in Seq(Byte)
        /\ Len(s) = IF Len(r) + Len(p) > Capacity THEN Capacity ELSE Len(r) + Len(p)
        /\ \A i \in 1..Len(s) : s[i] = (r \o p)[Len(r) + Len(p) - Len(s) + i]
    <2>1. \A time \in Nat :
            LET x == BufferRead(b, b.start)
                m == BufferAppend(b, p, time)
                y == BufferRead(m, m.start)
            IN /\ x \in Seq(Byte) /\ y \in Seq(Byte)
               /\ Len(y) = IF Len(x) + Len(p) > Capacity THEN Capacity ELSE Len(x) + Len(p)
               /\ \A i \in 1..Len(y) : y[i] = (x \o p)[Len(x) + Len(p) - Len(y) + i]
      BY AppendKeepsNewest
    <2> QED BY <1>n, <1>r, <1>s, <2>1
  <1>2. Window(n) = s /\ Window(b) = r
    BY <1>n, <1>r, <1>s, AppendValid, WindowIsRead
  <1>3. r \o p \in Seq(Byte) /\ Len(r \o p) = Len(r) + Len(p)
    BY <1>1, ConcatProperties
  <1>4. PICK t \in Seq(Byte) : t = Abstract!Newest(r \o p)
    BY <1>3, NewestProperties
  <1>5. /\ Len(t) = IF Len(r) + Len(p) > Capacity THEN Capacity ELSE Len(r) + Len(p)
        /\ \A i \in 1..Len(t) : t[i] = (r \o p)[Len(r) + Len(p) - Len(t) + i]
    <2>1. /\ Len(t) = IF Len(r \o p) > Capacity THEN Capacity ELSE Len(r \o p)
          /\ \A i \in 1..Len(t) : t[i] = (r \o p)[Len(r \o p) - Len(t) + i]
      BY <1>3, <1>4, NewestProperties
    <2> DEFINE all == Len(r) + Len(p)
    <2>2. Len(r \o p) = all
      BY <1>3
    <2>3. /\ Len(t) = IF all > Capacity THEN Capacity ELSE all
          /\ \A i \in 1..Len(t) : t[i] = (r \o p)[all - Len(t) + i]
      <3> HIDE DEF all
      <3> QED BY <2>1, <2>2
    <2> QED BY <2>3
  <1>6. Len(t) = Len(s)
    BY <1>1, <1>5
  <1>7. \A i \in 1..Len(s) : s[i] = t[i]
    BY <1>1, <1>5, <1>6
  <1>8. s = t
    BY <1>1, <1>6, <1>7, SeqEqual
  <1> QED BY <1>n, <1>2, <1>4, <1>8

(* A Read from a position in the window returns the end of what is        *)
(* retained, from there on.                                                *)
LEMMA ReadIsSuffix ==
  ASSUME NEW b \in ValidBuffer, NEW after \in Nat, InWindow(b, after)
  PROVE  SubSeq(Window(b), after - b.start + 1, b.end - b.start) = BufferRead(b, after)
  <1>b. /\ b.start \in Nat /\ b.end \in Nat /\ b.start <= after /\ after <= b.end
        /\ InWindow(b, b.start)
    BY DEF ValidBuffer, BufferType, InWindow
  <1>1. /\ BufferRead(b, after) \in Seq(Byte) /\ Len(BufferRead(b, after)) = b.end - after
        /\ \A i \in 1..(b.end - after) : BufferRead(b, after)[i] = b.data[(after + i - 1) % Capacity]
    BY ReadType, ReadSlots
  <1>2. /\ Window(b) \in Seq(Byte) /\ Len(Window(b)) = b.end - b.start
        /\ \A i \in 1..(b.end - b.start) : Window(b)[i] = b.data[(b.start + i - 1) % Capacity]
    BY <1>b, WindowIsRead, ReadType, ReadSlots
  <1>i. PICK low \in Nat, high \in Nat : low = b.start /\ high = b.end
    BY <1>b
  <1>h. low <= after /\ after <= high
    BY <1>b, <1>i
  <1>m. PICK m \in Nat \ {0} : m = after - low + 1
    BY <1>h
  <1>n. PICK n \in Nat : n = high - low
    BY <1>h
  <1>3. n = Len(Window(b))
    BY <1>2, <1>i, <1>n
  <1>4. \A i \in m..n : Window(b)[i] \in Byte
    BY <1>2, <1>3, ElementOfSeq
  <1>5. /\ SubSeq(Window(b), m, n) \in Seq(Byte)
        /\ Len(SubSeq(Window(b), m, n)) = high - after
        /\ \A i \in 1..(high - after) : SubSeq(Window(b), m, n)[i] = Window(b)[m + i - 1]
    <2>1. /\ SubSeq(Window(b), m, n) \in Seq(Byte)
          /\ Len(SubSeq(Window(b), m, n)) = IF m <= n THEN n - m + 1 ELSE 0
          /\ \A i \in 1..(n - m + 1) : SubSeq(Window(b), m, n)[i] = Window(b)[m + i - 1]
      BY <1>4, SubSeqProperties
    <2>2. (IF m <= n THEN n - m + 1 ELSE 0) = high - after /\ n - m + 1 = high - after
      BY <1>h, <1>m, <1>n
    <2> QED BY <2>1, <2>2
  <1>6. ASSUME NEW i \in 1..(high - after)
        PROVE  SubSeq(Window(b), m, n)[i] = BufferRead(b, after)[i]
    <2>1. m + i - 1 \in 1..(high - low) /\ low + (m + i - 1) - 1 = after + i - 1
      BY <1>h, <1>m
    <2>2. Window(b)[m + i - 1] = b.data[(low + (m + i - 1) - 1) % Capacity]
      BY <1>2, <1>i, <2>1
    <2>3. BufferRead(b, after)[i] = b.data[(after + i - 1) % Capacity]
      BY <1>1, <1>i
    <2> QED BY <1>5, <2>1, <2>2, <2>3
  <1>7. SubSeq(Window(b), m, n) = BufferRead(b, after)
    <2>1. Len(BufferRead(b, after)) = high - after
      BY <1>1, <1>i
    <2> HIDE DEF Window
    <2> QED BY <1>1, <1>5, <1>6, <2>1, SeqEqual
  <1> QED BY <1>7, <1>i, <1>m, <1>n

(* The ring implements the stream: every Append, wrapping or oversized,    *)
(* keeps exactly the newest bytes up to the capacity, and every Read is    *)
(* answered from the retained positions with the bytes appended there.     *)
THEOREM RingImplementsStream == BufferSpec => ImplementsStream
  <1>1. BufferInit => Abstract!StreamInit
    <2> SUFFICES ASSUME BufferInit PROVE Abstract!StreamInit
      OBVIOUS
    <2>1. buf.end = 0 /\ buf.start = 0 /\ event = Call("new", <<>>, TRUE, <<>>, 0)
      BY DEF BufferInit, NewBuffer
    <2>2. Retained = <<>>
      BY <2>1 DEF Retained
    <2> QED BY <2>1, <2>2 DEF Abstract!StreamInit, Abstract!Call, Call
  <1>2. BufferTypeOK /\ [BufferNext]_bufferVars
          => [Abstract!StreamAppend \/ Abstract!StreamRead]_(Abstract!streamVars)
    <2> SUFFICES ASSUME BufferTypeOK, [BufferNext]_bufferVars
                 PROVE  [Abstract!StreamAppend \/ Abstract!StreamRead]_(Abstract!streamVars)
      OBVIOUS
    <2>w. Retained = Window(buf) /\ Retained' = Window(buf')
      BY DEF Retained, Window
    <2>b. buf \in ValidBuffer /\ buf.start \in Nat /\ buf.end \in Nat /\ buf.start <= buf.end
      BY DEF BufferTypeOK, ValidBuffer, BufferType
    <2>1. CASE AppendChunk
      <3>1. PICK p \in Chunk : /\ buf.end + Len(p) <= MaxEnd
                               /\ buf' = BufferAppend(buf, p, 1)
                               /\ event' = Call("append", p, TRUE, <<>>, buf'.end)
        BY <2>1 DEF AppendChunk
      <3>2. p \in Seq(Byte)
        BY ChunkType
      <3>3. buf'.end = buf.end + Len(p)
        BY <2>b, <3>1, <3>2, AppendValid
      <3>4. Retained' = Abstract!Newest(Retained \o p)
        BY <2>w, <2>b, <3>1, <3>2, AppendIsNewest
      <3>5. p \in Abstract!Chunk
        BY DEF Abstract!Chunk, Chunk
      <3>6. event' = Abstract!Call("append", p, TRUE, <<>>, buf'.end)
        BY <3>1 DEF Abstract!Call, Call
      <3> QED BY <3>1, <3>3, <3>4, <3>5, <3>6 DEF Abstract!StreamAppend
    <2>2. CASE ReadFrom
      <3>1. PICK after \in 0..MaxEnd :
              event' = IF InWindow(buf, after)
                       THEN Call("read", after, TRUE, BufferRead(buf, after), buf.end)
                       ELSE Call("read", after, FALSE, <<>>, buf.end)
        BY <2>2 DEF ReadFrom
      <3>2. buf' = buf /\ Retained' = Retained
        BY <2>2, <2>w DEF ReadFrom
      <3>3. after \in Nat
        OBVIOUS
      <3>4. Len(Retained) = buf.end - buf.start
        <4>1. buf.end - buf.start \in Nat
          BY <2>b
        <4> QED BY <4>1 DEF Retained
      <3> DEFINE skip == after - (buf.end - Len(Retained))
      <3>5. skip = after - buf.start
        BY <2>b, <3>3, <3>4
      <3>6. skip \in 0..Len(Retained) <=> InWindow(buf, after)
        BY <2>b, <3>3, <3>4, <3>5 DEF InWindow
      <3>7. InWindow(buf, after) => SubSeq(Retained, skip + 1, Len(Retained)) = BufferRead(buf, after)
        BY <2>w, <2>b, <3>3, <3>4, <3>5, ReadIsSuffix
      <3>8. event' = IF skip \in 0..Len(Retained)
                     THEN Abstract!Call("read", after, TRUE,
                                        SubSeq(Retained, skip + 1, Len(Retained)), buf.end)
                     ELSE Abstract!Call("read", after, FALSE, <<>>, buf.end)
        <4> HIDE DEF skip
        <4> QED BY <3>1, <3>6, <3>7 DEF Abstract!Call, Call
      <3> QED BY <3>2, <3>8 DEF Abstract!StreamRead
    <2>3. CASE UNCHANGED bufferVars
      BY <2>3, <2>w DEF bufferVars, Abstract!streamVars
    <2> QED BY <2>1, <2>2, <2>3 DEF BufferNext
  <1> QED BY <1>1, <1>2, BufferTypeCorrect, PTL DEF BufferSpec, ImplementsStream, Abstract!StreamSpec
=============================================================================
