--------------------------- MODULE MatchingProofs ---------------------------
(***************************************************************************)
(* Text and its matching, for every output, every prefix and every moment  *)
(* of an evaluation.                                                       *)
(***************************************************************************)
EXTENDS Matching, DataInduction

LEMMA PrefixLength == Prefix \in Seq(0..255) /\ Len(Prefix) \in Nat \ {0}
<1>1. Prefix \in Seq(0..255) /\ Prefix # <<>>  BY TextAssumption
<1> QED  BY <1>1, EmptySeq, LenProperties

-----------------------------------------------------------------------------
(* Where the scanner's loops stop.                                         *)
LEMMA SkipStops ==
    ASSUME NEW s, Len(s) \in Nat, NEW C, NEW j \in 1..(Len(s) + 1)
    PROVE  /\ Skip(s, j, C) \in j..(Len(s) + 1)
           /\ Skip(s, j, C) <= Len(s) => s[Skip(s, j, C)] \notin C
           /\ \A i \in j..(Skip(s, j, C) - 1) : s[i] \in C
<1> DEFINE T == {k \in j..(Len(s) + 1) : k = Len(s) + 1 \/ s[k] \notin C}
           Stops(k) == /\ k = Len(s) + 1 \/ s[k] \notin C
                       /\ \A i \in j..(k - 1) : s[i] \in C
<1>1. PICK k \in T : \A i \in T : k <= i
  <2>1. T \subseteq Nat /\ Len(s) + 1 \in T  OBVIOUS
  <2> HIDE DEF T
  <2> QED  BY <2>1, Least
<1>2. k \in j..(Len(s) + 1) /\ Stops(k)  BY <1>1
<1>3. Skip(s, j, C) = CHOOSE l \in j..(Len(s) + 1) : Stops(l)  BY DEF Skip
<1>4. Skip(s, j, C) \in j..(Len(s) + 1) /\ Stops(Skip(s, j, C))
  <2> HIDE DEF Stops
  <2> QED  BY <1>2, <1>3
<1> QED  BY <1>4

(* ... and nowhere else. *)
LEMMA SkipIs ==
    ASSUME NEW s, Len(s) \in Nat, NEW C, NEW j \in 1..(Len(s) + 1), NEW k \in j..(Len(s) + 1),
           k <= Len(s) => s[k] \notin C, \A i \in j..(k - 1) : s[i] \in C
    PROVE  Skip(s, j, C) = k
<1>1. PICK l \in j..(Len(s) + 1) : l = Skip(s, j, C) /\ (l <= Len(s) => s[l] \notin C)
                                   /\ \A i \in j..(l - 1) : s[i] \in C
  BY SkipStops
<1> QED  BY <1>1

LEMMA SkipOneStops ==
    ASSUME NEW s, Len(s) \in Nat, NEW C, NEW j \in 1..(Len(s) + 1)
    PROVE  SkipOne(s, j, C) \in j..(Len(s) + 1)
BY DEF SkipOne

(* The terminator of a string, if there is one, is the first one. *)
LEMMA StringEnds ==
    ASSUME NEW s, Len(s) \in Nat, NEW bel \in BOOLEAN, NEW j \in 1..(Len(s) + 1)
    PROVE  \/ /\ StringEnd(s, j, bel) = Len(s) + 1
              /\ \A k \in j..Len(s) : ~EndsHere(s, k, bel)
           \/ \E k \in j..Len(s) :
                 /\ EndsHere(s, k, bel) /\ \A i \in j..(k - 1) : ~EndsHere(s, i, bel)
                 /\ StringEnd(s, j, bel) = k + (IF s[k] = ESC THEN 2 ELSE 1)
<1> DEFINE T == {k \in j..Len(s) : EndsHere(s, k, bel)}
           First(k) == EndsHere(s, k, bel) /\ \A i \in j..(k - 1) : ~EndsHere(s, i, bel)
           l == CHOOSE k \in j..Len(s) : First(k)
<1>1. CASE T = {}  BY <1>1 DEF StringEnd
<1>2. CASE T # {}
  <2>1. PICK k \in T : \A i \in T : k <= i
    <3>1. T \subseteq Nat  OBVIOUS
    <3> HIDE DEF T
    <3> QED  BY <1>2, <3>1, Least
  <2>2. k \in j..Len(s) /\ First(k)
    <3>1. ASSUME NEW i \in j..(k - 1) PROVE ~EndsHere(s, i, bel)
      <4>1. i \in j..Len(s) /\ ~(k <= i)  OBVIOUS
      <4> QED  BY <2>1, <4>1
    <3> QED  BY <2>1, <3>1
  <2>3. l \in j..Len(s) /\ First(l)
    <3> HIDE DEF First
    <3> QED  BY <2>2
  <2>4. StringEnd(s, j, bel) = l + (IF s[l] = ESC THEN 2 ELSE 1)
    <3>1. \E i \in j..Len(s) : EndsHere(s, i, bel)  BY <2>2
    <3> QED  BY <3>1 DEF StringEnd
  <2> HIDE DEF l
  <2> QED  BY <2>3, <2>4
<1> QED  BY <1>1, <1>2

LEMMA StringEndRange ==
    ASSUME NEW s, Len(s) \in Nat, NEW bel \in BOOLEAN, NEW j \in 1..(Len(s) + 1)
    PROVE  StringEnd(s, j, bel) \in j..(Len(s) + 1)
<1>1. CASE StringEnd(s, j, bel) = Len(s) + 1  BY <1>1
<1>2. CASE StringEnd(s, j, bel) # Len(s) + 1
  <2>1. PICK k \in j..Len(s) : /\ EndsHere(s, k, bel)
                               /\ StringEnd(s, j, bel) = k + (IF s[k] = ESC THEN 2 ELSE 1)
    BY <1>2, StringEnds
  <2>2. s[k] = ESC => k < Len(s)  BY <2>1 DEF EndsHere, ESC, BEL
  <2> QED  BY <2>1, <2>2
<1> QED  BY <1>1, <1>2

LEMMA AfterEscapeRange ==
    ASSUME NEW s, Len(s) \in Nat, NEW i \in 1..Len(s)
    PROVE  AfterEscape(s, i) \in (i + 1)..(Len(s) + 1)
<1>1. CASE i = Len(s)  BY <1>1 DEF AfterEscape
<1>2. CASE i < Len(s)
  <2>0. i + 1 \in 1..(Len(s) + 1) /\ i + 2 \in 1..(Len(s) + 1)  BY <1>2
  <2>1. AfterCSI(s, i + 2) \in (i + 2)..(Len(s) + 1)
    <3>1. PICK k \in (i + 2)..(Len(s) + 1) : k = Skip(s, i + 2, Parameter)  BY <2>0, SkipStops
    <3>2. PICK l \in k..(Len(s) + 1) : l = Skip(s, k, Intermediate)  BY <3>1, SkipStops
    <3>3. SkipOne(s, l, Final) \in l..(Len(s) + 1)  BY <3>2, SkipOneStops
    <3> QED  BY <3>1, <3>2, <3>3 DEF AfterCSI
  <2>2. ASSUME NEW bel \in BOOLEAN PROVE StringEnd(s, i + 2, bel) \in (i + 2)..(Len(s) + 1)
    BY <2>0, StringEndRange
  <2>3. SkipOne(s, Skip(s, i + 1, Intermediate), Parameter \cup Final) \in (i + 1)..(Len(s) + 1)
    <3>1. PICK k \in (i + 1)..(Len(s) + 1) : k = Skip(s, i + 1, Intermediate)  BY <2>0, SkipStops
    <3>2. SkipOne(s, k, Parameter \cup Final) \in k..(Len(s) + 1)  BY <3>1, SkipOneStops
    <3> QED  BY <3>1, <3>2
  <2>4. AfterOSC(s, i + 2) \in (i + 2)..(Len(s) + 1) /\ StringEnd(s, i + 2, FALSE) \in (i + 2)..(Len(s) + 1)
    BY <2>2 DEF AfterOSC
  <2>5. CASE s[i + 1] = CSI  BY <1>2, <2>1, <2>5 DEF AfterEscape
  <2>6. CASE s[i + 1] # CSI /\ s[i + 1] = OSC  BY <1>2, <2>4, <2>6 DEF AfterEscape
  <2>7. CASE s[i + 1] # CSI /\ s[i + 1] # OSC /\ s[i + 1] \in Strings
    <3>1. PICK k \in (i + 2)..(Len(s) + 1) : k = StringEnd(s, i + 2, FALSE)  BY <2>4
    <3>2. i # Len(s)  BY <1>2
    <3>3. AfterEscape(s, i) = k  BY <2>7, <3>1, <3>2, Zenon DEF AfterEscape
    <3> QED  BY <3>3
  <2>8. CASE s[i + 1] # CSI /\ s[i + 1] # OSC /\ s[i + 1] \notin Strings
    BY <1>2, <2>3, <2>8 DEF AfterEscape
  <2> QED  BY <2>5, <2>6, <2>7, <2>8
<1> QED  BY <1>1, <1>2

-----------------------------------------------------------------------------
(* The scanner, from position i on, by what it returns from later ones. *)
StripAt(f, s, i) == IF i > Len(s) THEN <<>>
                    ELSE IF s[i] = ESC THEN f[AfterEscape(s, i)]
                    ELSE <<s[i]>> \o f[i + 1]

LEMMA StripDef ==
    ASSUME NEW s, Len(s) \in Nat
    PROVE  \E f : (\A i \in 1..(Len(s) + 1) : f[i] = StripAt(f, s, i)) /\ StripANSI(s) = f[1]
<1> DEFINE n == Len(s) + 1
           B(g, i) == StripAt(g, s, i)
<1>n. n \in Nat /\ n >= 1  OBVIOUS
<1>1. \A g, h, i : i \in 1..n /\ (\A j \in (i + 1)..n : g[j] = h[j]) => B(g, i) = B(h, i)
  <2> SUFFICES ASSUME NEW g, NEW h, NEW i \in 1..n, \A j \in (i + 1)..n : g[j] = h[j]
               PROVE  StripAt(g, s, i) = StripAt(h, s, i)
    OBVIOUS
  <2>1. CASE i > Len(s)  BY <2>1 DEF StripAt
  <2>2. CASE i <= Len(s)
    <3>1. g[i + 1] = h[i + 1]  BY <2>2
    <3>2. PICK j \in (i + 1)..n : j = AfterEscape(s, i)  BY <2>2, AfterEscapeRange
    <3>3. g[AfterEscape(s, i)] = h[AfterEscape(s, i)]  BY <3>2, Zenon
    <3>4. ~(i > Len(s))  BY <2>2
    <3> QED  BY <3>1, <3>3, <3>4, Zenon DEF StripAt
  <2> QED  BY <2>1, <2>2
<1> DEFINE D == {k \in Nat : \E g : \A i \in 1..n : i + k > n => g[i] = B(g, i)}
<1> HIDE DEF n, B
<1>2. 0 \in D  BY <1>n
<1>3. ASSUME NEW k \in Nat, k \in D PROVE k + 1 \in D
  <2>1. PICK g : \A i \in 1..n : i + k > n => g[i] = B(g, i)  BY <1>3
  <2> DEFINE h == [i \in 1..n |-> IF i + k = n THEN B(g, i) ELSE g[i]]
  <2>2. ASSUME NEW i \in 1..n, i + (k + 1) > n PROVE h[i] = B(h, i)
    <3>1. \A j \in (i + 1)..n : h[j] = g[j]  BY <2>2, <1>n
    <3>2. B(h, i) = B(g, i)
      <4> HIDE DEF h
      <4> QED  BY <1>1, <3>1
    <3>3. h[i] = IF i + k = n THEN B(g, i) ELSE g[i]  OBVIOUS
    <3> HIDE DEF h
    <3> QED  BY <1>n, <2>1, <2>2, <3>2, <3>3
  <2> HIDE DEF h
  <2> QED  BY <2>2
<1>4. n \in D
  <2> HIDE DEF D
  <2> QED  BY <1>n, <1>2, <1>3, Induct
<1>5. PICK g : \A i \in 1..n : g[i] = B(g, i)
  <2>1. \A i \in 1..n : i + n > n  BY <1>n
  <2> QED  BY <1>4, <2>1
<1> DEFINE h == [i \in 1..n |-> g[i]]
<1>6. h = [i \in 1..n |-> B(h, i)]
  <2>1. ASSUME NEW i \in 1..n PROVE h[i] = B(h, i)
    <3>1. \A j \in (i + 1)..n : h[j] = g[j]  BY <1>n
    <3>2. h[i] = g[i]  OBVIOUS
    <3> HIDE DEF h
    <3> QED  BY <1>1, <1>5, <3>1, <3>2
  <2>2. h = [i \in 1..n |-> h[i]]  OBVIOUS
  <2> HIDE DEF h
  <2> QED  BY <2>1, <2>2
<1> DEFINE f == CHOOSE g_1 : g_1 = [i \in 1..n |-> B(g_1, i)]
<1>7. f = [i \in 1..n |-> B(f, i)]
  <2> HIDE DEF h
  <2> QED  BY <1>6
<1>8. \A i \in 1..n : f[i] = B(f, i)
  <2> HIDE DEF f
  <2> QED  BY <1>7
<1>9. StripANSI(s) = f[1]  BY DEF n, B, StripAt, StripANSI
<1> HIDE DEF f
<1> QED  BY <1>8, <1>9 DEF n, B

(* The terminal, after i bytes, by what it was after one less. *)
ReadAt(f, s, i) ==
    IF i = 0 THEN [mode |-> "ground", text |-> <<>>]
    ELSE [mode |-> NextMode(f[i - 1].mode, s[i]),
          text |-> IF NextMode(f[i - 1].mode, s[i]) = "text" THEN Append(f[i - 1].text, s[i])
                   ELSE f[i - 1].text]

LEMMA ReadDef ==
    ASSUME NEW s, Len(s) \in Nat
    PROVE  \E f : (\A i \in 0..Len(s) : f[i] = ReadAt(f, s, i)) /\ Display(s) = f[Len(s)]
<1> DEFINE n == Len(s)
           B(g, i) == ReadAt(g, s, i)
<1>n. n \in Nat  OBVIOUS
<1>1. \A g, h, i : i \in 0..n /\ (\A j \in 0..(i - 1) : g[j] = h[j]) => B(g, i) = B(h, i)
  <2> SUFFICES ASSUME NEW g, NEW h, NEW i \in 0..n, \A j \in 0..(i - 1) : g[j] = h[j]
               PROVE  ReadAt(g, s, i) = ReadAt(h, s, i)
    OBVIOUS
  <2>1. CASE i = 0  BY <2>1 DEF ReadAt
  <2>2. CASE i # 0
    <3>1. g[i - 1] = h[i - 1]  BY <2>2
    <3> QED  BY <2>2, <3>1, Zenon DEF ReadAt
  <2> QED  BY <2>1, <2>2
<1> DEFINE D == {k \in Nat : \E g : \A i \in 0..n : i < k => g[i] = B(g, i)}
<1> HIDE DEF n, B
<1>2. 0 \in D  BY <1>n
<1>3. ASSUME NEW k \in Nat, k \in D PROVE k + 1 \in D
  <2>1. PICK g : \A i \in 0..n : i < k => g[i] = B(g, i)  BY <1>3
  <2> DEFINE h == [i \in 0..n |-> IF i = k THEN B(g, i) ELSE g[i]]
  <2>2. ASSUME NEW i \in 0..n, i < k + 1 PROVE h[i] = B(h, i)
    <3>1. \A j \in 0..(i - 1) : h[j] = g[j]  BY <2>2, <1>n
    <3>2. B(h, i) = B(g, i)
      <4> HIDE DEF h
      <4> QED  BY <1>1, <3>1
    <3>3. h[i] = IF i = k THEN B(g, i) ELSE g[i]  OBVIOUS
    <3> HIDE DEF h
    <3> QED  BY <1>n, <2>1, <2>2, <3>2, <3>3
  <2> HIDE DEF h
  <2> QED  BY <2>2
<1>4. n + 1 \in D
  <2> HIDE DEF D
  <2> QED  BY <1>n, <1>2, <1>3, Induct
<1>5. PICK g : \A i \in 0..n : g[i] = B(g, i)
  <2>1. \A i \in 0..n : i < n + 1  BY <1>n
  <2> QED  BY <1>4, <2>1
<1> DEFINE h == [i \in 0..n |-> g[i]]
<1>6. h = [i \in 0..n |-> B(h, i)]
  <2>1. ASSUME NEW i \in 0..n PROVE h[i] = B(h, i)
    <3>1. \A j \in 0..(i - 1) : h[j] = g[j]  BY <1>n
    <3>2. h[i] = g[i]  OBVIOUS
    <3> HIDE DEF h
    <3> QED  BY <1>1, <1>5, <3>1, <3>2
  <2>2. h = [i \in 0..n |-> h[i]]  OBVIOUS
  <2> HIDE DEF h
  <2> QED  BY <2>1, <2>2
<1> DEFINE f == CHOOSE g_1 : g_1 = [i \in 0..n |-> B(g_1, i)]
<1>7. f = [i \in 0..n |-> B(f, i)]
  <2> HIDE DEF h
  <2> QED  BY <1>6
<1>8. \A i \in 0..n : f[i] = B(f, i)
  <2> HIDE DEF f
  <2> QED  BY <1>7
<1>9. Display(s) = f[Len(s)]  BY DEF n, B, ReadAt, Display
<1> HIDE DEF f
<1> QED  BY <1>8, <1>9 DEF n, B

(* The carriage returns, likewise. *)
KeepAt(f, s, i) == IF i = 0 THEN <<>>
                   ELSE IF s[i] = CR THEN f[i - 1] ELSE Append(f[i - 1], s[i])

LEMMA KeepDef ==
    ASSUME NEW s, Len(s) \in Nat
    PROVE  \E f : (\A i \in 0..Len(s) : f[i] = KeepAt(f, s, i)) /\ DropCR(s) = f[Len(s)]
<1> DEFINE n == Len(s)
           B(g, i) == KeepAt(g, s, i)
<1>n. n \in Nat  OBVIOUS
<1>1. \A g, h, i : i \in 0..n /\ (\A j \in 0..(i - 1) : g[j] = h[j]) => B(g, i) = B(h, i)
  <2> SUFFICES ASSUME NEW g, NEW h, NEW i \in 0..n, \A j \in 0..(i - 1) : g[j] = h[j]
               PROVE  KeepAt(g, s, i) = KeepAt(h, s, i)
    OBVIOUS
  <2>1. CASE i = 0  BY <2>1 DEF KeepAt
  <2>2. CASE i # 0
    <3>1. g[i - 1] = h[i - 1]  BY <2>2
    <3> QED  BY <2>2, <3>1, Zenon DEF KeepAt
  <2> QED  BY <2>1, <2>2
<1> DEFINE D == {k \in Nat : \E g : \A i \in 0..n : i < k => g[i] = B(g, i)}
<1> HIDE DEF n, B
<1>2. 0 \in D  BY <1>n
<1>3. ASSUME NEW k \in Nat, k \in D PROVE k + 1 \in D
  <2>1. PICK g : \A i \in 0..n : i < k => g[i] = B(g, i)  BY <1>3
  <2> DEFINE h == [i \in 0..n |-> IF i = k THEN B(g, i) ELSE g[i]]
  <2>2. ASSUME NEW i \in 0..n, i < k + 1 PROVE h[i] = B(h, i)
    <3>1. \A j \in 0..(i - 1) : h[j] = g[j]  BY <2>2, <1>n
    <3>2. B(h, i) = B(g, i)
      <4> HIDE DEF h
      <4> QED  BY <1>1, <3>1
    <3>3. h[i] = IF i = k THEN B(g, i) ELSE g[i]  OBVIOUS
    <3> HIDE DEF h
    <3> QED  BY <1>n, <2>1, <2>2, <3>2, <3>3
  <2> HIDE DEF h
  <2> QED  BY <2>2
<1>4. n + 1 \in D
  <2> HIDE DEF D
  <2> QED  BY <1>n, <1>2, <1>3, Induct
<1>5. PICK g : \A i \in 0..n : g[i] = B(g, i)
  <2>1. \A i \in 0..n : i < n + 1  BY <1>n
  <2> QED  BY <1>4, <2>1
<1> DEFINE h == [i \in 0..n |-> g[i]]
<1>6. h = [i \in 0..n |-> B(h, i)]
  <2>1. ASSUME NEW i \in 0..n PROVE h[i] = B(h, i)
    <3>1. \A j \in 0..(i - 1) : h[j] = g[j]  BY <1>n
    <3>2. h[i] = g[i]  OBVIOUS
    <3> HIDE DEF h
    <3> QED  BY <1>1, <1>5, <3>1, <3>2
  <2>2. h = [i \in 0..n |-> h[i]]  OBVIOUS
  <2> HIDE DEF h
  <2> QED  BY <2>1, <2>2
<1> DEFINE f == CHOOSE g_1 : g_1 = [i \in 0..n |-> B(g_1, i)]
<1>7. f = [i \in 0..n |-> B(f, i)]
  <2> HIDE DEF h
  <2> QED  BY <1>6
<1>8. \A i \in 0..n : f[i] = B(f, i)
  <2> HIDE DEF f
  <2> QED  BY <1>7
<1>9. DropCR(s) = f[Len(s)]  BY DEF n, B, KeepAt, DropCR
<1> HIDE DEF f
<1> QED  BY <1>8, <1>9 DEF n, B

-----------------------------------------------------------------------------
(* The terminal's modes along a text. *)
Byte == 0..255

Mode == {"text", "ground", "escape", "charset", "parameter", "intermediate",
         "title", "title-esc", "string", "string-esc"}

Reads(r, s) == \A i \in 0..Len(s) : r[i] = ReadAt(r, s, i)

LEMMA ReadStep ==
    ASSUME NEW s, Len(s) \in Nat, NEW r, Reads(r, s), NEW i \in 1..Len(s)
    PROVE  /\ r[i].mode = NextMode(r[i - 1].mode, s[i])
           /\ r[i].text = IF r[i].mode = "text" THEN Append(r[i - 1].text, s[i]) ELSE r[i - 1].text
<1>1. i \in 0..Len(s) /\ i # 0  OBVIOUS
<1>2. r[i] = ReadAt(r, s, i)  BY <1>1, Zenon DEF Reads
<1>3. r[i] = [mode |-> NextMode(r[i - 1].mode, s[i]),
              text |-> IF NextMode(r[i - 1].mode, s[i]) = "text" THEN Append(r[i - 1].text, s[i])
                       ELSE r[i - 1].text]
  BY <1>1, <1>2, Zenon DEF ReadAt
<1> QED  BY <1>3

LEMMA NextModeType == \A mode \in Mode : \A b : NextMode(mode, b) \in Mode
<1> SUFFICES ASSUME NEW mode \in Mode, NEW b PROVE NextMode(mode, b) \in Mode
  OBVIOUS
<1>1. Ground(b) \in Mode  BY DEF Ground, Mode
<1>2. Charset(b) \in Mode /\ Control(b) \in Mode  BY <1>1 DEF Charset, Control, Mode
<1>3. CASE mode = "escape"
  <2>1. NextMode(mode, b) = CASE b = CSI -> "parameter"
                              [] b = OSC -> "title"
                              [] b \in Strings -> "string"
                              [] OTHER -> Charset(b)
    BY <1>3 DEF NextMode
  <2>2. CASE b = CSI  BY <2>1, <2>2 DEF Mode, CSI, OSC, Strings
  <2>3. CASE b = OSC  BY <2>1, <2>3 DEF Mode, CSI, OSC, Strings
  <2>4. CASE b # CSI /\ b # OSC /\ b \in Strings  BY <2>1, <2>4 DEF Mode
  <2>5. CASE b # CSI /\ b # OSC /\ b \notin Strings  BY <1>2, <2>1, <2>5
  <2> QED  BY <2>2, <2>3, <2>4, <2>5
<1>4. CASE mode # "escape"  BY <1>1, <1>2, <1>4 DEF NextMode, Mode
<1> QED  BY <1>3, <1>4

LEMMA ReadType ==
    ASSUME NEW s \in Seq(Byte), NEW r, Reads(r, s)
    PROVE  \A i \in 0..Len(s) : r[i].mode \in Mode /\ r[i].text \in Seq(Byte)
<1>n. PICK n \in Nat : n = Len(s)  BY LenProperties
<1> DEFINE OK(i) == r[i].mode \in Mode /\ r[i].text \in Seq(Byte)
           D == {k \in Nat : k <= n => OK(k)}
<1>1. 0 \in D
  <2>1. r[0] = ReadAt(r, s, 0)
    <3>1. 0 \in 0..Len(s)  BY <1>n
    <3> QED  BY <3>1, Zenon DEF Reads
  <2>2. r[0] = [mode |-> "ground", text |-> <<>>]  BY <2>1, Zenon DEF ReadAt
  <2>3. r[0].mode = "ground" /\ r[0].text = <<>>  BY <2>2
  <2>4. <<>> \in Seq(Byte)  BY EmptySeq
  <2> QED  BY <2>3, <2>4, Zenon DEF Mode
<1>2. ASSUME NEW k \in Nat, k \in D PROVE k + 1 \in D
  <2> SUFFICES ASSUME NEW i \in 1..n, i = k + 1 PROVE OK(i)  OBVIOUS
  <2>1. OK(i - 1)  BY <1>2
  <2>2. s[i] \in Byte  BY <1>n, ElementOfSeq
  <2>3. /\ r[i].mode = NextMode(r[i - 1].mode, s[i])
        /\ r[i].text = IF r[i].mode = "text" THEN Append(r[i - 1].text, s[i]) ELSE r[i - 1].text
    BY <1>n, ReadStep
  <2>4. r[i].mode \in Mode
    <3>1. r[i - 1].mode \in Mode  BY <2>1
    <3> QED  BY <2>3, <3>1, NextModeType
  <2>5. Append(r[i - 1].text, s[i]) \in Seq(Byte)
    <3>1. r[i - 1].text \in Seq(Byte)  BY <2>1
    <3> QED  BY <2>2, <3>1, AppendProperties
  <2> QED  BY <2>1, <2>3, <2>4, <2>5
<1>3. Nat \subseteq D
  <2> HIDE DEF D
  <2> QED  BY <1>1, <1>2, Induct
<1> QED  BY <1>n, <1>3

(* Bytes that do not lead out of a mode are not shown. *)
Keeps(s, a, b, m) == \A k \in a..(b - 1) : NextMode(m, s[k]) = m

LEMMA Stays ==
    ASSUME NEW s, Len(s) \in Nat, NEW r, Reads(r, s), NEW a \in 1..(Len(s) + 1), NEW b \in a..(Len(s) + 1),
           NEW m, m # "text", r[a - 1].mode = m, Keeps(s, a, b, m)
    PROVE  r[b - 1].mode = m /\ r[b - 1].text = r[a - 1].text
<1> DEFINE OK(i) == r[i].mode = m /\ r[i].text = r[a - 1].text
           D == {k \in Nat : a + k <= b => OK(a + k - 1)}
<1>1. 0 \in D  OBVIOUS
<1>2. ASSUME NEW k \in Nat, k \in D PROVE k + 1 \in D
  <2> SUFFICES ASSUME a + (k + 1) <= b PROVE OK(a + (k + 1) - 1)  OBVIOUS
  <2>0. PICK i \in a..(b - 1) : i = a + k  OBVIOUS
  <2>1. i \in 1..Len(s) /\ a + (k + 1) - 1 = i /\ a + k - 1 = i - 1  BY <2>0
  <2>2. OK(i - 1)  BY <1>2, <2>0, <2>1
  <2>3. NextMode(m, s[i]) = m  BY <2>0 DEF Keeps
  <2>4. /\ r[i].mode = NextMode(r[i - 1].mode, s[i])
        /\ r[i].text = IF r[i].mode = "text" THEN Append(r[i - 1].text, s[i]) ELSE r[i - 1].text
    BY <2>1, ReadStep
  <2>5. OK(i)
    <3>1. r[i - 1].mode = m /\ r[i - 1].text = r[a - 1].text  BY <2>2
    <3> QED  BY <2>3, <2>4, <3>1
  <2> QED  BY <2>1, <2>5
<1>3. b - a \in D
  <2>1. b - a \in Nat  OBVIOUS
  <2> HIDE DEF D
  <2> QED  BY <1>1, <1>2, <2>1, Induct
<1>4. a + (b - a) <= b /\ a + (b - a) - 1 = b - 1  OBVIOUS
<1> QED  BY <1>3, <1>4

(* One byte that is not shown. *)
LEMMA OneByte ==
    ASSUME NEW s, Len(s) \in Nat, NEW r, Reads(r, s), NEW i \in 1..Len(s),
           NEW m, m # "text", NextMode(r[i - 1].mode, s[i]) = m
    PROVE  r[i].mode = m /\ r[i].text = r[i - 1].text
BY ReadStep

(* Where the next byte is read as at the beginning of a text. *)
AtGround(r, s, j) == j <= Len(s) => NextMode(r[j - 1].mode, s[j]) = Ground(s[j])

LEMMA GroundIsGround ==
    ASSUME NEW s, NEW r, NEW j, r[j - 1].mode \in {"ground", "text"}
    PROVE  AtGround(r, s, j)
BY DEF AtGround, NextMode

(* What the loops of the scanner skip is not shown, and where they stop    *)
(* the terminal has left the sequence, or leaves it with the next byte.    *)
LEMMA FinalReads ==
    ASSUME NEW s, Len(s) \in Nat, NEW r, Reads(r, s), NEW l \in 1..(Len(s) + 1), NEW C,
           l <= Len(s) /\ s[l] \in C => NextMode(r[l - 1].mode, s[l]) = "ground",
           l <= Len(s) /\ s[l] \notin C => NextMode(r[l - 1].mode, s[l]) = Ground(s[l])
    PROVE  /\ r[SkipOne(s, l, C) - 1].text = r[l - 1].text
           /\ AtGround(r, s, SkipOne(s, l, C))
<1>1. CASE l <= Len(s) /\ s[l] \in C
  <2>1. SkipOne(s, l, C) = l + 1 /\ (l + 1) - 1 = l  BY <1>1 DEF SkipOne
  <2>2. r[l].mode = "ground" /\ r[l].text = r[l - 1].text  BY <1>1, OneByte
  <2>3. AtGround(r, s, l + 1)  BY <2>1, <2>2, GroundIsGround
  <2> QED  BY <2>1, <2>2, <2>3
<1>2. CASE ~(l <= Len(s) /\ s[l] \in C)
  <2>1. SkipOne(s, l, C) = l  BY <1>2, Zenon DEF SkipOne
  <2>2. AtGround(r, s, l)  BY <1>2, Zenon DEF AtGround
  <2> QED  BY <2>1, <2>2, Zenon
<1> QED  BY <1>1, <1>2

LEMMA CSIReads ==
    ASSUME NEW s \in Seq(Byte), NEW r, Reads(r, s), NEW i \in 1..Len(s),
           r[i].mode = "escape", i < Len(s), s[i + 1] = CSI
    PROVE  r[AfterCSI(s, i + 2) - 1].text = r[i].text /\ AtGround(r, s, AfterCSI(s, i + 2))
<1>n. PICK n \in Nat : n = Len(s)  BY LenProperties
<1>0. /\ i + 1 \in 1..n /\ i + 2 \in 1..(n + 1) /\ (i + 1) - 1 = i /\ (i + 2) - 1 = i + 1
  BY <1>n
<1>t. \A k \in 1..n : s[k] \in Byte  BY <1>n, ElementOfSeq
<1>1. r[i + 1].mode = "parameter" /\ r[i + 1].text = r[i].text
  <2>1. NextMode("escape", CSI) = "parameter"  BY DEF NextMode, CSI, OSC, Strings
  <2> QED  BY <1>n, <1>0, <2>1, OneByte
<1>2. PICK k \in (i + 2)..(n + 1) : /\ k = Skip(s, i + 2, Parameter) /\ (k <= n => s[k] \notin Parameter)
                                    /\ \A h \in (i + 2)..(k - 1) : s[h] \in Parameter
  BY <1>n, <1>0, SkipStops
<1>3. r[k - 1].mode = "parameter" /\ r[k - 1].text = r[i].text
  <2>1. Keeps(s, i + 2, k, "parameter")
    BY <1>2 DEF NextMode, Keeps
  <2> QED  BY <1>n, <1>0, <1>1, <1>2, <2>1, Stays
<1>4. PICK l \in k..(n + 1) : /\ l = Skip(s, k, Intermediate) /\ (l <= n => s[l] \notin Intermediate)
                              /\ \A h \in k..(l - 1) : s[h] \in Intermediate
  BY <1>n, <1>0, SkipStops
<1>5. /\ r[l - 1].mode = IF l = k THEN "parameter" ELSE "intermediate"
      /\ r[l - 1].text = r[i].text
  <2>1. CASE l = k  BY <1>3, <2>1
  <2>2. CASE l # k
    <3>1. k \in 1..n /\ k + 1 \in 1..(n + 1) /\ l \in (k + 1)..(n + 1) /\ (k + 1) - 1 = k
      BY <1>0, <2>2
    <3>2. r[k].mode = "intermediate" /\ r[k].text = r[i].text
      <4>1. s[k] \in Intermediate /\ s[k] \notin Parameter  BY <1>2, <1>4, <3>1
      <4>2. NextMode("parameter", s[k]) = "intermediate"  BY <4>1 DEF NextMode, Control
      <4> QED  BY <1>n, <1>3, <3>1, <4>2, OneByte
    <3>3. Keeps(s, k + 1, l, "intermediate")
      BY <1>4 DEF NextMode, Control, Keeps
    <3>4. r[l - 1].mode = "intermediate" /\ r[l - 1].text = r[k].text
      <4>1. r[(k + 1) - 1].mode = "intermediate" /\ k + 1 \in 1..(Len(s) + 1) /\ l \in (k + 1)..(Len(s) + 1)
        BY <1>n, <3>1, <3>2
      <4>2. r[l - 1].mode = "intermediate" /\ r[l - 1].text = r[(k + 1) - 1].text
        BY <1>n, <3>3, <4>1, Stays
      <4> QED  BY <3>1, <4>2
    <3> QED  BY <2>2, <3>2, <3>4
  <2> QED  BY <2>1, <2>2
<1>6. l \in 1..(n + 1)  BY <1>0
<1>7. l <= n /\ s[l] \in Final => NextMode(r[l - 1].mode, s[l]) = "ground"
  <2> SUFFICES ASSUME l <= n, s[l] \in Final PROVE NextMode(r[l - 1].mode, s[l]) = "ground"  OBVIOUS
  <2>1. PICK b \in Final : b = s[l]  OBVIOUS
  <2>2. b \notin Parameter /\ b \notin Intermediate  BY DEF Final, Parameter, Intermediate
  <2> QED  BY <1>5, <2>1, <2>2 DEF NextMode, Control
<1>8. l <= n /\ s[l] \notin Final => NextMode(r[l - 1].mode, s[l]) = Ground(s[l])
  BY <1>2, <1>4, <1>5 DEF NextMode, Control
<1>9. AfterCSI(s, i + 2) = SkipOne(s, l, Final)  BY <1>2, <1>4 DEF AfterCSI
<1>10. r[SkipOne(s, l, Final) - 1].text = r[l - 1].text /\ AtGround(r, s, SkipOne(s, l, Final))
  BY <1>n, <1>6, <1>7, <1>8, FinalReads
<1> QED  BY <1>5, <1>9, <1>10

LEMMA CharsetReads ==
    ASSUME NEW s \in Seq(Byte), NEW r, Reads(r, s), NEW i \in 1..Len(s),
           r[i].mode = "escape", i < Len(s), s[i + 1] # CSI, s[i + 1] # OSC, s[i + 1] \notin Strings
    PROVE  LET j == SkipOne(s, Skip(s, i + 1, Intermediate), Parameter \cup Final)
           IN r[j - 1].text = r[i].text /\ AtGround(r, s, j)
<1> DEFINE C == Parameter \cup Final
<1>n. PICK n \in Nat : n = Len(s)  BY LenProperties
<1>0. i + 1 \in 1..n /\ i + 2 \in 1..(n + 1) /\ (i + 1) - 1 = i /\ (i + 2) - 1 = i + 1
  BY <1>n
<1>1. PICK k \in (i + 1)..(n + 1) : /\ k = Skip(s, i + 1, Intermediate) /\ (k <= n => s[k] \notin Intermediate)
                                    /\ \A h \in (i + 1)..(k - 1) : s[h] \in Intermediate
  BY <1>n, <1>0, SkipStops
<1>2. NextMode("escape", s[i + 1]) = Charset(s[i + 1])
  BY Zenon DEF NextMode
<1>3. \A b : NextMode("charset", b) = Charset(b)
  BY DEF NextMode
<1>4. /\ k = i + 1 => r[k - 1].mode = "escape"
      /\ k # i + 1 => r[k - 1].mode = "charset"
      /\ r[k - 1].text = r[i].text
  <2>1. CASE k = i + 1  BY <1>0, <2>1
  <2>2. CASE k # i + 1
    <3>1. s[i + 1] \in Intermediate  BY <1>1, <2>2
    <3>2. NextMode("escape", s[i + 1]) = "charset"  BY <1>2, <3>1, Zenon DEF Charset
    <3>3. r[i + 1].mode = "charset" /\ r[i + 1].text = r[i].text
      BY <1>n, <1>0, <3>2, OneByte
    <3>4. Keeps(s, i + 2, k, "charset")
      BY <1>1, <1>3 DEF Charset, Keeps
    <3>5. r[k - 1].mode = "charset" /\ r[k - 1].text = r[i + 1].text
      <4>1. /\ r[(i + 2) - 1].mode = "charset" /\ i + 2 \in 1..(Len(s) + 1)
            /\ k \in (i + 2)..(Len(s) + 1)
        BY <1>n, <1>0, <2>2, <3>3
      <4>2. r[k - 1].mode = "charset" /\ r[k - 1].text = r[(i + 2) - 1].text
        BY <1>n, <3>4, <4>1, Stays
      <4> QED  BY <1>0, <4>2
    <3> QED  BY <2>2, <3>3, <3>5
  <2> QED  BY <2>1, <2>2
<1>5. k <= n => NextMode(r[k - 1].mode, s[k]) = Charset(s[k])
  BY <1>2, <1>3, <1>4
<1>6. k <= n /\ s[k] \in C => NextMode(r[k - 1].mode, s[k]) = "ground"
  BY <1>1, <1>5, Zenon DEF Charset
<1>7. k <= n /\ s[k] \notin C => NextMode(r[k - 1].mode, s[k]) = Ground(s[k])
  BY <1>1, <1>5, Zenon DEF Charset
<1>8. r[SkipOne(s, k, C) - 1].text = r[k - 1].text /\ AtGround(r, s, SkipOne(s, k, C))
  <2>1. k \in 1..(Len(s) + 1)  BY <1>n, <1>0
  <2> HIDE DEF C
  <2> QED  BY <1>n, <1>6, <1>7, <2>1, FinalReads
<1> QED  BY <1>1, <1>4, <1>8

(* The modes inside a string that BEL ends too, or does not. *)
Inside(bel) == IF bel THEN "title" ELSE "string"
Escaped(bel) == IF bel THEN "title-esc" ELSE "string-esc"

LEMMA StringModes ==
    ASSUME NEW bel \in BOOLEAN, NEW b
    PROVE  /\ NextMode(Inside(bel), b) = IF bel /\ b = BEL THEN "ground" ELSE IF b = ESC THEN Escaped(bel) ELSE Inside(bel)
           /\ NextMode(Escaped(bel), b) = IF (bel /\ b = BEL) \/ b = ST THEN "ground"
                                          ELSE IF b = ESC THEN Escaped(bel) ELSE Inside(bel)
BY DEF Inside, Escaped, NextMode

LEMMA InsideString ==
    ASSUME NEW s \in Seq(Byte), NEW r, Reads(r, s), NEW bel \in BOOLEAN, NEW j \in 2..(Len(s) + 1),
           r[j - 1].mode = Inside(bel), NEW k \in j..(Len(s) + 1), \A h \in j..(k - 1) : ~EndsHere(s, h, bel)
    PROVE  /\ r[k - 1].text = r[j - 1].text
           /\ r[k - 1].mode = IF k - 1 >= j /\ s[k - 1] = ESC THEN Escaped(bel) ELSE Inside(bel)
<1>n. PICK n \in Nat : n = Len(s)  BY LenProperties
<1> DEFINE OK(i) == /\ r[i].text = r[j - 1].text
                    /\ r[i].mode = IF i >= j /\ s[i] = ESC THEN Escaped(bel) ELSE Inside(bel)
           D == {d \in Nat : j + d <= k => OK(j + d - 1)}
<1>1. 0 \in D  OBVIOUS
<1>2. ASSUME NEW d \in Nat, d \in D PROVE d + 1 \in D
  <2> SUFFICES ASSUME j + (d + 1) <= k PROVE OK(j + (d + 1) - 1)  OBVIOUS
  <2>0. PICK i \in j..(k - 1) : i = j + d  OBVIOUS
  <2>1. i \in 1..n /\ j + (d + 1) - 1 = i /\ j + d - 1 = i - 1  BY <1>n, <2>0
  <2>2. OK(i - 1)  BY <1>2, <2>0, <2>1
  <2>3. ~EndsHere(s, i, bel)  BY <2>0
  <2>4. /\ r[i].mode = NextMode(r[i - 1].mode, s[i])
        /\ r[i].text = IF r[i].mode = "text" THEN Append(r[i - 1].text, s[i]) ELSE r[i - 1].text
    <3>1. i \in 1..Len(s) /\ Len(s) \in Nat  BY <1>n, <2>1
    <3> QED  BY <3>1, ReadStep
  <2>5. ~(bel /\ s[i] = BEL)  BY <2>3 DEF EndsHere
  <2>6. r[i].mode = IF s[i] = ESC THEN Escaped(bel) ELSE Inside(bel)
    <3>1. CASE i - 1 >= j /\ s[i - 1] = ESC
      <4>1. s[i] # ST
        <5>1. i - 1 \in j..(k - 1) /\ i - 1 < n /\ (i - 1) + 1 = i  BY <2>1, <3>1
        <5>2. ~EndsHere(s, i - 1, bel)  BY <5>1
        <5> QED  BY <1>n, <3>1, <5>1, <5>2 DEF EndsHere
      <4>2. r[i - 1].mode = Escaped(bel)  BY <2>2, <3>1
      <4> QED  BY <2>4, <2>5, <4>1, <4>2, StringModes
    <3>2. CASE ~(i - 1 >= j /\ s[i - 1] = ESC)
      <4>1. r[i - 1].mode = Inside(bel)  BY <2>2, <3>2
      <4> QED  BY <2>4, <2>5, <4>1, StringModes
    <3> QED  BY <3>1, <3>2
  <2>7. Escaped(bel) # "text" /\ Inside(bel) # "text"  BY DEF Escaped, Inside
  <2>8. OK(i)
    <3>1. r[i - 1].text = r[j - 1].text  BY <2>2
    <3>2. i >= j  BY <2>0
    <3> QED  BY <2>4, <2>6, <2>7, <3>1, <3>2
  <2> QED  BY <2>1, <2>8
<1>3. k - j \in D
  <2>1. k - j \in Nat  BY <1>n
  <2> HIDE DEF D
  <2> QED  BY <1>1, <1>2, <2>1, Induct
<1>4. j + (k - j) <= k /\ j + (k - j) - 1 = k - 1  BY <1>n
<1> QED  BY <1>3, <1>4

LEMMA StringReads ==
    ASSUME NEW s \in Seq(Byte), NEW r, Reads(r, s), NEW bel \in BOOLEAN, NEW j \in 2..(Len(s) + 1),
           r[j - 1].mode = Inside(bel)
    PROVE  r[StringEnd(s, j, bel) - 1].text = r[j - 1].text /\ AtGround(r, s, StringEnd(s, j, bel))
<1>n. PICK n \in Nat : n = Len(s)  BY LenProperties
<1>j. j \in 1..(Len(s) + 1)  BY <1>n
<1>1. CASE /\ StringEnd(s, j, bel) = n + 1
           /\ \A k \in j..n : ~EndsHere(s, k, bel)
  <2>1. n + 1 \in j..(n + 1) /\ (n + 1) - 1 = n  BY <1>n
  <2>2. r[n].text = r[j - 1].text
    BY <1>n, <1>1, <2>1, InsideString
  <2>3. AtGround(r, s, n + 1)  BY <1>n DEF AtGround
  <2> QED  BY <1>1, <2>1, <2>2, <2>3
<1>2. ASSUME NEW k \in j..n, EndsHere(s, k, bel), \A i \in j..(k - 1) : ~EndsHere(s, i, bel),
             StringEnd(s, j, bel) = k + (IF s[k] = ESC THEN 2 ELSE 1)
      PROVE  r[StringEnd(s, j, bel) - 1].text = r[j - 1].text /\ AtGround(r, s, StringEnd(s, j, bel))
  <2>0. k \in 1..n /\ k \in j..(n + 1) /\ (k + 1) - 1 = k /\ (k + 2) - 1 = k + 1  BY <1>n
  <2>1. /\ r[k - 1].text = r[j - 1].text
        /\ r[k - 1].mode \in {Escaped(bel), Inside(bel)}
    BY <1>n, <1>2, <2>0, InsideString
  <2>2. CASE s[k] = ESC
    <3>1. StringEnd(s, j, bel) = k + 2  BY <1>2, <2>2
    <3>2. k + 1 \in 1..n /\ s[k + 1] = ST  BY <1>n, <1>2, <2>0, <2>2 DEF EndsHere, ESC, BEL
    <3>3. NextMode(r[k - 1].mode, s[k]) = Escaped(bel)
      <4>1. s[k] # BEL /\ s[k] # ST  BY <2>2 DEF ESC, BEL, ST
      <4> QED  BY <2>1, <2>2, <4>1, StringModes
    <3>4. Escaped(bel) # "text"  BY DEF Escaped
    <3>5. r[k].mode = Escaped(bel) /\ r[k].text = r[j - 1].text
      BY <1>n, <2>0, <2>1, <3>3, <3>4, OneByte
    <3>6. NextMode(r[k].mode, s[k + 1]) = "ground"
      BY <3>2, <3>5, StringModes
    <3>7. r[k + 1].mode = "ground" /\ r[k + 1].text = r[k].text
      BY <1>n, <2>0, <3>2, <3>6, OneByte
    <3>8. AtGround(r, s, k + 2)  BY <2>0, <3>7, GroundIsGround
    <3> QED  BY <2>0, <3>1, <3>5, <3>7, <3>8
  <2>3. CASE s[k] # ESC
    <3>1. StringEnd(s, j, bel) = k + 1  BY <1>2, <2>3
    <3>2. bel /\ s[k] = BEL  BY <1>2, <2>3 DEF EndsHere
    <3>3. NextMode(r[k - 1].mode, s[k]) = "ground"
      BY <2>1, <3>2, StringModes
    <3>4. r[k].mode = "ground" /\ r[k].text = r[k - 1].text
      BY <1>n, <2>0, <3>3, OneByte
    <3>5. AtGround(r, s, k + 1)  BY <2>0, <3>4, GroundIsGround
    <3> QED  BY <2>0, <2>1, <3>1, <3>4, <3>5
  <2> QED  BY <2>2, <2>3
<1> QED  BY <1>n, <1>j, <1>1, <1>2, StringEnds

LEMMA EscapeReads ==
    ASSUME NEW s \in Seq(Byte), NEW r, Reads(r, s), NEW i \in 1..Len(s), r[i].mode = "escape"
    PROVE  r[AfterEscape(s, i) - 1].text = r[i].text /\ AtGround(r, s, AfterEscape(s, i))
<1>n. PICK n \in Nat : n = Len(s)  BY LenProperties
<1>1. CASE i = n
  <2>1. AfterEscape(s, i) = n + 1 /\ (n + 1) - 1 = n  BY <1>n, <1>1 DEF AfterEscape
  <2>2. AtGround(r, s, n + 1)  BY <1>n DEF AtGround
  <2> QED  BY <1>1, <2>1, <2>2
<1>2. CASE i < n
  <2>0. /\ i # Len(s) /\ i < Len(s) /\ i + 1 \in 1..n /\ i + 2 \in 2..(Len(s) + 1)
        /\ (i + 1) - 1 = i /\ (i + 2) - 1 = i + 1
    BY <1>n, <1>2
  <2>1. CASE s[i + 1] = CSI
    <3>1. AfterEscape(s, i) = AfterCSI(s, i + 2)  BY <2>0, <2>1, Zenon DEF AfterEscape
    <3> QED  BY <2>0, <2>1, <3>1, CSIReads
  <2>2. CASE s[i + 1] = OSC
    <3>1. s[i + 1] # CSI  BY <2>2 DEF CSI, OSC
    <3>2. AfterEscape(s, i) = StringEnd(s, i + 2, TRUE)  BY <2>0, <2>2, <3>1, Zenon DEF AfterEscape, AfterOSC
    <3>3. NextMode("escape", s[i + 1]) = "title"  BY <2>2 DEF NextMode, CSI, OSC, Strings
    <3>4. r[i + 1].mode = "title" /\ r[i + 1].text = r[i].text  BY <1>n, <2>0, <3>3, OneByte
    <3>5. r[(i + 2) - 1].mode = Inside(TRUE)  BY <2>0, <3>4 DEF Inside
    <3>6. r[StringEnd(s, i + 2, TRUE) - 1].text = r[(i + 2) - 1].text /\ AtGround(r, s, StringEnd(s, i + 2, TRUE))
      BY <2>0, <3>5, StringReads
    <3> QED  BY <2>0, <3>2, <3>4, <3>6, Zenon
  <2>3. CASE s[i + 1] \in Strings
    <3>1. s[i + 1] # CSI /\ s[i + 1] # OSC  BY <2>3 DEF CSI, OSC, Strings
    <3>2. AfterEscape(s, i) = StringEnd(s, i + 2, FALSE)  BY <2>0, <2>3, <3>1, Zenon DEF AfterEscape
    <3>3. NextMode("escape", s[i + 1]) = "string"  BY <2>3, <3>1 DEF NextMode
    <3>4. r[i + 1].mode = "string" /\ r[i + 1].text = r[i].text
      <4>1. i + 1 \in 1..Len(s) /\ NextMode(r[(i + 1) - 1].mode, s[i + 1]) = "string"
        BY <1>n, <2>0, <3>3
      <4>2. r[i + 1].mode = "string" /\ r[i + 1].text = r[(i + 1) - 1].text  BY <1>n, <4>1, OneByte
      <4> QED  BY <2>0, <4>2
    <3>5. r[(i + 2) - 1].mode = Inside(FALSE)  BY <2>0, <3>4 DEF Inside
    <3>6. r[StringEnd(s, i + 2, FALSE) - 1].text = r[(i + 2) - 1].text /\ AtGround(r, s, StringEnd(s, i + 2, FALSE))
      BY <2>0, <3>5, StringReads
    <3> QED  BY <2>0, <3>2, <3>4, <3>6, Zenon
  <2>4. CASE s[i + 1] # CSI /\ s[i + 1] # OSC /\ s[i + 1] \notin Strings
    <3>1. AfterEscape(s, i) = SkipOne(s, Skip(s, i + 1, Intermediate), Parameter \cup Final)
      BY <2>0, <2>4, Zenon DEF AfterEscape
    <3> QED  BY <2>0, <2>4, <3>1, CharsetReads, ZenonT(60)
  <2> QED  BY <2>1, <2>2, <2>3, <2>4
<1> QED  BY <1>n, <1>1, <1>2

(* The scanner and the terminal agree, from every position at which the    *)
(* terminal reads as at the beginning of a text.                           *)
LEMMA ScannerReads ==
    ASSUME NEW s \in Seq(Byte)
    PROVE  StripANSI(s) = Display(s).text /\ StripANSI(s) \in Seq(Byte)
<1>n. PICK n \in Nat : n = Len(s)  BY LenProperties
<1>f. PICK f : (\A i \in 1..(n + 1) : f[i] = StripAt(f, s, i)) /\ StripANSI(s) = f[1]
  BY <1>n, StripDef
<1>r. PICK r : Reads(r, s) /\ Display(s) = r[n]
  BY <1>n, ReadDef DEF Reads
<1>t. \A i \in 0..n : r[i].mode \in Mode /\ r[i].text \in Seq(Byte)
  BY <1>n, <1>r, ReadType
<1> DEFINE OK(i) == f[i] \in Seq(Byte) /\ (AtGround(r, s, i) => r[n].text = r[i - 1].text \o f[i])
           D == {k \in Nat : \A i \in 1..(n + 1) : i + k > n => OK(i)}
<1> HIDE DEF OK
<1>0. 0 \in D
  <2> SUFFICES ASSUME NEW i \in 1..(n + 1), i > n PROVE OK(i)  OBVIOUS
  <2>1. i = n + 1 /\ i - 1 = n /\ i > Len(s)  BY <1>n
  <2>2. f[i] = StripAt(f, s, i)  BY <1>f
  <2>3. f[i] = <<>>  BY <2>1, <2>2, Zenon DEF StripAt
  <2>4. r[n].text \in Seq(Byte)  BY <1>t
  <2>5. r[n].text \o <<>> = r[n].text /\ <<>> \in Seq(Byte)  BY <2>4, ConcatEmptySeq, EmptySeq
  <2> QED  BY <2>1, <2>3, <2>5 DEF OK
<1>1. ASSUME NEW k \in Nat, k \in D PROVE k + 1 \in D
  <2> SUFFICES ASSUME NEW i \in 1..(n + 1), i + (k + 1) > n PROVE OK(i)  OBVIOUS
  <2>1. \A j \in (i + 1)..(n + 1) : OK(j)  BY <1>1
  <2>2. f[i] = StripAt(f, s, i)  BY <1>f
  <2>3. CASE i = n + 1  BY <1>0, <2>3
  <2>4. CASE i \in 1..n /\ s[i] = ESC
    <3>0. i \in 1..Len(s) /\ ~(i > Len(s))  BY <1>n, <2>4
    <3>1. PICK j \in (i + 1)..(n + 1) : j = AfterEscape(s, i)  BY <1>n, <3>0, AfterEscapeRange
    <3>2. f[i] = f[j]  BY <2>2, <2>4, <3>0, <3>1, Zenon DEF StripAt
    <3>3. OK(j)  BY <2>1
    <3>4. f[j] \in Seq(Byte)  BY <3>3 DEF OK
    <3>5. ASSUME AtGround(r, s, i) PROVE r[n].text = r[i - 1].text \o f[i]
      <4>1. NextMode(r[i - 1].mode, s[i]) = "escape"
        BY <2>4, <3>0, <3>5 DEF AtGround, Ground
      <4>2. r[i].mode = "escape" /\ r[i].text = r[i - 1].text
        <5>1. /\ r[i].mode = NextMode(r[i - 1].mode, s[i])
              /\ r[i].text = IF r[i].mode = "text" THEN Append(r[i - 1].text, s[i]) ELSE r[i - 1].text
          BY <1>n, <1>r, <3>0, ReadStep
        <5> QED  BY <4>1, <5>1
      <4>3. r[j - 1].text = r[i].text /\ AtGround(r, s, j)
        BY <1>r, <3>0, <3>1, <4>2, EscapeReads
      <4>4. r[n].text = r[j - 1].text \o f[j]  BY <3>3, <4>3 DEF OK
      <4> QED  BY <3>2, <4>2, <4>3, <4>4
    <3> QED  BY <3>2, <3>4, <3>5 DEF OK
  <2>5. CASE i \in 1..n /\ s[i] # ESC
    <3>0. i \in 1..Len(s) /\ ~(i > Len(s)) /\ s[i] \in Byte /\ (i + 1) - 1 = i
      BY <1>n, <2>5, ElementOfSeq
    <3>1. f[i] = <<s[i]>> \o f[i + 1]  BY <2>2, <2>5, <3>0, Zenon DEF StripAt
    <3>2. OK(i + 1)  BY <2>1, <2>5
    <3>3. PICK rest \in Seq(Byte) : rest = f[i + 1]  BY <3>2 DEF OK
    <3>4. <<s[i]>> \in Seq(Byte)  BY <3>0
    <3>5. f[i] \in Seq(Byte)  BY <3>1, <3>3, <3>4, ConcatProperties
    <3>6. ASSUME AtGround(r, s, i) PROVE r[n].text = r[i - 1].text \o f[i]
      <4>1. NextMode(r[i - 1].mode, s[i]) = "text"
        BY <2>5, <3>0, <3>6 DEF AtGround, Ground
      <4>2. r[i].mode = "text" /\ r[i].text = Append(r[i - 1].text, s[i])
        BY <1>n, <1>r, <3>0, <4>1, ReadStep, ZenonT(60)
      <4>3. AtGround(r, s, i + 1)  BY <3>0, <4>2, GroundIsGround
      <4>4. r[n].text = r[i].text \o rest  BY <3>0, <3>2, <3>3, <4>3 DEF OK
      <4>5. PICK p \in Seq(Byte) : p = r[i - 1].text
        <5>1. i - 1 \in 0..n  BY <2>5
        <5> QED  BY <1>t, <5>1
      <4>6. Append(p, s[i]) = p \o <<s[i]>>  BY <3>0, AppendIsConcat
      <4>7. (p \o <<s[i]>>) \o rest = p \o (<<s[i]>> \o rest)  BY <3>4, ConcatAssociative
      <4> QED  BY <3>1, <3>3, <4>2, <4>4, <4>5, <4>6, <4>7
    <3> QED  BY <3>5, <3>6 DEF OK
  <2> QED  BY <2>3, <2>4, <2>5
<1>2. n \in D
  <2> HIDE DEF D
  <2> QED  BY <1>0, <1>1, Induct
<1>3. OK(1)  BY <1>2
<1>4. r[0].mode = "ground" /\ r[0].text = <<>>
  <2>1. r[0] = ReadAt(r, s, 0)
    <3>1. 0 \in 0..Len(s)  BY <1>n
    <3> QED  BY <1>r, <3>1, Zenon DEF Reads
  <2>2. r[0] = [mode |-> "ground", text |-> <<>>]  BY <2>1, Zenon DEF ReadAt
  <2> QED  BY <2>2
<1>5. AtGround(r, s, 1)  BY <1>4, GroundIsGround
<1>6. f[1] \in Seq(Byte) /\ r[n].text = <<>> \o f[1]
  <2>1. 1 - 1 = 0  OBVIOUS
  <2> QED  BY <1>3, <1>4, <1>5, <2>1, Zenon DEF OK
<1> QED  BY <1>f, <1>r, <1>6, ConcatEmptySeq

-----------------------------------------------------------------------------
(* What a pane has printed is a sequence of bytes. *)
OutType == /\ program \in [bytes : SUBSET Byte, length : Nat]
           /\ out \in Seq(Byte)

LEMMA OutTypeCorrect == MatchingSpec => []OutType
<1>1. MatchingInit => OutType
  BY MatchingAssumption, EmptySeq DEF MatchingInit, OutType, Byte
<1>2. ASSUME OutType, [MatchingNext]_matchingVars PROVE OutType'
  <2>1. CASE PrintByte
    <3>1. PICK b \in program.bytes : out' = Append(out, b)  BY <2>1 DEF PrintByte
    <3>2. b \in Byte  BY <1>2 DEF OutType
    <3> HIDE DEF Byte
    <3>3. out' \in Seq(Byte)  BY <1>2, <3>1, <3>2, AppendProperties DEF OutType
    <3> QED  BY <1>2, <2>1, <3>3 DEF PrintByte, OutType
  <2>2. CASE Evaluate  BY <1>2, <2>2 DEF Evaluate, OutType
  <2>3. CASE UNCHANGED matchingVars  BY <1>2, <2>3 DEF matchingVars, OutType
  <2> QED  BY <1>2, <2>1, <2>2, <2>3 DEF MatchingNext
<1> QED  BY <1>1, <1>2, PTL DEF MatchingSpec

(* normalize.go:60-141: the scanner strips what a terminal would not show, *)
(* whatever a pane has printed.                                            *)
THEOREM ScannerIsATerminal == MatchingSpec => []ScannerReadsLikeATerminal
<1>1. OutType => ScannerReadsLikeATerminal
  BY ScannerReads DEF OutType, ScannerReadsLikeATerminal
<1> QED  BY <1>1, OutTypeCorrect, PTL

-----------------------------------------------------------------------------
(* Reading from a cut outside of the sequences on. *)
Part(s, k, t) == k + Len(t) <= Len(s) /\ \A j \in 1..Len(t) : t[j] = s[k + j]

GoesOn(r, k, q, n) ==
    \A i \in 0..n : /\ i # 0 => r[k + i].mode = q[i].mode
                    /\ r[k + i].text = r[k].text \o q[i].text

LEMMA ReadsOn ==
    ASSUME NEW s \in Seq(Byte), NEW r, Reads(r, s), NEW t \in Seq(Byte), NEW q, Reads(q, t),
           NEW k \in Nat, Part(s, k, t), r[k].mode \in {"ground", "text"}
    PROVE  GoesOn(r, k, q, Len(t))
<1>k. k + Len(t) <= Len(s) /\ \A j \in 1..Len(t) : t[j] = s[k + j]  BY DEF Part
<1>n. PICK n \in Nat : n = Len(s)  BY LenProperties
<1>m. PICK m \in Nat : m = Len(t)  BY LenProperties
<1>r. \A i \in 0..n : r[i].text \in Seq(Byte)  BY <1>n, ReadType
<1>q. \A i \in 0..m : q[i].text \in Seq(Byte)  BY <1>m, ReadType
<1>0. q[0].mode = "ground" /\ q[0].text = <<>>
  <2>1. q[0] = ReadAt(q, t, 0)
    <3>1. 0 \in 0..Len(t)  BY <1>m
    <3> QED  BY <3>1, Zenon DEF Reads
  <2>2. q[0] = [mode |-> "ground", text |-> <<>>]  BY <2>1, Zenon DEF ReadAt
  <2> QED  BY <2>2
<1> DEFINE Same(i) == i # 0 => r[k + i].mode = q[i].mode
           Joins(i) == r[k + i].text = r[k].text \o q[i].text
           D == {i \in Nat : i <= m => Same(i) /\ Joins(i)}
<1> HIDE DEF Same, Joins
<1>1. 0 \in D
  <2>1. k + 0 = k /\ k \in 0..n  BY <1>n, <1>m, <1>k
  <2>2. r[k].text \o <<>> = r[k].text  BY <1>r, <2>1, ConcatEmptySeq
  <2>3. Same(0) /\ Joins(0)  BY <1>0, <2>1, <2>2 DEF Same, Joins
  <2> QED  BY <2>3
<1>2. ASSUME NEW h \in Nat, h \in D PROVE h + 1 \in D
  <2> SUFFICES ASSUME NEW i \in 1..m, i = h + 1 PROVE Same(i) /\ Joins(i)  OBVIOUS
  <2>1. Same(i - 1) /\ Joins(i - 1)  BY <1>2
  <2>p. PICK p \in 1..n : p = k + i  BY <1>n, <1>m, <1>k
  <2>2. t[i] = s[p] /\ t[i] \in Byte /\ k + (i - 1) = p - 1 /\ p \in 1..Len(s) /\ i \in 1..Len(t)
    BY <1>n, <1>m, <1>k, <2>p, ElementOfSeq
  <2>3. /\ r[p].mode = NextMode(r[p - 1].mode, s[p])
        /\ r[p].text = IF r[p].mode = "text" THEN Append(r[p - 1].text, s[p]) ELSE r[p - 1].text
    BY <1>n, <2>2, ReadStep
  <2>4. /\ q[i].mode = NextMode(q[i - 1].mode, t[i])
        /\ q[i].text = IF q[i].mode = "text" THEN Append(q[i - 1].text, t[i]) ELSE q[i - 1].text
    BY <1>m, <2>2, ReadStep
  <2>5. r[p].mode = q[i].mode
    <3>1. CASE i - 1 = 0
      <4>1. p - 1 = k  BY <2>p, <3>1
      <4>2. \A b : NextMode("ground", b) = Ground(b) /\ NextMode("text", b) = Ground(b)  BY DEF NextMode
      <4> QED  BY <1>0, <2>2, <2>3, <2>4, <3>1, <4>1, <4>2
    <3>2. CASE i - 1 # 0  BY <2>1, <2>2, <2>3, <2>4, <3>2 DEF Same
    <3> QED  BY <3>1, <3>2
  <2>6. r[p - 1].text = r[k].text \o q[i - 1].text  BY <2>1, <2>2 DEF Joins
  <2>7. r[p].text = r[k].text \o q[i].text
    <3>1. PICK x \in Seq(Byte) : x = r[k].text
      <4>1. k \in 0..n  BY <1>n, <1>m, <1>k
      <4> QED  BY <1>r, <4>1
    <3>2. PICK y \in Seq(Byte) : y = q[i - 1].text
      <4>1. i - 1 \in 0..m  OBVIOUS
      <4> QED  BY <1>q, <4>1
    <3>3. PICK z \in Seq(Byte) : z = <<s[p]>>
      <4>1. <<s[p]>> \in Seq(Byte)  BY <2>2
      <4> QED  BY <4>1
    <3>4. x \o y \in Seq(Byte)  BY ConcatProperties
    <3>5. Append(x \o y, s[p]) = (x \o y) \o z /\ Append(y, s[p]) = y \o z
      BY <2>2, <3>3, <3>4, AppendIsConcat
    <3>6. (x \o y) \o z = x \o (y \o z)  BY ConcatAssociative, SMTT(40)
    <3> QED  BY <2>2, <2>3, <2>4, <2>5, <2>6, <3>1, <3>2, <3>5, <3>6, Zenon
  <2> QED  BY <2>p, <2>5, <2>7 DEF Same, Joins
<1>3. Nat \subseteq D
  <2> HIDE DEF D
  <2> QED  BY <1>1, <1>2, Induct
<1>4. ASSUME NEW i \in 0..Len(t) PROVE Same(i) /\ Joins(i)
  BY <1>m, <1>3
<1> QED  BY <1>4, Zenon DEF Same, Joins, GoesOn

(* What a part of the output shows does not depend on what follows it. *)
LEMMA ReadsPrefix ==
    ASSUME NEW s \in Seq(Byte), NEW r, Reads(r, s), NEW t \in Seq(Byte), Len(t) <= Len(s),
           \A j \in 1..Len(t) : t[j] = s[j]
    PROVE  /\ Display(t).mode = r[Len(t)].mode
           /\ Display(t).text = r[Len(t)].text
<1>n. PICK n \in Nat : n = Len(s)  BY LenProperties
<1>m. PICK m \in Nat : m = Len(t)  BY LenProperties
<1>q. PICK q : Reads(q, t) /\ Display(t) = q[m]  BY <1>m, ReadDef DEF Reads
<1>0. r[0].mode = "ground" /\ r[0].text = <<>> /\ q[0].mode = "ground"
  <2>1. r[0] = ReadAt(r, s, 0) /\ q[0] = ReadAt(q, t, 0)
    <3>1. 0 \in 0..Len(t) /\ 0 \in 0..Len(s)  BY <1>n, <1>m
    <3> QED  BY <1>q, <3>1, Zenon DEF Reads
  <2>2. r[0] = [mode |-> "ground", text |-> <<>>] /\ q[0] = [mode |-> "ground", text |-> <<>>]
    BY <2>1, Zenon DEF ReadAt
  <2> QED  BY <2>2
<1>1. Part(s, 0, t)  BY <1>m, <1>n DEF Part
<1>3. /\ m # 0 => r[0 + m].mode = q[m].mode
      /\ r[0 + m].text = r[0].text \o q[m].text
  <2>1. m \in 0..Len(t)  BY <1>m
  <2>2. GoesOn(r, 0, q, Len(t))
    <3>1. 0 \in Nat /\ r[0].mode \in {"ground", "text"}  BY <1>0
    <3> QED  BY <1>q, <1>1, <3>1, ReadsOn
  <2> QED  BY <2>1, <2>2, Zenon DEF GoesOn
<1>4. q[m].text \in Seq(Byte)  BY <1>m, <1>q, ReadType
<1>5. <<>> \o q[m].text = q[m].text  BY <1>4, ConcatEmptySeq
<1>6. 0 + m = m  OBVIOUS
<1>7. r[m].mode = q[m].mode
  <2>1. CASE m = 0  BY <1>0, <2>1
  <2>2. CASE m # 0  BY <1>3, <1>6, <2>2
  <2> QED  BY <2>1, <2>2
<1> QED  BY <1>m, <1>q, <1>0, <1>3, <1>5, <1>6, <1>7

(* Where output is cut outside of its escape sequences (spec 9.3, pieces   *)
(* of a log), StripANSI of the pieces is StripANSI of the whole.  What     *)
(* Normalize goes on to trim at the end of a piece is ReadsCompose's.      *)
PiecesCompose ==
    \A k \in 0..Len(out) : Display(SubSeq(out, 1, k)).mode \in {"text", "ground"} =>
        StripANSI(SubSeq(out, 1, k)) \o StripANSI(SubSeq(out, k + 1, Len(out))) = StripANSI(out)

(* A read that is cut there neither shows half a sequence nor hides text:  *)
(* StripANSI (normalize.go:71) has no state that reaches over the cut.     *)
THEOREM CutsLoseNothing == MatchingSpec => []PiecesCompose
<1>1. ASSUME OutType PROVE PiecesCompose
  <2>0. out \in Seq(Byte)  BY <1>1 DEF OutType
  <2>n. PICK n \in Nat : n = Len(out)  BY <2>0, LenProperties
  <2>r. PICK r : Reads(r, out) /\ Display(out) = r[n]  BY <2>n, ReadDef DEF Reads
  <2> SUFFICES ASSUME NEW k \in 0..n, Display(SubSeq(out, 1, k)).mode \in {"text", "ground"}
               PROVE  StripANSI(SubSeq(out, 1, k)) \o StripANSI(SubSeq(out, k + 1, Len(out))) = StripANSI(out)
    BY <2>n DEF PiecesCompose
  <2>b. /\ \A i \in 1..k : out[i] \in Byte
        /\ \A i \in (k + 1)..Len(out) : out[i] \in Byte
    BY <2>0, <2>n, ElementOfSeq
  <2>p. PICK p \in Seq(Byte) : p = SubSeq(out, 1, k)
    <3>1. SubSeq(out, 1, k) \in Seq(Byte)  BY <2>b, SubSeqProperties
    <3> QED  BY <3>1
  <2>t. PICK t \in Seq(Byte) : t = SubSeq(out, k + 1, Len(out))
    <3>1. k + 1 \in Int /\ Len(out) \in Int  BY <2>n
    <3>2. SubSeq(out, k + 1, Len(out)) \in Seq(Byte)  BY <2>b, <3>1, SubSeqProperties
    <3> QED  BY <3>2
  <2>1. Len(p) = k /\ \A j \in 1..k : p[j] = out[j]
    BY <2>b, <2>p, SubSeqProperties
  <2>2. Len(t) = n - k /\ \A j \in 1..(n - k) : t[j] = out[k + j]
    BY <2>b, <2>n, <2>t, SubSeqProperties
  <2>q. PICK q : Reads(q, t) /\ Display(t) = q[n - k]
    <3>1. Len(t) \in Nat  BY LenProperties
    <3> QED  BY <2>2, <3>1, ReadDef DEF Reads
  <2>3. Display(p).mode = r[k].mode /\ Display(p).text = r[k].text
    <3>1. Len(p) <= Len(out) /\ \A j \in 1..Len(p) : p[j] = out[j]  BY <2>1, <2>n
    <3> QED  BY <2>0, <2>1, <2>r, <3>1, ReadsPrefix
  <2>4. r[k + (n - k)].text = r[k].text \o q[n - k].text
    <3>1. k \in Nat /\ Part(out, k, t)  BY <2>2, <2>n DEF Part
    <3>2. r[k].mode \in {"ground", "text"}  BY <2>3, <2>p
    <3>3. n - k \in 0..Len(t)  BY <2>2
    <3>4. GoesOn(r, k, q, Len(t))
      BY <2>0, <2>r, <2>q, <3>1, <3>2, ReadsOn
    <3> QED  BY <3>3, <3>4, Zenon DEF GoesOn
  <2>5. k + (n - k) = n  BY <2>n
  <2>6. /\ StripANSI(p) = Display(p).text /\ StripANSI(t) = Display(t).text
        /\ StripANSI(out) = Display(out).text
    BY <2>0, ScannerReads
  <2> QED  BY <2>p, <2>t, <2>r, <2>q, <2>3, <2>4, <2>5, <2>6, Zenon
<1> QED  BY <1>1, OutTypeCorrect, PTL

-----------------------------------------------------------------------------
(* bytes.Index: the first occurrence of the prefix. *)
LEMMA IndexIs ==
    ASSUME NEW buf, Len(buf) \in Nat, DOMAIN buf = 1..Len(buf), NEW i \in Nat \ {0}
    PROVE  \/ Index(buf, i) = 0 /\ \A j \in i..Len(buf) : ~PrefixAt(buf, j)
           \/ /\ Index(buf, i) \in i..Len(buf) /\ PrefixAt(buf, Index(buf, i))
              /\ \A j \in i..(Index(buf, i) - 1) : ~PrefixAt(buf, j)
<1> DEFINE I == {j \in i..Len(buf) : PrefixAt(buf, j)}
           J == {j \in i..Len(buf) : [h \in DOMAIN buf |-> PrefixAt(buf, h)][j]}
           least == CHOOSE x \in I : \A y \in I : x <= y
<1>1. J = I
  <2>1. \A j \in i..Len(buf) : j \in DOMAIN buf  OBVIOUS
  <2>2. \A j \in i..Len(buf) : [h \in DOMAIN buf |-> PrefixAt(buf, h)][j] = PrefixAt(buf, j)
    BY <2>1, Zenon
  <2> QED  BY <2>2, Zenon
<1>2. Index(buf, i) = IF I # {} THEN least ELSE 0
  <2>1. Index(buf, i) = IF J # {} THEN CHOOSE x \in J : \A y \in J : x <= y ELSE 0
    BY DEF Index, SelectInSubSeq, Min
  <2> HIDE DEF I, J
  <2> QED  BY <1>1, <2>1, Zenon
<1>3. CASE I = {}  BY <1>2, <1>3
<1>4. CASE I # {}
  <2>1. least \in I /\ \A y \in I : least <= y
    <3>1. I \subseteq Nat  OBVIOUS
    <3> HIDE DEF I
    <3>2. PICK x \in I : \A y \in I : x <= y  BY <1>4, <3>1, Least
    <3> QED  BY <3>2
  <2>2. PICK l \in I : l = least /\ \A y \in I : l <= y  BY <2>1
  <2>3. Index(buf, i) = l  BY <1>2, <1>4, <2>2
  <2>4. ASSUME NEW j \in i..(l - 1) PROVE ~PrefixAt(buf, j)
    <3>1. j \in i..Len(buf) /\ ~(l <= j)  OBVIOUS
    <3> QED  BY <2>2, <3>1
  <2> QED  BY <2>2, <2>3, <2>4
<1> QED  BY <1>3, <1>4

(* The matcher, from an offset on, by what it returns from later ones. *)
DigitsAt(buf, at) == SubSeq(buf, at + Len(Prefix), Skip(buf, at + Len(Prefix), Digit) - 1)

MatchAt(f, buf, i) ==
    IF Index(buf, i) = 0 THEN NoMatch
    ELSE IF Parses(DigitsAt(buf, Index(buf, i)))
         THEN [at |-> Index(buf, i), digits |-> DigitsAt(buf, Index(buf, i)),
               code |-> Value(DigitsAt(buf, Index(buf, i)))]
    ELSE f[Retry(Index(buf, i))]

LEMMA MatchDef ==
    ASSUME NEW buf, Len(buf) \in Nat, DOMAIN buf = 1..Len(buf)
    PROVE  \E f : (\A i \in 1..(Len(buf) + Len(Prefix) + 1) : f[i] = MatchAt(f, buf, i)) /\ MatchSentinel(buf) = f[1]
<1> DEFINE n == Len(buf) + Len(Prefix) + 1
           B(g, i) == MatchAt(g, buf, i)
<1>n. n \in Nat /\ n >= Len(buf) + 1 /\ n >= 1  BY PrefixLength
<1>1. \A g, h, i : i \in 1..n /\ (\A j \in (i + 1)..n : g[j] = h[j]) => B(g, i) = B(h, i)
  <2> SUFFICES ASSUME NEW g, NEW h, NEW i \in 1..n, \A j \in (i + 1)..n : g[j] = h[j]
               PROVE  MatchAt(g, buf, i) = MatchAt(h, buf, i)
    OBVIOUS
  <2>1. CASE Index(buf, i) = 0  BY <2>1, Zenon DEF MatchAt
  <2>2. CASE Index(buf, i) # 0
    <3> HIDE DEF n
    <3>1. Index(buf, i) \in i..Len(buf)  BY <1>n, <2>2, IndexIs
    <3>2. PICK l \in (i + 1)..n : l = Retry(Index(buf, i))  BY <1>n, <3>1 DEF Retry
    <3>3. g[Retry(Index(buf, i))] = h[Retry(Index(buf, i))]  BY <3>2, Zenon
    <3> QED  BY <2>2, <3>3, Zenon DEF MatchAt
  <2> QED  BY <2>1, <2>2
<1> DEFINE D == {k \in Nat : \E g : \A i \in 1..n : i + k > n => g[i] = B(g, i)}
<1> HIDE DEF n, B
<1>2. 0 \in D  BY <1>n
<1>3. ASSUME NEW k \in Nat, k \in D PROVE k + 1 \in D
  <2>1. PICK g : \A i \in 1..n : i + k > n => g[i] = B(g, i)  BY <1>3
  <2> DEFINE h == [i \in 1..n |-> IF i + k = n THEN B(g, i) ELSE g[i]]
  <2>2. ASSUME NEW i \in 1..n, i + (k + 1) > n PROVE h[i] = B(h, i)
    <3>1. \A j \in (i + 1)..n : h[j] = g[j]  BY <2>2, <1>n
    <3>2. B(h, i) = B(g, i)
      <4> HIDE DEF h
      <4> QED  BY <1>1, <3>1
    <3>3. h[i] = IF i + k = n THEN B(g, i) ELSE g[i]  OBVIOUS
    <3> HIDE DEF h
    <3> QED  BY <1>n, <2>1, <2>2, <3>2, <3>3
  <2> HIDE DEF h
  <2> QED  BY <2>2
<1>4. n \in D
  <2> HIDE DEF D
  <2> QED  BY <1>n, <1>2, <1>3, Induct
<1>5. PICK g : \A i \in 1..n : g[i] = B(g, i)
  <2>1. \A i \in 1..n : i + n > n  BY <1>n
  <2> QED  BY <1>4, <2>1
<1> DEFINE h == [i \in 1..n |-> g[i]]
<1>6. h = [i \in 1..n |-> B(h, i)]
  <2>1. ASSUME NEW i \in 1..n PROVE h[i] = B(h, i)
    <3>1. \A j \in (i + 1)..n : h[j] = g[j]  BY <1>n
    <3>2. h[i] = g[i]  OBVIOUS
    <3> HIDE DEF h
    <3> QED  BY <1>1, <1>5, <3>1, <3>2
  <2>2. h = [i \in 1..n |-> h[i]]  OBVIOUS
  <2> HIDE DEF h
  <2> QED  BY <2>1, <2>2
<1> DEFINE f == CHOOSE g_1 : g_1 = [i \in 1..n |-> B(g_1, i)]
<1>7. f = [i \in 1..n |-> B(f, i)]
  <2> HIDE DEF h
  <2> QED  BY <1>6
<1>8. \A i \in 1..n : f[i] = B(f, i)
  <2> HIDE DEF f
  <2> QED  BY <1>7
<1>9. MatchSentinel(buf) = f[1]  BY DEF n, B, MatchAt, DigitsAt, MatchSentinel
<1> HIDE DEF f
<1> QED  BY <1>8, <1>9 DEF n, B

(* What stands behind an occurrence of the prefix is a sentinel exactly if *)
(* its digits parse, and these are all of its digits.                      *)
LEMMA Candidate ==
    ASSUME NEW buf \in Seq(Byte), NEW at \in 1..Len(buf), PrefixAt(buf, at)
    PROVE  /\ \A n \in Nat : FittingAt(buf, at, n) =>
                 Parses(DigitsAt(buf, at)) /\ n = Len(DigitsAt(buf, at))
           /\ Parses(DigitsAt(buf, at)) =>
                 /\ FittingAt(buf, at, Len(DigitsAt(buf, at)))
                 /\ Len(DigitsAt(buf, at)) \in 1..Len(buf)
           /\ DigitsAt(buf, at) \in Seq(Byte)
           /\ at + Len(Prefix) + Len(DigitsAt(buf, at)) - 1 <= Len(buf)
           /\ \A k \in 1..Len(DigitsAt(buf, at)) : buf[at + Len(Prefix) + k - 1] = DigitsAt(buf, at)[k]
<1>n. PICK N \in Nat : N = Len(buf) /\ DOMAIN buf = 1..N  BY LenProperties
<1>p. PICK p \in Nat \ {0} : p = Len(Prefix)  BY PrefixLength
<1>1. PICK j \in 1..(N + 1) : j = at + p  BY <1>n, <1>p DEF PrefixAt
<1>2. PICK k \in j..(N + 1) : /\ k = Skip(buf, j, Digit) /\ (k <= N => buf[k] \notin Digit)
                              /\ \A i \in j..(k - 1) : buf[i] \in Digit
  BY <1>n, SkipStops
<1>3. PICK d \in Seq(Byte) : /\ d = DigitsAt(buf, at) /\ d = SubSeq(buf, j, k - 1) /\ Len(d) = k - j
                             /\ \A i \in 1..Len(d) : d[i] = buf[j + i - 1]
  <2>1. DigitsAt(buf, at) = SubSeq(buf, j, k - 1)  BY <1>p, <1>1, <1>2 DEF DigitsAt
  <2>2. \A i \in j..(k - 1) : buf[i] \in Byte  BY <1>n, ElementOfSeq
  <2>3. j \in Int /\ k - 1 \in Int  OBVIOUS
  <2>4. /\ SubSeq(buf, j, k - 1) \in Seq(Byte)
        /\ Len(SubSeq(buf, j, k - 1)) = IF j <= k - 1 THEN (k - 1) - j + 1 ELSE 0
        /\ \A i \in 1..((k - 1) - j + 1) : SubSeq(buf, j, k - 1)[i] = buf[j + i - 1]
    BY <2>2, <2>3, SubSeqProperties
  <2>5. Len(SubSeq(buf, j, k - 1)) = k - j  BY <2>4
  <2>6. (k - 1) - j + 1 = k - j  OBVIOUS
  <2> QED  BY <2>1, <2>4, <2>5, <2>6
<1>e. d # <<>> <=> k > j  BY <1>3, EmptySeq
<1>4. ASSUME NEW n \in Nat, FittingAt(buf, at, n) PROVE Parses(d) /\ n = Len(d)
  <2>1. /\ j + n - 1 <= N /\ n > 0
        /\ \A i \in 0..(n - 1) : buf[j + i] \in Digit
        /\ j + n \in 1..N => buf[j + n] \notin Digit
        /\ Value(SubSeq(buf, j, j + n - 1)) <= MaxInt
    BY <1>n, <1>p, <1>1, <1>4 DEF FittingAt, CodeAt, SentinelAt
  <2>2. j + n \in j..(N + 1)  BY <2>1
  <2>3. j + n <= N => buf[j + n] \notin Digit  BY <2>1
  <2>4. ASSUME NEW i \in j..((j + n) - 1) PROVE buf[i] \in Digit
    <3>1. i - j \in 0..(n - 1) /\ j + (i - j) = i  OBVIOUS
    <3> QED  BY <2>1, <3>1
  <2>5. k = j + n  BY <1>n, <1>2, <2>2, <2>3, <2>4, SkipIs
  <2> QED  BY <1>3, <1>e, <2>1, <2>5 DEF Parses
<1>5. ASSUME Parses(d) PROVE FittingAt(buf, at, Len(d)) /\ Len(d) \in 1..N
  <2>1. k > j /\ Value(d) <= MaxInt  BY <1>5, <1>e DEF Parses
  <2>2. /\ at + p + Len(d) - 1 <= N /\ Len(d) > 0 /\ at + p + Len(d) = k
        /\ Len(d) \in 1..N /\ at + p + Len(d) - 1 = k - 1
    BY <1>1, <1>3, <2>1
  <2>3. ASSUME NEW i \in 0..(Len(d) - 1) PROVE buf[at + p + i] \in Digit
    <3>1. at + p + i \in j..(k - 1)  BY <1>1, <1>3
    <3> QED  BY <1>2, <3>1
  <2>4. Value(SubSeq(buf, at + p, at + p + Len(d) - 1)) <= MaxInt
    BY <1>1, <1>3, <2>1, <2>2
  <2>5. at + p + Len(d) \in DOMAIN buf => buf[at + p + Len(d)] \notin Digit
    BY <1>n, <1>2, <2>2
  <2> QED  BY <1>n, <1>p, <2>2, <2>3, <2>4, <2>5 DEF FittingAt, CodeAt, SentinelAt
<1>6. at + p + Len(d) - 1 <= N /\ \A i \in 1..Len(d) : buf[at + p + i - 1] = d[i]
  BY <1>1, <1>3
<1> QED  BY <1>n, <1>p, <1>3, <1>4, <1>5, <1>6

(* The matcher returns the first sentinel, and nothing if there is none. *)
Starts(buf, i) == {j \in i..Len(buf) : \E n \in 1..Len(buf) : FittingAt(buf, j, n)}

Answers(buf, i, match) ==
    IF Starts(buf, i) = {} THEN match = NoMatch
    ELSE /\ match.at \in Starts(buf, i) /\ \A j \in Starts(buf, i) : match.at <= j
         /\ match.digits = DigitsAt(buf, match.at)
         /\ Parses(match.digits)

LEMMA MatchFinds ==
    ASSUME NEW buf \in Seq(Byte)
    PROVE  Answers(buf, 1, MatchSentinel(buf))
<1>n. PICK N \in Nat : N = Len(buf) /\ DOMAIN buf = 1..N  BY LenProperties
<1>p. PICK T \in Nat : T = N + Len(Prefix) + 1 /\ T > N  BY PrefixLength
<1>f. PICK f : (\A i \in 1..T : f[i] = MatchAt(f, buf, i)) /\ MatchSentinel(buf) = f[1]
  BY <1>n, <1>p, MatchDef
<1> DEFINE OK(i) == Answers(buf, i, f[i])
           D == {k \in Nat : \A i \in 1..T : i + k > T => OK(i)}
<1> HIDE DEF OK
<1>1. 0 \in D  OBVIOUS
<1>2. ASSUME NEW k \in Nat, k \in D PROVE k + 1 \in D
  <2> SUFFICES ASSUME NEW i \in 1..T, i + (k + 1) > T PROVE OK(i)  OBVIOUS
  <2>1. \A j \in (i + 1)..T : OK(j)  BY <1>2
  <2>2. f[i] = MatchAt(f, buf, i)  BY <1>f
  <2>p. \A j \in 1..N : ~PrefixAt(buf, j) => \A n : ~FittingAt(buf, j, n)  BY DEF FittingAt, CodeAt, SentinelAt
  <2>3. CASE Index(buf, i) = 0 /\ \A j \in i..N : ~PrefixAt(buf, j)
    <3>1. f[i] = NoMatch  BY <2>2, <2>3, Zenon DEF MatchAt
    <3>2. \A j \in i..N : \A n : ~FittingAt(buf, j, n)
      <4>1. \A j \in i..N : j \in 1..N  OBVIOUS
      <4> QED  BY <2>p, <2>3, <4>1, Zenon
    <3>3. Starts(buf, i) = {}  BY <1>n, <3>2, Zenon DEF Starts
    <3> QED  BY <3>1, <3>3, Zenon DEF OK, Answers
  <2>4. ASSUME NEW at \in i..N, at = Index(buf, i), PrefixAt(buf, at),
               \A j \in i..(at - 1) : ~PrefixAt(buf, j)
        PROVE  OK(i)
    <3>0. at # 0 /\ at \in 1..Len(buf) /\ at \in i..Len(buf)  BY <1>n
    <3>d. PICK d \in Seq(Byte) : d = DigitsAt(buf, at)  BY <2>4, <3>0, Candidate
    <3>1. \A j \in i..(at - 1) : \A n : ~FittingAt(buf, j, n)
      <4>1. \A j \in i..(at - 1) : j \in 1..N  OBVIOUS
      <4> QED  BY <2>p, <2>4, <4>1, Zenon
    <3>2. \A j \in Starts(buf, i) : at <= j
      <4> SUFFICES ASSUME NEW j \in i..N, NEW n \in 1..N, FittingAt(buf, j, n) PROVE at <= j
        BY <1>n DEF Starts
      <4>1. j \notin i..(at - 1)  BY <3>1
      <4> QED  BY <4>1
    <3>3. CASE Parses(d)
      <4>1. FittingAt(buf, at, Len(d)) /\ Len(d) \in 1..Len(buf)  BY <2>4, <3>0, <3>d, <3>3, Candidate
      <4>2. at \in Starts(buf, i)  BY <3>0, <4>1, Zenon DEF Starts
      <4>3. f[i] = [at |-> at, digits |-> d, code |-> Value(d)]
        BY <2>2, <2>4, <3>0, <3>d, <3>3, Zenon DEF MatchAt
      <4>4. f[i].at = at /\ f[i].digits = d  BY <4>3
      <4>5. Starts(buf, i) # {}  BY <4>2, Zenon
      <4> QED  BY <3>2, <3>3, <3>d, <4>2, <4>4, <4>5, Zenon DEF OK, Answers
    <3>4. CASE ~Parses(d)
      <4>1. \A n \in 1..N : ~FittingAt(buf, at, n)
        <5> SUFFICES ASSUME NEW n \in 1..N, FittingAt(buf, at, n) PROVE FALSE  OBVIOUS
        <5>1. n \in Nat  OBVIOUS
        <5> QED  BY <2>4, <3>0, <3>d, <3>4, <5>1, Candidate
      <4>2. Starts(buf, i) = Starts(buf, at + 1)
        <5>1. ASSUME NEW j \in Starts(buf, i) PROVE j \in Starts(buf, at + 1)
          <6>1. j \in i..N /\ at <= j /\ \E n \in 1..N : FittingAt(buf, j, n)
            BY <1>n, <3>2 DEF Starts
          <6>2. j # at  BY <4>1, <6>1
          <6>3. j \in (at + 1)..Len(buf)  BY <1>n, <6>1, <6>2
          <6> QED  BY <1>n, <6>1, <6>3, Zenon DEF Starts
        <5>2. ASSUME NEW j \in Starts(buf, at + 1) PROVE j \in Starts(buf, i)
          <6>1. j \in (at + 1)..Len(buf) /\ \E n \in 1..Len(buf) : FittingAt(buf, j, n)
            BY Zenon DEF Starts
          <6>2. j \in i..Len(buf)  BY <1>n, <6>1
          <6> QED  BY <6>1, <6>2, Zenon DEF Starts
        <5> QED  BY <5>1, <5>2
      <4>3. at + 1 \in (i + 1)..T  BY <1>p
      <4>4. OK(at + 1)  BY <2>1, <4>3
      <4>5. f[i] = f[at + 1]  BY <2>2, <2>4, <3>0, <3>d, <3>4, Zenon DEF MatchAt, Retry
      <4> QED  BY <4>2, <4>4, <4>5, Zenon DEF OK, Answers
    <3> QED  BY <3>3, <3>4
  <2> QED
    <3>1. i \in Nat \ {0}  OBVIOUS
    <3> QED  BY <1>n, <2>3, <2>4, <3>1, IndexIs
<1>3. T \in D
  <2> HIDE DEF D
  <2> QED  BY <1>1, <1>2, Induct
<1>4. OK(1)  BY <1>p, <1>3
<1> QED  BY <1>f, <1>4, Zenon DEF OK

(* The carriage returns are dropped byte by byte. *)
LEMMA KeepType ==
    ASSUME NEW s \in Seq(Byte), NEW f, \A i \in 0..Len(s) : f[i] = KeepAt(f, s, i)
    PROVE  \A i \in 0..Len(s) : f[i] \in Seq(Byte)
<1>n. PICK n \in Nat : n = Len(s)  BY LenProperties
<1> DEFINE D == {k \in Nat : k <= n => f[k] \in Seq(Byte)}
<1>1. 0 \in D
  <2>1. 0 \in 0..Len(s)  BY <1>n
  <2>2. f[0] = <<>>  BY <2>1, Zenon DEF KeepAt
  <2> QED  BY <2>2, EmptySeq
<1>2. ASSUME NEW k \in Nat, k \in D PROVE k + 1 \in D
  <2> SUFFICES ASSUME NEW i \in 1..n, i = k + 1 PROVE f[i] \in Seq(Byte)  OBVIOUS
  <2>1. PICK p \in Seq(Byte) : p = f[i - 1]  BY <1>2
  <2>2. s[i] \in Byte /\ i \in 0..Len(s) /\ i # 0  BY <1>n, ElementOfSeq
  <2>3. f[i] = IF s[i] = CR THEN p ELSE Append(p, s[i])  BY <2>1, <2>2, Zenon DEF KeepAt
  <2> QED  BY <2>2, <2>3, AppendProperties
<1>3. Nat \subseteq D
  <2> HIDE DEF D
  <2> QED  BY <1>1, <1>2, Induct
<1> QED  BY <1>n, <1>3

LEMMA DropType == ASSUME NEW s \in Seq(Byte) PROVE DropCR(s) \in Seq(Byte)
<1>n. PICK n \in Nat : n = Len(s)  BY LenProperties
<1>f. PICK f : (\A i \in 0..Len(s) : f[i] = KeepAt(f, s, i)) /\ DropCR(s) = f[n]  BY <1>n, KeepDef
<1> QED  BY <1>n, <1>f, KeepType

LEMMA InputType == OutType => MatchInput \in Seq(Byte)
BY ScannerReads, DropType DEF OutType, MatchInput, StripANSIAndCR

(* sentinel.go:25-28, 52-61: a wait is answered with the first sentinel of *)
(* the output whose exit code fits, by its position and all of its digits, *)
(* and with nothing else, also where candidates fail or overlap.           *)
THEOREM FirstIsFound == MatchingSpec => []FirstSentinelIsFound
<1>1. ASSUME OutType PROVE FirstSentinelIsFound
  <2>b. PICK buf \in Seq(Byte) : buf = MatchInput  BY <1>1, InputType
  <2>n. PICK N \in Nat : N = Len(buf) /\ DOMAIN buf = 1..N  BY LenProperties
  <2>m. PICK match : match = MatchSentinel(buf)  OBVIOUS
  <2>1. Answers(buf, 1, match)  BY <2>m, MatchFinds
  <2>2. Starts(buf, 1) = {i \in DOMAIN buf : \E n \in DOMAIN buf : FittingAt(buf, i, n)}
    BY <2>n, Zenon DEF Starts
  <2>3. CASE Starts(buf, 1) = {}
    <3>1. match = NoMatch  BY <2>1, <2>3, Zenon DEF Answers
    <3> QED  BY <2>b, <2>m, <2>2, <2>3, <3>1, Zenon DEF FirstSentinelIsFound
  <2>4. CASE Starts(buf, 1) # {}
    <3>1. /\ match.at \in Starts(buf, 1) /\ \A i \in Starts(buf, 1) : match.at <= i
          /\ match.digits = DigitsAt(buf, match.at)
      BY <2>1, <2>4, Zenon DEF Answers
    <3>2. PICK n \in 1..N : FittingAt(buf, match.at, n)  BY <2>n, <3>1, Zenon DEF Starts
    <3>3. match.at \in 1..Len(buf)  BY <3>1, Zenon DEF Starts
    <3>4. PrefixAt(buf, match.at) /\ n \in Nat  BY <3>2 DEF FittingAt, CodeAt, SentinelAt
    <3>5. FittingAt(buf, match.at, Len(match.digits))
      <4>1. n = Len(DigitsAt(buf, match.at))  BY <3>2, <3>3, <3>4, Candidate
      <4> QED  BY <3>1, <3>2, <4>1
    <3> QED  BY <2>b, <2>m, <2>2, <2>4, <3>1, <3>5, Zenon DEF FirstSentinelIsFound
  <2> QED  BY <2>3, <2>4
<1> QED  BY <1>1, OutTypeCorrect, PTL

-----------------------------------------------------------------------------
(* Another byte of output adds at most a byte to what is shown, *)
LEMMA ShowsMore ==
    ASSUME NEW s \in Seq(Byte), NEW b \in Byte
    PROVE  StripANSI(Append(s, b)) \in {StripANSI(s), Append(StripANSI(s), b)}
<1>n. PICK n \in Nat : n = Len(s)  BY LenProperties
<1>t. PICK t \in Seq(Byte) : t = Append(s, b)  BY AppendProperties
<1>1. Len(t) = n + 1 /\ (\A i \in 1..n : t[i] = s[i]) /\ t[n + 1] = b
  BY <1>n, <1>t, AppendProperties
<1>r. PICK r : Reads(r, t) /\ Display(t) = r[n + 1]  BY <1>1, ReadDef DEF Reads
<1>2. Display(s).text = r[n].text
  <2>1. Len(s) <= Len(t) /\ \A j \in 1..Len(s) : s[j] = t[j]  BY <1>n, <1>1
  <2> QED  BY <1>n, <1>r, <2>1, ReadsPrefix
<1>3. r[n + 1].text = IF r[n + 1].mode = "text" THEN Append(r[n].text, b) ELSE r[n].text
  <2>1. n + 1 \in 1..Len(t) /\ Len(t) \in Nat /\ (n + 1) - 1 = n  BY <1>1
  <2>2. r[n + 1].text = IF r[n + 1].mode = "text" THEN Append(r[(n + 1) - 1].text, t[n + 1])
                        ELSE r[(n + 1) - 1].text
    BY <1>r, <2>1, ReadStep
  <2> QED  BY <1>1, <2>1, <2>2
<1>4. StripANSI(t) = Display(t).text /\ StripANSI(s) = Display(s).text  BY ScannerReads
<1> QED  BY <1>t, <1>r, <1>2, <1>3, <1>4, Zenon

(* and likewise behind the carriage returns. *)
LEMMA KeepsMore ==
    ASSUME NEW s \in Seq(Byte), NEW b \in Byte
    PROVE  DropCR(Append(s, b)) \in {DropCR(s), Append(DropCR(s), b)}
<1>n. PICK n \in Nat : n = Len(s)  BY LenProperties
<1>t. PICK t \in Seq(Byte) : t = Append(s, b)  BY AppendProperties
<1>1. Len(t) = n + 1 /\ (\A i \in 1..n : t[i] = s[i]) /\ t[n + 1] = b
  BY <1>n, <1>t, AppendProperties
<1>f. PICK f : (\A i \in 0..n : f[i] = KeepAt(f, s, i)) /\ DropCR(s) = f[n]  BY <1>n, KeepDef
<1>g. PICK g : (\A i \in 0..(n + 1) : g[i] = KeepAt(g, t, i)) /\ DropCR(t) = g[n + 1]  BY <1>1, KeepDef
<1> DEFINE D == {k \in Nat : k <= n => g[k] = f[k]}
<1>2. 0 \in D
  <2>1. 0 \in 0..n /\ 0 \in 0..(n + 1)  OBVIOUS
  <2>2. g[0] = <<>> /\ f[0] = <<>>  BY <1>f, <1>g, <2>1, Zenon DEF KeepAt
  <2> QED  BY <2>2
<1>3. ASSUME NEW k \in Nat, k \in D PROVE k + 1 \in D
  <2> SUFFICES ASSUME NEW i \in 1..n, i = k + 1 PROVE g[i] = f[i]  OBVIOUS
  <2>1. g[i - 1] = f[i - 1]  BY <1>3
  <2>2. i \in 0..n /\ i \in 0..(n + 1) /\ i # 0 /\ t[i] = s[i]  BY <1>1
  <2> QED  BY <1>f, <1>g, <2>1, <2>2, Zenon DEF KeepAt
<1>4. Nat \subseteq D
  <2> HIDE DEF D
  <2> QED  BY <1>2, <1>3, Induct
<1>5. g[n] = f[n]  BY <1>4
<1>6. g[n + 1] = IF b = CR THEN g[n] ELSE Append(g[n], b)
  <2>1. n + 1 \in 0..(n + 1) /\ n + 1 # 0 /\ (n + 1) - 1 = n  OBVIOUS
  <2>2. g[n + 1] = IF t[n + 1] = CR THEN g[(n + 1) - 1] ELSE Append(g[(n + 1) - 1], t[n + 1])
    BY <1>g, <2>1, Zenon DEF KeepAt
  <2> QED  BY <1>1, <2>1, <2>2
<1> QED  BY <1>t, <1>f, <1>g, <1>5, <1>6, Zenon

(* What an answer says, byte by byte: the text has its literal there. *)
HasLiteral(buf, at, digits) ==
    /\ at \in 1..Len(buf)
    /\ PrefixAt(buf, at)
    /\ at + Len(Prefix) + Len(digits) - 1 <= Len(buf)
    /\ \A k \in 1..Len(digits) : buf[at + Len(Prefix) + k - 1] = digits[k]

LEMMA PrefixBytes ==
    ASSUME NEW buf \in Seq(Byte), NEW at \in 1..Len(buf)
    PROVE  PrefixAt(buf, at) <=> /\ at + Len(Prefix) - 1 <= Len(buf)
                                 /\ \A k \in 1..Len(Prefix) : buf[at + k - 1] = Prefix[k]
<1>n. PICK N \in Nat : N = Len(buf)  BY LenProperties
<1>p. PICK p \in Nat \ {0} : p = Len(Prefix)  BY PrefixLength
<1> SUFFICES ASSUME at + p - 1 <= N
             PROVE  SubSeq(buf, at, at + p - 1) = Prefix <=> \A k \in 1..p : buf[at + k - 1] = Prefix[k]
  BY <1>n, <1>p DEF PrefixAt
<1>1. PICK q \in Seq(Byte) : /\ q = SubSeq(buf, at, at + p - 1) /\ Len(q) = p
                             /\ \A k \in 1..p : q[k] = buf[at + k - 1]
  <2>1. \A i \in at..(at + p - 1) : buf[i] \in Byte  BY <1>n, ElementOfSeq
  <2>2. at \in Int /\ at + p - 1 \in Int  OBVIOUS
  <2>3. /\ SubSeq(buf, at, at + p - 1) \in Seq(Byte)
        /\ Len(SubSeq(buf, at, at + p - 1)) = IF at <= at + p - 1 THEN (at + p - 1) - at + 1 ELSE 0
        /\ \A i \in 1..((at + p - 1) - at + 1) : SubSeq(buf, at, at + p - 1)[i] = buf[at + i - 1]
    BY <2>1, <2>2, SubSeqProperties
  <2>4. at <= at + p - 1 /\ (at + p - 1) - at + 1 = p  OBVIOUS
  <2> QED  BY <2>3, <2>4
<1>2. Prefix \in Seq(Byte)  BY PrefixLength DEF Byte
<1>3. (\A k \in 1..p : q[k] = Prefix[k]) => q = Prefix  BY <1>p, <1>1, <1>2, SeqEqual
<1> QED  BY <1>1, <1>3

LEMMA LiteralStays ==
    ASSUME NEW buf \in Seq(Byte), NEW b \in Byte, NEW at, NEW digits \in Seq(Byte), HasLiteral(buf, at, digits)
    PROVE  HasLiteral(Append(buf, b), at, digits)
<1>n. PICK N \in Nat : N = Len(buf)  BY LenProperties
<1>p. PICK p \in Nat \ {0} : p = Len(Prefix)  BY PrefixLength
<1>d. PICK l \in Nat : l = Len(digits)  BY LenProperties
<1>t. PICK t \in Seq(Byte) : t = Append(buf, b)  BY AppendProperties
<1>1. Len(t) = N + 1 /\ \A i \in 1..N : t[i] = buf[i]  BY <1>n, <1>t, AppendProperties
<1>2. at \in 1..Len(buf) /\ at \in 1..N /\ at \in 1..Len(t)  BY <1>n, <1>1 DEF HasLiteral
<1>3. at + p - 1 <= N /\ \A k \in 1..p : buf[at + k - 1] = Prefix[k]
  BY <1>n, <1>p, <1>2, PrefixBytes DEF HasLiteral
<1>4. PrefixAt(t, at)
  <2>1. \A k \in 1..p : at + k - 1 \in 1..N  BY <1>2, <1>3
  <2>2. \A k \in 1..p : t[at + k - 1] = Prefix[k]  BY <1>1, <1>3, <2>1
  <2>3. at + p - 1 <= Len(t)  BY <1>1, <1>2, <1>3
  <2> QED  BY <1>p, <1>2, <2>2, <2>3, PrefixBytes
<1>5. /\ at + p + l - 1 <= N
      /\ \A k \in 1..l : buf[at + p + k - 1] = digits[k]
  BY <1>n, <1>p, <1>d DEF HasLiteral
<1>6. \A k \in 1..l : t[at + p + k - 1] = digits[k]
  <2>1. \A k \in 1..l : at + p + k - 1 \in 1..N  BY <1>2, <1>5
  <2> QED  BY <1>1, <1>5, <2>1
<1>7. at + p + l - 1 <= Len(t)  BY <1>1, <1>2, <1>5
<1> QED  BY <1>p, <1>d, <1>t, <1>2, <1>4, <1>6, <1>7 DEF HasLiteral

AnswerInv == /\ OutType
             /\ answer # NoMatch => /\ answer.digits \in Seq(Byte)
                                    /\ HasLiteral(MatchInput, answer.at, answer.digits)

(* wait.go:147-159: more output never takes back the literal that a wait   *)
(* was answered with.                                                      *)
THEOREM AnswersStay == MatchingSpec => []AnswerStaysInTheOutput
<1>1. MatchingInit => AnswerInv
  BY MatchingAssumption, EmptySeq DEF MatchingInit, OutType, Byte, AnswerInv
<1>2. ASSUME AnswerInv, OutType', [MatchingNext]_matchingVars PROVE AnswerInv'
  <2>0. out \in Seq(Byte) /\ program.bytes \in SUBSET Byte  BY <1>2 DEF AnswerInv, OutType
  <2>b. PICK buf \in Seq(Byte) : buf = MatchInput  BY <1>2, InputType DEF AnswerInv
  <2>1. CASE PrintByte
    <3>1. PICK b \in Byte : out' = Append(out, b)  BY <2>0, <2>1 DEF PrintByte
    <3>2. answer' = answer  BY <2>1 DEF PrintByte
    <3>3. MatchInput' \in {buf, Append(buf, b)}
      <4>1. MatchInput' = DropCR(StripANSI(Append(out, b)))
        BY <3>1, Zenon DEF MatchInput, StripANSIAndCR
      <4>s. PICK s \in Seq(Byte) : s = StripANSI(out)  BY <2>0, ScannerReads
      <4>2. StripANSI(Append(out, b)) \in {s, Append(s, b)}  BY <2>0, <4>s, ShowsMore
      <4>3. DropCR(Append(s, b)) \in {DropCR(s), Append(DropCR(s), b)}  BY KeepsMore
      <4>4. buf = DropCR(s)  BY <2>b, <4>s, Zenon DEF MatchInput, StripANSIAndCR
      <4> QED  BY <4>1, <4>2, <4>3, <4>4, Zenon
    <3>4. ASSUME answer # NoMatch
          PROVE  answer.digits \in Seq(Byte) /\ HasLiteral(MatchInput', answer.at, answer.digits)
      <4>1. answer.digits \in Seq(Byte) /\ HasLiteral(buf, answer.at, answer.digits)
        BY <1>2, <2>b, <3>4 DEF AnswerInv
      <4>2. HasLiteral(Append(buf, b), answer.at, answer.digits)  BY <4>1, LiteralStays
      <4> QED  BY <3>3, <4>1, <4>2, Zenon
    <3>5. (answer # NoMatch => answer.digits \in Seq(Byte) /\ HasLiteral(MatchInput, answer.at, answer.digits))'
      BY <3>2, <3>4, Zenon DEF HasLiteral, PrefixAt, NoMatch
    <3> QED  BY <1>2, <3>5, Zenon DEF AnswerInv
  <2>2. CASE Evaluate
    <3>1. MatchInput' = buf
      BY <2>2, <2>b, Zenon DEF Evaluate, MatchInput
    <3>m. PICK match : match = MatchSentinel(buf) /\ answer' = match /\ match # NoMatch
      BY <2>2, <2>b, Zenon DEF Evaluate, NoMatch
    <3>2. Answers(buf, 1, match)  BY <3>m, MatchFinds
    <3>3. match.at \in Starts(buf, 1) /\ match.digits = DigitsAt(buf, match.at)
      BY <3>m, <3>2, Zenon DEF Answers
    <3>4. match.at \in 1..Len(buf) /\ PrefixAt(buf, match.at)
      BY <3>3, Zenon DEF Starts, FittingAt, SentinelAt
    <3>5. match.digits \in Seq(Byte) /\ HasLiteral(buf, match.at, match.digits)
      BY <3>3, <3>4, Candidate DEF HasLiteral
    <3>6. (answer # NoMatch => answer.digits \in Seq(Byte) /\ HasLiteral(MatchInput, answer.at, answer.digits))'
      BY <3>1, <3>m, <3>5, Zenon DEF HasLiteral, PrefixAt, NoMatch
    <3> QED  BY <1>2, <3>6, Zenon DEF AnswerInv
  <2>3. CASE UNCHANGED matchingVars
    <3>1. MatchInput' = MatchInput /\ answer' = answer  BY <2>3 DEF matchingVars, MatchInput
    <3>2. (answer # NoMatch => answer.digits \in Seq(Byte) /\ HasLiteral(MatchInput, answer.at, answer.digits))'
      BY <1>2, <3>1, Zenon DEF AnswerInv, HasLiteral, PrefixAt, NoMatch
    <3> QED  BY <1>2, <3>2, Zenon DEF AnswerInv
  <2> QED  BY <1>2, <2>1, <2>2, <2>3 DEF MatchingNext
<1>3. ASSUME AnswerInv PROVE AnswerStaysInTheOutput
  <2> SUFFICES ASSUME answer # NoMatch
               PROVE  /\ PrefixAt(MatchInput, answer.at)
                      /\ IsPrefix(answer.digits, SubSeq(MatchInput, answer.at + Len(Prefix), Len(MatchInput)))
    BY DEF AnswerStaysInTheOutput
  <2>b. PICK buf \in Seq(Byte) : buf = MatchInput  BY <1>3, InputType DEF AnswerInv
  <2>d. PICK d \in Seq(Byte) : d = answer.digits  BY <1>3 DEF AnswerInv
  <2>a. PICK at \in 1..Len(buf) : at = answer.at /\ HasLiteral(buf, at, d)
    BY <1>3, <2>b, <2>d DEF AnswerInv, HasLiteral
  <2>n. PICK N \in Nat : N = Len(buf)  BY LenProperties
  <2>p. PICK p \in Nat \ {0} : p = Len(Prefix)  BY PrefixLength
  <2>l. PICK l \in Nat : l = Len(d) /\ d = SubSeq(d, 1, l)  BY LenProperties, SubSeqFull
  <2>1. /\ PrefixAt(buf, at) /\ at + p + l - 1 <= N
        /\ \A k \in 1..l : buf[at + p + k - 1] = d[k]
    BY <2>a, <2>n, <2>p, <2>l DEF HasLiteral
  <2>j. PICK j \in 1..(N + 1) : j = at + p  BY <2>n, <2>1
  <2>t. PICK t \in Seq(Byte) : /\ t = SubSeq(buf, j, N) /\ Len(t) = N - j + 1
                               /\ \A k \in 1..(N - j + 1) : t[k] = buf[j + k - 1]
    <3>1. \A i \in j..N : buf[i] \in Byte  BY <2>n, ElementOfSeq
    <3>2. j \in Int /\ N \in Int  OBVIOUS
    <3>3. /\ SubSeq(buf, j, N) \in Seq(Byte)
          /\ Len(SubSeq(buf, j, N)) = IF j <= N THEN N - j + 1 ELSE 0
          /\ \A i \in 1..(N - j + 1) : SubSeq(buf, j, N)[i] = buf[j + i - 1]
      BY <3>1, <3>2, SubSeqProperties
    <3>4. Len(SubSeq(buf, j, N)) = N - j + 1  BY <3>3
    <3> QED  BY <3>3, <3>4
  <2>2. l <= Len(t)  BY <2>1, <2>j, <2>t
  <2>3. SubSeq(t, 1, l) = d
    <3>1. \A i \in 1..l : t[i] = d[i]  BY <2>1, <2>j, <2>t, <2>2
    <3>q. PICK q \in Seq(Byte) : q = SubSeq(t, 1, l) /\ Len(q) = l /\ \A k \in 1..l : q[k] = t[k]
      <4>1. \A i \in 1..l : t[i] \in Byte  BY <2>2, ElementOfSeq
      <4>2. /\ SubSeq(t, 1, l) \in Seq(Byte)
            /\ Len(SubSeq(t, 1, l)) = IF 1 <= l THEN l - 1 + 1 ELSE 0
            /\ \A i \in 1..(l - 1 + 1) : SubSeq(t, 1, l)[i] = t[1 + i - 1]
        BY <4>1, SubSeqProperties
      <4>3. Len(SubSeq(t, 1, l)) = l /\ l - 1 + 1 = l /\ \A i \in 1..l : 1 + i - 1 = i  BY <4>2
      <4> QED  BY <4>2, <4>3
    <3> QED  BY <2>l, <3>1, <3>q, SeqEqual
  <2>4. IsPrefix(d, t)  BY <2>l, <2>2, <2>3, Zenon DEF IsPrefix
  <2> QED  BY <2>b, <2>d, <2>a, <2>n, <2>p, <2>1, <2>j, <2>t, <2>4, Zenon
<1> QED  BY <1>1, <1>2, <1>3, OutTypeCorrect, PTL DEF MatchingSpec

-----------------------------------------------------------------------------
(* What is left of the bytes behind each stage of Normalize. *)
Shown == Byte \ {ESC}
Clean == Shown \ {CR}
Plain == Clean \ {NL}

(* A byte goes to the end of the last line, or begins another one. *)
PutByte(lines, b) == IF b = NL THEN Append(lines, <<>>)
                     ELSE [lines EXCEPT ![Len(lines)] = Append(@, b)]

CutLines == Seq(Seq(Plain)) \ {<<>>}

(* How a newline, and how a piece without any, changes the lines. *)
Breaks(more, lines) == /\ Len(more) = Len(lines) + 1
                       /\ more[Len(lines) + 1] = <<>>
                       /\ \A i \in 1..Len(lines) : more[i] = lines[i]

Goes(more, lines, l) == /\ more \in CutLines
                        /\ Len(more) = Len(lines)
                        /\ more[Len(lines)] = lines[Len(lines)] \o l
                        /\ \A i \in 1..(Len(lines) - 1) : more[i] = lines[i]

LEMMA PutByteType ==
    ASSUME NEW lines \in CutLines, NEW b \in Clean
    PROVE  /\ PutByte(lines, b) \in CutLines
           /\ b = NL => Len(PutByte(lines, b)) = Len(lines) + 1 /\ PutByte(lines, b)[Len(lines) + 1] = <<>>
           /\ b # NL => Len(PutByte(lines, b)) = Len(lines) /\ PutByte(lines, b)[Len(lines)] = Append(lines[Len(lines)], b)
           /\ \A i \in 1..(Len(lines) - 1) : PutByte(lines, b)[i] = lines[i]
           /\ b = NL => PutByte(lines, b)[Len(lines)] = lines[Len(lines)]
<1> DEFINE S == Seq(Plain)
<1>1. lines \in Seq(S) /\ lines # <<>>  BY DEF CutLines
<1>n. PICK n \in Nat \ {0} : n = Len(lines)  BY <1>1, LenProperties, EmptySeq
<1>2. n \in 1..Len(lines)  BY <1>n
<1>3. CASE b = NL
  <2>1. PutByte(lines, b) = Append(lines, <<>>)  BY <1>3, Zenon DEF PutByte
  <2>2. <<>> \in S  BY EmptySeq
  <2> HIDE DEF S
  <2>3. PICK more \in Seq(S) : more = Append(lines, <<>>)  BY <1>1, <2>2, AppendProperties
  <2>4. Len(more) = n + 1 /\ more[n + 1] = <<>> /\ \A i \in 1..n : more[i] = lines[i]
    BY <1>1, <1>n, <2>2, <2>3, AppendProperties
  <2>5. more # <<>>  BY <2>4, EmptySeq
  <2> QED  BY <1>n, <1>3, <2>1, <2>3, <2>4, <2>5 DEF CutLines, S
<1>4. CASE b # NL
  <2>0. lines[n] \in S  BY <1>1, <1>2, ElementOfSeq
  <2>1. PutByte(lines, b) = [lines EXCEPT ![n] = Append(lines[n], b)]  BY <1>n, <1>4, Zenon DEF PutByte
  <2>2. b \in Plain  BY <1>4 DEF Plain
  <2>3. PICK e \in S : e = Append(lines[n], b)  BY <2>0, <2>2, AppendProperties
  <2> HIDE DEF S
  <2>4. PICK more \in Seq(S) : more = [lines EXCEPT ![n] = e] /\ Len(more) = n /\ \A i \in 1..n : more[i] = IF i = n THEN e ELSE lines[i]
    <3>1. /\ [lines EXCEPT ![n] = e] \in Seq(S)
          /\ Len([lines EXCEPT ![n] = e]) = Len(lines)
          /\ \A i \in 1..Len(lines) : [lines EXCEPT ![n] = e][i] = IF i = n THEN e ELSE lines[i]
      BY <1>1, <1>2, ExceptSeq
    <3> QED  BY <1>n, <3>1
  <2>5. more # <<>>  BY <2>4, EmptySeq
  <2>6. more[n] = e /\ \A i \in 1..(n - 1) : more[i] = lines[i]  BY <2>4
  <2> QED  BY <1>n, <1>4, <2>1, <2>3, <2>4, <2>5, <2>6 DEF CutLines, S
<1> QED  BY <1>3, <1>4

LEMMA PutNewline ==
    ASSUME NEW lines \in CutLines
    PROVE  Breaks(PutByte(lines, NL), lines)
<1>1. PutByte(lines, NL) = Append(lines, <<>>)  BY Zenon DEF PutByte
<1>2. <<>> \in Seq(Plain) /\ lines \in Seq(Seq(Plain))  BY EmptySeq DEF CutLines
<1> DEFINE S == Seq(Plain)
<1> HIDE DEF S
<1>3. lines \in Seq(S) /\ <<>> \in S  BY <1>2 DEF S
<1> QED  BY <1>1, <1>3, AppendProperties DEF Breaks

CutAt(f, s, i) == IF i = 0 THEN << <<>> >> ELSE PutByte(f[i - 1], s[i])

LEMMA CutDef ==
    ASSUME NEW s \in Seq(Clean)
    PROVE  \E f : /\ \A i \in 0..Len(s) : f[i] = CutAt(f, s, i) /\ f[i] \in CutLines
                  /\ Lines(s) = f[Len(s)]
<1>n. PICK n \in Nat : n = Len(s)  BY LenProperties
<1>b. << <<>> >> \in CutLines
  <2>1. <<>> \in Seq(Plain)  BY EmptySeq
  <2> HIDE DEF Plain
  <2> QED  BY <2>1, EmptySeq DEF CutLines
<1> DEFINE G == [x \in (1..n) \X CutLines |-> PutByte(x[2], s[x[1]])]
<1>1. G \in [(1..n) \X CutLines -> CutLines]
  <2>1. ASSUME NEW x \in (1..n) \X CutLines PROVE PutByte(x[2], s[x[1]]) \in CutLines
    <3>1. x[2] \in CutLines /\ s[x[1]] \in Clean  BY <1>n, ElementOfSeq
    <3> QED  BY <3>1, PutByteType
  <2> QED  BY <2>1
<1>2. PICK g \in [0..n -> CutLines] : g[0] = << <<>> >> /\ \A i \in 1..n : g[i] = G[<<i, g[i - 1]>>]
  <2>1. PICK b \in CutLines : b = << <<>> >>  BY <1>b
  <2>2. PICK H \in [(1..n) \X CutLines -> CutLines] : H = G  BY <1>1
  <2> HIDE DEF G
  <2>3. PICK g \in [0..n -> CutLines] : Recurs(g, n, b, H)  BY Recursion
  <2> QED  BY <2>1, <2>2, <2>3 DEF Recurs
<1>3. ASSUME NEW i \in 0..n PROVE g[i] = CutAt(g, s, i)
  <2>1. CASE i = 0  BY <1>2, <2>1 DEF CutAt
  <2>2. CASE i # 0
    <3>1. i \in 1..n /\ g[i - 1] \in CutLines  BY <2>2
    <3>2. g[i] = G[<<i, g[i - 1]>>]  BY <1>2, <3>1
    <3>3. G[<<i, g[i - 1]>>] = PutByte(g[i - 1], s[i])  BY <3>1
    <3> QED  BY <2>2, <3>2, <3>3, Zenon DEF CutAt
  <2> QED  BY <2>1, <2>2
<1> DEFINE f == CHOOSE h : h = [i \in 0..n |-> CutAt(h, s, i)]
<1>4. f = [i \in 0..n |-> CutAt(f, s, i)]
  <2>1. g = [i \in 0..n |-> g[i]]  OBVIOUS
  <2>2. g = [i \in 0..n |-> CutAt(g, s, i)]
    <3> HIDE DEF CutAt
    <3> QED  BY <1>3, <2>1
  <2> HIDE DEF CutAt
  <2> QED  BY <2>2
<1>5. Lines(s) = f[n]  BY <1>n DEF Lines, CutAt, PutByte
<1> HIDE DEF f
<1>6. \A i \in 0..n : f[i] = CutAt(f, s, i)
  <2> HIDE DEF CutAt
  <2> QED  BY <1>4
<1> DEFINE D == {k \in Nat : k <= n => f[k] \in CutLines}
<1>7. 0 \in D
  <2>1. 0 \in 0..n  OBVIOUS
  <2>2. f[0] = << <<>> >>  BY <1>6, <2>1, Zenon DEF CutAt
  <2> QED  BY <1>b, <2>2
<1>8. ASSUME NEW k \in Nat, k \in D PROVE k + 1 \in D
  <2> SUFFICES ASSUME NEW i \in 1..n, i = k + 1 PROVE f[i] \in CutLines  OBVIOUS
  <2>1. f[i - 1] \in CutLines /\ s[i] \in Clean  BY <1>n, <1>8, ElementOfSeq
  <2>2. f[i] = PutByte(f[i - 1], s[i])
    <3>1. i \in 0..n /\ i # 0  OBVIOUS
    <3> QED  BY <1>6, <3>1, Zenon DEF CutAt
  <2> QED  BY <2>1, <2>2, PutByteType
<1>9. Nat \subseteq D
  <2> HIDE DEF D
  <2> QED  BY <1>7, <1>8, Induct
<1>10. \A i \in 0..n : f[i] \in CutLines  BY <1>9
<1> QED  BY <1>n, <1>5, <1>6, <1>10

(* strings.Split, a byte at a time. *)
LEMMA LinesEmpty == Lines(<<>>) = << <<>> >>
<1>1. <<>> \in Seq(Clean) /\ Len(<<>>) = 0  BY EmptySeq
<1>2. PICK f : /\ \A i \in 0..0 : f[i] = CutAt(f, <<>>, i)
               /\ Lines(<<>>) = f[0]
  BY <1>1, CutDef
<1>3. 0 \in 0..0  OBVIOUS
<1> QED  BY <1>2, <1>3, Zenon DEF CutAt

LEMMA LinesType == \A s \in Seq(Clean) : Lines(s) \in CutLines
<1> SUFFICES ASSUME NEW s \in Seq(Clean) PROVE Lines(s) \in CutLines
  OBVIOUS
<1>n. PICK n \in Nat : n = Len(s)  BY LenProperties
<1>1. PICK f : /\ \A i \in 0..Len(s) : f[i] = CutAt(f, s, i) /\ f[i] \in CutLines
               /\ Lines(s) = f[Len(s)]
  BY CutDef
<1>2. n \in 0..Len(s)  BY <1>n
<1> QED  BY <1>n, <1>1, <1>2

LEMMA LinesAppend ==
    ASSUME NEW s \in Seq(Clean), NEW b \in Clean
    PROVE  Lines(Append(s, b)) = PutByte(Lines(s), b)
<1>n. PICK n \in Nat : n = Len(s)  BY LenProperties
<1>t. PICK t \in Seq(Clean) : t = Append(s, b)  BY AppendProperties
<1>1. Len(t) = n + 1 /\ (\A i \in 1..n : t[i] = s[i]) /\ t[n + 1] = b
  BY <1>n, <1>t, AppendProperties
<1>f. PICK f : (\A i \in 0..n : f[i] = CutAt(f, s, i)) /\ Lines(s) = f[n]  BY <1>n, CutDef
<1>g. PICK g : (\A i \in 0..(n + 1) : g[i] = CutAt(g, t, i)) /\ Lines(t) = g[n + 1]  BY <1>1, CutDef
<1> DEFINE D == {k \in Nat : k <= n => g[k] = f[k]}
<1>2. 0 \in D
  <2>1. 0 \in 0..n /\ 0 \in 0..(n + 1)  OBVIOUS
  <2>2. g[0] = << <<>> >> /\ f[0] = << <<>> >>  BY <1>f, <1>g, <2>1, Zenon DEF CutAt
  <2> QED  BY <2>2
<1>3. ASSUME NEW k \in Nat, k \in D PROVE k + 1 \in D
  <2> SUFFICES ASSUME NEW i \in 1..n, i = k + 1 PROVE g[i] = f[i]  OBVIOUS
  <2>1. g[i - 1] = f[i - 1]  BY <1>3
  <2>2. i \in 0..n /\ i \in 0..(n + 1) /\ i # 0 /\ t[i] = s[i]  BY <1>1
  <2> QED  BY <1>f, <1>g, <2>1, <2>2, Zenon DEF CutAt
<1>4. Nat \subseteq D
  <2> HIDE DEF D
  <2> QED  BY <1>2, <1>3, Induct
<1>5. g[n] = f[n]  BY <1>4
<1>6. g[n + 1] = PutByte(g[n], b)
  <2>1. n + 1 \in 0..(n + 1) /\ n + 1 # 0 /\ (n + 1) - 1 = n  OBVIOUS
  <2>2. g[n + 1] = PutByte(g[(n + 1) - 1], t[n + 1])  BY <1>g, <2>1, Zenon DEF CutAt
  <2> QED  BY <1>1, <2>1, <2>2
<1> QED  BY <1>t, <1>f, <1>g, <1>5, <1>6, Zenon

(* A piece without newlines goes to the end of the last line. *)
LEMMA LinesOn ==
    ASSUME NEW s \in Seq(Clean), NEW l \in Seq(Plain)
    PROVE  Goes(Lines(s \o l), Lines(s), l)
<1> DEFINE S == Seq(Plain)
<1>n. PICK n \in Nat : n = Len(l)  BY LenProperties
<1>s. PICK L \in CutLines : L = Lines(s)  BY LinesType
<1>m. PICK m \in Nat \ {0} : m = Len(L)
  <2> HIDE DEF Plain
  <2> QED  BY LenProperties, EmptySeq DEF CutLines
<1>e. L[m] \in S
  <2>1. m \in 1..Len(L) /\ L \in Seq(S)  BY <1>m DEF CutLines
  <2> HIDE DEF S
  <2> QED  BY <2>1, ElementOfSeq
<1>p. \A b \in Plain : b \in Clean /\ b # NL  BY DEF Plain
<1> DEFINE P(j) == SubSeq(l, 1, j)
           OK(X, j) == /\ X \in CutLines /\ Len(X) = m
                       /\ \A i \in 1..(m - 1) : X[i] = L[i]
                       /\ X[m] = L[m] \o P(j)
           On(j) == P(j) \in S /\ P(j) \in Seq(Clean) /\ OK(Lines(s \o P(j)), j)
           D == {j \in Nat : j <= n => On(j)}
<1> HIDE DEF On
<1>1. 0 \in D
  <2>1. P(0) = <<>>  BY SubSeqEmpty
  <2>2. s \o <<>> = s  BY ConcatEmptySeq
  <2>3. L[m] \o <<>> = L[m]  BY <1>e, ConcatEmptySeq
  <2>4. <<>> \in S /\ <<>> \in Seq(Clean)  BY EmptySeq
  <2> HIDE DEF P
  <2>5. On(0)  BY <1>s, <1>m, <2>1, <2>2, <2>3, <2>4 DEF On
  <2> QED  BY <2>5
<1>2. ASSUME NEW k \in Nat, k \in D PROVE k + 1 \in D
  <2> SUFFICES ASSUME NEW j \in 1..n, j = k + 1 PROVE On(j)
    OBVIOUS
  <2>b. PICK b \in Plain : b = l[j] /\ b \in Clean /\ b # NL  BY <1>n, <1>p, ElementOfSeq
  <2>p. PICK p \in S : p = P(k) /\ p \in Seq(Clean) /\ OK(Lines(s \o p), k)
    <3>1. On(k)  BY <1>2
    <3> HIDE DEF P, OK
    <3> QED  BY <3>1 DEF On
  <2>1. P(j) = Append(p, b)
    <3>1. l \in Seq(Plain) /\ 1 \in 1..Len(l) /\ j \in 1..Len(l) /\ j - 1 = k  BY <1>n
    <3>2. P(j) = Append(SubSeq(l, 1, j - 1), l[j])
      BY <3>1, SubSeqRecursiveSecond
    <3> QED  BY <2>b, <2>p, <3>1, <3>2
  <2>2. Append(p, b) \in S /\ Append(p, b) \in Seq(Clean)
    BY <2>b, <2>p, AppendProperties
  <2>t. PICK t \in Seq(Clean) : t = s \o p  BY <2>p, ConcatProperties
  <2>3. s \o Append(p, b) = Append(t, b)
    <3>1. <<b>> \in Seq(Clean)  BY <2>b
    <3>2. Append(p, b) = p \o <<b>> /\ Append(t, b) = t \o <<b>>  BY <2>b, <2>p, AppendIsConcat
    <3>q. PICK q \in Seq(Clean) : q = p  BY <2>p
    <3>3. (s \o q) \o <<b>> = s \o (q \o <<b>>)  BY <3>1, ConcatAssociative
    <3> QED  BY <2>t, <3>2, <3>3, <3>q
  <2>4. Lines(s \o P(j)) = PutByte(Lines(t), b)  BY <2>1, <2>3, <2>b, LinesAppend
  <2>x. PICK X \in CutLines : X = Lines(t) /\ OK(X, k)  BY <2>p, <2>t, LinesType
  <2>5. /\ Len(X) = m /\ X[m] = L[m] \o p
        /\ \A i \in 1..(m - 1) : X[i] = L[i]
    BY <2>x, <2>p
  <2>6. /\ PutByte(X, b) \in CutLines /\ Len(PutByte(X, b)) = m
        /\ \A i \in 1..(m - 1) : PutByte(X, b)[i] = X[i]
        /\ PutByte(X, b)[m] = Append(X[m], b)
    BY <2>b, <2>5, PutByteType
  <2>7. Append(L[m] \o p, b) = L[m] \o Append(p, b)
    <3>e. PICK e \in Seq(Plain) : e = L[m]  BY <1>e
    <3>1. <<b>> \in Seq(Plain) /\ p \in Seq(Plain) /\ e \o p \in Seq(Plain)  BY <2>b, ConcatProperties
    <3>2. Append(p, b) = p \o <<b>> /\ Append(e \o p, b) = (e \o p) \o <<b>>  BY <3>1, AppendIsConcat
    <3>3. (e \o p) \o <<b>> = e \o (p \o <<b>>)  BY <3>1, ConcatAssociative
    <3> QED  BY <3>e, <3>2, <3>3
  <2>8. OK(PutByte(X, b), j)
    <3> HIDE DEF P, CutLines
    <3> QED  BY <2>1, <2>5, <2>6, <2>7
  <2> QED
    <3> HIDE DEF P, OK
    <3> QED  BY <2>1, <2>2, <2>4, <2>x, <2>8 DEF On
<1>3. n \in D
  <2> HIDE DEF D
  <2> QED  BY <1>1, <1>2, Induct
<1>4. P(n) = l  BY <1>n, SubSeqFull
<1>5. OK(Lines(s \o P(n)), n)
  <2>1. On(n)  BY <1>3
  <2> HIDE DEF P, OK
  <2> QED  BY <2>1 DEF On
<1> HIDE DEF P
<1> QED  BY <1>s, <1>m, <1>4, <1>5 DEF Goes

(* strings.Join, a line at a time. *)
JoinAt(f, lines, k) == IF k = 0 THEN <<>>
                       ELSE IF k = 1 THEN lines[1]
                       ELSE f[k - 1] \o <<NL>> \o lines[k]

LEMMA PlainIsClean == \A l \in Seq(Plain) : l \in Seq(Clean)
<1>1. Plain \subseteq Clean  BY DEF Plain
<1> HIDE DEF Plain
<1> QED  BY <1>1, SeqMonotonic

LEMMA JoinedIsClean ==
    ASSUME NEW t \in Seq(Clean), NEW l \in Seq(Plain)
    PROVE  /\ Append(t, NL) \in Seq(Clean)
           /\ t \o <<NL>> \o l = Append(t, NL) \o l
           /\ t \o <<NL>> \o l \in Seq(Clean)
<1>1. NL \in Clean  BY DEF NL, Clean, Shown, Byte, CR, ESC
<1>2. PICK u \in Seq(Clean) : u = Append(t, NL)  BY <1>1, AppendProperties
<1>3. t \o <<NL>> = u  BY <1>1, <1>2, AppendIsConcat
<1>4. u \o l \in Seq(Clean)  BY PlainIsClean, ConcatProperties
<1> QED  BY <1>2, <1>3, <1>4

LEMMA JoinDef ==
    ASSUME NEW lines \in Seq(Seq(Plain))
    PROVE  \E f : /\ \A k \in 0..Len(lines) : f[k] = JoinAt(f, lines, k) /\ f[k] \in Seq(Clean)
                  /\ JoinLines(lines) = f[Len(lines)]
<1> DEFINE V == Seq(Clean)
<1>n. PICK n \in Nat : n = Len(lines)  BY LenProperties
<1>l. \A k \in 1..n : lines[k] \in Seq(Plain) /\ lines[k] \in V  BY <1>n, ElementOfSeq, PlainIsClean
<1> DEFINE Join(k, t) == IF k = 1 THEN lines[1] ELSE t \o <<NL>> \o lines[k]
           G == [x \in (1..n) \X V |-> Join(x[1], x[2])]
<1>1. \A k \in 1..n : \A t \in V : Join(k, t) \in V
  <2> SUFFICES ASSUME NEW k \in 1..n, NEW t \in V PROVE Join(k, t) \in V  OBVIOUS
  <2>1. lines[k] \in Seq(Plain) /\ 1 \in 1..n  BY <1>l
  <2>2. t \o <<NL>> \o lines[k] \in V  BY <2>1, JoinedIsClean
  <2> QED  BY <1>l, <2>1, <2>2, Zenon
<1> HIDE DEF Join, V
<1>2. PICK g \in [0..n -> V] : g[0] = <<>> /\ \A k \in 1..n : g[k] = Join(k, g[k - 1])
  <2>1. PICK e \in V : e = <<>>  BY EmptySeq DEF V
  <2>2. PICK H \in [(1..n) \X V -> V] : H = G  BY <1>1
  <2> HIDE DEF G
  <2>3. PICK g \in [0..n -> V] : Recurs(g, n, e, H)  BY Recursion
  <2>4. ASSUME NEW k \in 1..n PROVE g[k] = Join(k, g[k - 1])
    <3>1. g[k - 1] \in V /\ g[k] = H[<<k, g[k - 1]>>]  BY <2>3 DEF Recurs
    <3>2. H[<<k, g[k - 1]>>] = Join(k, g[k - 1])  BY <2>2, <3>1 DEF G
    <3> QED  BY <3>1, <3>2
  <2> QED  BY <2>1, <2>3, <2>4 DEF Recurs
<1>3. ASSUME NEW k \in 0..n PROVE g[k] = JoinAt(g, lines, k)
  <2>1. CASE k = 0  BY <1>2, <2>1 DEF JoinAt
  <2>2. CASE k # 0
    <3>1. k \in 1..n  BY <2>2
    <3> QED  BY <1>2, <2>2, <3>1, Zenon DEF JoinAt, Join
  <2> QED  BY <2>1, <2>2
<1> DEFINE f == CHOOSE h : h = [k \in 0..n |-> JoinAt(h, lines, k)]
<1>4. f = [k \in 0..n |-> JoinAt(f, lines, k)]
  <2>1. g = [k \in 0..n |-> g[k]]  OBVIOUS
  <2>2. g = [k \in 0..n |-> JoinAt(g, lines, k)]
    <3> HIDE DEF JoinAt
    <3> QED  BY <1>3, <2>1
  <2> HIDE DEF JoinAt
  <2> QED  BY <2>2
<1>5. JoinLines(lines) = f[n]  BY <1>n DEF JoinLines, JoinAt
<1> HIDE DEF f
<1>6. \A k \in 0..n : f[k] = JoinAt(f, lines, k)
  <2> HIDE DEF JoinAt
  <2> QED  BY <1>4
<1> DEFINE D == {k \in Nat : k <= n => f[k] \in V}
<1>7. 0 \in D
  <2>1. 0 \in 0..n  OBVIOUS
  <2>2. f[0] = <<>>  BY <1>6, <2>1, Zenon DEF JoinAt
  <2> QED  BY <2>2, EmptySeq DEF V
<1>8. ASSUME NEW j \in Nat, j \in D PROVE j + 1 \in D
  <2> SUFFICES ASSUME NEW k \in 1..n, k = j + 1 PROVE f[k] \in V  OBVIOUS
  <2>1. f[k - 1] \in V  BY <1>8
  <2>2. k \in 0..n /\ k # 0  OBVIOUS
  <2>3. f[k] = Join(k, f[k - 1])  BY <1>6, <2>2, Zenon DEF JoinAt, Join
  <2> QED  BY <1>1, <2>1, <2>3
<1>9. Nat \subseteq D
  <2> HIDE DEF D
  <2> QED  BY <1>7, <1>8, Induct
<1>10. \A k \in 0..n : f[k] \in V  BY <1>9
<1> QED  BY <1>n, <1>5, <1>6, <1>10 DEF V

(* Split undoes Join. *)
LEMMA LinesOfJoin ==
    ASSUME NEW lines \in Seq(Seq(Plain)), lines # <<>>
    PROVE  Lines(JoinLines(lines)) = lines
<1> DEFINE S == Seq(Plain)
<1>n. PICK n \in Nat : n = Len(lines) /\ n # 0  BY LenProperties, EmptySeq
<1>l. \A k \in 1..n : lines[k] \in S  BY <1>n, ElementOfSeq
<1>f. PICK f : /\ \A k \in 0..n : f[k] = JoinAt(f, lines, k) /\ f[k] \in Seq(Clean)
               /\ JoinLines(lines) = f[n]
  BY <1>n, JoinDef
<1>c. <<>> \in Seq(Clean) /\ NL \in Clean  BY EmptySeq DEF NL, Clean, Shown, Byte, CR, ESC
<1> DEFINE OK(X, k) == Len(X) = k /\ \A i \in 1..k : X[i] = lines[i]
           Splits(k) == OK(Lines(f[k]), k)
           D == {k \in Nat : k + 1 <= n => Splits(k + 1)}
<1> HIDE DEF Splits
<1>1. 0 \in D
  <2>1. 1 \in 1..n /\ 1 \in 0..n  BY <1>n
  <2>p. PICK l \in S : l = lines[1]  BY <1>l, <2>1
  <2>2. f[1] = <<>> \o l
    <3>1. f[1] = lines[1]  BY <1>f, <2>1 DEF JoinAt
    <3>2. <<>> \o l = l  BY ConcatEmptySeq
    <3> QED  BY <2>p, <3>1, <3>2
  <2>e. PICK e \in Seq(Clean) : e = <<>>  BY <1>c
  <2>x. PICK X : X = Lines(e \o l) /\ Goes(X, Lines(e), l)  BY LinesOn
  <2>3. PICK L : L = Lines(e) /\ Len(L) = 1 /\ L[1] = <<>>
    <3>1. Lines(e) = << <<>> >>  BY <2>e, LinesEmpty
    <3> QED  BY <3>1
  <2>4. Len(X) = 1 /\ X[1] = <<>> \o l /\ X = Lines(f[1])
    BY <2>2, <2>e, <2>x, <2>3 DEF Goes
  <2>5. <<>> \o l = l  BY ConcatEmptySeq
  <2>6. Splits(1)
    <3>1. \A i \in 1..1 : X[i] = lines[i]  BY <2>p, <2>4, <2>5
    <3> QED  BY <2>4, <3>1 DEF Splits
  <2> QED  BY <2>6
<1>2. ASSUME NEW j \in Nat, j \in D PROVE j + 1 \in D
  <2> SUFFICES ASSUME NEW k \in 2..n, k = j + 2 PROVE Splits(k)
    OBVIOUS
  <2>1. Splits(k - 1)  BY <1>2
  <2>2. k \in 0..n /\ k - 1 \in 0..n /\ k # 0 /\ k # 1 /\ k \in 1..n /\ k - 1 \in 1..n /\ (k - 1) + 1 = k
    BY <1>n
  <2>p. PICK l \in S : l = lines[k]  BY <1>l, <2>2
  <2>t. PICK t \in Seq(Clean) : t = f[k - 1]  BY <1>f, <2>2
  <2>u. PICK u \in Seq(Clean) : u = Append(t, NL)  BY JoinedIsClean
  <2>3. f[k] = u \o l
    <3>1. f[k] = t \o <<NL>> \o l  BY <1>f, <2>2, <2>p, <2>t, Zenon DEF JoinAt
    <3> QED  BY <2>u, <3>1, JoinedIsClean
  <2>x. PICK X \in CutLines : X = Lines(t)  BY LinesType
  <2>4. Len(X) = k - 1 /\ \A i \in 1..(k - 1) : X[i] = lines[i]
    BY <2>1, <2>t, <2>x DEF Splits
  <2>5. Lines(u) = PutByte(X, NL)  BY <1>c, <2>u, <2>x, LinesAppend
  <2>y. PICK Y : Y = PutByte(X, NL) /\ Breaks(Y, X)  BY PutNewline
  <2>6. /\ Y = Lines(u) /\ Len(Y) = k /\ Y[k] = <<>>
        /\ \A i \in 1..(k - 1) : Y[i] = X[i]
    BY <2>2, <2>4, <2>5, <2>y DEF Breaks
  <2>7. \A i \in 1..(k - 1) : Y[i] = lines[i]  BY <2>4, <2>6
  <2>z. PICK Z : Z = Lines(u \o l) /\ Goes(Z, Y, l)  BY <2>6, LinesOn
  <2>8. /\ Len(Z) = k /\ Z[k] = <<>> \o l
        /\ \A i \in 1..(k - 1) : Z[i] = Y[i]
    BY <2>6, <2>z DEF Goes
  <2>9. <<>> \o l = l  BY ConcatEmptySeq
  <2>10. \A i \in 1..k : Z[i] = lines[i]
    <3> SUFFICES ASSUME NEW i \in 1..k PROVE Z[i] = lines[i]  OBVIOUS
    <3>1. CASE i = k  BY <2>8, <2>9, <2>p, <3>1
    <3>2. CASE i # k
      <4>1. i \in 1..(k - 1)  BY <3>2
      <4> QED  BY <2>7, <2>8, <4>1
    <3> QED  BY <3>1, <3>2
  <2> QED  BY <2>3, <2>z, <2>8, <2>10 DEF Splits
<1>3. Nat \subseteq D
  <2> HIDE DEF D
  <2> QED  BY <1>1, <1>2, Induct
<1>4. Splits(n)
  <2>1. n - 1 \in Nat /\ (n - 1) + 1 = n  BY <1>n
  <2>2. n - 1 \in D  BY <1>3, <2>1
  <2> QED  BY <2>1, <2>2
<1>5. Lines(f[n]) \in Seq(S)
  <2>1. f[n] \in Seq(Clean)  BY <1>f
  <2> QED  BY <2>1, LinesType DEF CutLines
<1>6. Lines(f[n]) = lines
  <2>1. lines \in Seq(S) /\ Len(Lines(f[n])) = Len(lines) /\ \A i \in 1..Len(Lines(f[n])) : Lines(f[n])[i] = lines[i]
    BY <1>n, <1>4 DEF Splits
  <2> HIDE DEF S
  <2> QED  BY <1>5, <2>1, SeqEqual
<1> QED  BY <1>f, <1>6

(* TrimRight cuts behind the last element that stays. *)
LEMMA TrimIs ==
    ASSUME NEW S, NEW s \in Seq(S), NEW C
    PROVE  \E k \in 0..Len(s) : /\ TrimRight(s, C) = SubSeq(s, 1, k)
                                /\ k # 0 => s[k] \notin C
                                /\ \A i \in (k + 1)..Len(s) : s[i] \in C
<1>n. PICK n \in Nat : n = Len(s)  BY LenProperties
<1> DEFINE I == {i \in 1..Len(s) : s[i] \notin C}
           last == CHOOSE x \in I : \A y \in I : x >= y
<1>1. SelectLastInSeq(s, LAMBDA e : e \notin C) = IF I # {} THEN last ELSE 0
  BY DEF SelectLastInSeq, Max
<1>2. TrimRight(s, C) = SubSeq(s, 1, IF I # {} THEN last ELSE 0)
  BY <1>1 DEF TrimRight
<1>3. CASE I = {}
  <2>1. TrimRight(s, C) = SubSeq(s, 1, 0)
    <3> HIDE DEF I, last
    <3> QED  BY <1>2, <1>3
  <2>2. 0 \in 0..Len(s) /\ \A i \in 1..Len(s) : s[i] \in C  BY <1>n, <1>3
  <2> QED  BY <2>1, <2>2
<1>4. CASE I # {}
  <2>0. TrimRight(s, C) = SubSeq(s, 1, last)
    <3> HIDE DEF I, last
    <3> QED  BY <1>2, <1>4
  <2>1. last \in I /\ \A y \in I : last >= y
    <3>1. I \subseteq 1..n  BY <1>n
    <3> HIDE DEF I
    <3>2. PICK x \in I : \A y \in I : x >= y  BY <1>4, <3>1, Greatest
    <3> QED  BY <3>2
  <2>2. PICK k \in I : k = last /\ \A y \in I : k >= y  BY <2>1
  <2>3. k \in 0..Len(s) /\ s[k] \notin C  BY <1>n
  <2>4. ASSUME NEW i \in (k + 1)..Len(s) PROVE s[i] \in C
    <3>1. i \in 1..Len(s) /\ ~(k >= i)  BY <1>n
    <3> QED  BY <2>2, <3>1
  <2> QED  BY <2>0, <2>2, <2>3, <2>4
<1> QED  BY <1>3, <1>4

LEMMA TrimType ==
    ASSUME NEW S, NEW s \in Seq(S), NEW C
    PROVE  /\ TrimRight(s, C) \in Seq(S)
           /\ TrimRight(s, C) # <<>> => TrimRight(s, C)[Len(TrimRight(s, C))] \notin C
<1>n. PICK n \in Nat : n = Len(s)  BY LenProperties
<1>1. PICK k \in 0..n : TrimRight(s, C) = SubSeq(s, 1, k) /\ (k # 0 => s[k] \notin C)
  BY <1>n, TrimIs
<1>2. \A i \in 1..k : s[i] \in S  BY <1>n, ElementOfSeq
<1>3. PICK t \in Seq(S) : /\ t = SubSeq(s, 1, k) /\ Len(t) = k
                          /\ \A i \in 1..k : t[i] = s[i]
  <2>1. /\ SubSeq(s, 1, k) \in Seq(S)
        /\ Len(SubSeq(s, 1, k)) = IF 1 <= k THEN k - 1 + 1 ELSE 0
        /\ \A i \in 1..(k - 1 + 1) : SubSeq(s, 1, k)[i] = s[1 + i - 1]
    BY <1>2, SubSeqProperties
  <2>2. Len(SubSeq(s, 1, k)) = k /\ k - 1 + 1 = k /\ \A i \in 1..k : 1 + i - 1 = i  BY <2>1
  <2> QED  BY <2>1, <2>2
<1>4. t # <<>> => k # 0 /\ k \in 1..k  BY <1>3, EmptySeq
<1> QED  BY <1>1, <1>3, <1>4

LEMMA TrimKeeps ==
    ASSUME NEW S, NEW s \in Seq(S), NEW C, s # <<>> => s[Len(s)] \notin C
    PROVE  TrimRight(s, C) = s
<1>n. PICK n \in Nat : n = Len(s) /\ (n = 0 <=> s = <<>>)  BY LenProperties, EmptySeq
<1>1. PICK k \in 0..n : TrimRight(s, C) = SubSeq(s, 1, k) /\ \A i \in (k + 1)..n : s[i] \in C
  BY <1>n, TrimIs
<1>2. k = n  BY <1>n, <1>1
<1> QED  BY <1>n, <1>1, <1>2, SubSeqFull

(* The stages of Normalize: what they leave, and that they leave it alone. *)
LEMMA StripType == \A s \in Seq(Byte) : StripANSI(s) \in Seq(Shown)
<1> SUFFICES ASSUME NEW s \in Seq(Byte) PROVE StripANSI(s) \in Seq(Shown)
  OBVIOUS
<1>n. PICK n \in Nat : n = Len(s)  BY LenProperties
<1>f. PICK f : (\A i \in 1..(n + 1) : f[i] = StripAt(f, s, i)) /\ StripANSI(s) = f[1]
  BY <1>n, StripDef
<1> DEFINE D == {k \in Nat : \A i \in 1..(n + 1) : i + k > n => f[i] \in Seq(Shown)}
<1>1. ASSUME NEW i \in 1..(n + 1), \A j \in 1..(n + 1) : j > i => f[j] \in Seq(Shown)
      PROVE  f[i] \in Seq(Shown)
  <2>1. CASE i > n
    <3>1. f[i] = <<>>  BY <1>f, <1>n, <2>1, Zenon DEF StripAt
    <3> QED  BY <3>1, EmptySeq
  <2>2. CASE i <= n
    <3>0. i \in 1..Len(s) /\ ~(i > Len(s)) /\ i + 1 \in 1..(n + 1) /\ i + 1 > i  BY <1>n, <2>2
    <3>1. PICK j \in (i + 1)..(n + 1) : j = AfterEscape(s, i)  BY <1>n, <3>0, AfterEscapeRange
    <3>2. f[j] \in Seq(Shown) /\ f[i + 1] \in Seq(Shown)  BY <1>1, <3>0
    <3>3. CASE s[i] = ESC
      <4>1. f[i] = f[j]  BY <1>f, <3>0, <3>1, <3>3, Zenon DEF StripAt
      <4> QED  BY <3>2, <4>1
    <3>4. CASE s[i] # ESC
      <4>1. f[i] = <<s[i]>> \o f[i + 1]  BY <1>f, <3>0, <3>4, Zenon DEF StripAt
      <4>2. s[i] \in Shown  BY <3>0, <3>4, ElementOfSeq DEF Shown
      <4>3. <<s[i]>> \in Seq(Shown)
        <5> HIDE DEF Shown
        <5> QED  BY <4>2
      <4> QED  BY <3>2, <4>1, <4>3, ConcatProperties
    <3> QED  BY <3>3, <3>4
  <2> QED  BY <2>1, <2>2
<1>2. 0 \in D
  <2> SUFFICES ASSUME NEW i \in 1..(n + 1), i + 0 > n PROVE f[i] \in Seq(Shown)  OBVIOUS
  <2>1. \A j \in 1..(n + 1) : ~(j > i)  OBVIOUS
  <2> QED  BY <1>1, <2>1
<1>3. ASSUME NEW k \in Nat, k \in D PROVE k + 1 \in D
  <2> SUFFICES ASSUME NEW i \in 1..(n + 1), i + (k + 1) > n PROVE f[i] \in Seq(Shown)  OBVIOUS
  <2>1. \A j \in 1..(n + 1) : j > i => f[j] \in Seq(Shown)  BY <1>3
  <2> QED  BY <1>1, <2>1
<1>4. n \in D
  <2> HIDE DEF D
  <2> QED  BY <1>2, <1>3, Induct
<1>5. 1 \in 1..(n + 1) /\ 1 + n > n  OBVIOUS
<1> QED  BY <1>f, <1>4, <1>5

LEMMA StripKeeps == \A s \in Seq(Shown) : StripANSI(s) = s
<1> SUFFICES ASSUME NEW s \in Seq(Shown) PROVE StripANSI(s) = s
  OBVIOUS
<1>n. PICK n \in Nat : n = Len(s)  BY LenProperties
<1>f. PICK f : (\A i \in 1..(n + 1) : f[i] = StripAt(f, s, i)) /\ StripANSI(s) = f[1]
  BY <1>n, StripDef
<1> DEFINE D == {k \in Nat : k <= n => f[(n + 1) - k] = SubSeq(s, (n + 1) - k, n)}
<1>1. 0 \in D
  <2>1. n + 1 \in 1..(n + 1) /\ n + 1 > n  OBVIOUS
  <2>2. f[n + 1] = <<>>  BY <1>f, <1>n, <2>1, Zenon DEF StripAt
  <2>3. SubSeq(s, n + 1, n) = <<>>  BY SubSeqEmpty
  <2>4. (n + 1) - 0 = n + 1  OBVIOUS
  <2> QED  BY <2>2, <2>3, <2>4
<1>2. ASSUME NEW k \in Nat, k \in D PROVE k + 1 \in D
  <2> SUFFICES ASSUME NEW i \in 1..n, i = n - k PROVE f[i] = SubSeq(s, i, n)
    <3>1. k + 1 <= n => n - k \in 1..n /\ (n + 1) - (k + 1) = n - k  OBVIOUS
    <3> QED  BY <3>1
  <2>1. f[i + 1] = SubSeq(s, i + 1, n)
    <3>1. (n + 1) - k = i + 1 /\ k <= n  OBVIOUS
    <3> QED  BY <1>2, <3>1
  <2>2. i \in 1..(n + 1) /\ ~(i > Len(s)) /\ i \in 1..Len(s) /\ n \in 1..Len(s) /\ n \in i..Len(s)  BY <1>n
  <2>3. s[i] # ESC  BY <2>2, ElementOfSeq DEF Shown
  <2>4. f[i] = <<s[i]>> \o f[i + 1]  BY <1>f, <2>2, <2>3, Zenon DEF StripAt
  <2>5. SubSeq(s, i, n) = <<s[i]>> \o SubSeq(s, i + 1, n)
    <3> HIDE DEF Shown
    <3> QED  BY <2>2, SubSeqRecursiveFirst
  <2> QED  BY <2>1, <2>4, <2>5
<1>3. n \in D
  <2> HIDE DEF D
  <2> QED  BY <1>1, <1>2, Induct
<1>4. f[1] = SubSeq(s, 1, n)
  <2>1. (n + 1) - n = 1  OBVIOUS
  <2> QED  BY <1>3, <2>1
<1> QED  BY <1>f, <1>n, <1>4, SubSeqFull

LEMMA DropIsClean == \A s \in Seq(Shown) : DropCR(s) \in Seq(Clean)
<1> SUFFICES ASSUME NEW s \in Seq(Shown) PROVE DropCR(s) \in Seq(Clean)
  OBVIOUS
<1>n. PICK n \in Nat : n = Len(s)  BY LenProperties
<1>f. PICK f : (\A i \in 0..n : f[i] = KeepAt(f, s, i)) /\ DropCR(s) = f[n]
  BY <1>n, KeepDef
<1> DEFINE D == {k \in Nat : k <= n => f[k] \in Seq(Clean)}
<1>1. 0 \in D
  <2>1. 0 \in 0..n  OBVIOUS
  <2>2. f[0] = <<>>  BY <1>f, <2>1, Zenon DEF KeepAt
  <2> QED  BY <2>2, EmptySeq
<1>2. ASSUME NEW k \in Nat, k \in D PROVE k + 1 \in D
  <2> SUFFICES ASSUME NEW i \in 1..n, i = k + 1 PROVE f[i] \in Seq(Clean)  OBVIOUS
  <2>1. f[i - 1] \in Seq(Clean) /\ i \in 0..n /\ i # 0  BY <1>2
  <2>2. CASE s[i] = CR
    <3>1. f[i] = f[i - 1]  BY <1>f, <2>1, <2>2, Zenon DEF KeepAt
    <3> QED  BY <2>1, <3>1
  <2>3. CASE s[i] # CR
    <3>1. f[i] = Append(f[i - 1], s[i])  BY <1>f, <2>1, <2>3, Zenon DEF KeepAt
    <3>2. s[i] \in Clean  BY <1>n, <2>3, ElementOfSeq DEF Clean
    <3> QED  BY <2>1, <3>1, <3>2, AppendProperties
  <2> QED  BY <2>2, <2>3
<1>3. n \in D
  <2> HIDE DEF D
  <2> QED  BY <1>1, <1>2, Induct
<1> QED  BY <1>f, <1>3

LEMMA DropKeeps == \A s \in Seq(Clean) : DropCR(s) = s
<1> SUFFICES ASSUME NEW s \in Seq(Clean) PROVE DropCR(s) = s
  OBVIOUS
<1>n. PICK n \in Nat : n = Len(s)  BY LenProperties
<1>f. PICK f : (\A i \in 0..n : f[i] = KeepAt(f, s, i)) /\ DropCR(s) = f[n]
  BY <1>n, KeepDef
<1> DEFINE D == {k \in Nat : k <= n => f[k] = SubSeq(s, 1, k)}
<1>1. 0 \in D
  <2>1. 0 \in 0..n  OBVIOUS
  <2>2. f[0] = <<>>  BY <1>f, <2>1, Zenon DEF KeepAt
  <2>3. SubSeq(s, 1, 0) = <<>>  BY SubSeqEmpty
  <2> QED  BY <2>2, <2>3
<1>2. ASSUME NEW k \in Nat, k \in D PROVE k + 1 \in D
  <2> SUFFICES ASSUME NEW i \in 1..n, i = k + 1 PROVE f[i] = SubSeq(s, 1, i)  OBVIOUS
  <2>1. f[i - 1] = SubSeq(s, 1, i - 1) /\ i \in 0..n /\ i # 0  BY <1>2
  <2>2. i \in 1..Len(s) /\ 1 \in 1..Len(s) /\ i \in 1..Len(s)  BY <1>n
  <2>3. s[i] # CR  BY <2>2, ElementOfSeq DEF Clean
  <2>4. f[i] = Append(f[i - 1], s[i])  BY <1>f, <2>1, <2>3, Zenon DEF KeepAt
  <2>5. SubSeq(s, 1, i) = Append(SubSeq(s, 1, i - 1), s[i])
    <3> HIDE DEF Clean
    <3> QED  BY <2>2, SubSeqRecursiveSecond
  <2> QED  BY <2>1, <2>4, <2>5
<1>3. n \in D
  <2> HIDE DEF D
  <2> QED  BY <1>1, <1>2, Induct
<1>4. f[n] = SubSeq(s, 1, n)  BY <1>3
<1> QED  BY <1>f, <1>n, <1>4, SubSeqFull

-----------------------------------------------------------------------------
(* The lines that Normalize joins: none ends in a blank, the last is not   *)
(* empty.                                                                  *)
Tidy == {l \in Seq(Plain) : l # <<>> => l[Len(l)] \notin Blank}

Neat(lines) == lines \in Seq(Tidy) /\ (lines # <<>> => lines[Len(lines)] # <<>>)

TrimmedLines(lines) == [i \in DOMAIN lines |-> TrimRight(lines[i], Blank)]

LEMMA TrimmedType == \A lines \in Seq(Seq(Plain)) : TrimmedLines(lines) \in Seq(Tidy)
<1> SUFFICES ASSUME NEW lines \in Seq(Seq(Plain)) PROVE TrimmedLines(lines) \in Seq(Tidy)
  OBVIOUS
<1>n. PICK n \in Nat : n = Len(lines) /\ DOMAIN lines = 1..n  BY LenProperties
<1>1. ASSUME NEW i \in 1..n PROVE TrimRight(lines[i], Blank) \in Tidy
  <2>1. lines[i] \in Seq(Plain)  BY <1>n, ElementOfSeq
  <2>2. PICK t : t = TrimRight(lines[i], Blank)  OBVIOUS
  <2>3. t \in Seq(Plain) /\ (t # <<>> => t[Len(t)] \notin Blank)  BY <2>1, <2>2, TrimType
  <2> QED  BY <2>2, <2>3 DEF Tidy
<1>2. TrimmedLines(lines) \in [1..n -> Tidy]  BY <1>n, <1>1 DEF TrimmedLines
<1> HIDE DEF Tidy
<1> QED  BY <1>2

LEMMA NormalizeIs == \A s : Normalize(s) = JoinLines(TrimRight(TrimmedLines(Lines(DropCR(StripANSI(s)))), {<<>>}))
BY Zenon DEF Normalize, TrimmedLines

LEMMA NormalizeIsNeat ==
    ASSUME NEW s \in Seq(Byte)
    PROVE  \E lines : Neat(lines) /\ Normalize(s) = JoinLines(lines)
<1>1. DropCR(StripANSI(s)) \in Seq(Clean)  BY StripType, DropIsClean
<1>2. Lines(DropCR(StripANSI(s))) \in Seq(Seq(Plain))  BY <1>1, LinesType DEF CutLines
<1>3. PICK trimmed \in Seq(Tidy) : trimmed = TrimmedLines(Lines(DropCR(StripANSI(s))))
  BY <1>2, TrimmedType
<1>4. PICK lines : lines = TrimRight(trimmed, {<<>>})  OBVIOUS
<1>5. lines \in Seq(Tidy) /\ (lines # <<>> => lines[Len(lines)] \notin {<<>>})
  <2> HIDE DEF Tidy
  <2> QED  BY <1>4, TrimType
<1>6. Normalize(s) = JoinLines(lines)  BY <1>3, <1>4, NormalizeIs
<1> QED  BY <1>5, <1>6 DEF Neat

LEMMA NeatIsPlain == \A lines \in Seq(Tidy) : lines \in Seq(Seq(Plain))
<1>1. Tidy \subseteq Seq(Plain)  BY DEF Tidy
<1> HIDE DEF Tidy, Plain
<1> QED  BY <1>1, SeqMonotonic

LEMMA JoinType == \A lines \in Seq(Seq(Plain)) : JoinLines(lines) \in Seq(Clean)
<1> SUFFICES ASSUME NEW lines \in Seq(Seq(Plain)) PROVE JoinLines(lines) \in Seq(Clean)
  OBVIOUS
<1>n. PICK n \in Nat : n = Len(lines)  BY LenProperties
<1>f. PICK f : /\ \A k \in 0..n : f[k] = JoinAt(f, lines, k) /\ f[k] \in Seq(Clean)
               /\ JoinLines(lines) = f[n]
  BY <1>n, JoinDef
<1> QED  BY <1>f

(* Clean text passes the first two stages as it is. *)
LEMMA CleanPasses == \A t \in Seq(Clean) : DropCR(StripANSI(t)) = t
<1> SUFFICES ASSUME NEW t \in Seq(Clean) PROVE DropCR(StripANSI(t)) = t
  OBVIOUS
<1>1. t \in Seq(Shown)
  <2>1. Clean \subseteq Shown  BY DEF Clean
  <2> HIDE DEF Clean, Shown
  <2> QED  BY <2>1, SeqMonotonic
<1> QED  BY <1>1, StripKeeps, DropKeeps

LEMMA NormalizeKeeps ==
    ASSUME NEW lines, Neat(lines)
    PROVE  Normalize(JoinLines(lines)) = JoinLines(lines)
<1>1. lines \in Seq(Tidy) /\ lines \in Seq(Seq(Plain))  BY NeatIsPlain DEF Neat
<1>t. PICK t \in Seq(Clean) : t = JoinLines(lines)  BY <1>1, JoinType
<1>2. Normalize(t) = JoinLines(TrimRight(TrimmedLines(Lines(t)), {<<>>}))  BY CleanPasses, NormalizeIs
<1>3. CASE lines = <<>>
  <2>0. Len(lines) = 0 /\ 0 \in 0..0  BY <1>3, EmptySeq
  <2>1. t = <<>>
    <3>1. PICK f : /\ \A k \in 0..0 : f[k] = JoinAt(f, lines, k) /\ f[k] \in Seq(Clean)
                   /\ JoinLines(lines) = f[0]
      BY <1>1, <2>0, JoinDef
    <3> QED  BY <1>t, <2>0, <3>1, Zenon DEF JoinAt
  <2>2. Lines(t) = << <<>> >>  BY <2>1, LinesEmpty
  <2>3. PICK one \in Seq({<<>>}) : one = << <<>> >> /\ Len(one) = 1 /\ one[1] = <<>> /\ DOMAIN one = 1..1
    <3>1. PICK e : e = <<>>  OBVIOUS
    <3>2. <<e>> \in Seq({e}) /\ Len(<<e>>) = 1 /\ <<e>>[1] = e /\ DOMAIN <<e>> = 1..1  OBVIOUS
    <3> QED  BY <3>1, <3>2, Zenon
  <2>4. TrimRight(<<>>, Blank) = <<>>
    <3>1. <<>> \in Seq(Plain)  BY EmptySeq
    <3> QED  BY <3>1, TrimKeeps
  <2>5. TrimmedLines(one) = one  BY <2>3, <2>4 DEF TrimmedLines
  <2>6. TrimRight(one, {<<>>}) = <<>>
    <3>1. PICK k \in 0..Len(one) : /\ TrimRight(one, {<<>>}) = SubSeq(one, 1, k)
                                   /\ k # 0 => one[k] \notin {<<>>}
                                   /\ \A i \in (k + 1)..Len(one) : one[i] \in {<<>>}
      BY TrimIs
    <3>2. k = 0  BY <2>3, <3>1
    <3> QED  BY <3>1, <3>2, SubSeqEmpty
  <2> QED  BY <1>t, <1>2, <1>3, <2>2, <2>3, <2>5, <2>6
<1>4. CASE lines # <<>>
  <2>1. Lines(t) = lines  BY <1>1, <1>t, <1>4, LinesOfJoin
  <2>2. TrimmedLines(lines) = lines
    <3>1. ASSUME NEW i \in DOMAIN lines PROVE TrimRight(lines[i], Blank) = lines[i]
      <4>1. lines[i] \in Tidy  BY <1>1, LenProperties, ElementOfSeq
      <4>2. PICK l \in Seq(Plain) : l = lines[i] /\ (l # <<>> => l[Len(l)] \notin Blank)  BY <4>1 DEF Tidy
      <4> QED  BY <4>2, TrimKeeps
    <3>2. lines = [i \in DOMAIN lines |-> lines[i]]  BY <1>1
    <3> QED  BY <3>1, <3>2 DEF TrimmedLines
  <2>3. TrimRight(lines, {<<>>}) = lines
    <3>1. lines[Len(lines)] \notin {<<>>}  BY <1>4 DEF Neat
    <3> HIDE DEF Tidy
    <3> QED  BY <1>1, <3>1, TrimKeeps
  <2> QED  BY <1>t, <1>2, <2>1, <2>2, <2>3
<1> QED  BY <1>3, <1>4

(* A blank is neither the last byte of a text nor the one before a newline. *)
Ended(t) == \A i \in 1..Len(t) : i = Len(t) \/ t[i + 1] = NL => t[i] \notin Blank

LEMMA TidyIsEnded == \A l \in Tidy : Ended(l)
<1> SUFFICES ASSUME NEW l \in Tidy, NEW i \in 1..Len(l), i = Len(l) \/ l[i + 1] = NL PROVE l[i] \notin Blank
  BY DEF Ended
<1>n. PICK n \in Nat : n = Len(l)  BY LenProperties DEF Tidy
<1>1. l \in Seq(Plain) /\ l # <<>>  BY EmptySeq DEF Tidy
<1>2. CASE i = Len(l)  BY <1>1, <1>2 DEF Tidy
<1>3. CASE i # Len(l)
  <2>1. i + 1 \in 1..Len(l)  BY <1>n, <1>3
  <2>2. l[i + 1] \in Plain  BY <1>1, <2>1, ElementOfSeq
  <2> QED  BY <1>3, <2>2 DEF Plain
<1> QED  BY <1>2, <1>3

LEMMA JoinedIsEnded ==
    ASSUME NEW t \in Seq(Clean), Ended(t), NEW l \in Tidy
    PROVE  Ended(t \o <<NL>> \o l)
<1>n. PICK n \in Nat : n = Len(t)  BY LenProperties
<1>l. l \in Seq(Plain) /\ l \in Seq(Clean)  BY PlainIsClean DEF Tidy
<1>m. PICK m \in Nat : m = Len(l)  BY <1>l, LenProperties
<1>0. NL \in Clean  BY DEF NL, Clean, Shown, Byte, CR, ESC
<1>u. PICK u \in Seq(Clean) : /\ u = Append(t, NL) /\ Len(u) = n + 1 /\ u[n + 1] = NL
                              /\ \A i \in 1..n : u[i] = t[i]
  <2>1. PICK b \in Clean : b = NL  BY <1>0
  <2>2. PICK u \in Seq(Clean) : /\ u = Append(t, b) /\ Len(u) = Len(t) + 1 /\ u[Len(t) + 1] = b
                                /\ \A i \in 1..Len(t) : u[i] = t[i]
    <3> HIDE DEF Clean
    <3>1. /\ Append(t, b) \in Seq(Clean) /\ Len(Append(t, b)) = Len(t) + 1
          /\ Append(t, b)[Len(t) + 1] = b
          /\ \A i \in 1..Len(t) : Append(t, b)[i] = t[i]
      BY AppendProperties
    <3> QED  BY <3>1, Zenon
  <2> QED  BY <1>n, <2>1, <2>2
<1>v. PICK v \in Seq(Clean) : /\ v = u \o l /\ Len(v) = n + 1 + m
                              /\ \A i \in 1..(n + 1) : v[i] = u[i]
                              /\ \A i \in (n + 2)..(n + 1 + m) : v[i] = l[i - (n + 1)]
  <2>1. /\ u \o l \in Seq(Clean) /\ Len(u \o l) = Len(u) + Len(l)
        /\ \A i \in 1..(Len(u) + Len(l)) : (u \o l)[i] = IF i <= Len(u) THEN u[i] ELSE l[i - Len(u)]
    BY <1>l, ConcatProperties
  <2>2. PICK w \in Seq(Clean) : w = u \o l /\ Len(w) = Len(u) + Len(l)
           /\ \A i \in 1..(Len(u) + Len(l)) : w[i] = IF i <= Len(u) THEN u[i] ELSE l[i - Len(u)]
    BY <2>1
  <2>3. Len(u) = n + 1 /\ Len(l) = m /\ Len(w) = n + 1 + m  BY <1>m, <1>u, <2>2
  <2>4. \A i \in 1..(n + 1) : w[i] = u[i]  BY <2>2, <2>3
  <2>5. \A i \in (n + 2)..(n + 1 + m) : w[i] = l[i - (n + 1)]  BY <2>2, <2>3
  <2> QED  BY <2>2, <2>3, <2>4, <2>5
<1>1. t \o <<NL>> \o l = v  BY <1>l, <1>u, <1>v, JoinedIsClean
<1>2. ASSUME NEW i \in 1..(n + 1 + m), i = n + 1 + m \/ v[i + 1] = NL PROVE v[i] \notin Blank
  <2>1. CASE i <= n
    <3>1. i \in 1..n /\ v[i] = t[i] /\ (i < n => v[i + 1] = t[i + 1])  BY <1>u, <1>v, <2>1
    <3>2. i = n \/ t[i + 1] = NL  BY <1>2, <3>1
    <3> QED  BY <1>n, <3>1, <3>2 DEF Ended
  <2>2. CASE i = n + 1
    <3>1. v[i] = NL  BY <1>u, <1>v, <2>2
    <3> QED  BY <3>1 DEF NL, Blank, SPACE, TAB
  <2>3. CASE i > n + 1
    <3>1. i - (n + 1) \in 1..m /\ v[i] = l[i - (n + 1)]  BY <1>v, <2>3
    <3>2. i < n + 1 + m => v[i + 1] = l[(i - (n + 1)) + 1]
      <4>1. i < n + 1 + m => i + 1 \in (n + 2)..(n + 1 + m) /\ (i + 1) - (n + 1) = (i - (n + 1)) + 1  BY <2>3
      <4> QED  BY <1>v, <4>1
    <3>3. i - (n + 1) = m \/ l[(i - (n + 1)) + 1] = NL  BY <1>2, <3>1, <3>2
    <3>4. Ended(l)  BY TidyIsEnded
    <3> QED  BY <1>m, <3>1, <3>3, <3>4 DEF Ended
  <2> QED  BY <2>1, <2>2, <2>3
<1>3. Ended(v)  BY <1>v, <1>2 DEF Ended
<1> QED  BY <1>1, <1>3

LEMMA JoinIsEnded ==
    ASSUME NEW lines, Neat(lines)
    PROVE  /\ Ended(JoinLines(lines))
           /\ JoinLines(lines) # <<>> => JoinLines(lines)[Len(JoinLines(lines))] # NL
<1>1. lines \in Seq(Tidy) /\ lines \in Seq(Seq(Plain))  BY NeatIsPlain DEF Neat
<1>n. PICK n \in Nat : n = Len(lines) /\ (n = 0 <=> lines = <<>>)  BY <1>1, LenProperties, EmptySeq
<1>l. \A k \in 1..n : lines[k] \in Tidy /\ lines[k] \in Seq(Plain)  BY <1>1, <1>n, ElementOfSeq
<1>f. PICK f : /\ \A k \in 0..n : f[k] = JoinAt(f, lines, k) /\ f[k] \in Seq(Clean)
               /\ JoinLines(lines) = f[n]
  BY <1>1, <1>n, JoinDef
<1> DEFINE D == {k \in Nat : k <= n => Ended(f[k])}
<1>2. 0 \in D
  <2>1. 0 \in 0..n  OBVIOUS
  <2>2. f[0] = <<>>  BY <1>f, <2>1, Zenon DEF JoinAt
  <2>3. Ended(<<>>)  BY EmptySeq DEF Ended
  <2> QED  BY <2>2, <2>3
<1>3. ASSUME NEW j \in Nat, j \in D PROVE j + 1 \in D
  <2> SUFFICES ASSUME NEW k \in 1..n, k = j + 1 PROVE Ended(f[k])  OBVIOUS
  <2>1. CASE k = 1
    <3>1. 1 \in 0..n /\ 1 # 0 /\ 1 \in 1..n  BY <2>1
    <3>2. f[1] = lines[1]  BY <1>f, <3>1, Zenon DEF JoinAt
    <3> QED  BY <1>l, <2>1, <3>1, <3>2, TidyIsEnded
  <2>2. CASE k # 1
    <3>1. k \in 0..n /\ k - 1 \in 0..n /\ k # 0 /\ k - 1 = j /\ j <= n  OBVIOUS
    <3>2. PICK t \in Seq(Clean) : t = f[k - 1] /\ Ended(t)  BY <1>3, <1>f, <3>1
    <3>3. f[k] = t \o <<NL>> \o lines[k]  BY <1>f, <2>2, <3>1, <3>2, Zenon DEF JoinAt
    <3> QED  BY <1>l, <3>2, <3>3, JoinedIsEnded
  <2> QED  BY <2>1, <2>2
<1>4. n \in D
  <2> HIDE DEF D
  <2> QED  BY <1>2, <1>3, Induct
<1>5. n \in 0..n  OBVIOUS
<1>6. ASSUME f[n] # <<>> PROVE f[n][Len(f[n])] # NL
  <2>1. n # 0
    <3>1. n = 0 => f[n] = <<>>  BY <1>f, <1>5, Zenon DEF JoinAt
    <3> QED  BY <1>6, <3>1
  <2>2. PICK l \in Seq(Plain) : l = lines[n] /\ l # <<>>  BY <1>l, <1>n, <2>1 DEF Neat
  <2>3. Len(l) \in Nat \ {0} /\ l[Len(l)] \in Plain
    <3>1. Len(l) \in Nat \ {0}  BY <2>2, LenProperties, EmptySeq
    <3>2. Len(l) \in 1..Len(l)  BY <3>1
    <3> QED  BY <3>1, <3>2, ElementOfSeq
  <2>4. CASE n = 1
    <3>1. f[n] = l  BY <1>f, <1>5, <2>1, <2>2, <2>4, Zenon DEF JoinAt
    <3> QED  BY <2>3, <3>1 DEF Plain
  <2>5. CASE n # 1
    <3>1. PICK t \in Seq(Clean) : t = f[n - 1]
      <4>1. n - 1 \in 0..n  BY <2>1
      <4> QED  BY <1>f, <4>1
    <3>u. PICK u \in Seq(Clean) : u = Append(t, NL)  BY JoinedIsClean, <2>2
    <3>2. f[n] = u \o l
      <4>1. f[n] = t \o <<NL>> \o l  BY <1>f, <1>5, <2>1, <2>2, <2>5, <3>1, Zenon DEF JoinAt
      <4> QED  BY <3>u, <4>1, JoinedIsClean
    <3>3. Len(u) \in Nat /\ l \in Seq(Clean)  BY LenProperties, PlainIsClean
    <3>4. Len(u \o l) = Len(u) + Len(l) /\ (u \o l)[Len(u) + Len(l)] = l[Len(l)]
      <4>1. /\ Len(u \o l) = Len(u) + Len(l)
            /\ \A i \in 1..(Len(u) + Len(l)) : (u \o l)[i] = IF i <= Len(u) THEN u[i] ELSE l[i - Len(u)]
        BY <3>3, ConcatProperties
      <4>2. /\ Len(u) + Len(l) \in 1..(Len(u) + Len(l)) /\ ~(Len(u) + Len(l) <= Len(u))
            /\ (Len(u) + Len(l)) - Len(u) = Len(l)
        BY <2>3, <3>3
      <4> QED  BY <4>1, <4>2
    <3> QED  BY <2>3, <3>2, <3>4 DEF Plain
  <2> QED  BY <2>4, <2>5
<1> QED  BY <1>f, <1>4, <1>6

(* Spec 8.3, normalize.go:24-57: JSON text is clean, and normalizing it    *)
(* again changes nothing, whatever a pane has printed.                     *)
THEOREM NormalizedStays == MatchingSpec => []NormalizedIsClean
<1>1. ASSUME OutType PROVE NormalizedIsClean
  <2>0. out \in Seq(Byte)  BY <1>1 DEF OutType
  <2>1. PICK lines : Neat(lines) /\ Normalize(out) = JoinLines(lines)  BY <2>0, NormalizeIsNeat
  <2>2. PICK text \in Seq(Clean) : text = Normalize(out)  BY <2>1, NeatIsPlain, JoinType DEF Neat
  <2>3. Normalize(text) = text  BY <2>1, <2>2, NormalizeKeeps
  <2>4. Ended(text) /\ (text # <<>> => text[Len(text)] # NL)  BY <2>1, <2>2, JoinIsEnded
  <2>5. ASSUME NEW i \in DOMAIN text
        PROVE  /\ text[i] \notin {CR, ESC}
               /\ i = Len(text) \/ text[i + 1] = NL => text[i] \notin Blank
               /\ i = Len(text) => text[i] # NL
    <3>1. i \in 1..Len(text) /\ text # <<>>  BY LenProperties, EmptySeq
    <3>2. text[i] \in Clean
      <4> HIDE DEF Clean
      <4> QED  BY <3>1, ElementOfSeq
    <3> QED  BY <2>4, <3>1, <3>2 DEF Clean, Shown, Ended
  <2> QED  BY <2>2, <2>3, <2>5, Zenon DEF NormalizedIsClean
<1> QED  BY <1>1, OutTypeCorrect, PTL

=============================================================================
