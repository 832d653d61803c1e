--------------------------- MODULE DataInduction ----------------------------
(***************************************************************************)
(* Induction over data, for the proofs about recursive functions.  What    *)
(* holds of every number is a set that holds 0 and with each number the    *)
(* next one; such a set is given for the existence of a function that      *)
(* satisfies its recursive definition, and for what the function computes. *)
(* FlattenSeq of the community modules, by which the models join chunks    *)
(* and units, is the first of them.                                        *)
(***************************************************************************)
EXTENDS Integers, Sequences, SequencesExt, SequenceTheorems, WellFoundedInduction, TLAPS

LEMMA NatIsWellFounded == IsWellFoundedOn({r \in Nat \X Nat : r[1] < r[2]}, Nat)
  BY NatLessThanWellFounded DEF OpToRel

(* Induction, for the set of the numbers that something holds of. *)
LEMMA Induct ==
  ASSUME NEW S, 0 \in S, \A n \in Nat : n \in S => n + 1 \in S
  PROVE Nat \subseteq S
  <1> DEFINE T == Nat \ S
             R == {r \in Nat \X Nat : r[1] < r[2]}
  <1>1. SUFFICES ASSUME T # {} PROVE FALSE  OBVIOUS
  <1>2. IsWellFoundedOn(R, Nat) /\ T \subseteq Nat  BY NatIsWellFounded
  <1>3. PICK x \in T : \A y \in T : ~(<<y, x>> \in R)
    <2> HIDE DEF T, R
    <2> QED BY <1>1, <1>2, WFMin
  <1>4. x # 0 /\ x - 1 \in Nat  BY <1>3
  <1>5. <<x-1, x>> \in R  BY <1>4
  <1>6. x - 1 \notin T  BY <1>3, <1>5
  <1> QED BY <1>3, <1>4, <1>6

(* Every set of numbers has a least one. *)
LEMMA Least ==
  ASSUME NEW T, T \subseteq Nat, T # {}
  PROVE \E x \in T : \A y \in T : x <= y
  <1> DEFINE R == {r \in Nat \X Nat : r[1] < r[2]}
  <1>1. IsWellFoundedOn(R, Nat)  BY NatIsWellFounded
  <1>2. PICK x \in T : \A y \in T : ~(<<y, x>> \in R)
    <2> HIDE DEF R
    <2> QED BY <1>1, WFMin
  <1>3. ASSUME NEW y \in T PROVE x <= y
    <2>1. x \in Nat /\ y \in Nat /\ ~(<<y, x>> \in R)  BY <1>2
    <2>2. ~(y < x)  BY <2>1
    <2> QED BY <2>1, <2>2
  <1> QED BY <1>3

(* and a bounded one has a greatest. *)
LEMMA Greatest ==
  ASSUME NEW n \in Nat, NEW T, T \subseteq 1..n, T # {}
  PROVE \E x \in T : \A y \in T : x >= y
  <1> DEFINE R == {d \in Nat : n - d \in T}
  <1>1. R # {} /\ R \subseteq Nat
    <2>1. PICK x \in T : x \in 1..n  OBVIOUS
    <2>2. n - (n - x) = x /\ n - x \in Nat  BY <2>1
    <2>3. n - x \in R  BY <2>1, <2>2
    <2> QED BY <2>3
  <1>2. PICK d \in R : \A e \in R : d <= e
    <2> HIDE DEF R
    <2> QED BY <1>1, Least
  <1>3. ASSUME NEW y \in T PROVE n - d >= y
    <2>1. y \in 1..n /\ n - (n - y) = y /\ n - y \in Nat  OBVIOUS
    <2>2. n - y \in R  BY <2>1
    <2>3. d <= n - y  BY <1>2, <2>2
    <2> QED BY <2>1, <2>3
  <1>4. n - d \in T  OBVIOUS
  <1> QED BY <1>3, <1>4

(* A function of the first numbers may be defined by recursion. *)
Recurs(f, n, base, G) == f[0] = base /\ \A i \in 1..n : f[i] = G[<<i, f[i - 1]>>]

LEMMA Recursion ==
  ASSUME NEW V, NEW base \in V, NEW n \in Nat, NEW G \in [(1..n) \X V -> V]
  PROVE \E f \in [0..n -> V] : Recurs(f, n, base, G)
  <1> DEFINE Defined(f, k) == f[0] = base /\ \A i \in 1..k : f[i] = G[<<i, f[i - 1]>>]
             D == {k \in Nat : k <= n => \E f \in [0..k -> V] : Defined(f, k)}
  <1>1. 0 \in D
    <2>1. [i \in 0..0 |-> base] \in [0..0 -> V] /\ Defined([i \in 0..0 |-> base], 0)  OBVIOUS
    <2> HIDE DEF Defined
    <2> QED BY <2>1
  <1>2. ASSUME NEW k \in Nat, k \in D PROVE k + 1 \in D
    <2> SUFFICES ASSUME k + 1 <= n PROVE \E f \in [0..(k + 1) -> V] : Defined(f, k + 1)
      OBVIOUS
    <2>1. PICK f \in [0..k -> V] : Defined(f, k)  BY <1>2
    <2> DEFINE v == G[<<k + 1, f[k]>>]
               g == [i \in 0..(k + 1) |-> IF i = k + 1 THEN v ELSE f[i]]
    <2>2. v \in V
      <3>1. <<k + 1, f[k]>> \in (1..n) \X V  OBVIOUS
      <3> QED BY <3>1
    <2>3. ASSUME NEW i \in 0..(k + 1) PROVE g[i] = (IF i = k + 1 THEN v ELSE f[i]) /\ g[i] \in V
      BY <2>2
    <2>4. g \in [0..(k + 1) -> V]  BY <2>3
    <2>5. g[0] = base  BY <2>1, <2>3
    <2>6. ASSUME NEW i \in 1..(k + 1) PROVE g[i] = G[<<i, g[i - 1]>>]
      <3>1. g[i - 1] = f[i - 1]  BY <2>3
      <3>2. CASE i = k + 1
        <4>1. g[i] = v /\ i - 1 = k  BY <3>2, <2>3
        <4> HIDE DEF g
        <4> QED BY <3>1, <3>2, <4>1
      <3>3. CASE i # k + 1
        <4>1. i \in 1..k /\ g[i] = f[i]  BY <3>3, <2>3
        <4>2. f[i] = G[<<i, f[i - 1]>>]  BY <2>1, <4>1
        <4> HIDE DEF g
        <4> QED BY <3>1, <4>1, <4>2
      <3> QED BY <3>2, <3>3
    <2>7. Defined(g, k + 1)
      <3> HIDE DEF g
      <3> QED BY <2>5, <2>6
    <2> HIDE DEF g, Defined
    <2> QED BY <2>4, <2>7
  <1>3. n \in D
    <2> HIDE DEF D
    <2> QED BY <1>1, <1>2, Induct
  <1> QED BY <1>3 DEF Recurs

(* f[i] joins the first i sequences. *)
Flattens(f, seqs, n) ==
    \A i \in 1..n : f[i] = IF i = 1 THEN seqs[i] ELSE f[i - 1] \o seqs[i]

(* and only one. *)
LEMMA FlattenUnique ==
  ASSUME NEW S, NEW seqs \in Seq(Seq(S)), NEW f, NEW g,
         Flattens(f, seqs, Len(seqs)), Flattens(g, seqs, Len(seqs))
  PROVE  \A i \in 1..Len(seqs) : f[i] \in Seq(S) /\ g[i] = f[i]
  <1>n. PICK n \in Nat : n = Len(seqs)
    BY LenProperties
  <1> DEFINE D == {k \in Nat : k \in 1..n => f[k] \in Seq(S) /\ g[k] = f[k]}
  <1>1. 0 \in D  OBVIOUS
  <1>2. ASSUME NEW k \in Nat, k \in D PROVE k + 1 \in D
    <2> SUFFICES ASSUME k + 1 \in 1..n PROVE f[k + 1] \in Seq(S) /\ g[k + 1] = f[k + 1]
      OBVIOUS
    <2>1. seqs[k + 1] \in Seq(S)
      BY <1>n, ElementOfSeq
    <2>2. CASE k = 0
      <3>0. 1 \in 1..n
        BY <2>2
      <3>1. f[1] = seqs[1] /\ g[1] = seqs[1]
        BY <1>n, <3>0 DEF Flattens
      <3> QED BY <2>1, <2>2, <3>1
    <2>3. CASE k # 0
      <3>1. k \in 1..n /\ k + 1 # 1 /\ (k + 1) - 1 = k
        BY <2>3
      <3>2. f[k] \in Seq(S) /\ g[k] = f[k]
        BY <1>2, <3>1
      <3>3. f[k + 1] = f[k] \o seqs[k + 1] /\ g[k + 1] = g[k] \o seqs[k + 1]
        BY <1>n, <3>1 DEF Flattens
      <3> QED BY <2>1, <3>2, <3>3, ConcatProperties
    <2> QED BY <2>2, <2>3
  <1>3. Nat \subseteq D
    <2> HIDE DEF D
    <2> QED BY <1>1, <1>2, Induct
  <1> QED BY <1>3, <1>n

(* There is one, *)
LEMMA FlattenExists ==
  ASSUME NEW S
  PROVE \A n \in Nat : \A seqs \in [1..n -> Seq(S)] : \E f \in [1..n -> Seq(S)] : Flattens(f, seqs, n)
  <1> DEFINE D == {n \in Nat : \A seqs \in [1..n -> Seq(S)] : \E f \in [1..n -> Seq(S)] : Flattens(f, seqs, n)}
  <1>1. 0 \in D
    <2>1. ASSUME NEW seqs \in [1..0 -> Seq(S)] PROVE Flattens(seqs, seqs, 0)
      BY DEF Flattens
    <2> QED BY <2>1
  <1>2. ASSUME NEW n \in Nat, n \in D PROVE n + 1 \in D
    <2> SUFFICES ASSUME NEW seqs \in [1..(n+1) -> Seq(S)]
                 PROVE \E f \in [1..(n+1) -> Seq(S)] : Flattens(f, seqs, n+1)
      OBVIOUS
    <2> DEFINE init == [i \in 1..n |-> seqs[i]]
    <2>1. init \in [1..n -> Seq(S)]  OBVIOUS
    <2>2. PICK f \in [1..n -> Seq(S)] : Flattens(f, init, n)
      BY <1>2, <2>1
    <2> DEFINE g == [i \in 1..(n+1) |-> IF i <= n THEN f[i]
                       ELSE IF n = 0 THEN seqs[i] ELSE f[n] \o seqs[i]]
    <2>3. ASSUME NEW i \in 1..(n+1) PROVE g[i] \in Seq(S)
      <3>1. CASE i <= n BY <3>1
      <3>2. CASE n = 0 BY <3>2
      <3>3. CASE ~(i <= n) /\ n # 0
        <4>1. f[n] \in Seq(S) /\ seqs[i] \in Seq(S) BY <3>3
        <4>2. f[n] \o seqs[i] \in Seq(S) BY <4>1, ConcatProperties
        <4> QED BY <3>3, <4>2
      <3> QED BY <3>1, <3>2, <3>3
    <2>4. g \in [1..(n+1) -> Seq(S)]  BY <2>3
    <2>5. ASSUME NEW i \in 1..(n+1) PROVE g[i] = IF i = 1 THEN seqs[i] ELSE g[i - 1] \o seqs[i]
      <3>1. CASE i <= n
        <4>1. i \in 1..n /\ g[i] = f[i] /\ init[i] = seqs[i]
          BY <3>1
        <4>2. i # 1 => i - 1 \in 1..(n+1) /\ i - 1 <= n /\ g[i - 1] = f[i - 1]
          BY <3>1
        <4>3. f[i] = IF i = 1 THEN init[i] ELSE f[i - 1] \o init[i]
          BY <2>2, <4>1 DEF Flattens
        <4> HIDE DEF g, init
        <4> QED BY <4>1, <4>2, <4>3
      <3>2. CASE ~(i <= n) /\ n = 0
        BY <3>2
      <3>3. CASE ~(i <= n) /\ n # 0
        <4>1. i = n + 1 /\ i - 1 = n /\ i # 1 /\ i - 1 \in 1..(n+1) BY <3>3
        <4>2. g[i-1] = f[n] /\ g[i] = f[n] \o seqs[i] BY <4>1, <3>3
        <4> QED BY <4>1, <4>2
      <3> QED BY <3>1, <3>2, <3>3
    <2> WITNESS g \in [1..(n+1) -> Seq(S)]
    <2> QED BY <2>5 DEF Flattens
  <1>3. Nat \subseteq D
    <2> HIDE DEF D
    <2> QED BY <1>1, <1>2, Induct
  <1> QED BY <1>3

(* FlattenSeq is such a function's last value. *)
LEMMA FlattenDef ==
  ASSUME NEW S, NEW seqs \in Seq(Seq(S)), seqs # <<>>
  PROVE \E f : Flattens(f, seqs, Len(seqs)) /\ FlattenSeq(seqs) = f[Len(seqs)]
  <1> DEFINE n == Len(seqs)
             F(g) == [i \in 1..n |-> IF i = 1 THEN seqs[i] ELSE g[i-1] \o seqs[i]]
             flat == CHOOSE g : g = F(g)
  <1>1. n \in Nat /\ n # 0 /\ seqs \in [1..n -> Seq(S)]
    BY EmptySeq, LenProperties
  <1>2. PICK f \in [1..n -> Seq(S)] : Flattens(f, seqs, n)
    <2> HIDE DEF n
    <2> QED BY <1>1, FlattenExists
  <1>3. f = F(f)
    BY <1>2 DEF Flattens
  <1>4. flat = F(flat)
    BY <1>3
  <1>5. FlattenSeq(seqs) = flat[n]
    BY <1>1 DEF FlattenSeq
  <1>6. Flattens(flat, seqs, n)
    <2> HIDE DEF flat
    <2> QED BY <1>4 DEF Flattens
  <1> QED BY <1>5, <1>6

(* Joining is defined, and nothing joins to nothing. *)
LEMMA FlattenType ==
  ASSUME NEW S, NEW seqs \in Seq(Seq(S))
  PROVE FlattenSeq(seqs) \in Seq(S) /\ FlattenSeq(<<>>) = <<>>
  <1>1. FlattenSeq(<<>>) = <<>> /\ <<>> \in Seq(S)
    BY EmptySeq DEF FlattenSeq
  <1>2. CASE seqs # <<>>
    <2>1. PICK f : Flattens(f, seqs, Len(seqs)) /\ FlattenSeq(seqs) = f[Len(seqs)]
      BY <1>2, FlattenDef
    <2>2. Len(seqs) \in 1..Len(seqs)
      BY <1>2, EmptySeq
    <2>3. \A i \in 1..Len(seqs) : f[i] \in Seq(S) /\ f[i] = f[i]
      BY <2>1, FlattenUnique
    <2> QED BY <1>1, <2>1, <2>2, <2>3
  <1> QED BY <1>1, <1>2

(* A sequence joins at the end, *)
LEMMA FlattenAppend ==
  ASSUME NEW S, NEW seqs \in Seq(Seq(S)), NEW s \in Seq(S)
  PROVE FlattenSeq(Append(seqs, s)) = FlattenSeq(seqs) \o s
  <1>n. PICK n \in Nat : n = Len(seqs)
    BY LenProperties
  <1>m. PICK more \in Seq(Seq(S)) : more = Append(seqs, s)
    BY AppendProperties
  <1>1. /\ more # <<>> /\ Len(more) = n + 1 /\ more[n + 1] = s
        /\ \A i \in 1..n : more[i] = seqs[i]
    BY <1>n, <1>m, AppendProperties, LenProperties
  <1>2. PICK g : Flattens(g, more, n + 1) /\ FlattenSeq(more) = g[n + 1]
    BY <1>1, FlattenDef
  <1>3. CASE seqs = <<>>
    <2>1. n = 0 /\ FlattenSeq(seqs) = <<>>
      BY <1>3, <1>n, FlattenType
    <2>2. g[1] = s
      BY <1>1, <1>2, <2>1 DEF Flattens
    <2> QED BY <1>2, <1>m, <2>1, <2>2, ConcatEmptySeq
  <1>4. CASE seqs # <<>>
    <2>1. n \in 1..n
      BY <1>4, <1>n, EmptySeq
    <2>2. PICK f : Flattens(f, seqs, n) /\ FlattenSeq(seqs) = f[n]
      BY <1>4, <1>n, FlattenDef
    <2>3. Flattens(g, seqs, n)
      <3>1. ASSUME NEW i \in 1..n PROVE g[i] = IF i = 1 THEN more[i] ELSE g[i - 1] \o more[i]
        BY <1>2 DEF Flattens
      <3>2. ASSUME NEW i \in 1..n PROVE more[i] = seqs[i]
        BY <1>1
      <3> QED BY <3>1, <3>2 DEF Flattens
    <2>4. g[n] = f[n]
      BY <1>n, <2>1, <2>2, <2>3, FlattenUnique
    <2>5. g[n + 1] = g[n] \o s
      <3>1. n + 1 \in 1..(n + 1) /\ n + 1 # 1 /\ (n + 1) - 1 = n
        BY <2>1
      <3>2. g[n + 1] = IF n + 1 = 1 THEN more[n + 1] ELSE g[(n + 1) - 1] \o more[n + 1]
        BY <1>2, <3>1 DEF Flattens
      <3> QED BY <1>1, <3>1, <3>2
    <2> QED BY <1>2, <1>m, <2>2, <2>4, <2>5
  <1> QED BY <1>3, <1>4

(* and leaves at the head. *)
LEMMA FlattenTail ==
  ASSUME NEW S, NEW seqs \in Seq(Seq(S)), seqs # <<>>
  PROVE FlattenSeq(seqs) = Head(seqs) \o FlattenSeq(Tail(seqs))
  <1>n. PICK n \in Nat : n = Len(seqs)
    BY LenProperties
  <1>a. \A x, y, z \in Seq(S) : (x \o y) \o z = x \o (y \o z)
    BY ConcatAssociative
  <1>t. PICK rest \in Seq(Seq(S)) : rest = Tail(seqs)
    BY HeadTailProperties
  <1>h. PICK h \in Seq(S) : h = Head(seqs)
    BY HeadTailProperties
  <1>1. n # 0 /\ Len(rest) = n - 1 /\ h = seqs[1] /\ \A i \in 1..(n - 1) : rest[i] = seqs[i + 1]
    BY <1>n, <1>t, <1>h, HeadTailProperties, EmptySeq
  <1>2. PICK f : Flattens(f, seqs, n) /\ FlattenSeq(seqs) = f[n]
    BY <1>n, FlattenDef
  <1>3. f[1] = h
    BY <1>1, <1>2 DEF Flattens
  <1>4. CASE rest = <<>>
    <2>1. n = 1 /\ FlattenSeq(rest) = <<>>
      BY <1>1, <1>4, FlattenType
    <2> QED BY <1>2, <1>3, <1>t, <1>h, <2>1, ConcatEmptySeq
  <1>5. CASE rest # <<>>
    <2>0. n - 1 \in Nat /\ n - 1 \in 1..(n - 1) /\ (n - 1) + 1 = n
      BY <1>1, <1>5, EmptySeq
    <2>1. PICK g : Flattens(g, rest, n - 1) /\ FlattenSeq(rest) = g[n - 1]
      BY <1>1, <1>5, FlattenDef
    <2> DEFINE D == {k \in Nat : k \in 1..(n - 1) => g[k] \in Seq(S) /\ f[k + 1] = h \o g[k]}
    <2>2. 0 \in D
      OBVIOUS
    <2>3. ASSUME NEW k \in Nat, k \in D PROVE k + 1 \in D
      <3>j. PICK j \in Nat : j = k + 1
        OBVIOUS
      <3> SUFFICES ASSUME j \in 1..(n - 1) PROVE g[j] \in Seq(S) /\ f[j + 1] = h \o g[j]
        BY <3>j
      <3>1. /\ j + 1 \in 1..n /\ j + 1 # 1 /\ (j + 1) - 1 = j /\ j - 1 = k
            /\ rest[j] = seqs[j + 1] /\ rest[j] \in Seq(S)
        BY <1>1, <3>j, ElementOfSeq
      <3>2. f[j + 1] = f[j] \o rest[j]
        <4>1. f[j + 1] = IF j + 1 = 1 THEN seqs[j + 1] ELSE f[(j + 1) - 1] \o seqs[j + 1]
          BY <1>2, <3>1 DEF Flattens
        <4> QED BY <3>1, <4>1
      <3>3. g[j] = IF j = 1 THEN rest[j] ELSE g[k] \o rest[j]
        <4>1. g[j] = IF j = 1 THEN rest[j] ELSE g[j - 1] \o rest[j]
          BY <2>1 DEF Flattens
        <4> QED BY <3>1, <4>1
      <3>4. CASE j = 1
        BY <1>3, <3>1, <3>2, <3>3, <3>4
      <3>5. CASE j # 1
        <4>1. g[k] \in Seq(S) /\ f[j] = h \o g[k]
          BY <2>3, <3>j, <3>5
        <4>2. g[k] \o rest[j] \in Seq(S)
          BY <4>1, <3>1, ConcatProperties
        <4>3. (h \o g[k]) \o rest[j] = h \o (g[k] \o rest[j])
          <5> HIDE DEF D
          <5> QED BY <1>a, <4>1, <3>1
        <4> QED BY <3>2, <3>3, <3>5, <4>1, <4>2, <4>3
      <3> QED BY <3>4, <3>5
    <2>4. Nat \subseteq D
      <3> HIDE DEF D
      <3> QED BY <2>2, <2>3, Induct
    <2>5. f[(n - 1) + 1] = h \o g[n - 1]
      <3>1. n - 1 \in D
        <4> HIDE DEF D
        <4> QED BY <2>0, <2>4
      <3> QED BY <2>0, <3>1
    <2> HIDE DEF D
    <2> QED BY <1>2, <1>t, <1>h, <2>0, <2>1, <2>5
  <1> QED BY <1>4, <1>5
=============================================================================
