-------------------------------- MODULE Text --------------------------------
(***************************************************************************)
(* internal/textnorm and the sentinel matcher of internal/waiter, as       *)
(* operators on sequences of bytes.  Bytes keep their numbers, because the *)
(* scanner's decisions are ranges of them.                                 *)
(***************************************************************************)
EXTENDS Integers, Sequences, SequencesExt

CONSTANTS Prefix,  \* what precedes the digits: "__DONE__:<token>:"
          MaxInt   \* the largest exit code strconv.Atoi parses

ASSUME TextAssumption == Prefix \in Seq(0..255) \ {<<>>} /\ MaxInt \in Nat

ESC == 27
BEL == 7
TAB == 9
NL == 10
CR == 13
SPACE == 32
ST == 92

CSI          == 91                \* [
OSC          == 93                \* ]
Strings      == {80, 88, 94, 95}  \* P, X, ^ and _
Parameter    == 48..63
Intermediate == 32..47
Final        == 64..126
Digit        == 48..57

(* The first position from j on whose byte is not in C. *)
Skip(s, j, C) == CHOOSE k \in j..(Len(s) + 1) :
    /\ k = Len(s) + 1 \/ s[k] \notin C
    /\ \A i \in j..(k - 1) : s[i] \in C

(* Behind one byte of C, if there is one at j. *)
SkipOne(s, j, C) == IF j <= Len(s) /\ s[j] \in C THEN j + 1 ELSE j

EndsHere(s, k, bel) == \/ bel /\ s[k] = BEL
                       \/ s[k] = ESC /\ k < Len(s) /\ s[k + 1] = ST

(* Behind the terminator of a string that has begun before j; the end of   *)
(* the input if there is none.                                             *)
StringEnd(s, j, bel) ==
    IF \E k \in j..Len(s) : EndsHere(s, k, bel)
    THEN LET k == CHOOSE k \in j..Len(s) :
                    EndsHere(s, k, bel) /\ \A i \in j..(k - 1) : ~EndsHere(s, i, bel)
         IN k + (IF s[k] = ESC THEN 2 ELSE 1)
    ELSE Len(s) + 1

(* A mutation of AfterCSI: a sequence that is cut short leaves its          *)
(* parameters in the text.                                                 *)
WrongCSI(s, j) ==
    LET k == Skip(s, Skip(s, j, Parameter), Intermediate) IN
    IF k > Len(s) THEN j ELSE SkipOne(s, k, Final)

AfterCSI(s, j) == SkipOne(s, Skip(s, Skip(s, j, Parameter), Intermediate), Final)

(* A mutation of AfterOSC: BEL does not end it, as with the other strings. *)
WrongOSC(s, j) == StringEnd(s, j, FALSE)

AfterOSC(s, j) == StringEnd(s, j, TRUE)

(* Where the text goes on behind the escape sequence that begins at i. *)
AfterEscape(s, i) ==
    IF i = Len(s) THEN i + 1
    ELSE IF s[i + 1] = CSI THEN AfterCSI(s, i + 2)
    ELSE IF s[i + 1] = OSC THEN AfterOSC(s, i + 2)
    ELSE IF s[i + 1] \in Strings THEN StringEnd(s, i + 2, FALSE)
    ELSE SkipOne(s, Skip(s, i + 1, Intermediate), Parameter \cup Final)

StripANSI(s) ==
    LET from[i \in 1..(Len(s) + 1)] ==
            IF i > Len(s) THEN <<>>
            ELSE IF s[i] = ESC THEN from[AfterEscape(s, i)]
            ELSE <<s[i]>> \o from[i + 1]
    IN from[1]

DropCR(s) ==
    LET kept[i \in 0..Len(s)] ==
            IF i = 0 THEN <<>> ELSE IF s[i] = CR THEN kept[i - 1] ELSE Append(kept[i - 1], s[i])
    IN kept[Len(s)]

StripANSIAndCR(s) == DropCR(StripANSI(s))

-----------------------------------------------------------------------------
(* strings.Split(s, "\n"), its inverse, and trimming at the right end. *)
Lines(s) ==
    LET cut[i \in 0..Len(s)] ==
            IF i = 0 THEN << <<>> >>
            ELSE IF s[i] = NL THEN Append(cut[i - 1], <<>>)
            ELSE [cut[i - 1] EXCEPT ![Len(cut[i - 1])] = Append(@, s[i])]
    IN cut[Len(s)]

JoinLines(lines) ==
    LET joined[k \in 0..Len(lines)] ==
            IF k = 0 THEN <<>>
            ELSE IF k = 1 THEN lines[1]
            ELSE joined[k - 1] \o <<NL>> \o lines[k]
    IN joined[Len(lines)]

TrimRight(s, C) == SubSeq(s, 1, SelectLastInSeq(s, LAMBDA e : e \notin C))

Blank == {SPACE, TAB}

(* A mutation of Normalize: the lines are trimmed before the carriage      *)
(* returns that end them are dropped.                                      *)
WrongNormalize(s) ==
    LET trimmed == [i \in DOMAIN Lines(StripANSI(s)) |-> TrimRight(Lines(StripANSI(s))[i], Blank)]
    IN DropCR(JoinLines(TrimRight(trimmed, {<<>>})))

Normalize(s) ==
    LET lines   == Lines(DropCR(StripANSI(s)))
        trimmed == [i \in DOMAIN lines |-> TrimRight(lines[i], Blank)]
    IN JoinLines(TrimRight(trimmed, {<<>>}))

-----------------------------------------------------------------------------
(* bytes.Index(buf[from:], Prefix), as a position of buf; 0 for none. *)
PrefixAt(buf, i) == /\ i + Len(Prefix) - 1 <= Len(buf)
                    /\ SubSeq(buf, i, i + Len(Prefix) - 1) = Prefix

Index(buf, from) ==
    SelectInSubSeq([i \in DOMAIN buf |-> PrefixAt(buf, i)], from, Len(buf), LAMBDA b : b)

Value(digits) == FoldLeft(LAMBDA n, d : 10 * n + d - 48, 0, digits)

(* A mutation of Parses: Atoi's error is ignored. *)
WrongParses(digits) == digits # <<>>

Parses(digits) == digits # <<>> /\ Value(digits) <= MaxInt

NoMatch == [at |-> 0, digits |-> <<>>, code |-> 0]

(* A mutation of Retry: the search goes on behind the prefix that failed. *)
WrongRetry(at) == at + Len(Prefix)

Retry(at) == at + 1

(* A match is its position, its digits and their value.  Digits that Atoi  *)
(* rejects, or no digits at all, send the search one byte further.         *)
MatchSentinel(buf) ==
    LET from[offset \in 1..(Len(buf) + Len(Prefix) + 1)] ==
            LET at     == Index(buf, offset)
                digits == SubSeq(buf, at + Len(Prefix),
                                 Skip(buf, at + Len(Prefix), Digit) - 1)
            IN IF at = 0 THEN NoMatch
               ELSE IF Parses(digits)
                    THEN [at |-> at, digits |-> digits, code |-> Value(digits)]
               ELSE from[Retry(at)]
    IN from[1]
=============================================================================
