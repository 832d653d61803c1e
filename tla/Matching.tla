------------------------------ MODULE Matching ------------------------------
(***************************************************************************)
(* What happens to a pane's bytes on their way to an agent: the pane       *)
(* prints, byte by byte, and a sentinel wait that has its checkpoint at    *)
(* the beginning of out looks at what has arrived, at moments of the       *)
(* scheduler's choosing, until it matches.  A read may cut out anywhere.   *)
(***************************************************************************)
EXTENDS Text

CONSTANTS Programs  \* the byte sets that panes print, each with a bound on the length

ASSUME MatchingAssumption == Programs \subseteq [bytes : SUBSET (0..255), length : Nat]

VARIABLES program,  \* what this pane prints, [bytes, length]
          out,      \* the bytes retained behind the checkpoint
          answer    \* what the wait returned, NoMatch while it is pending

matchingVars == <<program, out, answer>>

MatchingInit == /\ program \in Programs
                /\ out = <<>>
                /\ answer = NoMatch

PrintByte == /\ Len(out) < program.length
             /\ \E b \in program.bytes : out' = Append(out, b)
             /\ UNCHANGED <<program, answer>>

MatchInput == StripANSIAndCR(out)

(* One evaluation of the wait loop in sentinel mode. *)
Evaluate == /\ answer = NoMatch
            /\ answer' = MatchSentinel(MatchInput)
            /\ answer' # NoMatch
            /\ UNCHANGED <<program, out>>

MatchingNext == PrintByte \/ Evaluate

MatchingSpec == MatchingInit /\ [][MatchingNext]_matchingVars

-----------------------------------------------------------------------------
(* The grammar of the comment at normalize.go:60-70 as a terminal reads    *)
(* it: one byte at a time, with no look ahead.  A byte that does not go on *)
(* with the sequence ends it, and is text unless it is another ESC.        *)
Ground(b) == IF b = ESC THEN "escape" ELSE "text"

Charset(b) == IF b \in Intermediate THEN "charset"
              ELSE IF b \in Parameter \cup Final THEN "ground" ELSE Ground(b)

Control(b) == IF b \in Intermediate THEN "intermediate"
              ELSE IF b \in Final THEN "ground" ELSE Ground(b)

NextMode(mode, b) ==
    CASE mode \in {"text", "ground"} -> Ground(b)
      [] mode = "escape" -> CASE b = CSI -> "parameter"
                              [] b = OSC -> "title"
                              [] b \in Strings -> "string"
                              [] OTHER -> Charset(b)
      [] mode = "charset" -> Charset(b)
      [] mode = "parameter" -> IF b \in Parameter THEN "parameter" ELSE Control(b)
      [] mode = "intermediate" -> Control(b)
      [] mode \in {"title", "title-esc"} ->
            IF b = BEL \/ (mode = "title-esc" /\ b = ST) THEN "ground"
            ELSE IF b = ESC THEN "title-esc" ELSE "title"
      [] mode \in {"string", "string-esc"} ->
            IF mode = "string-esc" /\ b = ST THEN "ground"
            ELSE IF b = ESC THEN "string-esc" ELSE "string"

(* "text" is the mode behind a byte that was text, "ground" behind a       *)
(* sequence that is complete.                                              *)
Display(s) ==
    LET read[i \in 0..Len(s)] ==
            IF i = 0 THEN [mode |-> "ground", text |-> <<>>]
            ELSE LET mode == NextMode(read[i - 1].mode, s[i]) IN
                 [mode |-> mode,
                  text |-> IF mode = "text" THEN Append(read[i - 1].text, s[i]) ELSE read[i - 1].text]
    IN read[Len(s)]

(* The index-juggling scanner of normalize.go:71-141 strips exactly what   *)
(* the terminal's reading of its grammar would not show: sequences that    *)
(* are cut short, abandoned, nested or terminated in either way included.  *)
ScannerReadsLikeATerminal == StripANSI(out) = Display(out).text

(* Text may be read in pieces (spec 9.3: "incremental log tail").  Where   *)
(* the cut is not inside an escape sequence, the texts of two reads        *)
(* (controller/read.go:44) differ from the text of one only by the blanks  *)
(* and newlines that Normalize trims at the end of the first; and they do  *)
(* not differ when it ends in anything else.                               *)
White == {SPACE, TAB, NL}

Solid(s) == SelectSeq(s, LAMBDA b : b \notin White)

EndsSolid(s) == s = <<>> \/ Last(s) \notin White

CutComposes(one, two) ==
    /\ Solid(Normalize(one)) \o Solid(Normalize(two)) = Solid(Normalize(one \o two))
    /\ EndsSolid(StripANSIAndCR(one)) => Normalize(one) \o Normalize(two) = Normalize(one \o two)

ReadsCompose ==
    \A k \in 0..Len(out) : Display(SubSeq(out, 1, k)).mode \in {"text", "ground"} =>
        CutComposes(SubSeq(out, 1, k), SubSeq(out, k + 1, Len(out)))

(* The JSON text is clean and stays as it is when it is normalized again   *)
(* (spec 8.3, 17.25): no carriage return, no blank at the end of a line,   *)
(* no blank line at the end.                                               *)
NormalizedIsClean ==
    LET text == Normalize(out) IN
    /\ Normalize(text) = text
    /\ \A i \in DOMAIN text :
          /\ text[i] \notin {CR, ESC}
          /\ i = Len(text) \/ text[i + 1] = NL => text[i] \notin Blank
          /\ i = Len(text) => text[i] # NL

(* A sentinel (spec 9.6), by position and length: the prefix and all       *)
(* digits behind it; and one whose exit code fits into Go's int.           *)
CodeAt(buf, i, n) == Value(SubSeq(buf, i + Len(Prefix), i + Len(Prefix) + n - 1))

SentinelAt(buf, i, n) ==
    /\ i + Len(Prefix) + n - 1 <= Len(buf) /\ n > 0
    /\ PrefixAt(buf, i)
    /\ \A k \in 0..(n - 1) : buf[i + Len(Prefix) + k] \in Digit
    /\ i + Len(Prefix) + n \in DOMAIN buf => buf[i + Len(Prefix) + n] \notin Digit

FittingAt(buf, i, n) == SentinelAt(buf, i, n) /\ CodeAt(buf, i, n) <= MaxInt

(* The matcher's loop finds the first sentinel whose exit code fits and    *)
(* nothing but such a sentinel (sentinel.go:25-28, 52-61), also where a    *)
(* candidate fails for want of digits or by overflow and overlaps the next *)
(* one.  That it passes over the others is not what spec 9.6 says:         *)
(* EverySentinelIsAnswered.                                                *)
FirstSentinelIsFound ==
    LET match  == MatchSentinel(MatchInput)
        starts == {i \in DOMAIN MatchInput : \E n \in DOMAIN MatchInput : FittingAt(MatchInput, i, n)}
    IN IF starts = {} THEN match = NoMatch
       ELSE /\ match.at \in starts /\ \A i \in starts : match.at <= i
            /\ FittingAt(MatchInput, match.at, Len(match.digits))

(* Spec 9.6: the exit code "matches `[0-9]+`", and "v1 does not enforce an *)
(* upper bound on `exit_code` at the matcher level": an output with a      *)
(* sentinel in it is a match, however large its code.                      *)
EverySentinelIsAnswered ==
    (\E i, n \in DOMAIN MatchInput : SentinelAt(MatchInput, i, n)) => MatchSentinel(MatchInput) # NoMatch

(* What a wait has matched was really printed, whatever part of an escape  *)
(* sequence or of a line ending it looked at: more output never moves or   *)
(* takes back the literal it returned (wait.go:147-159).                   *)
AnswerStaysInTheOutput ==
    answer # NoMatch =>
        /\ PrefixAt(MatchInput, answer.at)
        /\ IsPrefix(answer.digits,
                    SubSeq(MatchInput, answer.at + Len(Prefix), Len(MatchInput)))

(* Spec 9.6: "the response includes the full matched sentinel and the      *)
(* parsed exit_code": the digits of the answer are all there are once      *)
(* something else has been printed behind them.                            *)
ExitCodeIsWhole ==
    answer # NoMatch /\ answer.at + Len(Prefix) + Len(answer.digits) \in DOMAIN MatchInput =>
        MatchInput[answer.at + Len(Prefix) + Len(answer.digits)] \notin Digit
=============================================================================
