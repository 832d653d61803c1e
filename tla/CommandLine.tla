---------------------------- MODULE CommandLine -----------------------------
(***************************************************************************)
(* internal/cli/app.go up to the request: from an argument vector to what  *)
(* the client sends, or to the reason why it sends nothing.  An argument   *)
(* is a record of its leading dashes, its name and, in the form            *)
(* --name=value, the value.  A word has no dashes, and a lone dash is one; *)
(* a third dash begins the name.                                           *)
(***************************************************************************)
EXTENDS Integers, Sequences, SequencesExt

CONSTANTS PaneId  \* the words that begin with %

None == "none"

Argument == [dashes : 0..2, name : STRING, value : STRING]
Word(text) == [dashes |-> 0, name |-> text, value |-> None]
Flag(name) == [dashes |-> 2, name |-> name, value |-> None]
Assign(name, value) == [dashes |-> 2, name |-> name, value |-> value]
End == Flag("")

Help == {"help", "h"}
Global == {"tmux-socket", "tmux-socket-name"}

IsHelp(arg) == \/ arg.dashes = 2 /\ arg.name \in Help
               \/ arg.dashes = 1 /\ arg.name = "h" /\ arg.value = None
IsVersion(arg) == arg.dashes = 2 /\ arg.name = "version"
IsGlobal(arg) == arg.dashes = 2 /\ arg.name \in Global

From(s, i) == SubSeq(s, i, Len(s))
Put(e, s) == <<e>> \o s

(* How many arguments a global flag at i takes along, itself included. *)
HoistGlobal(args, i) == IF args[i].value = None /\ i < Len(args) THEN 2 ELSE 1

(* extractGlobals: the leading global flags, and the rest of the line. *)
ExtractGlobals(args) ==
    LET scan[i \in 1..(Len(args) + 2)] ==
            IF i <= Len(args) /\ IsHelp(args[i]) THEN [scan[i + 1] EXCEPT !.help = TRUE]
            ELSE IF i <= Len(args) /\ IsVersion(args[i]) THEN [scan[i + 1] EXCEPT !.version = TRUE]
            ELSE IF i <= Len(args) /\ IsGlobal(args[i])
                 THEN LET next == i + HoistGlobal(args, i) IN
                      [scan[next] EXCEPT !.globals = SubSeq(args, i, next - 1) \o @]
            ELSE [globals |-> <<>>, help |-> FALSE, version |-> FALSE, rest |-> From(args, i)]
    IN scan[1]

(* A mutation of TakesNext: a boolean flag swallows what stands behind it. *)
WrongTakesNext(args, i, bools) == args[i].value = None /\ i < Len(args)

TakesNext(args, i, bools) ==
    args[i].value = None /\ args[i].name \notin bools /\ i < Len(args)

(* A mutation of Separate: nothing keeps words that begin with dashes from *)
(* being parsed.                                                           *)
WrongSeparate(parts) == parts.flags \o parts.words

Separate(parts) == parts.flags \o <<End>> \o parts.words

(* reorderArgs: the flags with their values first, then --, then the rest. *)
Partition(args, bools) ==
    LET part[i \in 1..(Len(args) + 1)] ==
            IF i > Len(args) THEN [flags |-> <<>>, words |-> <<>>]
            ELSE IF args[i] = End THEN [flags |-> <<>>, words |-> From(args, i + 1)]
            ELSE IF args[i].dashes = 2 /\ TakesNext(args, i, bools)
                 THEN [part[i + 2] EXCEPT !.flags = SubSeq(args, i, i + 1) \o @]
            ELSE IF args[i].dashes > 0 THEN [part[i + 1] EXCEPT !.flags = Put(args[i], @)]
            ELSE [part[i + 1] EXCEPT !.words = Put(args[i], @)]
    IN part[1]

ReorderArgs(args, bools) == Separate(Partition(args, bools))

(* strconv.ParseBool, for the value that a boolean flag is given with a =. *)
Yes == {"1", "t", "T", "TRUE", "true", "True"}
No  == {"0", "f", "F", "FALSE", "false", "False"}

Fits(value, bool) == bool => value \in Yes \cup No
ValueOf(value, bool) == Word(IF ~bool THEN value ELSE IF value \in Yes THEN "true" ELSE "false")

(* flag.FlagSet.Parse: it stops at the first word or behind a --.  fs maps *)
(* the flags it knows to whether they are boolean; the last value counts.  *)
FlagParse(fs, args) ==
    LET done(error, words) == [error |-> error, set |-> <<>>, words |-> words]
        also(parsed, name, arg) == [parsed EXCEPT !.set = Put([name |-> name, arg |-> arg], @)]
        parse[i \in 1..(Len(args) + 1)] ==
            IF i > Len(args) \/ args[i].dashes = 0 THEN done(None, From(args, i))
            ELSE IF args[i] = End THEN done(None, From(args, i + 1))
            ELSE IF args[i].name \in Help THEN done("help", <<>>)
            ELSE IF args[i].name \notin DOMAIN fs THEN done("usage", <<>>)
            ELSE IF args[i].value # None
                 THEN IF Fits(args[i].value, fs[args[i].name])
                      THEN also(parse[i + 1], args[i].name, ValueOf(args[i].value, fs[args[i].name]))
                      ELSE done("usage", <<>>)
            ELSE IF fs[args[i].name] THEN also(parse[i + 1], args[i].name, Word("true"))
            ELSE IF i = Len(args) THEN done("usage", <<>>)
            ELSE also(parse[i + 2], args[i].name, args[i + 1])
    IN parse[1]

(* The value of a flag, as a sequence that is empty if it was not given. *)
Option(parsed, name) ==
    LET last == SelectLastInSeq(parsed.set, LAMBDA s : s.name = name) IN
    IF last = 0 THEN <<>> ELSE <<parsed.set[last].arg>>

-----------------------------------------------------------------------------
(* The subcommands that send a request, their flags, and how many words    *)
(* they take.                                                              *)
Subcommand == {"list", "snapshot", "read", "text", "key", "wait"}

OwnFlags(sub) == CASE sub = "list"     -> {}
                   [] sub = "snapshot" -> {"pane", "history-lines"}
                   [] sub = "read"     -> {"pane", "after"}
                   [] sub = "text"     -> {"pane", "enter"}
                   [] sub = "key"      -> {"pane"}
                   [] sub = "wait"     -> {"pane", "after", "for", "timeout-ms", "token", "pattern", "ms"}

WordsFit(sub, n) == CASE sub = "text" -> n = 1
                      [] sub = "key"  -> n > 0
                      [] OTHER        -> n = 0

(* ResolveTmuxSocket: which tmux server is meant. *)
Server(parsed) ==
    LET path == Option(parsed, "tmux-socket")
        name == Option(parsed, "tmux-socket-name")
    IN IF path # <<>> THEN [by |-> "path", is |-> path]
       ELSE IF name # <<>> THEN [by |-> "name", is |-> name]
       ELSE [by |-> "environment", is |-> <<>>]

Refuse(verdict) == [verdict |-> verdict]

(* runList ... runWait, as far as client.Call. *)
Submit(sub, args) ==
    LET bools  == Help \cup (IF sub = "text" THEN {"enter"} ELSE {})
        fs     == [f \in OwnFlags(sub) \cup Global |-> f \in bools]
        parsed == FlagParse(fs, IF sub = "list" THEN args ELSE ReorderArgs(args, bools))
    IN IF parsed.error # None THEN Refuse(parsed.error)
       ELSE IF \/ ~WordsFit(sub, Len(parsed.words))
               \/ sub # "list" /\ \A p \in PaneId : Option(parsed, "pane") # <<Word(p)>>
               \/ \A g \in Global : Option(parsed, g) # <<>>
            THEN Refuse("invalid")
       ELSE [verdict |-> "call", op |-> sub, server |-> Server(parsed), words |-> parsed.words,
             options |-> [f \in OwnFlags(sub) |-> Option(parsed, f)]]

(* App.Run *)
Run(args) ==
    LET line == ExtractGlobals(args) IN
    IF line.version THEN Refuse("version")
    ELSE IF line.help THEN Refuse("help")
    ELSE IF line.rest = <<>> THEN Refuse("usage")
    ELSE IF line.rest[1] \in {Word("help"), Word("version")} THEN Refuse(line.rest[1].name)
    ELSE IF \E sub \in Subcommand : line.rest[1] = Word(sub)
         THEN Submit(line.rest[1].name, line.globals \o Tail(line.rest))
    ELSE Refuse("usage")
=============================================================================
