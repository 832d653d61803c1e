------------------------------ MODULE Requests ------------------------------
(***************************************************************************)
(* One request after the other's way through the program: a CLI invocation *)
(* parses its command line, dials the daemon, writes its request and waits *)
(* for the answer until its deadline; the daemon's accept loop gives each  *)
(* connection to a goroutine of its own, which runs the command against    *)
(* tmux; the daemon is stopped or killed at any moment, or gives up by     *)
(* itself when it cannot accept.                                           *)
(*                                                                         *)
(* A client is one invocation.  tmux takes a command, types it into the    *)
(* pane and acknowledges it, as late as it likes.                          *)
(***************************************************************************)
EXTENDS CommandLine

CONSTANTS Client,
          World,         \* the machines an instance looks at,
          PromptWorld,   \*   those of them that do what they can at once,
          LinesIn(_, _), \*   and the command lines an invocation may have on them
          CallCap,       \* the deadline of every call but wait
          WaitTimeout,   \* --timeout-ms of every wait
          Grace,         \* what a wait's client adds to it
          HardExitTime,  \* hardExitDeadline
          MaxTime        \* bound: no invocation starts later

ASSUME RequestsAssumption ==
    /\ {CallCap, WaitTimeout, Grace, HardExitTime} \subseteq Nat \ {0}
    /\ PromptWorld \subseteq World
    /\ \A w \in World, c \in Client : LinesIn(w, c) \subseteq Seq(Seq(Argument))
    /\ MaxTime \in Nat

VARIABLES world,   \* the machine
          cli,     \* the invocations
          conn,    \* their connections, with the goroutines that serve them
          daemon,  \* the daemon's main goroutine
          typed,   \* what has arrived at the pane, by client
          alive,   \* the pane exists
          now

requestsVars == <<world, cli, conn, daemon, typed, alive, now>>

CliPC == {"start", "dial", "write", "await", "frozen", "done"}

(* "backlog": not accepted yet; "typing" and "typed": a tmux command before *)
(* and after tmux has carried it out; "answered": the response is written  *)
(* and the connection closed; "cut": closed without a response.            *)
ConnPC == {"none", "backlog", "reading", "query", "typing", "typed", "waiting", "answered", "cut"}

(* In the accept loop, in acceptW.Wait, in stopWithDeadline after the one  *)
(* return of Serve or the other, and ended.                                *)
DaemonPC == {"serving", "draining", "teardown", "failed", "gone"}

NoRequest == [verdict |-> "none"]

IdleConn == [pc |-> "none", sent |-> FALSE, keys |-> <<>>, until |-> 0,
             code |-> "none"]

RequestsInit ==
    /\ world \in World
    /\ cli = [c \in Client |-> [pc |-> "start", line |-> <<>>, req |-> NoRequest,
                                deadline |-> 0, result |-> "none"]]
    /\ conn = [c \in Client |-> IdleConn]
    /\ daemon = [pc |-> "serving", open |-> TRUE, asked |-> FALSE, exitAt |-> 0, end |-> "none"]
    /\ typed = [c \in Client |-> <<>>]
    /\ alive = TRUE
    /\ now = 0

Prompt == world \in PromptWorld

CliAt(c, pc) == cli[c].pc = pc
ConnAt(c, pc) == conn[c].pc = pc

Finish(c, result) ==
    cli' = [cli EXCEPT ![c].pc = "done", ![c].result = result, ![c].deadline = 0]

-----------------------------------------------------------------------------
(* The invocation. *)
Words(line) == FlattenSeq(line)

Invoke(c) == \E line \in LinesIn(world, c) :
    LET req == Run(Words(line)) IN
    /\ CliAt(c, "start") /\ now <= MaxTime
    /\ cli' = [cli EXCEPT ![c].line = line,
                          ![c].pc = IF req.verdict = "call" THEN "dial" ELSE "done",
                          ![c].req = req,
                          ![c].result = IF req.verdict = "call" THEN "none" ELSE req.verdict]
    /\ UNCHANGED <<world, conn, daemon, typed, alive, now>>

(* A mutation of Deadline: the client gives a wait its timeout alone. *)
WrongDeadline(op) == now + (IF op = "wait" THEN WaitTimeout ELSE CallCap)

Deadline(op) == now + (IF op = "wait" THEN WaitTimeout + Grace ELSE CallCap)

Listening == daemon.open

Dial(c) ==
    /\ CliAt(c, "dial")
    /\ IF Listening
       THEN /\ cli' = [cli EXCEPT ![c].pc = "write", ![c].line = <<>>,
                                  ![c].deadline = Deadline(cli[c].req.op)]
            /\ conn' = [conn EXCEPT ![c].pc = "backlog"]
       ELSE Finish(c, "runtime") /\ UNCHANGED conn
    /\ UNCHANGED <<world, daemon, typed, alive, now>>

WriteRequest(c) ==
    /\ CliAt(c, "write")
    /\ cli' = [cli EXCEPT ![c].pc = "await"]
    /\ conn' = [conn EXCEPT ![c].sent = TRUE]
    /\ UNCHANGED <<world, daemon, typed, alive, now>>

(* The answer, or the end of the connection without one. *)
Receive(c) ==
    /\ CliAt(c, "await")
    /\ \/ ConnAt(c, "answered") /\ Finish(c, conn[c].code)
       \/ ConnAt(c, "cut") /\ Finish(c, "cut")
    /\ UNCHANGED <<world, conn, daemon, typed, alive, now>>

(* A mutation of GiveUp: the connection has no deadline. *)
WrongGiveUp(c) == FALSE

GiveUp(c) ==
    /\ cli[c].pc \in {"write", "await"} /\ now >= cli[c].deadline
    /\ Finish(c, "deadline")
    /\ UNCHANGED <<world, conn, daemon, typed, alive, now>>

(* A client that is suspended between connect and write. *)
Freeze(c) ==
    /\ CliAt(c, "write") /\ ~Prompt
    /\ cli' = [cli EXCEPT ![c].pc = "frozen"]
    /\ UNCHANGED <<world, conn, daemon, typed, alive, now>>

-----------------------------------------------------------------------------
(* The goroutine of a connection: Server.handle and what Dispatch calls. *)
Handle(c, pc) == conn' = [conn EXCEPT ![c].pc = pc]
Respond(c, code) ==
    conn' = [conn EXCEPT ![c] = [IdleConn EXCEPT !.pc = "answered", !.code = code]]

Accept(c) == /\ ConnAt(c, "backlog") /\ daemon.pc = "serving"
             /\ Handle(c, "reading")
             /\ UNCHANGED <<world, cli, daemon, typed, alive, now>>

(* What a request has to type, one tmux command each: the payload of text  *)
(* and its Enter; the tokens of key all at once.  A mutation of Commands:  *)
(* a payload without Enter is not sent.                                    *)
WrongCommands(req) ==
    IF req.op = "key" THEN << [key |-> "keys", words |-> req.words] >>
    ELSE IF req.op # "text" \/ req.options["enter"] = <<>> THEN <<>>
    ELSE << [key |-> "text", words |-> req.words], [key |-> "Enter", words |-> <<>>] >>

Commands(req) ==
    IF req.op = "key" THEN << [key |-> "keys", words |-> req.words] >>
    ELSE IF req.op # "text" THEN <<>>
    ELSE << [key |-> "text", words |-> req.words] >>
         \o (IF req.options["enter"] = <<Word("true")>>
             THEN << [key |-> "Enter", words |-> <<>>] >> ELSE <<>>)

Dispatch(c, req) ==
    conn' = [conn EXCEPT ![c].pc = CASE req.op = "wait" -> "waiting"
                                     [] req.op \in {"text", "key"} -> "typing"
                                     [] OTHER -> "query",
                         ![c].keys = Commands(req),
                         ![c].until = IF req.op = "wait" THEN now + WaitTimeout ELSE 0]

(* The request line and its Dispatch, or the end of the input without one. *)
ReadRequest(c) ==
    /\ ConnAt(c, "reading")
    /\ \/ conn[c].sent /\ Dispatch(c, cli[c].req)
       \/ ~conn[c].sent /\ CliAt(c, "done") /\ Handle(c, "cut")
    /\ UNCHANGED <<world, cli, daemon, typed, alive, now>>

(* list, snapshot and read answer what tmux or the store tells them. *)
Query(c) ==
    /\ ConnAt(c, "query")
    /\ \E code \in {"OK", "error", "runtime"} : Respond(c, code)
    /\ UNCHANGED <<world, cli, daemon, typed, alive, now>>

(* tmux send-keys reaches the pane ... *)
Type(c) ==
    /\ ConnAt(c, "typing") /\ alive
    /\ typed' = [typed EXCEPT ![c] = Append(@, Head(conn[c].keys))]
    /\ Handle(c, "typed")
    /\ UNCHANGED <<world, cli, daemon, alive, now>>

(* ... or fails: the pane is missing, a key is unknown, tmux is away.  A   *)
(* mutation of Fails: the error of the first of two commands is dropped.   *)
WrongFails(c, code) ==
    IF Len(conn[c].keys) = 1 THEN Respond(c, code)
    ELSE conn' = [conn EXCEPT ![c].keys = Tail(@)]

Fails(c, code) == Respond(c, code)

TypeFails(c) ==
    /\ ConnAt(c, "typing")
    /\ \/ ~alive /\ Fails(c, "PANE_NOT_FOUND")
       \/ Head(conn[c].keys).key = "keys" /\ Fails(c, "INVALID_KEY")
       \/ Fails(c, "runtime")
    /\ UNCHANGED <<world, cli, daemon, typed, alive, now>>

(* tmux's acknowledgement: the next command, or the answer. *)
Acknowledge(c) ==
    /\ ConnAt(c, "typed")
    /\ IF Len(conn[c].keys) = 1 THEN Respond(c, "OK")
       ELSE conn' = [conn EXCEPT ![c].pc = "typing", ![c].keys = Tail(@)]
    /\ UNCHANGED <<world, cli, daemon, typed, alive, now>>

(* A wait (module Commands) ends with its condition or an error of its     *)
(* pane; by itself with its timeout and with the daemon's context, which   *)
(* the stop cancels first.  A mutation of ContextDone: nobody cancels it.  *)
WaitAnswers(c) ==
    /\ ConnAt(c, "waiting")
    /\ \E code \in {"OK", "error"} : Respond(c, code)
    /\ UNCHANGED <<world, cli, daemon, typed, alive, now>>

WrongContextDone == FALSE

ContextDone == daemon.asked

WaitExpires(c) ==
    /\ ConnAt(c, "waiting")
    /\ \/ now >= conn[c].until /\ Respond(c, "TIMEOUT")
       \/ ContextDone /\ Respond(c, "runtime")
    /\ UNCHANGED <<world, cli, daemon, typed, alive, now>>

-----------------------------------------------------------------------------
(* The daemon's main goroutine: Serve and what runDaemon does around it. *)
InService == {"reading", "query", "typing", "typed", "waiting"}

CutOff(pcs) == [c \in Client |-> IF conn[c].pc \in pcs THEN [IdleConn EXCEPT !.pc = "cut"]
                                 ELSE conn[c]]

(* requestShutdown, upon a signal, a shutdown request or tmux's loss: the  *)
(* hard-exit timer runs, and the context is done.                          *)
RequestStop ==
    /\ daemon.pc # "gone" /\ ~daemon.asked
    /\ daemon' = [daemon EXCEPT !.asked = TRUE, !.exitAt = now + HardExitTime]
    /\ UNCHANGED <<world, cli, conn, typed, alive, now>>

(* Server.Close, when the context is done, ends the accept loop and resets *)
(* the connections that nobody has accepted.                               *)
CloseListener ==
    /\ daemon.asked /\ daemon.open
    /\ daemon' = [daemon EXCEPT !.open = FALSE,
                                !.pc = IF daemon.pc = "serving" THEN "draining" ELSE @]
    /\ conn' = CutOff({"backlog"})
    /\ UNCHANGED <<world, cli, typed, alive, now>>

(* Accept fails on an open listener (the process is out of descriptors,    *)
(* say): Serve returns the error with its handlers under way, and nobody   *)
(* cancels the context or closes the listener.                             *)
AcceptFails ==
    /\ daemon.pc = "serving"
    /\ daemon' = [daemon EXCEPT !.pc = "failed"]
    /\ UNCHANGED <<world, cli, conn, typed, alive, now>>

(* A mutation of Drained: Serve does not wait for the handlers. *)
WrongDrained == TRUE

Drained == \A c \in Client : conn[c].pc \notin InService

(* Accept fails on the closed listener: acceptW.Wait. *)
ServeReturns ==
    /\ daemon.pc = "draining" /\ Drained
    /\ daemon' = [daemon EXCEPT !.pc = "teardown"]
    /\ UNCHANGED <<world, cli, conn, typed, alive, now>>

Ends(how) == /\ daemon' = [daemon EXCEPT !.pc = "gone", !.open = FALSE, !.end = how]
             /\ conn' = CutOff({"backlog"} \cup InService)
             /\ UNCHANGED <<world, cli, typed, alive, now>>

(* stopWithDeadline has waited for the controller, or long enough. *)
Exit == \/ daemon.pc = "teardown" /\ Ends("exit")
        \/ daemon.pc = "failed" /\ Ends("failed")

HardExit == /\ daemon.asked /\ daemon.pc # "gone" /\ now >= daemon.exitAt
            /\ Ends("hard")

Kill == daemon.pc # "gone" /\ ~Prompt /\ Ends("killed")

KillPane == /\ alive
            /\ alive' = FALSE
            /\ UNCHANGED <<world, cli, conn, daemon, typed, now>>

(* A prompt machine does all it can do before the clock goes on. *)
Busy == \/ daemon.pc \in {"teardown", "failed"} \/ (daemon.pc = "draining" /\ Drained)
        \/ daemon.asked /\ daemon.open
        \/ \E c \in Client :
              \/ cli[c].pc \in {"dial", "write"}
              \/ CliAt(c, "await") /\ conn[c].pc \in {"answered", "cut"}
              \/ conn[c].pc \in InService \ {"waiting"}
              \/ ConnAt(c, "backlog") /\ daemon.pc = "serving"
              \/ ConnAt(c, "waiting") /\ (now >= conn[c].until \/ ContextDone)

TimerRuns == \/ daemon.asked /\ daemon.pc # "gone" /\ now < daemon.exitAt
             \/ \E c \in Client : \/ cli[c].pc \in {"write", "await"} /\ now < cli[c].deadline
                                  \/ ConnAt(c, "waiting") /\ now < conn[c].until

(* The clock runs to the bound, and on while a timer is running. *)
Tick == /\ now < MaxTime \/ TimerRuns
        /\ Prompt => ~Busy
        /\ now' = now + 1
        /\ UNCHANGED <<world, cli, conn, daemon, typed, alive>>

ClientStep(c) == Dial(c) \/ WriteRequest(c) \/ Receive(c) \/ GiveUp(c)

(* What a handler does without tmux. *)
HandlerStep(c) == Accept(c) \/ ReadRequest(c) \/ WaitExpires(c)

TmuxStep(c) == Query(c) \/ Type(c) \/ TypeFails(c) \/ Acknowledge(c)

DaemonStep == CloseListener \/ ServeReturns \/ HardExit

RequestsNext ==
    \/ \E c \in Client : Invoke(c) \/ Freeze(c) \/ ClientStep(c) \/ HandlerStep(c)
                       \/ TmuxStep(c) \/ WaitAnswers(c)
    \/ RequestStop \/ DaemonStep \/ AcceptFails \/ Exit \/ Kill
    \/ KillPane
    \/ Tick

RequestsSpec == RequestsInit /\ [][RequestsNext]_requestsVars

(* The scheduler and the clock.  tmux, on which also the teardown waits,   *)
(* is only known to answer on a prompt machine.                            *)
RequestsFairness ==
    /\ WF_requestsVars(Tick) /\ WF_requestsVars(DaemonStep) /\ WF_requestsVars(Prompt /\ Exit)
    /\ \A c \in Client : /\ WF_requestsVars(ClientStep(c))
                         /\ WF_requestsVars(HandlerStep(c))
                         /\ WF_requestsVars(Prompt /\ TmuxStep(c))

FairRequestsSpec == RequestsSpec /\ RequestsFairness

-----------------------------------------------------------------------------
RequestsTypeOK ==
    /\ \A c \in Client : /\ cli[c].pc \in CliPC /\ cli[c].deadline \in Nat
                         /\ conn[c].pc \in ConnPC /\ conn[c].until \in Nat
                         /\ conn[c].pc \in {"typing", "typed"} => conn[c].keys # <<>>
                         /\ conn[c].pc # "none" => cli[c].req.verdict = "call"
    /\ daemon.pc \in DaemonPC
    /\ daemon.open => daemon.pc \in {"serving", "failed"}
    /\ daemon.pc \in {"draining", "teardown"} => daemon.asked
    /\ alive \in BOOLEAN

(* text and key (spec 9.4, 9.5): what reaches the pane of a send is typed  *)
(* once and in its order, never the Enter of a payload that failed, and    *)
(* exit 0 means that all of it has: whatever gives up, hangs or dies on    *)
(* the way (adapter.go:96-118, client.go:23-50).                           *)
SendsAreWholeWhenAcknowledged ==
    \A c \in Client : cli[c].req.verdict = "call" =>
        /\ IsPrefix(typed[c], Commands(cli[c].req))
        /\ cli[c].result = "OK" => typed[c] = Commands(cli[c].req)

(* A daemon that is stopped answers whatever it has begun                  *)
(* (server.go:73-76): an invocation whose connection ends without an       *)
(* answer has had no effect, unless the daemon was killed, ran into its    *)
(* hard-exit deadline, or could not accept any more and left its handlers  *)
(* behind (server.go:77, daemon.go:137-141).                               *)
CutMeansNotRun ==
    \A c \in Client : cli[c].result = "cut" /\ daemon.end \notin {"hard", "killed", "failed"}
                        => typed[c] = <<>>

(* On a prompt machine neither side runs into its deadline: the grace of   *)
(* app.go:650 leaves a wait's TIMEOUT to the daemon, which reports it as   *)
(* the command's failure and not as the tool's (spec 7.2, 7.3); and a stop *)
(* needs no hard exit, since a pending wait ends with the context          *)
(* (wait.go:201-216) and not with its timeout.                             *)
PromptMeansInTime == Prompt => /\ \A c \in Client : cli[c].result # "deadline"
                               /\ daemon.end # "hard"

(* Every invocation ends, also when tmux hangs, when the daemon stops      *)
(* before it answers or was never there (client.go:29-31).                 *)
EveryInvocationEnds ==
    \A c \in Client : cli[c].pc \in {"dial", "write", "await"} ~> cli[c].pc \in {"done", "frozen"}

-----------------------------------------------------------------------------
(* Properties of the command line.  A line is a sequence of units: a flag  *)
(* with its value, a word, or the --; behind the -- every unit is data.    *)
Lines == {cli[c].line : c \in {d \in Client : CliAt(d, "dial")}}

Accepted(line) == Run(Words(line)).verdict = "call"

UntilDashes(line) == SelectInSeq(line \o << <<End>> >>, LAMBDA unit : unit = <<End>>)

Before(line) == SubSeq(line, 1, UntilDashes(line) - 1)
Behind(line) == From(line, UntilDashes(line) + 1)

(* The flags that take a value: all but --enter, --help and --version. *)
Valued == Global \cup ((UNION {OwnFlags(sub) : sub \in Subcommand}) \ {"enter"})

(* A word, a flag that takes no value or has it behind =, and a flag with *)
(* the argument that is its value.                                        *)
IsUnit(unit) ==
    /\ unit[1] # End
    /\ \/ /\ Len(unit) = 1
          /\ unit[1].dashes = 0 \/ unit[1].value # None \/ unit[1].name \notin Valued
       \/ /\ Len(unit) = 2 /\ unit[1].dashes = 2
          /\ unit[1].value = None /\ unit[1].name \in Valued

(* A line whose flags have their values, none of which is the --. *)
Divided(line) == Before(line) \in Seq({unit \in Seq(Argument) : IsUnit(unit)})

IsGlobalUnit(unit) == unit[1].dashes > 0 /\ unit[1].name \in Global

Insert(line, k, unit) == SubSeq(line, 1, k) \o <<unit>> \o From(line, k + 1)

Swap(line, i) == [line EXCEPT ![i] = line[i + 1], ![i + 1] = line[i]]

SocketUnit == <<Flag("tmux-socket"), Word("sock")>>

SwapsAlike(line) ==
    \A i \in 2..(Len(Before(line)) - 1) :
        (line[i][1].dashes = 0) # (line[i + 1][1].dashes = 0) => Run(Words(Swap(line, i))) = Run(Words(line))

HelpsAnywhere(line) ==
    \A k \in 0..Len(Before(line)) : Run(Words(Insert(line, k, <<Flag("help")>>))).verdict = "help"

GlobalAnywhere(line) ==
    \A k \in 0..Len(Before(line)) :
        /\ Run(Words(Insert(line, k, SocketUnit))) = Run(Words(Insert(line, 0, SocketUnit)))
        /\ Accepted(Insert(line, k, SocketUnit))

(* Where a flag stands, as long as no -- stands before it, is all the      *)
(* same.  An accepted line that begins with the subcommand means what it   *)
(* does when a flag and the word next to it change places (spec 6.1), and  *)
(* asks for help when --help is put anywhere.  A global flag, on a line    *)
(* that has none, has the same effect in front of the subcommand and at    *)
(* any place behind it (spec 6.2).                                         *)
FlagsStandAnywhere ==
    \A line \in Lines : Accepted(line) /\ Divided(line) /\ ~IsGlobalUnit(line[1]) =>
        /\ SwapsAlike(line) /\ HelpsAnywhere(line)
        /\ (\A i \in 1..Len(Before(line)) : ~IsGlobalUnit(line[i])) => GlobalAnywhere(line)

(* Spec 6.1: what stands behind -- is delivered as it is, also if it looks *)
(* like a flag.                                                            *)
NothingBehindDashesIsAFlag ==
    \A line \in Lines : Accepted(line) /\ Divided(line) =>
        IsSuffix(Words(Behind(line)), Run(Words(line)).words)
=============================================================================
