# A TLA+ model of tpctl

tpctl (`src/`) lets agents observe and drive tmux panes: a daemon per tmux server
pipes the output of every pane into a bounded in-memory stream, and short-lived CLI
processes ask it for snapshots, reads and waits. This directory holds TLA+ modules
of that program, TLC configurations that check them on small instances, and proofs
that TLAPS checks for all instances. File names and lines below are relative to
`src/internal/` unless they begin otherwise; "spec" is `src/docs/specs/tpctl-v1.md`.

## The system

| component | state | operations | interacts with |
|---|---|---|---|
| pane buffer (`store/buffer.go`) | byte ring, absolute `start` and `end`, time of last append | Append, Read | called under the store's mutex |
| store (`store/store.go`, `token.go`) | map of buffers, list of watchers, instance id | Append, Forget, Watch and its cancel, NewToken, LastAppend, Read | written by the drain goroutine, read by every handler; signals watchers through channels of capacity 1 |
| handlers (`controller/wait.go`, `read.go`, `snapshot.go`) | locals of one goroutine per connection | wait (sentinel, regex, quiescence), read, snapshot | store, tmux, the daemon's context |
| controller (`controller/controller.go`) | the drain goroutine, `serverLost`, `done` | Start, drain, Stop | subscription's channel, store |
| subscription (`tmuxctl/subscribe_unix.go`) | trackers by pane id, a FIFO and a reader goroutine each, failure count, channel of 64 events | poll, start and stop trackers, report closure and loss, teardown | tmux (`list-panes`, `pipe-pane`), controller |
| daemon (`cli/daemon.go`, `ipc/server.go`) | listener, context, hard-exit timer | listen, serve, shut down | clients by socket, other daemons by the socket path and by the panes' pipes |
| auto-spawn (`ipc/autospawn.go`, `client.go`) | flock | ping, lock, ping again, spawn, poll | daemons |
| accept loop, dispatch, wire protocol (`ipc/server.go`, `dispatch.go`, `protocol.go`) | the connections in service | accept, decode, dispatch, respond, close | handlers, clients |
| client (`ipc/client.go`) | one connection and its deadline | dial, write, await | the daemon's socket |
| sends (`controller/send.go`, `tmuxctl/adapter.go`) | none | text, then Enter; keys | tmux |
| matchers, normalization (`waiter/`, `textnorm/`) | none | pure functions | wait, read, snapshot |
| command line (`cli/app.go`), socket paths (`ipc/socket.go`) | none | hoist, reorder, parse, refuse or call | client |
| responses (`domain/`), version, test fakes, conformance harness | none | | |

What is hard in it: a wait is an endless loop of an unlocked evaluation between two
critical sections of a store that other goroutines write; wakeups are coalesced;
closures, data and loss share one bounded channel with blocking senders; tokens are
compared outside the lock; a client, the handler that serves it and the tmux command
that the handler waits for have a deadline each, or none; a snapshot joins two sources, tmux's screen and the
store's head; polling sees only what lives for 200 ms; daemons start, stop and
overlap around one socket path and one pipe per pane. `PROJECT.json` lists each of
these hazards at its line, with the properties that watch it.

What makes each part correct: the buffer is a stream with stable positions of which
the newest bytes are retained; the store serves only its own tokens; a wait never
sleeps over something it should see and always ends; the feed loses, repeats and
reorders nothing, reports each closure and the loss of the server, and stops; a
token has everything after it behind it; there is one daemon, and it can be
replaced; a request is carried out in its order, wholly if it is acknowledged, and
always ends; text is stripped, matched and cut without loss; a command line means
the same wherever its flags stand.

## The modules

- `Stream` is the abstract promise of a buffer: `retained`, the newest `Capacity`
  bytes, and `end`. No ring.
- `Ring` is `buffer.go` as operators on a record; `Buffer` gives it its two operations
  and shows that it implements `Stream`, with `retained` computed slot by slot.
- `Store` is `store.go`: one operator per critical section of the mutex. A watcher's
  channel is the Boolean `sig`; the set `parked` says which goroutines are blocked in a
  select on it, because a send to a parked goroutine is a hand-over (it leaves the
  select at once) while any other is left in the channel. A token is the record it
  decodes to; a malformed token and one of another controller are one case, as the
  code answers both alike.
- `Commands` (extends `Store`) runs the handlers. An agent issues one command at a time
  and the action names follow `Wait`: `Watch`, `Check` and `Read` (the two critical
  sections of `Store.Read`), `Eval` or `Ref`, `Elapsed`, `QuietToken`, then the select as
  `Park`, `TakeSignal`, `TakeQuiet`, `TakeTimeout`, `TakeCancel`, and `Return` with its
  deferred cancel. `call[w].pc` is the point between two of these, and everything else
  (output, closures, the clock, the shutdown, other agents) may happen there. Output
  and closures are arbitrary here; matching is the presence of one byte.
- `Closures` (extends `Commands`) adds a history variable, `destroyed`: for each agent, what
  of it (its pending wait, the token it holds, the token about to be returned) has lost
  its pane since. With it the error codes can be judged. A `Plan` says which agent asks
  for what; the plans of an instance are explored one beside the other.
- `Feed` (extends `Store`) is where these events come from: tmux (external: panes open,
  print and are killed; the server dies and restarts, and a new server reuses pane ids),
  the subscription goroutine (`sub.pc` is its point in `sync`, `run` and `teardown`),
  the readers, the channel and the drain goroutine. The k-th byte a pane prints is the
  number k. tmux's pipe, `cat` and the FIFO are one queue, lost when the FIFO closes.
  `pipe-pane` is best effort: a stop may leave the pane piped into a closed FIFO until the
  FIFO's reader returns, and a start that fails may have taken effect or not.
- `Bootstrap` (extends `Feed`) adds a snapshot: capture, then token. It composes the
  feed with the store's half of a command and asks what is behind the token. A `Scene`
  says which panes print and are captured.
- `Daemons` has the processes: `Dial`, `RemoveStale`, `Bind` are `Listen`; `Unlink`,
  `CloseListener`, `RemoveAgain` are `Server.Close`, the last in a goroutine nobody waits
  for; `Ping`, `Lock`, `Recheck`, `Spawn`, `Poll` are `EnsureDaemon`; `StopPing` to `StopReturns`
  are `daemon --stop`, whose `OpShutdown` the daemon answers before it obeys (`told`, then
  `asked`). `AcceptFails` is the other way out of `Serve` (`server.go:77`): the listener stays open
  and nobody is told to stop. Of the feed it keeps one pane and who has its pipe. A free
  process slot stands for a pid that may be used again; the history variable `died` keeps the
  processes that ended while a `--stop` looks on.

  A `World` says what may happen on a machine: whether it is slow, whether users start
  daemons by hand, how often daemons are stopped and killed.
- `Text` is `normalize.go` and `sentinel.go` as operators on byte sequences, the loops as
  recursive functions of a position. `Matching` lets a pane print byte by byte while a wait
  evaluates (`Evaluate`) what has arrived; its reference definitions are a byte-at-a-time
  automaton (`Display`) written from the grammar in the comment at `normalize.go:60`, and the
  set of all sentinels in a text (`SentinelAt`, as spec 9.6 has it; `FittingAt` adds that the exit
  code fits an `int`). `MaxInt` stands for the largest `int`.
- `CommandLine` is `app.go` from argv to a request or a refusal: `ExtractGlobals`, `ReorderArgs`,
  `FlagParse` (Go's `flag` package, external), `Submit` for the six `run...` functions. An
  argument is a record of its dashes, name and `=value`. The command lines of `Requests` are
  sequences of units: what somebody typed as one thing, such as a flag and its value. Its two
  properties of lines ask that a line is `Divided`: until the first `--`, every unit is a word, a flag
  that needs no value or has it behind `=`, or a flag and its value. In any other division
  nothing is lost by the code, but "a flag changes places with the word beside it" no longer
  says what it means: the word may be the flag's value.
- `Requests` (extends `CommandLine`) sends these requests: `Dial`, `WriteRequest`, `Receive`, `GiveUp` are
  `Client.Call`; `Accept`, `ReadRequest`, `Respond` are `Server.handle`; `Type`, `TypeFails`, `Acknowledge` are
  the tmux commands of `SendText` and `SendKeys`, which tmux may carry out and acknowledge as
  late as it likes; `RequestStop`, `CloseListener`, `ServeReturns`, `Exit`, `HardExit` are the way down,
  and `AcceptFails`, `Exit` the one that waits for no handler: until it ends, such a daemon
  serves what it has accepted and lets others dial.
  A wait (module `Commands`) is one state here, with its timeout and the context.

`MCCommands`, `MCClosures`, `MCFeed`, `MCBootstrap`, `MCDaemons`, `MCMatching` and `MCRequests` instantiate
them; `MCBytes` checks `Buffer` and `MCMatching` side by side in one run, each by itself.
Definitions named `Wrong...` are not part of the model: each is a plausible bug (a
dropped signal, an unbuffered channel, a missing unlock) that replaces the
definition after it to show that a property can fail. `PROJECT.json` pairs them.

## The runs

| run | what it asks | bounds |
|---|---|---|
| `MCBytes` | type and window of the ring, `ImplementsStream`; `ScannerReadsLikeATerminal`, `ReadsCompose`, `NormalizedIsClean`, `FirstSentinelIsFound`, `AnswerStaysInTheOutput` | capacity 3, chunks to 5, streams to 8: every alignment, wrap and overflow; all outputs of seven programs: eight kinds of byte to length 5, escape sequences of fewer kinds to 6, sentinels with and without control sequences to 6 and 7, white space with escapes to 5; a prefix that overlaps itself, exit codes to 10 |
| `MCClosures` | types, `ServedTokenIsOurs`, `ParkedSawEverything`, `NextStandsBehindWhatWasSeen`, `ParkedTimerIsCurrent`, `QuietUnlessSignalled`, `ErrorsAreEarned` | capacity 1, so that a second byte evicts; two agents on one pane with snapshots and waits of timeout 1, or one agent on two panes with every command and rejection, quiet window to 2 |
| `MCLive` | `NoWaitSleepsOnItsEnd`, `StopEndsWaits` without the clock; with it, `EveryWaitEnds` | one agent, both conditions, capacity 1 |
| `MCFeedLive` | `LostOnce`, `LossIsReported`, `ClosureIsReported`, `LivePaneIsPiped`, `OutputArrives`, `StopReturns` | one pane, channel of 1, one restart, two blips in a row (one below the threshold) |
| `MCBootstrap` | types, `NothingSkipped`, `ClosedMeansKilled`, `TokenMissesNothing` | one pane with four bytes over a ring of two, captured; or two panes with two FIFOs, a channel of 2 and two bytes each; one blip |
| `MCDaemons` | `AtMostOneController`, `FailedMeansKilled`, types and lock, `EnsureEnds`, `ShutdownTerminates`, `StopMeansGone` | "calm": two clients, three slots, two kills or failing accepts, prompt daemons; "slow": one client, two slots, slow daemons, starts by hand, a signal or a `--stop`, a kill |
| `MCRequests` | types, `SendsAreWholeWhenAcknowledged`, `CutMeansNotRun`, `PromptMeansInTime`, `FlagsStandAnywhere`, `NothingBehindDashesIsAFlag`, `EveryInvocationEnds` | one client with every line of up to four units, with lines that are not divided and lines that begin or end in a socket flag, or two clients of which each sends or waits; prompt machines, and machines on which tmux hangs, clients freeze and the daemon is killed; on all of them an accept may fail; every deadline 1 |
| `MCLateOutput` | `ForgottenStaysUnknown` fails | |
| `MCUntracked` | `CannotMissOutput` fails | |
| `MCDeafPane` | `TrackedIsPiped` fails | world "handover": two clients, three slots, one stop |
| `MCTornExit` | `ExitCodeIsWhole` fails | as the texts of `MCBytes` |
| `MCAbsurdCode` | `EverySentinelIsAnswered` fails | as the texts of `MCBytes` |

Why the bounds are enough: two readers or two agents are the most that one step of
the code relates; a channel of one or two is full and empty within one pane's output,
and 64 is no different from 2 for a blocking sender; a ring of one to three bytes
wraps and evicts at once. Texts of six bytes hold an escape sequence with each kind
of byte and one that is cut by another; a sentinel whose prefix is two equal bytes
overlaps the next one as a real token can. Deadlines of 1 pass in every order, since
the clock of a slow machine runs at any moment; a prompt machine does what it can
before the clock goes on, which is the assumption in the name of `PromptMeansInTime`.
`MaxEnd`, `MaxPrint`, `MaxTime`, `MaxBlips`, `MaxRestarts`, the `length` of a program and the
numbers in a `Scope` are bounds of the checking; the clock runs beyond `MaxTime` while a
started timer needs it, so that no timeout is cut off. The runs of `Feed`,
`Bootstrap` and `Requests` and those of texts say `CHECK_DEADLOCK FALSE` because after `Stop`, after the
last byte and after the daemon's end the system is meant to come to rest; the others
check for deadlock. Symmetry is used for agents, and FIFOs, in runs without liveness
only.

### What the code does otherwise than its documents say

- `MCLateOutput` (`subscribe_unix.go:113`): `stop` closes the FIFO and `Closed` is sent
  while the reader may still hold a chunk. Its `Data` follows `Closed`, `Store.Append`
  creates the buffer of the destroyed pane again, and it stays: later commands get
  `INVALID_AFTER` or an empty success where spec 11.9 asks for `PANE_NOT_FOUND`. The same end is
  reached when a snapshot's `NewToken` comes after the `Forget` (`snapshot.go:36`).
- `MCUntracked` (`snapshot.go:36`): for up to 200 ms a new pane is not piped, yet a
  snapshot gives it a token; what it prints until the poll is never seen by a wait
  behind that token (spec 17.15). `TokenMissesNothing` is the guarantee that remains.
- `MCDeafPane` (`subscribe_unix.go:219`): a daemon frees its socket before it tears down its
  pipes. Its `pipe-pane -t` then closes the pipe of the daemon that was spawned
  meanwhile, which never notices.
- `MCTornExit` (`sentinel.go:47`): the end of the text ends the digits, so a wait that looks
  between the 1 and the 2 of `__DONE__:tok:12` answers `exit_code` 1 (spec 9.6).
- `MCAbsurdCode` (`sentinel.go:52`): a sentinel whose digits do not fit an `int` is passed over and
  the wait goes on, where spec:613-615 has any digits and no upper bound at the matcher.
  `FirstSentinelIsFound` is what remains: the first sentinel that fits.

Stated without a run:

- Two clients' sends are not serialized. Each connection has its own goroutine and
  `SendText` makes two tmux calls without a lock, so two texts and two Enters may arrive
  as text, text, Enter, Enter, although spec:704 and architecture.md:214 say that the
  single-writer controller loop serializes them. `SendsAreWholeWhenAcknowledged` is what
  remains: each client's own keys come in their order.
- On a quiet pane of a restarted daemon an old token is answered `PANE_NOT_FOUND`, since
  only tests call `Store.Ensure`, where spec 4.3 has `INVALID_AFTER`; and a pane destroyed between
  `Watch` and the first `Read` is answered `PANE_NOT_FOUND`. `ErrorsAreEarned` says what each code
  does mean, for a token of this controller.
- When `Accept` fails on an open listener, out of descriptors for one, `Serve` returns at once
  (`server.go:77`) and the daemon exits, although the comment at `server.go:60` has it serve "until
  ctx is cancelled or the listener closes": requests whose handlers are under way are
  cut, also those that have been typed. `CutMeansNotRun` is about every other exit that a
  daemon takes by itself, short of the hard-exit deadline.
- Each read is normalized by itself (`controller/read.go:44`), so blanks and newlines at the end
  of the first of two reads are lost with it: `a b` read in two may come as `a` and `b`. A
  read that ends inside an escape sequence leaves its rest in the text of the next. At all
  other cuts nothing else is lost or added, which is `ReadsCompose`.
- A value flag at the end of the line without its value takes the `--` that
  `reorderArgs` puts behind the flags (`app.go:232`) for its value. The properties of the
  command line are about lines that are accepted.
- `SendKeys` escapes a token `;` because tmux would take it for its separator
  (`adapter.go:133`); `SendText` passes a payload `;` as it is.
- Two names of one tmux socket have two hashes (`socket.go:20`), hence two daemons, which
  take each other's pipes as in `MCDeafPane`.

Further limits that the conditions of the passing properties make visible; change the
constant or field named to see each:

- `AtMostOneController` is conditioned on a calm machine. It fails with `slow`: the spawner releases the lock after 2 s
  and the next daemon races the first through `Listen` (spec 11.5). It fails with
  a stop and three slots: `os.Remove` in `Close` (`server.go:98`) takes away the socket of the
  next daemon.
- `LivePaneIsPiped` and `ClosedMeansKilled` make an exception of, or are run without, a
  restart that is over before the third failed poll: the stale tracker of a reused id
  is kept, and panes lost with their server are reported closed.
- `QuietUnlessSignalled` says "unless signalled": the quiescence branch takes `next` from
  a new token after its verdict (`wait.go:178`), so output in between is skipped by `next`.
- Bytes on their way when the token is taken are on the captured screen and come
  again behind the token; `TokenMissesNothing` is one-sided for that reason.
- When timer and signal are ready together the select takes either (`wait.go:207`), so a wait may
  answer `TIMEOUT` over a match that came in time.

## Fairness

`Scheduling` (Commands): Go runs every runnable goroutine, and select picks at random
among ready cases, so a case that is ready again and again is taken some day (strong
fairness of `TakeTimeout` and `TakeCancel`). Nothing is assumed of agents, output, tmux or
the clock; `EveryWaitEnds` states its assumption on the clock itself. `FeedFairness`:
every goroutine runs and polls recur; a reader blocked in its send and the select
that sees the end of the context are not passed over for ever; of tmux, that
starting a `pipe-pane` on a live pane succeeds some day if tried again and again. Nothing says
that a server restarts or that a pane prints. `DaemonsFairness`: processes run, the
flock is granted some day to a waiter to whom it is free again and again, and the
hard-exit timer fires. `RequestsFairness`: the scheduler, the clock and the timers run; tmux
and the teardown that waits for it answer only on a prompt machine, so that
`EveryInvocationEnds` rests on the client's own deadline wherever tmux hangs; a suspended
client is not assumed to wake up. Nothing is assumed of teardown, which may hang; that `daemon
--stop` runs out of time is left open from the start of its loop, so `StopMeansGone` does not rest
on any timing.

## What is proved

All theorems are about the specifications as they stand, for every value of the
constants that satisfies the named assumptions. `CapacityAssumption` and `ByteAssumption` ask for
a positive capacity and a byte for empty slots; `BufferAssumption`, `BootstrapAssumption`,
`ClosuresAssumption`, `MatchingAssumption` and `DaemonsAssumption` for well-typed bounds and scopes;
`StoreAssumption`, `CommandsAssumption` and `FeedAssumption` for distinct markers, well-typed
requests, non-empty chunks and a channel with room for one event; `RequestsAssumption` for
positive deadlines and lines that are sequences of units of arguments; `TextAssumption` for a
prefix that is not empty and bytes below 256.

`RingProofs` and `BufferProofs`, the pane buffer:
- `BufferTypeCorrect`, the invariant at `buffer.go:19` for every stream.
- `RingImplementsStream`: `Buffer` implements `Stream` for every capacity. A step lemma each
  for append and read. An append writes slot `o % Capacity` for each new offset `o` and for no other
  (`WriteAt`), two offsets less than a capacity apart have two slots (`SlotUnique`), so the
  retained window afterwards is the end of the old one followed by the chunk
  (`AppendKeepsNewest`), also when the chunk is longer than the ring; a read copies its range in
  at most two slices (`ReadSlots`).

`HandlersProofs`, the handlers on the store, for any agents, panes, requests, output and
interleaving:
- `TypeCorrect`. `TypeOK` alone is not inductive: that a `Read` has a token to read from, and a
  watcher registered for its own pane, follows only from where the handler stands.
  `HandlerOK` says so for each point, and `TypeInv` is the conjunction.
- `NoLostWakeup`, `TimerCurrent` and `QuietSound` share one inductive invariant: a waiting
  handler whose channel is empty and that was not handed a signal is *up to date*, that is,
  what it has concluded so far at its point in the loop (from the bytes it read, from the
  last append it looked up) is what it would conclude from the store now. Every append and
  every `Forget` sets the signal of exactly the watchers it concerns or hands it to them,
  every other step leaves the pane alone, and a signal is consumed only by going back to
  the top of the loop. The one buffer creation that signals nobody, `NewToken`, changes no
  known pane.
- `ServedTokensAreOurs` and `NextIsExact`. Neither property is inductive: a token is compared
  several steps before the answer, and `next` is taken before an evaluation during which
  the store goes on. `AnswerOK` carries both facts along the handler's points.
- `ErrorsAreTrue`. What justifies an error is not in the handler any more when it is
  reported, so the invariant says of each token that an agent holds or is about to be
  given that its position still exists or its loss is on record (`Traced`), and of
  `paneKnownAtStart` that the pane is still known or was lost since `Watch` (`KnownOK`).

`FeedProofs`, from the pane to the store, for any panes, FIFOs and capacities. `FeedSpec` and
`BootstrapSpec` take the same steps on the feed (`StepSpec`), so each invariant is shown once for
both. A stopped tracker leaves its reader behind, with a chunk in its hand, and a chunk may
wait in the channel for long, so none of the properties is inductive:
- `FeedTypeCorrect` (`FeedInv`): maps, whatever `pipe-pane` does. A FIFO is open only while its pane is
  tracked with it; a tracked pane is piped into no other FIFO than its tracker's, and a
  pane that is not tracked may still be piped into a closed one, whose reader sends for
  that pane. Without this a slot reused for another pane could carry its bytes.
- `ClosuresAreOfKilledPanes` (`KilledInv`): from the poll that misses a pane to `Forget`, through
  the channel.
- `LossIsToldOnce` (`LostInv`, `BlipsInv`): at most one event of the loss on its way, none before it
  was sent and none after it was handled. Its hypothesis, `MaxBlips` below
  `serverLostThreshold`, is the environment in which `LostOnce` is meant: a server that answers
  one of three polls in a row.
- `NothingIsSkipped` (`OnceInv`, `FlowInv`): a pane is piped once, and at every moment what the store
  retains, then the channel's events of the pane, then the chunk in its reader's hand, then
  the FIFO, is the end of what the pane printed; each step moves bytes from one of these
  places to the next.
- `TokenMissesNone` (`ShotInv`): a token taken of a piped pane stands at or before what was
  printed by then, counted from where the pipe began, and that origin stays.

`ClosuresAreOfKilledPanes`, `NothingIsSkipped` and `TokenMissesNone` say `restarts = 0`: until tmux is
started again, after which it gives pane ids a second time and the three are false
("Further limits" below the findings).

`DaemonsProofs`: `DaemonsTypeCorrect`, `OneController`, `EnsureFailsOnlyByCrash` and `CleanStopMeansGone`, for
any number of clients, process slots and crashes (a crash is a kill or an `Accept` that
fails). On a calm machine nobody stops (`NobodyStops`), and from the second ping to the end of
the poll the lock is its client's (`Locked`); so whatever starts, starts under the lock (`StartsUnderLock`), what serves is reachable at the
socket (`Reachable`), a spawn finds nobody alive (`SpawnsAlone`), and one process at most
lives (`OneLives`). `CleanStopMeansGone` is of every machine: a clean stop has
seen the pid of the answer free at some moment since, and not only the socket dead.

`RequestsProofs`, for any number of invocations, any lines of argument units and any
deadlines:
- `RequestsTypeCorrect`, `SendsAreWhole` and `CutIsClean`. `Progress` says for each point of a
  connection how what has been typed and what is left make up the whole send, before and
  after tmux has carried out the command at it; `Joined` ties the client's result to the
  connection's end, and `Leaves` says whom a daemon has in service at each point of its way
  down. `CutIsClean` is about the exit that waits for the handlers; it excepts a daemon that was
  killed, ran into its hard-exit deadline, or could not accept.
- `PromptIsInTime` (`TimeInv`): on a prompt machine the clock stands still while a client, a
  handler or a daemon can move, so each deadline is as far away as when it was set; a wait
  waits with its own timer, which is the shorter of the two. That no command line is
  refused with the word that stands for a deadline (`RunVerdict`) is an induction over the
  loops of `extractGlobals`, `reorderArgs` and `FlagSet.Parse`.
- `FlagsStand` and `DashesProtect`, for lines of any length and any words and values. A unit `Means`
  something wherever it stands: it adds these flags and these words to what `reorderArgs`
  separates, and these settings to what `FlagSet.Parse` reads. Meanings concatenate
  (`MeansConcat`), so a divided line means the settings and words of its units, in their order,
  and the words behind its `--` (`Meaning`); a unit that the subcommand does not know makes the
  line `Hopeless`, so an accepted line has none (`AcceptedIsKnown`). What `extractGlobals` takes from the
  front are whole units (`Hoisted`). Now `DashesProtect` can be read off the words of a meaning.
  For `FlagsStand`, a flag and the word beside it add to different sequences, so that their order does not
  matter (`SwapMeans`); a global flag on a line without one adds the only setting of its name,
  whose place cannot matter to the last value of any flag (`OptAnywhere`); and parsing reaches
  --help wherever it stands, because all before it is known (`HelpMeans`).

`MatchingProofs`, for every text, prefix and largest exit code, at every moment of a wait:
- `ScannerIsATerminal`. The terminal is `Display`, one byte at a time with a mode; the scanner jumps.
  Where the scanner's loops stop, the terminal has shown nothing since the escape and reads
  on as at the beginning (`EscapeReads`: for CSI, OSC, the other strings and charsets, cut short
  or not). Downward induction over the positions at which it does (`ScannerReads`).
- `CutsLoseNothing`: at a cut where the terminal reads as at the beginning, the rest of the text
  is read as it would be alone, so `StripANSI` of the pieces is `StripANSI` of the whole
  (`PiecesCompose`). What `Normalize` goes on to trim at a cut is left to `ReadsCompose`.
- `FirstIsFound`: from each offset the loop returns the first sentinel behind it that fits; a candidate
  that fails may overlap the next one, so the search goes on at the next byte.
- `AnswersStay`: more output shows the same text, or one byte more; the literal of an answer is
  in the text at the moment of the answer (an invariant, `AnswerInv`), hence for good. The digits
  of the exit code may go on (`MCTornExit`).
- `NormalizedStays`: what is stripped has no escape, what is dropped no carriage return, and each
  stage leaves text of its own kind alone (`StripKeeps`, `DropKeeps`, `TrimKeeps`); splitting undoes joining
  (`LinesOfJoin`), and trimmed lines stay trimmed.

`DataInduction` is what the last two modules and `FeedProofs` rest on. The library's induction
theorems take an operator, which no prover here can instantiate; its theorem on
well-founded relations takes sets. So a property of numbers is a set that holds 0 and
with each number the next (`Induct`, `Least`, `Greatest`), a recursive function exists by `Recursion`,
and what it computes at each position is a set of positions. `Text`, `Matching` and `CommandLine`
write their loops as recursive functions for that reason; `Feed` joins the channel's chunks
and `Requests` the units of a line with `FlattenSeq`, whose lemmas are there too.

Only model-checked: all liveness, which is out of this prover's reach as is `ENABLED`, and
`ReadsCompose`, of which `CutsLoseNothing` is the core. Every other invariant and every action
property of a passing run is a theorem.

## Not modelled

JSON framing and the presence of fields, the encoding of tokens, the path and hash of
sockets, tmux command lines and the wording of its errors (no state, or wording); the
conversion of integer flags, the daemon subcommand's own flags, usage and version
texts; the compilation and meaning of regular expressions, which are Go's; the test
fakes and the conformance harness. A reader's data race with its own FIFO's close is
the choice between `ReadFifo` and `ReaderReturns`.

## Plan

Done, in this order: buffer, store, commands, their proofs, feed, bootstrap, daemons;
text and matching, command line and requests, closures; the proofs of answers, closures,
daemons and requests; of the ring as a stream, of the feed and its tokens, of deadlines,
of text and matching, and of command lines.

1. `Restart`: tokens and buffers across two controllers on one tmux server, with the
   commands of `Commands` and the daemons of `Daemons` in one module.
2. Sends that interleave as a specification of what a pane may receive from several
   clients, and `Requests` shown to implement it.
