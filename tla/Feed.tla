-------------------------------- MODULE Feed --------------------------------
(***************************************************************************)
(* How pane output reaches the store: the tmux server (external), the      *)
(* subscription goroutine of internal/tmuxctl/subscribe_unix.go that polls *)
(* list-panes and pipes every pane into a FIFO, one reader goroutine per   *)
(* FIFO, the bounded channel they all send on, and the controller's drain  *)
(* goroutine, the only writer of the store.                                *)
(*                                                                         *)
(* The k-th byte a pane prints is the number k, so that loss, repetition   *)
(* and reordering show.  What sits in tmux's pipe, in cat and in the FIFO  *)
(* is one queue: it is read from one end and lost when the FIFO closes.    *)
(***************************************************************************)
EXTENDS Store, SequencesExt

CONSTANTS Tracker,      \* the FIFOs, each with its reader goroutine
          NoTracker,
          OutCap,       \* capacity of the channel (64 in production)
          MaxPrint,     \* bound: bytes a pane prints
          MaxRestarts,  \* bound: restarts of the tmux server
          MaxBlips      \* bound: list-panes failures in a row on a healthy server

ASSUME FeedAssumption == /\ NoTracker \notin Tracker
                         /\ OutCap \in Nat \ {0}
                         /\ MaxPrint \in Nat /\ 1..MaxPrint \subseteq Byte

VARIABLES serverUp, restarts, blips,
          alive,      \* the panes of the tmux server
          born,       \* and all it ever had: it does not use an id twice
          printed,    \* bytes each pane has printed
          pipe,       \* the FIFO tmux pipes each pane into, while there is one
          killed,     \* history: panes destroyed while their server lived
          sub,        \* the subscription goroutine
          trackers,   \* its map from panes to FIFOs
          reader,     \* per FIFO: the FIFO and its reader goroutine
          out,        \* the channel of PaneOutput events
          serverLost, \* Controller.serverLost is closed
          drained,    \* Controller.done is closed
          forgotten,  \* history: panes whose Closed event was handled
          cancelled   \* the context of Controller.Start is done

tmuxVars == <<serverUp, restarts, blips, alive, born, printed, killed>>
controllerVars == <<storeVars, serverLost, drained, forgotten>>
feedVars == <<tmuxVars, pipe, sub, trackers, reader, out, controllerVars, cancelled>>

serverLostThreshold == 3

(* A FIFO without a reader, free for the next tracker. *)
Free == [pane |-> NoPane, live |-> FALSE, open |-> FALSE, fifo |-> <<>>, hold |-> <<>>, from |-> 0]

Event(kind, p, bytes) == [kind |-> kind, pane |-> p, bytes |-> bytes]

FeedInit ==
    /\ StoreInit
    /\ serverUp = TRUE /\ restarts = 0 /\ blips = 0
    /\ alive \in SUBSET Pane /\ born = alive /\ killed = {}
    /\ printed = [p \in Pane |-> 0]
    /\ pipe = [p \in Pane |-> NoTracker]
    /\ sub = [pc |-> "poll", failures |-> 0, lostNotified |-> FALSE,
              seen |-> {}, todo |-> {}, closing |-> NoPane]
    /\ trackers = <<>>
    /\ reader = [t \in Tracker |-> Free]
    /\ out = <<>>
    /\ serverLost = FALSE /\ drained = FALSE /\ forgotten = {} /\ cancelled = FALSE

-----------------------------------------------------------------------------
(* The tmux server and its panes. *)
NewPane(p) ==
    /\ serverUp /\ p \notin born
    /\ born' = born \cup {p} /\ alive' = alive \cup {p} /\ killed' = killed \ {p}
    /\ UNCHANGED <<serverUp, restarts, blips, printed, pipe,
                   sub, trackers, reader, out, controllerVars, cancelled>>

Output(p) ==
    /\ p \in alive /\ printed[p] < MaxPrint
    /\ printed' = [printed EXCEPT ![p] = @ + 1]
    /\ reader' = [t \in Tracker |-> IF t = pipe[p] /\ reader[t].open
                                    THEN [reader[t] EXCEPT !.fifo = Append(@, printed'[p])]
                                    ELSE reader[t]]
    /\ UNCHANGED <<serverUp, restarts, blips, alive, born, killed, pipe,
                   sub, trackers, out, controllerVars, cancelled>>

KillPane(p) ==
    /\ p \in alive
    /\ alive' = alive \ {p} /\ killed' = killed \cup {p}
    /\ pipe' = [pipe EXCEPT ![p] = NoTracker]
    /\ UNCHANGED <<serverUp, restarts, blips, born, printed,
                   sub, trackers, reader, out, controllerVars, cancelled>>

ServerDies ==
    /\ serverUp /\ serverUp' = FALSE
    /\ alive' = {} /\ pipe' = [p \in Pane |-> NoTracker]
    /\ UNCHANGED <<restarts, blips, born, printed, killed,
                   sub, trackers, reader, out, controllerVars, cancelled>>

(* A new server numbers its panes from the start again. *)
ServerStarts ==
    /\ ~serverUp /\ restarts < MaxRestarts
    /\ serverUp' = TRUE /\ restarts' = restarts + 1
    /\ alive' \in SUBSET Pane /\ born' = alive' /\ killed' = killed \ alive'
    /\ UNCHANGED <<blips, printed, pipe, sub, trackers, reader, out, controllerVars, cancelled>>

Tmux == \/ \E p \in Pane : NewPane(p) \/ Output(p) \/ KillPane(p)
        \/ ServerDies \/ ServerStarts

-----------------------------------------------------------------------------
(* subscription.sync *)
SubAt(label) == sub.pc = label
Room == Len(out) < OutCap

PollOk ==
    /\ SubAt("poll") /\ serverUp
    /\ sub' = [sub EXCEPT !.pc = "diff", !.failures = 0, !.seen = alive,
                          !.todo = alive \ DOMAIN trackers]
    /\ blips' = 0
    /\ UNCHANGED <<serverUp, restarts, alive, born, printed, killed, pipe,
                   trackers, reader, out, controllerVars, cancelled>>

(* A mutation of PollFails: no answer is taken for "no panes". *)
WrongPollFails ==
    /\ SubAt("poll")
    /\ \/ ~serverUp /\ UNCHANGED blips
       \/ serverUp /\ blips < MaxBlips /\ blips' = blips + 1
    /\ sub' = [sub EXCEPT !.pc = "diff", !.seen = {}, !.todo = {}]
    /\ UNCHANGED <<serverUp, restarts, alive, born, printed, killed, pipe,
                   trackers, reader, out, controllerVars, cancelled>>

(* The failure that tells the controller, and a mutation that tells it     *)
(* again and again.                                                        *)
WrongLose(failures) == failures >= serverLostThreshold

Lose(failures) == failures >= serverLostThreshold /\ ~sub.lostNotified

(* list-panes fails without a server, or for a moment on a healthy one.    *)
(* The count is not told apart beyond the threshold.                       *)
PollFails ==
    LET failures == IF sub.failures < serverLostThreshold THEN sub.failures + 1 ELSE sub.failures
        lose     == Lose(failures)
    IN /\ SubAt("poll")
       /\ \/ ~serverUp /\ UNCHANGED blips
          \/ serverUp /\ blips < MaxBlips /\ blips' = blips + 1
       /\ sub' = [sub EXCEPT !.failures = failures, !.lostNotified = @ \/ lose,
                             !.pc = IF lose THEN "lost" ELSE "poll"]
       /\ UNCHANGED <<serverUp, restarts, alive, born, printed, killed, pipe,
                      trackers, reader, out, controllerVars, cancelled>>

(* A mutation of SendLost: a full channel loses the event. *)
WrongSendLost ==
    /\ SubAt("lost")
    /\ sub' = [sub EXCEPT !.pc = "poll"]
    /\ out' = IF Room THEN Append(out, Event("lost", NoPane, <<>>)) ELSE out
    /\ UNCHANGED <<tmuxVars, pipe, trackers, reader, controllerVars, cancelled>>

(* Sends of the subscription goroutine: the event, or the context's end. *)
SendLost ==
    /\ SubAt("lost")
    /\ sub' = [sub EXCEPT !.pc = "poll"]
    /\ \/ Room /\ out' = Append(out, Event("lost", NoPane, <<>>))
       \/ cancelled /\ UNCHANGED out
    /\ UNCHANGED <<tmuxVars, pipe, trackers, reader, controllerVars, cancelled>>

(* startPaneTracker for a listed pane without a tracker.  The pipe starts  *)
(* with what the pane prints from here on.                                 *)
StartTracker(p) == \E t \in Tracker :
    /\ SubAt("diff") /\ p \in sub.todo /\ p \in alive
    /\ reader[t] = Free /\ \A q \in DOMAIN trackers : trackers[q] # t
    /\ sub' = [sub EXCEPT !.todo = @ \ {p}]
    /\ pipe' = [pipe EXCEPT ![p] = t]
    /\ trackers' = [q \in DOMAIN trackers \cup {p} |-> IF q = p THEN t ELSE trackers[q]]
    /\ reader' = [reader EXCEPT ![t] = [Free EXCEPT !.pane = p, !.live = TRUE, !.open = TRUE,
                                                    !.from = printed[p]]]
    /\ UNCHANGED <<tmuxVars, out, controllerVars, cancelled>>

(* A mutation of StartFails: the pane counts as tracked all the same. *)
WrongStartFails(p) == \E t \in Tracker :
    /\ SubAt("diff") /\ p \in sub.todo
    /\ sub' = [sub EXCEPT !.todo = @ \ {p}]
    /\ trackers' = [q \in DOMAIN trackers \cup {p} |-> IF q = p THEN t ELSE trackers[q]]
    /\ UNCHANGED <<tmuxVars, pipe, reader, out, controllerVars, cancelled>>

(* It fails for a pane that is gone, and may fail for another: the next    *)
(* poll tries again.  A pipe-pane that took effect and failed all the same *)
(* has put a pipe into a FIFO that is removed at once in the place of the  *)
(* one there was.                                                          *)
StartFails(p) ==
    /\ SubAt("diff") /\ p \in sub.todo
    /\ pipe' \in {pipe, [pipe EXCEPT ![p] = NoTracker]}
    /\ sub' = [sub EXCEPT !.todo = @ \ {p}]
    /\ UNCHANGED <<tmuxVars, trackers, reader, out, controllerVars, cancelled>>

(* A mutation of Stop: the FIFO is not closed. *)
WrongStopOpen(p) ==
    /\ pipe' \in {pipe, [pipe EXCEPT ![p] = NoTracker]}
    /\ trackers' = [q \in DOMAIN trackers \ {p} |-> trackers[q]]
    /\ UNCHANGED reader

(* paneTracker.stop: tmux is told to stop piping, which it may not do (the *)
(* command's failure and its timeout are ignored), and the FIFO closes     *)
(* under its reader.                                                       *)
Stop(p) ==
    /\ pipe' \in {pipe, [pipe EXCEPT ![p] = NoTracker]}
    /\ reader' = [reader EXCEPT ![trackers[p]].open = FALSE, ![trackers[p]].fifo = <<>>]
    /\ trackers' = [q \in DOMAIN trackers \ {p} |-> trackers[q]]

Gone == DOMAIN trackers \ sub.seen

StopTracker(p) ==
    /\ SubAt("diff") /\ sub.todo = {} /\ p \in Gone
    /\ Stop(p)
    /\ sub' = [sub EXCEPT !.pc = "closed", !.closing = p]
    /\ UNCHANGED <<tmuxVars, out, controllerVars, cancelled>>

(* A mutation of SendClosed: a full channel loses the event. *)
WrongSendClosed ==
    /\ SubAt("closed")
    /\ out' = IF Room THEN Append(out, Event("closed", sub.closing, <<>>)) ELSE out
    /\ sub' = [sub EXCEPT !.pc = "diff", !.closing = NoPane]
    /\ UNCHANGED <<tmuxVars, pipe, trackers, reader, controllerVars, cancelled>>

SendClosed ==
    /\ SubAt("closed")
    /\ \/ Room /\ out' = Append(out, Event("closed", sub.closing, <<>>))
          /\ sub' = [sub EXCEPT !.pc = "diff", !.closing = NoPane]
       \/ cancelled /\ UNCHANGED out
          /\ sub' = [sub EXCEPT !.pc = "poll", !.closing = NoPane]
    /\ UNCHANGED <<tmuxVars, pipe, trackers, reader, controllerVars, cancelled>>

SyncDone ==
    /\ SubAt("diff") /\ sub.todo = {} /\ Gone = {}
    /\ sub' = [sub EXCEPT !.pc = "poll", !.seen = {}]
    /\ UNCHANGED <<tmuxVars, pipe, trackers, reader, out, controllerVars, cancelled>>

(* run: between polls the context may be found done; then teardown, the    *)
(* wait for the readers, and the close of the channel.                     *)
BeginTeardown ==
    /\ SubAt("poll") /\ cancelled
    /\ sub' = [sub EXCEPT !.pc = "teardown"]
    /\ UNCHANGED <<tmuxVars, pipe, trackers, reader, out, controllerVars, cancelled>>

TeardownStop(p) ==
    /\ SubAt("teardown") /\ p \in DOMAIN trackers
    /\ Stop(p)
    /\ UNCHANGED <<tmuxVars, sub, out, controllerVars, cancelled>>

CloseOut ==
    /\ SubAt("teardown") /\ trackers = <<>> /\ \A t \in Tracker : ~reader[t].live
    /\ sub' = [sub EXCEPT !.pc = "done"]
    /\ UNCHANGED <<tmuxVars, pipe, trackers, reader, out, controllerVars, cancelled>>

-----------------------------------------------------------------------------
(* A mutation of ReadFifo: it waits for a full buffer, of two bytes here. *)
WrongReadFifo(t) ==
    /\ reader[t].live /\ reader[t].open /\ reader[t].hold = <<>>
    /\ Len(reader[t].fifo) >= 2
    /\ reader' = [reader EXCEPT ![t].hold = SubSeq(reader[t].fifo, 1, 2),
                                ![t].fifo = SubSeq(@, 3, Len(@))]
    /\ UNCHANGED <<tmuxVars, pipe, sub, trackers, out, controllerVars, cancelled>>

(* paneTracker.read *)
ReadFifo(t) == \E n \in 1..Len(reader[t].fifo) :
    /\ reader[t].live /\ reader[t].open /\ reader[t].hold = <<>>
    /\ reader' = [reader EXCEPT ![t].hold = SubSeq(reader[t].fifo, 1, n),
                                ![t].fifo = SubSeq(@, n + 1, Len(@))]
    /\ UNCHANGED <<tmuxVars, pipe, sub, trackers, out, controllerVars, cancelled>>

(* A mutation of Deliver: a full channel loses the chunk. *)
WrongDeliver(t) ==
    /\ reader[t].live /\ reader[t].hold # <<>>
    /\ out' = IF Room THEN Append(out, Event("data", reader[t].pane, reader[t].hold)) ELSE out
    /\ reader' = [reader EXCEPT ![t].hold = <<>>]
    /\ UNCHANGED <<tmuxVars, pipe, sub, trackers, controllerVars, cancelled>>

Deliver(t) ==
    /\ reader[t].live /\ reader[t].hold # <<>> /\ Room
    /\ out' = Append(out, Event("data", reader[t].pane, reader[t].hold))
    /\ reader' = [reader EXCEPT ![t].hold = <<>>]
    /\ UNCHANGED <<tmuxVars, pipe, sub, trackers, controllerVars, cancelled>>

(* The reader returns on a closed FIFO, or from a send if the context is   *)
(* done; its deferred calls close and remove the FIFO, and with it what    *)
(* tmux still pipes into it.                                               *)
ReaderReturns(t) ==
    /\ reader[t].live
    /\ IF reader[t].hold = <<>> THEN ~reader[t].open ELSE cancelled
    /\ reader' = [reader EXCEPT ![t] = Free]
    /\ pipe' = [p \in Pane |-> IF pipe[p] = t THEN NoTracker ELSE pipe[p]]
    /\ UNCHANGED <<tmuxVars, sub, trackers, out, controllerVars, cancelled>>

-----------------------------------------------------------------------------
(* Controller.drain *)
DrainEvent ==
    /\ out # <<>>
    /\ out' = Tail(out)
    /\ LET e == Head(out) IN
       \/ e.kind = "data" /\ StoreAppend(e.pane, e.bytes) /\ UNCHANGED <<serverLost, forgotten>>
       \/ e.kind = "closed" /\ StoreForget(e.pane) /\ forgotten' = forgotten \cup {e.pane}
          /\ UNCHANGED serverLost
       \/ e.kind = "lost" /\ serverLost' = TRUE /\ UNCHANGED <<storeVars, forgotten>>
    /\ UNCHANGED <<tmuxVars, pipe, sub, trackers, reader, drained, cancelled>>

DrainEnds ==
    /\ SubAt("done") /\ out = <<>> /\ ~drained
    /\ drained' = TRUE
    /\ UNCHANGED <<tmuxVars, pipe, sub, trackers, reader, out,
                   storeVars, serverLost, forgotten, cancelled>>

(* Controller.Stop, on request or in answer to the loss of the server. *)
CancelFeed ==
    /\ ~cancelled /\ cancelled' = TRUE
    /\ UNCHANGED <<tmuxVars, pipe, sub, trackers, reader, out, controllerVars>>

Sync == \/ PollOk \/ PollFails \/ SendLost \/ SendClosed \/ SyncDone
        \/ \E p \in Pane : StartTracker(p) \/ StartFails(p) \/ StopTracker(p)

Run == Sync \/ BeginTeardown \/ (\E p \in Pane : TeardownStop(p)) \/ CloseOut

ReaderStep(t) == ReadFifo(t) \/ Deliver(t) \/ ReaderReturns(t)

FeedNext == \/ Tmux
            \/ Run
            \/ \E t \in Tracker : ReaderStep(t)
            \/ DrainEvent \/ DrainEnds
            \/ CancelFeed

FeedSpec == FeedInit /\ [][FeedNext]_feedVars

(* Every goroutine runs, polls recur, and a select does not pass over a    *)
(* ready case for ever.  Of tmux it is asked that pipe-pane does not fail  *)
(* for ever on a live pane.                                                *)
FeedFairness == /\ WF_feedVars(Run) /\ SF_feedVars(BeginTeardown)
                /\ \A t \in Tracker : WF_feedVars(ReaderStep(t)) /\ SF_feedVars(Deliver(t))
                /\ \A p \in Pane : SF_feedVars(StartTracker(p))
                /\ WF_feedVars(DrainEvent) /\ WF_feedVars(DrainEnds)

FairFeedSpec == FeedSpec /\ FeedFairness

-----------------------------------------------------------------------------
EventType == [kind : {"data", "closed", "lost"}, pane : Pane \cup {NoPane}, bytes : Seq(Byte)]

ReaderType == [pane : Pane \cup {NoPane}, live : BOOLEAN, open : BOOLEAN,
               fifo : Seq(Byte), hold : Seq(Byte), from : Nat]

(* With what ties the maps together.  A FIFO is open only while its pane   *)
(* is tracked with it.  What tmux pipes a pane into has a reader, which    *)
(* sends for that pane; of a tracked pane it is no other than its tracker, *)
(* but a pane may stay piped into a FIFO that was closed.                  *)
FeedTypeOK ==
    /\ StoreTypeOK
    /\ alive \subseteq born /\ killed \cap alive = {}
    /\ pipe \in [Pane -> Tracker \cup {NoTracker}]
    /\ trackers \in [DOMAIN trackers -> Tracker] /\ DOMAIN trackers \subseteq Pane
    /\ reader \in [Tracker -> ReaderType]
    /\ \A t \in Tracker : reader[t].open =>
           reader[t].pane \in DOMAIN trackers /\ trackers[reader[t].pane] = t
    /\ \A p \in Pane : pipe[p] # NoTracker =>
           /\ reader[pipe[p]].live /\ reader[pipe[p]].pane = p
           /\ p \in DOMAIN trackers => trackers[p] = pipe[p]
    /\ \A i \in DOMAIN out : out[i] \in EventType
    /\ sub.failures \in 0..serverLostThreshold

(* What of p's output is on its way: in the channel, in the reader's hand, *)
(* in the FIFO.                                                            *)
Retained(p) == IF Known(p) THEN BufferRead(bufs[p], bufs[p].start) ELSE <<>>

Queued(p) == FlattenSeq([i \in DOMAIN out |-> IF out[i].pane = p THEN out[i].bytes ELSE <<>>])

InTransit(p) == IF pipe[p] = NoTracker THEN Queued(p)
                ELSE Queued(p) \o reader[pipe[p]].hold \o reader[pipe[p]].fifo

Piped(p) == pipe[p] # NoTracker /\ reader[pipe[p]].open

(* The adapter preserves the order of a pane's output and drops none of it *)
(* (port.go:25, spec 11.8): what the store retains of a piped pane,        *)
(* followed by what is on its way, is what the pane printed, to the last   *)
(* byte; and the absolute offsets count every byte since the pipe began.   *)
NothingSkipped ==
    \A p \in Pane : Piped(p) =>
        LET s == Retained(p) \o InTransit(p) IN
        /\ \A i \in DOMAIN s : s[i] = printed[p] - Len(s) + i
        /\ BufferOf(p).end + Len(InTransit(p)) = printed[p] - reader[pipe[p]].from

(* A pane is reported closed only if it was destroyed by itself: those     *)
(* that went down with their server are not (spec 11.9 "PANE_CLOSED is     *)
(* reserved for per-pane destruction on an otherwise live tmux server").   *)
ClosedMeansKilled ==
    /\ \A i \in DOMAIN out : out[i].kind = "closed" => out[i].pane \in killed
    /\ forgotten \subseteq killed

(* ServerLost is emitted at most once (port.go:21), never of a server that *)
(* only had blips (subscribe_unix.go:38-43).                               *)
LostOnce ==
    /\ Cardinality({i \in DOMAIN out : out[i].kind = "lost"}) + (IF serverLost THEN 1 ELSE 0) <= 1
    /\ restarts = 0 /\ serverUp => ~sub.lostNotified

(* A destroyed pane's retained stream is dropped for good (spec 11.9,      *)
(* 17.35).                                                                 *)
ForgottenStaysUnknown == \A p \in forgotten : p \in killed => ~Known(p)

-----------------------------------------------------------------------------
(* A server that is gone for good is noticed, unless the daemon stops.     *)
LossIsReported == <>[]~serverUp => <>(serverLost \/ cancelled)

(* The destruction of a tracked pane reaches the store, unless the daemon  *)
(* stops or the server goes down, or a new one uses the id again.          *)
ClosureIsReported ==
    \A p \in Pane : (p \in killed /\ p \in DOMAIN trackers)
                      ~> (p \in forgotten \cup alive \/ cancelled \/ ~serverUp)

(* A pane that lives on is piped sooner or later, so that its output is    *)
(* seen (subscribe_unix.go:17-20), however often pipe-pane or a poll fails *)
(* in between; unless the server restarts, which uses pane ids again.      *)
LivePaneIsPiped ==
    \A p \in Pane : <>[](p \in alive /\ ~cancelled /\ restarts = 0) => <>[]Piped(p)

(* Stop returns: the channel closes once every reader has returned, whether *)
(* blocked in a read or in a send, and the drain goroutine ends.           *)
StopReturns == cancelled ~> drained

(* What has been printed into a pipe arrives: nothing waits for ever.      *)
OutputArrives == \A p \in Pane : []<>(InTransit(p) = <<>>)
=============================================================================
