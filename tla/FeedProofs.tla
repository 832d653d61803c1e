----------------------------- MODULE FeedProofs -----------------------------
(***************************************************************************)
(* From the pane to the store, for any number of panes and FIFOs, any      *)
(* capacity of the ring and of the channel, and any output: what is on its *)
(* way is complete and in order, closures are told of destroyed panes      *)
(* only, the loss of the server is told once, and a token misses nothing.  *)
(***************************************************************************)
EXTENDS Bootstrap, RingProofs, DataInduction, FiniteSetTheorems

-----------------------------------------------------------------------------
(* A step of the feed, or the creation of a buffer for a token: what       *)
(* FeedSpec and BootstrapSpec have in common.                              *)
Mint(p) == CreateBuffer(p) /\ UNCHANGED <<watching, sig, parked, now, tmuxVars, pipe, sub, trackers,
                                          reader, out, serverLost, drained, forgotten, cancelled>>

FeedStep == FeedNext \/ \E p \in Pane : Mint(p)

StepSpec == FeedInit /\ [][FeedStep]_feedVars

LEMMA FeedSteps == FeedSpec => StepSpec
  <1>1. FeedNext => FeedStep
    BY DEF FeedStep
  <1> QED BY <1>1, PTL DEF FeedSpec, StepSpec

ShotPane == shot.pc = "captured" => shot.pane \in Pane

LEMMA BootstrapSteps == BootstrapSpec => StepSpec
  <1>1. BootstrapInit => FeedInit /\ ShotPane
    BY DEF BootstrapInit, NoShot, ShotPane
  <1>2. ASSUME ShotPane, [BootstrapNext]_bootstrapVars PROVE ShotPane'
    <2>1. ASSUME NEW p \in Pane, CaptureScreen(p) PROVE ShotPane'
      <3>1. CASE shot' = [shot EXCEPT !.pc = "captured", !.pane = p, !.seen = printed[p]]
        BY <1>2, <2>1 DEF CaptureScreen, ShotPane
      <3> QED BY <2>1, <3>1 DEF CaptureScreen
    <2>2. CASE MintToken
      BY <2>2 DEF MintToken, ShotPane
    <2>3. CASE DropToken
      BY <2>3 DEF DropToken, NoShot, ShotPane
    <2>4. CASE UNCHANGED shot
      BY <1>2, <2>4 DEF ShotPane
    <2> QED BY <1>2, <2>1, <2>2, <2>3, <2>4 DEF BootstrapNext, bootstrapVars
  <1>3. ASSUME ShotPane, [BootstrapNext]_bootstrapVars PROVE [FeedStep]_feedVars
    <2>1. CASE MintToken
      <3>1. shot.pane \in Pane
        BY <1>3, <2>1 DEF MintToken, ShotPane
      <3>2. Mint(shot.pane)
        BY <2>1 DEF MintToken, Mint
      <3> QED BY <3>1, <3>2 DEF FeedStep
    <2>2. CASE FeedNext
      BY <2>2 DEF FeedStep
    <2>3. CASE UNCHANGED feedVars
      BY <2>3
    <2> QED BY <1>3, <2>1, <2>2, <2>3 DEF BootstrapNext, bootstrapVars, CaptureScreen, DropToken
  <1> QED BY <1>1, <1>2, <1>3, PTL DEF BootstrapSpec, StepSpec

-----------------------------------------------------------------------------
(* What travels on the channel. *)
WellEvent == {e \in EventType :
    /\ e.kind = "data" => e.pane \in Pane /\ e.bytes # <<>>
    /\ e.kind = "closed" => e.pane \in Pane /\ e.bytes = <<>>
    /\ e.kind = "lost" => e.pane = NoPane /\ e.bytes = <<>>}

SubType == [pc : {"poll", "lost", "diff", "closed", "teardown", "done"},
            failures : 0..serverLostThreshold, lostNotified : BOOLEAN,
            seen : SUBSET Pane, todo : SUBSET Pane, closing : Pane \cup {NoPane}]

PanesOK ==
    /\ serverUp \in BOOLEAN /\ restarts \in Nat /\ blips \in Nat
    /\ alive \subseteq born /\ born \subseteq Pane /\ killed \subseteq Pane
    /\ killed \cap alive = {} /\ (~serverUp => alive = {})
    /\ printed \in [Pane -> 0..MaxPrint]

SubOK ==
    /\ sub \in SubType
    /\ sub.pc = "closed" => sub.closing \in Pane /\ sub.todo = {}
    /\ sub.pc = "diff" => sub.todo \subseteq sub.seen /\ sub.todo \cap DOMAIN trackers = {}

(* A FIFO tracks one pane; a tracked pane is piped into no other. *)
TrackersOK ==
    /\ trackers \in [DOMAIN trackers -> Tracker] /\ DOMAIN trackers \subseteq Pane
    /\ \A p, q \in DOMAIN trackers : trackers[p] = trackers[q] => p = q
    /\ pipe \in [Pane -> Tracker \cup {NoTracker}]
    /\ \A p \in Pane : pipe[p] # NoTracker =>
         p \in alive /\ (p \in DOMAIN trackers => trackers[p] = pipe[p])

(* A FIFO is open while it is tracked; its reader reads the pane's output. *)
ReaderOK(t) ==
    /\ ~reader[t].live => reader[t] = Free
    /\ reader[t].live => reader[t].pane \in Pane
    /\ reader[t].open => \E p \in DOMAIN trackers : trackers[p] = t

ReadersOK ==
    /\ reader \in [Tracker -> ReaderType]
    /\ \A t \in Tracker : ReaderOK(t)
    /\ \A p \in DOMAIN trackers : reader[trackers[p]].live => reader[trackers[p]].pane = p

(* What a pane is piped into has a reader, which sends for that pane. *)
PipesOK == \A p \in Pane : pipe[p] # NoTracker => reader[pipe[p]].live /\ reader[pipe[p]].pane = p

StoreOK == StoreTypeOK /\ out \in Seq(WellEvent) /\ serverLost \in BOOLEAN /\ forgotten \subseteq Pane

FeedInv == StoreOK /\ PanesOK /\ SubOK /\ TrackersOK /\ ReadersOK /\ PipesOK

LEMMA FreeType == Free \in ReaderType /\ ~Free.live /\ ~Free.open /\ Free.hold = <<>> /\ Free.fifo = <<>>
  <1>1. <<>> \in Seq(Byte)
    BY EmptySeq
  <1> QED BY <1>1 DEF Free, ReaderType

LEMMA EventTyped ==
  ASSUME NEW e \in WellEvent
  PROVE  e.kind \in {"data", "closed", "lost"} /\ e.pane \in Pane \cup {NoPane} /\ e.bytes \in Seq(Byte)
  BY DEF WellEvent, EventType

LEMMA EventOK ==
  /\ \A p \in Pane, bytes \in Seq(Byte) : bytes # <<>> => Event("data", p, bytes) \in WellEvent
  /\ \A p \in Pane : Event("closed", p, <<>>) \in WellEvent
  /\ Event("lost", NoPane, <<>>) \in WellEvent
  <1>1. <<>> \in Seq(Byte)
    BY EmptySeq
  <1> QED BY <1>1 DEF Event, WellEvent, EventType

LEMMA FeedInitType == FeedInit => FeedInv
  <1> SUFFICES ASSUME FeedInit PROVE FeedInv
    OBVIOUS
  <1>1. StoreOK
    <2>1. out \in Seq(WellEvent)
      BY EmptySeq DEF FeedInit
    <2>2. DOMAIN bufs = {} /\ bufs \in [DOMAIN bufs -> ValidBuffer]
      BY DEF FeedInit, StoreInit
    <2> QED BY <2>1, <2>2 DEF FeedInit, StoreInit, StoreOK, StoreTypeOK
  <1>2. PanesOK
    BY FeedAssumption DEF FeedInit, PanesOK
  <1>3. SubOK
    BY DEF FeedInit, SubOK, SubType, serverLostThreshold
  <1>4. TrackersOK
    <2>1. DOMAIN trackers = {} /\ trackers \in [DOMAIN trackers -> Tracker]
      BY DEF FeedInit
    <2> QED BY <2>1 DEF FeedInit, TrackersOK
  <1>5. ReadersOK
    <2>1. DOMAIN trackers = {}
      BY DEF FeedInit
    <2>2. reader \in [Tracker -> ReaderType] /\ \A t \in Tracker : reader[t] = Free
      BY FreeType DEF FeedInit
    <2> QED BY <2>1, <2>2, FreeType DEF ReadersOK, ReaderOK
  <1>6. PipesOK
    BY DEF FeedInit, PipesOK
  <1> QED BY <1>1, <1>2, <1>3, <1>4, <1>5, <1>6 DEF FeedInv

(* What stops a pipe, or may stop it, opens none. *)
FewerPipes ==
    /\ pipe' \in [Pane -> Tracker \cup {NoTracker}]
    /\ \A p \in Pane : pipe'[p] \in {pipe[p], NoTracker}

LEMMA PipesStop ==
  ASSUME FeedInv,
         \/ UNCHANGED pipe
         \/ \E p \in Pane : StartFails(p) \/ Stop(p)
         \/ \E t \in Tracker : ReaderReturns(t)
  PROVE  FewerPipes
  <1>1. pipe \in [Pane -> Tracker \cup {NoTracker}]
    BY DEF FeedInv, TrackersOK
  <1>2. CASE UNCHANGED pipe
    BY <1>1, <1>2 DEF FewerPipes
  <1>3. ASSUME NEW p \in Pane, pipe' \in {pipe, [pipe EXCEPT ![p] = NoTracker]} PROVE FewerPipes
    BY <1>1, <1>3 DEF FewerPipes
  <1>4. ASSUME NEW t \in Tracker, pipe' = [p \in Pane |-> IF pipe[p] = t THEN NoTracker ELSE pipe[p]]
        PROVE  FewerPipes
    BY <1>1, <1>4 DEF FewerPipes
  <1> QED BY <1>2, <1>3, <1>4 DEF StartFails, Stop, ReaderReturns

(* The tmux server and its panes: the FIFOs alone see it. *)
LEMMA TmuxType == ASSUME FeedInv, Tmux PROVE FeedInv'
  <1> USE DEF FeedInv
  <1>1. UNCHANGED <<controllerVars, out, sub, trackers>>
    BY DEF Tmux, NewPane, Output, KillPane, ServerDies, ServerStarts
  <1>2. StoreOK' /\ SubOK'
    BY <1>1 DEF StoreOK, StoreTypeOK, SubOK, controllerVars, storeVars
  <1>3. PanesOK'
    <2>1. ASSUME NEW p \in Pane, NewPane(p) PROVE PanesOK'
      BY <2>1 DEF NewPane, PanesOK
    <2>2. ASSUME NEW p \in Pane, Output(p) PROVE PanesOK'
      <3>1. printed[p] + 1 \in 0..MaxPrint
        BY <2>2, FeedAssumption DEF Output, PanesOK
      <3> QED BY <2>2, <3>1 DEF Output, PanesOK
    <2>3. ASSUME NEW p \in Pane, KillPane(p) PROVE PanesOK'
      BY <2>3 DEF KillPane, PanesOK
    <2>4. CASE ServerDies
      BY <2>4 DEF ServerDies, PanesOK
    <2>5. CASE ServerStarts
      BY <2>5 DEF ServerStarts, PanesOK
    <2> QED BY <2>1, <2>2, <2>3, <2>4, <2>5 DEF Tmux
  <1>4. TrackersOK'
    <2>1. \A p \in Pane : pipe'[p] # NoTracker => pipe'[p] = pipe[p] /\ p \in alive'
      <3>1. ASSUME NEW p \in Pane, NewPane(p) \/ Output(p) \/ KillPane(p)
            PROVE  \A q \in Pane : pipe'[q] # NoTracker => pipe'[q] = pipe[q] /\ q \in alive'
        BY <3>1 DEF NewPane, Output, KillPane, TrackersOK
      <3>2. CASE ServerDies
        BY <3>2 DEF ServerDies
      <3>3. CASE ServerStarts
        <4>1. pipe' = pipe /\ ~serverUp
          BY <3>3 DEF ServerStarts
        <4> QED BY <4>1 DEF TrackersOK, PanesOK
      <3> QED BY <3>1, <3>2, <3>3 DEF Tmux
    <2>2. pipe' \in [Pane -> Tracker \cup {NoTracker}]
      BY DEF Tmux, NewPane, Output, KillPane, ServerDies, ServerStarts, TrackersOK
    <2> QED BY <1>1, <2>1, <2>2 DEF TrackersOK
  <1>5. ReadersOK'
    <2>1. ASSUME NEW p \in Pane, Output(p) PROVE ReadersOK'
      <3>1. printed'[p] \in Byte
        BY <2>1, FeedAssumption DEF Output, PanesOK
      <3>2. ASSUME NEW t \in Tracker
            PROVE  /\ reader'[t] \in ReaderType
                   /\ reader'[t].live = reader[t].live /\ reader'[t].pane = reader[t].pane
                   /\ reader'[t].open = reader[t].open
                   /\ reader[t].open \/ reader'[t] = reader[t]
        <4>1. Append(reader[t].fifo, printed'[p]) \in Seq(Byte)
          BY <3>1, AppendProperties DEF ReadersOK, ReaderType
        <4> QED BY <2>1, <4>1 DEF Output, ReadersOK, ReaderType
      <3>3. reader' \in [Tracker -> ReaderType]
        BY <2>1, <3>2 DEF Output
      <3>4. ASSUME NEW t \in Tracker PROVE ReaderOK(t)'
        <4>1. ReaderOK(t) /\ (reader[t].open => reader[t].live)
          BY FreeType DEF ReadersOK, ReaderOK
        <4> QED BY <1>1, <3>2, <4>1 DEF ReaderOK
      <3> QED BY <1>1, <3>2, <3>3, <3>4 DEF ReadersOK, TrackersOK
    <2>2. CASE UNCHANGED reader
      BY <1>1, <2>2 DEF ReadersOK, ReaderOK
    <2> QED BY <2>1, <2>2 DEF Tmux, NewPane, KillPane, ServerDies, ServerStarts
  <1>6. PipesOK'
    <2>1. ASSUME NEW p \in Pane, pipe'[p] # NoTracker PROVE pipe'[p] = pipe[p] /\ pipe[p] \in Tracker
      BY <2>1 DEF Tmux, NewPane, Output, KillPane, ServerDies, ServerStarts, TrackersOK
    <2>2. ASSUME NEW t \in Tracker
          PROVE  reader'[t].live = reader[t].live /\ reader'[t].pane = reader[t].pane
      <3>1. ASSUME NEW p \in Pane, Output(p)
            PROVE  reader'[t].live = reader[t].live /\ reader'[t].pane = reader[t].pane
        BY <3>1 DEF Output, ReadersOK, ReaderType
      <3> QED BY <3>1 DEF Tmux, NewPane, KillPane, ServerDies, ServerStarts
    <2> QED BY <2>1, <2>2 DEF PipesOK
  <1> QED BY <1>2, <1>3, <1>4, <1>5, <1>6

(* The subscription: polls, *)
LEMMA PollType == ASSUME FeedInv, PollOk \/ PollFails PROVE FeedInv'
  <1> USE DEF FeedInv
  <1>1. /\ UNCHANGED <<serverUp, restarts, alive, born, printed, killed, pipe,
                       trackers, reader, out, controllerVars, cancelled>>
        /\ blips' \in Nat
    BY DEF PollOk, PollFails, PanesOK
  <1>2. StoreOK' /\ PanesOK' /\ TrackersOK' /\ ReadersOK' /\ PipesOK'
    BY <1>1 DEF StoreOK, StoreTypeOK, PanesOK, TrackersOK, ReadersOK, ReaderOK, PipesOK, controllerVars, storeVars
  <1>3. CASE PollOk
    <2>1. sub' \in SubType
      <3>1. alive \in SUBSET Pane /\ alive \ DOMAIN trackers \in SUBSET Pane
        BY DEF PanesOK
      <3>2. 0 \in 0..serverLostThreshold
        BY DEF serverLostThreshold
      <3>3. sub' = [sub EXCEPT !.pc = "diff", !.failures = 0, !.seen = alive,
                               !.todo = alive \ DOMAIN trackers]
        BY <1>3 DEF PollOk
      <3> QED BY <3>1, <3>2, <3>3 DEF SubOK, SubType
    <2>2. sub'.pc = "diff" /\ sub'.seen = alive /\ sub'.todo = alive \ DOMAIN trackers
      BY <1>3 DEF PollOk, SubOK, SubType
    <2>3. SubOK'
      BY <1>1, <2>1, <2>2 DEF SubOK
    <2> QED BY <1>2, <2>3
  <1>4. CASE PollFails
    <2>1. PICK failures \in 0..serverLostThreshold, lose \in BOOLEAN :
            sub' = [sub EXCEPT !.failures = failures, !.lostNotified = @ \/ lose,
                               !.pc = IF lose THEN "lost" ELSE "poll"]
      <3> DEFINE failures == IF sub.failures < serverLostThreshold THEN sub.failures + 1 ELSE sub.failures
      <3>1. failures \in 0..serverLostThreshold
        BY DEF SubOK, SubType, serverLostThreshold
      <3>2. Lose(failures) \in BOOLEAN
        BY DEF Lose
      <3> HIDE DEF failures
      <3>3. sub' = [sub EXCEPT !.failures = failures, !.lostNotified = @ \/ Lose(failures),
                               !.pc = IF Lose(failures) THEN "lost" ELSE "poll"]
        BY <1>4 DEF PollFails, failures
      <3> QED BY <3>1, <3>2, <3>3
    <2>2. sub' \in SubType
      BY <2>1 DEF SubOK, SubType
    <2>3. sub'.pc \in {"lost", "poll"}
      BY <2>1 DEF SubOK, SubType
    <2> QED BY <1>2, <2>2, <2>3 DEF SubOK
  <1> QED BY <1>3, <1>4

(* sends, and rounds without a tracker to start or stop, *)
LEMMA SendType == ASSUME FeedInv, SendLost \/ SendClosed PROVE FeedInv'
  <1> USE DEF FeedInv
  <1>1. UNCHANGED <<tmuxVars, pipe, trackers, reader, controllerVars, cancelled>>
    BY DEF SendLost, SendClosed
  <1>2. PanesOK' /\ TrackersOK' /\ ReadersOK' /\ PipesOK'
    BY <1>1 DEF PanesOK, TrackersOK, ReadersOK, ReaderOK, PipesOK, tmuxVars
  <1>3. out' \in Seq(WellEvent)
    BY EventOK, AppendProperties DEF SendLost, SendClosed, SubAt, SubOK, StoreOK
  <1>4. StoreOK'
    BY <1>1, <1>3 DEF StoreOK, StoreTypeOK, controllerVars, storeVars
  <1>5. SubOK'
    <2>1. CASE SendLost
      BY <2>1 DEF SendLost, SubOK, SubType, SubAt
    <2>2. CASE SendClosed
      <3>1. CASE sub' = [sub EXCEPT !.pc = "diff", !.closing = NoPane]
        BY <1>1, <2>2, <3>1 DEF SendClosed, SubAt, SubOK, SubType
      <3>2. CASE sub' = [sub EXCEPT !.pc = "poll", !.closing = NoPane]
        BY <3>2 DEF SubOK, SubType
      <3> QED BY <2>2, <3>1, <3>2 DEF SendClosed
    <2> QED BY <2>1, <2>2
  <1> QED BY <1>2, <1>4, <1>5

LEMMA RoundType ==
  ASSUME FeedInv, (\E p \in Pane : StartFails(p)) \/ SyncDone \/ BeginTeardown \/ CloseOut
  PROVE  FeedInv'
  <1> USE DEF FeedInv
  <1>1. UNCHANGED <<tmuxVars, trackers, reader, out, controllerVars, cancelled>>
    BY DEF StartFails, SyncDone, BeginTeardown, CloseOut
  <1>p. FewerPipes
    BY PipesStop DEF SyncDone, BeginTeardown, CloseOut
  <1>2. StoreOK' /\ PanesOK' /\ TrackersOK' /\ ReadersOK' /\ PipesOK'
    BY <1>1, <1>p DEF StoreOK, StoreTypeOK, PanesOK, TrackersOK, ReadersOK, ReaderOK, PipesOK, FewerPipes,
                      controllerVars, storeVars, tmuxVars
  <1>3. ASSUME NEW p \in Pane, StartFails(p) PROVE SubOK'
    BY <1>1, <1>3 DEF StartFails, SubOK, SubType, SubAt
  <1>4. CASE SyncDone
    BY <1>2, <1>4 DEF SyncDone, SubOK, SubType
  <1>5. CASE BeginTeardown
    BY <1>2, <1>5 DEF BeginTeardown, SubOK, SubType
  <1>6. CASE CloseOut
    BY <1>2, <1>6 DEF CloseOut, SubOK, SubType
  <1> QED BY <1>2, <1>3, <1>4, <1>5, <1>6

(* the start of a tracker, on a FIFO that none has, *)
LEMMA StartEffect ==
  ASSUME FeedInv, NEW p \in Pane, StartTracker(p)
  PROVE  \E t \in Tracker :
           /\ p \in alive /\ p \notin DOMAIN trackers
           /\ reader[t] = Free /\ \A q \in DOMAIN trackers : trackers[q] # t
           /\ pipe' = [pipe EXCEPT ![p] = t]
           /\ DOMAIN trackers' = DOMAIN trackers \cup {p}
           /\ trackers'[p] = t /\ \A q \in DOMAIN trackers : trackers'[q] = trackers[q]
           /\ trackers' \in [DOMAIN trackers' -> Tracker]
           /\ reader' \in [Tracker -> ReaderType]
           /\ reader'[t] = [Free EXCEPT !.pane = p, !.live = TRUE, !.open = TRUE, !.from = printed[p]]
           /\ \A u \in Tracker : u # t => reader'[u] = reader[u]
           /\ UNCHANGED <<tmuxVars, out, controllerVars, cancelled>>
  <1> USE DEF FeedInv
  <1>1. PICK t \in Tracker :
          /\ SubAt("diff") /\ p \in sub.todo /\ p \in alive
          /\ reader[t] = Free /\ \A q \in DOMAIN trackers : trackers[q] # t
          /\ pipe' = [pipe EXCEPT ![p] = t]
          /\ trackers' = [q \in DOMAIN trackers \cup {p} |-> IF q = p THEN t ELSE trackers[q]]
          /\ reader' = [reader EXCEPT ![t] = [Free EXCEPT !.pane = p, !.live = TRUE, !.open = TRUE,
                                                          !.from = printed[p]]]
          /\ UNCHANGED <<tmuxVars, out, controllerVars, cancelled>>
    BY DEF StartTracker
  <1>2. p \notin DOMAIN trackers
    BY <1>1 DEF SubOK, SubAt
  <1>3. [Free EXCEPT !.pane = p, !.live = TRUE, !.open = TRUE, !.from = printed[p]] \in ReaderType
    <2>1. printed[p] \in Nat
      BY FeedAssumption DEF PanesOK
    <2> QED BY <2>1, FreeType DEF ReaderType
  <1>4. /\ DOMAIN trackers' = DOMAIN trackers \cup {p}
        /\ trackers'[p] = t /\ \A q \in DOMAIN trackers : trackers'[q] = trackers[q]
        /\ trackers' \in [DOMAIN trackers' -> Tracker]
    BY <1>1, <1>2 DEF TrackersOK
  <1>5. /\ reader' \in [Tracker -> ReaderType]
        /\ reader'[t] = [Free EXCEPT !.pane = p, !.live = TRUE, !.open = TRUE, !.from = printed[p]]
        /\ \A u \in Tracker : u # t => reader'[u] = reader[u]
    BY <1>1, <1>3 DEF ReadersOK
  <1> QED BY <1>1, <1>2, <1>4, <1>5

LEMMA StartType == ASSUME FeedInv, NEW p \in Pane, StartTracker(p) PROVE FeedInv'
  <1> USE DEF FeedInv
  <1>1. PICK t \in Tracker :
           /\ p \in alive /\ p \notin DOMAIN trackers
           /\ reader[t] = Free /\ \A q \in DOMAIN trackers : trackers[q] # t
           /\ pipe' = [pipe EXCEPT ![p] = t]
           /\ DOMAIN trackers' = DOMAIN trackers \cup {p}
           /\ trackers'[p] = t /\ \A q \in DOMAIN trackers : trackers'[q] = trackers[q]
           /\ trackers' \in [DOMAIN trackers' -> Tracker]
           /\ reader' \in [Tracker -> ReaderType]
           /\ reader'[t] = [Free EXCEPT !.pane = p, !.live = TRUE, !.open = TRUE, !.from = printed[p]]
           /\ \A u \in Tracker : u # t => reader'[u] = reader[u]
           /\ UNCHANGED <<tmuxVars, out, controllerVars, cancelled>>
    BY StartEffect
  <1>2. reader'[t].live /\ reader'[t].open /\ reader'[t].pane = p
    BY <1>1 DEF Free
  <1>3. StoreOK' /\ PanesOK'
    BY <1>1 DEF StoreOK, StoreTypeOK, PanesOK, controllerVars, storeVars, tmuxVars
  <1>4. SubOK'
    <2>1. sub' = [sub EXCEPT !.todo = @ \ {p}] /\ sub.pc = "diff"
      BY DEF StartTracker, SubAt
    <2>2. sub' \in SubType /\ sub'.pc = "diff" /\ sub'.seen = sub.seen /\ sub'.todo = sub.todo \ {p}
      BY <2>1 DEF SubOK, SubType
    <2> QED BY <1>1, <2>1, <2>2 DEF SubOK
  <1>5. TrackersOK'
    <2>1. pipe' \in [Pane -> Tracker \cup {NoTracker}]
      BY <1>1 DEF TrackersOK
    <2>2. ASSUME NEW q \in Pane, pipe'[q] # NoTracker
          PROVE q \in alive' /\ (q \in DOMAIN trackers' => trackers'[q] = pipe'[q])
      BY <1>1, <2>2 DEF TrackersOK, tmuxVars
    <2>3. ASSUME NEW q \in DOMAIN trackers', NEW r \in DOMAIN trackers', trackers'[q] = trackers'[r]
          PROVE  q = r
      BY <1>1, <2>3 DEF TrackersOK
    <2> QED BY <1>1, <2>1, <2>2, <2>3 DEF TrackersOK
  <1>6. ReadersOK'
    <2>1. ASSUME NEW u \in Tracker PROVE ReaderOK(u)'
      <3>1. CASE u = t
        BY <1>1, <1>2, <3>1 DEF ReaderOK
      <3>2. CASE u # t
        BY <1>1, <3>2 DEF ReadersOK, ReaderOK
      <3> QED BY <3>1, <3>2
    <2>2. ASSUME NEW q \in DOMAIN trackers', reader'[trackers'[q]].live
          PROVE  reader'[trackers'[q]].pane = q
      <3>1. CASE q = p
        BY <1>1, <1>2, <3>1
      <3>2. CASE q # p
        BY <1>1, <2>2, <3>2 DEF ReadersOK, TrackersOK
      <3> QED BY <3>1, <3>2
    <2> QED BY <1>1, <2>1, <2>2 DEF ReadersOK
  <1>7. PipesOK'
    <2>1. ASSUME NEW q \in Pane, pipe'[q] # NoTracker
          PROVE  reader'[pipe'[q]].live /\ reader'[pipe'[q]].pane = q
      <3>1. CASE q = p
        BY <1>1, <1>2, <3>1 DEF TrackersOK
      <3>2. CASE q # p
        <4>1. pipe'[q] = pipe[q] /\ pipe[q] \in Tracker /\ reader[pipe[q]].live /\ reader[pipe[q]].pane = q
          BY <1>1, <2>1, <3>2 DEF PipesOK, TrackersOK
        <4>2. pipe[q] # t
          BY <1>1, <4>1, FreeType
        <4> QED BY <1>1, <4>1, <4>2
      <3> QED BY <3>1, <3>2
    <2> QED BY <2>1 DEF PipesOK
  <1> QED BY <1>3, <1>4, <1>5, <1>6, <1>7

(* and its stop, which leaves the reader behind. *)
LEMMA StopEffect ==
  ASSUME FeedInv, NEW p \in DOMAIN trackers, Stop(p)
  PROVE  /\ trackers[p] \in Tracker /\ p \in Pane
         /\ FewerPipes
         /\ DOMAIN trackers' = DOMAIN trackers \ {p}
         /\ trackers' \in [DOMAIN trackers' -> Tracker]
         /\ \A q \in DOMAIN trackers' : trackers'[q] = trackers[q]
         /\ reader' \in [Tracker -> ReaderType]
         /\ reader'[trackers[p]] = [reader[trackers[p]] EXCEPT !.open = FALSE, !.fifo = <<>>]
         /\ /\ reader'[trackers[p]].live = reader[trackers[p]].live /\ ~reader'[trackers[p]].open
            /\ reader'[trackers[p]].pane = reader[trackers[p]].pane
         /\ \A u \in Tracker : u # trackers[p] => reader'[u] = reader[u]
  <1> USE DEF FeedInv
  <1>1. trackers[p] \in Tracker /\ p \in Pane
    BY DEF TrackersOK
  <1>2. FewerPipes
    BY <1>1, PipesStop
  <1>3. /\ DOMAIN trackers' = DOMAIN trackers \ {p}
        /\ trackers' \in [DOMAIN trackers' -> Tracker]
        /\ \A q \in DOMAIN trackers' : trackers'[q] = trackers[q]
    BY DEF Stop, TrackersOK
  <1>4. <<>> \in Seq(Byte)
    BY EmptySeq
  <1>5. /\ reader' \in [Tracker -> ReaderType]
        /\ reader'[trackers[p]] = [reader[trackers[p]] EXCEPT !.open = FALSE, !.fifo = <<>>]
        /\ \A u \in Tracker : u # trackers[p] => reader'[u] = reader[u]
    BY <1>1, <1>4, ZenonT(60) DEF Stop, ReadersOK, ReaderType
  <1>6. PICK r \in ReaderType : r = reader[trackers[p]]
    BY <1>1 DEF ReadersOK
  <1>7. reader'[trackers[p]] = [r EXCEPT !.open = FALSE, !.fifo = <<>>]
    BY <1>5, <1>6
  <1>8. /\ reader'[trackers[p]].live = reader[trackers[p]].live /\ ~reader'[trackers[p]].open
        /\ reader'[trackers[p]].pane = reader[trackers[p]].pane
    BY <1>6, <1>7 DEF ReaderType
  <1> QED BY <1>1, <1>2, <1>3, <1>5, <1>8

LEMMA StopType ==
  ASSUME FeedInv, (\E p \in Pane : StopTracker(p)) \/ (\E p \in Pane : TeardownStop(p))
  PROVE  FeedInv'
  <1> USE DEF FeedInv
  <1>1. PICK p \in DOMAIN trackers :
          /\ Stop(p) /\ UNCHANGED <<tmuxVars, out, controllerVars, cancelled>>
          /\ \/ sub' = sub /\ sub.pc = "teardown"
             \/ sub' = [sub EXCEPT !.pc = "closed", !.closing = p] /\ sub.todo = {}
    BY DEF StopTracker, TeardownStop, Gone, SubAt
  <1>2. /\ trackers[p] \in Tracker /\ p \in Pane
        /\ FewerPipes
        /\ DOMAIN trackers' = DOMAIN trackers \ {p}
        /\ trackers' \in [DOMAIN trackers' -> Tracker]
        /\ \A q \in DOMAIN trackers' : trackers'[q] = trackers[q]
        /\ reader' \in [Tracker -> ReaderType]
        /\ reader'[trackers[p]] = [reader[trackers[p]] EXCEPT !.open = FALSE, !.fifo = <<>>]
        /\ /\ reader'[trackers[p]].live = reader[trackers[p]].live /\ ~reader'[trackers[p]].open
           /\ reader'[trackers[p]].pane = reader[trackers[p]].pane
        /\ \A u \in Tracker : u # trackers[p] => reader'[u] = reader[u]
    BY <1>1, StopEffect
  <1>3. StoreOK' /\ PanesOK'
    BY <1>1 DEF StoreOK, StoreTypeOK, PanesOK, controllerVars, storeVars, tmuxVars
  <1>4. SubOK'
    BY <1>1, <1>2 DEF SubOK, SubType
  <1>5. TrackersOK'
    BY <1>1, <1>2 DEF TrackersOK, FewerPipes, tmuxVars
  <1>6. ASSUME NEW u \in Tracker PROVE ReaderOK(u)'
    <2>1. ReaderOK(u)
      BY DEF ReadersOK
    <2>2. CASE u = trackers[p]
      <3>1. /\ reader'[u].live = reader[u].live
            /\ reader'[u].pane = reader[u].pane /\ ~reader'[u].open
        BY <1>2, <2>2
      <3>2. [Free EXCEPT !.open = FALSE, !.fifo = <<>>] = Free
        BY FreeType DEF ReaderType
      <3>3. reader[u] = Free => reader'[u] = Free
        BY <1>2, <2>2, <3>2
      <3> QED BY <2>1, <3>1, <3>3 DEF ReaderOK
    <2>3. CASE u # trackers[p]
      BY <1>2, <2>1, <2>3 DEF ReaderOK
    <2> QED BY <2>2, <2>3
  <1>7. ASSUME NEW q \in DOMAIN trackers', reader'[trackers'[q]].live
        PROVE  reader'[trackers'[q]].pane = q
    <2>1. q \in DOMAIN trackers /\ trackers'[q] = trackers[q] /\ trackers[q] # trackers[p] /\ trackers[q] \in Tracker
      BY <1>2 DEF TrackersOK
    <2> QED BY <1>2, <1>7, <2>1 DEF ReadersOK
  <1>8. ASSUME NEW q \in Pane, pipe'[q] # NoTracker
        PROVE  reader'[pipe'[q]].live /\ reader'[pipe'[q]].pane = q
    <2>1. pipe'[q] = pipe[q] /\ pipe[q] \in Tracker /\ reader[pipe[q]].live /\ reader[pipe[q]].pane = q
      BY <1>2, <1>8 DEF FewerPipes, PipesOK, TrackersOK
    <2>2. CASE pipe[q] = trackers[p]
      <3>1. reader'[pipe[q]].live = reader[pipe[q]].live /\ reader'[pipe[q]].pane = reader[pipe[q]].pane
        BY <1>2, <2>2
      <3> QED BY <2>1, <3>1
    <2>3. CASE pipe[q] # trackers[p]
      <3>1. reader'[pipe[q]] = reader[pipe[q]]
        BY <1>2, <2>1, <2>3
      <3> QED BY <2>1, <3>1
    <2> QED BY <2>2, <2>3
  <1>9. ReadersOK'
    BY <1>2, <1>6, <1>7 DEF ReadersOK
  <1>10. PipesOK'
    BY <1>8 DEF PipesOK
  <1> QED BY <1>3, <1>4, <1>5, <1>9, <1>10

-----------------------------------------------------------------------------
(* What a step of a reader does to its FIFO. *)
LEMMA ReadEffect ==
  ASSUME FeedInv, NEW t \in Tracker, ReadFifo(t)
  PROVE  \E hold, fifo \in Seq(Byte) :
           /\ reader[t].live /\ reader[t].hold = <<>> /\ hold # <<>>
           /\ hold \o fifo = reader[t].fifo
           /\ reader' = [reader EXCEPT ![t].hold = hold, ![t].fifo = fifo]
  <1>1. reader[t].fifo \in Seq(Byte)
    BY DEF FeedInv, ReadersOK, ReaderType
  <1>2. PICK n \in 1..Len(reader[t].fifo) :
          /\ reader[t].live /\ reader[t].hold = <<>>
          /\ reader' = [reader EXCEPT ![t].hold = SubSeq(reader[t].fifo, 1, n),
                                      ![t].fifo = SubSeq(@, n + 1, Len(@))]
    BY DEF ReadFifo
  <1>3. PICK f \in Seq(Byte) : f = reader[t].fifo
    BY <1>1
  <1>4. PICK m \in Nat : m = Len(f)
    BY LenProperties
  <1>5. n \in 1..m /\ n \in Nat /\ (\A i \in 1..m : f[i] \in Byte)
    BY <1>2, <1>3, <1>4, ElementOfSeq
  <1>6. \A i \in 1..n : i \in 1..m
    BY <1>5
  <1>7. \A i \in (n+1)..m : i \in 1..m
    BY <1>5
  <1> DEFINE hold == SubSeq(f, 1, n)
             fifo == SubSeq(f, n + 1, m)
  <1>8. hold \in Seq(Byte) /\ Len(hold) = n /\ \A i \in 1..n : hold[i] = f[i]
    <2>1. /\ hold \in Seq(Byte) /\ Len(hold) = (IF 1 <= n THEN n-1+1 ELSE 0)
          /\ \A i \in 1..(n-1+1) : hold[i] = f[1+i-1]
      BY <1>5, <1>6, SubSeqProperties
    <2>2. 1 <= n /\ n-1+1 = n /\ \A i \in 1..n : 1+i-1 = i
      BY <1>5
    <2> HIDE DEF hold
    <2> QED BY <2>1, <2>2
  <1>9. fifo \in Seq(Byte) /\ Len(fifo) = m - n /\ \A i \in 1..(m - n) : fifo[i] = f[n + i]
    <2>1. /\ fifo \in Seq(Byte) /\ Len(fifo) = (IF n+1 <= m THEN m-(n+1)+1 ELSE 0)
          /\ \A i \in 1..(m-(n+1)+1) : fifo[i] = f[(n+1)+i-1]
      BY <1>4, <1>5, <1>7, SubSeqProperties
    <2>2. m-(n+1)+1 = m - n /\ (n + 1 <= m \/ m - n = 0) /\ \A i \in 1..(m-n) : (n+1)+i-1 = n + i
      BY <1>5
    <2> HIDE DEF fifo
    <2> QED BY <2>1, <2>2
  <1> HIDE DEF hold, fifo
  <1>10. hold \o fifo = f
    <2>1. PICK both \in Seq(Byte) : both = hold \o fifo
      BY <1>8, <1>9, ConcatProperties
    <2>2. /\ Len(both) = Len(hold) + Len(fifo)
          /\ \A i \in 1..(Len(hold) + Len(fifo)) : both[i] = IF i <= Len(hold) THEN hold[i] ELSE fifo[i - Len(hold)]
      BY <1>8, <1>9, <2>1, ConcatProperties, ZenonT(60)
    <2>3. Len(both) = m /\ \A i \in 1..m : both[i] = IF i <= n THEN hold[i] ELSE fifo[i - n]
      <3>1. n + (m - n) = m
        BY <1>5
      <3> QED BY <1>8, <1>9, <2>2, <3>1
    <2>4. ASSUME NEW i \in 1..m PROVE both[i] = f[i]
      <3>1. CASE i <= n
        <4>1. i \in 1..n
          BY <3>1
        <4> QED BY <1>8, <2>3, <3>1, <4>1
      <3>2. CASE ~(i <= n)
        <4>1. i - n \in 1..(m - n) /\ n + (i - n) = i
          BY <1>5, <3>2
        <4> QED BY <1>9, <2>3, <3>2, <4>1
      <3> QED BY <3>1, <3>2
    <2> QED BY <1>4, <2>1, <2>3, <2>4, SeqEqual
  <1>11. hold # <<>>
    BY <1>5, <1>8, EmptySeq
  <1>12. reader' = [reader EXCEPT ![t].hold = hold, ![t].fifo = fifo]
    BY <1>2, <1>3, <1>4 DEF hold, fifo
  <1>13. hold \in Seq(Byte) /\ fifo \in Seq(Byte)
    BY <1>8, <1>9
  <1> USE <1>13
  <1> WITNESS hold \in Seq(Byte), fifo \in Seq(Byte)
  <1> QED BY <1>2, <1>3, <1>10, <1>11, <1>12

(* A reader's other steps send what it holds, and end it. *)
LEMMA DeliverEffect ==
  ASSUME FeedInv, NEW t \in Tracker, Deliver(t)
  PROVE  /\ reader[t].live /\ reader[t].pane \in Pane
         /\ Event("data", reader[t].pane, reader[t].hold) \in WellEvent
         /\ out' = Append(out, Event("data", reader[t].pane, reader[t].hold))
         /\ reader' \in [Tracker -> ReaderType]
         /\ reader'[t] = [reader[t] EXCEPT !.hold = <<>>]
         /\ \A u \in Tracker : u # t => reader'[u] = reader[u]
  <1>1. <<>> \in Seq(Byte)
    BY EmptySeq
  <1>2. reader[t].hold \in Seq(Byte) /\ reader[t].hold # <<>> /\ reader[t].live /\ reader[t].pane \in Pane
    BY DEF Deliver, FeedInv, ReadersOK, ReaderType, ReaderOK
  <1> QED BY <1>1, <1>2, EventOK DEF Deliver, FeedInv, ReadersOK, ReaderType

LEMMA ReaderStepType == ASSUME FeedInv, NEW t \in Tracker, ReaderStep(t) PROVE FeedInv'
  <1> USE DEF FeedInv
  <1>1. UNCHANGED <<tmuxVars, sub, trackers, controllerVars, cancelled>>
    BY DEF ReaderStep, ReadFifo, Deliver, ReaderReturns
  <1>p. FewerPipes
    BY PipesStop DEF ReaderStep, ReadFifo, Deliver
  <1>2. PanesOK' /\ SubOK' /\ TrackersOK'
    BY <1>1, <1>p DEF PanesOK, SubOK, TrackersOK, FewerPipes, tmuxVars
  <1>3. out' \in Seq(WellEvent)
    <2>1. CASE Deliver(t)
      <3>1. PICK e \in WellEvent : out' = Append(out, e)
        BY <2>1, DeliverEffect
      <3> QED BY <3>1, AppendProperties DEF StoreOK
    <2>2. CASE UNCHANGED out
      BY <2>2 DEF StoreOK
    <2> QED BY <2>1, <2>2 DEF ReaderStep, ReadFifo, ReaderReturns
  <1>4. StoreOK'
    BY <1>1, <1>3 DEF StoreOK, StoreTypeOK, controllerVars, storeVars
  <1>5. ReaderOK(t)
    BY DEF ReadersOK
  <1>6. /\ reader' \in [Tracker -> ReaderType]
        /\ \A u \in Tracker : u # t => reader'[u] = reader[u]
        /\ \/ /\ reader[t].live /\ reader'[t].live
              /\ reader'[t].pane = reader[t].pane /\ reader'[t].open = reader[t].open
           \/ reader'[t] = Free /\ \A p \in Pane : pipe'[p] # t
    <2>1. CASE ReadFifo(t)
      <3>1. PICK hold \in Seq(Byte), fifo \in Seq(Byte) :
              reader[t].live /\ reader' = [reader EXCEPT ![t].hold = hold, ![t].fifo = fifo]
        BY <2>1, ReadEffect, ZenonT(60)
      <3>2. /\ reader' \in [Tracker -> ReaderType]
            /\ \A u \in Tracker : u # t => reader'[u] = reader[u]
        BY <3>1, ZenonT(60) DEF ReadersOK, ReaderType
      <3>3. reader'[t].live = reader[t].live /\ reader'[t].pane = reader[t].pane /\ reader'[t].open = reader[t].open
        BY <3>1 DEF ReadersOK, ReaderType
      <3> QED BY <3>1, <3>2, <3>3
    <2>2. CASE Deliver(t)
      <3>1. reader'[t].live = reader[t].live /\ reader'[t].pane = reader[t].pane /\ reader'[t].open = reader[t].open
        BY <2>2, DeliverEffect, ZenonT(60) DEF ReadersOK, ReaderType
      <3> QED BY <2>2, <3>1, DeliverEffect
    <2>3. CASE ReaderReturns(t)
      <3>1. \A p \in Pane : pipe'[p] # t
        BY <2>3, FeedAssumption DEF ReaderReturns
      <3> QED BY <2>3, <3>1, FreeType DEF ReaderReturns, ReadersOK
    <2> QED BY <2>1, <2>2, <2>3 DEF ReaderStep
  <1>7. ASSUME NEW u \in Tracker PROVE ReaderOK(u)'
    BY <1>1, <1>5, <1>6, FreeType DEF ReadersOK, ReaderOK
  <1>8. \A p \in DOMAIN trackers : reader'[trackers[p]].live => reader'[trackers[p]].pane = p
    BY <1>6, FreeType DEF ReadersOK, TrackersOK
  <1>9. ASSUME NEW p \in Pane, pipe'[p] # NoTracker
        PROVE  reader'[pipe'[p]].live /\ reader'[pipe'[p]].pane = p
    <2>1. pipe'[p] = pipe[p] /\ pipe[p] \in Tracker /\ reader[pipe[p]].live /\ reader[pipe[p]].pane = p
      BY <1>p, <1>9 DEF FewerPipes, PipesOK, TrackersOK
    <2> QED BY <1>6, <2>1
  <1>10. ReadersOK'
    BY <1>1, <1>6, <1>7, <1>8 DEF ReadersOK
  <1>11. PipesOK'
    BY <1>9 DEF PipesOK
  <1> QED BY <1>2, <1>4, <1>10, <1>11

-----------------------------------------------------------------------------
(* The store, in the hands of the drain goroutine and of a token. *)
LEMMA BufferValid == ASSUME FeedInv, NEW p \in Pane PROVE BufferOf(p) \in ValidBuffer
  BY NewBufferValid DEF FeedInv, StoreOK, StoreTypeOK, BufferOf, Known

LEMMA NotifyTyped ==
  ASSUME FeedInv, NEW p \in Pane, Notify(p)
  PROVE  sig' \in [Watcher -> BOOLEAN] /\ parked' \subseteq Watcher
  BY DEF FeedInv, StoreOK, StoreTypeOK, Notify

LEMMA SetBufferTyped ==
  ASSUME FeedInv, NEW p \in Pane, NEW b \in ValidBuffer, SetBuffer(p, b)
  PROVE  /\ DOMAIN bufs' = DOMAIN bufs \cup {p} /\ DOMAIN bufs' \subseteq Pane
         /\ bufs' \in [DOMAIN bufs' -> ValidBuffer]
         /\ BufferOf(p)' = b /\ Known(p)'
         /\ \A q \in Pane : q # p => BufferOf(q)' = BufferOf(q) /\ Known(q)' = Known(q)
  BY DEF FeedInv, StoreOK, StoreTypeOK, SetBuffer, BufferOf, Known

LEMMA ForgetTyped ==
  ASSUME FeedInv, NEW p \in Pane, StoreForget(p)
  PROVE  /\ DOMAIN bufs' = DOMAIN bufs \ {p} /\ DOMAIN bufs' \subseteq Pane
         /\ bufs' \in [DOMAIN bufs' -> ValidBuffer]
         /\ BufferOf(p)' = NewBuffer /\ ~Known(p)'
         /\ \A q \in Pane : q # p => BufferOf(q)' = BufferOf(q) /\ Known(q)' = Known(q)
  BY DEF FeedInv, StoreOK, StoreTypeOK, StoreForget, BufferOf, Known

LEMMA AppendTyped ==
  ASSUME FeedInv, NEW p \in Pane, NEW bytes \in Seq(Byte)
  PROVE  BufferAppend(BufferOf(p), bytes, now) \in ValidBuffer
  BY BufferValid, AppendValid DEF FeedInv, StoreOK, StoreTypeOK

LEMMA MintType == ASSUME FeedInv, NEW p \in Pane, Mint(p) PROVE FeedInv'
  <1> USE DEF FeedInv
  <1>1. BufferOf(p) \in ValidBuffer
    BY BufferValid
  <1>2. DOMAIN bufs' \subseteq Pane /\ bufs' \in [DOMAIN bufs' -> ValidBuffer]
    BY <1>1, SetBufferTyped DEF Mint, CreateBuffer
  <1>3. StoreOK'
    BY <1>2 DEF StoreOK, StoreTypeOK, Mint
  <1> QED BY <1>3 DEF Mint, PanesOK, SubOK, TrackersOK, ReadersOK, ReaderOK, PipesOK, tmuxVars

LEMMA DrainStep ==
  ASSUME FeedInv, DrainEvent
  PROVE  /\ out # <<>> /\ out' = Tail(out) /\ out' \in Seq(WellEvent) /\ Head(out) \in WellEvent
         /\ UNCHANGED <<tmuxVars, pipe, sub, trackers, reader, drained, cancelled>>
         /\ \/ Head(out).kind = "data" /\ Head(out).pane \in Pane
               /\ StoreAppend(Head(out).pane, Head(out).bytes) /\ UNCHANGED <<serverLost, forgotten>>
            \/ Head(out).kind = "closed" /\ Head(out).pane \in Pane /\ Head(out).bytes = <<>>
               /\ StoreForget(Head(out).pane) /\ forgotten' = forgotten \cup {Head(out).pane}
               /\ UNCHANGED serverLost
            \/ Head(out).kind = "lost" /\ Head(out).bytes = <<>>
               /\ serverLost' = TRUE /\ UNCHANGED <<storeVars, forgotten>>
  <1>1. out # <<>> /\ out \in Seq(WellEvent)
    BY DEF DrainEvent, FeedInv, StoreOK
  <1>2. Head(out) \in WellEvent /\ Tail(out) \in Seq(WellEvent)
    BY <1>1, HeadTailProperties
  <1> QED BY <1>1, <1>2 DEF DrainEvent, WellEvent

LEMMA DrainType == ASSUME FeedInv, DrainEvent PROVE FeedInv'
  <1> USE DEF FeedInv
  <1> DEFINE e == Head(out)
  <1>1. /\ out' \in Seq(WellEvent) /\ e \in WellEvent
        /\ UNCHANGED <<tmuxVars, pipe, sub, trackers, reader, drained, cancelled>>
    BY DrainStep
  <1>2. PanesOK' /\ SubOK' /\ TrackersOK' /\ ReadersOK' /\ PipesOK'
    BY <1>1 DEF PanesOK, SubOK, TrackersOK, ReadersOK, ReaderOK, PipesOK, tmuxVars
  <1>3. e.bytes \in Seq(Byte)
    BY <1>1, EventTyped
  <1> HIDE DEF e
  <1>4. CASE /\ e.pane \in Pane /\ StoreAppend(e.pane, e.bytes) /\ UNCHANGED <<serverLost, forgotten>>
    <2>1. DOMAIN bufs' \subseteq Pane /\ bufs' \in [DOMAIN bufs' -> ValidBuffer]
      BY <1>3, <1>4, AppendTyped, SetBufferTyped DEF StoreAppend
    <2>2. sig' \in [Watcher -> BOOLEAN] /\ parked' \subseteq Watcher
      BY <1>4, NotifyTyped DEF StoreAppend
    <2> QED BY <1>1, <1>2, <1>4, <2>1, <2>2 DEF StoreOK, StoreTypeOK, StoreAppend
  <1>5. CASE /\ e.pane \in Pane /\ StoreForget(e.pane) /\ forgotten' = forgotten \cup {e.pane}
             /\ UNCHANGED serverLost
    <2>1. DOMAIN bufs' \subseteq Pane /\ bufs' \in [DOMAIN bufs' -> ValidBuffer]
      BY <1>5, ForgetTyped
    <2>2. sig' \in [Watcher -> BOOLEAN] /\ parked' \subseteq Watcher
      BY <1>5, NotifyTyped DEF StoreForget
    <2> QED BY <1>1, <1>2, <1>5, <2>1, <2>2 DEF StoreOK, StoreTypeOK, StoreForget
  <1>6. CASE serverLost' = TRUE /\ UNCHANGED <<storeVars, forgotten>>
    BY <1>1, <1>2, <1>6 DEF StoreOK, StoreTypeOK, storeVars
  <1> QED BY <1>4, <1>5, <1>6, DrainStep DEF e

-----------------------------------------------------------------------------
LEMMA IdleType == ASSUME FeedInv, DrainEnds \/ CancelFeed \/ UNCHANGED feedVars PROVE FeedInv'
  BY DEF FeedInv, DrainEnds, CancelFeed, StoreOK, StoreTypeOK, PanesOK, SubOK, TrackersOK, ReadersOK, PipesOK,
         ReaderOK, feedVars, tmuxVars, controllerVars, storeVars

LEMMA FeedStepType == ASSUME FeedInv, [FeedStep]_feedVars PROVE FeedInv'
  BY TmuxType, PollType, SendType, RoundType, StartType, StopType, ReaderStepType, DrainType, IdleType, MintType
     DEF FeedStep, FeedNext, Run, Sync

LEMMA FeedInvTypes == FeedInv => FeedTypeOK
  <1> SUFFICES ASSUME FeedInv PROVE FeedTypeOK
    OBVIOUS
  <1>1. \A i \in DOMAIN out : out[i] \in EventType
    <2>1. out \in Seq(WellEvent)
      BY DEF FeedInv, StoreOK
    <2>2. \A i \in DOMAIN out : out[i] \in WellEvent
      BY <2>1, LenProperties, ElementOfSeq
    <2> QED BY <2>2 DEF WellEvent
  <1>2. ASSUME NEW t \in Tracker, reader[t].open
        PROVE  reader[t].pane \in DOMAIN trackers /\ trackers[reader[t].pane] = t
    <2>1. PICK p \in DOMAIN trackers : trackers[p] = t
      BY <1>2 DEF FeedInv, ReadersOK, ReaderOK
    <2>2. reader[t].live
      BY <1>2, FreeType DEF FeedInv, ReadersOK, ReaderOK
    <2> QED BY <2>1, <2>2 DEF FeedInv, ReadersOK
  <1> QED BY <1>1, <1>2 DEF FeedInv, FeedTypeOK, StoreOK, PanesOK, SubOK, SubType, TrackersOK, ReadersOK, PipesOK

LEMMA FeedInvHolds == StepSpec => []FeedInv
  <1> QED BY FeedInitType, FeedStepType, PTL DEF StepSpec

(* The maps of the subscription stay typed and tied to each other, whether *)
(* or not tmux obeys when it is told to start or to stop a pipe: a FIFO is *)
(* open only while its pane is tracked with it, a tracked pane is piped    *)
(* into no other, and what a stale pipe still leads to has a reader that   *)
(* sends for that pane.  And only well-formed events are sent.             *)
THEOREM FeedTypeCorrect == (FeedSpec => []FeedTypeOK) /\ (BootstrapSpec => []FeedTypeOK)
  BY FeedInvHolds, FeedInvTypes, FeedSteps, BootstrapSteps, PTL

-----------------------------------------------------------------------------
(* While the first server lives, a tracked pane that is not listed was     *)
(* destroyed, and so were those that the subscription reports.             *)
Told(panes) == {e \in WellEvent : e.kind = "closed" => e.pane \in panes}

KilledOK ==
    /\ killed \subseteq born
    /\ serverUp => born = alive \cup killed
    /\ DOMAIN trackers \subseteq born
    /\ sub.pc \in {"diff", "closed"} => Gone \subseteq killed
    /\ sub.pc = "closed" => sub.closing \in killed
    /\ out \in Seq(Told(killed))
    /\ forgotten \subseteq killed

KilledInv == restarts = 0 => KilledOK

LEMMA ToldGrows ==
  ASSUME NEW a, NEW b, a \subseteq b, NEW s \in Seq(Told(a))
  PROVE  s \in Seq(Told(b))
  <1>1. Told(a) \subseteq Told(b)
    BY DEF Told
  <1> QED BY <1>1, SeqMonotonic

LEMMA KilledInit == FeedInit => KilledInv
  <1> SUFFICES ASSUME FeedInit PROVE KilledOK
    BY DEF KilledInv
  <1>1. out \in Seq(Told(killed))
    BY EmptySeq DEF FeedInit
  <1> QED BY <1>1 DEF FeedInit, KilledOK

(* The first server is the first from the start. *)
LEMMA FirstServer ==
  ASSUME FeedInv, [FeedStep]_feedVars, restarts' = 0
  PROVE  restarts = 0 /\ (serverUp' => serverUp)
  <1>1. restarts \in Nat
    BY DEF FeedInv, PanesOK
  <1>2. CASE ServerStarts
    BY <1>1, <1>2 DEF ServerStarts
  <1>3. CASE UNCHANGED <<serverUp, restarts>>
    BY <1>3
  <1>4. CASE ServerDies
    BY <1>4, SMTT(40) DEF ServerDies
  <1>5. CASE Run \/ (\E t \in Tracker : ReaderStep(t)) \/ DrainEvent \/ DrainEnds \/ CancelFeed
             \/ \E p \in Pane : Mint(p)
    BY <1>3, <1>5 DEF Run, Sync, PollOk, PollFails, SendLost, SendClosed, SyncDone, StartTracker, StartFails,
       StopTracker, BeginTeardown, TeardownStop, CloseOut, ReaderStep, ReadFifo, Deliver, ReaderReturns,
       DrainEvent, DrainEnds, CancelFeed, Mint, tmuxVars
  <1>6. CASE \E p \in Pane : NewPane(p) \/ Output(p) \/ KillPane(p)
    BY <1>3, <1>6 DEF NewPane, Output, KillPane
  <1>7. CASE UNCHANGED feedVars
    BY <1>3, <1>7 DEF feedVars, tmuxVars
  <1> QED BY <1>2, <1>4, <1>5, <1>6, <1>7 DEF FeedStep, FeedNext, Tmux

LEMMA KilledStep == ASSUME FeedInv, KilledInv, [FeedStep]_feedVars PROVE KilledInv'
  <1> SUFFICES ASSUME restarts' = 0 PROVE KilledOK'
    BY DEF KilledInv
  <1>k. restarts = 0 /\ KilledOK
    BY FirstServer DEF KilledInv
  <1>a. alive \subseteq born /\ killed \cap alive = {} /\ (~serverUp => alive = {})
    BY DEF FeedInv, PanesOK
  <1>1. CASE Tmux
    <2>1. UNCHANGED <<sub, trackers, out, controllerVars>>
      BY <1>1 DEF Tmux, NewPane, Output, KillPane, ServerDies, ServerStarts
    <2>2. ~ServerStarts
      BY <1>k DEF ServerStarts
    <2>3. /\ killed \subseteq killed' /\ born \subseteq born' /\ killed' \subseteq born'
          /\ serverUp' => born' = alive' \cup killed'
      <3>1. ASSUME NEW p \in Pane, NewPane(p) \/ Output(p) \/ KillPane(p)
            PROVE  /\ killed \subseteq killed' /\ born \subseteq born' /\ killed' \subseteq born'
                   /\ serverUp' => born' = alive' \cup killed'
        BY <1>k, <1>a, <3>1 DEF NewPane, Output, KillPane, KilledOK
      <3>2. CASE ServerDies
        BY <1>k, <3>2 DEF ServerDies, KilledOK
      <3> QED BY <1>1, <2>2, <3>1, <3>2 DEF Tmux
    <2>4. out' \in Seq(Told(killed'))
      BY <1>k, <2>1, <2>3, ToldGrows DEF KilledOK
    <2> QED BY <1>k, <2>1, <2>3, <2>4 DEF KilledOK, Gone, controllerVars
  <1>2. CASE Run
    <2>0. UNCHANGED <<serverUp, born, alive, killed, forgotten>>
      BY <1>2 DEF Run, Sync, PollOk, PollFails, SendLost, SendClosed, SyncDone, StartTracker, StartFails,
         StopTracker, BeginTeardown, TeardownStop, CloseOut, tmuxVars, controllerVars
    <2>s. sub \in SubType
      BY DEF FeedInv, SubOK
    <2>1. CASE PollOk
      <3>1. sub'.pc = "diff" /\ sub'.seen = alive /\ UNCHANGED <<trackers, out>> /\ serverUp
        BY <2>1, <2>s DEF PollOk, SubType
      <3> QED BY <1>k, <2>0, <3>1 DEF KilledOK, Gone
    <2>2. CASE PollFails \/ SyncDone \/ BeginTeardown \/ CloseOut
      <3>1. sub'.pc \in {"poll", "lost", "teardown", "done"} /\ UNCHANGED <<trackers, out>>
        BY <2>2, <2>s DEF PollFails, SyncDone, BeginTeardown, CloseOut, SubType
      <3> QED BY <1>k, <2>0, <3>1 DEF KilledOK
    <2>3. CASE SendLost
      <3>1. out' \in Seq(Told(killed))
        <4>1. Event("lost", NoPane, <<>>) \in Told(killed)
          BY EventOK DEF Told, Event
        <4> QED BY <1>k, <2>3, <4>1, AppendProperties DEF SendLost, KilledOK
      <3>2. sub'.pc = "poll" /\ trackers' = trackers
        BY <2>3, <2>s DEF SendLost, SubType
      <3> QED BY <1>k, <2>0, <3>1, <3>2 DEF KilledOK
    <2>4. CASE SendClosed
      <3>1. out' \in Seq(Told(killed))
        <4>0. sub.pc = "closed"
          BY <2>4 DEF SendClosed, SubAt
        <4>1. Event("closed", sub.closing, <<>>) \in Told(killed)
          BY <1>k, <4>0, EventOK DEF Told, Event, FeedInv, SubOK, KilledOK
        <4> QED BY <1>k, <2>4, <4>1, AppendProperties DEF SendClosed, KilledOK
      <3>2. sub'.pc \in {"diff", "poll"} /\ sub'.seen = sub.seen /\ trackers' = trackers /\ sub.pc = "closed"
        BY <2>4, <2>s DEF SendClosed, SubType, SubAt
      <3> QED BY <1>k, <2>0, <3>1, <3>2 DEF KilledOK, Gone
    <2>5. ASSUME NEW p \in Pane, StartTracker(p) PROVE KilledOK'
      <3>1. sub'.pc = "diff" /\ sub.pc = "diff" /\ sub'.seen = sub.seen /\ p \in sub.seen
        BY <2>5, <2>s DEF StartTracker, SubType, SubAt, FeedInv, SubOK
      <3>2. DOMAIN trackers' = DOMAIN trackers \cup {p} /\ p \in alive /\ out' = out
        BY <2>5, StartEffect
      <3> QED BY <1>k, <1>a, <2>0, <3>1, <3>2 DEF KilledOK, Gone
    <2>6. ASSUME NEW p \in Pane, StartFails(p) PROVE KilledOK'
      <3>1. sub'.pc = "diff" /\ sub.pc = "diff" /\ sub'.seen = sub.seen /\ UNCHANGED <<trackers, out>>
        BY <2>6, <2>s DEF StartFails, SubType, SubAt
      <3> QED BY <1>k, <2>0, <3>1 DEF KilledOK, Gone
    <2>7. ASSUME NEW p \in Pane, StopTracker(p) PROVE KilledOK'
      <3>1. sub'.pc = "closed" /\ sub.pc = "diff" /\ sub'.seen = sub.seen /\ sub'.closing = p /\ out' = out
        BY <2>7, <2>s DEF StopTracker, SubType, SubAt
      <3>2. p \in Gone /\ p \in DOMAIN trackers
        BY <2>7 DEF StopTracker, Gone
      <3>3. DOMAIN trackers' = DOMAIN trackers \ {p}
        BY <2>7, <3>2, StopEffect DEF StopTracker
      <3> QED BY <1>k, <2>0, <3>1, <3>2, <3>3 DEF KilledOK, Gone
    <2>8. ASSUME NEW p \in Pane, TeardownStop(p) PROVE KilledOK'
      <3>1. sub' = sub /\ sub.pc = "teardown" /\ out' = out /\ p \in DOMAIN trackers
        BY <2>8 DEF TeardownStop, SubAt
      <3>2. DOMAIN trackers' = DOMAIN trackers \ {p}
        BY <2>8, <3>1, StopEffect DEF TeardownStop
      <3> QED BY <1>k, <2>0, <3>1, <3>2 DEF KilledOK
    <2> QED BY <1>2, <2>1, <2>2, <2>3, <2>4, <2>5, <2>6, <2>7, <2>8, SMTT(40) DEF Run, Sync
  <1>3. ASSUME NEW t \in Tracker, ReaderStep(t) PROVE KilledOK'
    <2>1. UNCHANGED <<tmuxVars, sub, trackers, controllerVars>>
      BY <1>3 DEF ReaderStep, ReadFifo, Deliver, ReaderReturns
    <2>2. out' \in Seq(Told(killed))
      <3>1. CASE Deliver(t)
        <4>1. PICK e \in Told(killed) : out' = Append(out, e)
          BY <3>1, DeliverEffect DEF Told, Event
        <4> QED BY <1>k, <4>1, AppendProperties DEF KilledOK
      <3>2. CASE out' = out
        BY <1>k, <3>2 DEF KilledOK
      <3> QED BY <1>3, <3>1, <3>2 DEF ReaderStep, ReadFifo, ReaderReturns
    <2> QED BY <1>k, <2>1, <2>2 DEF KilledOK, Gone, tmuxVars, controllerVars
  <1>4. CASE DrainEvent
    <2>1. UNCHANGED <<tmuxVars, sub, trackers>> /\ out # <<>> /\ out' = Tail(out)
      BY <1>4, DrainStep
    <2>2. Head(out) \in Told(killed) /\ out' \in Seq(Told(killed))
      BY <1>k, <2>1, HeadTailProperties DEF KilledOK
    <2>3. forgotten' \subseteq killed
      <3>1. forgotten' = forgotten \/ (Head(out).kind = "closed" /\ forgotten' = forgotten \cup {Head(out).pane})
        BY <1>4, DrainStep
      <3> QED BY <1>k, <2>2, <3>1 DEF KilledOK, Told
    <2> QED BY <1>k, <2>1, <2>2, <2>3 DEF KilledOK, Gone, tmuxVars
  <1>5. CASE DrainEnds \/ CancelFeed \/ UNCHANGED feedVars \/ \E p \in Pane : Mint(p)
    BY <1>k, <1>5 DEF DrainEnds, CancelFeed, feedVars, Mint, KilledOK, Gone, tmuxVars, controllerVars
  <1> QED BY <1>1, <1>2, <1>3, <1>4, <1>5 DEF FeedStep, FeedNext

LEMMA KilledHolds == StepSpec => []KilledInv
  <1> QED BY KilledInit, KilledStep, FeedInvHolds, PTL DEF StepSpec

(* While the server lives, a pane is reported closed, and forgotten, only  *)
(* if it was destroyed by itself: a failed poll is never taken for a       *)
(* closure.  (A new server gives the ids of destroyed panes again.)        *)
THEOREM ClosuresAreOfKilledPanes ==
  /\ FeedSpec => [](restarts = 0 => ClosedMeansKilled)
  /\ BootstrapSpec => [](restarts = 0 => ClosedMeansKilled)
  <1>1. KilledInv => (restarts = 0 => ClosedMeansKilled)
    <2> SUFFICES ASSUME KilledOK PROVE ClosedMeansKilled
      BY DEF KilledInv
    <2>1. \A i \in DOMAIN out : out[i] \in Told(killed)
      BY LenProperties, ElementOfSeq DEF KilledOK
    <2> QED BY <2>1 DEF KilledOK, ClosedMeansKilled, Told
  <1> QED BY <1>1, KilledHolds, FeedSteps, BootstrapSteps, PTL

-----------------------------------------------------------------------------
(* Of the loss of the server, the channel holds one event or none: none    *)
(* before the subscription notified it, and none once it is handled.       *)
NotLost == {e \in WellEvent : e.kind # "lost"}

AtMostOneLost == \A i, j \in DOMAIN out : out[i].kind = "lost" /\ out[j].kind = "lost" => i = j

LostInv ==
    /\ AtMostOneLost
    /\ ~sub.lostNotified => out \in Seq(NotLost) /\ ~serverLost /\ sub.pc # "lost"
    /\ sub.pc = "lost" => out \in Seq(NotLost) /\ ~serverLost
    /\ serverLost => out \in Seq(NotLost)

(* A failure in a row of polls on a healthy server is a blip. *)
BlipsInv ==
    /\ blips <= MaxBlips
    /\ restarts = 0 /\ serverUp => sub.failures <= blips /\ ~sub.lostNotified

LEMMA LostInit == FeedInit => LostInv
  <1> SUFFICES ASSUME FeedInit PROVE LostInv
    OBVIOUS
  <1>1. out = <<>> /\ out \in Seq(NotLost)
    BY EmptySeq DEF FeedInit
  <1>2. DOMAIN out = {}
    BY <1>1
  <1> QED BY <1>1, <1>2 DEF FeedInit, LostInv, AtMostOneLost

LEMMA NoneIsAtMostOne == ASSUME out \in Seq(NotLost) PROVE AtMostOneLost
  <1>1. \A i \in DOMAIN out : out[i] \in NotLost
    BY LenProperties, ElementOfSeq
  <1> QED BY <1>1 DEF AtMostOneLost, NotLost

(* An event at the channel's end, and the one at its head. *)
LEMMA SendOther ==
  ASSUME FeedInv, NEW e \in NotLost, out' = Append(out, e)
  PROVE  /\ out \in Seq(NotLost) => out' \in Seq(NotLost)
         /\ AtMostOneLost => AtMostOneLost'
  <1>1. out \in Seq(NotLost) => out' \in Seq(NotLost)
    BY AppendProperties
  <1>2. e \in WellEvent /\ e.kind # "lost"
    BY DEF NotLost
  <1>3. out \in Seq(WellEvent)
    BY DEF FeedInv, StoreOK
  <1>4. PICK n \in Nat : n = Len(out)
    BY <1>3, LenProperties
  <1>5. out' \in Seq(WellEvent) /\ Len(out') = n + 1 /\ out'[n + 1] = e /\ \A i \in 1..n : out'[i] = out[i]
    BY <1>2, <1>3, <1>4, AppendProperties
  <1>6. DOMAIN out = 1..n /\ DOMAIN out' = 1..(n + 1)
    BY <1>3, <1>4, <1>5, LenProperties
  <1>7. ASSUME NEW i \in DOMAIN out', out'[i].kind = "lost"
        PROVE  i \in DOMAIN out /\ out[i].kind = "lost"
    <2>1. i \in 1..n \/ i = n + 1
      BY <1>6
    <2>2. i # n + 1
      BY <1>2, <1>5, <1>7
    <2> QED BY <1>5, <1>6, <1>7, <2>1, <2>2
  <1> QED BY <1>1, <1>7 DEF AtMostOneLost

LEMMA SendTheLoss ==
  ASSUME FeedInv, NEW e \in WellEvent, out' = Append(out, e), out \in Seq(NotLost)
  PROVE  AtMostOneLost'
  <1>3. out \in Seq(WellEvent)
    BY DEF FeedInv, StoreOK
  <1>4. PICK n \in Nat : n = Len(out)
    BY <1>3, LenProperties
  <1>5. out' \in Seq(WellEvent) /\ Len(out') = n + 1 /\ out'[n + 1] = e /\ \A i \in 1..n : out'[i] = out[i]
    BY <1>3, <1>4, AppendProperties
  <1>6. DOMAIN out' = 1..(n + 1) /\ \A i \in 1..n : out[i] \in NotLost
    BY <1>4, <1>5, LenProperties, ElementOfSeq
  <1>7. ASSUME NEW i \in DOMAIN out', out'[i].kind = "lost" PROVE i = n + 1
    <2>1. i \in 1..n \/ i = n + 1
      BY <1>6
    <2>2. i \in 1..n => out'[i].kind # "lost"
      BY <1>5, <1>6 DEF NotLost
    <2> QED BY <1>7, <2>1, <2>2
  <1> QED BY <1>7 DEF AtMostOneLost

LEMMA TakeHead ==
  ASSUME FeedInv, out # <<>>, out' = Tail(out)
  PROVE  /\ out \in Seq(NotLost) => out' \in Seq(NotLost) /\ Head(out).kind # "lost"
         /\ AtMostOneLost => AtMostOneLost'
         /\ AtMostOneLost /\ Head(out).kind = "lost" => out' \in Seq(NotLost)
  <1>1. out \in Seq(NotLost) => out' \in Seq(NotLost) /\ Head(out).kind # "lost"
    BY HeadTailProperties DEF NotLost
  <1>3. out \in Seq(WellEvent)
    BY DEF FeedInv, StoreOK
  <1>4. PICK n \in Nat : n = Len(out)
    BY <1>3, LenProperties
  <1>5. /\ out' \in Seq(WellEvent) /\ Len(out') = n - 1 /\ Head(out) = out[1]
        /\ \A i \in 1..(n - 1) : out'[i] = out[i + 1]
    BY <1>3, <1>4, HeadTailProperties
  <1>6. n # 0 /\ n - 1 \in Nat
    BY <1>3, <1>4, EmptySeq
  <1>7. DOMAIN out = 1..n /\ DOMAIN out' = 1..(n - 1)
    BY <1>3, <1>4, <1>5, LenProperties
  <1>8. \A i \in 1..(n - 1) : i + 1 \in 1..n /\ i + 1 # 1 /\ 1 \in 1..n
    BY <1>6
  <1>9. \A i, j \in 1..(n - 1) : i + 1 = j + 1 => i = j
    BY <1>6
  <1>10. AtMostOneLost => AtMostOneLost'
    <2> SUFFICES ASSUME AtMostOneLost, NEW i \in 1..(n - 1), NEW j \in 1..(n - 1),
                        out'[i].kind = "lost", out'[j].kind = "lost"
                 PROVE  i = j
      BY <1>7 DEF AtMostOneLost
    <2> QED BY <1>5, <1>7, <1>8, <1>9 DEF AtMostOneLost
  <1>11. ASSUME AtMostOneLost, Head(out).kind = "lost" PROVE out' \in Seq(NotLost)
    <2>1. ASSUME NEW i \in 1..(n - 1) PROVE out'[i] \in NotLost
      <3>1. out'[i] \in WellEvent
        BY <1>5, ElementOfSeq
      <3>2. out'[i].kind # "lost"
        BY <1>5, <1>7, <1>8, <1>11 DEF AtMostOneLost
      <3> QED BY <3>1, <3>2 DEF NotLost
    <2>2. out' \in [1..(n - 1) -> WellEvent]
      BY <1>5, LenProperties
    <2>3. out' \in [1..(n - 1) -> NotLost]
      BY <2>1, <2>2
    <2> QED BY <1>6, <2>3, SeqDef
  <1> QED BY <1>1, <1>10, <1>11

LEMMA LostStep == ASSUME FeedInv, LostInv, [FeedStep]_feedVars PROVE LostInv'
  <1>s. sub \in SubType /\ serverLost \in BOOLEAN
    BY DEF FeedInv, SubOK, StoreOK
  <1>1. CASE UNCHANGED <<out, serverLost>> /\ sub'.lostNotified = sub.lostNotified /\ sub'.pc \in {sub.pc, "poll", "diff", "closed", "teardown", "done"}
    BY <1>1 DEF LostInv, AtMostOneLost
  <1>2. CASE PollFails
    <2>1. PICK lose \in BOOLEAN : /\ lose => ~sub.lostNotified
                                  /\ sub'.lostNotified = (sub.lostNotified \/ lose)
                                  /\ sub'.pc = IF lose THEN "lost" ELSE "poll"
      <3> DEFINE failures == IF sub.failures < serverLostThreshold THEN sub.failures + 1 ELSE sub.failures
                 lose == Lose(failures)
      <3>1. lose \in BOOLEAN /\ (lose => ~sub.lostNotified)
        BY DEF Lose
      <3> HIDE DEF lose, failures
      <3>2. sub' = [sub EXCEPT !.failures = failures, !.lostNotified = @ \/ lose,
                               !.pc = IF lose THEN "lost" ELSE "poll"]
        BY <1>2 DEF PollFails, lose, failures
      <3> QED BY <1>s, <3>1, <3>2 DEF SubType
    <2>2. UNCHANGED <<out, serverLost>>
      BY <1>2 DEF PollFails, controllerVars
    <2> QED BY <1>s, <2>1, <2>2 DEF LostInv, AtMostOneLost, SubType
  <1>3. CASE SendLost
    <2>1. sub.pc = "lost" /\ sub'.pc = "poll" /\ sub'.lostNotified = sub.lostNotified /\ serverLost' = serverLost
      BY <1>3, <1>s DEF SendLost, SubAt, SubType, controllerVars
    <2>2. out \in Seq(NotLost) /\ ~serverLost /\ sub.lostNotified
      BY <1>s, <2>1 DEF LostInv, SubType
    <2>3. AtMostOneLost'
      <3>1. CASE out' = out
        BY <3>1 DEF LostInv, AtMostOneLost
      <3>2. CASE out' = Append(out, Event("lost", NoPane, <<>>))
        BY <2>2, <3>2, EventOK, SendTheLoss
      <3> QED BY <1>3, <3>1, <3>2 DEF SendLost
    <2> QED BY <2>1, <2>2, <2>3 DEF LostInv
  <1>4. ASSUME NEW e \in NotLost, out' = Append(out, e), serverLost' = serverLost,
               sub'.lostNotified = sub.lostNotified, sub'.pc \in {sub.pc, "diff"}
        PROVE  LostInv'
    BY <1>4, SendOther DEF LostInv
  <1>5. CASE SendClosed
    <2>1. sub'.lostNotified = sub.lostNotified /\ serverLost' = serverLost /\ sub'.pc \in {"diff", "poll"}
      BY <1>5, <1>s DEF SendClosed, SubType, controllerVars
    <2>2. CASE out' = out
      BY <1>1, <2>1, <2>2
    <2>3. CASE out' = Append(out, Event("closed", sub.closing, <<>>)) /\ sub' = [sub EXCEPT !.pc = "diff", !.closing = NoPane]
      <3>1. Event("closed", sub.closing, <<>>) \in NotLost
        BY <1>5, EventOK DEF SendClosed, SubAt, FeedInv, SubOK, NotLost, Event
      <3>2. sub'.pc = "diff"
        BY <2>3, <1>s DEF SubType
      <3> QED BY <1>4, <2>1, <2>3, <3>1, <3>2
    <2> QED BY <1>5, <2>2, <2>3 DEF SendClosed
  <1>6. ASSUME NEW t \in Tracker, ReaderStep(t) PROVE LostInv'
    <2>1. UNCHANGED <<sub, serverLost>>
      BY <1>6 DEF ReaderStep, ReadFifo, Deliver, ReaderReturns, controllerVars
    <2>2. CASE Deliver(t)
      <3>1. PICK e \in NotLost : out' = Append(out, e)
        BY <2>2, DeliverEffect DEF NotLost, Event
      <3> QED BY <1>4, <2>1, <3>1
    <2>3. CASE out' = out
      BY <1>1, <2>1, <2>3
    <2> QED BY <1>6, <2>2, <2>3 DEF ReaderStep, ReadFifo, ReaderReturns
  <1>7. CASE DrainEvent
    <2>1. out # <<>> /\ out' = Tail(out) /\ sub' = sub
          /\ (serverLost' = serverLost \/ Head(out).kind = "lost")
      BY <1>7, DrainStep
    <2>2. /\ out \in Seq(NotLost) => out' \in Seq(NotLost) /\ Head(out).kind # "lost"
          /\ AtMostOneLost => AtMostOneLost'
          /\ AtMostOneLost /\ Head(out).kind = "lost" => out' \in Seq(NotLost)
      BY <2>1, TakeHead
    <2> QED BY <2>1, <2>2 DEF LostInv
  <1>8. CASE PollOk \/ SyncDone \/ BeginTeardown \/ CloseOut
             \/ \E p \in Pane : StartTracker(p) \/ StartFails(p) \/ StopTracker(p) \/ TeardownStop(p)
    <2>1. UNCHANGED <<out, serverLost>>
      BY <1>8 DEF PollOk, SyncDone, BeginTeardown, CloseOut, StartTracker, StartFails, StopTracker, TeardownStop, controllerVars
    <2>2. sub'.lostNotified = sub.lostNotified /\ sub'.pc \in {sub.pc, "poll", "diff", "closed", "teardown", "done"}
      BY <1>8, <1>s DEF PollOk, SyncDone, BeginTeardown, CloseOut, StartTracker, StartFails, StopTracker, TeardownStop, SubType
    <2> QED BY <1>1, <2>1, <2>2
  <1>9. CASE Tmux \/ DrainEnds \/ CancelFeed \/ UNCHANGED feedVars \/ \E p \in Pane : Mint(p)
    <2>1. UNCHANGED <<out, serverLost, sub>>
      BY <1>9 DEF Tmux, NewPane, Output, KillPane, ServerDies, ServerStarts, DrainEnds, CancelFeed, feedVars, Mint, controllerVars
    <2> QED BY <1>1, <2>1
  <1> QED BY <1>2, <1>3, <1>5, <1>6, <1>7, <1>8, <1>9 DEF FeedStep, FeedNext, Run, Sync

LEMMA LostHolds == StepSpec => []LostInv
  <1> QED BY LostInit, LostStep, FeedInvHolds, PTL DEF StepSpec

LEMMA BlipsInit == ASSUME MaxBlips \in 0..(serverLostThreshold - 1), FeedInit PROVE BlipsInv
  BY DEF FeedInit, BlipsInv, serverLostThreshold

LEMMA BlipsStep ==
  ASSUME MaxBlips \in 0..(serverLostThreshold - 1), FeedInv, BlipsInv, [FeedStep]_feedVars
  PROVE  BlipsInv'
  <1>s. sub \in SubType /\ blips \in Nat /\ restarts \in Nat
    BY DEF FeedInv, SubOK, PanesOK
  <1>m. MaxBlips \in Nat /\ MaxBlips <= 2 /\ serverLostThreshold = 3
    BY DEF serverLostThreshold
  <1>f. restarts' = 0 => restarts = 0 /\ (serverUp' => serverUp)
    BY FirstServer
  <1>1. CASE PollFails
    <2> DEFINE failures == IF sub.failures < serverLostThreshold THEN sub.failures + 1 ELSE sub.failures
               lose == Lose(failures)
    <2>1. lose \in BOOLEAN
      BY DEF Lose
    <2>2. failures \in Nat /\ failures <= sub.failures + 1
      BY <1>s, <1>m DEF SubType
    <2>3. lose => failures >= 3
      BY <1>m DEF Lose
    <2> HIDE DEF lose, failures
    <2>4. /\ sub' = [sub EXCEPT !.failures = failures, !.lostNotified = @ \/ lose,
                                !.pc = IF lose THEN "lost" ELSE "poll"]
          /\ \/ ~serverUp /\ blips' = blips
             \/ serverUp /\ blips < MaxBlips /\ blips' = blips + 1
          /\ UNCHANGED <<serverUp, restarts>>
      BY <1>1 DEF PollFails, lose, failures
    <2>5. sub'.failures = failures /\ sub'.lostNotified = (sub.lostNotified \/ lose) /\ sub.failures \in Nat
      BY <1>s, <2>1, <2>4 DEF SubType, serverLostThreshold
    <2>6. blips' <= MaxBlips
      BY <1>s, <1>m, <2>4 DEF BlipsInv
    <2>7. ASSUME restarts = 0, serverUp PROVE sub'.failures <= blips' /\ ~sub'.lostNotified
      <3>1. sub.failures <= blips /\ ~sub.lostNotified /\ blips' = blips + 1
        BY <2>4, <2>7 DEF BlipsInv
      <3>2. failures <= blips'
        BY <1>s, <2>2, <2>5, <3>1
      <3>3. ~(failures >= 3)
        BY <1>s, <1>m, <2>2, <2>6, <3>1, <3>2
      <3> QED BY <2>3, <2>5, <3>1, <3>2, <3>3
    <2> QED BY <2>4, <2>6, <2>7 DEF BlipsInv
  <1>2. CASE PollOk
    <2>1. sub'.failures = 0 /\ sub'.lostNotified = sub.lostNotified /\ blips' = 0
      BY <1>2, <1>s DEF PollOk, SubType
    <2> QED BY <1>m, <1>f, <2>1 DEF BlipsInv
  <1>3. CASE blips' = blips /\ sub'.failures = sub.failures /\ sub'.lostNotified = sub.lostNotified
    BY <1>f, <1>3 DEF BlipsInv
  <1>4. CASE SendLost \/ SendClosed \/ SyncDone \/ BeginTeardown \/ CloseOut
             \/ \E p \in Pane : StartTracker(p) \/ StartFails(p) \/ StopTracker(p)
    <2>1. blips' = blips
      BY <1>4 DEF SendLost, SendClosed, SyncDone, BeginTeardown, CloseOut, StartTracker, StartFails, StopTracker, tmuxVars
    <2>2. sub'.failures = sub.failures /\ sub'.lostNotified = sub.lostNotified
      BY <1>4, <1>s DEF SendLost, SendClosed, SyncDone, BeginTeardown, CloseOut, StartTracker, StartFails, StopTracker, SubType
    <2> QED BY <1>3, <2>1, <2>2, SMTT(40)
  <1>5. CASE UNCHANGED <<blips, sub>>
    BY <1>3, <1>5
  <1>6. CASE Tmux \/ (\E t \in Tracker : ReaderStep(t)) \/ DrainEvent \/ DrainEnds \/ CancelFeed
             \/ UNCHANGED feedVars \/ \E p \in Pane : TeardownStop(p) \/ Mint(p)
    BY <1>5, <1>6 DEF Tmux, NewPane, Output, KillPane, ServerDies, ServerStarts, ReaderStep, ReadFifo, Deliver,
       ReaderReturns, DrainEvent, DrainEnds, CancelFeed, feedVars, TeardownStop, Mint, tmuxVars
  <1> QED BY <1>1, <1>2, <1>4, <1>6 DEF FeedStep, FeedNext, Run, Sync

LEMMA BlipsHold == ASSUME MaxBlips \in 0..(serverLostThreshold - 1) PROVE StepSpec => []BlipsInv
  <1> QED BY BlipsInit, BlipsStep, FeedInvHolds, PTL DEF StepSpec

(* What LostOnce counts. *)
LEMMA LostCount ==
  ASSUME FeedInv, LostInv
  PROVE  Cardinality({i \in DOMAIN out : out[i].kind = "lost"}) + (IF serverLost THEN 1 ELSE 0) <= 1
  <1> DEFINE L == {i \in DOMAIN out : out[i].kind = "lost"}
  <1>1. CASE L = {}
    BY <1>1, FS_EmptySet
  <1>2. CASE L # {}
    <2>1. PICK i \in L : L = {i}
      BY <1>2 DEF LostInv, AtMostOneLost
    <2>2. Cardinality(L) = 1
      BY <2>1, FS_Singleton
    <2>3. ~serverLost
      <3>1. SUFFICES ASSUME out \in Seq(NotLost) PROVE FALSE
        BY DEF LostInv
      <3>2. \A j \in DOMAIN out : out[j] \in NotLost
        BY <3>1, LenProperties, ElementOfSeq
      <3> QED BY <2>1, <3>2 DEF NotLost
    <2> QED BY <2>2, <2>3
  <1> QED BY <1>1, <1>2

(* The loss of the server is told once, and not at all while the first     *)
(* server lives, given that it answers one of three polls in a row.        *)
THEOREM LossIsToldOnce ==
  ASSUME MaxBlips \in 0..(serverLostThreshold - 1)
  PROVE  (FeedSpec => []LostOnce) /\ (BootstrapSpec => []LostOnce)
  <1>1. FeedInv /\ LostInv /\ BlipsInv => LostOnce
    BY LostCount DEF LostOnce, BlipsInv
  <1> QED BY <1>1, FeedInvHolds, LostHolds, BlipsHold, FeedSteps, BootstrapSteps, PTL

-----------------------------------------------------------------------------
(* What of a channel's content o is output of p. *)
Part(e, p) == IF e.pane = p THEN e.bytes ELSE <<>>

Pieces(o, p) == [i \in DOMAIN o |-> Part(o[i], p)]

QueueOf(o, p) == FlattenSeq(Pieces(o, p))

LEMMA QueuedIs == ASSUME NEW p \in Pane PROVE Queued(p) = QueueOf(out, p)
  BY DEF Queued, QueueOf, Pieces, Part

LEMMA PartType == ASSUME NEW e \in WellEvent, NEW p \in Pane PROVE Part(e, p) \in Seq(Byte)
  BY EventTyped, EmptySeq DEF Part

LEMMA IntervalLen == ASSUME NEW k \in Nat, NEW n \in Nat, 1..k = 1..n PROVE k = n
  <1>1. k \in 1..k \/ k = 0
    OBVIOUS
  <1>2. n \in 1..n \/ n = 0
    OBVIOUS
  <1> QED BY <1>1, <1>2

LEMMA PiecesType ==
  ASSUME NEW o \in Seq(WellEvent), NEW p \in Pane
  PROVE  /\ Pieces(o, p) \in Seq(Seq(Byte)) /\ Len(Pieces(o, p)) = Len(o)
         /\ \A i \in 1..Len(o) : Pieces(o, p)[i] = Part(o[i], p)
         /\ QueueOf(o, p) \in Seq(Byte)
  <1>1. PICK n \in Nat : n = Len(o)
    BY LenProperties
  <1>2. DOMAIN o = 1..n /\ \A i \in 1..n : o[i] \in WellEvent
    BY <1>1, LenProperties, ElementOfSeq
  <1>3. Pieces(o, p) \in [1..n -> Seq(Byte)]
    BY <1>2, PartType DEF Pieces
  <1>4. Pieces(o, p) \in Seq(Seq(Byte))
    BY <1>1, <1>3, SeqDef
  <1>5. Len(Pieces(o, p)) = n
    <2>1. DOMAIN Pieces(o, p) = 1..Len(Pieces(o, p)) /\ Len(Pieces(o, p)) \in Nat
      BY <1>4, LenProperties
    <2>2. DOMAIN Pieces(o, p) = 1..n
      BY <1>3
    <2> QED BY <2>1, <2>2, IntervalLen
  <1>6. QueueOf(o, p) \in Seq(Byte)
    BY <1>4, FlattenType DEF QueueOf
  <1> QED BY <1>1, <1>2, <1>4, <1>5, <1>6 DEF Pieces

LEMMA QueueAppend ==
  ASSUME NEW o \in Seq(WellEvent), NEW e \in WellEvent, NEW p \in Pane
  PROVE  QueueOf(Append(o, e), p) = QueueOf(o, p) \o Part(e, p)
  <1>1. PICK n \in Nat : n = Len(o)
    BY LenProperties
  <1>2. PICK m \in Seq(WellEvent) : m = Append(o, e)
    BY AppendProperties
  <1>3. Len(m) = n + 1 /\ m[n + 1] = e /\ \A i \in 1..n : m[i] = o[i]
    BY <1>1, <1>2, AppendProperties
  <1>4. PICK s \in Seq(Seq(Byte)) : s = Pieces(o, p)
    BY PiecesType
  <1>5. PICK t \in Seq(Seq(Byte)) : t = Pieces(m, p)
    BY PiecesType
  <1>6. PICK x \in Seq(Byte) : x = Part(e, p)
    BY PartType
  <1>7. PICK u \in Seq(Seq(Byte)) : u = Append(s, x)
    BY AppendProperties
  <1>8. Len(s) = n /\ \A i \in 1..n : s[i] = Part(o[i], p)
    BY <1>1, <1>4, PiecesType
  <1>9. Len(t) = n + 1 /\ \A i \in 1..(n + 1) : t[i] = Part(m[i], p)
    BY <1>3, <1>5, PiecesType
  <1>10. Len(u) = n + 1 /\ u[n + 1] = x /\ \A i \in 1..n : u[i] = s[i]
    <2>1. Len(u) = Len(s) + 1 /\ u[Len(s) + 1] = x /\ \A i \in 1..Len(s) : u[i] = s[i]
      BY <1>7, AppendProperties
    <2> QED BY <1>8, <2>1
  <1>11. ASSUME NEW i \in 1..(n + 1) PROVE t[i] = u[i]
    <2>1. i \in 1..n \/ i = n + 1
      OBVIOUS
    <2> QED BY <1>3, <1>6, <1>8, <1>9, <1>10, <2>1
  <1>12. t = u
    BY <1>9, <1>10, <1>11, SeqEqual
  <1>13. FlattenSeq(u) = FlattenSeq(s) \o x
    BY <1>7, FlattenAppend
  <1> QED BY <1>2, <1>4, <1>5, <1>6, <1>12, <1>13 DEF QueueOf

LEMMA QueueTail ==
  ASSUME NEW o \in Seq(WellEvent), o # <<>>, NEW p \in Pane
  PROVE  QueueOf(o, p) = Part(Head(o), p) \o QueueOf(Tail(o), p)
  <1>1. PICK n \in Nat : n = Len(o)
    BY LenProperties
  <1>2. PICK m \in Seq(WellEvent) : m = Tail(o)
    BY HeadTailProperties
  <1>3. n # 0 /\ n - 1 \in Nat /\ Len(m) = n - 1 /\ Head(o) = o[1] /\ \A i \in 1..(n - 1) : m[i] = o[i + 1]
    BY <1>1, <1>2, HeadTailProperties, EmptySeq
  <1>4. PICK s \in Seq(Seq(Byte)) : s = Pieces(o, p)
    BY PiecesType
  <1>5. PICK t \in Seq(Seq(Byte)) : t = Pieces(m, p)
    BY PiecesType
  <1>6. Len(s) = n /\ \A i \in 1..n : s[i] = Part(o[i], p)
    BY <1>1, <1>4, PiecesType
  <1>7. Len(t) = n - 1 /\ \A i \in 1..(n - 1) : t[i] = Part(m[i], p)
    BY <1>3, <1>5, PiecesType
  <1>8. s # <<>>
    BY <1>3, <1>6, EmptySeq
  <1>9. PICK u \in Seq(Seq(Byte)) : u = Tail(s)
    BY <1>8, HeadTailProperties
  <1>10. Len(u) = n - 1 /\ Head(s) = s[1] /\ \A i \in 1..(n - 1) : u[i] = s[i + 1]
    BY <1>6, <1>8, <1>9, HeadTailProperties
  <1>11. ASSUME NEW i \in 1..(n - 1) PROVE t[i] = u[i]
    <2>1. i + 1 \in 1..n
      OBVIOUS
    <2> QED BY <1>3, <1>6, <1>7, <1>10, <2>1
  <1>12. t = u
    BY <1>7, <1>10, <1>11, SeqEqual
  <1>13. FlattenSeq(s) = Head(s) \o FlattenSeq(u)
    BY <1>8, <1>9, FlattenTail
  <1>14. Head(s) = Part(Head(o), p)
    BY <1>3, <1>6, <1>10
  <1> QED BY <1>2, <1>4, <1>5, <1>12, <1>13, <1>14 DEF QueueOf

(* A channel without output of p. *)
NoData(p) == {e \in WellEvent : ~(e.kind = "data" /\ e.pane = p)}

LEMMA QueueOfNone ==
  ASSUME NEW p \in Pane, NEW o \in Seq(NoData(p))
  PROVE  QueueOf(o, p) = <<>>
  <1>1. o \in Seq(WellEvent)
    <2>1. NoData(p) \subseteq WellEvent
      BY DEF NoData
    <2> QED BY <2>1, SeqMonotonic
  <1>2. PICK n \in Nat : n = Len(o)
    BY LenProperties
  <1>3. <<>> \in Seq({})
    BY EmptySeq
  <1>4. ASSUME NEW i \in 1..n PROVE Part(o[i], p) \in Seq({})
    <2>1. o[i] \in NoData(p)
      BY <1>2, ElementOfSeq
    <2>2. o[i].pane = p => o[i].bytes = <<>>
      BY <2>1 DEF NoData, WellEvent, EventType
    <2> QED BY <1>3, <2>2 DEF Part
  <1>5. DOMAIN o = 1..n
    BY <1>2, LenProperties
  <1>6. Pieces(o, p) \in [1..n -> Seq({})]
    BY <1>4, <1>5 DEF Pieces
  <1>7. Pieces(o, p) \in Seq(Seq({}))
    BY <1>6, SeqDef
  <1>8. QueueOf(o, p) \in Seq({})
    BY <1>7, FlattenType DEF QueueOf
  <1>9. PICK k \in Nat : QueueOf(o, p) \in [1..k -> {}]
    BY <1>8, SeqDef
  <1>10. k = 0
    <2>1. 1 \in 1..k => FALSE
      BY <1>9
    <2> QED BY <2>1
  <1>11. Len(QueueOf(o, p)) = 0
    <2>1. DOMAIN QueueOf(o, p) = 1..0
      BY <1>9, <1>10
    <2>2. DOMAIN QueueOf(o, p) = 1..Len(QueueOf(o, p)) /\ Len(QueueOf(o, p)) \in Nat
      BY <1>8, LenProperties
    <2>3. ~(1 \in 1..Len(QueueOf(o, p)))
      BY <2>1, <2>2
    <2> QED BY <2>2, <2>3
  <1> QED BY <1>8, <1>11, EmptySeq

-----------------------------------------------------------------------------
(* s ends with the n-th byte, and lacks none before it; t is how s ends.   *)
Exact(s, n) == \A i \in DOMAIN s : s[i] = n - Len(s) + i

EndOf(t, s) == Len(t) <= Len(s) /\ \A i \in 1..Len(t) : t[i] = s[(Len(s) - Len(t)) + i]

LEMMA ExactAppend ==
  ASSUME NEW s \in Seq(Byte), NEW n \in Nat, n + 1 \in Byte, Exact(s, n)
  PROVE  Exact(Append(s, n + 1), n + 1)
  <1>1. PICK k \in Nat : k = Len(s)
    BY LenProperties
  <1>2. PICK t \in Seq(Byte) : t = Append(s, n + 1)
    BY AppendProperties
  <1>3. Len(t) = k + 1 /\ t[k + 1] = n + 1 /\ \A i \in 1..k : t[i] = s[i]
    <2>1. Len(t) = Len(s) + 1 /\ t[Len(s) + 1] = n + 1 /\ \A i \in 1..Len(s) : t[i] = s[i]
      BY <1>2, AppendProperties
    <2> QED BY <1>1, <2>1
  <1>4. DOMAIN t = 1..(k + 1) /\ DOMAIN s = 1..k
    BY <1>1, <1>3, LenProperties
  <1>5. \A i \in 1..k : s[i] = n - k + i
    BY <1>1, <1>4 DEF Exact
  <1>6. ASSUME NEW i \in 1..(k + 1) PROVE t[i] = (n + 1) - (k + 1) + i
    <2>1. CASE i \in 1..k
      <3>1. t[i] = n - k + i
        BY <1>3, <1>5, <2>1
      <3> QED BY <3>1
    <2>2. CASE i = k + 1
      <3>1. t[i] = n + 1
        BY <1>3, <2>2
      <3>2. (n + 1) - (k + 1) + i = n + 1
        BY <2>2
      <3> QED BY <3>1, <3>2
    <2> QED BY <2>1, <2>2
  <1> QED BY <1>2, <1>3, <1>4, <1>6 DEF Exact

LEMMA ExactEnd ==
  ASSUME NEW s \in Seq(Byte), NEW t \in Seq(Byte), NEW n \in Nat, Exact(s, n), EndOf(t, s)
  PROVE  Exact(t, n)
  <1>1. PICK k \in Nat : k = Len(s)
    BY LenProperties
  <1>2. PICK m \in Nat : m = Len(t)
    BY LenProperties
  <1>3. m <= k /\ \A i \in 1..m : t[i] = s[(k - m) + i]
    BY <1>1, <1>2 DEF EndOf
  <1>4. \A i \in 1..k : s[i] = n - k + i
    BY <1>1, LenProperties DEF Exact
  <1>5. ASSUME NEW i \in 1..m PROVE t[i] = n - m + i
    <2>1. PICK j \in 1..k : j = (k - m) + i
      BY <1>3
    <2>2. t[i] = n - k + j
      BY <1>3, <1>4, <2>1
    <2>3. n - k + j = n - m + i
      BY <2>1
    <2> QED BY <2>2, <2>3
  <1> QED BY <1>2, <1>5, LenProperties DEF Exact

LEMMA EndConcat ==
  ASSUME NEW x \in Seq(Byte), NEW y \in Seq(Byte), NEW z \in Seq(Byte), EndOf(x, y)
  PROVE  EndOf(x \o z, y \o z)
  <1>1. PICK m \in Nat : m = Len(x)
    BY LenProperties
  <1>2. PICK k \in Nat : k = Len(y)
    BY LenProperties
  <1>3. PICK l \in Nat : l = Len(z)
    BY LenProperties
  <1>4. m <= k /\ \A i \in 1..m : x[i] = y[(k - m) + i]
    BY <1>1, <1>2 DEF EndOf
  <1>5. PICK xz \in Seq(Byte) : xz = x \o z
    BY ConcatProperties
  <1>6. PICK yz \in Seq(Byte) : yz = y \o z
    BY ConcatProperties
  <1>7. Len(xz) = m + l /\ \A i \in 1..(m + l) : xz[i] = IF i <= m THEN x[i] ELSE z[i - m]
    BY <1>1, <1>3, <1>5, ConcatProperties
  <1>8. Len(yz) = k + l /\ \A i \in 1..(k + l) : yz[i] = IF i <= k THEN y[i] ELSE z[i - k]
    BY <1>2, <1>3, <1>6, ConcatProperties
  <1>9. ASSUME NEW i \in 1..(m + l) PROVE xz[i] = yz[((k + l) - (m + l)) + i]
    <2>1. PICK j \in 1..(k + l) : j = (k - m) + i
      BY <1>4
    <2>2. ((k + l) - (m + l)) + i = j
      BY <2>1
    <2>3. CASE i <= m
      <3>1. j <= k /\ i \in 1..m
        BY <2>1, <2>3
      <3>2. xz[i] = x[i] /\ yz[j] = y[j] /\ x[i] = y[(k - m) + i]
        BY <1>4, <1>7, <1>8, <2>3, <3>1
      <3> QED BY <2>1, <2>2, <3>2
    <2>4. CASE ~(i <= m)
      <3>1. ~(j <= k) /\ j - k = i - m
        BY <2>1, <2>4
      <3>2. xz[i] = z[i - m] /\ yz[j] = z[j - k]
        BY <1>7, <1>8, <2>4, <3>1
      <3> QED BY <2>2, <3>1, <3>2
    <2> QED BY <2>3, <2>4
  <1>10. m + l <= k + l
    BY <1>4
  <1> QED BY <1>5, <1>6, <1>7, <1>8, <1>9, <1>10 DEF EndOf

-----------------------------------------------------------------------------
(* Of a pane that printed n bytes, from of them before the pipe began: the *)
(* store retains r of the e bytes it was given, and q, h and f are on      *)
(* their way, in the channel, in the reader's hand and in the FIFO.        *)
Flow(r, e, q, h, f, n, from) == /\ Exact(r \o ((q \o h) \o f), n)
                                /\ e + Len((q \o h) \o f) = n - from

LEMMA TransitType ==
  ASSUME NEW q \in Seq(Byte), NEW h \in Seq(Byte), NEW f \in Seq(Byte)
  PROVE  (q \o h) \o f \in Seq(Byte) /\ (q \o h) \o f = q \o (h \o f)
  BY ConcatProperties, ConcatAssociative

LEMMA ConcatAppend ==
  ASSUME NEW s \in Seq(Byte), NEW f \in Seq(Byte), NEW x \in Byte
  PROVE  s \o Append(f, x) = Append(s \o f, x)
  <1>1. PICK k \in Nat : k = Len(s)
    BY LenProperties
  <1>2. PICK l \in Nat : l = Len(f)
    BY LenProperties
  <1>3. PICK g \in Seq(Byte) : g = Append(f, x)
    BY AppendProperties
  <1>4. Len(g) = l + 1 /\ g[l + 1] = x /\ \A i \in 1..l : g[i] = f[i]
    <2>1. Len(g) = Len(f) + 1 /\ g[Len(f) + 1] = x /\ \A i \in 1..Len(f) : g[i] = f[i]
      BY <1>3, AppendProperties
    <2> QED BY <1>2, <2>1
  <1>5. PICK sf \in Seq(Byte) : sf = s \o f
    BY ConcatProperties
  <1>6. Len(sf) = k + l /\ \A i \in 1..(k + l) : sf[i] = IF i <= k THEN s[i] ELSE f[i - k]
    BY <1>1, <1>2, <1>5, ConcatProperties
  <1>7. PICK sg \in Seq(Byte) : sg = s \o g
    BY ConcatProperties
  <1>8. Len(sg) = k + (l + 1) /\ \A i \in 1..(k + (l + 1)) : sg[i] = IF i <= k THEN s[i] ELSE g[i - k]
    BY <1>1, <1>4, <1>7, ConcatProperties
  <1>9. PICK sfx \in Seq(Byte) : sfx = Append(sf, x)
    BY AppendProperties
  <1>10. Len(sfx) = (k + l) + 1 /\ sfx[(k + l) + 1] = x /\ \A i \in 1..(k + l) : sfx[i] = sf[i]
    <2>1. Len(sfx) = Len(sf) + 1 /\ sfx[Len(sf) + 1] = x /\ \A i \in 1..Len(sf) : sfx[i] = sf[i]
      BY <1>9, AppendProperties
    <2> QED BY <1>6, <2>1
  <1>11. ASSUME NEW i \in 1..(k + (l + 1)) PROVE sg[i] = sfx[i]
    <2>1. CASE i <= k
      <3>1. i \in 1..(k + l)
        BY <2>1
      <3> QED BY <1>6, <1>8, <1>10, <2>1, <3>1
    <2>2. CASE ~(i <= k) /\ i <= k + l
      <3>1. i \in 1..(k + l) /\ i - k \in 1..l
        BY <2>2
      <3> QED BY <1>4, <1>6, <1>8, <1>10, <2>2, <3>1
    <2>3. CASE i = (k + l) + 1
      <3>1. ~(i <= k) /\ i - k = l + 1
        BY <2>3
      <3>2. sg[i] = g[l + 1]
        BY <1>8, <3>1
      <3> QED BY <1>4, <1>10, <2>3, <3>2
    <2> QED BY <2>1, <2>2, <2>3
  <1>12. k + (l + 1) = (k + l) + 1
    OBVIOUS
  <1>13. Len(sg) = Len(sfx) /\ \A i \in 1..Len(sg) : sg[i] = sfx[i]
    BY <1>8, <1>10, <1>11, <1>12
  <1> QED BY <1>3, <1>5, <1>7, <1>9, <1>13, SeqEqual

LEMMA FlowOutput ==
  ASSUME NEW r \in Seq(Byte), NEW e \in Nat, NEW q \in Seq(Byte), NEW h \in Seq(Byte), NEW f \in Seq(Byte),
         NEW n \in Nat, NEW from \in Nat, Flow(r, e, q, h, f, n, from), n + 1 \in Byte
  PROVE  Flow(r, e, q, h, Append(f, n + 1), n + 1, from)
  <1>1. PICK qh \in Seq(Byte) : qh = q \o h
    BY ConcatProperties
  <1>2. PICK w \in Seq(Byte) : w = qh \o f
    BY ConcatProperties
  <1>3. PICK s \in Seq(Byte) : s = r \o w
    BY ConcatProperties
  <1>4. Exact(s, n) /\ e + Len(w) = n - from
    BY <1>1, <1>2, <1>3 DEF Flow
  <1>5. qh \o Append(f, n + 1) = Append(w, n + 1) /\ r \o Append(w, n + 1) = Append(s, n + 1)
    BY <1>2, <1>3, ConcatAppend, ZenonT(60)
  <1>6. Exact(Append(s, n + 1), n + 1)
    BY <1>4, ExactAppend
  <1>7. PICK k \in Nat : k = Len(w)
    BY LenProperties
  <1>8. Len(Append(w, n + 1)) = k + 1
    BY <1>7, AppendProperties
  <1>9. e + (k + 1) = (n + 1) - from
    <2>1. e + k = n - from
      BY <1>4, <1>7
    <2> QED BY <2>1
  <1> QED BY <1>1, <1>5, <1>6, <1>8, <1>9 DEF Flow

LEMMA FlowRead ==
  ASSUME NEW r, NEW e, NEW q \in Seq(Byte), NEW h \in Seq(Byte), NEW f \in Seq(Byte), NEW n, NEW from,
         NEW all \in Seq(Byte), h \o f = all, Flow(r, e, q, <<>>, all, n, from)
  PROVE  Flow(r, e, q, h, f, n, from)
  <1>1. q \o <<>> = q
    BY ConcatEmptySeq
  <1>2. (q \o h) \o f = q \o all
    BY TransitType, ZenonT(60)
  <1> QED BY <1>1, <1>2 DEF Flow

LEMMA FlowDeliver ==
  ASSUME NEW r, NEW e, NEW q \in Seq(Byte), NEW h \in Seq(Byte), NEW f, NEW n, NEW from,
         Flow(r, e, q, h, f, n, from)
  PROVE  Flow(r, e, q \o h, <<>>, f, n, from)
  <1>1. (q \o h) \o <<>> = q \o h
    BY ConcatProperties, ConcatEmptySeq
  <1> QED BY <1>1 DEF Flow

LEMMA ExactRegroup ==
  ASSUME NEW r \in Seq(Byte), NEW b \in Seq(Byte), NEW w \in Seq(Byte), NEW n, Exact(r \o (b \o w), n)
  PROVE  Exact((r \o b) \o w, n)
  <1>1. (r \o b) \o w = r \o (b \o w)
    BY ConcatAssociative
  <1> QED BY <1>1

LEMMA FlowStart == ASSUME NEW n \in Nat PROVE Flow(<<>>, 0, <<>>, <<>>, <<>>, n, n)
  <1>1. <<>> \in Seq(Byte) /\ Len(<<>>) = 0 /\ <<>> \o <<>> = <<>>
    BY EmptySeq, ConcatEmptySeq
  <1>2. DOMAIN <<>> = {}
    OBVIOUS
  <1> QED BY <1>1, <1>2 DEF Flow, Exact

-----------------------------------------------------------------------------
(* While the first server lives, a pane is piped once: either nothing of   *)
(* its output was ever on its way, or it is tracked, or gone, or the       *)
(* subscription ends; and no other reader than the one of its pipe can     *)
(* come with an older chunk.                                               *)
Untouched(p) ==
    /\ BufferOf(p).end = 0
    /\ out \in Seq(NoData(p))
    /\ \A t \in Tracker : reader[t].live => reader[t].pane # p

Spent(p) == p \in DOMAIN trackers \/ p \in born \ alive \/ sub.pc \in {"teardown", "done"}

OnlyReader(p) == Piped(p) => \A t \in Tracker : reader[t].live /\ reader[t].pane = p => t = pipe[p]

OnceInv == restarts = 0 => \A p \in Pane : (Untouched(p) \/ Spent(p)) /\ OnlyReader(p)

LEMMA OnceInit == FeedInit => OnceInv
  <1> SUFFICES ASSUME FeedInit, NEW p \in Pane PROVE Untouched(p) /\ OnlyReader(p)
    BY DEF OnceInv
  <1>1. BufferOf(p).end = 0
    BY DEF FeedInit, StoreInit, BufferOf, Known, NewBuffer
  <1>2. out \in Seq(NoData(p))
    BY EmptySeq DEF FeedInit
  <1>3. \A t \in Tracker : ~reader[t].live
    BY FreeType DEF FeedInit
  <1>4. ~Piped(p)
    BY DEF Piped, FeedInit
  <1> QED BY <1>1, <1>2, <1>3, <1>4 DEF Untouched, OnlyReader

(* What a step may do to a pane without touching it, *)
LEMMA UntouchedFrame ==
  ASSUME NEW p \in Pane, Untouched(p), BufferOf(p)'.end = BufferOf(p).end, out' \in Seq(NoData(p)),
         \A t \in Tracker : reader'[t].live /\ reader'[t].pane = p => reader[t].live /\ reader[t].pane = p
  PROVE  Untouched(p)'
  BY DEF Untouched

(* and without giving it another reader. *)
LEMMA OnlyReaderFrame ==
  ASSUME NEW p \in Pane, OnlyReader(p),
         Piped(p)' => Piped(p) /\ pipe'[p] = pipe[p],
         \A t \in Tracker : reader'[t].live /\ reader'[t].pane = p => reader[t].live /\ reader[t].pane = p
  PROVE  OnlyReader(p)'
  BY DEF OnlyReader

(* The steps that leave the store alone and send no output. *)
LEMMA OnceFrame ==
  ASSUME OnceInv, restarts = 0,
         UNCHANGED bufs, \A p \in Pane : out \in Seq(NoData(p)) => out' \in Seq(NoData(p)),
         \A p \in Pane : Spent(p) => Spent(p)',
         \A p \in Pane : Piped(p)' => Piped(p) /\ pipe'[p] = pipe[p],
         \A t \in Tracker : reader'[t].live => reader[t].live /\ reader'[t].pane = reader[t].pane
  PROVE  OnceInv'
  <1> SUFFICES ASSUME NEW p \in Pane PROVE (Untouched(p) \/ Spent(p))' /\ OnlyReader(p)'
    BY DEF OnceInv
  <1>1. BufferOf(p)' = BufferOf(p)
    BY DEF BufferOf, Known
  <1>2. \A t \in Tracker : reader'[t].live /\ reader'[t].pane = p => reader[t].live /\ reader[t].pane = p
    OBVIOUS
  <1>3. OnlyReader(p)'
    BY <1>2, OnlyReaderFrame DEF OnceInv
  <1>4. Untouched(p) => Untouched(p)'
    <2> SUFFICES ASSUME Untouched(p) PROVE Untouched(p)'
      OBVIOUS
    <2>1. out' \in Seq(NoData(p))
      BY DEF Untouched
    <2> QED BY <1>1, <1>2, <2>1, UntouchedFrame
  <1> QED BY <1>3, <1>4 DEF OnceInv

LEMMA OnceTmux == ASSUME FeedInv, OnceInv, Tmux, restarts' = 0 PROVE OnceInv'
  <1>1. restarts = 0
    BY FirstServer DEF FeedStep, FeedNext
  <1>2. UNCHANGED <<sub, trackers, out, controllerVars>>
    BY DEF Tmux, NewPane, Output, KillPane, ServerDies, ServerStarts
  <1>3. ~ServerStarts
    BY <1>1 DEF ServerStarts
  <1>4. ASSUME NEW q \in Pane, Spent(q) PROVE Spent(q)'
    <2>1. q \in born \ alive => q \in born' \ alive'
      BY <1>3 DEF Tmux, NewPane, Output, KillPane, ServerDies
    <2> QED BY <1>2, <1>4, <2>1 DEF Spent
  <1>5. ASSUME NEW t \in Tracker
        PROVE  reader'[t].live = reader[t].live /\ reader'[t].pane = reader[t].pane
               /\ reader'[t].open = reader[t].open
    <2>1. ASSUME NEW p \in Pane, Output(p)
          PROVE  reader'[t].live = reader[t].live /\ reader'[t].pane = reader[t].pane
                 /\ reader'[t].open = reader[t].open
      BY <2>1 DEF Output, FeedInv, ReadersOK, ReaderType
    <2>2. CASE reader' = reader
      BY <2>2
    <2> QED BY <2>1, <2>2 DEF Tmux, NewPane, KillPane, ServerDies, ServerStarts
  <1>6. ASSUME NEW q \in Pane, Piped(q)' PROVE Piped(q) /\ pipe'[q] = pipe[q]
    <2>1. pipe'[q] = pipe[q]
      BY <1>6 DEF Piped, Tmux, NewPane, Output, KillPane, ServerDies, ServerStarts, FeedInv, TrackersOK
    <2>2. pipe[q] \in Tracker
      BY <1>6, <2>1 DEF Piped, FeedInv, TrackersOK
    <2> QED BY <1>5, <1>6, <2>1, <2>2 DEF Piped
  <1>7. UNCHANGED bufs
    BY <1>2 DEF controllerVars, storeVars
  <1>8. \A q \in Pane : out \in Seq(NoData(q)) => out' \in Seq(NoData(q))
    BY <1>2
  <1> QED BY <1>1, <1>4, <1>5, <1>6, <1>7, <1>8, OnceFrame

(* A tracker starts only for a pane whose output was never on its way. *)
LEMMA StartsUntouched ==
  ASSUME FeedInv, OnceInv, restarts = 0, NEW p \in Pane, StartTracker(p)
  PROVE  Untouched(p) /\ ~Spent(p)
  <1>1. sub.pc = "diff" /\ p \in alive
    BY DEF StartTracker, SubAt
  <1>2. p \notin DOMAIN trackers
    BY StartEffect
  <1> QED BY <1>1, <1>2 DEF OnceInv, Spent

LEMMA OnceStart ==
  ASSUME FeedInv, OnceInv, restarts = 0, NEW p \in Pane, StartTracker(p) PROVE OnceInv'
  <1>1. Untouched(p) /\ ~Spent(p)
    BY StartsUntouched
  <1>2. PICK t \in Tracker :
           /\ reader[t] = Free /\ \A q \in DOMAIN trackers : trackers[q] # t
           /\ pipe' = [pipe EXCEPT ![p] = t]
           /\ DOMAIN trackers' = DOMAIN trackers \cup {p}
           /\ reader'[t] = [Free EXCEPT !.pane = p, !.live = TRUE, !.open = TRUE, !.from = printed[p]]
           /\ \A u \in Tracker : u # t => reader'[u] = reader[u]
           /\ UNCHANGED <<tmuxVars, out, controllerVars, cancelled>>
    BY StartEffect
  <1>3. reader'[t].live /\ reader'[t].open /\ reader'[t].pane = p
    BY <1>2 DEF Free
  <1>4. pipe'[p] = t /\ \A q \in Pane : q # p => pipe'[q] = pipe[q]
    BY <1>2 DEF FeedInv, TrackersOK
  <1>5. Spent(p)'
    BY <1>2 DEF Spent
  <1>6. OnlyReader(p)'
    BY <1>1, <1>2, <1>4 DEF OnlyReader, Untouched
  <1>7. ASSUME NEW q \in Pane, q # p PROVE (Untouched(q) \/ Spent(q))' /\ OnlyReader(q)'
    <2>1. \A u \in Tracker : reader'[u].live /\ reader'[u].pane = q => reader[u].live /\ reader[u].pane = q
      BY <1>2, <1>3, <1>7
    <2>2. Spent(q) => Spent(q)'
      <3>1. sub'.pc = sub.pc
        BY DEF StartTracker, FeedInv, SubOK, SubType
      <3> QED BY <1>2, <3>1 DEF Spent, tmuxVars
    <2>3. Untouched(q) => Untouched(q)'
      BY <1>2, <2>1 DEF Untouched, BufferOf, Known, controllerVars, storeVars
    <2>4. Piped(q)' => Piped(q)
      <3> SUFFICES ASSUME Piped(q)' PROVE Piped(q)
        OBVIOUS
      <3>1. pipe[q] # NoTracker /\ pipe'[q] = pipe[q] /\ pipe[q] \in Tracker /\ reader[pipe[q]].live
        BY <1>4, <1>7 DEF Piped, FeedInv, TrackersOK, PipesOK
      <3>2. pipe[q] # t
        BY <1>2, <3>1, FreeType
      <3> QED BY <1>2, <3>1, <3>2 DEF Piped
    <2>5. OnlyReader(q)'
      BY <1>4, <1>7, <2>1, <2>4, OnlyReaderFrame DEF OnceInv
    <2> QED BY <2>2, <2>3, <2>5 DEF OnceInv
  <1> QED BY <1>5, <1>6, <1>7 DEF OnceInv

LEMMA OnceSub ==
  ASSUME FeedInv, OnceInv, restarts = 0,
         PollOk \/ PollFails \/ SendLost \/ SendClosed \/ SyncDone \/ BeginTeardown \/ CloseOut
           \/ (\E p \in Pane : StartFails(p))
  PROVE  OnceInv'
  <1>1. UNCHANGED <<born, alive, trackers, reader, bufs>>
    BY DEF PollOk, PollFails, SendLost, SendClosed, SyncDone, BeginTeardown, CloseOut, StartFails,
           tmuxVars, controllerVars, storeVars
  <1>p. FewerPipes
    BY PipesStop DEF PollOk, PollFails, SendLost, SendClosed, SyncDone, BeginTeardown, CloseOut
  <1>2. sub.pc \in {"teardown", "done"} => sub'.pc \in {"teardown", "done"}
    BY DEF PollOk, PollFails, SendLost, SendClosed, SyncDone, BeginTeardown, CloseOut, StartFails,
           SubAt, FeedInv, SubOK, SubType
  <1>3. ASSUME NEW q \in Pane, out \in Seq(NoData(q)) PROVE out' \in Seq(NoData(q))
    <2>1. Event("lost", NoPane, <<>>) \in NoData(q)
      BY EventOK DEF NoData, Event
    <2>2. sub.pc = "closed" => Event("closed", sub.closing, <<>>) \in NoData(q)
      BY EventOK DEF NoData, Event, FeedInv, SubOK
    <2>3. CASE out' = out
      BY <1>3, <2>3
    <2>4. CASE SendLost /\ out' = Append(out, Event("lost", NoPane, <<>>))
      BY <1>3, <2>1, <2>4, AppendProperties
    <2>5. CASE SendClosed /\ out' = Append(out, Event("closed", sub.closing, <<>>))
      BY <1>3, <2>2, <2>5, AppendProperties DEF SendClosed, SubAt
    <2> QED BY <2>3, <2>4, <2>5 DEF PollOk, PollFails, SendLost, SendClosed, SyncDone, BeginTeardown,
               CloseOut, StartFails
  <1>4. \A q \in Pane : Spent(q) => Spent(q)'
    BY <1>1, <1>2 DEF Spent
  <1>5. \A q \in Pane : Piped(q)' => Piped(q) /\ pipe'[q] = pipe[q]
    BY <1>1, <1>p DEF Piped, FewerPipes
  <1> QED BY <1>1, <1>3, <1>4, <1>5, OnceFrame

(* A tracker stops for a pane that is gone, or at the end. *)
LEMMA OnceStop ==
  ASSUME FeedInv, KilledInv, OnceInv, restarts = 0,
         (\E p \in Pane : StopTracker(p)) \/ (\E p \in Pane : TeardownStop(p))
  PROVE  OnceInv'
  <1>1. PICK p \in DOMAIN trackers :
          /\ Stop(p) /\ UNCHANGED <<tmuxVars, out, controllerVars, cancelled>>
          /\ \/ sub' = sub /\ sub.pc = "teardown"
             \/ sub.pc = "diff" /\ p \in Gone
    BY DEF StopTracker, TeardownStop, Gone, SubAt
  <1>2. /\ trackers[p] \in Tracker /\ p \in Pane
        /\ FewerPipes
        /\ DOMAIN trackers' = DOMAIN trackers \ {p}
        /\ reader'[trackers[p]] = [reader[trackers[p]] EXCEPT !.open = FALSE, !.fifo = <<>>]
        /\ \A u \in Tracker : u # trackers[p] => reader'[u] = reader[u]
    BY <1>1, StopEffect
  <1>3. ASSUME NEW u \in Tracker
        PROVE  reader'[u].live = reader[u].live /\ reader'[u].pane = reader[u].pane
               /\ (reader'[u].open => reader[u].open)
    <2>1. CASE u = trackers[p]
      <3>1. PICK r \in ReaderType : r = reader[u]
        BY DEF FeedInv, ReadersOK
      <3>2. reader'[u] = [r EXCEPT !.open = FALSE, !.fifo = <<>>]
        BY <1>2, <2>1, <3>1
      <3> QED BY <3>1, <3>2 DEF ReaderType
    <2>2. CASE u # trackers[p]
      BY <1>2, <2>2
    <2> QED BY <2>1, <2>2
  <1>4. sub.pc \in {"teardown", "done"} => sub' = sub
    BY <1>1
  <1>5. (sub' = sub /\ sub.pc = "teardown") \/ p \in born \ alive
    BY <1>1 DEF KilledInv, KilledOK, FeedInv, PanesOK
  <1>6. ASSUME NEW q \in Pane, Spent(q) PROVE Spent(q)'
    BY <1>1, <1>2, <1>4, <1>5, <1>6 DEF Spent, tmuxVars
  <1>7. ASSUME NEW q \in Pane, Piped(q)' PROVE Piped(q) /\ pipe'[q] = pipe[q]
    <2>1. pipe'[q] = pipe[q] /\ pipe[q] \in Tracker
      BY <1>2, <1>7 DEF Piped, FewerPipes, FeedInv, TrackersOK
    <2> QED BY <1>3, <1>7, <2>1 DEF Piped
  <1>8. UNCHANGED <<bufs, out>>
    BY <1>1 DEF controllerVars, storeVars
  <1> QED BY <1>3, <1>6, <1>7, <1>8, OnceFrame

LEMMA OnceReader ==
  ASSUME FeedInv, OnceInv, restarts = 0, NEW t \in Tracker, ReaderStep(t)
  PROVE  OnceInv'
  <1>1. UNCHANGED <<tmuxVars, sub, trackers, controllerVars, cancelled>>
    BY DEF ReaderStep, ReadFifo, Deliver, ReaderReturns
  <1>p. FewerPipes
    BY PipesStop DEF ReaderStep, ReadFifo, Deliver
  <1>2. ASSUME NEW u \in Tracker
        PROVE  /\ reader'[u].live => reader[u].live /\ reader'[u].pane = reader[u].pane
               /\ reader'[u].open => reader[u].open
    <2>1. CASE ReadFifo(t)
      <3>1. PICK hold \in Seq(Byte), fifo \in Seq(Byte) :
              reader' = [reader EXCEPT ![t].hold = hold, ![t].fifo = fifo]
        BY <2>1, ReadEffect, ZenonT(60)
      <3> QED BY <3>1 DEF FeedInv, ReadersOK, ReaderType
    <2>2. CASE Deliver(t)
      <3>1. reader'[t] = [reader[t] EXCEPT !.hold = <<>>] /\ (u # t => reader'[u] = reader[u])
        BY <2>2, DeliverEffect
      <3> QED BY <3>1 DEF FeedInv, ReadersOK, ReaderType
    <2>3. CASE ReaderReturns(t)
      BY <2>3, FreeType DEF ReaderReturns, FeedInv, ReadersOK
    <2> QED BY <2>1, <2>2, <2>3 DEF ReaderStep
  <1>3. ASSUME NEW q \in Pane, Piped(q)' PROVE Piped(q) /\ pipe'[q] = pipe[q]
    <2>1. pipe[q] \in Tracker /\ pipe'[q] = pipe[q]
      BY <1>p, <1>3 DEF Piped, FewerPipes, FeedInv, TrackersOK
    <2> QED BY <1>2, <1>3, <2>1 DEF Piped
  <1>4. \A q \in Pane : Spent(q)' = Spent(q)
    BY <1>1 DEF Spent, tmuxVars
  <1>5. ASSUME NEW q \in Pane PROVE (Untouched(q) \/ Spent(q))' /\ OnlyReader(q)'
    <2>1. \A u \in Tracker : reader'[u].live /\ reader'[u].pane = q => reader[u].live /\ reader[u].pane = q
      BY <1>2
    <2>2. OnlyReader(q)'
      BY <1>1, <1>3, <2>1, OnlyReaderFrame DEF OnceInv
    <2>3. ASSUME Untouched(q) PROVE Untouched(q)'
      <3>1. out' \in Seq(NoData(q))
        <4>1. CASE Deliver(t)
          <5>1. PICK e \in WellEvent : out' = Append(out, e) /\ e.pane = reader[t].pane /\ reader[t].live
            BY <4>1, DeliverEffect DEF Event
          <5>2. e \in NoData(q)
            BY <2>3, <5>1 DEF NoData, Untouched
          <5> QED BY <2>3, <5>1, <5>2, AppendProperties DEF Untouched
        <4>2. CASE out' = out
          BY <2>3, <4>2 DEF Untouched
        <4> QED BY <4>1, <4>2 DEF ReaderStep, ReadFifo, ReaderReturns
      <3>2. BufferOf(q)' = BufferOf(q)
        BY <1>1 DEF BufferOf, Known, controllerVars, storeVars
      <3> QED BY <2>1, <2>3, <3>1, <3>2, UntouchedFrame
    <2> QED BY <1>4, <2>2, <2>3 DEF OnceInv
  <1> QED BY <1>5 DEF OnceInv

LEMMA OnceDrain == ASSUME FeedInv, OnceInv, restarts = 0, DrainEvent PROVE OnceInv'
  <1>1. /\ out # <<>> /\ out' = Tail(out) /\ Head(out) \in WellEvent
        /\ UNCHANGED <<tmuxVars, pipe, sub, trackers, reader, drained, cancelled>>
        /\ \/ Head(out).kind = "data" /\ Head(out).pane \in Pane
              /\ StoreAppend(Head(out).pane, Head(out).bytes)
           \/ Head(out).pane \in Pane /\ StoreForget(Head(out).pane)
           \/ UNCHANGED storeVars
    BY DrainStep
  <1> DEFINE e == Head(out)
  <1>2. e.bytes \in Seq(Byte)
    BY <1>1, EventTyped
  <1>3. ASSUME NEW q \in Pane PROVE (Untouched(q) \/ Spent(q))' /\ OnlyReader(q)'
    <2>1. OnlyReader(q)'
      BY <1>1, OnlyReaderFrame DEF OnceInv, Piped
    <2>2. Spent(q) => Spent(q)'
      BY <1>1 DEF Spent, tmuxVars
    <2>3. ASSUME Untouched(q) PROVE Untouched(q)'
      <3>1. out' \in Seq(NoData(q)) /\ e \in NoData(q)
        BY <1>1, <2>3, HeadTailProperties DEF Untouched
      <3>2. BufferOf(q)'.end = 0
        <4>0. BufferOf(q).end = 0
          BY <2>3 DEF Untouched
        <4>1. CASE e.kind = "data" /\ e.pane \in Pane /\ StoreAppend(e.pane, e.bytes)
          <5>1. q # e.pane
            BY <3>1, <4>1 DEF NoData
          <5>2. BufferAppend(BufferOf(e.pane), e.bytes, now) \in ValidBuffer
            BY <1>2, <4>1, AppendTyped
          <5> HIDE DEF e
          <5>3. BufferOf(q)' = BufferOf(q)
            BY <4>1, <5>1, <5>2, SetBufferTyped DEF StoreAppend
          <5> QED BY <4>0, <5>3
        <4>2. CASE e.pane \in Pane /\ StoreForget(e.pane)
          <5> HIDE DEF e
          <5>1. BufferOf(q)' = NewBuffer \/ BufferOf(q)' = BufferOf(q)
            BY <4>2, ForgetTyped
          <5> QED BY <4>0, <5>1 DEF NewBuffer
        <4>3. CASE UNCHANGED storeVars
          BY <4>0, <4>3 DEF BufferOf, Known, storeVars
        <4> QED BY <1>1, <4>1, <4>2, <4>3
      <3>3. BufferOf(q).end = 0
        BY <2>3 DEF Untouched
      <3> QED BY <1>1, <2>3, <3>1, <3>2, <3>3, UntouchedFrame
    <2> QED BY <2>1, <2>2, <2>3 DEF OnceInv
  <1> QED BY <1>3 DEF OnceInv

(* A buffer for a token is as good as none. *)
LEMMA MintKeepsBuffers ==
  ASSUME FeedInv, NEW p \in Pane, Mint(p), NEW q \in Pane
  PROVE  BufferOf(q)' = BufferOf(q)
  <1>1. BufferOf(p) \in ValidBuffer
    BY BufferValid
  <1>2. SetBuffer(p, BufferOf(p))
    BY DEF Mint, CreateBuffer
  <1> QED BY <1>1, <1>2, SetBufferTyped

LEMMA OnceStep == ASSUME FeedInv, KilledInv, OnceInv, [FeedStep]_feedVars PROVE OnceInv'
  <1> SUFFICES ASSUME restarts' = 0 PROVE OnceInv'
    BY DEF OnceInv
  <1>0. restarts = 0
    BY FirstServer
  <1>1. CASE \E p \in Pane : Mint(p)
    <2>1. PICK p \in Pane : Mint(p)
      BY <1>1
    <2>2. ASSUME NEW q \in Pane PROVE (Untouched(q) \/ Spent(q))' /\ OnlyReader(q)'
      <3>1. BufferOf(q)' = BufferOf(q)
        BY <2>1, MintKeepsBuffers
      <3>2. UNCHANGED <<out, reader, pipe, sub, trackers, born, alive>>
        BY <2>1 DEF Mint, tmuxVars
      <3> QED BY <1>0, <3>1, <3>2 DEF OnceInv, Untouched, Spent, OnlyReader, Piped
    <2> QED BY <2>2 DEF OnceInv
  <1>2. CASE DrainEnds \/ CancelFeed \/ UNCHANGED feedVars
    <2>1. UNCHANGED <<out, reader, pipe, sub, trackers, born, alive, bufs>>
      BY <1>2 DEF DrainEnds, CancelFeed, feedVars, tmuxVars, controllerVars, storeVars
    <2> QED BY <1>0, <2>1 DEF OnceInv, Untouched, Spent, OnlyReader, Piped, BufferOf, Known
  <1>3. CASE Tmux
    BY <1>3, OnceTmux
  <1>4. CASE Run
    BY <1>0, <1>4, OnceSub, OnceStart, OnceStop DEF Run, Sync
  <1>5. CASE \E t \in Tracker : ReaderStep(t)
    BY <1>0, <1>5, OnceReader
  <1>6. CASE DrainEvent
    BY <1>0, <1>6, OnceDrain
  <1> QED BY <1>1, <1>2, <1>3, <1>4, <1>5, <1>6 DEF FeedStep, FeedNext

LEMMA OnceHolds == StepSpec => []OnceInv
  <1> QED BY OnceInit, OnceStep, KilledHolds, FeedInvHolds, PTL DEF StepSpec

-----------------------------------------------------------------------------
(* A pane's output flows: what NothingSkipped says, of the values. *)
Window(b) == BufferRead(b, b.start)

FlowOf(b, o, r, n) == Flow(Window(b), b.end, o, r.hold, r.fifo, n, r.from)

FlowAt(p) == FlowOf(BufferOf(p), QueueOf(out, p), reader[pipe[p]], printed[p])

FlowInv == restarts = 0 => \A p \in Pane : Piped(p) => FlowAt(p)

LEMMA WindowType ==
  ASSUME NEW b \in ValidBuffer
  PROVE  Window(b) \in Seq(Byte) /\ Len(Window(b)) = b.end - b.start /\ b.end \in Nat /\ b.start \in Nat
         /\ b.start <= b.end
  <1>1. b.end \in Nat /\ b.start \in Nat /\ b.start <= b.end
    BY DEF ValidBuffer, BufferType
  <1>2. InWindow(b, b.start)
    BY <1>1 DEF InWindow
  <1> QED BY <1>1, <1>2, ReadType DEF Window

(* Nothing was appended yet. *)
LEMMA WindowOfNew ==
  ASSUME NEW b \in ValidBuffer, b.end = 0
  PROVE  Window(b) = <<>>
  <1>1. Window(b) \in Seq(Byte) /\ Len(Window(b)) = b.end - b.start /\ b.start \in Nat /\ b.start <= b.end
    BY WindowType
  <1>2. b.end - b.start = 0
    BY <1>1
  <1> QED BY <1>1, <1>2, EmptySeq

LEMMA RetainedIs ==
  ASSUME FeedInv, NEW p \in Pane
  PROVE  Retained(p) = Window(BufferOf(p))
  <1>1. CASE Known(p)
    BY <1>1 DEF Retained, Window, BufferOf
  <1>2. CASE ~Known(p)
    <2>1. BufferOf(p) = NewBuffer /\ NewBuffer \in ValidBuffer /\ NewBuffer.end = 0
      BY <1>2, NewBufferValid DEF BufferOf, NewBuffer
    <2> QED BY <1>2, <2>1, WindowOfNew DEF Retained
  <1> QED BY <1>1, <1>2

LEMMA FlowTypes ==
  ASSUME FeedInv, NEW p \in Pane, Piped(p)
  PROVE  /\ pipe[p] \in Tracker /\ p \in DOMAIN trackers /\ trackers[p] = pipe[p] /\ p \in alive
         /\ reader[pipe[p]] \in ReaderType
         /\ reader[pipe[p]].live /\ reader[pipe[p]].open /\ reader[pipe[p]].pane = p
         /\ reader[pipe[p]].hold \in Seq(Byte) /\ reader[pipe[p]].fifo \in Seq(Byte)
         /\ reader[pipe[p]].from \in Nat
         /\ QueueOf(out, p) \in Seq(Byte)
         /\ BufferOf(p) \in ValidBuffer
         /\ printed[p] \in Nat
  <1>0. pipe[p] \in Tracker /\ p \in alive
    BY DEF Piped, FeedInv, TrackersOK
  <1>2. reader[pipe[p]] \in ReaderType /\ ReaderOK(pipe[p]) /\ reader[pipe[p]].open
    BY <1>0 DEF Piped, FeedInv, ReadersOK
  <1>3. reader[pipe[p]].live /\ reader[pipe[p]].pane = p
    BY DEF Piped, FeedInv, PipesOK
  <1>4. reader[pipe[p]].pane = p
    BY <1>3
  <1>1. pipe[p] \in Tracker /\ p \in DOMAIN trackers /\ trackers[p] = pipe[p] /\ p \in alive
    <2>1. PICK q \in DOMAIN trackers : trackers[q] = pipe[p]
      BY <1>2 DEF ReaderOK
    <2>2. q = p
      BY <1>3, <2>1 DEF FeedInv, ReadersOK
    <2> QED BY <1>0, <2>1, <2>2
  <1>5. QueueOf(out, p) \in Seq(Byte)
    BY PiecesType DEF FeedInv, StoreOK
  <1>6. printed[p] \in Nat
    BY FeedAssumption DEF FeedInv, PanesOK
  <1> QED BY <1>1, <1>2, <1>3, <1>4, <1>5, <1>6, BufferValid DEF ReaderType

(* What NothingSkipped says. *)
LEMMA FlowMeans ==
  ASSUME FeedInv, NEW p \in Pane, Piped(p), FlowAt(p)
  PROVE  /\ Exact(Retained(p) \o InTransit(p), printed[p])
         /\ BufferOf(p).end + Len(InTransit(p)) = printed[p] - reader[pipe[p]].from
  <1>1. InTransit(p) = (QueueOf(out, p) \o reader[pipe[p]].hold) \o reader[pipe[p]].fifo
    BY QueuedIs DEF InTransit, Piped, FeedInv, TrackersOK
  <1> QED BY <1>1, RetainedIs DEF FlowAt, FlowOf, Flow

LEMMA FlowInit == FeedInit => FlowInv
  BY DEF FeedInit, FlowInv, Piped

(* A pane whose values are as before. *)
LEMMA FlowFrame ==
  ASSUME NEW p \in Pane, Piped(p) => FlowAt(p),
         Piped(p)' => /\ Piped(p) /\ pipe'[p] = pipe[p] /\ reader'[pipe[p]] = reader[pipe[p]]
                      /\ BufferOf(p)' = BufferOf(p) /\ QueueOf(out, p)' = QueueOf(out, p)
                      /\ printed'[p] = printed[p]
  PROVE  Piped(p)' => FlowAt(p)'
  BY DEF FlowAt

LEMMA FlowTmux == ASSUME FeedInv, FlowInv, Tmux, restarts' = 0 PROVE FlowInv'
  <1>1. restarts = 0
    BY FirstServer DEF FeedStep, FeedNext
  <1>2. UNCHANGED <<sub, trackers, out, controllerVars>>
    BY DEF Tmux, NewPane, Output, KillPane, ServerDies, ServerStarts
  <1>3. \A p \in Pane : BufferOf(p)' = BufferOf(p) /\ QueueOf(out, p)' = QueueOf(out, p)
    BY <1>2 DEF BufferOf, Known, controllerVars, storeVars
  <1>4. ASSUME NEW p \in Pane, pipe'[p] # NoTracker PROVE pipe'[p] = pipe[p] /\ pipe[p] \in Tracker
    BY <1>4 DEF Tmux, NewPane, Output, KillPane, ServerDies, ServerStarts, FeedInv, TrackersOK
  <1>5. CASE UNCHANGED <<reader, printed>>
    <2>1. ASSUME NEW p \in Pane PROVE Piped(p)' => FlowAt(p)'
      <3>1. Piped(p)' => Piped(p) /\ pipe'[p] = pipe[p]
        BY <1>4, <1>5 DEF Piped
      <3> QED BY <1>1, <1>3, <1>5, <3>1, FlowFrame DEF FlowInv
    <2> QED BY <2>1 DEF FlowInv
  <1>6. ASSUME NEW q \in Pane, Output(q) PROVE FlowInv'
    <2>1. pipe' = pipe /\ printed' = [printed EXCEPT ![q] = @ + 1]
      BY <1>6 DEF Output
    <2>2. ASSUME NEW t \in Tracker
          PROVE  reader'[t] = IF t = pipe[q] /\ reader[t].open
                              THEN [reader[t] EXCEPT !.fifo = Append(@, printed'[q])]
                              ELSE reader[t]
      BY <1>6 DEF Output
    <2>3. ASSUME NEW p \in Pane PROVE Piped(p)' => FlowAt(p)'
      <3> SUFFICES ASSUME Piped(p)' PROVE FlowAt(p)'
        OBVIOUS
      <3>1. Piped(p)
        <4>1. pipe[p] \in Tracker
          BY <1>4, <2>1 DEF Piped
        <4>2. reader'[pipe[p]].open = reader[pipe[p]].open
          BY <2>2, <4>1 DEF FeedInv, ReadersOK, ReaderType
        <4> QED BY <2>1, <4>2 DEF Piped
      <3>2. FlowAt(p)
        BY <1>1, <3>1 DEF FlowInv
      <3>3. CASE p # q
        <4>1. reader'[pipe[p]] = reader[pipe[p]]
          BY <1>6, <2>2, <3>1, <3>3, FlowTypes DEF FeedInv, TrackersOK, Output, Piped
        <4>2. printed'[p] = printed[p]
          BY <2>1, <3>3 DEF FeedInv, PanesOK
        <4> QED BY <1>3, <2>1, <3>2, <4>1, <4>2 DEF FlowAt
      <3>4. CASE p = q
        <4>1. PICK r \in ReaderType : r = reader[pipe[p]] /\ r.open /\ pipe[p] \in Tracker
          BY <3>1, FlowTypes
        <4>2. PICK n \in Nat : n = printed[p]
          BY <3>1, FlowTypes
        <4>3. printed'[p] = n + 1 /\ n + 1 \in Byte
          <5>1. printed'[p] = n + 1
            BY <2>1, <3>4, <4>2 DEF FeedInv, PanesOK
          <5>2. n < MaxPrint
            BY <1>6, <3>4, <4>2 DEF Output
          <5>3. n + 1 \in 1..MaxPrint
            BY <5>2, FeedAssumption
          <5> QED BY <5>1, <5>3, FeedAssumption
        <4>4. reader'[pipe[p]] = [r EXCEPT !.fifo = Append(r.fifo, n + 1)]
          BY <2>2, <3>4, <4>1, <4>3
        <4>5. /\ reader'[pipe[p]].fifo = Append(r.fifo, n + 1)
              /\ reader'[pipe[p]].hold = r.hold /\ reader'[pipe[p]].from = r.from
          BY <4>1, <4>4 DEF ReaderType
        <4>6. /\ Window(BufferOf(p)) \in Seq(Byte) /\ BufferOf(p).end \in Nat
              /\ QueueOf(out, p) \in Seq(Byte)
              /\ r.hold \in Seq(Byte) /\ r.fifo \in Seq(Byte) /\ r.from \in Nat
          BY <3>1, <4>1, FlowTypes, WindowType
        <4>7. Flow(Window(BufferOf(p)), BufferOf(p).end, QueueOf(out, p), r.hold, r.fifo, n, r.from)
          BY <3>2, <4>1, <4>2 DEF FlowAt, FlowOf
        <4>8. Flow(Window(BufferOf(p)), BufferOf(p).end, QueueOf(out, p), r.hold, Append(r.fifo, n + 1), n + 1, r.from)
          BY <4>3, <4>6, <4>7, FlowOutput
        <4> QED BY <1>3, <2>1, <4>3, <4>5, <4>8 DEF FlowAt, FlowOf
      <3> QED BY <3>3, <3>4
    <2> QED BY <2>3 DEF FlowInv
  <1> QED BY <1>5, <1>6 DEF Tmux, NewPane, KillPane, ServerDies, ServerStarts

(* An event without bytes, or of another pane, leaves the queue as it is. *)
LEMMA QueueSame ==
  ASSUME FeedInv, NEW e \in WellEvent, NEW p \in Pane, Part(e, p) = <<>>
  PROVE  QueueOf(Append(out, e), p) = QueueOf(out, p)
  <1>1. out \in Seq(WellEvent)
    BY DEF FeedInv, StoreOK
  <1>2. QueueOf(Append(out, e), p) = QueueOf(out, p) \o <<>>
    BY <1>1, QueueAppend
  <1> QED BY <1>1, <1>2, PiecesType, ConcatEmptySeq

LEMMA FlowSub ==
  ASSUME FeedInv, FlowInv, restarts = 0,
         PollOk \/ PollFails \/ SendLost \/ SendClosed \/ SyncDone \/ BeginTeardown \/ CloseOut
           \/ (\E p \in Pane : StartFails(p))
  PROVE  FlowInv'
  <1>1. UNCHANGED <<printed, reader, bufs>>
    BY DEF PollOk, PollFails, SendLost, SendClosed, SyncDone, BeginTeardown, CloseOut, StartFails,
           tmuxVars, controllerVars, storeVars
  <1>p. FewerPipes
    BY PipesStop DEF PollOk, PollFails, SendLost, SendClosed, SyncDone, BeginTeardown, CloseOut
  <1>2. ASSUME NEW p \in Pane PROVE QueueOf(out', p) = QueueOf(out, p)
    <2>1. CASE out' = out
      BY <2>1
    <2>2. CASE SendLost /\ out' = Append(out, Event("lost", NoPane, <<>>))
      <3>1. Event("lost", NoPane, <<>>) \in WellEvent /\ Part(Event("lost", NoPane, <<>>), p) = <<>>
        BY EventOK DEF Part, Event
      <3> QED BY <2>2, <3>1, QueueSame
    <2>3. CASE SendClosed /\ out' = Append(out, Event("closed", sub.closing, <<>>))
      <3>1. sub.closing \in Pane
        BY <2>3 DEF SendClosed, SubAt, FeedInv, SubOK
      <3>2. Event("closed", sub.closing, <<>>) \in WellEvent /\ Part(Event("closed", sub.closing, <<>>), p) = <<>>
        BY <3>1, EventOK DEF Part, Event
      <3> QED BY <2>3, <3>2, QueueSame
    <2> QED BY <2>1, <2>2, <2>3 DEF PollOk, PollFails, SendLost, SendClosed, SyncDone, BeginTeardown,
               CloseOut, StartFails
  <1>3. ASSUME NEW p \in Pane PROVE Piped(p)' => FlowAt(p)'
    <2>1. Piped(p)' => Piped(p) /\ pipe'[p] = pipe[p]
      BY <1>1, <1>p DEF Piped, FewerPipes
    <2> QED BY <1>1, <1>2, <2>1, FlowFrame DEF FlowInv, BufferOf, Known
  <1> QED BY <1>3 DEF FlowInv

(* At the start of the pipe nothing is retained, and nothing on its way. *)
LEMMA FlowStarts ==
  ASSUME FeedInv, OnceInv, FlowInv, restarts = 0, NEW p \in Pane, StartTracker(p)
  PROVE  FlowInv'
  <1>1. PICK t \in Tracker :
           /\ reader[t] = Free /\ \A q \in DOMAIN trackers : trackers[q] # t
           /\ pipe' = [pipe EXCEPT ![p] = t]
           /\ reader'[t] = [Free EXCEPT !.pane = p, !.live = TRUE, !.open = TRUE, !.from = printed[p]]
           /\ \A u \in Tracker : u # t => reader'[u] = reader[u]
           /\ UNCHANGED <<tmuxVars, out, controllerVars, cancelled>>
    BY StartEffect
  <1>2. \A q \in Pane : /\ BufferOf(q)' = BufferOf(q) /\ QueueOf(out, q)' = QueueOf(out, q)
                        /\ printed'[q] = printed[q]
    BY <1>1 DEF BufferOf, Known, tmuxVars, controllerVars, storeVars
  <1>3. ASSUME NEW q \in Pane, q # p PROVE Piped(q)' => FlowAt(q)'
    <2>1. Piped(q)' => Piped(q) /\ pipe'[q] = pipe[q] /\ reader'[pipe[q]] = reader[pipe[q]]
      <3> SUFFICES ASSUME Piped(q)' PROVE Piped(q) /\ pipe'[q] = pipe[q] /\ reader'[pipe[q]] = reader[pipe[q]]
        OBVIOUS
      <3>1. pipe'[q] = pipe[q] /\ pipe[q] # NoTracker
        BY <1>1, <1>3 DEF Piped, FeedInv, TrackersOK
      <3>2. pipe[q] \in Tracker /\ reader[pipe[q]].live
        BY <3>1 DEF FeedInv, TrackersOK, PipesOK
      <3>3. pipe[q] # t
        BY <1>1, <3>2, FreeType
      <3> QED BY <1>1, <3>1, <3>2, <3>3 DEF Piped
    <2> QED BY <1>2, <2>1, FlowFrame DEF FlowInv
  <1>4. FlowAt(p)'
    <2>1. Untouched(p)
      BY StartsUntouched
    <2>2. Window(BufferOf(p)) = <<>> /\ BufferOf(p).end = 0
      BY <2>1, BufferValid, WindowOfNew DEF Untouched
    <2>3. QueueOf(out, p) = <<>>
      BY <2>1, QueueOfNone DEF Untouched
    <2>4. pipe'[p] = t
      BY <1>1 DEF FeedInv, TrackersOK
    <2>5. reader'[t].hold = <<>> /\ reader'[t].fifo = <<>> /\ reader'[t].from = printed[p]
      BY <1>1 DEF Free
    <2>6. printed[p] \in Nat
      BY FeedAssumption DEF FeedInv, PanesOK
    <2>7. Flow(<<>>, 0, <<>>, <<>>, <<>>, printed[p], printed[p])
      BY <2>6, FlowStart
    <2> QED BY <1>2, <2>2, <2>3, <2>4, <2>5, <2>7 DEF FlowAt, FlowOf
  <1> QED BY <1>3, <1>4 DEF FlowInv

LEMMA FlowStops ==
  ASSUME FeedInv, FlowInv, restarts = 0, NEW p \in DOMAIN trackers, Stop(p),
         UNCHANGED <<tmuxVars, out, controllerVars, cancelled>>
  PROVE  FlowInv'
  <1>1. /\ trackers[p] \in Tracker /\ p \in Pane
        /\ FewerPipes /\ ~reader'[trackers[p]].open
        /\ \A u \in Tracker : u # trackers[p] => reader'[u] = reader[u]
    BY StopEffect
  <1>2. ASSUME NEW q \in Pane PROVE Piped(q)' => FlowAt(q)'
    <2>1. /\ BufferOf(q)' = BufferOf(q) /\ QueueOf(out, q)' = QueueOf(out, q)
          /\ printed'[q] = printed[q]
      BY DEF BufferOf, Known, tmuxVars, controllerVars, storeVars
    <2>2. Piped(q)' => Piped(q) /\ pipe'[q] = pipe[q] /\ reader'[pipe[q]] = reader[pipe[q]]
      <3> SUFFICES ASSUME Piped(q)' PROVE Piped(q) /\ pipe'[q] = pipe[q] /\ reader'[pipe[q]] = reader[pipe[q]]
        OBVIOUS
      <3>1. pipe'[q] = pipe[q] /\ pipe[q] # NoTracker /\ pipe[q] # trackers[p]
        BY <1>1 DEF Piped, FewerPipes
      <3>2. pipe[q] \in Tracker /\ pipe[q] # trackers[p]
        BY <3>1 DEF FeedInv, TrackersOK
      <3> QED BY <1>1, <3>1, <3>2 DEF Piped
    <2> QED BY <2>1, <2>2, FlowFrame DEF FlowInv
  <1> QED BY <1>2 DEF FlowInv

(* A reader moves bytes from the FIFO to its hand, and on to the channel;  *)
(* of a piped pane, only the reader of its pipe does.                      *)
LEMMA FlowReadFifo ==
  ASSUME FeedInv, FlowInv, restarts = 0, NEW t \in Tracker, ReadFifo(t)
  PROVE  FlowInv'
  <1>1. PICK hold \in Seq(Byte), fifo \in Seq(Byte) :
          /\ reader[t].hold = <<>> /\ hold \o fifo = reader[t].fifo
          /\ reader' = [reader EXCEPT ![t].hold = hold, ![t].fifo = fifo]
    BY ReadEffect
  <1>2. UNCHANGED <<printed, pipe, out, bufs>>
    BY DEF ReadFifo, tmuxVars, controllerVars, storeVars
  <1>3. \A u \in Tracker : u # t => reader'[u] = reader[u]
    BY <1>1 DEF FeedInv, ReadersOK
  <1>4. PICK r \in ReaderType : r = reader[t]
    BY DEF FeedInv, ReadersOK
  <1>5. /\ reader'[t].hold = hold /\ reader'[t].fifo = fifo
        /\ reader'[t].from = r.from /\ reader'[t].open = r.open
    <2>1. reader'[t] = [r EXCEPT !.hold = hold, !.fifo = fifo]
      BY <1>1, <1>4 DEF FeedInv, ReadersOK
    <2> QED BY <2>1 DEF ReaderType
  <1>6. ASSUME NEW p \in Pane, Piped(p)' PROVE FlowAt(p)'
    <2>1. BufferOf(p)' = BufferOf(p) /\ QueueOf(out, p)' = QueueOf(out, p)
      BY <1>2 DEF BufferOf, Known
    <2>2. pipe[p] \in Tracker /\ Piped(p)
      BY <1>2, <1>3, <1>4, <1>5, <1>6 DEF Piped, FeedInv, TrackersOK
    <2>3. FlowAt(p)
      BY <2>2 DEF FlowInv
    <2>4. CASE pipe[p] # t
      BY <1>2, <1>3, <2>1, <2>2, <2>3, <2>4 DEF FlowAt
    <2>5. CASE pipe[p] = t
      <3>1. Flow(Window(BufferOf(p)), BufferOf(p).end, QueueOf(out, p), <<>>, hold \o fifo, printed[p], r.from)
        BY <1>1, <1>4, <2>3, <2>5 DEF FlowAt, FlowOf
      <3>2. QueueOf(out, p) \in Seq(Byte) /\ hold \o fifo \in Seq(Byte)
        BY <2>2, FlowTypes, ConcatProperties
      <3>3. Flow(Window(BufferOf(p)), BufferOf(p).end, QueueOf(out, p), hold, fifo, printed[p], r.from)
        BY <3>1, <3>2, FlowRead
      <3> QED BY <1>2, <1>5, <2>1, <2>5, <3>3 DEF FlowAt, FlowOf
    <2> QED BY <2>4, <2>5
  <1> QED BY <1>6 DEF FlowInv

LEMMA FlowDelivers ==
  ASSUME FeedInv, OnceInv, FlowInv, restarts = 0, NEW t \in Tracker, Deliver(t)
  PROVE  FlowInv'
  <1>1. PICK r \in ReaderType : r = reader[t]
    BY DEF FeedInv, ReadersOK
  <1> DEFINE e == Event("data", r.pane, r.hold)
  <1>2. /\ r.live /\ e \in WellEvent /\ out' = Append(out, e)
        /\ reader'[t] = [r EXCEPT !.hold = <<>>]
        /\ \A u \in Tracker : u # t => reader'[u] = reader[u]
    BY <1>1, DeliverEffect
  <1>3. reader'[t].hold = <<>> /\ reader'[t].fifo = r.fifo /\ reader'[t].from = r.from /\ reader'[t].open = r.open
    BY <1>2 DEF ReaderType
  <1>4. UNCHANGED <<printed, pipe, bufs>>
    BY DEF Deliver, tmuxVars, controllerVars, storeVars
  <1>5. e.pane = r.pane /\ e.bytes = r.hold
    BY DEF Event
  <1> HIDE DEF e
  <1>6. ASSUME NEW p \in Pane, Piped(p)' PROVE FlowAt(p)'
    <2>1. BufferOf(p)' = BufferOf(p)
      BY <1>4 DEF BufferOf, Known
    <2>2. pipe[p] \in Tracker /\ Piped(p)
      BY <1>1, <1>2, <1>3, <1>4, <1>6 DEF Piped, FeedInv, TrackersOK
    <2>3. FlowAt(p)
      BY <2>2 DEF FlowInv
    <2>4. CASE pipe[p] # t
      <3>1. r.pane # p
        BY <1>1, <1>2, <2>2, <2>4 DEF OnceInv, OnlyReader
      <3>2. Part(e, p) = <<>>
        BY <1>5, <3>1 DEF Part
      <3>3. QueueOf(out', p) = QueueOf(out, p)
        BY <1>2, <3>2, QueueSame
      <3> QED BY <1>2, <1>4, <2>1, <2>2, <2>3, <2>4, <3>3 DEF FlowAt
    <2>5. CASE pipe[p] = t
      <3>1. r.pane = p
        BY <1>1, <2>2, <2>5, FlowTypes
      <3>2. Part(e, p) = r.hold
        BY <1>5, <3>1 DEF Part
      <3>3. QueueOf(out', p) = QueueOf(out, p) \o r.hold
        BY <1>2, <3>2, QueueAppend DEF FeedInv, StoreOK
      <3>4. Flow(Window(BufferOf(p)), BufferOf(p).end, QueueOf(out, p), r.hold, r.fifo, printed[p], r.from)
        BY <1>1, <2>3, <2>5 DEF FlowAt, FlowOf
      <3>5. QueueOf(out, p) \in Seq(Byte) /\ r.hold \in Seq(Byte)
        BY <1>1, <2>2, <2>5, FlowTypes
      <3>6. Flow(Window(BufferOf(p)), BufferOf(p).end, QueueOf(out, p) \o r.hold, <<>>, r.fifo, printed[p], r.from)
        BY <3>4, <3>5, FlowDeliver
      <3> QED BY <1>3, <1>4, <2>1, <2>5, <3>3, <3>6 DEF FlowAt, FlowOf
    <2> QED BY <2>4, <2>5
  <1> QED BY <1>6 DEF FlowInv

LEMMA FlowReturns ==
  ASSUME FeedInv, FlowInv, restarts = 0, NEW t \in Tracker, ReaderReturns(t)
  PROVE  FlowInv'
  <1>1. UNCHANGED <<printed, out, bufs>> /\ FewerPipes
    BY PipesStop DEF ReaderReturns, tmuxVars, controllerVars, storeVars
  <1>2. ~reader'[t].open /\ \A u \in Tracker : u # t => reader'[u] = reader[u]
    BY FreeType DEF ReaderReturns, FeedInv, ReadersOK
  <1>3. ASSUME NEW p \in Pane PROVE Piped(p)' => FlowAt(p)'
    <2>1. Piped(p)' => Piped(p) /\ pipe'[p] = pipe[p] /\ reader'[pipe[p]] = reader[pipe[p]]
      BY <1>1, <1>2 DEF Piped, FewerPipes, FeedInv, TrackersOK
    <2> QED BY <1>1, <2>1, FlowFrame DEF FlowInv, BufferOf, Known
  <1> QED BY <1>3 DEF FlowInv

(* An append leaves a buffer with the end of what it had and was given. *)
LEMMA AppendEnd ==
  ASSUME NEW b \in ValidBuffer, NEW p \in Seq(Byte), NEW time \in Nat
  PROVE  EndOf(Window(BufferAppend(b, p, time)), Window(b) \o p)
  <1> DEFINE n == BufferAppend(b, p, time)
  <1>1. LET r == Window(b)
            s == Window(n)
        IN /\ r \in Seq(Byte) /\ s \in Seq(Byte)
           /\ Len(r) = b.end - b.start
           /\ Len(s) = IF Len(r) + Len(p) > Capacity THEN Capacity ELSE Len(r) + Len(p)
           /\ \A i \in 1..Len(s) : s[i] = (r \o p)[Len(r) + Len(p) - Len(s) + i]
    BY AppendKeepsNewest DEF Window
  <1> HIDE DEF n
  <1>2. PICK r \in Seq(Byte), s \in Seq(Byte) :
          /\ r = Window(b) /\ s = Window(n)
          /\ Len(s) = IF Len(r) + Len(p) > Capacity THEN Capacity ELSE Len(r) + Len(p)
          /\ \A i \in 1..Len(s) : s[i] = (r \o p)[Len(r) + Len(p) - Len(s) + i]
    BY <1>1
  <1>3. PICK rp \in Seq(Byte) : rp = r \o p /\ Len(rp) = Len(r) + Len(p)
    BY ConcatProperties
  <1>4. PICK k \in Nat : k = Len(rp)
    BY LenProperties
  <1>5. PICK m \in Nat : m = Len(s)
    BY LenProperties
  <1>6. k = Len(r) + Len(p)
    BY <1>3, <1>4
  <1>7. m = IF k > Capacity THEN Capacity ELSE k
    BY <1>2, <1>5, <1>6
  <1>8. m <= k
    BY <1>7, CapacityAssumption
  <1>9. \A i \in 1..m : s[i] = rp[(k - m) + i]
    <2>1. PICK x \in Nat : x = Len(r)
      BY LenProperties
    <2>2. PICK y \in Nat : y = Len(p)
      BY LenProperties
    <2>3. \A i \in 1..m : s[i] = rp[x + y - m + i]
      BY <1>2, <1>3, <1>5, <2>1, <2>2
    <2>4. k = x + y
      BY <1>6, <2>1, <2>2
    <2>5. ASSUME NEW i \in 1..m PROVE x + y - m + i = (k - m) + i
      BY <2>4
    <2> QED BY <2>3, <2>5
  <1>10. EndOf(s, rp)
    BY <1>4, <1>5, <1>8, <1>9 DEF EndOf
  <1> QED BY <1>2, <1>3, <1>10 DEF n

(* The drain goroutine moves bytes from the channel's head to the store. *)
LEMMA FlowDrained ==
  ASSUME NEW b \in ValidBuffer, NEW bytes \in Seq(Byte), NEW time \in Nat, NEW q \in Seq(Byte),
         NEW h \in Seq(Byte), NEW f \in Seq(Byte), NEW n \in Nat, NEW from \in Nat,
         Flow(Window(b), b.end, bytes \o q, h, f, n, from)
  PROVE  Flow(Window(BufferAppend(b, bytes, time)), BufferAppend(b, bytes, time).end, q, h, f, n, from)
  <1>0. PICK w \in Seq(Byte) : /\ w = (q \o h) \o f
                              /\ Exact(Window(b) \o (bytes \o w), n) /\ b.end + Len(bytes \o w) = n - from
    <2>1. PICK qh \in Seq(Byte) : qh = q \o h
      BY ConcatProperties
    <2>2. (bytes \o q) \o h = bytes \o qh
      <3>1. (bytes \o q) \o h = bytes \o (q \o h)  BY TransitType, ZenonT(60)
      <3> QED BY <2>1, <3>1, Zenon
    <2>3. PICK w \in Seq(Byte) : w = qh \o f
      BY ConcatProperties
    <2>4. (bytes \o qh) \o f = bytes \o w
      <3>1. (bytes \o qh) \o f = bytes \o (qh \o f)  BY TransitType, ZenonT(60)
      <3> QED BY <2>3, <3>1, Zenon
    <2> QED BY <2>1, <2>2, <2>3, <2>4 DEF Flow
  <1>1. PICK c \in ValidBuffer : c = BufferAppend(b, bytes, time)
    BY AppendValid
  <1>2. c.end = b.end + Len(bytes)
    BY <1>1, AppendValid
  <1>3. PICK r \in Seq(Byte) : r = Window(b)
    BY WindowType
  <1>4. PICK s \in Seq(Byte) : s = Window(c)
    BY WindowType
  <1>5. w = (q \o h) \o f /\ Exact(r \o (bytes \o w), n) /\ b.end + Len(bytes \o w) = n - from
    BY <1>0, <1>3
  <1>6. PICK rb \in Seq(Byte) : rb = r \o bytes
    BY ConcatProperties
  <1>7. Exact(rb \o w, n)
    BY <1>5, <1>6, ExactRegroup
  <1>8. EndOf(s, rb)
    BY <1>1, <1>3, <1>4, <1>6, AppendEnd
  <1>9. EndOf(s \o w, rb \o w)
    BY <1>8, EndConcat
  <1>10. s \o w \in Seq(Byte) /\ rb \o w \in Seq(Byte)
    BY ConcatProperties
  <1>11. Exact(s \o w, n)
    BY <1>7, <1>9, <1>10, ExactEnd
  <1>12. c.end + Len(w) = n - from
    <2>1. PICK k \in Nat : k = Len(w)
      BY LenProperties
    <2>2. PICK l \in Nat : l = Len(bytes)
      BY LenProperties
    <2>3. PICK e \in Nat : e = b.end
      BY WindowType
    <2>4. Len(bytes \o w) = l + k
      BY <2>1, <2>2, ConcatProperties
    <2>5. e + (l + k) = n - from
      BY <1>5, <2>3, <2>4
    <2>6. (e + l) + k = n - from
      BY <2>5
    <2>7. c.end = e + l
      BY <1>2, <2>2, <2>3
    <2> QED BY <2>1, <2>6, <2>7
  <1> QED BY <1>1, <1>4, <1>5, <1>11, <1>12 DEF Flow

LEMMA FlowDrains ==
  ASSUME FeedInv, KilledInv, FlowInv, restarts = 0, DrainEvent
  PROVE  FlowInv'
  <1>1. PICK e \in WellEvent : e = Head(out)
    BY DrainStep
  <1>2. /\ out # <<>> /\ out' = Tail(out) /\ out \in Seq(WellEvent) /\ out' \in Seq(WellEvent)
        /\ UNCHANGED <<tmuxVars, pipe, reader>>
        /\ \/ e.pane \in Pane /\ StoreAppend(e.pane, e.bytes)
           \/ e.kind = "closed" /\ e.pane \in Pane /\ e.bytes = <<>> /\ StoreForget(e.pane)
           \/ e.bytes = <<>> /\ UNCHANGED storeVars
    BY <1>1, DrainStep DEF FeedInv, StoreOK
  <1>3. UNCHANGED <<printed, alive, killed>>
    BY <1>2 DEF tmuxVars
  <1>4. e.bytes \in Seq(Byte)
    BY EventTyped
  <1>5. \A p \in Pane : QueueOf(out, p) = Part(e, p) \o QueueOf(out', p) /\ QueueOf(out', p) \in Seq(Byte)
    BY <1>1, <1>2, QueueTail, PiecesType
  <1>6. ASSUME NEW p \in Pane, Part(e, p) = <<>> PROVE QueueOf(out', p) = QueueOf(out, p)
    BY <1>5, <1>6, ConcatEmptySeq
  <1>7. ASSUME NEW p \in Pane, Piped(p), Part(e, p) = <<>>, BufferOf(p)' = BufferOf(p) PROVE FlowAt(p)'
    BY <1>2, <1>3, <1>6, <1>7 DEF FlowInv, FlowAt
  <1>8. ASSUME NEW p \in Pane, Piped(p) PROVE FlowAt(p)'
    <2>1. CASE e.pane \in Pane /\ StoreAppend(e.pane, e.bytes)
      <3>1. BufferAppend(BufferOf(e.pane), e.bytes, now) \in ValidBuffer
        BY <1>4, <2>1, AppendTyped
      <3>2. /\ BufferOf(e.pane)' = BufferAppend(BufferOf(e.pane), e.bytes, now)
            /\ \A q \in Pane : q # e.pane => BufferOf(q)' = BufferOf(q)
        BY <2>1, <3>1, SetBufferTyped DEF StoreAppend
      <3>3. CASE p # e.pane
        <4>1. Part(e, p) = <<>>
          BY <3>3 DEF Part
        <4> QED BY <1>7, <1>8, <3>2, <3>3, <4>1
      <3>4. CASE p = e.pane
        <4>1. Part(e, p) = e.bytes
          BY <3>4 DEF Part
        <4>2. PICK r \in ReaderType : r = reader[pipe[p]] /\ r.hold \in Seq(Byte) /\ r.fifo \in Seq(Byte) /\ r.from \in Nat
          BY <1>8, FlowTypes
        <4>3. QueueOf(out, p) = e.bytes \o QueueOf(out', p) /\ QueueOf(out', p) \in Seq(Byte)
          BY <1>5, <4>1
        <4>4. Flow(Window(BufferOf(p)), BufferOf(p).end, e.bytes \o QueueOf(out', p), r.hold, r.fifo, printed[p], r.from)
          BY <1>8, <4>2, <4>3 DEF FlowInv, FlowAt, FlowOf
        <4>5. BufferOf(p) \in ValidBuffer /\ printed[p] \in Nat /\ now \in Nat
          BY <1>8, FlowTypes DEF FeedInv, StoreOK, StoreTypeOK
        <4>6. Flow(Window(BufferAppend(BufferOf(p), e.bytes, now)), BufferAppend(BufferOf(p), e.bytes, now).end,
                   QueueOf(out', p), r.hold, r.fifo, printed[p], r.from)
          BY <1>4, <4>2, <4>3, <4>4, <4>5, FlowDrained
        <4> QED BY <1>2, <1>3, <3>2, <3>4, <4>2, <4>6 DEF FlowAt, FlowOf
      <3> QED BY <3>3, <3>4
    <2>2. CASE e.kind = "closed" /\ e.pane \in Pane /\ e.bytes = <<>> /\ StoreForget(e.pane)
      <3>1. e.pane \in killed
        <4>1. out \in Seq(Told(killed)) /\ out # <<>>
          BY <1>2 DEF KilledInv, KilledOK
        <4>2. e \in Told(killed)
          BY <1>1, <4>1, HeadTailProperties
        <4> QED BY <2>2, <4>2 DEF Told
      <3>2. p # e.pane
        BY <1>8, <3>1, FlowTypes DEF FeedInv, PanesOK
      <3>3. BufferOf(p)' = BufferOf(p)
        BY <2>2, <3>2, ForgetTyped
      <3>4. Part(e, p) = <<>>
        BY <3>2 DEF Part
      <3> QED BY <1>7, <1>8, <3>3, <3>4
    <2>3. CASE e.bytes = <<>> /\ UNCHANGED storeVars
      <3>1. Part(e, p) = <<>> /\ BufferOf(p)' = BufferOf(p)
        BY <2>3 DEF Part, BufferOf, Known, storeVars
      <3> QED BY <1>7, <1>8, <3>1
    <2> QED BY <1>2, <2>1, <2>2, <2>3
  <1>9. \A p \in Pane : Piped(p)' = Piped(p)
    BY <1>2 DEF Piped
  <1> QED BY <1>8, <1>9 DEF FlowInv

LEMMA FlowStep ==
  ASSUME FeedInv, KilledInv, OnceInv, FlowInv, [FeedStep]_feedVars
  PROVE  FlowInv'
  <1> SUFFICES ASSUME restarts' = 0 PROVE FlowInv'
    BY DEF FlowInv
  <1>0. restarts = 0
    BY FirstServer
  <1>1. CASE \E p \in Pane : Mint(p)
    <2>1. PICK p \in Pane : Mint(p)
      BY <1>1
    <2>2. UNCHANGED <<out, reader, pipe, printed>>
      BY <2>1 DEF Mint, tmuxVars
    <2>3. ASSUME NEW q \in Pane PROVE Piped(q)' => FlowAt(q)'
      <3>1. BufferOf(q)' = BufferOf(q)
        BY <2>1, MintKeepsBuffers
      <3> QED BY <1>0, <2>2, <3>1, FlowFrame DEF FlowInv, Piped
    <2> QED BY <2>3 DEF FlowInv
  <1>2. CASE DrainEnds \/ CancelFeed \/ UNCHANGED feedVars
    <2>1. UNCHANGED <<out, reader, pipe, printed, bufs>>
      BY <1>2 DEF DrainEnds, CancelFeed, feedVars, tmuxVars, controllerVars, storeVars
    <2>2. \A q \in Pane : Piped(q)' => FlowAt(q)'
      BY <1>0, <2>1, FlowFrame DEF FlowInv, Piped, BufferOf, Known
    <2> QED BY <2>2 DEF FlowInv
  <1>3. CASE Tmux
    BY <1>3, FlowTmux
  <1>4. CASE Run
    <2>1. ASSUME NEW p \in Pane, StopTracker(p) \/ TeardownStop(p) PROVE FlowInv'
      <3>1. p \in DOMAIN trackers /\ Stop(p) /\ UNCHANGED <<tmuxVars, out, controllerVars, cancelled>>
        BY <2>1 DEF StopTracker, TeardownStop, Gone
      <3> QED BY <1>0, <3>1, FlowStops
    <2> QED BY <1>0, <1>4, <2>1, FlowSub, FlowStarts DEF Run, Sync
  <1>5. CASE \E t \in Tracker : ReaderStep(t)
    BY <1>0, <1>5, FlowReadFifo, FlowDelivers, FlowReturns DEF ReaderStep
  <1>6. CASE DrainEvent
    BY <1>0, <1>6, FlowDrains
  <1> QED BY <1>1, <1>2, <1>3, <1>4, <1>5, <1>6 DEF FeedStep, FeedNext

LEMMA FlowHolds == StepSpec => []FlowInv
  <1> QED BY FlowInit, FlowStep, OnceHolds, KilledHolds, FeedInvHolds, PTL DEF StepSpec

(* What the store retains of a piped pane, followed by what is on its way, *)
(* is the end of what the pane printed, to the last byte, in order; and    *)
(* the offsets of the store count every byte since the pipe began.  Until  *)
(* a new server gives pane ids a second time.                              *)
THEOREM NothingIsSkipped ==
  /\ FeedSpec => [](restarts = 0 => NothingSkipped)
  /\ BootstrapSpec => [](restarts = 0 => NothingSkipped)
  <1>1. FeedInv /\ FlowInv => (restarts = 0 => NothingSkipped)
    <2> SUFFICES ASSUME FeedInv, FlowInv, restarts = 0, NEW p \in Pane, Piped(p)
                 PROVE  LET s == Retained(p) \o InTransit(p) IN
                        /\ \A i \in DOMAIN s : s[i] = printed[p] - Len(s) + i
                        /\ BufferOf(p).end + Len(InTransit(p)) = printed[p] - reader[pipe[p]].from
      BY DEF NothingSkipped
    <2> QED BY FlowMeans DEF FlowInv, Exact
  <1> QED BY <1>1, FeedInvHolds, FlowHolds, FeedSteps, BootstrapSteps, PTL


-----------------------------------------------------------------------------
(* A pane that was piped is not piped anew while the first server lives,   *)
(* so that the position its pipe began at stays.                           *)
Kept(p) ==
    /\ Spent(p)'
    /\ Piped(p)' => /\ Piped(p) /\ pipe'[p] = pipe[p]
                    /\ reader'[pipe[p]].from = reader[pipe[p]].from

(* The steps that open no pipe. *)
LEMMA KeptFrame ==
  ASSUME FeedInv, NEW p \in Pane, Spent(p)',
         Piped(p)' => pipe'[p] = pipe[p],
         \A t \in Tracker : reader'[t].open => reader[t].open /\ reader'[t].from = reader[t].from
  PROVE  Kept(p)
  <1> SUFFICES ASSUME Piped(p)'
               PROVE  Piped(p) /\ pipe'[p] = pipe[p] /\ reader'[pipe[p]].from = reader[pipe[p]].from
    BY DEF Kept
  <1>1. pipe'[p] = pipe[p] /\ pipe[p] # NoTracker /\ reader'[pipe[p]].open
    BY DEF Piped
  <1>2. pipe[p] \in Tracker
    BY <1>1 DEF FeedInv, TrackersOK
  <1> QED BY <1>1, <1>2 DEF Piped

LEMMA KeptTmux ==
  ASSUME FeedInv, Tmux, restarts' = 0, NEW p \in Pane, Spent(p)
  PROVE  Kept(p)
  <1>1. restarts = 0
    BY FirstServer DEF FeedStep, FeedNext
  <1>2. UNCHANGED <<sub, trackers>> /\ ~ServerStarts
    BY <1>1 DEF Tmux, NewPane, Output, KillPane, ServerDies, ServerStarts
  <1>3. Spent(p)'
    <2>1. p \in born \ alive => p \in born' \ alive'
      BY <1>2 DEF Tmux, NewPane, Output, KillPane, ServerDies
    <2> QED BY <1>2, <2>1 DEF Spent
  <1>4. ASSUME NEW t \in Tracker
        PROVE  reader'[t].open = reader[t].open /\ reader'[t].from = reader[t].from
    <2>1. ASSUME NEW q \in Pane, Output(q)
          PROVE  reader'[t].open = reader[t].open /\ reader'[t].from = reader[t].from
      BY <2>1 DEF Output, FeedInv, ReadersOK, ReaderType
    <2>2. CASE reader' = reader
      BY <2>2
    <2> QED BY <2>1, <2>2 DEF Tmux, NewPane, KillPane, ServerDies, ServerStarts
  <1>5. Piped(p)' => pipe'[p] = pipe[p]
    BY DEF Piped, Tmux, NewPane, Output, KillPane, ServerDies, ServerStarts, FeedInv, TrackersOK
  <1> QED BY <1>3, <1>4, <1>5, KeptFrame

LEMMA KeptStart ==
  ASSUME FeedInv, OnceInv, restarts = 0, NEW p \in Pane, Spent(p), NEW q \in Pane, StartTracker(q)
  PROVE  Kept(p)
  <1>1. p # q
    BY StartsUntouched
  <1>2. PICK t \in Tracker :
           /\ reader[t] = Free /\ \A u \in DOMAIN trackers : trackers[u] # t
           /\ pipe' = [pipe EXCEPT ![q] = t]
           /\ DOMAIN trackers' = DOMAIN trackers \cup {q}
           /\ \A u \in Tracker : u # t => reader'[u] = reader[u]
           /\ UNCHANGED <<tmuxVars, out, controllerVars, cancelled>>
    BY StartEffect
  <1>3. Spent(p)'
    <2>1. sub'.pc = sub.pc
      BY DEF StartTracker, FeedInv, SubOK, SubType
    <2> QED BY <1>2, <2>1 DEF Spent, tmuxVars
  <1>4. ASSUME Piped(p)'
        PROVE  Piped(p) /\ pipe'[p] = pipe[p] /\ reader'[pipe[p]].from = reader[pipe[p]].from
    <2>1. pipe'[p] = pipe[p] /\ pipe[p] # NoTracker
      BY <1>1, <1>2, <1>4 DEF Piped, FeedInv, TrackersOK
    <2>2. pipe[p] \in Tracker /\ reader[pipe[p]].live
      BY <2>1 DEF FeedInv, TrackersOK, PipesOK
    <2>4. pipe[p] # t
      BY <1>2, <2>2, FreeType
    <2>3. reader'[pipe[p]] = reader[pipe[p]]
      BY <1>2, <2>2, <2>4
    <2> QED BY <1>4, <2>1, <2>3 DEF Piped
  <1> QED BY <1>3, <1>4 DEF Kept

LEMMA KeptSub ==
  ASSUME FeedInv, NEW p \in Pane, Spent(p),
         PollOk \/ PollFails \/ SendLost \/ SendClosed \/ SyncDone \/ BeginTeardown \/ CloseOut
           \/ (\E q \in Pane : StartFails(q))
  PROVE  Kept(p)
  <1>1. UNCHANGED <<born, alive, trackers, reader>>
    BY DEF PollOk, PollFails, SendLost, SendClosed, SyncDone, BeginTeardown, CloseOut, StartFails, tmuxVars
  <1>p. FewerPipes
    BY PipesStop DEF PollOk, PollFails, SendLost, SendClosed, SyncDone, BeginTeardown, CloseOut
  <1>4. Piped(p)' => pipe'[p] = pipe[p]
    BY <1>p DEF Piped, FewerPipes
  <1>2. sub.pc \in {"teardown", "done"} => sub'.pc \in {"teardown", "done"}
    BY DEF PollOk, PollFails, SendLost, SendClosed, SyncDone, BeginTeardown, CloseOut, StartFails,
           SubAt, FeedInv, SubOK, SubType
  <1>3. Spent(p)'
    BY <1>1, <1>2 DEF Spent
  <1> QED BY <1>1, <1>3, <1>4, KeptFrame

LEMMA KeptStop ==
  ASSUME FeedInv, KilledInv, restarts = 0, NEW p \in Pane, Spent(p),
         (\E q \in Pane : StopTracker(q)) \/ (\E q \in Pane : TeardownStop(q))
  PROVE  Kept(p)
  <1>1. PICK q \in DOMAIN trackers :
          /\ Stop(q) /\ UNCHANGED <<tmuxVars, out, controllerVars, cancelled>>
          /\ \/ sub' = sub /\ sub.pc = "teardown"
             \/ sub.pc = "diff" /\ q \in Gone
    BY DEF StopTracker, TeardownStop, Gone, SubAt
  <1>2. /\ trackers[q] \in Tracker /\ q \in Pane
        /\ FewerPipes
        /\ DOMAIN trackers' = DOMAIN trackers \ {q}
        /\ reader'[trackers[q]] = [reader[trackers[q]] EXCEPT !.open = FALSE, !.fifo = <<>>]
        /\ \A u \in Tracker : u # trackers[q] => reader'[u] = reader[u]
    BY <1>1, StopEffect
  <1>3. ASSUME NEW u \in Tracker, reader'[u].open
        PROVE  reader[u].open /\ reader'[u].from = reader[u].from
    <2>1. CASE u = trackers[q]
      <3>1. PICK r \in ReaderType : r = reader[u]
        BY DEF FeedInv, ReadersOK
      <3>2. reader'[u] = [r EXCEPT !.open = FALSE, !.fifo = <<>>]
        BY <1>2, <2>1, <3>1
      <3> QED BY <1>3, <3>2 DEF ReaderType
    <2>2. CASE u # trackers[q]
      BY <1>2, <1>3, <2>2
    <2> QED BY <2>1, <2>2
  <1>4. (sub' = sub /\ sub.pc = "teardown") \/ q \in born \ alive
    BY <1>1 DEF KilledInv, KilledOK, FeedInv, PanesOK
  <1>5. sub.pc \in {"teardown", "done"} => sub' = sub
    BY <1>1
  <1>6. Spent(p)'
    BY <1>1, <1>2, <1>4, <1>5 DEF Spent, tmuxVars
  <1>7. Piped(p)' => pipe'[p] = pipe[p]
    BY <1>2 DEF Piped, FewerPipes
  <1> QED BY <1>3, <1>6, <1>7, KeptFrame

LEMMA KeptReader ==
  ASSUME FeedInv, NEW p \in Pane, Spent(p), NEW t \in Tracker, ReaderStep(t)
  PROVE  Kept(p)
  <1>1. UNCHANGED <<tmuxVars, sub, trackers>>
    BY DEF ReaderStep, ReadFifo, Deliver, ReaderReturns
  <1>p. FewerPipes
    BY PipesStop DEF ReaderStep, ReadFifo, Deliver
  <1>4. Piped(p)' => pipe'[p] = pipe[p]
    BY <1>p DEF Piped, FewerPipes
  <1>2. ASSUME NEW u \in Tracker
        PROVE  reader'[u].open => reader[u].open /\ reader'[u].from = reader[u].from
    <2>1. CASE ReadFifo(t)
      <3>1. PICK hold \in Seq(Byte), fifo \in Seq(Byte) :
              reader' = [reader EXCEPT ![t].hold = hold, ![t].fifo = fifo]
        BY <2>1, ReadEffect
      <3> QED BY <3>1 DEF FeedInv, ReadersOK, ReaderType
    <2>2. CASE Deliver(t)
      <3>1. reader'[t] = [reader[t] EXCEPT !.hold = <<>>] /\ (u # t => reader'[u] = reader[u])
        BY <2>2, DeliverEffect
      <3> QED BY <3>1 DEF FeedInv, ReadersOK, ReaderType
    <2>3. CASE ReaderReturns(t)
      BY <2>3, FreeType DEF ReaderReturns, FeedInv, ReadersOK
    <2> QED BY <2>1, <2>2, <2>3 DEF ReaderStep
  <1>3. Spent(p)'
    BY <1>1 DEF Spent, tmuxVars
  <1> QED BY <1>2, <1>3, <1>4, KeptFrame

LEMMA SpentIsKept ==
  ASSUME FeedInv, KilledInv, OnceInv, [FeedStep]_feedVars, restarts' = 0, NEW p \in Pane, Spent(p)
  PROVE  Kept(p)
  <1>0. restarts = 0
    BY FirstServer
  <1>1. CASE UNCHANGED <<tmuxVars, pipe, sub, trackers, reader>>
    <2>1. Spent(p)'
      BY <1>1 DEF Spent, tmuxVars
    <2> QED BY <1>1, <2>1, KeptFrame
  <1>2. CASE (\E q \in Pane : Mint(q)) \/ DrainEvent \/ DrainEnds \/ CancelFeed \/ UNCHANGED feedVars
    <2>1. UNCHANGED <<tmuxVars, pipe, sub, trackers, reader>>
      BY <1>2 DEF Mint, DrainEvent, DrainEnds, CancelFeed, feedVars
    <2> QED BY <1>1, <2>1
  <1>3. CASE Tmux
    BY <1>3, KeptTmux
  <1>4. CASE Run
    BY <1>0, <1>4, KeptSub, KeptStart, KeptStop DEF Run, Sync
  <1>5. CASE \E t \in Tracker : ReaderStep(t)
    BY <1>5, KeptReader
  <1> QED BY <1>2, <1>3, <1>4, <1>5 DEF FeedStep, FeedNext

-----------------------------------------------------------------------------
(* A token taken of a piped pane stands, in the offsets of the store, at   *)
(* or before what had been printed by then; and the pane is spent, so that *)
(* it is piped from the same position for as long as it is piped at all.   *)
ShotType == [pc : {"idle", "captured", "held"}, pane : Pane \cup {NoPane}, seen : Nat, minted : Nat,
             via : Tracker \cup {NoTracker}, token : Token \cup {NoToken}]

ShotOK == shot \in ShotType /\ (shot.pc # "idle" => shot.pane \in Pane /\ (Held => shot.token \in Token))

TokenBeforeOutput ==
    restarts = 0 /\ Held /\ shot.via # NoTracker =>
        /\ Spent(shot.pane)
        /\ Piped(shot.pane) /\ pipe[shot.pane] = shot.via
             => shot.token.off + reader[shot.via].from <= shot.minted

ShotInv == ShotOK /\ TokenBeforeOutput

LEMMA ShotInit == BootstrapInit => ShotInv
  <1> SUFFICES ASSUME BootstrapInit PROVE ShotInv
    OBVIOUS
  <1>1. shot = NoShot /\ NoShot.pc = "idle" /\ NoShot \in ShotType
    BY DEF BootstrapInit, NoShot, ShotType
  <1> QED BY <1>1 DEF ShotInv, ShotOK, TokenBeforeOutput, Held

LEMMA HeadTokenType ==
  ASSUME FeedInv, NEW p \in Pane
  PROVE  HeadToken(p) \in Token /\ HeadToken(p).off = BufferOf(p).end
  BY BufferValid, WindowType DEF HeadToken, TokenAt, Token, FeedInv, StoreOK, StoreTypeOK

LEMMA TransitTyped ==
  ASSUME FeedInv, NEW p \in Pane, Piped(p)
  PROVE  InTransit(p) \in Seq(Byte) /\ Retained(p) \in Seq(Byte)
  <1>1. InTransit(p) = (QueueOf(out, p) \o reader[pipe[p]].hold) \o reader[pipe[p]].fifo
    BY QueuedIs DEF InTransit, Piped, FeedInv, TrackersOK
  <1>2. InTransit(p) \in Seq(Byte)
    BY <1>1, FlowTypes, TransitType
  <1> QED BY <1>2, RetainedIs, BufferValid, WindowType

LEMMA ShotMint ==
  ASSUME FeedInv, FlowInv, ShotInv, MintToken
  PROVE  ShotInv'
  <1>1. PICK s \in ShotType : s = shot /\ s.pane \in Pane
    BY DEF ShotInv, ShotOK, MintToken
  <1>2. PICK p \in Pane : p = s.pane
    BY <1>1
  <1>3. PICK n \in Nat : n = printed[p]
    BY FeedAssumption DEF FeedInv, PanesOK
  <1>4. PICK via \in Tracker \cup {NoTracker} : via = IF Piped(p) THEN pipe[p] ELSE NoTracker
    BY DEF Piped, FeedInv, TrackersOK
  <1>5. PICK tok \in Token : tok = HeadToken(p) /\ tok.off = BufferOf(p).end
    BY HeadTokenType
  <1>6. shot' = [s EXCEPT !.pc = "held", !.minted = n, !.via = via, !.token = tok]
    BY <1>1, <1>2, <1>3, <1>4, <1>5 DEF MintToken
  <1>7. /\ shot' \in ShotType /\ shot'.pc = "held" /\ shot'.pane = p /\ shot'.minted = n
        /\ shot'.via = via /\ shot'.token = tok
    BY <1>2, <1>6 DEF ShotType
  <1>8. UNCHANGED <<restarts, born, alive, pipe, sub, trackers, reader>>
    BY DEF MintToken, tmuxVars
  <1>9. ShotOK'
    BY <1>7 DEF ShotOK, Held
  <1>10. ASSUME restarts = 0, via # NoTracker
         PROVE  Spent(p) /\ tok.off + reader[via].from <= n
    <2>1. Piped(p) /\ via = pipe[p]
      BY <1>4, <1>10
    <2>2. FlowAt(p)
      BY <1>10, <2>1 DEF FlowInv
    <2>3. BufferOf(p).end + Len(InTransit(p)) = n - reader[via].from
      BY <1>3, <2>1, <2>2, FlowMeans
    <2>4. PICK l \in Nat : l = Len(InTransit(p))
      BY <2>1, TransitTyped, LenProperties
    <2>5. PICK e \in Nat, f \in Nat : e = BufferOf(p).end /\ f = reader[via].from
      BY <2>1, FlowTypes, WindowType
    <2>6. e + l = n - f
      BY <2>3, <2>4, <2>5
    <2>7. e + f <= n
      BY <2>6
    <2>8. Spent(p)
      BY <2>1, FlowTypes DEF Spent
    <2> QED BY <1>5, <2>5, <2>7, <2>8
  <1>11. TokenBeforeOutput'
    BY <1>7, <1>8, <1>10 DEF TokenBeforeOutput, Held, Spent, Piped
  <1> QED BY <1>9, <1>11 DEF ShotInv

LEMMA ShotStep ==
  ASSUME FeedInv, KilledInv, OnceInv, FlowInv, ShotInv,
         [FeedStep]_feedVars, [BootstrapNext]_bootstrapVars
  PROVE  ShotInv'
  <1>1. ASSUME NEW p \in Pane, CaptureScreen(p) PROVE ShotInv'
    <2>1. PICK s \in ShotType : s = shot
      BY DEF ShotInv, ShotOK
    <2>2. PICK n \in Nat : n = printed[p]
      BY FeedAssumption DEF FeedInv, PanesOK
    <2>3. shot' = [s EXCEPT !.pc = "captured", !.pane = p, !.seen = n]
      BY <1>1, <2>1, <2>2 DEF CaptureScreen
    <2>4. shot' \in ShotType /\ shot'.pc = "captured" /\ shot'.pane = p
      BY <2>3 DEF ShotType
    <2> QED BY <2>4 DEF ShotInv, ShotOK, TokenBeforeOutput, Held
  <1>2. CASE MintToken
    BY <1>2, ShotMint
  <1>3. CASE DropToken
    <2>1. shot' = NoShot /\ NoShot.pc = "idle" /\ NoShot \in ShotType
      BY <1>3 DEF DropToken, NoShot, ShotType
    <2> QED BY <2>1 DEF ShotInv, ShotOK, TokenBeforeOutput, Held
  <1>4. CASE UNCHANGED shot
    <2>1. ShotOK'
      BY <1>4 DEF ShotInv, ShotOK, Held
    <2>2. ASSUME restarts' = 0, Held, shot.via # NoTracker
          PROVE  /\ Spent(shot.pane)'
                 /\ (Piped(shot.pane) /\ pipe[shot.pane] = shot.via)'
                      => (shot.token.off + reader[shot.via].from <= shot.minted)'
      <3>1. PICK p \in Pane : p = shot.pane
        BY <2>2 DEF ShotInv, ShotOK, Held
      <3>2. restarts = 0
        BY <2>2, FirstServer
      <3>3. /\ Spent(p)
            /\ Piped(p) /\ pipe[p] = shot.via => shot.token.off + reader[shot.via].from <= shot.minted
        BY <2>2, <3>1, <3>2 DEF ShotInv, TokenBeforeOutput
      <3>4. Kept(p)
        BY <2>2, <3>3, SpentIsKept
      <3> QED BY <1>4, <3>1, <3>3, <3>4 DEF Kept, Spent, Piped
    <2> QED BY <1>4, <2>1, <2>2 DEF ShotInv, TokenBeforeOutput, Held
  <1> QED BY <1>1, <1>2, <1>3, <1>4 DEF BootstrapNext, bootstrapVars

LEMMA ShotHolds == BootstrapSpec => []ShotInv
  <1>1. StepSpec => [][FeedStep]_feedVars
    BY PTL DEF StepSpec
  <1> QED BY <1>1, ShotInit, ShotStep, BootstrapSteps, FeedInvHolds, KilledHolds, OnceHolds, FlowHolds, PTL
          DEF BootstrapSpec

(* A Read from within the window finds the end of what is retained. *)
LEMMA ReadIsEnd ==
  ASSUME NEW b \in ValidBuffer, NEW after \in Nat, InWindow(b, after)
  PROVE  /\ BufferRead(b, after) \in Seq(Byte) /\ Len(BufferRead(b, after)) = b.end - after
         /\ EndOf(BufferRead(b, after), Window(b))
  <1>1. PICK low \in Nat, high \in Nat : low = b.start /\ high = b.end
    BY WindowType
  <1>2. low <= after /\ after <= high
    BY <1>1 DEF InWindow
  <1>3. PICK r \in Seq(Byte) : /\ r = BufferRead(b, after) /\ Len(r) = high - after
                              /\ \A i \in 1..(high - after) : r[i] = b.data[(after + i - 1) % Capacity]
    BY <1>1, ReadType, ReadSlots
  <1>4. InWindow(b, low)
    BY <1>1, <1>2 DEF InWindow
  <1>5. PICK w \in Seq(Byte) : /\ w = Window(b) /\ Len(w) = high - low
                              /\ \A i \in 1..(high - low) : w[i] = b.data[(low + i - 1) % Capacity]
    BY <1>1, <1>4, ReadType, ReadSlots DEF Window
  <1>6. ASSUME NEW i \in 1..(high - after)
        PROVE  r[i] = w[((high - low) - (high - after)) + i]
    <2>1. PICK j \in 1..(high - low) : j = ((high - low) - (high - after)) + i
      BY <1>2
    <2>2. low + j - 1 = after + i - 1
      BY <1>2, <2>1
    <2>3. w[j] = b.data[(low + j - 1) % Capacity] /\ r[i] = b.data[(after + i - 1) % Capacity]
      BY <1>3, <1>5
    <2> QED BY <2>1, <2>2, <2>3
  <1>7. high - after <= high - low
    BY <1>2
  <1>8. EndOf(r, w)
    BY <1>3, <1>5, <1>6, <1>7 DEF EndOf
  <1> QED BY <1>1, <1>3, <1>5, <1>8

(* What ends with the n-th byte, and is long enough, misses none after m. *)
LEMMA ExactMissesNone ==
  ASSUME NEW s \in Seq(Byte), NEW n \in Nat, NEW m \in Nat, Exact(s, n), n - m <= Len(s)
  PROVE  {i \in m + 1 .. n : \A k \in DOMAIN s : s[k] # i} = {}
  <1>1. PICK l \in Nat : l = Len(s)
    BY LenProperties
  <1>2. DOMAIN s = 1..l /\ n - m <= l /\ \A k \in 1..l : s[k] = n - l + k
    BY <1>1, LenProperties DEF Exact
  <1>3. ASSUME NEW i \in m + 1 .. n PROVE \E k \in 1..l : s[k] = i
    <2>1. PICK k \in 1..l : k = i - n + l
      BY <1>2
    <2>2. n - l + k = i
      BY <2>1
    <2> QED BY <1>2, <2>2
  <1> QED BY <1>2, <1>3

(* A token taken of a piped pane stands before everything the pane prints  *)
(* from then on, for as long as the pipe and the token are good: a Read or *)
(* a wait behind it finds every such byte, retained or on its way.         *)
THEOREM TokenMissesNone == BootstrapSpec => [](restarts = 0 => TokenMissesNothing)
  <1>1. FeedInv /\ FlowInv /\ ShotInv => (restarts = 0 => TokenMissesNothing)
    <2> SUFFICES ASSUME FeedInv, FlowInv, ShotInv, restarts = 0, Held, shot.via # NoTracker,
                        pipe[shot.pane] = shot.via, Piped(shot.pane), Valid
                 PROVE  Missed(shot.minted) = {}
      BY DEF TokenMissesNothing
    <2>1. PICK p \in Pane : p = shot.pane
      BY DEF ShotInv, ShotOK, Held
    <2>2. PICK off \in Nat, m \in Nat : off = shot.token.off /\ m = shot.minted
      BY DEF ShotInv, ShotOK, ShotType, Token, Held
    <2>3. PICK b \in ValidBuffer : b = BufferOf(p) /\ b = bufs[p] /\ Known(p)
      BY <2>1, BufferValid DEF Valid, BufferOf
    <2>4. InWindow(b, off)
      BY <2>1, <2>2, <2>3 DEF Valid
    <2>5. PICK n \in Nat, e \in Nat, f \in Nat :
            n = printed[p] /\ e = b.end /\ f = reader[pipe[p]].from
      BY <2>1, <2>3, FlowTypes, WindowType
    <2>6. PICK t \in Seq(Byte) : t = InTransit(p)
      BY <2>1, TransitTyped
    <2>7. PICK w \in Seq(Byte) : w = Retained(p) /\ w = Window(b)
      BY <2>1, <2>3, TransitTyped, RetainedIs
    <2>8. Exact(w \o t, n) /\ e + Len(t) = n - f
      BY <2>1, <2>3, <2>5, <2>6, <2>7, FlowMeans DEF FlowInv
    <2>9. PICK r \in Seq(Byte) : r = BufferRead(b, off) /\ Len(r) = e - off /\ EndOf(r, w)
      BY <2>4, <2>5, <2>7, ReadIsEnd
    <2>10. EndOf(r \o t, w \o t)
      BY <2>9, EndConcat
    <2>11. PICK wt \in Seq(Byte) : wt = w \o t
      BY ConcatProperties
    <2>12. PICK rt \in Seq(Byte) : rt = r \o t /\ Len(rt) = Len(r) + Len(t)
      BY ConcatProperties
    <2>13. Exact(rt, n)
      BY <2>8, <2>10, <2>11, <2>12, ExactEnd
    <2>14. off + f <= m
      BY <2>1, <2>2, <2>5 DEF ShotInv, TokenBeforeOutput
    <2>15. n - m <= Len(rt)
      <3>1. PICK l \in Nat : l = Len(t)
        BY LenProperties
      <3>2. Len(rt) = (e - off) + l
        BY <2>9, <2>12, <3>1
      <3>3. e + l = n - f
        BY <2>8, <3>1
      <3> QED BY <2>14, <3>2, <3>3
    <2>16. Behind = rt
      BY <2>1, <2>2, <2>3, <2>4, <2>6, <2>9, <2>12 DEF Behind
    <2>17. {i \in m + 1 .. n : \A k \in DOMAIN rt : rt[k] # i} = {}
      BY <2>13, <2>15, ExactMissesNone
    <2> QED BY <2>1, <2>2, <2>5, <2>16, <2>17 DEF Missed
  <1> QED BY <1>1, ShotHolds, BootstrapSteps, FeedInvHolds, FlowHolds, PTL
=============================================================================
