-------------------------------- MODULE Store --------------------------------
(***************************************************************************)
(* internal/store/store.go: the buffers of all panes behind one mutex, the *)
(* watchers' signal channels, and the checkpoint tokens.  Each operator    *)
(* below is one critical section of the mutex; the modules that extend     *)
(* this one call them from their steps.                                    *)
(*                                                                         *)
(* A watcher's channel holds at most one signal.  A goroutine parked in a  *)
(* select on it is handed the signal at once and leaves parked; otherwise  *)
(* the signal stays in the channel, coalesced with one already there.      *)
(***************************************************************************)
EXTENDS Ring, FiniteSets

CONSTANTS Pane,
          Watcher,      \* the goroutines that may watch a pane
          Instance,     \* this controller's random instance id
          OldInstance,  \* any other: a previous controller's, or no token at all
          NoPane, NoToken

ASSUME StoreAssumption == /\ Instance # OldInstance
                          /\ NoPane \notin Pane

VARIABLES bufs,      \* map[PaneID]*Buffer; its domain is the known panes
          watching,  \* the pane each watcher is registered for
          sig,       \* a signal waits in the watcher's channel
          parked,    \* watchers blocked in a select on their channel
          now        \* the wall clock

storeVars == <<bufs, watching, sig, parked, now>>

(* Tokens decode to (instance, pane, offset, mint time).                   *)
Token == [inst : {Instance, OldInstance}, pane : Pane, off : Nat, at : Nat]

StoreTypeOK ==
    /\ DOMAIN bufs \subseteq Pane
    /\ bufs \in [DOMAIN bufs -> ValidBuffer]
    /\ watching \in [Watcher -> Pane \cup {NoPane}]
    /\ sig \in [Watcher -> BOOLEAN]
    /\ parked \subseteq Watcher
    /\ now \in Nat

StoreInit ==
    /\ bufs = <<>>
    /\ watching = [w \in Watcher |-> NoPane]
    /\ sig = [w \in Watcher |-> FALSE]
    /\ parked = {}
    /\ now = 1

-----------------------------------------------------------------------------
Known(p) == p \in DOMAIN bufs

(* bufferLocked: the pane's buffer, an empty one if it has none yet. *)
BufferOf(p) == IF Known(p) THEN bufs[p] ELSE NewBuffer

SetBuffer(p, b) == bufs' = [q \in DOMAIN bufs \cup {p} |-> IF q = p THEN b ELSE bufs[q]]

(* A mutation of Notify: without room for a signal in the channel, one     *)
(* that finds its watcher elsewhere is dropped.                            *)
WrongNotify(p) == /\ parked' = parked \ {w \in Watcher : watching[w] = p}
                  /\ UNCHANGED sig

(* The non-blocking sends of Append and Forget to every watcher of p. *)
Notify(p) ==
    LET of == {w \in Watcher : watching[w] = p} IN
    /\ sig' = [w \in Watcher |-> sig[w] \/ w \in of \ parked]
    /\ parked' = parked \ of

(* Store.Append *)
StoreAppend(p, bytes) ==
    /\ bytes # <<>>
    /\ SetBuffer(p, BufferAppend(BufferOf(p), bytes, now))
    /\ Notify(p)
    /\ UNCHANGED <<watching, now>>

(* A mutation of Store.Forget: the watchers are not told. *)
WrongForget(p) ==
    /\ bufs' = [q \in DOMAIN bufs \ {p} |-> bufs[q]]
    /\ UNCHANGED <<watching, now, sig, parked>>

(* Store.Forget *)
StoreForget(p) ==
    /\ bufs' = [q \in DOMAIN bufs \ {p} |-> bufs[q]]
    /\ Notify(p)
    /\ UNCHANGED <<watching, now>>

(* Store.Watch, with a fresh channel, and the cancel function it returns. *)
StoreWatch(w, p) ==
    /\ watching' = [watching EXCEPT ![w] = p]
    /\ sig' = [sig EXCEPT ![w] = FALSE]
    /\ UNCHANGED <<bufs, parked, now>>

StoreUnwatch(w) == StoreWatch(w, NoPane)

TokenAt(p, off) == [inst |-> Instance, pane |-> p, off |-> off, at |-> now]

(* A mutation of HeadToken: one past the head. *)
WrongHeadToken(p) == TokenAt(p, BufferOf(p).end + 1)

(* Store.NewToken: the token it returns and the buffer it may create. *)
HeadToken(p) == TokenAt(p, BufferOf(p).end)

(* A mutation of CreateBuffer: a token alone does not create the buffer.   *)
WrongCreateBuffer(p) == UNCHANGED bufs

CreateBuffer(p) == SetBuffer(p, BufferOf(p))

(* Store.LastAppend: 0 when the pane is unknown or nothing was appended. *)
LastAppend(p) == BufferOf(p).last

(* A mutation of ReadCheck: the token's pane is not compared. *)
WrongReadCheck(p, tok) ==
    IF ~Known(p) THEN "unknown" ELSE IF tok.inst # Instance THEN "invalid" ELSE "ok"

(* The outcomes of Store.Read's two critical sections.  The first only     *)
(* looks the pane up; the token is then decoded and compared outside the   *)
(* lock; the second looks the pane up again and reads the ring.            *)
ReadCheck(p, tok) ==
    IF ~Known(p) THEN "unknown"
    ELSE IF tok.inst # Instance \/ tok.pane # p THEN "invalid"
    ELSE "ok"

ReadResult(p, tok) ==
    IF ~Known(p) THEN "unknown"
    ELSE IF ~InWindow(bufs[p], tok.off) THEN "invalid"
    ELSE "ok"
=============================================================================
