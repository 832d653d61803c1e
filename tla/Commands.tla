------------------------------ MODULE Commands ------------------------------
(***************************************************************************)
(* The store-backed commands of internal/controller: snapshot, read and    *)
(* wait, each run by the goroutine of its own connection, concurrently     *)
(* with the drain goroutine that feeds the store and with the clock.       *)
(*                                                                         *)
(* A watcher is an agent together with the handler of its current command: *)
(* an agent issues one command at a time and passes the last token it got. *)
(* Every access to the store is one step; in between, anything may run.    *)
(***************************************************************************)
EXTENDS Store

CONSTANTS Requests,   \* the commands agents issue
          MatchByte,  \* the byte whose presence makes sentinel or regex match
          Chunk,      \* what one Data event may carry
          MaxEnd,     \* bound: bytes per buffer
          MaxTime,    \* bound: no wait starts that would time out later
          NoRequest

MatchMode == {"sentinel", "regex"}
WaitMode == MatchMode \cup {"quiescence"}
Mode == WaitMode \cup {"snapshot", "read", "unsupported"}

(* arg is --ms for quiescence; for sentinel and regex 0 stands for a bad   *)
(* --token or a missing pattern; for snapshot 1 asks for scrollback.       *)
RequestType == [mode : Mode, pane : Pane, timeout : Nat, arg : Nat]

ASSUME CommandsAssumption ==
    /\ Requests \subseteq RequestType
    /\ NoRequest \notin RequestType
    /\ NoToken \notin Token
    /\ \A c \in Chunk : c \in Seq(Byte) /\ c # <<>>

VARIABLES call,      \* the state of each watcher's handler
          held,      \* the token each agent holds
          cancelled  \* the daemon's context is done

vars == <<storeVars, call, held, cancelled>>

PC == {"idle", "capture", "snap", "watch", "check", "read", "eval", "ref",
       "elapsed", "mint", "select", "parked", "return"}

Code == {"none", "OK", "MISSING_AFTER", "INVALID_ARGS", "INVALID_AFTER",
         "PANE_NOT_FOUND", "PANE_CLOSED", "TIMEOUT", "RUNTIME"}

(* known is paneKnownAtStart; got and next are what the last Read returned *)
(* (next ends as the token of the response); code is the answer.           *)
CallType == [pc : PC, req : Requests \cup {NoRequest}, deadline : Nat, quietAt : Nat,
             known : BOOLEAN, ref : Nat, got : Seq(Byte), next : Token \cup {NoToken},
             code : Code]

Idle == [pc |-> "idle", req |-> NoRequest, deadline |-> 0, quietAt |-> 0, known |-> FALSE,
         ref |-> 0, got |-> <<>>, next |-> NoToken, code |-> "none"]

(* Agents start without a token or with one of a previous controller. *)
Init == /\ StoreInit
        /\ call = [w \in Watcher |-> Idle]
        /\ held \in [Watcher -> {NoToken} \cup
                       {[inst |-> OldInstance, pane |-> p, off |-> 0, at |-> 0] : p \in Pane}]
        /\ cancelled = FALSE

-----------------------------------------------------------------------------
At(w, label) == call[w].pc = label
Goto(w, label) == call' = [call EXCEPT ![w].pc = label]
Answer(w, code, tok) ==
    call' = [call EXCEPT ![w].pc = "return", ![w].code = code, ![w].next = tok]
Fail(w, code) == Answer(w, code, NoToken)

PaneOf(w) == call[w].req.pane
ModeOf(w) == call[w].req.mode
Later(s, t) == IF s > t THEN s ELSE t

(* The wait condition of the match modes, on the bytes a Read returned. *)
Matches(bytes) == \E i \in DOMAIN bytes : bytes[i] = MatchByte

(* max(T_checkpoint, T_last_if_present) of the quiescence formula. *)
QuietSince(w) == Later(held[w].at, LastAppend(PaneOf(w)))

-----------------------------------------------------------------------------
(* The checks before a command touches the store, in their order: the      *)
(* dispatcher's of a wait, the one for a token, and Wait's own.            *)
Undispatched(r) == \/ r.timeout <= 0
                   \/ r.mode \notin WaitMode
                   \/ r.mode = "regex" /\ r.arg <= 0

Unfit(r) == r.arg <= 0 \/ (r.mode = "quiescence" /\ r.arg >= r.timeout)

Rejection(r, tok) ==
    IF r.mode = "snapshot" THEN "none"
    ELSE IF r.mode # "read" /\ Undispatched(r) THEN "INVALID_ARGS"
    ELSE IF tok = NoToken THEN "MISSING_AFTER"
    ELSE IF r.mode # "read" /\ Unfit(r) THEN "INVALID_ARGS"
    ELSE "none"

FirstStep(mode) == CASE mode = "snapshot" -> "capture"
                     [] mode = "read" -> "check"
                     [] OTHER -> "watch"

Call(w) == \E r \in Requests :
    LET rejection == Rejection(r, held[w]) IN
    /\ At(w, "idle")
    /\ now + r.timeout <= MaxTime
    /\ call' = [call EXCEPT ![w].req = r, ![w].code = rejection,
                            ![w].pc = IF rejection = "none" THEN FirstStep(r.mode) ELSE "return"]
    /\ UNCHANGED <<storeVars, held, cancelled>>

(* Snapshot: port.CapturePane answers, or fails as tmux pleases ... *)
Capture(w) ==
    /\ At(w, "capture")
    /\ \/ Goto(w, "snap")
       \/ \E code \in {"PANE_NOT_FOUND", "RUNTIME"} : Fail(w, code)
    /\ UNCHANGED <<storeVars, held, cancelled>>

(* ... then NewToken, and the scrollback capture, which may fail too. *)
SnapToken(w) ==
    /\ At(w, "snap")
    /\ CreateBuffer(PaneOf(w))
    /\ \/ Answer(w, "OK", HeadToken(PaneOf(w)))
       \/ /\ call[w].req.arg > 0
          /\ \E code \in {"PANE_NOT_FOUND", "RUNTIME"} : Fail(w, code)
    /\ UNCHANGED <<watching, sig, parked, now, held, cancelled>>

(* Wait registers its watcher before its first Read and starts its timer. *)
Watch(w) ==
    /\ At(w, "watch")
    /\ StoreWatch(w, PaneOf(w))
    /\ call' = [call EXCEPT ![w].pc = "check", ![w].deadline = now + call[w].req.timeout]
    /\ UNCHANGED <<held, cancelled>>

UnknownCode(w) == IF call[w].known THEN "PANE_CLOSED" ELSE "PANE_NOT_FOUND"

(* A failing Store.Read, mapped to the command's code. *)
ReadFails(w, outcome) ==
    \/ outcome = "unknown" /\ Fail(w, UnknownCode(w))
    \/ outcome = "invalid" /\ Fail(w, "INVALID_AFTER")

(* Store.Read's first critical section and the token checks after it. *)
Check(w) ==
    LET outcome == ReadCheck(PaneOf(w), held[w]) IN
    /\ At(w, "check")
    /\ ReadFails(w, outcome) \/ (outcome = "ok" /\ Goto(w, "read"))
    /\ UNCHANGED <<storeVars, held, cancelled>>

AfterRead(mode) == CASE mode = "read" -> "return"
                     [] mode = "quiescence" -> "ref"
                     [] OTHER -> "eval"

(* Store.Read's second critical section. *)
Read(w) ==
    LET p       == PaneOf(w)
        outcome == ReadResult(p, held[w])
    IN /\ At(w, "read")
       /\ \/ ReadFails(w, outcome)
          \/ /\ outcome = "ok"
             /\ call' = [call EXCEPT ![w].pc = AfterRead(ModeOf(w)),
                                     ![w].known = ModeOf(w) # "read",
                                     ![w].code = IF ModeOf(w) = "read" THEN "OK" ELSE "none",
                                     ![w].got = BufferRead(bufs[p], held[w].off),
                                     ![w].next = TokenAt(p, bufs[p].end)]
       /\ UNCHANGED <<storeVars, held, cancelled>>

(* No verdict in this iteration: its locals go out of scope at the select. *)
Unsettled(w, quietAt) ==
    call' = [call EXCEPT ![w].pc = "select", ![w].got = <<>>, ![w].next = NoToken,
                         ![w].ref = 0, ![w].quietAt = quietAt]

(* A mutation of MatchedNext: a new token instead of the Read's. *)
WrongNext(w) == HeadToken(PaneOf(w))

(* The sentinel or regex evaluation, on the bytes read. *)
MatchedNext(w) == call[w].next

Eval(w) ==
    /\ At(w, "eval")
    /\ IF Matches(call[w].got) THEN Answer(w, "OK", MatchedNext(w)) ELSE Unsettled(w, 0)
    /\ UNCHANGED <<storeVars, held, cancelled>>

(* Quiescence: LastAppend under the lock, then the formula, then NewToken. *)
Ref(w) ==
    /\ At(w, "ref")
    /\ call' = [call EXCEPT ![w].pc = "elapsed", ![w].ref = QuietSince(w)]
    /\ UNCHANGED <<storeVars, held, cancelled>>

(* A mutation of IsQuiet: measured from the checkpoint alone. *)
WrongIsQuiet(w) == now - held[w].at >= call[w].req.arg

IsQuiet(w) == now - call[w].ref >= call[w].req.arg

Elapsed(w) ==
    /\ At(w, "elapsed")
    /\ IF IsQuiet(w) THEN Goto(w, "mint") ELSE Unsettled(w, call[w].ref + call[w].req.arg)
    /\ UNCHANGED <<storeVars, held, cancelled>>

QuietToken(w) ==
    /\ At(w, "mint")
    /\ CreateBuffer(PaneOf(w))
    /\ Answer(w, "OK", HeadToken(PaneOf(w)))
    /\ UNCHANGED <<watching, sig, parked, now, held, cancelled>>

-----------------------------------------------------------------------------
(* The select: a case that is ready on entry is taken, any of them if      *)
(* several are; with none ready the goroutine parks and the first event    *)
(* takes it out.  A handed-over signal leaves it at "parked" with w not in *)
(* the set parked.                                                         *)
QuietReady(w) == ModeOf(w) = "quiescence" /\ now >= call[w].quietAt
TimeoutReady(w) == now >= call[w].deadline

Selecting(w) == At(w, "select") \/ (At(w, "parked") /\ w \in parked)

Park(w) ==
    /\ At(w, "select")
    /\ ~sig[w] /\ ~QuietReady(w) /\ ~TimeoutReady(w) /\ ~cancelled
    /\ parked' = parked \cup {w}
    /\ Goto(w, "parked")
    /\ UNCHANGED <<bufs, watching, sig, now, held, cancelled>>

TakeSignal(w) ==
    /\ \/ At(w, "select") /\ sig[w] /\ sig' = [sig EXCEPT ![w] = FALSE]
       \/ At(w, "parked") /\ w \notin parked /\ UNCHANGED sig
    /\ Goto(w, "check")
    /\ UNCHANGED <<bufs, watching, parked, now, held, cancelled>>

Unpark(w) == /\ parked' = parked \ {w}
             /\ UNCHANGED <<bufs, watching, sig, now, held, cancelled>>

TakeQuiet(w) == Selecting(w) /\ QuietReady(w) /\ Goto(w, "check") /\ Unpark(w)

(* Mutations of the two cases below: the timer only leads to another look, *)
(* and the context is not among the cases.                                 *)
WrongTimeout(w) == Selecting(w) /\ TimeoutReady(w) /\ Goto(w, "check") /\ Unpark(w)

WrongCancel(w) == FALSE

TakeTimeout(w) == Selecting(w) /\ TimeoutReady(w) /\ Fail(w, "TIMEOUT") /\ Unpark(w)

TakeCancel(w) == Selecting(w) /\ cancelled /\ Fail(w, "RUNTIME") /\ Unpark(w)

(* The deferred cancel of Watch; the agent keeps the response's token. *)
Return(w) ==
    /\ At(w, "return")
    /\ StoreUnwatch(w)
    /\ held' = IF call[w].code = "OK" THEN [held EXCEPT ![w] = call[w].next] ELSE held
    /\ call' = [call EXCEPT ![w] = Idle]
    /\ UNCHANGED cancelled

-----------------------------------------------------------------------------
(* Controller.drain: one event of the subscription at a time. *)
DrainData(p) == \E bytes \in Chunk :
    /\ BufferOf(p).end + Len(bytes) <= MaxEnd
    /\ StoreAppend(p, bytes)
    /\ UNCHANGED <<call, held, cancelled>>

DrainClosed(p) == StoreForget(p) /\ UNCHANGED <<call, held, cancelled>>

Waiting(w) == watching[w] # NoPane

(* The clock runs to the bound, and on while a wait's timer is running. *)
Tick == /\ now < MaxTime \/ \E w \in Watcher : Waiting(w) /\ now < call[w].deadline
        /\ now' = now + 1
        /\ UNCHANGED <<bufs, watching, sig, parked, call, held, cancelled>>

(* The daemon is asked to stop: the context of every handler is done. *)
Cancel == /\ ~cancelled
          /\ cancelled' = TRUE
          /\ UNCHANGED <<storeVars, call, held>>

(* What a handler does by itself once tmux has answered it. *)
HandlerStep(w) ==
    \/ SnapToken(w) \/ Watch(w) \/ Check(w) \/ Read(w) \/ Eval(w)
    \/ Ref(w) \/ Elapsed(w) \/ QuietToken(w)
    \/ Park(w) \/ TakeSignal(w) \/ TakeQuiet(w) \/ TakeTimeout(w) \/ TakeCancel(w)
    \/ Return(w)

Drain == \E p \in Pane : DrainData(p) \/ DrainClosed(p)

Next == \/ \E w \in Watcher : Call(w) \/ Capture(w) \/ HandlerStep(w)
        \/ Drain
        \/ Tick
        \/ Cancel

Spec == Init /\ [][Next]_vars
(* Go schedules every runnable goroutine and fires every timer, and select *)
(* chooses at random among its ready cases, so that a case that is ready   *)
(* again and again is taken some day.  Nothing is assumed of tmux (the     *)
(* step Capture), of the agents, of the output or of the clock.            *)
Scheduling == \A w \in Watcher : /\ WF_vars(HandlerStep(w))
                                 /\ SF_vars(TakeTimeout(w))
                                 /\ SF_vars(TakeCancel(w))

FairSpec == Spec /\ Scheduling

-----------------------------------------------------------------------------
TypeOK == /\ StoreTypeOK
          /\ call \in [Watcher -> CallType]
          /\ held \in [Watcher -> Token \cup {NoToken}]
          /\ cancelled \in BOOLEAN

(* What w's wait would find if it read the store now: the pane is there,   *)
(* its checkpoint is retained and there is no match.                       *)
NothingToSee(w) ==
    /\ Known(PaneOf(w))
    /\ InWindow(bufs[PaneOf(w)], held[w].off)
    /\ ModeOf(w) \in MatchMode => ~Matches(BufferRead(bufs[PaneOf(w)], held[w].off))

(* No lost wakeup (wait.go:111-114, store.go:103-123): a wait parked in    *)
(* its select has nothing to see: no match, no eviction and no closure     *)
(* that the coalesced signals, the Watch before the first Read and the     *)
(* two-step Store.Read let it sleep through.                               *)
ParkedSawEverything == \A w \in parked : NothingToSee(w)

(* A parked quiescence wait will wake exactly when the quiet window after  *)
(* the newest output ends (wait.go:168-185): its timer is never one that   *)
(* was computed from an older append.                                      *)
ParkedTimerIsCurrent ==
    \A w \in parked : ModeOf(w) = "quiescence" =>
        call[w].quietAt = QuietSince(w) + call[w].req.arg

(* About to succeed, a quiescence wait is right that its pane is quiet     *)
(* unless output it has not looked at has left a signal (wait.go:170-175). *)
QuietUnlessSignalled ==
    \A w \in Watcher : At(w, "mint") /\ ~sig[w] =>
        Known(PaneOf(w)) /\ now - QuietSince(w) >= call[w].req.arg

(* The next of read and of a match stands exactly behind the bytes that    *)
(* were returned or matched (spec 9.6 "next on success"; wait.go:132-166): *)
(* whatever is appended during a slow evaluation is left for the next      *)
(* command, neither skipped nor repeated.                                  *)
Succeeded(w) == At(w, "return") /\ call[w].code = "OK"

NextStandsBehindWhatWasSeen ==
    \A w \in Watcher : Succeeded(w) /\ ModeOf(w) \in MatchMode \cup {"read"} =>
        call[w].next.off = held[w].off + Len(call[w].got)

(* Bytes are only served against a token that this controller issued for   *)
(* this very pane (spec 11.7, 17.7-17.9): an old controller's offset or    *)
(* another pane's is never looked up in the ring, even though the token is *)
(* compared outside the lock.                                              *)
ServedTokenIsOurs ==
    \A w \in Watcher : Succeeded(w) /\ ModeOf(w) # "snapshot" =>
        held[w].inst = Instance /\ held[w].pane = PaneOf(w)

-----------------------------------------------------------------------------
MatchStanding(w) ==
    /\ Known(PaneOf(w))
    /\ InWindow(bufs[PaneOf(w)], held[w].off)
    /\ Matches(BufferRead(bufs[PaneOf(w)], held[w].off))

(* No wait stays pending over a match that stands behind its checkpoint or *)
(* on a destroyed pane, even if the clock stands still and no more output  *)
(* comes (spec 9.6, 11.9, 17.15): the wakeup is the signal's doing, not    *)
(* the timeout's.                                                          *)
NoWaitSleepsOnItsEnd ==
    \A w \in Watcher :
        []<>~(Waiting(w) /\ (~Known(PaneOf(w)) \/ (ModeOf(w) \in MatchMode /\ MatchStanding(w))))

(* Stopping the daemon ends the pending waits (wait.go:201-216), however   *)
(* much output keeps their other select case ready.                        *)
StopEndsWaits == \A w \in Watcher : (cancelled /\ Waiting(w)) ~> ~Waiting(w)

(* Every wait ends once the clock runs (spec 9.6 --timeout-ms), whatever   *)
(* output keeps waking it.                                                 *)
EveryWaitEnds == WF_vars(Tick) => \A w \in Watcher : Waiting(w) ~> ~Waiting(w)
=============================================================================
