--------------------------- MODULE HandlersProofs ---------------------------
(***************************************************************************)
(* The handlers of wait, read and snapshot, for any number of agents and   *)
(* panes, any output and any capacity.                                     *)
(*                                                                         *)
(* Types first, and what is known of a handler from where it stands.       *)
(*                                                                         *)
(* Then, no lost wakeups: what a handler concluded from its last Read is   *)
(* still true of the store unless a signal is on its way to it.  The       *)
(* argument of wait.go:111-114: the watcher is registered before the first *)
(* Read, and every change of a pane's stream signals its watchers under    *)
(* the lock.                                                               *)
(*                                                                         *)
(* Then, what a successful answer says is right: the token it was asked    *)
(* with is one of this controller and of this pane, and next stands behind *)
(* what was returned or matched.                                           *)
(*                                                                         *)
(* At last, the errors that read and wait report are true.                 *)
(***************************************************************************)
EXTENDS Closures, RingProofs

(* Where a handler stands tells what its command is, that its token is     *)
(* there, and that its watcher is registered for its pane.                 *)
InLoop == {"eval", "ref", "elapsed", "mint", "select", "parked"}

HandlerOK(w) ==
    /\ call[w].pc # "idle" => call[w].req \in Requests
    /\ call[w].pc \in InLoop \cup {"watch", "check", "read"} => held[w] \in Token
    /\ call[w].pc \in InLoop \cup {"watch"} => ModeOf(w) \in WaitMode
    /\ call[w].pc \in {"check", "read"} => ModeOf(w) \in WaitMode \cup {"read"}
    /\ call[w].pc = "eval" => ModeOf(w) \in MatchMode
    /\ call[w].pc \in {"ref", "elapsed", "mint"} => ModeOf(w) = "quiescence"
    /\ call[w].pc \in InLoop \cup {"check", "read"} /\ ModeOf(w) \in WaitMode
         => watching[w] = PaneOf(w)
    /\ w \in parked => call[w].pc = "parked" /\ ~sig[w]

TypeInv == TypeOK /\ \A w \in Watcher : HandlerOK(w)

-----------------------------------------------------------------------------
LEMMA RequestFields ==
  ASSUME NEW r \in Requests
  PROVE  r.mode \in Mode /\ r.pane \in Pane /\ r.timeout \in Nat /\ r.arg \in Nat
  BY CommandsAssumption DEF RequestType

LEMMA TokenFields ==
  ASSUME NEW t \in Token
  PROVE  t.pane \in Pane /\ t.off \in Nat /\ t.at \in Nat /\ t # NoToken
  BY CommandsAssumption DEF Token

(* The buffer a store operation works on is valid. *)
LEMMA BufferOfValid ==
  ASSUME StoreTypeOK, NEW p \in Pane
  PROVE  BufferOf(p) \in ValidBuffer
  BY NewBufferValid DEF StoreTypeOK, BufferOf, Known

LEMMA HeadTokenType ==
  ASSUME StoreTypeOK, NEW p \in Pane
  PROVE  HeadToken(p) \in Token
  BY BufferOfValid DEF StoreTypeOK, HeadToken, TokenAt, Token, ValidBuffer, BufferType

LEMMA SetBufferType ==
  ASSUME StoreTypeOK, NEW p \in Pane, NEW b \in ValidBuffer, SetBuffer(p, b)
  PROVE  /\ DOMAIN bufs' = DOMAIN bufs \cup {p}
         /\ DOMAIN bufs' \subseteq Pane
         /\ bufs' \in [DOMAIN bufs' -> ValidBuffer]
         /\ \A q \in DOMAIN bufs : q # p => bufs'[q] = bufs[q]
         /\ bufs'[p] = b
  BY DEF StoreTypeOK, SetBuffer

(* NewToken's creation of a buffer leaves the known panes as they are. *)
LEMMA CreateBufferType ==
  ASSUME StoreTypeOK, NEW p \in Pane, CreateBuffer(p)
  PROVE  /\ DOMAIN bufs' \subseteq Pane
         /\ bufs' \in [DOMAIN bufs' -> ValidBuffer]
         /\ \A q \in DOMAIN bufs : q \in DOMAIN bufs' /\ bufs'[q] = bufs[q]
  BY BufferOfValid, SetBufferType DEF CreateBuffer, BufferOf, Known

LEMMA NotifyType ==
  ASSUME StoreTypeOK, NEW p \in Pane, Notify(p)
  PROVE  sig' \in [Watcher -> BOOLEAN] /\ parked' \subseteq Watcher
  BY DEF StoreTypeOK, Notify

(* The two ways a handler moves on. *)
LEMMA GotoType ==
  ASSUME TypeOK, NEW w \in Watcher, NEW label \in PC, Goto(w, label)
  PROVE  /\ call' \in [Watcher -> CallType]
         /\ call'[w] = [call[w] EXCEPT !.pc = label]
         /\ \A v \in Watcher : v # w => call'[v] = call[v]
  BY DEF TypeOK, Goto, CallType

LEMMA AnswerType ==
  ASSUME TypeOK, NEW w \in Watcher, NEW code \in Code, NEW tok \in Token \cup {NoToken},
         Answer(w, code, tok)
  PROVE  /\ call' \in [Watcher -> CallType]
         /\ call'[w].pc = "return" /\ call'[w].req = call[w].req
         /\ \A v \in Watcher : v # w => call'[v] = call[v]
  <1> DEFINE c == [call[w] EXCEPT !.pc = "return", !.code = code, !.next = tok]
  <1>1. "return" \in PC
    BY DEF PC
  <1>2. c \in CallType /\ c.pc = "return" /\ c.req = call[w].req
    BY <1>1 DEF TypeOK, CallType
  <1>3. call' = [call EXCEPT ![w] = c]
    BY DEF TypeOK, Answer
  <1> QED
    <2> HIDE DEF c
    <2> QED BY <1>2, <1>3 DEF TypeOK

-----------------------------------------------------------------------------
(* A handler is untouched by a step that leaves its own state alone and    *)
(* does not park it.                                                       *)
LEMMA HandlerFrame ==
  ASSUME NEW v \in Watcher, HandlerOK(v),
         call'[v] = call[v], held'[v] = held[v], watching'[v] = watching[v],
         v \in parked' => v \in parked /\ sig'[v] = sig[v]
  PROVE  HandlerOK(v)'
  BY DEF HandlerOK, ModeOf, PaneOf

(* A handler that answers is in order, and so are the others.              *)
LEMMA AnswerStep ==
  ASSUME TypeInv, NEW w \in Watcher, NEW code \in Code, NEW tok \in Token \cup {NoToken},
         Answer(w, code, tok), call[w].pc # "idle",
         UNCHANGED <<watching, sig, held>>, parked' = parked \ {w}
  PROVE  call' \in [Watcher -> CallType] /\ \A v \in Watcher : HandlerOK(v)'
  <1>1. /\ call' \in [Watcher -> CallType]
        /\ call'[w].pc = "return" /\ call'[w].req = call[w].req
        /\ \A v \in Watcher : v # w => call'[v] = call[v]
    BY AnswerType DEF TypeInv
  <1>2. HandlerOK(w)'
    BY <1>1 DEF TypeInv, HandlerOK, InLoop
  <1>3. ASSUME NEW v \in Watcher, v # w PROVE HandlerOK(v)'
    BY <1>1, <1>3, HandlerFrame DEF TypeInv
  <1> QED BY <1>1, <1>2, <1>3

(* A handler that moves on within the loop of wait or read, watcher and    *)
(* request unchanged, is in order if it may stand where it goes.           *)
LEMMA MoveStep ==
  ASSUME TypeInv, NEW w \in Watcher, NEW label \in (InLoop \cup {"check", "read"}) \ {"parked"},
         call' \in [Watcher -> CallType],
         call'[w].pc = label, call'[w].req = call[w].req,
         \A v \in Watcher : v # w => call'[v] = call[v],
         call[w].pc \in InLoop \cup {"check", "read"},
         label \in InLoop => ModeOf(w) \in WaitMode,
         label = "eval" => ModeOf(w) \in MatchMode,
         label \in {"ref", "elapsed", "mint"} => ModeOf(w) = "quiescence",
         UNCHANGED <<watching, held>>, parked' = parked \ {w},
         \A v \in parked' : sig'[v] = sig[v]
  PROVE  \A v \in Watcher : HandlerOK(v)'
  <1>1. HandlerOK(w)
    BY DEF TypeInv
  <1>2. HandlerOK(w)'
    BY <1>1 DEF HandlerOK, InLoop, ModeOf, PaneOf, MatchMode, WaitMode
  <1>3. ASSUME NEW v \in Watcher, v # w PROVE HandlerOK(v)'
    BY <1>3, HandlerFrame DEF TypeInv
  <1> QED BY <1>2, <1>3

(* Only a handler that stands at its parked select is in the set parked.   *)
LEMMA NotParked ==
  ASSUME TypeInv, NEW w \in Watcher, call[w].pc # "parked"
  PROVE  w \notin parked /\ parked = parked \ {w}
  BY DEF TypeInv, HandlerOK

LEMMA TypeInit == Init => TypeInv
  <1> SUFFICES ASSUME Init PROVE TypeInv
    OBVIOUS
  <1>1. StoreTypeOK
    BY DEF Init, StoreInit, StoreTypeOK
  <1>2. call \in [Watcher -> CallType]
    <2>1. Idle \in CallType
      BY DEF Idle, CallType, PC, Code
    <2> QED BY <2>1 DEF Init
  <1>3. held \in [Watcher -> Token \cup {NoToken}]
    BY DEF Init, Token
  <1>4. \A w \in Watcher : HandlerOK(w)
    BY DEF Init, StoreInit, HandlerOK, Idle, InLoop
  <1> QED BY <1>1, <1>2, <1>3, <1>4 DEF TypeInv, TypeOK, Init

(* The drain goroutine's and the clock's steps leave the handlers alone. *)
LEMMA NotifyStep ==
  ASSUME TypeInv, NEW p \in Pane, Notify(p), UNCHANGED <<watching, call, held>>
  PROVE  \A v \in Watcher : HandlerOK(v)'
  <1> SUFFICES ASSUME NEW v \in Watcher PROVE HandlerOK(v)'
    OBVIOUS
  <1>1. v \in parked' => v \in parked /\ sig'[v] = sig[v]
    BY DEF TypeInv, TypeOK, StoreTypeOK, Notify
  <1> QED BY <1>1, HandlerFrame DEF TypeInv

LEMMA DrainType ==
  ASSUME TypeInv, NEW p \in Pane, DrainData(p) \/ DrainClosed(p)
  PROVE  TypeInv'
  <1>0. StoreTypeOK /\ now \in Nat
    BY DEF TypeInv, TypeOK, StoreTypeOK
  <1>1. CASE DrainData(p)
    <2>1. PICK bytes \in Chunk : StoreAppend(p, bytes) /\ UNCHANGED <<call, held, cancelled>>
      BY <1>1 DEF DrainData
    <2>2. bytes \in Seq(Byte)
      BY CommandsAssumption
    <2>3. BufferAppend(BufferOf(p), bytes, now) \in ValidBuffer
      BY <1>0, <2>2, BufferOfValid, AppendValid
    <2>4. StoreTypeOK'
      BY <1>0, <2>1, <2>3, SetBufferType, NotifyType DEF StoreAppend, StoreTypeOK
    <2>5. \A v \in Watcher : HandlerOK(v)'
      BY <2>1, NotifyStep DEF StoreAppend
    <2> QED BY <2>1, <2>4, <2>5 DEF TypeInv, TypeOK
  <1>2. CASE DrainClosed(p)
    <2>1. StoreForget(p) /\ UNCHANGED <<call, held, cancelled>>
      BY <1>2 DEF DrainClosed
    <2>2. StoreTypeOK'
      BY <1>0, <2>1, NotifyType DEF StoreForget, StoreTypeOK
    <2>3. \A v \in Watcher : HandlerOK(v)'
      BY <2>1, NotifyStep DEF StoreForget
    <2> QED BY <2>1, <2>2, <2>3 DEF TypeInv, TypeOK
  <1> QED BY <1>1, <1>2

LEMMA TickType == ASSUME TypeInv, Tick PROVE TypeInv'
  <1>1. StoreTypeOK'
    BY DEF TypeInv, TypeOK, StoreTypeOK, Tick
  <1>2. \A v \in Watcher : HandlerOK(v)'
    BY HandlerFrame DEF TypeInv, Tick
  <1> QED BY <1>1, <1>2 DEF TypeInv, TypeOK, Tick

LEMMA CancelType == ASSUME TypeInv, Cancel PROVE TypeInv'
  <1>1. StoreTypeOK'
    BY DEF TypeInv, TypeOK, StoreTypeOK, Cancel, storeVars
  <1>2. \A v \in Watcher : HandlerOK(v)'
    BY HandlerFrame DEF TypeInv, Cancel, storeVars
  <1> QED BY <1>1, <1>2 DEF TypeInv, TypeOK, Cancel

LEMMA CallTypeStep == ASSUME TypeInv, NEW w \in Watcher, Call(w) PROVE TypeInv'
  <1> USE DEF TypeInv
  <1>1. PICK r \in Requests :
          /\ call[w].pc = "idle"
          /\ call' = [call EXCEPT ![w].req = r, ![w].code = Rejection(r, held[w]),
                                  ![w].pc = IF Rejection(r, held[w]) = "none"
                                            THEN FirstStep(r.mode) ELSE "return"]
          /\ UNCHANGED <<storeVars, held, cancelled>>
    BY DEF Call, At
  <1> DEFINE code == Rejection(r, held[w])
             label == IF code = "none" THEN FirstStep(r.mode) ELSE "return"
             c == [call[w] EXCEPT !.req = r, !.code = code, !.pc = label]
  <1>2. code \in Code
    BY DEF Rejection, Code
  <1>3. label \in {"capture", "check", "watch", "return"}
    BY DEF FirstStep
  <1>4. label = "check" => r.mode = "read" /\ held[w] # NoToken
    BY RequestFields DEF FirstStep, Rejection
  <1>5. label = "watch" => r.mode \in WaitMode /\ held[w] # NoToken
    BY RequestFields DEF FirstStep, Rejection, Undispatched, Mode
  <1>6. c \in CallType /\ c.pc = label /\ c.req = r
    <2> HIDE DEF label, code
    <2> QED BY <1>2, <1>3 DEF TypeOK, CallType, PC
  <1>7. call' = [call EXCEPT ![w] = c]
    BY <1>1 DEF TypeOK
  <1>8. call' \in [Watcher -> CallType] /\ call'[w] = c
        /\ \A v \in Watcher : v # w => call'[v] = call[v]
    <2> HIDE DEF c
    <2> QED BY <1>6, <1>7 DEF TypeOK
  <1>9. held[w] \in Token \cup {NoToken} /\ w \notin parked
    BY <1>1, NotParked DEF TypeOK
  <1>10. HandlerOK(w)'
    <2> HIDE DEF c, label, code
    <2> QED BY <1>1, <1>3, <1>4, <1>5, <1>6, <1>8, <1>9
            DEF HandlerOK, InLoop, ModeOf, PaneOf, MatchMode, WaitMode, storeVars
  <1>11. ASSUME NEW v \in Watcher, v # w PROVE HandlerOK(v)'
    <2> HIDE DEF c, label, code
    <2> QED BY <1>1, <1>8, <1>11, HandlerFrame DEF storeVars
  <1>12. StoreTypeOK'
    BY <1>1 DEF TypeOK, StoreTypeOK, storeVars
  <1> QED BY <1>1, <1>8, <1>10, <1>11, <1>12 DEF TypeOK

(* The request of a handler at work, and the pane it names. *)
LEMMA RequestOf ==
  ASSUME TypeInv, NEW w \in Watcher, call[w].pc # "idle"
  PROVE  /\ call[w].req \in Requests
         /\ PaneOf(w) \in Pane
         /\ call[w].req.timeout \in Nat /\ call[w].req.arg \in Nat
  BY RequestFields DEF TypeInv, HandlerOK, PaneOf

(* Leaving the store as it is keeps its type. *)
LEMMA StoreFrame ==
  ASSUME StoreTypeOK, UNCHANGED <<bufs, watching, now>>,
         sig' \in [Watcher -> BOOLEAN], parked' \subseteq Watcher
  PROVE  StoreTypeOK'
  BY DEF StoreTypeOK

LEMMA CaptureType == ASSUME TypeInv, NEW w \in Watcher, Capture(w) PROVE TypeInv'
  <1>1. call[w].pc = "capture" /\ UNCHANGED <<storeVars, held, cancelled>>
    BY DEF Capture, At
  <1>2. CASE Goto(w, "snap")
    <2>1. /\ call' \in [Watcher -> CallType]
          /\ call'[w] = [call[w] EXCEPT !.pc = "snap"]
          /\ \A v \in Watcher : v # w => call'[v] = call[v]
      BY <1>2, GotoType DEF TypeInv, PC
    <2>2. call'[w].pc = "snap" /\ call'[w].req = call[w].req
      BY <2>1 DEF TypeInv, TypeOK, CallType
    <2>3. HandlerOK(w)'
      BY <1>1, <2>2, RequestOf, NotParked DEF HandlerOK, InLoop, storeVars
    <2>4. ASSUME NEW v \in Watcher, v # w PROVE HandlerOK(v)'
      BY <1>1, <2>1, <2>4, HandlerFrame DEF storeVars, TypeInv
    <2> QED BY <1>1, <2>1, <2>3, <2>4, StoreFrame DEF TypeInv, TypeOK, StoreTypeOK, storeVars
  <1>3. ASSUME NEW code \in {"PANE_NOT_FOUND", "RUNTIME"}, Fail(w, code) PROVE TypeInv'
    <2>1. code \in Code /\ Answer(w, code, NoToken)
      BY <1>3 DEF Code, Fail
    <2>2. call' \in [Watcher -> CallType] /\ \A v \in Watcher : HandlerOK(v)'
      BY <1>1, <2>1, AnswerStep, NotParked DEF storeVars
    <2> QED BY <1>1, <2>2, StoreFrame DEF TypeInv, TypeOK, StoreTypeOK, storeVars
  <1> QED BY <1>2, <1>3 DEF Capture

(* SnapToken and QuietToken: a buffer may be created, and an answer given. *)
LEMMA TokenStep ==
  ASSUME TypeInv, NEW w \in Watcher, call[w].pc \in {"snap", "mint"},
         CreateBuffer(PaneOf(w)), UNCHANGED <<watching, sig, parked, now, held, cancelled>>,
         NEW code \in Code, NEW tok \in {HeadToken(PaneOf(w)), NoToken}, Answer(w, code, tok)
  PROVE  TypeInv'
  <1>1. PaneOf(w) \in Pane
    BY RequestOf
  <1>2. tok \in Token \cup {NoToken}
    BY <1>1, HeadTokenType DEF TypeInv, TypeOK
  <1>3. call' \in [Watcher -> CallType] /\ \A v \in Watcher : HandlerOK(v)'
    BY <1>2, AnswerStep, NotParked
  <1>4. StoreTypeOK'
    BY <1>1, CreateBufferType DEF TypeInv, TypeOK, StoreTypeOK
  <1> QED BY <1>3, <1>4 DEF TypeInv, TypeOK

LEMMA SnapTokenType == ASSUME TypeInv, NEW w \in Watcher, SnapToken(w) PROVE TypeInv'
  <1>1. /\ call[w].pc = "snap" /\ CreateBuffer(PaneOf(w))
        /\ UNCHANGED <<watching, sig, parked, now, held, cancelled>>
    BY DEF SnapToken, At
  <1>2. PICK code \in {"OK", "PANE_NOT_FOUND", "RUNTIME"}, tok \in {HeadToken(PaneOf(w)), NoToken} :
          Answer(w, code, tok)
    BY DEF SnapToken, Fail
  <1>3. code \in Code
    BY DEF Code
  <1> QED BY <1>1, <1>2, <1>3, TokenStep

LEMMA QuietTokenType == ASSUME TypeInv, NEW w \in Watcher, QuietToken(w) PROVE TypeInv'
  <1>1. "OK" \in Code
    BY DEF Code
  <1> QED BY <1>1, TokenStep DEF QuietToken, At

LEMMA WatchType == ASSUME TypeInv, NEW w \in Watcher, Watch(w) PROVE TypeInv'
  <1> DEFINE c == [call[w] EXCEPT !.pc = "check", !.deadline = now + call[w].req.timeout]
  <1>1. call[w].pc = "watch" /\ StoreWatch(w, PaneOf(w)) /\ UNCHANGED <<held, cancelled>>
        /\ call' = [call EXCEPT ![w].pc = "check", ![w].deadline = now + call[w].req.timeout]
    BY DEF Watch, At
  <1>2. now + call[w].req.timeout \in Nat /\ PaneOf(w) \in Pane
    BY <1>1, RequestOf DEF TypeInv, TypeOK, StoreTypeOK
  <1>3. c \in CallType /\ c.pc = "check" /\ c.req = call[w].req
    BY <1>2 DEF TypeInv, TypeOK, CallType, PC
  <1>4. call' = [call EXCEPT ![w] = c]
    BY <1>1 DEF TypeInv, TypeOK
  <1>5. call' \in [Watcher -> CallType] /\ call'[w] = c
        /\ \A v \in Watcher : v # w => call'[v] = call[v]
    <2> HIDE DEF c
    <2> QED BY <1>3, <1>4 DEF TypeInv, TypeOK
  <1>6. w \notin parked
    BY <1>1, NotParked
  <1>7. StoreTypeOK'
    BY <1>1, <1>2 DEF TypeInv, TypeOK, StoreTypeOK, StoreWatch
  <1>8. watching'[w] = PaneOf(w)
    BY <1>1 DEF TypeInv, TypeOK, StoreTypeOK, StoreWatch
  <1>9. HandlerOK(w)
    BY DEF TypeInv
  <1>10. HandlerOK(w)'
    <2> HIDE DEF c
    <2> QED BY <1>1, <1>3, <1>5, <1>6, <1>8, <1>9
            DEF HandlerOK, InLoop, ModeOf, PaneOf, StoreWatch
  <1>11. ASSUME NEW v \in Watcher, v # w PROVE HandlerOK(v)'
    <2>1. watching'[v] = watching[v] /\ sig'[v] = sig[v] /\ parked' = parked
      BY <1>1, <1>11 DEF TypeInv, TypeOK, StoreTypeOK, StoreWatch
    <2> HIDE DEF c
    <2> QED BY <1>1, <1>5, <1>11, <2>1, HandlerFrame DEF TypeInv
  <1> QED
    <2> HIDE DEF c
    <2> QED BY <1>1, <1>5, <1>7, <1>10, <1>11 DEF TypeInv, TypeOK

(* Closing a step that keeps the buffers, the watchers and the clock. *)
LEMMA Closing ==
  ASSUME TypeInv, UNCHANGED <<bufs, watching, now, held, cancelled>>,
         sig' \in [Watcher -> BOOLEAN], parked' \subseteq Watcher,
         call' \in [Watcher -> CallType], \A v \in Watcher : HandlerOK(v)'
  PROVE  TypeInv'
  BY StoreFrame DEF TypeInv, TypeOK

(* Any failure in the loop, the handler leaving its select if it is there. *)
LEMMA FailStep ==
  ASSUME TypeInv, NEW w \in Watcher, NEW code \in Code, Fail(w, code),
         call[w].pc # "idle", parked' = parked \ {w},
         UNCHANGED <<bufs, watching, sig, now, held, cancelled>>
  PROVE  TypeInv'
  <1>1. call' \in [Watcher -> CallType] /\ \A v \in Watcher : HandlerOK(v)'
    BY AnswerStep DEF Fail
  <1>2. sig' \in [Watcher -> BOOLEAN] /\ parked' \subseteq Watcher
    BY DEF TypeInv, TypeOK, StoreTypeOK
  <1> QED BY <1>1, <1>2, Closing

LEMMA ReadFailsType ==
  ASSUME TypeInv, NEW w \in Watcher, NEW outcome, ReadFails(w, outcome),
         call[w].pc \in {"check", "read"}, UNCHANGED <<storeVars, held, cancelled>>
  PROVE  TypeInv'
  <1>1. PICK code \in {"PANE_CLOSED", "PANE_NOT_FOUND", "INVALID_AFTER"} : Fail(w, code)
    BY DEF ReadFails, UnknownCode
  <1>2. code \in Code
    BY DEF Code
  <1> QED BY <1>1, <1>2, FailStep, NotParked DEF storeVars

LEMMA CheckType == ASSUME TypeInv, NEW w \in Watcher, Check(w) PROVE TypeInv'
  <1> DEFINE outcome == ReadCheck(PaneOf(w), held[w])
  <1>1. call[w].pc = "check" /\ UNCHANGED <<storeVars, held, cancelled>>
    BY DEF Check, At
  <1>2. CASE ReadFails(w, outcome)
    BY <1>1, <1>2, ReadFailsType
  <1>3. CASE Goto(w, "read")
    <2>1. /\ call' \in [Watcher -> CallType]
          /\ call'[w] = [call[w] EXCEPT !.pc = "read"]
          /\ \A v \in Watcher : v # w => call'[v] = call[v]
      BY <1>3, GotoType DEF TypeInv, PC
    <2>2. call'[w].pc = "read" /\ call'[w].req = call[w].req
      BY <2>1 DEF TypeInv, TypeOK, CallType
    <2>3. \A v \in Watcher : HandlerOK(v)'
      BY <1>1, <2>1, <2>2, MoveStep, NotParked DEF storeVars, InLoop
    <2> QED BY <1>1, <2>1, <2>3, Closing DEF TypeInv, TypeOK, StoreTypeOK, storeVars
  <1> QED BY <1>2, <1>3 DEF Check

LEMMA ReadStepType == ASSUME TypeInv, NEW w \in Watcher, Read(w) PROVE TypeInv'
  <1> DEFINE p == PaneOf(w)
             outcome == ReadResult(p, held[w])
             mode == ModeOf(w)
             code == IF mode = "read" THEN "OK" ELSE "none"
             bytes == BufferRead(bufs[p], held[w].off)
             next == TokenAt(p, bufs[p].end)
             c == [call[w] EXCEPT !.pc = AfterRead(mode), !.known = mode # "read",
                                  !.code = code, !.got = bytes, !.next = next]
  <1>1. call[w].pc = "read" /\ UNCHANGED <<storeVars, held, cancelled>>
    BY DEF Read, At
  <1>2. CASE ReadFails(w, outcome)
    BY <1>1, <1>2, ReadFailsType
  <1>3. CASE /\ outcome = "ok"
             /\ call' = [call EXCEPT ![w].pc = AfterRead(mode), ![w].known = mode # "read",
                                     ![w].code = code, ![w].got = bytes, ![w].next = next]
    <2>1. p \in DOMAIN bufs /\ InWindow(bufs[p], held[w].off)
      BY <1>3 DEF ReadResult, Known
    <2>2. p \in Pane /\ bufs[p] \in ValidBuffer /\ now \in Nat /\ held[w] \in Token
      BY <1>1, <2>1, RequestOf DEF TypeInv, TypeOK, StoreTypeOK, HandlerOK
    <2>3. bytes \in Seq(Byte)
      BY <2>1, <2>2, TokenFields, ReadType
    <2>4. next \in Token
      BY <2>2 DEF TokenAt, Token, ValidBuffer, BufferType
    <2>5. mode \in WaitMode \cup {"read"}
      BY <1>1 DEF TypeInv, HandlerOK
    <2>6. /\ AfterRead(mode) \in {"return", "ref", "eval"}
          /\ AfterRead(mode) = "return" => mode = "read"
          /\ AfterRead(mode) = "ref" => mode = "quiescence"
          /\ AfterRead(mode) = "eval" => mode \in MatchMode
      BY <2>5 DEF AfterRead, WaitMode, MatchMode
    <2>7. code \in Code /\ AfterRead(mode) \in PC /\ (mode # "read") \in BOOLEAN
      BY <2>6 DEF Code, PC
    <2>8. c \in CallType /\ c.pc = AfterRead(mode) /\ c.req = call[w].req
      <3> HIDE DEF code, bytes, next, mode
      <3> QED BY <2>3, <2>4, <2>7 DEF TypeInv, TypeOK, CallType
    <2>9. call' = [call EXCEPT ![w] = c]
      BY <1>3 DEF TypeInv, TypeOK
    <2>10. call' \in [Watcher -> CallType] /\ call'[w] = c
           /\ \A v \in Watcher : v # w => call'[v] = call[v]
      <3> HIDE DEF c
      <3> QED BY <2>8, <2>9 DEF TypeInv, TypeOK
    <2>11. w \notin parked /\ parked' = parked \ {w}
      BY <1>1, NotParked DEF storeVars
    <2>12. ASSUME NEW v \in Watcher PROVE HandlerOK(v)'
      <3>1. CASE v # w
        <4> HIDE DEF c
        <4> QED BY <1>1, <2>10, <3>1, HandlerFrame DEF storeVars, TypeInv
      <3>2. CASE v = w /\ AfterRead(mode) = "return"
        <4> HIDE DEF c, mode
        <4> QED BY <1>1, <2>8, <2>10, <2>11, <3>2, RequestOf DEF HandlerOK, InLoop
      <3>3. CASE v = w /\ AfterRead(mode) # "return"
        <4>1. AfterRead(mode) \in {"eval", "ref"} /\ mode \in WaitMode
          BY <2>6, <3>3 DEF MatchMode, WaitMode
        <4> HIDE DEF c
        <4> QED BY <1>1, <2>6, <2>8, <2>10, <2>11, <3>3, <4>1, MoveStep DEF InLoop, storeVars
      <3> QED BY <3>1, <3>2, <3>3
    <2> QED
      <3> HIDE DEF c
      <3> QED BY <1>1, <2>10, <2>12, Closing DEF TypeInv, TypeOK, StoreTypeOK, storeVars
  <1> QED BY <1>2, <1>3 DEF Read

(* No verdict: the handler enters its select. *)
LEMMA UnsettledType ==
  ASSUME TypeInv, NEW w \in Watcher, NEW at \in Nat, Unsettled(w, at),
         call[w].pc \in {"eval", "elapsed"}, UNCHANGED <<storeVars, held, cancelled>>
  PROVE  TypeInv'
  <1> DEFINE c == [call[w] EXCEPT !.pc = "select", !.got = <<>>, !.next = NoToken,
                                  !.ref = 0, !.quietAt = at]
  <1>1. <<>> \in Seq(Byte) /\ "select" \in PC
    BY EmptySeq DEF PC
  <1>2. c \in CallType /\ c.pc = "select" /\ c.req = call[w].req
    BY <1>1 DEF TypeInv, TypeOK, CallType
  <1>3. call' = [call EXCEPT ![w] = c]
    BY DEF Unsettled, TypeInv, TypeOK
  <1>4. call' \in [Watcher -> CallType] /\ call'[w] = c
        /\ \A v \in Watcher : v # w => call'[v] = call[v]
    <2> HIDE DEF c
    <2> QED BY <1>2, <1>3 DEF TypeInv, TypeOK
  <1>5. ModeOf(w) \in WaitMode
    BY DEF TypeInv, HandlerOK, InLoop
  <1>6. \A v \in Watcher : HandlerOK(v)'
    <2> HIDE DEF c
    <2> QED BY <1>2, <1>4, <1>5, MoveStep, NotParked DEF storeVars, InLoop
  <1> QED
    <2> HIDE DEF c
    <2> QED BY <1>4, <1>6, Closing DEF TypeInv, TypeOK, StoreTypeOK, storeVars

LEMMA EvalType == ASSUME TypeInv, NEW w \in Watcher, Eval(w) PROVE TypeInv'
  <1>1. call[w].pc = "eval" /\ UNCHANGED <<storeVars, held, cancelled>>
    BY DEF Eval, At
  <1>2. CASE Matches(call[w].got)
    <2>1. "OK" \in Code /\ call[w].next \in Token \cup {NoToken}
      BY DEF Code, TypeInv, TypeOK, CallType
    <2>2. Answer(w, "OK", call[w].next)
      BY <1>2 DEF Eval, MatchedNext
    <2>3. call' \in [Watcher -> CallType] /\ \A v \in Watcher : HandlerOK(v)'
      BY <1>1, <2>1, <2>2, AnswerStep, NotParked DEF storeVars
    <2> QED BY <1>1, <2>3, Closing DEF TypeInv, TypeOK, StoreTypeOK, storeVars
  <1>3. CASE ~Matches(call[w].got)
    BY <1>1, <1>3, UnsettledType DEF Eval
  <1> QED BY <1>2, <1>3

LEMMA QuietSinceType ==
  ASSUME TypeInv, NEW w \in Watcher, PaneOf(w) \in Pane, held[w] \in Token
  PROVE  QuietSince(w) \in Nat
  BY BufferOfValid, TokenFields
     DEF TypeInv, TypeOK, QuietSince, Later, LastAppend, ValidBuffer, BufferType

LEMMA RefType == ASSUME TypeInv, NEW w \in Watcher, Ref(w) PROVE TypeInv'
  <1> DEFINE since == QuietSince(w)
             c == [call[w] EXCEPT !.pc = "elapsed", !.ref = since]
  <1>1. call[w].pc = "ref" /\ UNCHANGED <<storeVars, held, cancelled>>
        /\ call' = [call EXCEPT ![w].pc = "elapsed", ![w].ref = since]
    BY DEF Ref, At
  <1>2. since \in Nat /\ "elapsed" \in PC
    BY <1>1, RequestOf, QuietSinceType DEF TypeInv, HandlerOK, InLoop, PC
  <1>3. c \in CallType /\ c.pc = "elapsed" /\ c.req = call[w].req
    <2> HIDE DEF since
    <2> QED BY <1>2 DEF TypeInv, TypeOK, CallType
  <1>4. call' = [call EXCEPT ![w] = c]
    BY <1>1 DEF TypeInv, TypeOK
  <1>5. call' \in [Watcher -> CallType] /\ call'[w] = c
        /\ \A v \in Watcher : v # w => call'[v] = call[v]
    <2> HIDE DEF c
    <2> QED BY <1>3, <1>4 DEF TypeInv, TypeOK
  <1>6. ModeOf(w) = "quiescence" /\ ModeOf(w) \in WaitMode
    BY <1>1 DEF TypeInv, HandlerOK, WaitMode
  <1>7. \A v \in Watcher : HandlerOK(v)'
    <2> HIDE DEF c
    <2> QED BY <1>1, <1>3, <1>5, <1>6, MoveStep, NotParked DEF storeVars, InLoop
  <1> QED
    <2> HIDE DEF c
    <2> QED BY <1>1, <1>5, <1>7, Closing DEF TypeInv, TypeOK, StoreTypeOK, storeVars

(* A step to another label, everything else of the call unchanged. *)
LEMMA GotoStep ==
  ASSUME TypeInv, NEW w \in Watcher, NEW label \in {"check", "mint"}, Goto(w, label),
         call[w].pc \in InLoop, label = "mint" => ModeOf(w) = "quiescence",
         UNCHANGED <<bufs, watching, now, held, cancelled>>,
         sig' \in [Watcher -> BOOLEAN], parked' = parked \ {w},
         \A v \in Watcher : v # w => sig'[v] = sig[v]
  PROVE  TypeInv'
  <1>1. /\ call' \in [Watcher -> CallType]
        /\ call'[w] = [call[w] EXCEPT !.pc = label]
        /\ \A v \in Watcher : v # w => call'[v] = call[v]
    BY GotoType DEF TypeInv, PC
  <1>2. call'[w].pc = label /\ call'[w].req = call[w].req
    BY <1>1 DEF TypeInv, TypeOK, CallType
  <1>3. parked' \subseteq Watcher /\ \A v \in parked' : v \in Watcher /\ v # w
    BY DEF TypeInv, TypeOK, StoreTypeOK
  <1>4. ModeOf(w) \in WaitMode
    BY DEF TypeInv, HandlerOK
  <1>5. \A v \in Watcher : HandlerOK(v)'
    BY <1>1, <1>2, <1>3, <1>4, MoveStep DEF InLoop
  <1> QED BY <1>1, <1>3, <1>5, Closing

LEMMA ElapsedType == ASSUME TypeInv, NEW w \in Watcher, Elapsed(w) PROVE TypeInv'
  <1>1. call[w].pc = "elapsed" /\ UNCHANGED <<storeVars, held, cancelled>>
    BY DEF Elapsed, At
  <1>2. CASE IsQuiet(w)
    <2>1. ModeOf(w) = "quiescence" /\ Goto(w, "mint")
      BY <1>1, <1>2 DEF TypeInv, HandlerOK, Elapsed
    <2> QED BY <1>1, <2>1, GotoStep, NotParked
            DEF TypeInv, TypeOK, StoreTypeOK, storeVars, InLoop
  <1>3. CASE ~IsQuiet(w)
    <2>1. call[w].ref + call[w].req.arg \in Nat
      BY <1>1, RequestOf DEF TypeInv, TypeOK, CallType
    <2> QED BY <1>1, <1>3, <2>1, UnsettledType DEF Elapsed
  <1> QED BY <1>2, <1>3

LEMMA ParkType == ASSUME TypeInv, NEW w \in Watcher, Park(w) PROVE TypeInv'
  <1>1. /\ call[w].pc = "select" /\ ~sig[w] /\ parked' = parked \cup {w} /\ Goto(w, "parked")
        /\ UNCHANGED <<bufs, watching, sig, now, held, cancelled>>
    BY DEF Park, At
  <1>2. /\ call' \in [Watcher -> CallType]
        /\ call'[w] = [call[w] EXCEPT !.pc = "parked"]
        /\ \A v \in Watcher : v # w => call'[v] = call[v]
    BY <1>1, GotoType DEF TypeInv, PC
  <1>3. call'[w].pc = "parked" /\ call'[w].req = call[w].req
    BY <1>2 DEF TypeInv, TypeOK, CallType
  <1>4. HandlerOK(w)
    BY DEF TypeInv
  <1>5. HandlerOK(w)'
    BY <1>1, <1>3, <1>4 DEF HandlerOK, InLoop, ModeOf, PaneOf
  <1>6. ASSUME NEW v \in Watcher, v # w PROVE HandlerOK(v)'
    BY <1>1, <1>2, <1>6, HandlerFrame DEF TypeInv
  <1> QED BY <1>1, <1>2, <1>5, <1>6, Closing DEF TypeInv, TypeOK, StoreTypeOK

LEMMA TakeSignalType == ASSUME TypeInv, NEW w \in Watcher, TakeSignal(w) PROVE TypeInv'
  <1>1. /\ call[w].pc \in {"select", "parked"} /\ Goto(w, "check") /\ w \notin parked
        /\ UNCHANGED <<bufs, watching, parked, now, held, cancelled>>
        /\ sig' = sig \/ sig' = [sig EXCEPT ![w] = FALSE]
    BY NotParked DEF TakeSignal, At
  <1>2. sig' \in [Watcher -> BOOLEAN] /\ \A v \in Watcher : v # w => sig'[v] = sig[v]
    BY <1>1 DEF TypeInv, TypeOK, StoreTypeOK
  <1> QED BY <1>1, <1>2, GotoStep DEF InLoop

LEMMA SelectType ==
  ASSUME TypeInv, NEW w \in Watcher, TakeQuiet(w) \/ TakeTimeout(w) \/ TakeCancel(w)
  PROVE  TypeInv'
  <1>1. call[w].pc \in {"select", "parked"} /\ parked' = parked \ {w}
        /\ UNCHANGED <<bufs, watching, sig, now, held, cancelled>>
    BY DEF TakeQuiet, TakeTimeout, TakeCancel, Unpark, Selecting, At
  <1>2. CASE Goto(w, "check")
    BY <1>1, <1>2, GotoStep DEF InLoop, TypeInv, TypeOK, StoreTypeOK
  <1>3. ASSUME NEW code \in {"TIMEOUT", "RUNTIME"}, Fail(w, code) PROVE TypeInv'
    <2>1. code \in Code
      BY DEF Code
    <2> QED BY <1>1, <1>3, <2>1, FailStep
  <1> QED BY <1>2, <1>3 DEF TakeQuiet, TakeTimeout, TakeCancel

LEMMA ReturnType == ASSUME TypeInv, NEW w \in Watcher, Return(w) PROVE TypeInv'
  <1>1. /\ call[w].pc = "return" /\ StoreWatch(w, NoPane) /\ UNCHANGED cancelled
        /\ held' = IF call[w].code = "OK" THEN [held EXCEPT ![w] = call[w].next] ELSE held
        /\ call' = [call EXCEPT ![w] = Idle]
    BY DEF Return, At, StoreUnwatch
  <1>2. Idle \in CallType /\ Idle.pc = "idle"
    BY EmptySeq DEF Idle, CallType, PC, Code
  <1>3. call' \in [Watcher -> CallType] /\ call'[w] = Idle
        /\ \A v \in Watcher : v # w => call'[v] = call[v]
    BY <1>1, <1>2 DEF TypeInv, TypeOK
  <1>4. held' \in [Watcher -> Token \cup {NoToken}]
        /\ \A v \in Watcher : v # w => held'[v] = held[v]
    BY <1>1 DEF TypeInv, TypeOK, CallType
  <1>5. StoreTypeOK'
    BY <1>1 DEF TypeInv, TypeOK, StoreTypeOK, StoreWatch
  <1>6. w \notin parked /\ parked' = parked
    BY <1>1, NotParked DEF StoreWatch
  <1>7. HandlerOK(w)'
    BY <1>2, <1>3, <1>6 DEF HandlerOK, InLoop
  <1>8. ASSUME NEW v \in Watcher, v # w PROVE HandlerOK(v)'
    <2>1. watching'[v] = watching[v] /\ sig'[v] = sig[v]
      BY <1>1, <1>8 DEF TypeInv, TypeOK, StoreTypeOK, StoreWatch
    <2> QED BY <1>3, <1>4, <1>6, <1>8, <2>1, HandlerFrame DEF TypeInv
  <1> QED BY <1>1, <1>3, <1>4, <1>5, <1>7, <1>8 DEF TypeInv, TypeOK

LEMMA TypeStutter == ASSUME TypeInv, UNCHANGED vars PROVE TypeInv'
  <1>1. \A v \in Watcher : HandlerOK(v)'
    BY HandlerFrame DEF TypeInv, vars, storeVars
  <1> QED BY <1>1, Closing DEF TypeInv, TypeOK, StoreTypeOK, vars, storeVars

(* Every step keeps the types and the handlers in order. *)
LEMMA TypeNext == ASSUME TypeInv, [Next]_vars PROVE TypeInv'
  <1>1. ASSUME NEW w \in Watcher, Call(w) \/ Capture(w) PROVE TypeInv'
    BY <1>1, CallTypeStep, CaptureType
  <1>2. ASSUME NEW w \in Watcher, HandlerStep(w) PROVE TypeInv'
    BY <1>2, SnapTokenType, WatchType, CheckType, ReadStepType, EvalType, RefType, ElapsedType,
       QuietTokenType, ParkType, TakeSignalType, SelectType, ReturnType DEF HandlerStep
  <1>3. CASE Drain
    BY <1>3, DrainType DEF Drain
  <1> QED BY <1>1, <1>2, <1>3, TickType, CancelType, TypeStutter DEF Next

(* Every value of the state has its type: in particular every retained     *)
(* window fits its ring (buffer.go:19) however appends, evictions, token   *)
(* creation and Forget interleave with the commands.                       *)
THEOREM TypeCorrect == Spec => []TypeOK
  <1>1. TypeInv /\ [Next]_vars => TypeInv'
    BY TypeNext
  <1>2. TypeInv => TypeOK
    BY DEF TypeInv
  <1> QED BY <1>1, <1>2, TypeInit, PTL DEF Spec

-----------------------------------------------------------------------------
(* No signal waits for w, and none has been handed to it. *)
Unsignalled(w) == ~sig[w] /\ (call[w].pc = "parked" => w \in parked)

Bytes(w) == BufferRead(bufs[PaneOf(w)], held[w].off)

(* What each label has established about the store as it is now. *)
Conclusion(w) ==
    /\ Known(PaneOf(w))
    /\ InWindow(bufs[PaneOf(w)], held[w].off)
    /\ call[w].pc = "eval" => call[w].got = Bytes(w)
    /\ call[w].pc \in {"elapsed", "mint"} => call[w].ref = QuietSince(w)
    /\ call[w].pc = "mint" => now - call[w].ref >= call[w].req.arg
    /\ call[w].pc \in {"select", "parked"} =>
         /\ ModeOf(w) \in MatchMode => ~Matches(Bytes(w))
         /\ ModeOf(w) = "quiescence" => call[w].quietAt = QuietSince(w) + call[w].req.arg

UpToDate(w) == call[w].pc \in InLoop /\ Unsignalled(w) => Conclusion(w)

WakeupInv == TypeInv /\ \A w \in Watcher : UpToDate(w)

-----------------------------------------------------------------------------
(* A conclusion survives every step that leaves the handler and its pane's *)
(* buffer alone; time only makes a quiet pane quieter.                     *)
LEMMA ConclusionFrame ==
  ASSUME TypeInv, NEW v \in Watcher, call[v].pc \in InLoop, Conclusion(v),
         call'[v] = call[v], held'[v] = held[v], now' \in Nat, now <= now',
         PaneOf(v) \in DOMAIN bufs', bufs'[PaneOf(v)] = bufs[PaneOf(v)]
  PROVE  Conclusion(v)'
  <1>1. PaneOf(v)' = PaneOf(v) /\ ModeOf(v)' = ModeOf(v) /\ Bytes(v)' = Bytes(v)
    BY DEF PaneOf, ModeOf, Bytes
  <1>2. QuietSince(v)' = QuietSince(v)
    BY <1>1 DEF Conclusion, QuietSince, LastAppend, BufferOf, Known
  <1>3. now \in Nat /\ call[v].ref \in Nat /\ call[v].req.arg \in Nat
    BY RequestOf DEF TypeInv, TypeOK, StoreTypeOK, CallType, InLoop
  <1> QED BY <1>1, <1>2, <1>3 DEF Conclusion, Known

LEMMA UpToDateFrame ==
  ASSUME WakeupInv, NEW v \in Watcher,
         call'[v] = call[v], held'[v] = held[v], now' \in Nat, now <= now',
         call[v].pc \in InLoop /\ Unsignalled(v)' =>
           /\ Unsignalled(v)
           /\ Known(PaneOf(v)) => PaneOf(v) \in DOMAIN bufs'
                                  /\ bufs'[PaneOf(v)] = bufs[PaneOf(v)]
  PROVE  UpToDate(v)'
  BY ConclusionFrame DEF WakeupInv, UpToDate, Conclusion

(* A step of w that leaves buffers, clock and the other handlers alone is  *)
(* harmless to the others.                                                 *)
LEMMA OthersUpToDate ==
  ASSUME WakeupInv, NEW w \in Watcher,
         \A v \in Watcher : v # w => call'[v] = call[v] /\ held'[v] = held[v]
                                     /\ sig'[v] = sig[v] /\ (v \in parked' <=> v \in parked),
         now' = now,
         \A q \in DOMAIN bufs : q \in DOMAIN bufs' /\ bufs'[q] = bufs[q]
  PROVE  \A v \in Watcher : v # w => UpToDate(v)'
  <1> SUFFICES ASSUME NEW v \in Watcher, v # w PROVE UpToDate(v)'
    OBVIOUS
  <1>1. now' \in Nat /\ now <= now'
    BY DEF WakeupInv, TypeInv, TypeOK, StoreTypeOK
  <1>2. Unsignalled(v)' => Unsignalled(v)
    BY DEF Unsignalled
  <1> QED BY <1>1, <1>2, UpToDateFrame DEF Known

(* Append and Forget signal every handler whose pane they touch.           *)
LEMMA NotifyUpToDate ==
  ASSUME WakeupInv, NEW p \in Pane, Notify(p), UNCHANGED <<watching, now, call, held>>,
         \A q \in DOMAIN bufs : q # p => q \in DOMAIN bufs' /\ bufs'[q] = bufs[q]
  PROVE  \A v \in Watcher : UpToDate(v)'
  <1> SUFFICES ASSUME NEW v \in Watcher PROVE UpToDate(v)'
    OBVIOUS
  <1>1. now' \in Nat /\ now <= now'
    BY DEF WakeupInv, TypeInv, TypeOK, StoreTypeOK
  <1>2. ASSUME call[v].pc \in InLoop, Unsignalled(v)' PROVE Unsignalled(v) /\ PaneOf(v) # p
    <2>1. HandlerOK(v) /\ watching[v] = PaneOf(v)
      BY <1>2 DEF WakeupInv, TypeInv, HandlerOK
    <2>2. watching[v] # p
      BY <1>2, <2>1 DEF Unsignalled, Notify, HandlerOK
    <2>3. sig'[v] = sig[v] /\ (v \in parked' <=> v \in parked)
      BY <2>2 DEF Notify, WakeupInv, TypeInv, TypeOK, StoreTypeOK
    <2> QED BY <1>2, <2>1, <2>2, <2>3 DEF Unsignalled
  <1> QED BY <1>1, <1>2, UpToDateFrame DEF Known

LEMMA DrainUpToDate ==
  ASSUME WakeupInv, NEW p \in Pane, DrainData(p) \/ DrainClosed(p)
  PROVE  \A v \in Watcher : UpToDate(v)'
  <1>1. Notify(p) /\ UNCHANGED <<watching, now, call, held>>
    BY DEF DrainData, DrainClosed, StoreAppend, StoreForget
  <1>2. \A q \in DOMAIN bufs : q # p => q \in DOMAIN bufs' /\ bufs'[q] = bufs[q]
    BY DEF DrainData, DrainClosed, StoreAppend, StoreForget, SetBuffer
  <1> QED BY <1>1, <1>2, NotifyUpToDate

-----------------------------------------------------------------------------
(* A step of w outside the loop of its wait, or one that leaves it.        *)
LEMMA OutsideLoop ==
  ASSUME WakeupInv, NEW w \in Watcher, call'[w].pc \notin InLoop,
         \A v \in Watcher : v # w => call'[v] = call[v] /\ held'[v] = held[v]
                                     /\ sig'[v] = sig[v] /\ (v \in parked' <=> v \in parked),
         now' = now,
         \A q \in DOMAIN bufs : q \in DOMAIN bufs' /\ bufs'[q] = bufs[q]
  PROVE  \A v \in Watcher : UpToDate(v)'
  BY OthersUpToDate DEF UpToDate

(* What Goto, Answer and an entry of the select do to the handlers.        *)
LEMMA GotoEffect ==
  ASSUME TypeInv, NEW w \in Watcher, NEW label, Goto(w, label)
  PROVE  call'[w].pc = label /\ \A v \in Watcher : v # w => call'[v] = call[v]
  BY DEF TypeInv, TypeOK, CallType, Goto

LEMMA AnswerEffect ==
  ASSUME TypeInv, NEW w \in Watcher, NEW code, NEW tok, Answer(w, code, tok)
  PROVE  /\ call'[w].pc = "return" /\ call'[w].code = code /\ call'[w].next = tok
         /\ call'[w].req = call[w].req /\ call'[w].got = call[w].got
         /\ \A v \in Watcher : v # w => call'[v] = call[v]
  BY DEF TypeInv, TypeOK, CallType, Answer

LEMMA UnsettledEffect ==
  ASSUME TypeInv, NEW w \in Watcher, NEW at, Unsettled(w, at)
  PROVE  /\ call'[w].pc = "select" /\ call'[w].req = call[w].req /\ call'[w].quietAt = at
         /\ \A v \in Watcher : v # w => call'[v] = call[v]
  BY DEF TypeInv, TypeOK, CallType, Unsettled

(* The handler's steps that do not end in the loop. *)
LEMMA EnterUpToDate ==
  ASSUME WakeupInv, NEW w \in Watcher, Call(w) \/ Capture(w) \/ Watch(w)
  PROVE  \A v \in Watcher : UpToDate(v)'
  <1>0. TypeInv /\ w \in DOMAIN call
    BY DEF WakeupInv, TypeInv, TypeOK
  <1>1. CASE Call(w)
    <2>1. PICK r \in Requests :
            /\ call' = [call EXCEPT ![w].req = r, ![w].code = Rejection(r, held[w]),
                                    ![w].pc = IF Rejection(r, held[w]) = "none"
                                              THEN FirstStep(r.mode) ELSE "return"]
            /\ UNCHANGED <<storeVars, held, cancelled>>
      BY <1>1 DEF Call, At
    <2> DEFINE label == IF Rejection(r, held[w]) = "none" THEN FirstStep(r.mode) ELSE "return"
    <2>2. label \in {"capture", "check", "watch", "return"}
      BY DEF FirstStep
    <2>3. call'[w].pc = label
      <3> HIDE DEF label
      <3> QED BY <1>0, <2>1 DEF label, TypeInv, TypeOK, CallType
    <2>4. \A v \in Watcher : v # w => call'[v] = call[v]
      BY <1>0, <2>1 DEF TypeInv, TypeOK
    <2>5. call'[w].pc \notin InLoop
      <3> HIDE DEF label
      <3> QED BY <2>2, <2>3 DEF InLoop
    <2> QED BY <2>1, <2>4, <2>5, OutsideLoop DEF storeVars
  <1>2. CASE Capture(w)
    <2>1. UNCHANGED <<storeVars, held, cancelled>>
      BY <1>2 DEF Capture
    <2>2. call'[w].pc \in {"snap", "return"} /\ \A v \in Watcher : v # w => call'[v] = call[v]
      BY <1>0, <1>2, GotoEffect, AnswerEffect DEF Capture, Fail
    <2> QED BY <2>1, <2>2, OutsideLoop DEF storeVars, InLoop
  <1>3. CASE Watch(w)
    <2>1. call'[w].pc = "check" /\ \A v \in Watcher : v # w => call'[v] = call[v]
      BY <1>0, <1>3 DEF Watch, TypeInv, TypeOK, CallType
    <2>2. /\ UNCHANGED <<bufs, parked, now, held>>
          /\ \A v \in Watcher : v # w => sig'[v] = sig[v]
      BY <1>0, <1>3 DEF Watch, StoreWatch, TypeInv, TypeOK, StoreTypeOK
    <2> QED BY <2>1, <2>2, OutsideLoop DEF InLoop
  <1> QED BY <1>1, <1>2, <1>3

LEMMA TokenUpToDate ==
  ASSUME WakeupInv, NEW w \in Watcher, SnapToken(w) \/ QuietToken(w)
  PROVE  \A v \in Watcher : UpToDate(v)'
  <1>0. TypeInv /\ call[w].pc \in {"snap", "mint"}
    BY DEF WakeupInv, SnapToken, QuietToken, At
  <1>1. CreateBuffer(PaneOf(w)) /\ UNCHANGED <<watching, sig, parked, now, held>>
    BY DEF SnapToken, QuietToken
  <1>2. \A q \in DOMAIN bufs : q \in DOMAIN bufs' /\ bufs'[q] = bufs[q]
    BY <1>0, <1>1, RequestOf, CreateBufferType DEF TypeInv, TypeOK
  <1>3. call'[w].pc = "return" /\ \A v \in Watcher : v # w => call'[v] = call[v]
    BY <1>0, AnswerEffect DEF SnapToken, QuietToken, Fail
  <1> QED BY <1>1, <1>2, <1>3, OutsideLoop DEF InLoop

LEMMA LeaveUpToDate ==
  ASSUME WakeupInv, NEW w \in Watcher,
         Check(w) \/ TakeSignal(w) \/ TakeQuiet(w) \/ TakeTimeout(w) \/ TakeCancel(w) \/ Return(w)
  PROVE  \A v \in Watcher : UpToDate(v)'
  <1>0. TypeInv
    BY DEF WakeupInv
  <1>1. CASE Check(w)
    <2>1. UNCHANGED <<storeVars, held, cancelled>>
      BY <1>1 DEF Check
    <2>2. call'[w].pc \in {"read", "return"} /\ \A v \in Watcher : v # w => call'[v] = call[v]
      BY <1>0, <1>1, GotoEffect, AnswerEffect DEF Check, ReadFails, Fail
    <2> QED BY <2>1, <2>2, OutsideLoop DEF storeVars, InLoop
  <1>2. CASE TakeSignal(w)
    <2>1. UNCHANGED <<bufs, parked, now, held>> /\ Goto(w, "check")
          /\ \A v \in Watcher : v # w => sig'[v] = sig[v]
      BY <1>0, <1>2 DEF TakeSignal, TypeInv, TypeOK, StoreTypeOK
    <2>2. call'[w].pc = "check" /\ \A v \in Watcher : v # w => call'[v] = call[v]
      BY <1>0, <2>1, GotoEffect
    <2> QED BY <2>1, <2>2, OutsideLoop DEF InLoop
  <1>3. CASE TakeQuiet(w) \/ TakeTimeout(w) \/ TakeCancel(w)
    <2>1. UNCHANGED <<bufs, sig, now, held>> /\ parked' = parked \ {w}
      BY <1>3 DEF TakeQuiet, TakeTimeout, TakeCancel, Unpark
    <2>2. call'[w].pc \in {"check", "return"} /\ \A v \in Watcher : v # w => call'[v] = call[v]
      BY <1>0, <1>3, GotoEffect, AnswerEffect DEF TakeQuiet, TakeTimeout, TakeCancel, Fail
    <2> QED BY <2>1, <2>2, OutsideLoop DEF InLoop
  <1>4. CASE Return(w)
    <2>1. /\ UNCHANGED <<bufs, parked, now>>
          /\ \A v \in Watcher : v # w => sig'[v] = sig[v] /\ held'[v] = held[v]
      BY <1>0, <1>4 DEF Return, StoreUnwatch, StoreWatch, TypeInv, TypeOK, StoreTypeOK
    <2>2. call'[w].pc = "idle" /\ \A v \in Watcher : v # w => call'[v] = call[v]
      BY <1>0, <1>4 DEF Return, Idle, TypeInv, TypeOK
    <2> QED BY <2>1, <2>2, OutsideLoop DEF InLoop
  <1> QED BY <1>1, <1>2, <1>3, <1>4

-----------------------------------------------------------------------------
(* A step that stays in the loop brings w's conclusion up to date. *)
LEMMA InsideLoop ==
  ASSUME WakeupInv, NEW w \in Watcher, Unsignalled(w)' => Conclusion(w)',
         \A v \in Watcher : v # w => call'[v] = call[v], UNCHANGED <<bufs, sig, now, held>>,
         \A v \in Watcher : v # w => (v \in parked' <=> v \in parked)
  PROVE  \A v \in Watcher : UpToDate(v)'
  <1>1. \A v \in Watcher : v # w => UpToDate(v)'
    BY OthersUpToDate
  <1> QED BY <1>1 DEF UpToDate

LEMMA ReadUpToDate ==
  ASSUME WakeupInv, NEW w \in Watcher, Read(w)
  PROVE  \A v \in Watcher : UpToDate(v)'
  <1> DEFINE p == PaneOf(w)
             mode == ModeOf(w)
             code == IF mode = "read" THEN "OK" ELSE "none"
             bytes == BufferRead(bufs[p], held[w].off)
             next == TokenAt(p, bufs[p].end)
  <1>1. TypeInv /\ UNCHANGED <<storeVars, held, cancelled>>
    BY DEF WakeupInv, Read
  <1>2. CASE ReadFails(w, ReadResult(p, held[w]))
    <2>1. call'[w].pc = "return" /\ \A v \in Watcher : v # w => call'[v] = call[v]
      BY <1>1, <1>2, AnswerEffect DEF ReadFails, Fail
    <2> QED BY <1>1, <2>1, OutsideLoop DEF storeVars, InLoop
  <1>3. CASE /\ ReadResult(p, held[w]) = "ok"
             /\ call' = [call EXCEPT ![w].pc = AfterRead(mode), ![w].known = mode # "read",
                                     ![w].code = code, ![w].got = bytes, ![w].next = next]
    <2>1. Known(p) /\ InWindow(bufs[p], held[w].off)
      BY <1>3 DEF ReadResult
    <2>2. /\ call'[w].pc = AfterRead(mode) /\ call'[w].got = bytes /\ call'[w].req = call[w].req
          /\ \A v \in Watcher : v # w => call'[v] = call[v]
      <3> HIDE DEF code, bytes, next, mode
      <3> QED BY <1>1, <1>3 DEF TypeInv, TypeOK, CallType
    <2>3. AfterRead(mode) \in {"return", "ref", "eval"}
      BY DEF AfterRead
    <2>4. Conclusion(w)'
      BY <1>1, <2>1, <2>2, <2>3 DEF Conclusion, Bytes, PaneOf, Known, storeVars
    <2> QED
      <3> HIDE DEF code, bytes, next, mode, p
      <3> QED BY <1>1, <2>2, <2>4, InsideLoop DEF storeVars
  <1> QED BY <1>2, <1>3 DEF Read

(* The evaluation: no match in what was read, so none in the store.        *)
LEMMA EvalUpToDate ==
  ASSUME WakeupInv, NEW w \in Watcher, Eval(w)
  PROVE  \A v \in Watcher : UpToDate(v)'
  <1>1. /\ TypeInv /\ UpToDate(w) /\ call[w].pc = "eval"
        /\ UNCHANGED <<storeVars, held, cancelled>>
    BY DEF WakeupInv, Eval, At
  <1>2. CASE Matches(call[w].got)
    <2>1. call'[w].pc = "return" /\ \A v \in Watcher : v # w => call'[v] = call[v]
      BY <1>1, <1>2, AnswerEffect DEF Eval
    <2> QED BY <1>1, <2>1, OutsideLoop DEF storeVars, InLoop
  <1>3. CASE ~Matches(call[w].got)
    <2>1. Unsettled(w, 0)
      BY <1>3 DEF Eval
    <2>2. /\ call'[w].pc = "select" /\ call'[w].req = call[w].req
          /\ \A v \in Watcher : v # w => call'[v] = call[v]
      BY <1>1, <2>1, UnsettledEffect
    <2>3. PaneOf(w)' = PaneOf(w) /\ ModeOf(w)' = ModeOf(w) /\ Bytes(w)' = Bytes(w)
      BY <1>1, <2>2 DEF PaneOf, ModeOf, Bytes, storeVars
    <2>4. ModeOf(w) \in MatchMode
      BY <1>1 DEF TypeInv, HandlerOK
    <2>5. ASSUME Unsignalled(w)' PROVE Conclusion(w)'
      <3>1. Unsignalled(w)
        BY <1>1, <2>5 DEF Unsignalled, storeVars
      <3>2. Conclusion(w) /\ call[w].got = Bytes(w)
        BY <1>1, <3>1 DEF UpToDate, Conclusion, InLoop
      <3> QED BY <1>1, <1>3, <2>2, <2>3, <2>4, <3>2 DEF Conclusion, Known, MatchMode, storeVars
    <2> QED BY <1>1, <2>2, <2>5, InsideLoop DEF storeVars
  <1> QED BY <1>2, <1>3

(* LastAppend, read under the lock, and the formula computed from it. *)
LEMMA RefUpToDate ==
  ASSUME WakeupInv, NEW w \in Watcher, Ref(w)
  PROVE  \A v \in Watcher : UpToDate(v)'
  <1> DEFINE since == QuietSince(w)
  <1>1. /\ TypeInv /\ UpToDate(w) /\ call[w].pc = "ref"
        /\ UNCHANGED <<storeVars, held, cancelled>>
        /\ call' = [call EXCEPT ![w].pc = "elapsed", ![w].ref = since]
    BY DEF WakeupInv, Ref, At
  <1>2. /\ call'[w].pc = "elapsed" /\ call'[w].req = call[w].req /\ call'[w].ref = since
        /\ \A v \in Watcher : v # w => call'[v] = call[v]
    <2> HIDE DEF since
    <2> QED BY <1>1 DEF TypeInv, TypeOK, CallType
  <1>3. PaneOf(w)' = PaneOf(w) /\ QuietSince(w)' = since
    BY <1>1, <1>2 DEF PaneOf, QuietSince, LastAppend, BufferOf, Known, storeVars
  <1>4. ASSUME Unsignalled(w)' PROVE Conclusion(w)'
    <2>1. Conclusion(w)
      BY <1>1, <1>4 DEF UpToDate, Unsignalled, InLoop, storeVars
    <2> HIDE DEF since
    <2> QED BY <1>1, <1>2, <1>3, <2>1 DEF Conclusion, Known, storeVars
  <1> QED
    <2> HIDE DEF since
    <2> QED BY <1>1, <1>2, <1>4, InsideLoop DEF storeVars

LEMMA ElapsedUpToDate ==
  ASSUME WakeupInv, NEW w \in Watcher, Elapsed(w)
  PROVE  \A v \in Watcher : UpToDate(v)'
  <1>1. /\ TypeInv /\ UpToDate(w) /\ call[w].pc = "elapsed"
        /\ UNCHANGED <<storeVars, held, cancelled>>
    BY DEF WakeupInv, Elapsed, At
  <1>2. ModeOf(w) = "quiescence" /\ ModeOf(w) \notin MatchMode
    BY <1>1 DEF TypeInv, HandlerOK, MatchMode
  <1>3. ASSUME Unsignalled(w)' PROVE Conclusion(w) /\ call[w].ref = QuietSince(w)
    <2>1. Unsignalled(w)
      BY <1>1, <1>3 DEF Unsignalled, storeVars
    <2> QED BY <1>1, <2>1 DEF UpToDate, Conclusion, InLoop
  <1>4. CASE IsQuiet(w)
    <2>1. Goto(w, "mint") /\ now - call[w].ref >= call[w].req.arg
      BY <1>4 DEF Elapsed, IsQuiet
    <2>2. call'[w] = [call[w] EXCEPT !.pc = "mint"] /\ \A v \in Watcher : v # w => call'[v] = call[v]
      BY <1>1, <2>1 DEF Goto, TypeInv, TypeOK
    <2>3. call'[w].pc = "mint" /\ call'[w].req = call[w].req /\ call'[w].ref = call[w].ref
      BY <1>1, <2>2 DEF TypeInv, TypeOK, CallType
    <2>4. PaneOf(w)' = PaneOf(w) /\ QuietSince(w)' = QuietSince(w)
      BY <1>1, <2>3 DEF PaneOf, QuietSince, LastAppend, BufferOf, Known, storeVars
    <2>5. Unsignalled(w)' => Conclusion(w)'
      BY <1>1, <1>3, <2>1, <2>3, <2>4 DEF Conclusion, Known, storeVars
    <2> QED BY <1>1, <2>2, <2>5, InsideLoop DEF storeVars
  <1>5. CASE ~IsQuiet(w)
    <2> DEFINE until == call[w].ref + call[w].req.arg
    <2>1. Unsettled(w, until)
      BY <1>5 DEF Elapsed
    <2>2. /\ call'[w].pc = "select" /\ call'[w].req = call[w].req /\ call'[w].quietAt = until
          /\ \A v \in Watcher : v # w => call'[v] = call[v]
      <3> HIDE DEF until
      <3> QED BY <1>1, <2>1, UnsettledEffect
    <2>3. PaneOf(w)' = PaneOf(w) /\ ModeOf(w)' = ModeOf(w) /\ QuietSince(w)' = QuietSince(w)
      BY <1>1, <2>2 DEF PaneOf, ModeOf, QuietSince, LastAppend, BufferOf, Known, storeVars
    <2>4. Unsignalled(w)' => Conclusion(w)'
      BY <1>1, <1>2, <1>3, <2>2, <2>3 DEF Conclusion, Known, storeVars
    <2> QED BY <1>1, <2>2, <2>4, InsideLoop DEF storeVars
  <1> QED BY <1>4, <1>5

LEMMA ParkUpToDate ==
  ASSUME WakeupInv, NEW w \in Watcher, Park(w)
  PROVE  \A v \in Watcher : UpToDate(v)'
  <1>1. /\ TypeInv /\ UpToDate(w) /\ call[w].pc = "select" /\ ~sig[w]
        /\ Goto(w, "parked") /\ parked' = parked \cup {w}
        /\ UNCHANGED <<bufs, watching, sig, now, held, cancelled>>
    BY DEF WakeupInv, Park, At
  <1>2. call'[w] = [call[w] EXCEPT !.pc = "parked"] /\ \A v \in Watcher : v # w => call'[v] = call[v]
    BY <1>1 DEF Goto, TypeInv, TypeOK
  <1>3. call'[w].pc = "parked" /\ call'[w].req = call[w].req /\ call'[w].quietAt = call[w].quietAt
    BY <1>1, <1>2 DEF TypeInv, TypeOK, CallType
  <1>4. /\ PaneOf(w)' = PaneOf(w) /\ ModeOf(w)' = ModeOf(w)
        /\ Bytes(w)' = Bytes(w) /\ QuietSince(w)' = QuietSince(w)
    BY <1>1, <1>3 DEF PaneOf, ModeOf, Bytes, QuietSince, LastAppend, BufferOf, Known
  <1>5. Conclusion(w)
    BY <1>1 DEF UpToDate, Unsignalled, InLoop
  <1>6. Conclusion(w)'
    BY <1>1, <1>3, <1>4, <1>5 DEF Conclusion, Known
  <1> QED BY <1>1, <1>2, <1>6, InsideLoop

(* The clock, a cancellation and a stutter. *)
LEMMA ClockUpToDate ==
  ASSUME WakeupInv, Tick \/ Cancel \/ UNCHANGED vars
  PROVE  \A v \in Watcher : UpToDate(v)'
  <1>1. UNCHANGED <<bufs, sig, parked, call, held>>
    BY DEF Tick, Cancel, vars, storeVars
  <1>2. now' \in Nat /\ now <= now'
    BY DEF Tick, Cancel, vars, storeVars, WakeupInv, TypeInv, TypeOK, StoreTypeOK
  <1> SUFFICES ASSUME NEW v \in Watcher PROVE UpToDate(v)'
    OBVIOUS
  <1>3. Unsignalled(v)' => Unsignalled(v)
    BY <1>1 DEF Unsignalled
  <1> QED BY <1>1, <1>2, <1>3, UpToDateFrame DEF Known

LEMMA WakeupInit == Init => WakeupInv
  <1> SUFFICES ASSUME Init PROVE WakeupInv
    OBVIOUS
  <1>1. \A w \in Watcher : call[w].pc = "idle"
    BY DEF Init, Idle
  <1> QED BY <1>1, TypeInit DEF WakeupInv, UpToDate, InLoop

LEMMA WakeupNext == ASSUME WakeupInv, [Next]_vars PROVE WakeupInv'
  <1>1. TypeInv'
    BY TypeNext DEF WakeupInv
  <1>2. ASSUME NEW w \in Watcher, Call(w) \/ Capture(w) \/ HandlerStep(w)
        PROVE  \A v \in Watcher : UpToDate(v)'
    BY <1>2, EnterUpToDate, TokenUpToDate, LeaveUpToDate, ReadUpToDate, EvalUpToDate,
       RefUpToDate, ElapsedUpToDate, ParkUpToDate DEF HandlerStep
  <1>3. ASSUME Drain PROVE \A v \in Watcher : UpToDate(v)'
    BY <1>3, DrainUpToDate DEF Drain
  <1>4. \A v \in Watcher : UpToDate(v)'
    BY <1>2, <1>3, ClockUpToDate DEF Next
  <1> QED BY <1>1, <1>4 DEF WakeupInv

LEMMA WakeupAlways == Spec => []WakeupInv
  <1>1. WakeupInv /\ [Next]_vars => WakeupInv'
    BY WakeupNext
  <1> QED BY <1>1, WakeupInit, PTL DEF Spec

-----------------------------------------------------------------------------
(* A parked handler's conclusion is the whole of ParkedSawEverything and   *)
(* of ParkedTimerIsCurrent.                                                *)
LEMMA ParkedConclusion ==
  ASSUME WakeupInv, NEW w \in parked
  PROVE  w \in Watcher /\ call[w].pc = "parked" /\ Conclusion(w)
  <1>1. w \in Watcher /\ HandlerOK(w) /\ UpToDate(w)
    BY DEF WakeupInv, TypeInv, TypeOK, StoreTypeOK
  <1> QED BY <1>1 DEF HandlerOK, UpToDate, Unsignalled, InLoop

(* No wait ever sleeps in its select over a match, an eviction of its      *)
(* checkpoint or the closure of its pane (wait.go:111-114, 207-214;        *)
(* store.go:96-123), for any number of panes, agents and appends.          *)
THEOREM NoLostWakeup == Spec => []ParkedSawEverything
  <1>1. WakeupInv => ParkedSawEverything
    BY ParkedConclusion DEF ParkedSawEverything, NothingToSee, Conclusion, Bytes
  <1> QED BY <1>1, WakeupAlways, PTL

(* A quiescence wait that sleeps has set its timer by the newest append    *)
(* (wait.go:168-196).                                                      *)
THEOREM TimerCurrent == Spec => []ParkedTimerIsCurrent
  <1>1. WakeupInv => ParkedTimerIsCurrent
    BY ParkedConclusion DEF ParkedTimerIsCurrent, Conclusion
  <1> QED BY <1>1, WakeupAlways, PTL

(* A quiescence wait about to report success is right about the pane, or   *)
(* has been signalled since (wait.go:170-175).                             *)
THEOREM QuietSound == Spec => []QuietUnlessSignalled
  <1>1. ASSUME WakeupInv, NEW w \in Watcher, At(w, "mint"), ~sig[w]
        PROVE  Known(PaneOf(w)) /\ now - QuietSince(w) >= call[w].req.arg
    <2>1. Conclusion(w)
      BY <1>1 DEF WakeupInv, UpToDate, Unsignalled, InLoop, At
    <2> QED BY <1>1, <2>1 DEF Conclusion, At
  <1>2. WakeupInv => QuietUnlessSignalled
    BY <1>1 DEF QuietUnlessSignalled
  <1> QED BY <1>2, WakeupAlways, PTL

-----------------------------------------------------------------------------
(* Right answers. *)
Ours(w) == held[w].inst = Instance /\ held[w].pane = PaneOf(w)

NextStands(w) == call[w].next.off = held[w].off + Len(call[w].got)

(* The strengthening: behind the check the token is ours, and from the     *)
(* Read to the end of the evaluation next and got belong together.  It is  *)
(* about a handler and its agent's token alone, not about the store.       *)
AnswerOK(w) ==
    /\ call[w].pc \in {"capture", "snap"} => ModeOf(w) = "snapshot"
    /\ call[w].pc \in InLoop \cup {"read"} => Ours(w)
    /\ call[w].pc = "eval" => NextStands(w)
    /\ Succeeded(w) /\ ModeOf(w) # "snapshot" => Ours(w)
    /\ Succeeded(w) /\ ModeOf(w) \in MatchMode \cup {"read"} => NextStands(w)

AnswersInv == TypeInv /\ \A w \in Watcher : AnswerOK(w)

LEMMA AnswerFrame ==
  ASSUME NEW v \in Watcher, AnswerOK(v), call'[v] = call[v], held'[v] = held[v]
  PROVE  AnswerOK(v)'
  BY DEF AnswerOK, Ours, NextStands, Succeeded, At, ModeOf, PaneOf

(* A step of w leaves the other handlers in order. *)
LEMMA OthersAnswer ==
  ASSUME AnswersInv, NEW w \in Watcher, AnswerOK(w)',
         \A v \in Watcher : v # w => call'[v] = call[v] /\ held'[v] = held[v]
  PROVE  \A v \in Watcher : AnswerOK(v)'
  BY AnswerFrame DEF AnswersInv

-----------------------------------------------------------------------------
(* The ways a handler moves on. *)
LEMMA GotoAnswer ==
  ASSUME AnswersInv, NEW w \in Watcher,
         NEW label \in {"snap", "check", "read", "mint", "parked"},
         Goto(w, label), UNCHANGED held,
         label = "snap" => ModeOf(w) = "snapshot",
         label \in {"read", "mint", "parked"} => Ours(w)
  PROVE  \A v \in Watcher : AnswerOK(v)'
  <1>1. /\ call'[w].pc = label /\ call'[w].req = call[w].req
        /\ \A v \in Watcher : v # w => call'[v] = call[v]
    BY DEF AnswersInv, TypeInv, TypeOK, CallType, Goto
  <1>2. AnswerOK(w)'
    BY <1>1 DEF AnswerOK, Ours, Succeeded, At, ModeOf, PaneOf, InLoop
  <1> QED BY <1>1, <1>2, OthersAnswer

LEMMA FailAnswer ==
  ASSUME AnswersInv, NEW w \in Watcher, NEW code, code # "OK", Fail(w, code), UNCHANGED held
  PROVE  \A v \in Watcher : AnswerOK(v)'
  <1>1. /\ call'[w].pc = "return" /\ call'[w].code = code
        /\ \A v \in Watcher : v # w => call'[v] = call[v]
    BY AnswerEffect DEF AnswersInv, Fail
  <1>2. AnswerOK(w)'
    BY <1>1 DEF AnswerOK, Succeeded, At, InLoop
  <1> QED BY <1>1, <1>2, OthersAnswer

LEMMA UnsettledAnswer ==
  ASSUME AnswersInv, NEW w \in Watcher, NEW at, Unsettled(w, at), Ours(w), UNCHANGED held
  PROVE  \A v \in Watcher : AnswerOK(v)'
  <1>1. /\ call'[w].pc = "select" /\ call'[w].req = call[w].req
        /\ \A v \in Watcher : v # w => call'[v] = call[v]
    BY DEF AnswersInv, TypeInv, TypeOK, CallType, Unsettled
  <1>2. AnswerOK(w)'
    BY <1>1 DEF AnswerOK, Ours, Succeeded, At, ModeOf, PaneOf, InLoop
  <1> QED BY <1>1, <1>2, OthersAnswer

-----------------------------------------------------------------------------
(* One lemma per step, or per group of steps. *)
LEMMA CallAnswer ==
  ASSUME AnswersInv, NEW w \in Watcher, Call(w)
  PROVE  \A v \in Watcher : AnswerOK(v)'
  <1>1. PICK r \in Requests :
          /\ call' = [call EXCEPT ![w].req = r, ![w].code = Rejection(r, held[w]),
                                  ![w].pc = IF Rejection(r, held[w]) = "none"
                                            THEN FirstStep(r.mode) ELSE "return"]
          /\ UNCHANGED held
    BY DEF Call
  <1> DEFINE code == Rejection(r, held[w])
             label == IF code = "none" THEN FirstStep(r.mode) ELSE "return"
  <1>2. /\ call'[w].pc = label /\ call'[w].req = r /\ call'[w].code = code
        /\ \A v \in Watcher : v # w => call'[v] = call[v]
    <2> HIDE DEF code, label
    <2> QED BY <1>1 DEF code, label, AnswersInv, TypeInv, TypeOK, CallType
  <1>3. code # "OK"
    BY DEF Rejection
  <1>4. label \in {"capture", "check", "watch", "return"}
        /\ (label = "capture" => r.mode = "snapshot")
    BY DEF FirstStep
  <1>5. AnswerOK(w)'
    <2> HIDE DEF code, label
    <2> QED BY <1>2, <1>3, <1>4 DEF AnswerOK, Succeeded, At, ModeOf, InLoop
  <1> QED BY <1>1, <1>2, <1>5, OthersAnswer

LEMMA SnapshotAnswer ==
  ASSUME AnswersInv, NEW w \in Watcher, Capture(w) \/ SnapToken(w)
  PROVE  \A v \in Watcher : AnswerOK(v)'
  <1>1. ModeOf(w) = "snapshot" /\ UNCHANGED held
    BY DEF AnswersInv, AnswerOK, Capture, SnapToken, At
  <1>2. CASE Goto(w, "snap")
    BY <1>1, <1>2, GotoAnswer
  <1>3. ASSUME NEW code \in {"PANE_NOT_FOUND", "RUNTIME"}, Fail(w, code)
        PROVE  \A v \in Watcher : AnswerOK(v)'
    BY <1>1, <1>3, FailAnswer
  <1>4. ASSUME NEW tok, Answer(w, "OK", tok) PROVE \A v \in Watcher : AnswerOK(v)'
    <2>1. /\ call'[w].pc = "return" /\ call'[w].req = call[w].req
          /\ \A v \in Watcher : v # w => call'[v] = call[v]
      BY <1>4, AnswerEffect DEF AnswersInv
    <2>2. AnswerOK(w)'
      BY <1>1, <2>1 DEF AnswerOK, Succeeded, At, ModeOf, InLoop, MatchMode
    <2> QED BY <1>1, <2>1, <2>2, OthersAnswer
  <1> QED BY <1>2, <1>3, <1>4 DEF Capture, SnapToken

LEMMA WatchAnswer ==
  ASSUME AnswersInv, NEW w \in Watcher, Watch(w)
  PROVE  \A v \in Watcher : AnswerOK(v)'
  <1>1. /\ call'[w].pc = "check" /\ UNCHANGED held
        /\ \A v \in Watcher : v # w => call'[v] = call[v]
    BY DEF Watch, AnswersInv, TypeInv, TypeOK, CallType
  <1>2. AnswerOK(w)'
    BY <1>1 DEF AnswerOK, Succeeded, At, InLoop
  <1> QED BY <1>1, <1>2, OthersAnswer

LEMMA ReadFailsAnswer ==
  ASSUME AnswersInv, NEW w \in Watcher, NEW outcome, ReadFails(w, outcome), UNCHANGED held
  PROVE  \A v \in Watcher : AnswerOK(v)'
  <1>1. PICK code \in {"PANE_CLOSED", "PANE_NOT_FOUND", "INVALID_AFTER"} : Fail(w, code)
    BY DEF ReadFails, UnknownCode
  <1> QED BY <1>1, FailAnswer

(* The check lets only tokens of this controller and this pane through. *)
LEMMA CheckAnswer ==
  ASSUME AnswersInv, NEW w \in Watcher, Check(w)
  PROVE  \A v \in Watcher : AnswerOK(v)'
  <1>1. UNCHANGED held
    BY DEF Check
  <1>2. CASE ReadCheck(PaneOf(w), held[w]) = "ok" /\ Goto(w, "read")
    <2>1. Ours(w)
      BY <1>2 DEF ReadCheck, Ours
    <2> QED BY <1>1, <1>2, <2>1, GotoAnswer
  <1> QED BY <1>1, <1>2, ReadFailsAnswer DEF Check

(* The Read returns the bytes between the token's offset and next's. *)
LEMMA ReadAnswer ==
  ASSUME AnswersInv, NEW w \in Watcher, Read(w)
  PROVE  \A v \in Watcher : AnswerOK(v)'
  <1> DEFINE p == PaneOf(w)
             mode == ModeOf(w)
             code == IF mode = "read" THEN "OK" ELSE "none"
             bytes == BufferRead(bufs[p], held[w].off)
             next == TokenAt(p, bufs[p].end)
  <1>1. TypeInv /\ call[w].pc = "read" /\ UNCHANGED held /\ Ours(w)
    BY DEF AnswersInv, AnswerOK, Read, At
  <1>2. CASE ReadFails(w, ReadResult(p, held[w]))
    BY <1>1, <1>2, ReadFailsAnswer
  <1>3. CASE /\ ReadResult(p, held[w]) = "ok"
             /\ call' = [call EXCEPT ![w].pc = AfterRead(mode), ![w].known = mode # "read",
                                     ![w].code = code, ![w].got = bytes, ![w].next = next]
    <2>1. p \in DOMAIN bufs /\ InWindow(bufs[p], held[w].off)
      BY <1>3 DEF ReadResult, Known
    <2>2. bufs[p] \in ValidBuffer /\ held[w] \in Token
      BY <1>1, <2>1 DEF TypeInv, TypeOK, StoreTypeOK, HandlerOK
    <2>3. Len(bytes) = bufs[p].end - held[w].off
      BY <2>1, <2>2, TokenFields, ReadType
    <2>4. next.off = held[w].off + Len(bytes)
      <3>1. bufs[p].end \in Nat /\ held[w].off \in Nat /\ next.off = bufs[p].end
        BY <2>2, TokenFields DEF ValidBuffer, BufferType, TokenAt
      <3> HIDE DEF bytes, next, p
      <3> QED BY <2>3, <3>1
    <2>5. /\ call'[w].pc = AfterRead(mode) /\ call'[w].req = call[w].req
          /\ call'[w].got = bytes /\ call'[w].next = next
          /\ \A v \in Watcher : v # w => call'[v] = call[v]
      <3> HIDE DEF code, bytes, next, mode
      <3> QED BY <1>1, <1>3 DEF TypeInv, TypeOK, CallType
    <2>6. AfterRead(mode) \in {"return", "ref", "eval"}
      BY DEF AfterRead
    <2>7. AnswerOK(w)'
      <3>1. NextStands(w)' /\ Ours(w)'
        <4> HIDE DEF bytes, next
        <4> QED BY <1>1, <2>4, <2>5 DEF NextStands, Ours, PaneOf
      <3> QED BY <2>5, <2>6, <3>1 DEF AnswerOK
    <2> QED
      <3> HIDE DEF bytes, next
      <3> QED BY <1>1, <2>5, <2>7, OthersAnswer
  <1> QED BY <1>2, <1>3 DEF Read

(* A match is answered with the next of the Read it was found in. *)
LEMMA EvalAnswer ==
  ASSUME AnswersInv, NEW w \in Watcher, Eval(w)
  PROVE  \A v \in Watcher : AnswerOK(v)'
  <1>1. call[w].pc = "eval" /\ UNCHANGED held /\ Ours(w) /\ NextStands(w)
    BY DEF Eval, At, AnswersInv, AnswerOK, InLoop
  <1>2. CASE Answer(w, "OK", call[w].next)
    <2>1. /\ call'[w].pc = "return" /\ call'[w].next = call[w].next
          /\ call'[w].req = call[w].req /\ call'[w].got = call[w].got
          /\ \A v \in Watcher : v # w => call'[v] = call[v]
      BY <1>2, AnswerEffect DEF AnswersInv
    <2>2. Ours(w)' /\ NextStands(w)'
      BY <1>1, <2>1 DEF Ours, NextStands, PaneOf
    <2>3. AnswerOK(w)'
      BY <2>1, <2>2 DEF AnswerOK
    <2> QED BY <1>1, <2>1, <2>3, OthersAnswer
  <1> QED BY <1>1, <1>2, UnsettledAnswer DEF Eval, MatchedNext

(* Quiescence: its next is a new token, and its mode is not a match's. *)
LEMMA QuietAnswer ==
  ASSUME AnswersInv, NEW w \in Watcher, Ref(w) \/ Elapsed(w) \/ QuietToken(w)
  PROVE  \A v \in Watcher : AnswerOK(v)'
  <1>1. /\ call[w].pc \in {"ref", "elapsed", "mint"} /\ ModeOf(w) = "quiescence"
        /\ UNCHANGED held /\ Ours(w)
    BY DEF Ref, Elapsed, QuietToken, At, AnswersInv, TypeInv, HandlerOK, AnswerOK, InLoop
  <1>2. CASE Ref(w)
    <2>1. /\ call'[w].pc = "elapsed" /\ call'[w].req = call[w].req
          /\ \A v \in Watcher : v # w => call'[v] = call[v]
      BY <1>2 DEF Ref, AnswersInv, TypeInv, TypeOK, CallType
    <2>2. AnswerOK(w)'
      BY <1>1, <2>1 DEF AnswerOK, Ours, Succeeded, At, ModeOf, PaneOf, InLoop
    <2> QED BY <1>1, <2>1, <2>2, OthersAnswer
  <1>3. CASE Elapsed(w)
    BY <1>1, <1>3, GotoAnswer, UnsettledAnswer DEF Elapsed
  <1>4. CASE QuietToken(w)
    <2>1. /\ call'[w].pc = "return" /\ call'[w].req = call[w].req
          /\ \A v \in Watcher : v # w => call'[v] = call[v]
      BY <1>4, AnswerEffect DEF AnswersInv, QuietToken
    <2>2. AnswerOK(w)'
      BY <1>1, <2>1 DEF AnswerOK, Ours, Succeeded, At, ModeOf, PaneOf, InLoop, MatchMode
    <2> QED BY <1>1, <2>1, <2>2, OthersAnswer
  <1> QED BY <1>2, <1>3, <1>4

LEMMA SelectAnswer ==
  ASSUME AnswersInv, NEW w \in Watcher,
         Park(w) \/ TakeSignal(w) \/ TakeQuiet(w) \/ TakeTimeout(w) \/ TakeCancel(w)
  PROVE  \A v \in Watcher : AnswerOK(v)'
  <1>1. call[w].pc \in {"select", "parked"} /\ UNCHANGED held /\ Ours(w)
    BY DEF Park, TakeSignal, TakeQuiet, TakeTimeout, TakeCancel, Selecting, Unpark, At,
           AnswersInv, AnswerOK, InLoop
  <1>2. CASE Goto(w, "parked") \/ Goto(w, "check")
    BY <1>1, <1>2, GotoAnswer
  <1>3. CASE Fail(w, "TIMEOUT") \/ Fail(w, "RUNTIME")
    BY <1>1, <1>3, FailAnswer
  <1> QED BY <1>2, <1>3 DEF Park, TakeSignal, TakeQuiet, TakeTimeout, TakeCancel

LEMMA ReturnAnswer ==
  ASSUME AnswersInv, NEW w \in Watcher, Return(w)
  PROVE  \A v \in Watcher : AnswerOK(v)'
  <1>1. /\ call'[w].pc = "idle"
        /\ \A v \in Watcher : v # w => call'[v] = call[v] /\ held'[v] = held[v]
    BY DEF Return, Idle, AnswersInv, TypeInv, TypeOK
  <1>2. AnswerOK(w)'
    BY <1>1 DEF AnswerOK, Succeeded, At, InLoop
  <1> QED BY <1>1, <1>2, OthersAnswer

-----------------------------------------------------------------------------
LEMMA AnswersInit == Init => AnswersInv
  <1> SUFFICES ASSUME Init PROVE AnswersInv
    OBVIOUS
  <1>1. \A w \in Watcher : call[w].pc = "idle"
    BY DEF Init, Idle
  <1> QED BY <1>1, TypeInit DEF AnswersInv, AnswerOK, Succeeded, At, InLoop

LEMMA AnswersNext == ASSUME AnswersInv, [Next]_vars PROVE AnswersInv'
  <1>1. TypeInv'
    BY TypeNext DEF AnswersInv
  <1>2. ASSUME NEW w \in Watcher, Call(w) \/ Capture(w) \/ HandlerStep(w)
        PROVE  \A v \in Watcher : AnswerOK(v)'
    BY <1>2, CallAnswer, SnapshotAnswer, WatchAnswer, CheckAnswer, ReadAnswer, EvalAnswer,
       QuietAnswer, SelectAnswer, ReturnAnswer DEF HandlerStep
  <1>3. ASSUME Drain \/ Tick \/ Cancel \/ UNCHANGED vars
        PROVE  \A v \in Watcher : AnswerOK(v)'
    <2>1. call' = call /\ held' = held
      BY <1>3 DEF Drain, DrainData, DrainClosed, Tick, Cancel, vars
    <2> QED BY <2>1, AnswerFrame DEF AnswersInv
  <1> QED BY <1>1, <1>2, <1>3 DEF Next, AnswersInv

LEMMA AnswersAlways == Spec => []AnswersInv
  <1>1. AnswersInv /\ [Next]_vars => AnswersInv'
    BY AnswersNext
  <1> QED BY <1>1, AnswersInit, PTL DEF Spec

(* No read, match or quiescence is ever answered against the token of      *)
(* another pane or of another controller (store.go:199-210), for any       *)
(* number of panes and agents and whatever happens to the pane between the *)
(* two critical sections of Store.Read.                                    *)
THEOREM ServedTokensAreOurs == Spec => []ServedTokenIsOurs
  <1>1. AnswersInv => ServedTokenIsOurs
    BY DEF AnswersInv, AnswerOK, ServedTokenIsOurs, Ours
  <1> QED BY <1>1, AnswersAlways, PTL

(* The next of a read or of a match neither skips nor repeats a byte       *)
(* (wait.go:132-166, read.go:18-46), for any output and any capacity.      *)
THEOREM NextIsExact == Spec => []NextStandsBehindWhatWasSeen
  <1>1. AnswersInv => NextStandsBehindWhatWasSeen
    BY DEF AnswersInv, AnswerOK, NextStandsBehindWhatWasSeen, NextStands
  <1> QED BY <1>1, AnswersAlways, PTL

-----------------------------------------------------------------------------
(* The pane of a token has had a buffer ever since, unless it has been     *)
(* destroyed, and the token's position has been reached.                   *)
Stands(t) == Known(t.pane) /\ t.off <= bufs[t.pane].end

Traced(w, what, t) == t # NoToken /\ t.inst = Instance => what \in destroyed[w] \/ Stands(t)

(* paneKnownAtStart is true of a wait's pane from the first Read on.       *)
KnownOK(w) ==
    /\ call[w].known => /\ ModeOf(w) \in WaitMode
                        /\ call[w].pc \in InLoop \cup {"check", "read", "return"}
    /\ call[w].known /\ call[w].pc # "return" => "watch" \in destroyed[w] \/ Known(PaneOf(w))

Earned(w) ==
    /\ Failed(w, "PANE_CLOSED") => "watch" \in destroyed[w]
    /\ Failed(w, "PANE_NOT_FOUND") /\ OwnToken(w) => "held" \in destroyed[w]
    /\ Failed(w, "INVALID_AFTER") /\ OwnToken(w) =>
           \/ "held" \in destroyed[w]
           \/ Known(PaneOf(w)) /\ held[w].off < bufs[PaneOf(w)].start

Kept(w) == /\ Traced(w, "held", held[w]) /\ Traced(w, "next", call[w].next)
           /\ KnownOK(w) /\ Earned(w)

What == {"watch", "held", "next"}

ClosuresInv ==
    /\ AnswersInv
    /\ plan \in Plan
    /\ destroyed \in [Watcher -> SUBSET What]
    /\ \A w \in Watcher : Kept(w)

(* Buffers stay, and move forward. *)
BufsGrow == \A p \in DOMAIN bufs :
    /\ p \in DOMAIN bufs' /\ bufs'[p].start \in Nat /\ bufs'[p].end \in Nat
    /\ bufs'[p].start >= bufs[p].start /\ bufs'[p].end >= bufs[p].end

-----------------------------------------------------------------------------
LEMMA TypedBuffer ==
  ASSUME AnswersInv, NEW p \in DOMAIN bufs
  PROVE  p \in Pane /\ bufs[p] \in ValidBuffer /\ bufs[p].start \in Nat /\ bufs[p].end \in Nat
  BY DEF AnswersInv, TypeInv, TypeOK, StoreTypeOK, ValidBuffer, BufferType

LEMMA TypedTokens ==
  ASSUME AnswersInv, NEW w \in Watcher
  PROVE  /\ held[w] # NoToken => held[w] \in Token /\ held[w].off \in Nat
         /\ call[w].next # NoToken => call[w].next \in Token /\ call[w].next.off \in Nat
  <1>1. held[w] \in Token \cup {NoToken} /\ call[w].next \in Token \cup {NoToken}
    BY DEF AnswersInv, TypeInv, TypeOK, CallType
  <1> QED BY <1>1, TokenFields

(* Eviction only moves the start of the window forward. *)
LEMMA EvictForward ==
  ASSUME NEW low \in Nat, NEW high \in Nat
  PROVE  Evict(low, high) \in Nat /\ Evict(low, high) >= low
  BY CapacityAssumption DEF Evict

LEMMA AppendForward ==
  ASSUME NEW b \in ValidBuffer, NEW p \in Seq(Byte), NEW time \in Nat
  PROVE  /\ BufferAppend(b, p, time).end >= b.end
         /\ BufferAppend(b, p, time).start >= b.start
  <1>0. b.start \in Nat /\ b.end \in Nat /\ Len(p) \in Nat
    BY LenProperties DEF ValidBuffer, BufferType
  <1>1. BufferAppend(b, p, time).end >= b.end
    BY <1>0, AppendValid
  <1>2. CASE p = <<>>
    BY <1>0, <1>1, <1>2 DEF BufferAppend
  <1>3. CASE p # <<>>
    <2> DEFINE dropped == IF Len(p) > Capacity THEN Len(p) - Capacity ELSE 0
               tail == SubSeq(p, dropped + 1, Len(p))
               from == b.end + dropped
               start == Evict(b.start, from)
    <2>1. dropped \in Nat /\ dropped <= Len(p)
      BY <1>0, CapacityAssumption
    <2>2. from \in Nat
      BY <1>0, <2>1
    <2>3. Len(tail) \in Nat
      BY <1>0, <2>1, SliceType
    <2>4. start \in Nat /\ start >= b.start
      <3> HIDE DEF from
      <3> QED BY <1>0, <2>2, EvictForward
    <2>5. BufferAppend(b, p, time).start = Evict(start, from + Len(tail))
      BY <1>3 DEF BufferAppend, AppendNonEmpty
    <2>6. from + Len(tail) \in Nat
      <3> HIDE DEF from, tail
      <3> QED BY <2>2, <2>3
    <2>7. Evict(start, from + Len(tail)) >= start /\ Evict(start, from + Len(tail)) \in Nat
      <3> DEFINE high == from + Len(tail)
      <3> HIDE DEF start, high
      <3>1. high \in Nat
        BY <2>6 DEF high
      <3> QED BY <2>4, <3>1, EvictForward DEF high
    <2> HIDE DEF start, from, tail
    <2> QED BY <1>0, <1>1, <2>4, <2>5, <2>7
  <1> QED BY <1>2, <1>3

-----------------------------------------------------------------------------
LEMMA StandsOn ==
  ASSUME ClosuresInv, BufsGrow, NEW t, Stands(t), t.off \in Nat
  PROVE  t.pane \in DOMAIN bufs' /\ t.off <= bufs'[t.pane].end
  <1>1. t.pane \in DOMAIN bufs /\ t.off <= bufs[t.pane].end
    BY DEF Stands, Known
  <1>2. bufs[t.pane].end \in Nat
    BY <1>1, TypedBuffer DEF ClosuresInv
  <1>3. t.pane \in DOMAIN bufs' /\ bufs'[t.pane].end \in Nat /\ bufs'[t.pane].end >= bufs[t.pane].end
    BY <1>1 DEF BufsGrow
  <1> QED BY <1>1, <1>2, <1>3

(* What does not touch a handler leaves it in order. *)
LEMMA KeptFrame ==
  ASSUME ClosuresInv, BufsGrow, NEW v \in Watcher, call'[v] = call[v], held'[v] = held[v],
         destroyed'[v] = destroyed[v]
  PROVE  Kept(v)'
  <1>1. Traced(v, "held", held[v])'
    BY StandsOn, TypedTokens DEF ClosuresInv, Kept, Traced, Stands, Known
  <1>3. Traced(v, "next", call[v].next)'
    BY StandsOn, TypedTokens DEF ClosuresInv, Kept, Traced, Stands, Known
  <1>4. KnownOK(v)'
    BY DEF ClosuresInv, Kept, KnownOK, ModeOf, PaneOf, Known, BufsGrow
  <1>5. Earned(v)'
    <2>1. ASSUME OwnToken(v), Known(PaneOf(v)), held[v].off < bufs[PaneOf(v)].start
          PROVE  Known(PaneOf(v))' /\ held[v].off < bufs'[PaneOf(v)].start
      <3> DEFINE p == PaneOf(v)
      <3>1. p \in DOMAIN bufs /\ bufs[p].start \in Nat /\ held[v].off \in Nat
        BY <2>1, TypedBuffer, TypedTokens DEF ClosuresInv, Known, OwnToken
      <3>2. p \in DOMAIN bufs' /\ bufs'[p].start \in Nat /\ bufs'[p].start >= bufs[p].start
        BY <3>1 DEF BufsGrow
      <3>3. PaneOf(v)' = p
        BY DEF PaneOf
      <3> QED BY <2>1, <3>1, <3>2, <3>3 DEF Known
    <2> QED BY <2>1 DEF ClosuresInv, Kept, Earned, Failed, OwnToken, At, ModeOf, PaneOf, Known
  <1> QED BY <1>1, <1>3, <1>4, <1>5 DEF Kept

(* A step of w's handler, its return apart. *)
LEMMA OwnStep ==
  ASSUME ClosuresInv, NEW w \in Watcher, StepOf(w), BufsGrow, held' = held,
         call[w].pc # "return",
         \A v \in Watcher : v # w => call'[v] = call[v],
         call'[w].next \in {call[w].next, NoToken} \/ Stands(call[w].next)',
         KnownOK(w)', Earned(w)'
  PROVE  \A v \in Watcher : Kept(v)'
  <1>1. \A v \in Watcher : v # w => destroyed'[v] = destroyed[v]
    BY DEF StepOf, ClosuresInv
  <1>2. /\ "held" \in destroyed[w] => "held" \in destroyed'[w]
        /\ "next" \in destroyed[w] /\ call'[w].next = call[w].next => "next" \in destroyed'[w]
    BY DEF StepOf, ClosuresInv, At
  <1>4. Traced(w, "held", held[w])'
    BY <1>2, StandsOn, TypedTokens DEF ClosuresInv, Kept, Traced, Stands, Known
  <1>5. Traced(w, "next", call[w].next)'
    <2>1. CASE call'[w].next = call[w].next
      BY <1>2, <2>1, StandsOn, TypedTokens DEF ClosuresInv, Kept, Traced, Stands, Known
    <2> QED BY <2>1 DEF Traced
  <1>6. Kept(w)'
    BY <1>4, <1>5 DEF Kept
  <1> QED BY <1>1, <1>6, KeptFrame

(* paneKnownAtStart stays true of the pane. *)
LEMMA KnownStep ==
  ASSUME ClosuresInv, NEW w \in Watcher, StepOf(w), BufsGrow, call[w].pc \notin {"watch", "return"},
         call'[w].known = call[w].known, call[w].known => call'[w].req = call[w].req,
         call[w].known => call'[w].pc \in InLoop \cup {"check", "read", "return"}
  PROVE  KnownOK(w)'
  <1>1. "watch" \in destroyed[w] => "watch" \in destroyed'[w]
    BY DEF StepOf, ClosuresInv, At
  <1> QED BY <1>1 DEF ClosuresInv, Kept, KnownOK, ModeOf, PaneOf, Known, BufsGrow

LEMMA SameBufs ==
  ASSUME ClosuresInv, UNCHANGED bufs
  PROVE  BufsGrow
  BY TypedBuffer DEF ClosuresInv, BufsGrow

LEMMA CreateGrows ==
  ASSUME ClosuresInv, NEW p \in Pane, CreateBuffer(p)
  PROVE  BufsGrow /\ p \in DOMAIN bufs' /\ bufs'[p].end = BufferOf(p).end
  <1>1. StoreTypeOK
    BY DEF ClosuresInv, AnswersInv, TypeInv, TypeOK
  <1>2. \A q \in DOMAIN bufs : q \in DOMAIN bufs' /\ bufs'[q] = bufs[q]
    BY <1>1, CreateBufferType
  <1>3. BufsGrow
    BY <1>2, TypedBuffer DEF ClosuresInv, BufsGrow
  <1> QED BY <1>1, <1>3 DEF CreateBuffer, SetBuffer

-----------------------------------------------------------------------------
(* The ways a handler moves on. *)
LEMMA GotoKept ==
  ASSUME ClosuresInv, NEW w \in Watcher, StepOf(w), UNCHANGED <<bufs, held>>,
         NEW label \in {"snap", "check", "read", "mint", "parked"}, Goto(w, label),
         call[w].pc \notin {"watch", "return"}, label = "snap" => call[w].pc = "capture"
  PROVE  \A v \in Watcher : Kept(v)'
  <1>1. /\ call'[w].pc = label /\ call'[w].req = call[w].req
        /\ call'[w].known = call[w].known /\ call'[w].next = call[w].next
        /\ \A v \in Watcher : v # w => call'[v] = call[v]
    BY DEF ClosuresInv, AnswersInv, TypeInv, TypeOK, CallType, Goto
  <1>2. BufsGrow
    BY SameBufs
  <1>3. call[w].known => label \in InLoop \cup {"check", "read"}
    BY DEF ClosuresInv, Kept, KnownOK, InLoop
  <1>4. KnownOK(w)'
    BY <1>1, <1>2, <1>3, KnownStep
  <1>5. Earned(w)'
    BY <1>1 DEF Earned, Failed, At
  <1> QED BY <1>1, <1>2, <1>4, <1>5, OwnStep

Blamed == {"PANE_CLOSED", "PANE_NOT_FOUND", "INVALID_AFTER"}

LEMMA AnswerKept ==
  ASSUME ClosuresInv, NEW w \in Watcher, StepOf(w), BufsGrow, UNCHANGED held,
         NEW code, NEW tok, Answer(w, code, tok), call[w].pc \notin {"watch", "return"},
         \/ tok \in {call[w].next, NoToken}
         \/ tok.pane \in DOMAIN bufs' /\ tok.off <= bufs'[tok.pane].end,
         code \notin Blamed \/ ModeOf(w) = "snapshot" \/ Earned(w)'
  PROVE  \A v \in Watcher : Kept(v)'
  <1>1. /\ call'[w].pc = "return" /\ call'[w].code = code /\ call'[w].next = tok
        /\ call'[w].req = call[w].req /\ call'[w].known = call[w].known
        /\ \A v \in Watcher : v # w => call'[v] = call[v]
    BY DEF ClosuresInv, AnswersInv, TypeInv, TypeOK, CallType, Answer
  <1>2. KnownOK(w)'
    BY <1>1, KnownStep
  <1>3. Earned(w)'
    BY <1>1 DEF Earned, Failed, ModeOf, Blamed
  <1>4. call'[w].next \in {call[w].next, NoToken} \/ Stands(call[w].next)'
    BY <1>1 DEF Stands, Known
  <1> QED BY <1>1, <1>2, <1>3, <1>4, OwnStep

LEMMA UnsettledKept ==
  ASSUME ClosuresInv, NEW w \in Watcher, StepOf(w), UNCHANGED <<bufs, held>>,
         NEW at, Unsettled(w, at), call[w].pc \notin {"watch", "return"}
  PROVE  \A v \in Watcher : Kept(v)'
  <1>1. /\ call'[w].pc = "select" /\ call'[w].next = NoToken
        /\ call'[w].req = call[w].req /\ call'[w].known = call[w].known
        /\ \A v \in Watcher : v # w => call'[v] = call[v]
    BY DEF ClosuresInv, AnswersInv, TypeInv, TypeOK, CallType, Unsettled
  <1>2. BufsGrow
    BY SameBufs
  <1>3. KnownOK(w)'
    BY <1>1, <1>2, KnownStep DEF InLoop
  <1>4. Earned(w)'
    BY <1>1 DEF Earned, Failed, At
  <1> QED BY <1>1, <1>2, <1>3, <1>4, OwnStep

-----------------------------------------------------------------------------
(* One lemma per step, or per group of steps. *)
LEMMA CallKept ==
  ASSUME ClosuresInv, NEW w \in Watcher, StepOf(w), Call(w)
  PROVE  \A v \in Watcher : Kept(v)'
  <1>1. PICK r \in Requests :
          /\ call[w].pc = "idle"
          /\ call' = [call EXCEPT ![w].req = r, ![w].code = Rejection(r, held[w]),
                                  ![w].pc = IF Rejection(r, held[w]) = "none"
                                            THEN FirstStep(r.mode) ELSE "return"]
          /\ UNCHANGED <<bufs, held>>
    BY DEF Call, At, storeVars
  <1> DEFINE code == Rejection(r, held[w])
             label == IF code = "none" THEN FirstStep(r.mode) ELSE "return"
  <1>2. /\ call'[w].code = code /\ call'[w].next = call[w].next /\ call'[w].known = call[w].known
        /\ \A v \in Watcher : v # w => call'[v] = call[v]
    <2> HIDE DEF code, label
    <2> QED BY <1>1 DEF code, label, ClosuresInv, AnswersInv, TypeInv, TypeOK, CallType
  <1>3. code \notin Blamed
    BY DEF Rejection, Blamed
  <1>4. ~call[w].known
    BY <1>1 DEF ClosuresInv, Kept, KnownOK, InLoop
  <1>5. KnownOK(w)' /\ Earned(w)'
    <2> HIDE DEF code
    <2> QED BY <1>2, <1>3, <1>4 DEF KnownOK, Earned, Failed, Blamed
  <1>6. BufsGrow
    BY <1>1, SameBufs
  <1> QED BY <1>1, <1>2, <1>5, <1>6, OwnStep

LEMMA CaptureKept ==
  ASSUME ClosuresInv, NEW w \in Watcher, StepOf(w), Capture(w)
  PROVE  \A v \in Watcher : Kept(v)'
  <1>1. /\ call[w].pc = "capture" /\ ModeOf(w) = "snapshot" /\ UNCHANGED <<bufs, held>>
    BY DEF Capture, At, storeVars, ClosuresInv, AnswersInv, AnswerOK
  <1>2. BufsGrow
    BY <1>1, SameBufs
  <1>3. CASE Goto(w, "snap")
    BY <1>1, <1>3, GotoKept
  <1>4. ASSUME NEW code, Fail(w, code) PROVE \A v \in Watcher : Kept(v)'
    BY <1>1, <1>2, <1>4, AnswerKept DEF Fail
  <1> QED BY <1>3, <1>4 DEF Capture

(* A token is minted behind the pane's last byte, and makes it known. *)
LEMMA MintKept ==
  ASSUME ClosuresInv, NEW w \in Watcher, StepOf(w), SnapToken(w) \/ QuietToken(w)
  PROVE  \A v \in Watcher : Kept(v)'
  <1> DEFINE p == PaneOf(w)
  <1>1. /\ call[w].pc \in {"snap", "mint"} /\ CreateBuffer(p) /\ UNCHANGED held
        /\ call[w].pc = "snap" => ModeOf(w) = "snapshot"
    BY DEF SnapToken, QuietToken, At, ClosuresInv, AnswersInv, AnswerOK
  <1>2. p \in Pane
    BY <1>1, RequestOf DEF ClosuresInv, AnswersInv
  <1>3. BufsGrow /\ p \in DOMAIN bufs' /\ bufs'[p].end = BufferOf(p).end
    BY <1>1, <1>2, CreateGrows
  <1>4. BufferOf(p).end \in Nat
    BY <1>2, BufferOfValid DEF ClosuresInv, AnswersInv, TypeInv, TypeOK, ValidBuffer, BufferType
  <1>5. CASE Answer(w, "OK", HeadToken(p))
    <2>1. HeadToken(p).pane = p /\ HeadToken(p).off = BufferOf(p).end
      BY DEF HeadToken, TokenAt
    <2>2. HeadToken(p).pane \in DOMAIN bufs' /\ HeadToken(p).off <= bufs'[HeadToken(p).pane].end
      BY <1>3, <1>4, <2>1
    <2> HIDE DEF p
    <2> QED BY <1>1, <1>3, <1>5, <2>2, AnswerKept DEF Blamed
  <1>6. ASSUME NEW code, Fail(w, code), call[w].pc = "snap" PROVE \A v \in Watcher : Kept(v)'
    BY <1>1, <1>3, <1>6, AnswerKept DEF Fail
  <1> QED BY <1>5, <1>6 DEF SnapToken, QuietToken, At

LEMMA WatchKept ==
  ASSUME ClosuresInv, NEW w \in Watcher, StepOf(w), Watch(w)
  PROVE  \A v \in Watcher : Kept(v)'
  <1>1. /\ call[w].pc = "watch" /\ UNCHANGED <<bufs, held>>
        /\ call'[w].pc = "check" /\ call'[w].next = call[w].next /\ call'[w].known = call[w].known
        /\ \A v \in Watcher : v # w => call'[v] = call[v]
    BY DEF Watch, StoreWatch, At, ClosuresInv, AnswersInv, TypeInv, TypeOK, CallType
  <1>2. ~call[w].known
    BY <1>1 DEF ClosuresInv, Kept, KnownOK, InLoop
  <1>3. KnownOK(w)' /\ Earned(w)'
    BY <1>1, <1>2 DEF KnownOK, Earned, Failed, At
  <1> QED BY <1>1, <1>3, SameBufs, OwnStep

(* The codes of a failing Store.Read, and why each is true. *)
LEMMA ReadFailsKept ==
  ASSUME ClosuresInv, NEW w \in Watcher, StepOf(w), UNCHANGED <<bufs, held>>,
         call[w].pc \in {"check", "read"}, NEW outcome, ReadFails(w, outcome),
         outcome = "unknown" => ~Known(PaneOf(w)),
         outcome = "invalid" /\ OwnToken(w) =>
             Known(PaneOf(w)) /\ ~InWindow(bufs[PaneOf(w)], held[w].off)
  PROVE  \A v \in Watcher : Kept(v)'
  <1>0. BufsGrow
    BY SameBufs
  <1>1. PICK code \in Blamed :
          /\ Fail(w, code)
          /\ code \in {"PANE_CLOSED", "PANE_NOT_FOUND"} =>
                 outcome = "unknown" /\ (code = "PANE_CLOSED" => call[w].known)
          /\ code = "INVALID_AFTER" => outcome = "invalid"
    BY DEF ReadFails, UnknownCode, Blamed
  <1>2. /\ call'[w].pc = "return" /\ call'[w].code = code /\ call'[w].req = call[w].req
    BY <1>1 DEF ClosuresInv, AnswersInv, TypeInv, TypeOK, CallType, Answer, Fail
  <1>3. destroyed[w] \cap {"watch", "held"} \subseteq destroyed'[w]
    BY DEF StepOf, At, ClosuresInv
  <1>4. ASSUME code = "PANE_CLOSED" PROVE "watch" \in destroyed'[w]
    BY <1>1, <1>3, <1>4 DEF ClosuresInv, Kept, KnownOK
  <1>5. ASSUME code = "PANE_NOT_FOUND", OwnToken(w) PROVE "held" \in destroyed'[w]
    BY <1>1, <1>3, <1>5 DEF ClosuresInv, Kept, Traced, Stands, OwnToken
  <1>6. ASSUME code = "INVALID_AFTER", OwnToken(w)
        PROVE  "held" \in destroyed'[w] \/ (Known(PaneOf(w)) /\ held[w].off < bufs[PaneOf(w)].start)
    <2> DEFINE p == PaneOf(w)
    <2>1. p \in DOMAIN bufs /\ ~InWindow(bufs[p], held[w].off) /\ held[w].pane = p
      BY <1>1, <1>6 DEF Known, OwnToken
    <2>2. bufs[p].start \in Nat /\ bufs[p].end \in Nat /\ held[w].off \in Nat
      BY <1>6, <2>1, TypedBuffer, TypedTokens DEF ClosuresInv, OwnToken
    <2>3. "held" \in destroyed[w] \/ held[w].off <= bufs[p].end
      BY <1>6, <2>1 DEF ClosuresInv, Kept, Traced, Stands, OwnToken
    <2> HIDE DEF p
    <2>4. "held" \in destroyed[w] \/ held[w].off < bufs[p].start
      BY <2>1, <2>2, <2>3 DEF InWindow
    <2> QED BY <1>3, <2>1, <2>4 DEF p, Known
  <1>7. Earned(w)'
    BY <1>2, <1>4, <1>5, <1>6 DEF Earned, Failed, OwnToken, At, ModeOf, PaneOf, Known
  <1> QED BY <1>0, <1>1, <1>7, AnswerKept DEF Fail

LEMMA CheckKept ==
  ASSUME ClosuresInv, NEW w \in Watcher, StepOf(w), Check(w)
  PROVE  \A v \in Watcher : Kept(v)'
  <1> DEFINE outcome == ReadCheck(PaneOf(w), held[w])
  <1>1. call[w].pc = "check" /\ UNCHANGED <<bufs, held>>
    BY DEF Check, At, storeVars
  <1>2. /\ outcome = "unknown" => ~Known(PaneOf(w))
        /\ outcome = "invalid" => ~OwnToken(w)
    BY DEF ReadCheck, OwnToken
  <1>3. CASE ReadFails(w, outcome)
    <2> HIDE DEF outcome
    <2> QED BY <1>1, <1>2, <1>3, ReadFailsKept
  <1>4. CASE Goto(w, "read")
    BY <1>1, <1>4, GotoKept
  <1> QED BY <1>3, <1>4 DEF Check

LEMMA ReadKept ==
  ASSUME ClosuresInv, NEW w \in Watcher, StepOf(w), Read(w)
  PROVE  \A v \in Watcher : Kept(v)'
  <1> DEFINE p == PaneOf(w)
             mode == ModeOf(w)
             outcome == ReadResult(p, held[w])
             code == IF mode = "read" THEN "OK" ELSE "none"
             bytes == BufferRead(bufs[p], held[w].off)
             next == TokenAt(p, bufs[p].end)
  <1>1. /\ call[w].pc = "read" /\ UNCHANGED <<bufs, held>>
        /\ mode \in WaitMode \cup {"read"}
    BY DEF Read, At, storeVars, ClosuresInv, AnswersInv, TypeInv, HandlerOK
  <1>2. CASE ReadFails(w, outcome)
    <2>1. /\ outcome = "unknown" => ~Known(p)
          /\ outcome = "invalid" => Known(p) /\ ~InWindow(bufs[p], held[w].off)
      BY DEF ReadResult
    <2> HIDE DEF outcome
    <2> QED BY <1>1, <1>2, <2>1, ReadFailsKept
  <1>3. CASE /\ outcome = "ok"
             /\ call' = [call EXCEPT ![w].pc = AfterRead(mode), ![w].known = mode # "read",
                                     ![w].code = code, ![w].got = bytes, ![w].next = next]
    <2>1. p \in DOMAIN bufs
      BY <1>3 DEF ReadResult, Known
    <2>2. bufs[p].end \in Nat
      BY <2>1, TypedBuffer DEF ClosuresInv
    <2>3. /\ call'[w].pc = AfterRead(mode) /\ call'[w].req = call[w].req /\ call'[w].code = code
          /\ call'[w].known = (mode # "read") /\ call'[w].next = next
          /\ \A v \in Watcher : v # w => call'[v] = call[v]
      <3> HIDE DEF code, bytes, next, mode
      <3> QED BY <1>3 DEF ClosuresInv, AnswersInv, TypeInv, TypeOK, CallType
    <2>4. next.pane \in DOMAIN bufs' /\ next.off <= bufs'[next.pane].end
      BY <1>1, <2>1, <2>2 DEF TokenAt
    <2>5. Stands(call[w].next)'
      <3> HIDE DEF next
      <3> QED BY <2>3, <2>4 DEF Stands, Known
    <2>6. mode # "read" => AfterRead(mode) \in InLoop
      BY DEF AfterRead, InLoop
    <2>7. KnownOK(w)'
      <3> HIDE DEF next, code
      <3> QED BY <1>1, <2>1, <2>3, <2>6 DEF KnownOK, ModeOf, PaneOf, Known
    <2>8. Earned(w)'
      <3> HIDE DEF next
      <3> QED BY <2>3 DEF Earned, Failed
    <2>9. BufsGrow
      BY <1>1, SameBufs
    <2> HIDE DEF next
    <2> QED BY <1>1, <2>3, <2>5, <2>7, <2>8, <2>9, OwnStep
  <1> QED BY <1>2, <1>3 DEF Read

LEMMA EvaluationKept ==
  ASSUME ClosuresInv, NEW w \in Watcher, StepOf(w), Eval(w) \/ Ref(w) \/ Elapsed(w)
  PROVE  \A v \in Watcher : Kept(v)'
  <1>1. call[w].pc \in {"eval", "ref", "elapsed"} /\ UNCHANGED <<bufs, held>>
    BY DEF Eval, Ref, Elapsed, At, storeVars
  <1>2. BufsGrow
    BY <1>1, SameBufs
  <1>3. CASE Eval(w)
    <2>1. CASE Answer(w, "OK", call[w].next)
      BY <1>1, <1>2, <2>1, AnswerKept DEF Blamed
    <2> QED BY <1>1, <1>3, <2>1, UnsettledKept DEF Eval, MatchedNext
  <1>4. CASE Ref(w)
    <2>1. /\ call'[w].pc = "elapsed" /\ call'[w].req = call[w].req
          /\ call'[w].known = call[w].known /\ call'[w].next = call[w].next
          /\ \A v \in Watcher : v # w => call'[v] = call[v]
      BY <1>4 DEF Ref, ClosuresInv, AnswersInv, TypeInv, TypeOK, CallType
    <2>2. KnownOK(w)' /\ Earned(w)'
      BY <1>1, <1>2, <2>1, KnownStep DEF InLoop, Earned, Failed, At
    <2> QED BY <1>1, <1>2, <2>1, <2>2, OwnStep
  <1>5. CASE Elapsed(w)
    BY <1>1, <1>5, GotoKept, UnsettledKept DEF Elapsed
  <1> QED BY <1>3, <1>4, <1>5

LEMMA SelectKept ==
  ASSUME ClosuresInv, NEW w \in Watcher, StepOf(w),
         Park(w) \/ TakeSignal(w) \/ TakeQuiet(w) \/ TakeTimeout(w) \/ TakeCancel(w)
  PROVE  \A v \in Watcher : Kept(v)'
  <1>1. call[w].pc \in {"select", "parked"} /\ UNCHANGED <<bufs, held>>
    BY DEF Park, TakeSignal, TakeQuiet, TakeTimeout, TakeCancel, Selecting, Unpark, At
  <1>2. CASE Goto(w, "parked") \/ Goto(w, "check")
    BY <1>1, <1>2, GotoKept
  <1>3. CASE Fail(w, "TIMEOUT") \/ Fail(w, "RUNTIME")
    BY <1>1, <1>3, SameBufs, AnswerKept DEF Fail, Blamed
  <1> QED BY <1>2, <1>3 DEF Park, TakeSignal, TakeQuiet, TakeTimeout, TakeCancel

(* The agent adopts the answer's token, and its history with it. *)
LEMMA ReturnKept ==
  ASSUME ClosuresInv, NEW w \in Watcher, StepOf(w), Return(w)
  PROVE  \A v \in Watcher : Kept(v)'
  <1>1. /\ call[w].pc = "return" /\ UNCHANGED bufs /\ call'[w] = Idle
        /\ held'[w] = IF call[w].code = "OK" THEN call[w].next ELSE held[w]
        /\ \A v \in Watcher : v # w => call'[v] = call[v] /\ held'[v] = held[v]
    BY DEF Return, StoreUnwatch, StoreWatch, At, ClosuresInv, AnswersInv, TypeInv, TypeOK
  <1>2. /\ "held" \in destroyed[w] /\ call[w].code # "OK" => "held" \in destroyed'[w]
        /\ "next" \in destroyed[w] /\ call[w].code = "OK" => "held" \in destroyed'[w]
        /\ \A v \in Watcher : v # w => destroyed'[v] = destroyed[v]
    BY <1>1 DEF StepOf, At, ClosuresInv
  <1>3. BufsGrow
    BY <1>1, SameBufs
  <1>4. Traced(w, "held", held[w])'
    BY <1>1, <1>2, <1>3 DEF ClosuresInv, Kept, Traced, Stands, Known
  <1>5. Traced(w, "next", call[w].next)' /\ KnownOK(w)' /\ Earned(w)'
    BY <1>1 DEF Idle, Traced, KnownOK, Earned, Failed, At
  <1> QED BY <1>1, <1>2, <1>3, <1>4, <1>5, KeptFrame DEF Kept

-----------------------------------------------------------------------------
LEMMA DataKept ==
  ASSUME ClosuresInv, NEW p \in Pane, DrainData(p), UNCHANGED destroyed
  PROVE  \A v \in Watcher : Kept(v)'
  <1>1. PICK bytes \in Chunk : /\ SetBuffer(p, BufferAppend(BufferOf(p), bytes, now))
                               /\ UNCHANGED <<call, held>>
    BY DEF DrainData, StoreAppend
  <1>2. StoreTypeOK /\ now \in Nat /\ bytes \in Seq(Byte)
    BY CommandsAssumption DEF ClosuresInv, AnswersInv, TypeInv, TypeOK, StoreTypeOK
  <1>3. BufferOf(p) \in ValidBuffer
    BY <1>2, BufferOfValid
  <1> DEFINE b == BufferAppend(BufferOf(p), bytes, now)
  <1>4. b \in ValidBuffer /\ b.end >= BufferOf(p).end /\ b.start >= BufferOf(p).start
    BY <1>2, <1>3, AppendValid, AppendForward
  <1>5. b.start \in Nat /\ b.end \in Nat
    BY <1>4 DEF ValidBuffer, BufferType
  <1>6. BufsGrow
    <2> SUFFICES ASSUME NEW q \in DOMAIN bufs
                 PROVE  /\ q \in DOMAIN bufs' /\ bufs'[q].start \in Nat /\ bufs'[q].end \in Nat
                        /\ bufs'[q].start >= bufs[q].start /\ bufs'[q].end >= bufs[q].end
      BY DEF BufsGrow
    <2> HIDE DEF b
    <2>1. bufs' = [r \in DOMAIN bufs \cup {p} |-> IF r = p THEN b ELSE bufs[r]]
      BY <1>1 DEF b, SetBuffer
    <2>2. CASE q = p
      BY <1>4, <1>5, <2>1, <2>2 DEF BufferOf, Known
    <2>3. CASE q # p
      BY <2>1, <2>3, TypedBuffer DEF ClosuresInv
    <2> QED BY <2>2, <2>3
  <1> QED BY <1>1, <1>6, KeptFrame

(* What loses its pane is marked; everything else has kept it. *)
LEMMA DestroyKept ==
  ASSUME ClosuresInv, NEW p \in Pane, Destroy(p)
  PROVE  \A v \in Watcher : Kept(v)'
  <1> SUFFICES ASSUME NEW v \in Watcher PROVE Kept(v)'
    OBVIOUS
  <1>1. /\ \A q : q \in DOMAIN bufs' <=> q \in DOMAIN bufs /\ q # p
        /\ \A q \in DOMAIN bufs' : bufs'[q] = bufs[q]
        /\ UNCHANGED <<call, held>>
    BY DEF Destroy, DrainClosed, StoreForget
  <1>2. destroyed'[v] = destroyed[v] \cup DestroyedWith(v, p)
    BY DEF Destroy
  <1>3. /\ watching[v] = p => "watch" \in destroyed'[v]
        /\ held[v] # NoToken /\ held[v].pane = p => "held" \in destroyed'[v]
        /\ call[v].next # NoToken /\ call[v].next.pane = p => "next" \in destroyed'[v]
    BY <1>2 DEF DestroyedWith
  <1>4. Traced(v, "held", held[v])'
    BY <1>1, <1>2, <1>3 DEF ClosuresInv, Kept, Traced, Stands, Known
  <1>5. Traced(v, "next", call[v].next)'
    BY <1>1, <1>2, <1>3 DEF ClosuresInv, Kept, Traced, Stands, Known
  <1>6. call[v].known /\ call[v].pc # "return" => watching[v] = PaneOf(v)
    BY DEF ClosuresInv, Kept, KnownOK, AnswersInv, TypeInv, HandlerOK
  <1>7. KnownOK(v)'
    BY <1>1, <1>2, <1>3, <1>6 DEF ClosuresInv, Kept, KnownOK, ModeOf, PaneOf, Known
  <1>8. Earned(v)'
    BY <1>1, <1>2, <1>3 DEF ClosuresInv, Kept, Earned, Failed, OwnToken, At, ModeOf, PaneOf, Known
  <1> QED BY <1>4, <1>5, <1>7, <1>8 DEF Kept

-----------------------------------------------------------------------------
LEMMA ClosuresStart == ClosuresInit => ClosuresInv
  <1> SUFFICES ASSUME ClosuresInit PROVE ClosuresInv
    OBVIOUS
  <1>1. AnswersInv
    BY AnswersInit DEF ClosuresInit
  <1>2. ASSUME NEW w \in Watcher PROVE Kept(w)
    <2>1. call[w] = Idle /\ (held[w] = NoToken \/ held[w].inst = OldInstance)
      BY DEF ClosuresInit, Init
    <2> QED BY <2>1, StoreAssumption DEF Idle, Kept, Traced, KnownOK, Earned, Failed, At
  <1> QED BY <1>1, <1>2 DEF ClosuresInit, ClosuresInv

LEMMA AskedPane == plan \in Plan => AskedFor \subseteq Pane
  <1> SUFFICES ASSUME plan \in Plan, NEW w \in Watcher, NEW r \in Scope(plan).asks[w]
               PROVE  r.pane \in Pane
    BY DEF AskedFor
  <1>1. Scope(plan).asks[w] \subseteq Requests
    BY ClosuresAssumption
  <1> QED BY <1>1, RequestFields

LEMMA ClosuresStep == ASSUME ClosuresInv, [ClosuresNext]_closuresVars PROVE ClosuresInv'
  <1>1. [Next]_vars
    BY AskedPane DEF ClosuresInv, ClosuresNext, closuresVars, AskedCall, AskedData, Destroy, AskedTick,
                     Next, Drain
  <1>2. AnswersInv'
    BY <1>1, AnswersNext DEF ClosuresInv
  <1>3. plan' = plan
    BY DEF ClosuresNext, closuresVars, Destroy
  <1>4. destroyed' \in [Watcher -> SUBSET What]
    <2>1. ASSUME NEW w \in Watcher, StepOf(w) PROVE destroyed' \in [Watcher -> SUBSET What]
      BY <2>1 DEF StepOf, ClosuresInv, What
    <2>2. ASSUME NEW p, Destroy(p) PROVE destroyed' \in [Watcher -> SUBSET What]
      BY <2>2 DEF Destroy, DestroyedWith, ClosuresInv, What
    <2> QED BY <2>1, <2>2 DEF ClosuresNext, closuresVars, ClosuresInv
  <1>5. \A v \in Watcher : Kept(v)'
    <2>1. ASSUME NEW w \in Watcher, StepOf(w), Call(w) \/ Capture(w) \/ HandlerStep(w)
          PROVE  \A v \in Watcher : Kept(v)'
      BY <2>1, CallKept, CaptureKept, MintKept, WatchKept, CheckKept, ReadKept, EvaluationKept,
         SelectKept, ReturnKept DEF HandlerStep
    <2>2. ASSUME NEW p \in Pane, (DrainData(p) /\ UNCHANGED destroyed) \/ Destroy(p)
          PROVE  \A v \in Watcher : Kept(v)'
      BY <2>2, DataKept, DestroyKept
    <2>3. ASSUME Tick \/ Cancel \/ UNCHANGED vars, UNCHANGED destroyed
          PROVE  \A v \in Watcher : Kept(v)'
      <3>1. UNCHANGED <<bufs, call, held>>
        BY <2>3 DEF Tick, Cancel, vars, storeVars
      <3> QED BY <2>3, <3>1, SameBufs, KeptFrame
    <2> QED BY <2>1, <2>2, <2>3, AskedPane
            DEF ClosuresNext, closuresVars, AskedCall, AskedData, AskedTick, ClosuresInv
  <1> QED BY <1>2, <1>3, <1>4, <1>5 DEF ClosuresInv

(* No error of read or wait accuses a pane that is still there or a token  *)
(* that still stands (wait.go:123-131, read.go:24-34, store.go:193-212),   *)
(* for any number of agents and panes, any output and any capacity, and    *)
(* wherever between its sections a command meets the destruction.          *)
THEOREM ErrorsAreTrue == ClosuresSpec => []ErrorsAreEarned
  <1>1. ClosuresInv => ErrorsAreEarned
    BY DEF ClosuresInv, Kept, Earned, ErrorsAreEarned
  <1>2. ClosuresInv /\ [ClosuresNext]_closuresVars => ClosuresInv'
    BY ClosuresStep
  <1> QED BY <1>1, <1>2, ClosuresStart, PTL DEF ClosuresSpec

=============================================================================
