------------------------------- MODULE Closures -------------------------------
(***************************************************************************)
(* Commands with a history: what has been destroyed since a command began  *)
(* and since its token was minted, to judge the errors that it reports.    *)
(***************************************************************************)
EXTENDS Commands

CONSTANTS Plan,    \* what the agents of an instance are after,
          Scope(_) \*   with its requests by agent, its chunks and its time bound

ASSUME ClosuresAssumption == \A plan \in Plan :
    Scope(plan) \in [asks : [Watcher -> SUBSET Requests], chunks : SUBSET Chunk, time : 0..MaxTime]

VARIABLES plan,
          destroyed  \* what each agent has lost its pane since:
                     \* "watch", its Watch; "held" and "next", the tokens

closuresVars == <<vars, plan, destroyed>>

Takes(w) == Scope(plan).asks[w] # {}

AskedFor == {r.pane : r \in UNION {Scope(plan).asks[w] : w \in Watcher}}

ClosuresInit ==
    /\ Init
    /\ plan \in Plan
    /\ \A w \in Watcher : held[w] # NoToken => Takes(w) /\ held[w].pane \in AskedFor
    /\ destroyed = [w \in Watcher |-> {}]

AskedCall(w) == /\ Call(w)
                /\ call'[w].req \in Scope(plan).asks[w]
                /\ now <= Scope(plan).time

AskedData(p) == DrainData(p) /\ \E bytes \in Scope(plan).chunks :
                    bufs'[p] = BufferAppend(BufferOf(p), bytes, now)

(* A token that is minted or adopted starts anew. *)
StepOf(w) == destroyed' = [destroyed EXCEPT ![w] =
    IF At(w, "watch") THEN @ \ {"watch"}
    ELSE IF At(w, "return")
         THEN IF call[w].code # "OK" THEN @ \ {"watch", "next"}
              ELSE IF "next" \in @ THEN {"held"} ELSE {}
    ELSE IF call'[w].next # call[w].next THEN @ \ {"next"}
    ELSE @]

DestroyedWith(w, p) ==
    {what \in {"watch", "held", "next"} :
        CASE what = "watch" -> watching[w] = p
          [] what = "held" -> held[w] # NoToken /\ held[w].pane = p
          [] what = "next" -> call[w].next # NoToken /\ call[w].next.pane = p}

Destroy(p) ==
    /\ DrainClosed(p)
    /\ destroyed' = [w \in Watcher |-> destroyed[w] \cup DestroyedWith(w, p)]
    /\ UNCHANGED plan

(* The clock stops at the plan's bound, unless a wait's timer runs. *)
AskedTick == Tick /\ (now < Scope(plan).time \/ \E w \in Watcher : Waiting(w))

ClosuresNext ==
    \/ \E w \in Watcher :
          /\ AskedCall(w) \/ Capture(w) \/ HandlerStep(w)
          /\ StepOf(w)
          /\ UNCHANGED plan
    \/ \E p \in AskedFor : \/ AskedData(p) /\ UNCHANGED <<plan, destroyed>>
                          \/ Destroy(p)
    \/ (AskedTick \/ Cancel) /\ UNCHANGED <<plan, destroyed>>

ClosuresSpec == ClosuresInit /\ [][ClosuresNext]_closuresVars

-----------------------------------------------------------------------------
Failed(w, code) == At(w, "return") /\ call[w].code = code /\ ModeOf(w) # "snapshot"

OwnToken(w) == held[w] # NoToken /\ held[w].inst = Instance /\ held[w].pane = PaneOf(w)

(* What read and wait say of a token of their pane and controller is the   *)
(* truth (spec 9.6, 11.9): PANE_CLOSED, that the pane was destroyed while  *)
(* the wait was pending; PANE_NOT_FOUND, that it was destroyed since the   *)
(* token was minted, however quiet it is (store.go:145-154); INVALID_AFTER *)
(* that it was, or that the checkpoint's bytes were evicted.               *)
ErrorsAreEarned ==
    \A w \in Watcher :
        /\ Failed(w, "PANE_CLOSED") => "watch" \in destroyed[w]
        /\ Failed(w, "PANE_NOT_FOUND") /\ OwnToken(w) => "held" \in destroyed[w]
        /\ Failed(w, "INVALID_AFTER") /\ OwnToken(w) =>
               \/ "held" \in destroyed[w]
               \/ Known(PaneOf(w)) /\ held[w].off < bufs[PaneOf(w)].start
=============================================================================
