------------------------------ MODULE Bootstrap ------------------------------
(***************************************************************************)
(* Feed together with a snapshot, the only way to a first token: the       *)
(* handler captures the screen, then asks the store for a token, while     *)
(* output is under way (internal/controller/snapshot.go, Store.NewToken).  *)
(* Commands models the snapshot against an arbitrary stream of events;     *)
(* here the events are those of the subscription, and a screen is the      *)
(* number of bytes the pane had printed when it was captured.              *)
(***************************************************************************)
EXTENDS Feed

CONSTANTS Scene,   \* the bounds an instance explores one after the other,
          Scope(_) \*   each with bytes per pane, blips and the panes captured

ASSUME BootstrapAssumption == \A scene \in Scene :
    Scope(scene) \in [bytes : [Pane -> 0..MaxPrint], blips : 0..MaxBlips, captured : SUBSET Pane]

(* seen: bytes on the captured screen; minted: bytes printed when the      *)
(* token was taken; via: the FIFO the pane was piped into by then.         *)
VARIABLES shot, scene

bootstrapVars == <<feedVars, shot, scene>>

NoShot == [pc |-> "idle", pane |-> NoPane, seen |-> 0, minted |-> 0,
           via |-> NoTracker, token |-> NoToken]

(* A pane that prints nothing is left out. *)
WithinBounds == /\ \A p \in Pane : printed[p] <= Scope(scene).bytes[p]
                /\ \A p \in born : Scope(scene).bytes[p] > 0
                /\ blips <= Scope(scene).blips

BootstrapInit == FeedInit /\ shot = NoShot /\ scene \in Scene /\ WithinBounds

(* CapturePane succeeds for a pane that is there. *)
CaptureScreen(p) ==
    /\ shot.pc = "idle" /\ p \in alive \cap Scope(scene).captured
    /\ shot' = [shot EXCEPT !.pc = "captured", !.pane = p, !.seen = printed[p]]
    /\ UNCHANGED feedVars

MintToken ==
    LET p == shot.pane IN
    /\ shot.pc = "captured"
    /\ CreateBuffer(p)
    /\ shot' = [shot EXCEPT !.pc = "held", !.minted = printed[p],
                            !.via = IF Piped(p) THEN pipe[p] ELSE NoTracker,
                            !.token = HeadToken(p)]
    /\ UNCHANGED <<watching, sig, parked, now, tmuxVars, pipe, sub, trackers, reader, out,
                   serverLost, drained, forgotten, cancelled>>

(* The agent is done with the token and starts over. *)
DropToken == shot.pc = "held" /\ shot' = NoShot /\ UNCHANGED feedVars

BootstrapNext == /\ \/ FeedNext /\ UNCHANGED shot
                    \/ \E p \in Pane : CaptureScreen(p)
                    \/ MintToken
                    \/ DropToken
                 /\ UNCHANGED scene
                 /\ WithinBounds'

BootstrapSpec == BootstrapInit /\ [][BootstrapNext]_bootstrapVars

-----------------------------------------------------------------------------
Held == shot.pc = "held"

(* What a read or wait behind the token finds, now and when the bytes on   *)
(* their way have arrived.                                                 *)
Behind ==
    LET p == shot.pane IN
    IF Known(p) /\ InWindow(bufs[p], shot.token.off)
    THEN BufferRead(bufs[p], shot.token.off) \o InTransit(p)
    ELSE InTransit(p)

Missed(after) == {i \in after + 1 .. printed[shot.pane] : \A k \in DOMAIN Behind : Behind[k] # i}

Valid == LET p == shot.pane IN Known(p) /\ InWindow(bufs[p], shot.token.off)

(* A token taken of a pane that is piped stands before everything the pane *)
(* prints from then on (spec 9.6, 17.15), however far the readers and the  *)
(* drain goroutine lag behind; a token that loses bytes has been evicted.  *)
TokenMissesNothing ==
    Held /\ shot.via # NoTracker /\ pipe[shot.pane] = shot.via /\ Piped(shot.pane) /\ Valid
        => Missed(shot.minted) = {}

(* The same without asking for a pipe, as spec 17.15 has it: "cannot miss  *)
(* fast output that occurs after the checkpoint".                          *)
CannotMissOutput == Held /\ Valid /\ shot.pane \in alive /\ ~cancelled => Missed(shot.minted) = {}
=============================================================================
