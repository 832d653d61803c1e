---------------------------- MODULE DaemonsProofs ----------------------------
(***************************************************************************)
(* The protocol around the socket, for any number of clients and process   *)
(* slots: types, what a clean stop means, and on a calm machine one        *)
(* controller and no failure that is not a crash's doing.                  *)
(***************************************************************************)
EXTENDS Daemons, FiniteSetTheorems, TLAPS

Leaving == {"unlink", "close", "wait"}

(* DaemonsTypeOK is not inductive: a daemon that leaves has been asked to. *)
DaemonsTypeInv ==
    /\ DaemonsTypeOK
    /\ world \in World /\ stops \in Nat /\ crashes \in Nat
    /\ \A d \in Daemon : daemon[d] \in Leaving => d \in asked

(* On a calm machine the lock is held from the second ping to the end of   *)
(* the poll, and whatever lives, lives under it until it serves.           *)
NobodyStops == stops = 0 /\ asked = {} /\ told = {} /\ stopper = "idle"

Locked == \A c \in Client : client[c] \in {"recheck", "spawn", "poll"} => lock = c

Lives(d) == daemon[d] \notin {"exited", "failed"}

OneLives == \A d, e \in Daemon : Lives(d) /\ Lives(e) => d = e

StartsUnderLock ==
    \A d \in Daemon : daemon[d] \in Starting => \E c \in Client : client[c] = "poll" /\ spawned[c] = d

Reachable ==
    /\ \A d \in fds : daemon[d] \in {"start", "serve", "failed"}
    /\ \A d \in Daemon : daemon[d] \in {"start", "serve", "failed"} => file = d /\ d \in fds
    /\ \A d \in Daemon : daemon[d] \in {"remove", "bind"} => fds = {}
    /\ \A d \in Daemon : daemon[d] = "bind" => file = NoDaemon

SpawnsAlone == \A c \in Client : client[c] = "spawn" => \A d \in Daemon : ~Lives(d)

FailsByCrash ==
    /\ \A d \in Daemon : daemon[d] = "failed" => crashes > 0
    /\ \A c \in Client :
        /\ client[c] = "poll" => spawned[c] \in Daemon /\ (Lives(spawned[c]) \/ crashes > 0)
        /\ client[c] = "failed" => crashes > 0

CalmInv == /\ NobodyStops /\ Locked /\ OneLives /\ StartsUnderLock
           /\ Reachable /\ SpawnsAlone /\ FailsByCrash

(* What `daemon --stop` has seen of its target: a slot that is free was    *)
(* left by the process that answered, whoever may use it later.            *)
StopInv ==
    /\ stopper \in {"idle", "call"} => gone = {}
    /\ stopper = "watch" => /\ target \in Daemon
                            /\ daemon[target] = "exited" \/ "process" \in gone => target \in died

DaemonsInv == DaemonsTypeInv /\ StopInv /\ (Calm => CalmInv)

-----------------------------------------------------------------------------
USE DEF Starting, Leaving

LEMMA TypeInit == DaemonsInit => DaemonsTypeInv
BY DaemonsAssumption, SMT DEF DaemonsInit, DaemonsTypeInv, DaemonsTypeOK, DaemonPC, ClientPC, StopPC

(* The steps of a daemon keep the types. *)
LEMMA TypeDaemon ==
    ASSUME DaemonsTypeInv, UNCHANGED world, died' \subseteq Daemon, NEW d \in Daemon,
           \/ DaemonStep(d) \/ StartByHand(d) \/ Pipe(d) \/ Teardown(d)
           \/ Signalled(d) \/ RemoveAgain(d) \/ AcceptFails(d) \/ HardExit(d) \/ Crash(d)
    PROVE  DaemonsTypeInv'
<1> USE DaemonsAssumption
    DEF DaemonsTypeInv, DaemonsTypeOK, DaemonPC, ClientPC, StopPC, clientVars, stopVars, Move
<1> DEFINE Dying == Dies(d) /\ stops' = stops /\ crashes' \in Nat
<1>0. ASSUME Dying PROVE DaemonsTypeInv'
  BY <1>0, SMTT(30) DEF Dies
<1>1. CASE Dial(d)
  <2>1. CASE DialSucceeds  BY <1>1, <2>1, <1>0 DEF Dial
  <2>2. CASE ~DialSucceeds
    <3>1. /\ Move(d, "remove")
          /\ UNCHANGED <<feed, asked, removing, fds, file, pipe, told, clientVars, stops, crashes>>
      BY <1>1, <2>2, Zenon DEF Dial
    <3> QED  BY <3>1, SMTT(30)
  <2> QED  BY <2>1, <2>2
<1>2. CASE RemoveStale(d)  BY <1>2, SMTT(30) DEF RemoveStale
<1>3. CASE Bind(d)
  <2>1. CASE file # NoDaemon  BY <1>3, <2>1, <1>0 DEF Bind
  <2>2. CASE file = NoDaemon
    <3>1. /\ file' = d /\ fds' = fds \cup {d} /\ Move(d, "start")
          /\ UNCHANGED <<feed, asked, removing, pipe, told, clientVars, stops, crashes>>
      BY <1>3, <2>2, Zenon DEF Bind
    <3> QED  BY <3>1, SMTT(30)
  <2> QED  BY <2>1, <2>2
<1>4. CASE StartController(d)  BY <1>4, SMTT(30) DEF StartController
<1>5. CASE Obey(d)  BY <1>5, SMTT(30) DEF Obey, RequestShutdown
<1>6. CASE Unlink(d)  BY <1>6, SMTT(30) DEF Unlink
<1>7. CASE CloseListener(d)  BY <1>7, SMTT(30) DEF CloseListener
<1>8. CASE Exit(d)  BY <1>8, <1>0 DEF Exit
<1>9. CASE StartByHand(d)  BY <1>9, SMTT(30) DEF StartByHand, Launch, FreeSlots
<1>10. CASE Pipe(d)  BY <1>10, SMTT(30) DEF Pipe
<1>11. CASE Teardown(d)  BY <1>11, SMTT(30) DEF Teardown
<1>12. CASE Signalled(d)  BY <1>12, SMTT(30) DEF Signalled, RequestShutdown
<1>13. CASE RemoveAgain(d)  BY <1>13, SMTT(30) DEF RemoveAgain
<1>14. CASE HardExit(d)  BY <1>14, <1>0 DEF HardExit
<1>15. CASE Crash(d)  BY <1>15, <1>0 DEF Crash
<1>16. CASE AcceptFails(d)  BY <1>16, SMTT(30) DEF AcceptFails
<1> QED  BY <1>1, <1>2, <1>3, <1>4, <1>5, <1>6, <1>7, <1>8, <1>9, <1>10, <1>11, <1>12, <1>13, <1>14, <1>15, <1>16 DEF DaemonStep

(* So do those of a client, *)
LEMMA TypeClient ==
    ASSUME DaemonsTypeInv, UNCHANGED world, died' \subseteq Daemon, NEW c \in Client,
           Begin(c) \/ EnsureStep(c) \/ Done(c)
    PROVE  DaemonsTypeInv'
<1> USE DaemonsAssumption
    DEF DaemonsTypeInv, DaemonsTypeOK, DaemonPC, ClientPC, StopPC, daemonVars, stopVars, Go, Move
<1>1. CASE Begin(c)  BY <1>1, SMTT(30) DEF Begin
<1>2. CASE Ping(c)  BY <1>2, SMTT(30) DEF Ping
<1>3. CASE Lock(c)  BY <1>3, SMTT(30) DEF Lock, CanLock
<1>4. CASE Recheck(c)  BY <1>4, SMTT(30) DEF Recheck, Unlock
<1>5. CASE Spawn(c)  BY <1>5, SMTT(30) DEF Spawn, Launch, FreeSlots
<1>6. CASE SpawnFails(c)  BY <1>6, SMTT(30) DEF SpawnFails, Unlock
<1>7. CASE Poll(c)  BY <1>7, SMTT(30) DEF Poll, Unlock
<1>8. CASE Done(c)  BY <1>8, SMTT(30) DEF Done
<1> QED  BY <1>1, <1>2, <1>3, <1>4, <1>5, <1>6, <1>7, <1>8 DEF EnsureStep

(* and those of `daemon --stop`. *)
LEMMA TypeStop ==
    ASSUME DaemonsTypeInv, UNCHANGED world, died' \subseteq Daemon, StopPing \/ StopStep \/ StopAgain
    PROVE  DaemonsTypeInv'
<1> USE DaemonsAssumption
    DEF DaemonsTypeInv, DaemonsTypeOK, DaemonPC, ClientPC, StopPC, daemonVars
<1>1. CASE StopPing  BY <1>1, SMTT(30) DEF StopPing
<1>2. CASE StopCall  BY <1>2, SMTT(30) DEF StopCall, PingSucceeds, DialSucceeds
<1>3. CASE SeeSocketGone  BY <1>3, SMTT(30) DEF SeeSocketGone, Observe
<1>4. CASE SeeProcessGone  BY <1>4, SMTT(30) DEF SeeProcessGone, Observe
<1>5. CASE StopReturns  BY <1>5, SMTT(30) DEF StopReturns
<1>6. CASE StopAgain  BY <1>6, SMTT(30) DEF StopAgain
<1> QED  BY <1>1, <1>2, <1>3, <1>4, <1>5, <1>6 DEF StopStep

-----------------------------------------------------------------------------
LEMMA CalmInit == DaemonsInit => CalmInv
BY DaemonsAssumption, SMT
DEF Lives, DaemonsInit, CalmInv, NobodyStops, Locked, OneLives, StartsUnderLock, Reachable, SpawnsAlone, FailsByCrash

(* On a calm machine a daemon on its way up finds the path free and goes   *)
(* on to serve; it does not leave unless it is killed or cannot accept.    *)
LEMMA CalmDaemon ==
    ASSUME DaemonsTypeInv, Calm, CalmInv, UNCHANGED world, NEW d \in Daemon,
           \/ DaemonStep(d) \/ StartByHand(d) \/ Pipe(d) \/ Teardown(d)
           \/ Signalled(d) \/ RemoveAgain(d) \/ AcceptFails(d) \/ HardExit(d) \/ Crash(d)
    PROVE  CalmInv'
<1> USE DaemonsAssumption
    DEF Lives, DaemonsTypeInv, DaemonsTypeOK, CalmInv, NobodyStops, Locked, OneLives, StartsUnderLock, Reachable,
        SpawnsAlone, FailsByCrash, clientVars, stopVars, Move
<1>0. ASSUME Dies(d), crashes' \in Nat, crashes' >= crashes, stops' = stops, crashes' > 0 PROVE CalmInv'
  BY <1>0, SMTT(30) DEF Dies
<1>1. CASE Dial(d)
  <2>1. CASE DialSucceeds
    <3>1. crashes > 0 /\ Dies(d) /\ UNCHANGED <<stops, crashes>>
      BY <1>1, <2>1, SMTT(30) DEF Dial, DialSucceeds
    <3> QED  BY <1>0, <3>1
  <2>2. CASE ~DialSucceeds  BY <1>1, <2>2, SMTT(30) DEF Dial, DialSucceeds
  <2> QED  BY <2>1, <2>2
<1>2. CASE RemoveStale(d)  BY <1>2, SMTT(30) DEF RemoveStale
<1>3. CASE Bind(d)
  <2>1. file = NoDaemon  BY <1>3, SMTT(30) DEF Bind
  <2> QED  BY <1>3, <2>1, SMTT(30) DEF Bind
<1>4. CASE StartController(d)  BY <1>4, SMTT(30) DEF StartController
<1>5. CASE Pipe(d)  BY <1>5, SMTT(30) DEF Pipe
<1>6. CASE Crash(d)  BY <1>0, <1>6 DEF Crash
<1>7. ~Obey(d) /\ ~Unlink(d) /\ ~CloseListener(d) /\ ~RemoveAgain(d)
  BY SMTT(30) DEF Obey, Unlink, CloseListener, RemoveAgain
<1>8. CASE Exit(d) \/ HardExit(d)
  <2>1. crashes > 0 /\ Dies(d) /\ UNCHANGED <<stops, crashes>>
    BY <1>8, SMTT(30) DEF Exit, HardExit
  <2> QED  BY <1>0, <2>1
<1>9. ~StartByHand(d) /\ ~Signalled(d)
  BY SMTT(30) DEF StartByHand, Signalled, Calm
<1>10. CASE Teardown(d)  BY <1>10, SMTT(30) DEF Teardown
<1>11. CASE AcceptFails(d)  BY <1>11, SMTT(30) DEF AcceptFails
<1> QED  BY <1>1, <1>2, <1>3, <1>4, <1>5, <1>6, <1>7, <1>8, <1>9, <1>10, <1>11 DEF DaemonStep

(* A client that holds the lock and gets no answer is right to start a     *)
(* daemon, and right to wait for it.                                       *)
LEMMA CalmClient ==
    ASSUME DaemonsTypeInv, Calm, CalmInv, UNCHANGED world, NEW c \in Client,
           Begin(c) \/ EnsureStep(c) \/ Done(c)
    PROVE  CalmInv'
<1> USE DaemonsAssumption
    DEF Lives, DaemonsTypeInv, DaemonsTypeOK, CalmInv, NobodyStops, Locked, OneLives, StartsUnderLock, Reachable,
        SpawnsAlone, FailsByCrash, daemonVars, stopVars, Go, Move
<1>0. \A d \in Daemon : daemon[d] \in Starting \cup {"serve", "failed", "exited"}
  BY SMTT(30) DEF DaemonPC
<1>1. CASE Begin(c)  BY <1>1, SMTT(30) DEF Begin
<1>2. CASE Ping(c)  BY <1>2, SMTT(30) DEF Ping
<1>3. CASE Lock(c)  BY <1>3, SMTT(30) DEF Lock, CanLock
<1>4. CASE Recheck(c)
  <2>1. CASE client'[c] = "spawn"
    <3>1. ~(DialSucceeds /\ daemon[file] # "failed")
      BY <1>4, <2>1, SMTT(30) DEF Recheck, PingFails, Calm, ClientPC
    <3>2. \A d \in Daemon : ~Lives(d)
      BY <1>0, <1>4, <3>1, SMTT(30) DEF Recheck, DialSucceeds
    <3> QED  BY <1>4, <2>1, <3>2, SMTT(30) DEF Recheck, Unlock
  <2>2. CASE client'[c] # "spawn"  BY <1>4, <2>2, SMTT(30) DEF Recheck, Unlock
  <2> QED  BY <2>1, <2>2
<1>5. CASE Spawn(c)
  <2>1. \A d \in Daemon : ~Lives(d)  BY <1>5 DEF Spawn
  <2>2. lock = c /\ \A d \in fds : daemon[d] = "failed"  BY <1>5, <2>1, SMTT(30) DEF Spawn
  <2> QED  BY <1>5, <2>1, <2>2, SMTT(30) DEF Spawn, Launch, FreeSlots
<1>6. CASE SpawnFails(c)
  <2>1. Scope(world).daemons \subseteq Daemon /\ Scope(world).daemons # {}
    BY SMTT(30) DEF ScopeType
  <2>2. crashes > 0  BY <1>6, <2>1, SMTT(30) DEF SpawnFails, FreeSlots
  <2> QED  BY <1>6, <2>2, SMTT(30) DEF SpawnFails, Unlock
<1>7. CASE Poll(c)
  <2> DEFINE s == spawned[c]
  <2>1. s \in Daemon /\ lock = c /\ (Lives(s) \/ crashes > 0)
    BY <1>7, SMTT(30) DEF Poll
  <2>2. client'[c] = "failed" => crashes > 0
    BY <1>0, <1>7, <2>1, SMTT(30) DEF Poll, PingSucceeds, DialSucceeds, Calm
  <2>3. client'[c] \in {"ready", "failed"}  BY <1>7, SMTT(30) DEF Poll
  <2>4. \A d \in Daemon : daemon[d] \notin Starting
    <3>1. CASE PingSucceeds  BY <1>7, <3>1, SMTT(30) DEF PingSucceeds, DialSucceeds
    <3>2. CASE ~PingSucceeds
      <4>1. daemon[s] \notin Starting  BY <1>7, <3>2, SMTT(30) DEF Poll, Calm
      <4> QED  BY <2>1, <4>1, SMTT(30)
    <3> QED  BY <3>1, <3>2
  <2> QED  BY <1>7, <2>1, <2>2, <2>3, <2>4, SMTT(30) DEF Poll, Unlock
<1>8. CASE Done(c)  BY <1>8, SMTT(30) DEF Done
<1> QED  BY <1>1, <1>2, <1>3, <1>4, <1>5, <1>6, <1>7, <1>8 DEF EnsureStep

(* Nobody runs `daemon --stop` on a calm machine. *)
LEMMA CalmStop ==
    ASSUME DaemonsTypeInv, Calm, CalmInv, UNCHANGED world
    PROVE  ~(StopPing \/ StopStep \/ StopAgain)
BY DaemonsAssumption, SMTT(30)
DEF CalmInv, NobodyStops, Calm, StopPing, StopStep, StopCall, SeeSocketGone, SeeProcessGone, StopReturns, StopAgain

-----------------------------------------------------------------------------
(* The target of `daemon --stop` is a process that was there when it       *)
(* answered, and that is remembered when it ends.                          *)
LEMMA StopNext ==
    ASSUME DaemonsTypeInv, StopInv, DaemonsNext
    PROVE  StopInv'
<1> DEFINE ended == {d \in Daemon : daemon[d] # "exited" /\ daemon'[d] = "exited"}
<1>1. died' = IF stopper' # "watch" THEN {} ELSE died \cup ended  BY DEF DaemonsNext
<1>2. ASSUME UNCHANGED <<stopper, target>>,
             gone' = gone \/ (stopper = "watch" /\ daemon[target] = "exited")
                        \/ (stopper = "watch" /\ gone' = gone \cup {"socket"})
      PROVE  StopInv'
  <2>1. CASE stopper = "watch"
    <3>1. target \in Daemon /\ died' = died \cup ended  BY <1>1, <1>2, <2>1 DEF StopInv
    <3> QED  BY <1>2, <2>1, <3>1 DEF StopInv
  <2>2. CASE stopper # "watch"  BY <1>2, <2>2 DEF StopInv
  <2> QED  BY <2>1, <2>2
<1>3. ASSUME NEW d \in Daemon,
             \/ DaemonStep(d) \/ StartByHand(d) \/ Pipe(d) \/ Teardown(d)
             \/ Signalled(d) \/ RemoveAgain(d) \/ AcceptFails(d) \/ HardExit(d) \/ Crash(d)
      PROVE  UNCHANGED stopVars
  BY <1>3 DEF DaemonStep, StartByHand, Pipe, Teardown, Signalled, RemoveAgain, AcceptFails, HardExit, Crash,
              Dial, RemoveStale, Bind, StartController, Obey, RequestShutdown, Unlink, CloseListener, Exit,
              Dies, clientVars
<1>4. ASSUME NEW c \in Client, Begin(c) \/ EnsureStep(c) \/ Done(c) PROVE UNCHANGED stopVars
  BY <1>4 DEF Begin, EnsureStep, Done, Ping, Lock, Recheck, Spawn, SpawnFails, Poll
<1>5. CASE UNCHANGED stopVars  BY <1>2, <1>5 DEF stopVars
<1>6. CASE SeeSocketGone \/ SeeProcessGone
  BY <1>2, <1>6 DEF SeeSocketGone, SeeProcessGone, Observe
<1>7. CASE StopPing \/ StopReturns \/ StopAgain
  BY <1>7, SMT DEF StopInv, StopPing, StopReturns, StopAgain
<1>8. CASE StopCall
  <2>1. CASE stopper' = "watch"
    <3>1. /\ PingSucceeds /\ target' = file /\ gone' = {} /\ daemon' = daemon
      BY <1>8, <2>1, SMT DEF StopCall, StopInv
    <3>2. file \in Daemon /\ daemon[file] # "exited"
      BY <3>1, SMT DEF PingSucceeds, DialSucceeds, DaemonsTypeInv, DaemonsTypeOK
    <3> QED  BY <2>1, <3>1, <3>2 DEF StopInv
  <2>2. CASE stopper' # "watch"  BY <1>8, <2>2, SMT DEF StopInv, StopCall
  <2> QED  BY <2>1, <2>2
<1> QED  BY <1>3, <1>4, <1>5, <1>6, <1>7, <1>8 DEF DaemonsNext, StopStep

LEMMA DaemonsInvNext ==
    ASSUME DaemonsInv, [DaemonsNext]_<<world, died, daemonsVars>>
    PROVE  DaemonsInv'
<1>0. UNCHANGED world  BY DEF DaemonsNext
<1>s. StopInv'
  <2>1. CASE UNCHANGED <<world, died, daemonsVars>>
    BY <2>1 DEF DaemonsInv, StopInv, daemonsVars, daemonVars, clientVars, stopVars
  <2> QED  BY <2>1, StopNext DEF DaemonsInv
<1>1. DaemonsTypeInv'
  <2>1. CASE DaemonsNext
    <3>1. died' \subseteq Daemon
      BY <2>1, SMT DEF DaemonsNext, DaemonsInv, DaemonsTypeInv, DaemonsTypeOK
    <3> QED  BY <1>0, <2>1, <3>1, TypeDaemon, TypeClient, TypeStop DEF DaemonsInv, DaemonsNext
  <2>2. CASE UNCHANGED <<world, died, daemonsVars>>
    BY <2>2, SMT DEF DaemonsInv, DaemonsTypeInv, DaemonsTypeOK, daemonsVars, daemonVars, clientVars, stopVars
  <2> QED  BY <2>1, <2>2
<1>2. ASSUME Calm' PROVE CalmInv'
  <2>0. Calm /\ CalmInv  BY <1>0, <1>2 DEF Calm, Slow, DaemonsInv
  <2>1. CASE DaemonsNext
    BY <1>0, <2>0, <2>1, CalmDaemon, CalmClient, CalmStop DEF DaemonsInv, DaemonsNext
  <2>2. CASE UNCHANGED <<world, died, daemonsVars>>
    BY <2>0, <2>2, SMT
    DEF Lives, CalmInv, NobodyStops, Locked, OneLives, StartsUnderLock, Reachable, SpawnsAlone, FailsByCrash,
        daemonsVars, daemonVars, clientVars, stopVars
  <2> QED  BY <2>1, <2>2
<1> QED  BY <1>s, <1>1, <1>2 DEF DaemonsInv

LEMMA DaemonsInvAlways == DaemonsSpec => []DaemonsInv
<1>1. DaemonsInit => StopInv  BY DEF DaemonsInit, StopInv
<1>2. DaemonsInit => DaemonsInv  BY <1>1, TypeInit, CalmInit DEF DaemonsInv
<1> QED  BY <1>2, DaemonsInvNext, PTL DEF DaemonsSpec

(* Types, and the flock is held only between its taking and the deferred   *)
(* release, whatever the machine.                                          *)
THEOREM DaemonsTypeCorrect == DaemonsSpec => []DaemonsTypeOK
<1>1. DaemonsInv => DaemonsTypeOK  BY DEF DaemonsInv, DaemonsTypeInv
<1> QED  BY <1>1, DaemonsInvAlways, PTL

(* On a calm machine no two daemons listen, however many clients race to   *)
(* start one and however many daemons are killed.                          *)
THEOREM OneController == DaemonsSpec => []AtMostOneController
<1>1. ASSUME DaemonsInv, Calm PROVE Cardinality(fds \ asked) <= 1
  <2> DEFINE F == fds \ asked
  <2>1. F \subseteq Daemon /\ \A d, e \in F : d = e
    BY <1>1, SMT DEF DaemonsInv, DaemonsTypeInv, DaemonsTypeOK, CalmInv, OneLives, Reachable
  <2>2. CASE F = {}  BY <2>2, FS_EmptySet, SMT
  <2>3. CASE F # {}
    <3>1. PICK d \in F : F = {d}  BY <2>1, <2>3, SMT
    <3> QED  BY <3>1, FS_Singleton, SMT
  <2> QED  BY <2>2, <2>3
<1>2. DaemonsInv => AtMostOneController  BY <1>1 DEF AtMostOneController
<1> QED  BY <1>2, DaemonsInvAlways, PTL

(* On a calm machine EnsureDaemon fails only if a daemon was killed or     *)
(* could not accept.                                                       *)
THEOREM EnsureFailsOnlyByCrash == DaemonsSpec => []FailedMeansKilled
<1>1. DaemonsInv => FailedMeansKilled
  BY DEF DaemonsInv, CalmInv, FailsByCrash, FailedMeansKilled
<1> QED  BY <1>1, DaemonsInvAlways, PTL

(* `daemon --stop` reports a clean stop only when the very process that    *)
(* answered it has ended, whatever has taken its place.                    *)
THEOREM CleanStopMeansGone == DaemonsSpec => StopMeansGone
<1>1. ASSUME DaemonsInv, [DaemonsNext]_<<world, died, daemonsVars>>, stopper = "watch", stopper' = "stopped"
      PROVE  target \in died
  <2>1. stopper' # stopper  BY <1>1
  <2>2. StopReturns
    <3>1. DaemonsNext  BY <1>1, <2>1 DEF daemonsVars, clientVars, stopVars
    <3>2. ASSUME NEW d \in Daemon,
                 \/ DaemonStep(d) \/ StartByHand(d) \/ Pipe(d) \/ Teardown(d)
                 \/ Signalled(d) \/ RemoveAgain(d) \/ AcceptFails(d) \/ HardExit(d) \/ Crash(d)
          PROVE  FALSE
      BY <2>1, <3>2 DEF DaemonStep, StartByHand, Pipe, Teardown, Signalled, RemoveAgain, AcceptFails,
             HardExit, Crash, Dial, RemoveStale, Bind, StartController, Obey, RequestShutdown, Unlink,
             CloseListener, Exit, Dies, clientVars, stopVars
    <3>3. ASSUME NEW c \in Client, Begin(c) \/ EnsureStep(c) \/ Done(c) PROVE FALSE
      BY <2>1, <3>3 DEF Begin, EnsureStep, Done, Ping, Lock, Recheck, Spawn, SpawnFails, Poll, stopVars
    <3> QED  BY <1>1, <3>1, <3>2, <3>3, SMT
             DEF DaemonsNext, StopStep, StopPing, StopCall, SeeSocketGone, SeeProcessGone, StopAgain, Observe
  <2>3. "process" \in gone  BY <1>1, <2>2 DEF StopReturns, Stopped
  <2> QED  BY <1>1, <2>3 DEF DaemonsInv, StopInv
<1>2. DaemonsInv /\ [DaemonsNext]_<<world, died, daemonsVars>>
         => [stopper = "watch" /\ stopper' = "stopped" => target \in died]_daemonsVars
  BY <1>1
<1> QED  BY <1>2, DaemonsInvAlways, PTL DEF DaemonsSpec, StopMeansGone

=============================================================================
