------------------------------ MODULE Daemons ------------------------------
(***************************************************************************)
(* The processes around one daemon socket: CLI invocations that ensure a   *)
(* daemon (internal/ipc/autospawn.go), the daemons they or a user start,   *)
(* bind, serve and shut down (internal/cli/daemon.go, internal/ipc/        *)
(* server.go), the user who runs `daemon --stop`, and what these share:    *)
(* the socket path, the lock file, and the one pipe that tmux keeps per    *)
(* pane.  One pane stands for all.                                         *)
(***************************************************************************)
EXTENDS Naturals, FiniteSets

CONSTANTS Daemon,      \* process slots; a slot is free again after its exit
          Client, NoDaemon, NoClient,
          World,       \* the machines an instance looks at,
          Scope(_)     \*   and what may happen on each

(* slow: starting or answering a ping may take more than 2 s.  byHand:     *)
(* users run `tpctl daemon` themselves.  The other fields are bounds: the  *)
(* process slots and clients in use, the signals to daemons and runs of    *)
(* `daemon --stop`, and the daemons killed outright or unable to accept.   *)
ScopeType == [slow : BOOLEAN, byHand : BOOLEAN, daemons : (SUBSET Daemon) \ {{}},
              clients : SUBSET Client, stops : Nat, crashes : Nat]

ASSUME DaemonsAssumption == /\ NoDaemon \notin Daemon /\ NoClient \notin Client
                            /\ \A world \in World : Scope(world) \in ScopeType

VARIABLES world,    \* the machine
          daemon,   \* where each daemon's main goroutine stands
          feed,     \* its subscription: off, untracked, tracked, torn
          asked,    \* daemons whose requestShutdown was called
          removing, \* daemons whose Close has its last os.Remove to do
          fds,      \* daemons whose listener is open
          file,     \* the daemon that bound what stands at the socket path
          pipe,     \* the daemon whose FIFO the pane is piped into
          lock,     \* the client that holds the flock
          client,   \* where each EnsureDaemon stands
          spawned,  \* the daemon each client has started
          told,     \* daemons with an OpShutdown answered but not yet obeyed
          stopper,  \* where `daemon --stop` stands
          target,   \* the daemon whose pid its OpShutdown returned
          gone,     \* what of it has been seen gone: socket, process
          died,     \* history: the processes that ended while it watches
          stops, crashes

daemonVars == <<daemon, feed, asked, removing, fds, file, pipe, told, stops, crashes>>
stopVars == <<stopper, target, gone>>
clientVars == <<lock, client, spawned, stopVars>>
daemonsVars == <<daemonVars, clientVars>>

Starting == {"dial", "remove", "bind", "start"}
DaemonPC == Starting \cup {"serve", "unlink", "close", "wait", "failed", "exited"}
StopPC == {"idle", "call", "watch", "stopped", "failed"}
ClientPC == {"idle", "ping", "lock", "recheck", "spawn", "poll", "ready", "failed"}

DaemonsInit ==
    /\ world \in World
    /\ daemon = [d \in Daemon |-> "exited"]
    /\ feed = [d \in Daemon |-> "off"]
    /\ asked = {} /\ removing = {} /\ fds = {}
    /\ file = NoDaemon /\ pipe = NoDaemon /\ lock = NoClient
    /\ client = [c \in Client |-> "idle"]
    /\ spawned = [c \in Client |-> NoDaemon]
    /\ told = {} /\ stopper = "idle" /\ target = NoDaemon /\ gone = {} /\ died = {}
    /\ stops = 0 /\ crashes = 0

-----------------------------------------------------------------------------
(* A dial reaches the listener that the path leads to, if it is open.  A   *)
(* ping is answered while that daemon accepts; of a daemon on its way to   *)
(* Serve it waits for the answer, no longer than 2 s; one whose Serve has  *)
(* failed never answers.                                                   *)
Slow == Scope(world).slow

DialSucceeds == file \in fds
PingSucceeds == DialSucceeds /\ daemon[file] \in {"serve", "unlink"}
PingFails == ~(DialSucceeds /\ daemon[file] # "failed") \/ Slow

Move(d, label) == daemon' = [daemon EXCEPT ![d] = label]

FreeSlots == {d \in Scope(world).daemons : daemon[d] = "exited"}

Launch(d) == d \in FreeSlots /\ Move(d, "dial")

(* The process is gone, and with it its listener and the reader of its     *)
(* pipe; the socket file stays where it is.                                *)
Dies(d) ==
    /\ Move(d, "exited")
    /\ feed' = [feed EXCEPT ![d] = "off"]
    /\ asked' = asked \ {d} /\ removing' = removing \ {d} /\ fds' = fds \ {d}
    /\ told' = told \ {d}
    /\ pipe' = IF pipe = d THEN NoDaemon ELSE pipe
    /\ UNCHANGED <<file, clientVars>>

-----------------------------------------------------------------------------
(* runDaemon up to Serve: Listen dials, removes what it takes for stale,   *)
(* and binds, which fails if something stands there again.                 *)
StartByHand(d) ==
    /\ Scope(world).byHand /\ Launch(d)
    /\ UNCHANGED <<feed, asked, removing, fds, file, pipe, told, stops, crashes, clientVars>>

Dial(d) ==
    /\ daemon[d] = "dial"
    /\ IF DialSucceeds THEN Dies(d)
       ELSE Move(d, "remove") /\ UNCHANGED <<feed, asked, removing, fds, file, pipe, told, clientVars>>
    /\ UNCHANGED <<stops, crashes>>

RemoveStale(d) ==
    /\ daemon[d] = "remove"
    /\ file' = NoDaemon
    /\ Move(d, "bind")
    /\ UNCHANGED <<feed, asked, removing, fds, pipe, told, stops, crashes, clientVars>>

Bind(d) ==
    /\ daemon[d] = "bind"
    /\ IF file # NoDaemon THEN Dies(d)
       ELSE /\ file' = d /\ fds' = fds \cup {d}
            /\ Move(d, "start")
            /\ UNCHANGED <<feed, asked, removing, pipe, told, clientVars>>
    /\ UNCHANGED <<stops, crashes>>

(* Controller.Start, then Serve. *)
StartController(d) ==
    /\ daemon[d] = "start"
    /\ Move(d, "serve")
    /\ feed' = [feed EXCEPT ![d] = "untracked"]
    /\ UNCHANGED <<asked, removing, fds, file, pipe, told, stops, crashes, clientVars>>

(* Accept fails (the process is out of descriptors, say): Serve returns,   *)
(* the listener stays open, and all that is left is to stop the controller *)
(* and exit.                                                               *)
AcceptFails(d) ==
    /\ daemon[d] = "serve" /\ crashes < Scope(world).crashes
    /\ crashes' = crashes + 1
    /\ Move(d, "failed")
    /\ UNCHANGED <<feed, asked, removing, fds, file, pipe, told, stops, clientVars>>

(* The subscription's pipe-pane, which replaces any other pipe, and its    *)
(* teardown, which closes whatever pipe the pane has, if tmux obeys.       *)
Pipe(d) ==
    /\ feed[d] = "untracked"
    /\ feed' = [feed EXCEPT ![d] = "tracked"]
    /\ pipe' = d
    /\ UNCHANGED <<daemon, asked, removing, fds, file, told, stops, crashes, clientVars>>

Teardown(d) ==
    /\ d \in asked \/ daemon[d] = "failed"
    /\ feed[d] \in {"untracked", "tracked"}
    /\ feed' = [feed EXCEPT ![d] = "torn"]
    /\ pipe' = pipe \/ (feed[d] = "tracked" /\ pipe' = NoDaemon)
    /\ UNCHANGED <<daemon, asked, removing, fds, file, told, stops, crashes, clientVars>>

-----------------------------------------------------------------------------
(* requestShutdown, by a signal, OpShutdown or the loss of the tmux        *)
(* server, ends the context of Serve and of the subscription alike.        *)
RequestShutdown(d) ==
    /\ daemon[d] \in {"serve", "failed"}
    /\ asked' = asked \cup {d}
    /\ Move(d, "unlink")
    /\ UNCHANGED <<feed, removing, fds, file, pipe, told, crashes, clientVars>>

Signalled(d) == stops < Scope(world).stops /\ stops' = stops + 1 /\ RequestShutdown(d)

(* The handler of OpShutdown answers first and calls it afterwards. *)
Obey(d) == d \in told /\ RequestShutdown(d) /\ UNCHANGED stops

(* Server.Close: the listener unlinks its path and closes its descriptor,  *)
(* then Close removes the path once more, in a goroutine that Serve does   *)
(* not wait for.                                                           *)
Unlink(d) ==
    /\ daemon[d] = "unlink"
    /\ file' = NoDaemon
    /\ Move(d, "close")
    /\ UNCHANGED <<feed, asked, removing, fds, pipe, told, stops, crashes, clientVars>>

CloseListener(d) ==
    /\ daemon[d] = "close"
    /\ fds' = fds \ {d} /\ removing' = removing \cup {d}
    /\ Move(d, "wait")
    /\ UNCHANGED <<feed, asked, file, pipe, told, stops, crashes, clientVars>>

RemoveAgain(d) ==
    /\ d \in removing
    /\ removing' = removing \ {d} /\ file' = NoDaemon
    /\ UNCHANGED <<daemon, feed, asked, fds, pipe, told, stops, crashes, clientVars>>

(* Serve returns once its handlers have, or at once when it cannot accept; *)
(* Stop once the feed is torn down.                                        *)
Exit(d) ==
    /\ daemon[d] \in {"wait", "failed"} /\ feed[d] = "torn"
    /\ Dies(d)
    /\ UNCHANGED <<stops, crashes>>

(* The timers of requestShutdown and stopWithDeadline, and their mutation: *)
(* none is armed.                                                          *)
WrongHardExit(d) == FALSE

HardExit(d) == (d \in asked \/ daemon[d] = "failed") /\ Dies(d) /\ UNCHANGED <<stops, crashes>>

Crash(d) ==
    /\ daemon[d] # "exited" /\ crashes < Scope(world).crashes
    /\ crashes' = crashes + 1
    /\ Dies(d)
    /\ UNCHANGED stops

-----------------------------------------------------------------------------
(* EnsureDaemon *)
Go(c, label) == client' = [client EXCEPT ![c] = label]

Begin(c) == c \in Scope(world).clients /\ client[c] = "idle" /\ Go(c, "ping")
            /\ UNCHANGED <<daemonVars, stopVars, lock, spawned>>

Ping(c) ==
    /\ client[c] = "ping"
    /\ \/ PingSucceeds /\ Go(c, "ready")
       \/ PingFails /\ Go(c, "lock")
    /\ UNCHANGED <<daemonVars, stopVars, lock, spawned>>

(* flock, and its mutation: anyone gets it. *)
WrongCanLock == TRUE

CanLock == lock = NoClient

Lock(c) ==
    /\ client[c] = "lock" /\ CanLock
    /\ lock' = c /\ Go(c, "recheck")
    /\ UNCHANGED <<daemonVars, stopVars, spawned>>

(* The deferred LOCK_UN, and its mutation: it stays held. *)
WrongUnlock(c) == UNCHANGED lock

Unlock(c) == lock' = IF lock = c THEN NoClient ELSE lock

(* The second ping, and its mutation: whoever held the lock before is      *)
(* trusted to have started a daemon.                                       *)
WrongRecheck(c) ==
    /\ client[c] = "recheck"
    /\ Go(c, IF PingSucceeds THEN "ready" ELSE "lock") /\ Unlock(c)
    /\ UNCHANGED <<daemonVars, stopVars, spawned>>

Recheck(c) ==
    /\ client[c] = "recheck"
    /\ \/ PingSucceeds /\ Go(c, "ready") /\ Unlock(c)
       \/ PingFails /\ Go(c, "spawn") /\ UNCHANGED lock
    /\ UNCHANGED <<daemonVars, stopVars, spawned>>

Spawn(c) == \E d \in Daemon :
    /\ client[c] = "spawn" /\ Launch(d)
    /\ spawned' = [spawned EXCEPT ![c] = d] /\ Go(c, "poll")
    /\ UNCHANGED <<feed, asked, removing, fds, file, pipe, told, stops, crashes, lock, stopVars>>

(* cmd.Start fails, here when no process slot is left. *)
SpawnFails(c) ==
    /\ client[c] = "spawn" /\ FreeSlots = {}
    /\ Go(c, "failed") /\ Unlock(c)
    /\ UNCHANGED <<daemonVars, stopVars, spawned>>

(* Until a ping is answered, or for 2 s: long enough for a daemon that     *)
(* comes up at all, unless it is slow.                                     *)
Poll(c) ==
    /\ client[c] = "poll"
    /\ \/ PingSucceeds /\ Go(c, "ready")
       \/ ~PingSucceeds /\ (Slow \/ daemon[spawned[c]] \notin Starting) /\ Go(c, "failed")
    /\ Unlock(c)
    /\ spawned' = [spawned EXCEPT ![c] = NoDaemon]
    /\ UNCHANGED <<daemonVars, stopVars>>

Done(c) == client[c] \in {"ready", "failed"} /\ Go(c, "idle")
           /\ UNCHANGED <<daemonVars, stopVars, lock, spawned>>

-----------------------------------------------------------------------------
(* runDaemonStop.  With no daemon to answer its ping it has succeeded.     *)
StopPing ==
    /\ stopper = "idle" /\ stops < Scope(world).stops
    /\ stops' = stops + 1
    /\ \/ PingSucceeds /\ stopper' = "call"
       \/ PingFails /\ stopper' = "stopped"
    /\ UNCHANGED <<daemon, feed, asked, removing, fds, file, pipe, told, crashes,
                   lock, client, spawned, target, gone>>

(* The answer brings the pid.  It may come after the deadline of 2 s, and  *)
(* then the daemon stops all the same.                                     *)
StopCall ==
    /\ stopper = "call"
    /\ \/ /\ PingSucceeds
          /\ told' = told \cup {file} /\ target' = file
          /\ stopper' = "watch"
       \/ /\ PingFails
          /\ told' = IF PingSucceeds THEN told \cup {file} ELSE told
          /\ stopper' = "failed" /\ UNCHANGED target
    /\ UNCHANGED <<daemon, feed, asked, removing, fds, file, pipe, stops, crashes,
                   lock, client, spawned, gone>>

Observe(what) == /\ gone' = gone \cup {what}
                 /\ UNCHANGED <<daemonVars, lock, client, spawned, stopper, target>>

SeeSocketGone == stopper = "watch" /\ "socket" \notin gone /\ PingFails /\ Observe("socket")

SeeProcessGone == /\ stopper = "watch" /\ "process" \notin gone
                  /\ daemon[target] = "exited"
                  /\ Observe("process")

(* The end of the loop, and its mutation: the socket alone is enough. *)
WrongStopped == "socket" \in gone

Stopped == gone = {"socket", "process"}

StopReturns ==
    /\ stopper = "watch"
    /\ \/ Stopped /\ stopper' = "stopped"
       \/ ~Stopped /\ stopper' = "failed"
    /\ UNCHANGED <<daemonVars, lock, client, spawned, target, gone>>

StopAgain == /\ stopper \in {"stopped", "failed"}
             /\ stopper' = "idle" /\ target' = NoDaemon /\ gone' = {}
             /\ UNCHANGED <<daemonVars, lock, client, spawned>>

-----------------------------------------------------------------------------
DaemonStep(d) == \/ Dial(d) \/ RemoveStale(d) \/ Bind(d) \/ StartController(d)
                 \/ Obey(d) \/ Unlink(d) \/ CloseListener(d) \/ Exit(d)

StopStep == StopCall \/ SeeSocketGone \/ SeeProcessGone \/ StopReturns

EnsureStep(c) == Ping(c) \/ Lock(c) \/ Recheck(c) \/ Spawn(c) \/ SpawnFails(c) \/ Poll(c)

DaemonsNext == /\ \/ \E d \in Daemon : \/ DaemonStep(d)
                                       \/ StartByHand(d) \/ Pipe(d) \/ Teardown(d)
                                       \/ Signalled(d) \/ RemoveAgain(d)
                                       \/ AcceptFails(d) \/ HardExit(d) \/ Crash(d)
                  \/ \E c \in Client : Begin(c) \/ EnsureStep(c) \/ Done(c)
                  \/ StopPing \/ StopStep \/ StopAgain
               /\ UNCHANGED world
               /\ died' = IF stopper' # "watch" THEN {}
                          ELSE died \cup {d \in Daemon : daemon[d] # "exited" /\ daemon'[d] = "exited"}

DaemonsSpec == DaemonsInit /\ [][DaemonsNext]_<<world, died, daemonsVars>>

(* Processes run, the flock is fair enough not to pass a waiter over for   *)
(* ever, and the hard-exit timer fires.  Nothing is assumed of teardown.   *)
DaemonsFairness ==
    /\ \A d \in Daemon : WF_daemonsVars(DaemonStep(d)) /\ WF_daemonsVars(HardExit(d))
    /\ \A c \in Client : WF_daemonsVars(EnsureStep(c)) /\ SF_daemonsVars(Lock(c))
    /\ WF_daemonsVars(StopStep)

FairDaemonsSpec == DaemonsSpec /\ DaemonsFairness

-----------------------------------------------------------------------------
(* Types, and where the lock may be held: only between flock and the       *)
(* deferred release.                                                       *)
DaemonsTypeOK ==
    /\ daemon \in [Daemon -> DaemonPC]
    /\ feed \in [Daemon -> {"off", "untracked", "tracked", "torn"}]
    /\ asked \subseteq Daemon /\ removing \subseteq asked /\ fds \subseteq Daemon
    /\ {file, pipe} \subseteq Daemon \cup {NoDaemon}
    /\ \A c \in Client : lock = c => client[c] \in {"recheck", "spawn", "poll"}
    /\ lock \in Client \cup {NoClient}
    /\ client \in [Client -> ClientPC]
    /\ spawned \in [Client -> Daemon \cup {NoDaemon}]
    /\ told \subseteq Daemon /\ target \in Daemon \cup {NoDaemon}
    /\ stopper \in StopPC /\ gone \subseteq {"socket", "process"} /\ died \subseteq Daemon

(* A machine on which daemons are only started by EnsureDaemon, come up in *)
(* time, and are stopped by nothing but a crash or an Accept that fails.   *)
Calm == ~Slow /\ ~Scope(world).byHand /\ Scope(world).stops = 0

(* At most one controller is active for a tmux server (spec 11.5, 17.31):  *)
(* no two daemons listen that were not asked to stop.                      *)
AtMostOneController == Calm => Cardinality(fds \ asked) <= 1

(* A CLI invocation that finds no daemon gets one, unless a daemon was     *)
(* killed or could not accept (spec 11.5 "Callers either connect           *)
(* successfully ..."): the lock, the second ping and Listen's own dial     *)
(* never work against each other.                                          *)
FailedMeansKilled == Calm => \A c \in Client : client[c] = "failed" => crashes > 0

(* The controller that clients reach has its pane's output piped to it,    *)
(* from the moment it tracks the pane (subscribe_unix.go:17).              *)
TrackedIsPiped == \A d \in Daemon : feed[d] = "tracked" /\ d \notin asked => pipe = d

(* Every EnsureDaemon ends: no client waits for ever on the lock or on a   *)
(* daemon that does not come up (spec 11.5 "after a bounded retry path").  *)
EnsureEnds == \A c \in Client : client[c] = "ping" ~> client[c] \in {"ready", "failed"}

(* A daemon asked to stop is gone in the end, even if its handlers or its  *)
(* teardown hang (daemon.go:27-33), and so is one that has only promised   *)
(* to, in answer to OpShutdown (server.go:113-116).                        *)
ShutdownTerminates == \A d \in Daemon : d \in told \cup asked ~> daemon[d] = "exited"

(* When `daemon --stop` reports a clean stop, the process that answered it *)
(* has ended since, and with it its teardown of pipes and its removals of  *)
(* the socket: that the socket cannot be reached may be a slow ping's      *)
(* doing, and whoever listens there may be a successor in the same slot    *)
(* (daemon.go:193-196).                                                    *)
StopMeansGone == [][stopper = "watch" /\ stopper' = "stopped" => target \in died]_daemonsVars
=============================================================================
