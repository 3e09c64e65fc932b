------------------------------- MODULE Tunnel -------------------------------
(***************************************************************************)
(* SSH-bootstrapped workers: the bootstrap protocol, keepalive and close of  *)
(* one tunnel (internal/sshtunnel/tunnel.go), the registry of spawned        *)
(* workers with its spawn and despawn handlers                               *)
(* (internal/web/spawn_handlers.go) and the shutdown of the master.          *)
(*                                                                         *)
(* A spawn takes up to a minute and is registered only when it returned.     *)
(* Workers are found by pkill through their bind address, so two tunnels to  *)
(* one machine reach each other's worker; one that was installed under       *)
(* another name is not found.  pkill sends SIGTERM, which a worker traps to  *)
(* shut down.  A session may stall: requests on it wait until it answers     *)
(* again or TCP gives up.                                                    *)
(***************************************************************************)
EXTENDS Integers, FiniteSets

CONSTANTS
    Spawns,         \* spawn requests, one tunnel each
    Machines,       \* remote hosts; every worker binds the default address
    Named,          \* workers whose command line pkill's pattern matches; a
                    \* request may name another path for its binary
    MaxFails,       \* keepAliveMaxFails
    Orphan,         \* a worker that an earlier master left behind
    NoSpawn

ASSUME TunnelAssumption ==
    /\ MaxFails \in Nat \ {0} /\ Orphan \notin Spawns
    /\ NoSpawn \notin Spawns \cup Machines \cup {Orphan}
    /\ Named \subseteq Spawns \cup {Orphan}

VARIABLES
    master,         \* "up", "stopping" (closeAllSpawned), "exited"
    spawn,          \* per request: the bootstrap step, then "up", "failed", "despawned"
    machine,        \* per request: the remote host
    session,        \* per tunnel: "none", "open", "stalled", "lost", "closed"
    running,        \* per machine: the spawn whose worker holds the address
    dying,          \* machines whose worker got the SIGTERM and still runs
    listed,         \* spawnedByID
    closing,        \* per tunnel: Close is at "no", "kill", "session", "wait", "done"
    tasks,          \* per tunnel: goroutines in its WaitGroup
    pings,          \* per tunnel: keepalives failed in a row
    shutting,        \* what closeAllSpawned took and has not closed yet
    unreached       \* tunnels whose last pkill did not run

remote == <<running, dying>>

tunnelVars == <<master, spawn, machine, session, remote, listed, closing, tasks, pings,
                shutting, unreached>>

TunnelInit ==
    /\ master = "up"
    /\ spawn = [s \in Spawns |-> "idle"] /\ machine = [s \in Spawns |-> NoSpawn]
    /\ session = [s \in Spawns |-> "none"] /\ running \in [Machines -> {NoSpawn, Orphan}]
    /\ listed = {} /\ closing = [s \in Spawns |-> "no"]
    /\ tasks = [s \in Spawns |-> {}] /\ pings = [s \in Spawns |-> 0]
    /\ dying = {} /\ shutting = {} /\ unreached = {}

SpawnAt(s, pc) == spawn[s] = pc /\ master # "exited"
SpawnGoes(s, pc) == spawn' = [spawn EXCEPT ![s] = pc]

\* A command over the session runs only when the session is open, waits while
\* it is stalled, and fails when it is lost; it may fail on an open one too.
Reaches(s) == session[s] = "open"
Waits(s) == session[s] = "stalled"

\* pkill -f 'sftp-loadtest -addr ...' on the machine: a signal to the worker
\* there, if it was started under that name.
Pkill(m) ==
    /\ dying' = IF running[m] \in Named THEN dying \cup {m} ELSE dying
    /\ UNCHANGED running

\* runExec of a pkill: it runs, or fails and nobody looks at the error.
TryPkill(s) ==
    \/ Reaches(s) /\ Pkill(machine[s]) /\ unreached' = unreached \ {s}
    \/ ~Waits(s) /\ unreached' = unreached \cup {s} /\ UNCHANGED remote

-----------------------------------------------------------------------------
(* Spawn.                                                                   *)

SpawnBegins(s) ==
    /\ SpawnAt(s, "idle") /\ master = "up"
    /\ \E m \in Machines : machine' = [machine EXCEPT ![s] = m]
    /\ SpawnGoes(s, "dial")
    /\ UNCHANGED <<master, session, remote, listed, closing, tasks, pings, shutting, unreached>>

\* dialSSHContext connects, fails, ...
DialSsh(s) ==
    /\ SpawnAt(s, "dial")
    /\ \/ SpawnGoes(s, "reap") /\ session' = [session EXCEPT ![s] = "open"]
       \/ SpawnGoes(s, "failed") /\ UNCHANGED session
    /\ UNCHANGED <<master, machine, remote, listed, closing, tasks, pings, shutting, unreached>>

\* ... or the request is cancelled first; the dial goes on by itself.
DialAbandoned(s) ==
    /\ SpawnAt(s, "dial")
    /\ SpawnGoes(s, "failed")
    /\ session' \in {session, [session EXCEPT ![s] = "open"]}
    /\ UNCHANGED <<master, machine, remote, listed, closing, tasks, pings, shutting, unreached>>

\* A spawn that trusts the address to be free.
ReapSkipped(s) ==
    /\ SpawnAt(s, "reap")
    /\ SpawnGoes(s, "install")
    /\ UNCHANGED <<master, machine, session, remote, listed, closing, tasks, pings, shutting, unreached>>

\* pkill-orphans; an error is only logged.
ReapOrphans(s) ==
    /\ SpawnAt(s, "reap")
    /\ TryPkill(s)
    /\ SpawnGoes(s, "install")
    /\ UNCHANGED <<master, machine, session, listed, closing, tasks, pings, shutting>>

\* arch-detect, install and smoke succeed.
Install(s) ==
    /\ SpawnAt(s, "install") /\ Reaches(s)
    /\ SpawnGoes(s, "process")
    /\ UNCHANGED <<master, machine, session, remote, listed, closing, tasks, pings, shutting, unreached>>

\* nohup: the worker exits at once when the address is taken, if only by one
\* that is shutting down.
SpawnProcess(s) ==
    /\ SpawnAt(s, "process") /\ Reaches(s)
    /\ running' = IF running[machine[s]] = NoSpawn
                  THEN [running EXCEPT ![machine[s]] = s] ELSE running
    /\ SpawnGoes(s, "ready")
    /\ UNCHANGED <<master, machine, session, dying, listed, closing, tasks, pings, shutting, unreached>>

\* waitRemoteReady: anyone who answers on the address will do.
WaitReady(s) ==
    /\ SpawnAt(s, "ready") /\ Reaches(s) /\ running[machine[s]] # NoSpawn
    /\ SpawnGoes(s, "listen")
    /\ UNCHANGED <<master, machine, session, remote, listed, closing, tasks, pings, shutting, unreached>>

\* The listener, the accept loop and the keepalive loop.
OpenListener(s) ==
    /\ SpawnAt(s, "listen")
    /\ tasks' = [tasks EXCEPT ![s] = {"accept", "keepalive"}]
    /\ SpawnGoes(s, "register")
    /\ UNCHANGED <<master, machine, session, remote, listed, closing, pings, shutting, unreached>>

\* Close's first caller: the flag, the cancel and the listener.
BeginClose(s) == closing' = [closing EXCEPT ![s] = IF @ = "no" THEN "kill" ELSE @]

\* finish: the step (arch-detect and smoke included) fails, the tunnel is
\* closed before Spawn returns.  The nohup command may have started the
\* worker and failed all the same.
StepFails(s) ==
    /\ spawn[s] \in {"reap", "install", "process", "ready", "listen"} /\ master # "exited"
    /\ SpawnGoes(s, "finish") /\ BeginClose(s)
    /\ running' \in {running} \cup
         (IF spawn[s] = "process" /\ running[machine[s]] = NoSpawn
          THEN {[running EXCEPT ![machine[s]] = s]} ELSE {})
    /\ UNCHANGED <<master, machine, session, dying, listed, tasks, pings, shutting, unreached>>

SpawnFailed(s) ==
    /\ SpawnAt(s, "finish") /\ closing[s] = "done"
    /\ SpawnGoes(s, "failed")
    /\ UNCHANGED <<master, machine, session, remote, listed, closing, tasks, pings, shutting, unreached>>

\* The handler registers the tunnel and answers.
RegisterWorker(s) ==
    /\ SpawnAt(s, "register")
    /\ listed' = listed \cup {s}
    /\ SpawnGoes(s, "up")
    /\ UNCHANGED <<master, machine, session, remote, closing, tasks, pings, shutting, unreached>>

-----------------------------------------------------------------------------
(* Keepalive, the accept loop and Close.                                    *)

\* keepAliveLoop that closes the tunnel from its own goroutine.
PingClosesItself(s) ==
    /\ "keepalive" \in tasks[s] /\ closing[s] = "no" /\ ~Waits(s)
    /\ pings' = [pings EXCEPT ![s] = @ + 1]
    /\ IF pings'[s] >= MaxFails
       THEN BeginClose(s) /\ tasks' = [tasks EXCEPT ![s] = @ \cup {"closing"}]
       ELSE UNCHANGED <<closing, tasks>>
    /\ UNCHANGED <<master, spawn, machine, session, remote, listed, shutting, unreached>>

\* A ping fails, surely on a lost session; the last one in a row starts a
\* Close and returns.
PingFails(s) ==
    /\ "keepalive" \in tasks[s] /\ closing[s] = "no" /\ ~Waits(s)
    /\ pings' = [pings EXCEPT ![s] = @ + 1]
    /\ IF pings'[s] >= MaxFails
       THEN BeginClose(s) /\ tasks' = [tasks EXCEPT ![s] = @ \ {"keepalive"}]
       ELSE UNCHANGED <<closing, tasks>>
    /\ UNCHANGED <<master, spawn, machine, session, remote, listed, shutting, unreached>>

\* "keepalive recovered".
PingAnswered(s) ==
    /\ "keepalive" \in tasks[s] /\ closing[s] = "no" /\ Reaches(s) /\ pings[s] > 0
    /\ pings' = [pings EXCEPT ![s] = 0]
    /\ UNCHANGED <<master, spawn, machine, session, remote, listed, closing, tasks, shutting, unreached>>

\* A request through the tunnel is forwarded until either side ends.
Forward(s) ==
    /\ "accept" \in tasks[s] /\ spawn[s] = "up" /\ closing[s] = "no" /\ Reaches(s)
    /\ tasks' = [tasks EXCEPT ![s] = @ \cup {"forward"}]
    /\ UNCHANGED <<master, spawn, machine, session, remote, listed, closing, pings, shutting, unreached>>

\* The loops see the cancelled context, a forwarded connection the end of
\* the session or of its peer.
TaskEnds(s, t) ==
    /\ t \in tasks[s] /\ master # "exited"
    /\ t \in {"accept", "keepalive"} => closing[s] # "no"
    /\ tasks' = [tasks EXCEPT ![s] = @ \ {t}]
    /\ UNCHANGED <<master, spawn, machine, session, remote, listed, closing, pings, shutting, unreached>>

\* A Close that only kills a worker it has registered.
KillListed(s) ==
    /\ closing[s] = "kill" /\ master # "exited"
    /\ IF spawn[s] = "finish" THEN UNCHANGED <<remote, unreached>> ELSE TryPkill(s)
    /\ closing' = [closing EXCEPT ![s] = "session"]
    /\ UNCHANGED <<master, spawn, machine, session, listed, tasks, pings, shutting>>

\* Close: pkill on the remote, best effort, ...
KillRemote(s) ==
    /\ closing[s] = "kill" /\ master # "exited"
    /\ TryPkill(s)
    /\ closing' = [closing EXCEPT ![s] = "session"]
    /\ UNCHANGED <<master, spawn, machine, session, listed, tasks, pings, shutting>>

\* ... the session, and the wait for the goroutines.
CloseSession(s) ==
    /\ closing[s] = "session" /\ master # "exited"
    /\ closing' = [closing EXCEPT ![s] = "wait"]
    /\ session' = [session EXCEPT ![s] = "closed"]
    /\ UNCHANGED <<master, spawn, machine, remote, listed, tasks, pings, shutting, unreached>>

CloseReturns(s) ==
    /\ closing[s] = "wait" /\ tasks[s] = {} /\ master # "exited"
    /\ closing' = [closing EXCEPT ![s] = "done"]
    /\ UNCHANGED <<master, spawn, machine, session, remote, listed, tasks, pings, shutting, unreached>>

\* handleWorkerDespawn: out of the registry, then Close.
Despawn(s) ==
    /\ s \in listed /\ master # "exited"
    /\ listed' = listed \ {s}
    /\ SpawnGoes(s, "despawned")
    /\ BeginClose(s)
    /\ UNCHANGED <<master, machine, session, remote, tasks, pings, shutting, unreached>>

-----------------------------------------------------------------------------
(* The network and the master.                                              *)

\* External: a worker that got the signal stops listening and exits, ...
WorkerExits(m) ==
    /\ m \in dying
    /\ running' = [running EXCEPT ![m] = NoSpawn] /\ dying' = dying \ {m}
    /\ UNCHANGED <<master, spawn, machine, session, listed, closing, tasks, pings, shutting, unreached>>

\* ... a session goes silent, answers again, TCP gives up on it.
Stall(s) ==
    /\ session[s] = "open" /\ master = "up"
    /\ session' = [session EXCEPT ![s] = "stalled"]
    /\ UNCHANGED <<master, spawn, machine, remote, listed, closing, tasks, pings, shutting, unreached>>

Recover(s) ==
    /\ Waits(s)
    /\ session' = [session EXCEPT ![s] = "open"]
    /\ UNCHANGED <<master, spawn, machine, remote, listed, closing, tasks, pings, shutting, unreached>>

GiveUp(s) ==
    /\ Waits(s)
    /\ session' = [session EXCEPT ![s] = "lost"]
    /\ UNCHANGED <<master, spawn, machine, remote, listed, closing, tasks, pings, shutting, unreached>>

\* main returns from ListenAndServe: Shutdown takes the registered tunnels, ...
ShutdownBegins ==
    /\ master = "up"
    /\ master' = "stopping"
    /\ shutting' = listed /\ listed' = {}
    /\ UNCHANGED <<spawn, machine, session, remote, closing, tasks, pings, unreached>>

\* ... closes one after the other, ...
ShutdownCloses(s) ==
    /\ master = "stopping" /\ s \in shutting
    /\ \/ closing[s] = "no" /\ BeginClose(s) /\ UNCHANGED shutting
       \/ closing[s] = "done" /\ shutting' = shutting \ {s} /\ UNCHANGED closing
    /\ UNCHANGED <<master, spawn, machine, session, remote, listed, tasks, pings, unreached>>

\* ... passes over one whose keepalive loop is closing it, ...
ShutdownPasses(s) ==
    /\ master = "stopping" /\ s \in shutting
    /\ closing[s] \notin {"no", "done"} /\ pings[s] >= MaxFails
    /\ shutting' = shutting \ {s}
    /\ UNCHANGED <<master, spawn, machine, session, remote, listed, closing, tasks, pings, unreached>>

\* ... and the process ends, whatever its requests are doing.
MasterExits ==
    /\ master = "stopping" /\ shutting = {}
    /\ master' = "exited"
    /\ session' = [s \in Spawns |-> IF session[s] = "none" THEN "none" ELSE "closed"]
    /\ UNCHANGED <<spawn, machine, remote, listed, closing, tasks, pings, shutting, unreached>>

SpawnStep(s) ==
    \/ DialSsh(s) \/ ReapOrphans(s) \/ Install(s) \/ SpawnProcess(s) \/ WaitReady(s)
    \/ OpenListener(s) \/ SpawnFailed(s) \/ RegisterWorker(s)

CloseStep(s) == KillRemote(s) \/ CloseSession(s) \/ CloseReturns(s)

TunnelNext ==
    \/ \E s \in Spawns :
         \/ SpawnBegins(s) \/ SpawnStep(s) \/ DialAbandoned(s) \/ StepFails(s)
         \/ PingFails(s) \/ PingAnswered(s) \/ Forward(s) \/ \E t \in tasks[s] : TaskEnds(s, t)
         \/ CloseStep(s) \/ Despawn(s)
         \/ Stall(s) \/ Recover(s) \/ GiveUp(s) \/ ShutdownCloses(s) \/ ShutdownPasses(s)
    \/ \E m \in Machines : WorkerExits(m)
    \/ ShutdownBegins \/ MasterExits

TunnelSpec == TunnelInit /\ [][TunnelNext]_tunnelVars

\* TCP gives up on a peer that stays silent, a ping fails on a lost session,
\* and as long as a goroutine of a tunnel can run, some goroutine of it does.
TunnelStep(s) ==
    \/ GiveUp(s) \/ (PingFails(s) /\ ~Reaches(s)) \/ CloseStep(s)
    \/ \E t \in {"accept", "keepalive", "forward"} : TaskEnds(s, t)

FairTunnel == \A s \in Spawns : WF_tunnelVars(TunnelStep(s))

FairTunnelSpec == TunnelSpec /\ FairTunnel

-----------------------------------------------------------------------------
(* Properties.                                                              *)

\* A tunnel whose Close returned, after a failed step, a despawn, a lost
\* session or the shutdown, and however those overlapped, left no worker of
\* its own that pkill finds by its name and that was not told to stop, unless
\* the pkill itself did not run (tunnel.go:216-223, 764-797).
ClosedTunnelsStopTheirWorker ==
    \A s \in Spawns : (closing[s] = "done" /\ s \notin unreached /\ s \in Named
                       /\ running[machine[s]] = s) => machine[s] \in dying

\* A registered tunnel that nobody closes, and whose defensive pkill ran, does
\* not lead to a leftover of an earlier master under the usual name, except
\* one that is shutting down (tunnel.go:271-402).
LeftoversReaped ==
    \A s \in Spawns : (spawn[s] \in {"register", "up"} /\ closing[s] = "no"
                       /\ s \notin unreached /\ Orphan \in Named)
        => (running[machine[s]] # Orphan \/ machine[s] \in dying)

\* No tunnel is left for ever with a session that does not work: it works
\* again, or the keepalive loop notices without a poll, counts to its limit and
\* does not wait for itself, and Close returns (tunnel.go:424-471, 764-797).
LostSessionsClosed ==
    \A s \in Spawns : []<>(spawn[s] \in {"up", "despawned"} =>
        (session[s] = "open" \/ closing[s] = "done" \/ master = "exited"))

\* "Defensive cleanup of any orphan from a previous master" (tunnel.go:271), as
\* a promise: a registered tunnel that nobody closes leads to the worker its
\* own spawn started, if no other request spawned on that machine.
TunnelServesItsWorker ==
    \A s \in Spawns : (spawn[s] \in {"register", "up"} /\ closing[s] = "no"
                       /\ \A t \in Spawns \ {s} : machine[t] # machine[s])
        => running[machine[s]] = s

\* The same comment, as a limit: a spawn tells no worker to stop that a live
\* tunnel leads to.
OnlyOrphansReaped ==
    [][\A s \in Spawns : SpawnAt(s, "reap") /\ spawn'[s] = "install" =>
         \A t \in listed : closing[t] = "no" /\ machine[t] \in dying' => machine[t] \in dying]_tunnelVars

\* "On any failure every resource opened so far is torn down before the error
\* returns" (tunnel.go:142-143): a failed spawn has no session left open.
FailedSpawnsAreClosed ==
    \A s \in Spawns : SpawnAt(s, "failed") => session[s] \in {"none", "closed"} /\ tasks[s] = {}

\* "so the master never leaves orphan SSH sessions or remote sftp-loadtest
\* processes behind" (web.go:179-180): true of workers pkill finds by name, as
\* far as sessions still worked.
ExitLeavesNoWorker ==
    master = "exited" => \A m \in Machines : running[m] \notin Spawns \/ m \in dying
=============================================================================
