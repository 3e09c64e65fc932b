--------------------------- MODULE RuntimeProofs ----------------------------
(***************************************************************************)
(* What surrounds a run, proved for any number of slots and transfers and  *)
(* for any set of spawned workers and machines: a user's connection pool   *)
(* closes what it dialled, a closed tunnel has stopped its worker, a       *)
(* registered tunnel leads to no leftover it reaped, the semaphore's       *)
(* tokens are the uploads in flight, "max-failures" is never claimed while *)
(* a user could still upload, the shutdown leaves no download worker in a  *)
(* List call that nobody ends, and a percentile read while samples arrive  *)
(* is one of a set of samples between those of its start and of its end.   *)
(***************************************************************************)
EXTENDS ClientPool, Tunnel, RunControl, ListClients, Latency, FiniteSetTheorems, TLAPS

ConnState == {"open", "dropped", "closed"}

Transfer ==
    [pc : {"idle", "pick", "dial", "move", "mark", "panic"}, start : Nat, try : Nat,
     s : SlotIds, c : Nat]

PoolTypeOK ==
    /\ conns \in Seq(ConnState)
    /\ slotConn \in [SlotIds -> Nat]
    /\ \A s \in SlotIds : slotConn[s] <= Len(conns)
    /\ slotMu \in [SlotIds -> Movers \cup {NoMover}]
    /\ idx \in Nat /\ closed \in 0..Slots
    /\ pool \in {"building", "up", "closing", "gone"}
    /\ mover \in [Movers -> Transfer]

(* A connection that is not closed is the one its slot holds: a redial     *)
(* never overwrites one.                                                   *)
OpenHeld ==
    \A c \in 1..Len(conns) : conns[c] # "closed" => \E s \in SlotIds : slotConn[s] = c

(* A transfer that dials has the slot's mutex, and the slot is empty.      *)
DialsAlone ==
    \A m \in Movers : MoverAt(m, "dial") =>
        slotMu[mover[m].s] = m /\ slotConn[mover[m].s] = 0

(* A pool that is being built, or that was torn down after its transfers,  *)
(* has none.                                                               *)
QuietPool ==
    pool = "building" \/ (pool \in {"closing", "gone"} /\ ~Forced) =>
        \A m \in Movers : MoverAt(m, "idle")

(* What closeAll has been through stays empty.                             *)
ClosedSlotsEmpty ==
    /\ pool \in {"building", "up"} => closed = 0
    /\ ~Forced => \A s \in SlotIds : s < closed \/ pool = "gone" => slotConn[s] = 0

PoolInv == PoolTypeOK /\ OpenHeld /\ DialsAlone /\ QuietPool /\ ClosedSlotsEmpty
-----------------------------------------------------------------------------
(* A worker is started before the tunnel's Close can begin.                *)
CloseAfterStart ==
    \A s \in Spawns :
      /\ closing[s] # "no" => spawn[s] \in {"finish", "failed", "register", "up", "despawned"}
      /\ tasks[s] # {} => spawn[s] \in {"register", "up", "despawned"}
      /\ s \in listed => spawn[s] = "up"
      /\ s \in shutting => spawn[s] = "up" /\ s \notin listed
      /\ spawn[s] # "idle" => machine[s] \in Machines
      /\ spawn[s] = "idle" => machine[s] = NoSpawn

(* From its pkill on, a Close has told the worker to stop.                 *)
StoppedStaysStopped ==
    \A s \in Spawns : closing[s] \in {"session", "wait", "done"} /\ s \notin unreached
        /\ s \in Named /\ running[machine[s]] = s => machine[s] \in dying

(* A leftover does not come back after the defensive pkill.                *)
ReapedStaysReaped ==
    \A s \in Spawns :
      (/\ spawn[s] \in {"install", "process", "ready", "listen", "register", "up"}
       /\ closing[s] = "no" /\ s \notin unreached /\ Orphan \in Named)
      => running[machine[s]] # Orphan \/ machine[s] \in dying

TunnelTypeOK ==
    /\ spawn \in [Spawns -> {"idle", "dial", "reap", "install", "process", "ready", "listen",
                             "register", "up", "finish", "failed", "despawned"}]
    /\ machine \in [Spawns -> Machines \cup {NoSpawn}]
    /\ session \in [Spawns -> {"none", "open", "stalled", "lost", "closed"}]
    /\ running \in [Machines -> Spawns \cup {NoSpawn, Orphan}]
    /\ listed \subseteq Spawns /\ shutting \subseteq Spawns
    /\ closing \in [Spawns -> {"no", "kill", "session", "wait", "done"}]
    /\ tasks \in [Spawns -> SUBSET {"accept", "keepalive", "forward"}]
    /\ pings \in [Spawns -> Nat]
    /\ dying \subseteq Machines /\ unreached \subseteq Spawns

TunnelInv == TunnelTypeOK /\ CloseAfterStart /\ StoppedStaysStopped /\ ReapedStaysReaped
-----------------------------------------------------------------------------
(* Type correctness of the tunnels, action by action.                      *)
LEMMA TunnelTypeStep ==
  ASSUME TunnelTypeOK, CloseAfterStart, [TunnelNext]_tunnelVars
  PROVE  TunnelTypeOK'
<1> USE TunnelAssumption DEF TunnelTypeOK
<1>1. ASSUME NEW s \in Spawns, SpawnBegins(s) PROVE TunnelTypeOK'
  BY <1>1 DEF SpawnBegins, SpawnAt, SpawnGoes, Pkill, TryPkill, remote, BeginClose, CloseAfterStart
<1>2. ASSUME NEW s \in Spawns, DialSsh(s) PROVE TunnelTypeOK'
  BY <1>2 DEF DialSsh, SpawnAt, SpawnGoes, Pkill, TryPkill, remote, BeginClose, CloseAfterStart
<1>3. ASSUME NEW s \in Spawns, DialAbandoned(s) PROVE TunnelTypeOK'
  BY <1>3 DEF DialAbandoned, SpawnAt, SpawnGoes, Pkill, TryPkill, remote, BeginClose, CloseAfterStart
<1>4. ASSUME NEW s \in Spawns, ReapOrphans(s) PROVE TunnelTypeOK'
  BY <1>4 DEF ReapOrphans, SpawnAt, SpawnGoes, Pkill, TryPkill, remote, BeginClose, CloseAfterStart
<1>5. ASSUME NEW s \in Spawns, Install(s) PROVE TunnelTypeOK'
  BY <1>5 DEF Install, SpawnAt, SpawnGoes, Pkill, TryPkill, remote, BeginClose, CloseAfterStart
<1>6. ASSUME NEW s \in Spawns, SpawnProcess(s) PROVE TunnelTypeOK'
  BY <1>6 DEF SpawnProcess, SpawnAt, SpawnGoes, Pkill, TryPkill, remote, BeginClose, CloseAfterStart
<1>7. ASSUME NEW s \in Spawns, WaitReady(s) PROVE TunnelTypeOK'
  BY <1>7 DEF WaitReady, SpawnAt, SpawnGoes, Pkill, TryPkill, remote, BeginClose, CloseAfterStart
<1>8. ASSUME NEW s \in Spawns, OpenListener(s) PROVE TunnelTypeOK'
  BY <1>8 DEF OpenListener, SpawnAt, SpawnGoes, Pkill, TryPkill, remote, BeginClose, CloseAfterStart
<1>9. ASSUME NEW s \in Spawns, SpawnFailed(s) PROVE TunnelTypeOK'
  BY <1>9 DEF SpawnFailed, SpawnAt, SpawnGoes, Pkill, TryPkill, remote, BeginClose, CloseAfterStart
<1>10. ASSUME NEW s \in Spawns, RegisterWorker(s) PROVE TunnelTypeOK'
  BY <1>10 DEF RegisterWorker, SpawnAt, SpawnGoes, Pkill, TryPkill, remote, BeginClose, CloseAfterStart
<1>11. ASSUME NEW s \in Spawns, StepFails(s) PROVE TunnelTypeOK'
  BY <1>11 DEF StepFails, SpawnAt, SpawnGoes, Pkill, TryPkill, remote, BeginClose, CloseAfterStart
<1>12. ASSUME NEW s \in Spawns, PingFails(s) PROVE TunnelTypeOK'
  BY <1>12 DEF PingFails, SpawnAt, SpawnGoes, Pkill, TryPkill, remote, BeginClose, CloseAfterStart
<1>13. ASSUME NEW s \in Spawns, Forward(s) PROVE TunnelTypeOK'
  BY <1>13 DEF Forward, SpawnAt, SpawnGoes, Pkill, TryPkill, remote, BeginClose, CloseAfterStart
<1>14. ASSUME NEW s \in Spawns, KillRemote(s) PROVE TunnelTypeOK'
  BY <1>14 DEF KillRemote, SpawnAt, SpawnGoes, Pkill, TryPkill, remote, BeginClose, CloseAfterStart
<1>15. ASSUME NEW s \in Spawns, CloseSession(s) PROVE TunnelTypeOK'
  BY <1>15 DEF CloseSession, SpawnAt, SpawnGoes, Pkill, TryPkill, remote, BeginClose, CloseAfterStart
<1>16. ASSUME NEW s \in Spawns, CloseReturns(s) PROVE TunnelTypeOK'
  BY <1>16 DEF CloseReturns, SpawnAt, SpawnGoes, Pkill, TryPkill, remote, BeginClose, CloseAfterStart
<1>17. ASSUME NEW s \in Spawns, Despawn(s) PROVE TunnelTypeOK'
  BY <1>17 DEF Despawn, SpawnAt, SpawnGoes, Pkill, TryPkill, remote, BeginClose, CloseAfterStart
<1>18. ASSUME NEW s \in Spawns, Stall(s) PROVE TunnelTypeOK'
  BY <1>18 DEF Stall, SpawnAt, SpawnGoes, Pkill, TryPkill, remote, BeginClose, CloseAfterStart
<1>19. ASSUME NEW s \in Spawns, GiveUp(s) PROVE TunnelTypeOK'
  BY <1>19 DEF GiveUp, SpawnAt, SpawnGoes, Pkill, TryPkill, remote, BeginClose, CloseAfterStart
<1>20. ASSUME NEW s \in Spawns, ShutdownCloses(s) PROVE TunnelTypeOK'
  BY <1>20 DEF ShutdownCloses, SpawnAt, SpawnGoes, Pkill, TryPkill, remote, BeginClose, CloseAfterStart
<1>21. ASSUME NEW s \in Spawns, ShutdownPasses(s) PROVE TunnelTypeOK'
  BY <1>21 DEF ShutdownPasses, SpawnAt, SpawnGoes, Pkill, TryPkill, remote, BeginClose, CloseAfterStart
<1>22. ASSUME NEW s \in Spawns, NEW t \in tasks[s], TaskEnds(s, t) PROVE TunnelTypeOK'
  BY <1>22 DEF TaskEnds, SpawnAt, SpawnGoes, Pkill, TryPkill, remote, BeginClose, CloseAfterStart
<1>23. ASSUME NEW s \in Spawns, PingAnswered(s) PROVE TunnelTypeOK'
  BY <1>23 DEF PingAnswered, SpawnAt, SpawnGoes, Pkill, TryPkill, remote, BeginClose, CloseAfterStart
<1>24. ASSUME NEW s \in Spawns, Recover(s) PROVE TunnelTypeOK'
  BY <1>24 DEF Recover, SpawnAt, SpawnGoes, Pkill, TryPkill, remote, BeginClose, CloseAfterStart
<1>25. ASSUME NEW m \in Machines, WorkerExits(m) PROVE TunnelTypeOK'
  BY <1>25 DEF WorkerExits, SpawnAt, SpawnGoes, Pkill, TryPkill, remote, BeginClose, CloseAfterStart
<1>26. CASE ShutdownBegins
  BY <1>26 DEF ShutdownBegins, SpawnAt, SpawnGoes, Pkill, TryPkill, remote, BeginClose, CloseAfterStart
<1>27. CASE MasterExits
  BY <1>27 DEF MasterExits, SpawnAt, SpawnGoes, Pkill, TryPkill, remote, BeginClose, CloseAfterStart
<1>28. CASE UNCHANGED tunnelVars
  BY <1>28 DEF tunnelVars, SpawnAt, SpawnGoes, Pkill, TryPkill, remote, BeginClose, CloseAfterStart
<1> QED
  BY <1>1, <1>2, <1>3, <1>4, <1>5, <1>6, <1>7, <1>8, <1>9, <1>10, <1>11, <1>12, <1>13, <1>14, <1>15, <1>16, <1>17, <1>18, <1>19, <1>20, <1>21, <1>22, <1>23, <1>24, <1>25, <1>26,
     <1>27, <1>28
  DEF TunnelNext, SpawnStep, CloseStep

(* No step begins a Close before the worker is started.                    *)
LEMMA CloseAfterStartStep ==
  ASSUME TunnelTypeOK, CloseAfterStart, [TunnelNext]_tunnelVars
  PROVE  CloseAfterStart'
<1> USE TunnelAssumption DEF TunnelTypeOK, CloseAfterStart
<1>1. ASSUME NEW s \in Spawns, SpawnBegins(s) PROVE CloseAfterStart'
  BY <1>1 DEF SpawnBegins, SpawnAt, SpawnGoes, BeginClose, remote
<1>2. ASSUME NEW s \in Spawns, DialSsh(s) PROVE CloseAfterStart'
  BY <1>2 DEF DialSsh, SpawnAt, SpawnGoes, BeginClose, remote
<1>3. ASSUME NEW s \in Spawns, DialAbandoned(s) PROVE CloseAfterStart'
  BY <1>3 DEF DialAbandoned, SpawnAt, SpawnGoes, BeginClose, remote
<1>4. ASSUME NEW s \in Spawns, ReapOrphans(s) PROVE CloseAfterStart'
  BY <1>4 DEF ReapOrphans, SpawnAt, SpawnGoes, BeginClose, remote
<1>5. ASSUME NEW s \in Spawns, Install(s) PROVE CloseAfterStart'
  BY <1>5 DEF Install, SpawnAt, SpawnGoes, BeginClose, remote
<1>6. ASSUME NEW s \in Spawns, SpawnProcess(s) PROVE CloseAfterStart'
  BY <1>6 DEF SpawnProcess, SpawnAt, SpawnGoes, BeginClose, remote
<1>7. ASSUME NEW s \in Spawns, WaitReady(s) PROVE CloseAfterStart'
  BY <1>7 DEF WaitReady, SpawnAt, SpawnGoes, BeginClose, remote
<1>8. ASSUME NEW s \in Spawns, OpenListener(s) PROVE CloseAfterStart'
  BY <1>8 DEF OpenListener, SpawnAt, SpawnGoes, BeginClose, remote
<1>9. ASSUME NEW s \in Spawns, SpawnFailed(s) PROVE CloseAfterStart'
  BY <1>9 DEF SpawnFailed, SpawnAt, SpawnGoes, BeginClose, remote
<1>10. ASSUME NEW s \in Spawns, RegisterWorker(s) PROVE CloseAfterStart'
  BY <1>10 DEF RegisterWorker, SpawnAt, SpawnGoes, BeginClose, remote
<1>11. ASSUME NEW s \in Spawns, StepFails(s) PROVE CloseAfterStart'
  BY <1>11 DEF StepFails, SpawnAt, SpawnGoes, BeginClose, remote
<1>12. ASSUME NEW s \in Spawns, PingFails(s) PROVE CloseAfterStart'
  BY <1>12 DEF PingFails, SpawnAt, SpawnGoes, BeginClose, remote
<1>13. ASSUME NEW s \in Spawns, Forward(s) PROVE CloseAfterStart'
  BY <1>13 DEF Forward, SpawnAt, SpawnGoes, BeginClose, remote
<1>14. ASSUME NEW s \in Spawns, KillRemote(s) PROVE CloseAfterStart'
  BY <1>14 DEF KillRemote, SpawnAt, SpawnGoes, BeginClose, remote
<1>15. ASSUME NEW s \in Spawns, CloseSession(s) PROVE CloseAfterStart'
  BY <1>15 DEF CloseSession, SpawnAt, SpawnGoes, BeginClose, remote
<1>16. ASSUME NEW s \in Spawns, CloseReturns(s) PROVE CloseAfterStart'
  BY <1>16 DEF CloseReturns, SpawnAt, SpawnGoes, BeginClose, remote
<1>17. ASSUME NEW s \in Spawns, Despawn(s) PROVE CloseAfterStart'
  BY <1>17 DEF Despawn, SpawnAt, SpawnGoes, BeginClose, remote
<1>18. ASSUME NEW s \in Spawns, Stall(s) PROVE CloseAfterStart'
  BY <1>18 DEF Stall, SpawnAt, SpawnGoes, BeginClose, remote
<1>19. ASSUME NEW s \in Spawns, GiveUp(s) PROVE CloseAfterStart'
  BY <1>19 DEF GiveUp, SpawnAt, SpawnGoes, BeginClose, remote
<1>20. ASSUME NEW s \in Spawns, ShutdownCloses(s) PROVE CloseAfterStart'
  BY <1>20 DEF ShutdownCloses, SpawnAt, SpawnGoes, BeginClose, remote
<1>21. ASSUME NEW s \in Spawns, ShutdownPasses(s) PROVE CloseAfterStart'
  BY <1>21 DEF ShutdownPasses, SpawnAt, SpawnGoes, BeginClose, remote
<1>22. ASSUME NEW s \in Spawns, NEW t \in tasks[s], TaskEnds(s, t) PROVE CloseAfterStart'
  BY <1>22 DEF TaskEnds, SpawnAt, SpawnGoes, BeginClose, remote
<1>23. ASSUME NEW s \in Spawns, PingAnswered(s) PROVE CloseAfterStart'
  BY <1>23 DEF PingAnswered, SpawnAt, SpawnGoes, BeginClose, remote
<1>24. ASSUME NEW s \in Spawns, Recover(s) PROVE CloseAfterStart'
  BY <1>24 DEF Recover, SpawnAt, SpawnGoes, BeginClose, remote
<1>25. ASSUME NEW m \in Machines, WorkerExits(m) PROVE CloseAfterStart'
  BY <1>25 DEF WorkerExits, SpawnAt, SpawnGoes, BeginClose, remote
<1>26. CASE ShutdownBegins
  BY <1>26 DEF ShutdownBegins, SpawnAt, SpawnGoes, BeginClose, remote
<1>27. CASE MasterExits
  BY <1>27 DEF MasterExits, SpawnAt, SpawnGoes, BeginClose, remote
<1>28. CASE UNCHANGED tunnelVars
  BY <1>28 DEF tunnelVars, SpawnAt, SpawnGoes, BeginClose, remote
<1> QED
  BY <1>1, <1>2, <1>3, <1>4, <1>5, <1>6, <1>7, <1>8, <1>9, <1>10, <1>11, <1>12, <1>13, <1>14, <1>15, <1>16, <1>17, <1>18, <1>19, <1>20, <1>21, <1>22, <1>23, <1>24, <1>25, <1>26,
     <1>27, <1>28
  DEF TunnelNext, SpawnStep, CloseStep

(* No step starts the worker of a tunnel whose Close has stopped it.       *)
LEMMA StoppedStep ==
  ASSUME TunnelTypeOK, CloseAfterStart, StoppedStaysStopped, [TunnelNext]_tunnelVars
  PROVE  StoppedStaysStopped'
<1> USE TunnelAssumption DEF TunnelTypeOK, CloseAfterStart, StoppedStaysStopped
<1>1. ASSUME NEW s \in Spawns, SpawnBegins(s) PROVE StoppedStaysStopped'
  BY <1>1 DEF SpawnBegins, SpawnAt, SpawnGoes, Pkill, TryPkill, remote, BeginClose
<1>2. ASSUME NEW s \in Spawns, DialSsh(s) PROVE StoppedStaysStopped'
  BY <1>2 DEF DialSsh, SpawnAt, SpawnGoes, Pkill, TryPkill, remote, BeginClose
<1>3. ASSUME NEW s \in Spawns, DialAbandoned(s) PROVE StoppedStaysStopped'
  BY <1>3 DEF DialAbandoned, SpawnAt, SpawnGoes, Pkill, TryPkill, remote, BeginClose
<1>4. ASSUME NEW s \in Spawns, ReapOrphans(s) PROVE StoppedStaysStopped'
  BY <1>4 DEF ReapOrphans, SpawnAt, SpawnGoes, Pkill, TryPkill, remote, BeginClose
<1>5. ASSUME NEW s \in Spawns, Install(s) PROVE StoppedStaysStopped'
  BY <1>5 DEF Install, SpawnAt, SpawnGoes, Pkill, TryPkill, remote, BeginClose
<1>6. ASSUME NEW s \in Spawns, SpawnProcess(s) PROVE StoppedStaysStopped'
  BY <1>6 DEF SpawnProcess, SpawnAt, SpawnGoes, Pkill, TryPkill, remote, BeginClose
<1>7. ASSUME NEW s \in Spawns, WaitReady(s) PROVE StoppedStaysStopped'
  BY <1>7 DEF WaitReady, SpawnAt, SpawnGoes, Pkill, TryPkill, remote, BeginClose
<1>8. ASSUME NEW s \in Spawns, OpenListener(s) PROVE StoppedStaysStopped'
  BY <1>8 DEF OpenListener, SpawnAt, SpawnGoes, Pkill, TryPkill, remote, BeginClose
<1>9. ASSUME NEW s \in Spawns, SpawnFailed(s) PROVE StoppedStaysStopped'
  BY <1>9 DEF SpawnFailed, SpawnAt, SpawnGoes, Pkill, TryPkill, remote, BeginClose
<1>10. ASSUME NEW s \in Spawns, RegisterWorker(s) PROVE StoppedStaysStopped'
  BY <1>10 DEF RegisterWorker, SpawnAt, SpawnGoes, Pkill, TryPkill, remote, BeginClose
<1>11. ASSUME NEW s \in Spawns, StepFails(s) PROVE StoppedStaysStopped'
  BY <1>11 DEF StepFails, SpawnAt, SpawnGoes, Pkill, TryPkill, remote, BeginClose
<1>12. ASSUME NEW s \in Spawns, PingFails(s) PROVE StoppedStaysStopped'
  BY <1>12 DEF PingFails, SpawnAt, SpawnGoes, Pkill, TryPkill, remote, BeginClose
<1>13. ASSUME NEW s \in Spawns, Forward(s) PROVE StoppedStaysStopped'
  BY <1>13 DEF Forward, SpawnAt, SpawnGoes, Pkill, TryPkill, remote, BeginClose
<1>14. ASSUME NEW s \in Spawns, KillRemote(s) PROVE StoppedStaysStopped'
  BY <1>14 DEF KillRemote, SpawnAt, SpawnGoes, Pkill, TryPkill, remote, BeginClose
<1>15. ASSUME NEW s \in Spawns, CloseSession(s) PROVE StoppedStaysStopped'
  BY <1>15 DEF CloseSession, SpawnAt, SpawnGoes, Pkill, TryPkill, remote, BeginClose
<1>16. ASSUME NEW s \in Spawns, CloseReturns(s) PROVE StoppedStaysStopped'
  BY <1>16 DEF CloseReturns, SpawnAt, SpawnGoes, Pkill, TryPkill, remote, BeginClose
<1>17. ASSUME NEW s \in Spawns, Despawn(s) PROVE StoppedStaysStopped'
  BY <1>17 DEF Despawn, SpawnAt, SpawnGoes, Pkill, TryPkill, remote, BeginClose
<1>18. ASSUME NEW s \in Spawns, Stall(s) PROVE StoppedStaysStopped'
  BY <1>18 DEF Stall, SpawnAt, SpawnGoes, Pkill, TryPkill, remote, BeginClose
<1>19. ASSUME NEW s \in Spawns, GiveUp(s) PROVE StoppedStaysStopped'
  BY <1>19 DEF GiveUp, SpawnAt, SpawnGoes, Pkill, TryPkill, remote, BeginClose
<1>20. ASSUME NEW s \in Spawns, ShutdownCloses(s) PROVE StoppedStaysStopped'
  BY <1>20 DEF ShutdownCloses, SpawnAt, SpawnGoes, Pkill, TryPkill, remote, BeginClose
<1>21. ASSUME NEW s \in Spawns, ShutdownPasses(s) PROVE StoppedStaysStopped'
  BY <1>21 DEF ShutdownPasses, SpawnAt, SpawnGoes, Pkill, TryPkill, remote, BeginClose
<1>22. ASSUME NEW s \in Spawns, NEW t \in tasks[s], TaskEnds(s, t) PROVE StoppedStaysStopped'
  BY <1>22 DEF TaskEnds, SpawnAt, SpawnGoes, Pkill, TryPkill, remote, BeginClose
<1>23. ASSUME NEW s \in Spawns, PingAnswered(s) PROVE StoppedStaysStopped'
  BY <1>23 DEF PingAnswered, SpawnAt, SpawnGoes, Pkill, TryPkill, remote, BeginClose
<1>24. ASSUME NEW s \in Spawns, Recover(s) PROVE StoppedStaysStopped'
  BY <1>24 DEF Recover, SpawnAt, SpawnGoes, Pkill, TryPkill, remote, BeginClose
<1>25. ASSUME NEW m \in Machines, WorkerExits(m) PROVE StoppedStaysStopped'
  BY <1>25 DEF WorkerExits, SpawnAt, SpawnGoes, Pkill, TryPkill, remote, BeginClose
<1>26. CASE ShutdownBegins
  BY <1>26 DEF ShutdownBegins, SpawnAt, SpawnGoes, Pkill, TryPkill, remote, BeginClose
<1>27. CASE MasterExits
  BY <1>27 DEF MasterExits, SpawnAt, SpawnGoes, Pkill, TryPkill, remote, BeginClose
<1>28. CASE UNCHANGED tunnelVars
  BY <1>28 DEF tunnelVars, SpawnAt, SpawnGoes, Pkill, TryPkill, remote, BeginClose
<1> QED
  BY <1>1, <1>2, <1>3, <1>4, <1>5, <1>6, <1>7, <1>8, <1>9, <1>10, <1>11, <1>12, <1>13, <1>14, <1>15, <1>16, <1>17, <1>18, <1>19, <1>20, <1>21, <1>22, <1>23, <1>24, <1>25, <1>26,
     <1>27, <1>28
  DEF TunnelNext, SpawnStep, CloseStep

(* No step starts a leftover of an earlier master.                         *)
LEMMA ReapedStep ==
  ASSUME TunnelTypeOK, CloseAfterStart, ReapedStaysReaped, [TunnelNext]_tunnelVars
  PROVE  ReapedStaysReaped'
<1> USE TunnelAssumption DEF TunnelTypeOK, CloseAfterStart, ReapedStaysReaped
<1>1. ASSUME NEW s \in Spawns, SpawnBegins(s) PROVE ReapedStaysReaped'
  BY <1>1 DEF SpawnBegins, SpawnAt, SpawnGoes, Pkill, TryPkill, remote, BeginClose
<1>2. ASSUME NEW s \in Spawns, DialSsh(s) PROVE ReapedStaysReaped'
  BY <1>2 DEF DialSsh, SpawnAt, SpawnGoes, Pkill, TryPkill, remote, BeginClose
<1>3. ASSUME NEW s \in Spawns, DialAbandoned(s) PROVE ReapedStaysReaped'
  BY <1>3 DEF DialAbandoned, SpawnAt, SpawnGoes, Pkill, TryPkill, remote, BeginClose
<1>4. ASSUME NEW s \in Spawns, ReapOrphans(s) PROVE ReapedStaysReaped'
  BY <1>4 DEF ReapOrphans, SpawnAt, SpawnGoes, Pkill, TryPkill, remote, BeginClose
<1>5. ASSUME NEW s \in Spawns, Install(s) PROVE ReapedStaysReaped'
  BY <1>5 DEF Install, SpawnAt, SpawnGoes, Pkill, TryPkill, remote, BeginClose
<1>6. ASSUME NEW s \in Spawns, SpawnProcess(s) PROVE ReapedStaysReaped'
  BY <1>6 DEF SpawnProcess, SpawnAt, SpawnGoes, Pkill, TryPkill, remote, BeginClose
<1>7. ASSUME NEW s \in Spawns, WaitReady(s) PROVE ReapedStaysReaped'
  BY <1>7 DEF WaitReady, SpawnAt, SpawnGoes, Pkill, TryPkill, remote, BeginClose
<1>8. ASSUME NEW s \in Spawns, OpenListener(s) PROVE ReapedStaysReaped'
  BY <1>8 DEF OpenListener, SpawnAt, SpawnGoes, Pkill, TryPkill, remote, BeginClose
<1>9. ASSUME NEW s \in Spawns, SpawnFailed(s) PROVE ReapedStaysReaped'
  BY <1>9 DEF SpawnFailed, SpawnAt, SpawnGoes, Pkill, TryPkill, remote, BeginClose
<1>10. ASSUME NEW s \in Spawns, RegisterWorker(s) PROVE ReapedStaysReaped'
  BY <1>10 DEF RegisterWorker, SpawnAt, SpawnGoes, Pkill, TryPkill, remote, BeginClose
<1>11. ASSUME NEW s \in Spawns, StepFails(s) PROVE ReapedStaysReaped'
  BY <1>11 DEF StepFails, SpawnAt, SpawnGoes, Pkill, TryPkill, remote, BeginClose
<1>12. ASSUME NEW s \in Spawns, PingFails(s) PROVE ReapedStaysReaped'
  BY <1>12 DEF PingFails, SpawnAt, SpawnGoes, Pkill, TryPkill, remote, BeginClose
<1>13. ASSUME NEW s \in Spawns, Forward(s) PROVE ReapedStaysReaped'
  BY <1>13 DEF Forward, SpawnAt, SpawnGoes, Pkill, TryPkill, remote, BeginClose
<1>14. ASSUME NEW s \in Spawns, KillRemote(s) PROVE ReapedStaysReaped'
  BY <1>14 DEF KillRemote, SpawnAt, SpawnGoes, Pkill, TryPkill, remote, BeginClose
<1>15. ASSUME NEW s \in Spawns, CloseSession(s) PROVE ReapedStaysReaped'
  BY <1>15 DEF CloseSession, SpawnAt, SpawnGoes, Pkill, TryPkill, remote, BeginClose
<1>16. ASSUME NEW s \in Spawns, CloseReturns(s) PROVE ReapedStaysReaped'
  BY <1>16 DEF CloseReturns, SpawnAt, SpawnGoes, Pkill, TryPkill, remote, BeginClose
<1>17. ASSUME NEW s \in Spawns, Despawn(s) PROVE ReapedStaysReaped'
  BY <1>17 DEF Despawn, SpawnAt, SpawnGoes, Pkill, TryPkill, remote, BeginClose
<1>18. ASSUME NEW s \in Spawns, Stall(s) PROVE ReapedStaysReaped'
  BY <1>18 DEF Stall, SpawnAt, SpawnGoes, Pkill, TryPkill, remote, BeginClose
<1>19. ASSUME NEW s \in Spawns, GiveUp(s) PROVE ReapedStaysReaped'
  BY <1>19 DEF GiveUp, SpawnAt, SpawnGoes, Pkill, TryPkill, remote, BeginClose
<1>20. ASSUME NEW s \in Spawns, ShutdownCloses(s) PROVE ReapedStaysReaped'
  BY <1>20 DEF ShutdownCloses, SpawnAt, SpawnGoes, Pkill, TryPkill, remote, BeginClose
<1>21. ASSUME NEW s \in Spawns, ShutdownPasses(s) PROVE ReapedStaysReaped'
  BY <1>21 DEF ShutdownPasses, SpawnAt, SpawnGoes, Pkill, TryPkill, remote, BeginClose
<1>22. ASSUME NEW s \in Spawns, NEW t \in tasks[s], TaskEnds(s, t) PROVE ReapedStaysReaped'
  BY <1>22 DEF TaskEnds, SpawnAt, SpawnGoes, Pkill, TryPkill, remote, BeginClose
<1>23. ASSUME NEW s \in Spawns, PingAnswered(s) PROVE ReapedStaysReaped'
  BY <1>23 DEF PingAnswered, SpawnAt, SpawnGoes, Pkill, TryPkill, remote, BeginClose
<1>24. ASSUME NEW s \in Spawns, Recover(s) PROVE ReapedStaysReaped'
  BY <1>24 DEF Recover, SpawnAt, SpawnGoes, Pkill, TryPkill, remote, BeginClose
<1>25. ASSUME NEW m \in Machines, WorkerExits(m) PROVE ReapedStaysReaped'
  BY <1>25 DEF WorkerExits, SpawnAt, SpawnGoes, Pkill, TryPkill, remote, BeginClose
<1>26. CASE ShutdownBegins
  BY <1>26 DEF ShutdownBegins, SpawnAt, SpawnGoes, Pkill, TryPkill, remote, BeginClose
<1>27. CASE MasterExits
  BY <1>27 DEF MasterExits, SpawnAt, SpawnGoes, Pkill, TryPkill, remote, BeginClose
<1>28. CASE UNCHANGED tunnelVars
  BY <1>28 DEF tunnelVars, SpawnAt, SpawnGoes, Pkill, TryPkill, remote, BeginClose
<1> QED
  BY <1>1, <1>2, <1>3, <1>4, <1>5, <1>6, <1>7, <1>8, <1>9, <1>10, <1>11, <1>12, <1>13, <1>14, <1>15, <1>16, <1>17, <1>18, <1>19, <1>20, <1>21, <1>22, <1>23, <1>24, <1>25, <1>26,
     <1>27, <1>28
  DEF TunnelNext, SpawnStep, CloseStep

(* The tunnels keep their inductive invariant: a Close begins only after   *)
(* the worker was started, what it stopped is not started again, and what  *)
(* a spawn has reaped does not come back.                                  *)
THEOREM TunnelInvariant == TunnelSpec => []TunnelInv
<1>1. TunnelInit => TunnelInv
  BY TunnelAssumption DEF TunnelInit, TunnelInv, TunnelTypeOK, CloseAfterStart,
     StoppedStaysStopped, ReapedStaysReaped
<1>2. TunnelInv /\ [TunnelNext]_tunnelVars => TunnelInv'
  BY TunnelTypeStep, CloseAfterStartStep, StoppedStep, ReapedStep DEF TunnelInv
<1> QED
  BY <1>1, <1>2, PTL DEF TunnelSpec

(* However failed steps, despawns, lost sessions and the shutdown overlap, *)
(* a tunnel whose Close returned left no worker of its own that pkill      *)
(* finds by name and that was not told to stop, unless the pkill itself    *)
(* did not run.                                                            *)
THEOREM ClosedStopsWorker == TunnelSpec => []ClosedTunnelsStopTheirWorker
<1>1. TunnelInv => ClosedTunnelsStopTheirWorker
  BY DEF TunnelInv, StoppedStaysStopped, ClosedTunnelsStopTheirWorker
<1> QED
  BY <1>1, TunnelInvariant, PTL

(* A registered tunnel whose defensive pkill ran does not lead to a        *)
(* leftover of an earlier master under the usual name, whatever other      *)
(* spawns, closes and losses happen on its machine.                        *)
THEOREM NoLeftoverServed == TunnelSpec => []LeftoversReaped
<1>1. TunnelInv => LeftoversReaped
  BY DEF TunnelInv, ReapedStaysReaped, LeftoversReaped
<1> QED
  BY <1>1, TunnelInvariant, PTL
-----------------------------------------------------------------------------
(* The slot a transfer tries is one of the pool's.                         *)
LEMMA NextSlotInRange ==
  ASSUME PoolTypeOK, NEW m \in Movers
  PROVE  NextSlot(m) \in SlotIds
<1>1. mover[m].start + mover[m].try \in Nat
  BY DEF PoolTypeOK, Transfer
<1>2. \A n \in Nat : n % Slots \in 0..(Slots - 1)
  BY PoolAssumption
<1> QED
  BY <1>1, <1>2 DEF NextSlot, SlotIds

(* What a dial appends.                                                    *)
LEMMA RedialEffect ==
  ASSUME conns \in Seq(ConnState), Redial
  PROVE  /\ conns' \in Seq(ConnState) /\ Len(conns') = Len(conns) + 1 /\ Len(conns) \in Nat
         /\ \A c \in 1..Len(conns) : conns'[c] = conns[c]
         /\ \A c \in 1..Len(conns') : c \in 1..Len(conns) \/ c = Len(conns')
  BY DEF Redial, ConnState

(* What a change of one connection's state leaves.                         *)
LEMMA ConnEffect ==
  ASSUME conns \in Seq(ConnState), NEW c \in 1..Len(conns), NEW st \in ConnState,
         conns' = [conns EXCEPT ![c] = st]
  PROVE  /\ conns' \in Seq(ConnState) /\ Len(conns') = Len(conns) /\ Len(conns) \in Nat
         /\ \A d \in 1..Len(conns) : conns'[d] = IF d = c THEN st ELSE conns[d]
  OBVIOUS

(* A slot whose connection is closed and forgotten: no open connection is  *)
(* lost by it.                                                             *)
LEMMA SlotClosed ==
  ASSUME PoolTypeOK, OpenHeld, NEW s \in SlotIds,
         slotConn' = [slotConn EXCEPT ![s] = 0],
         IF slotConn[s] = 0 THEN conns' = conns
         ELSE conns' = [conns EXCEPT ![slotConn[s]] = "closed"]
  PROVE  /\ conns' \in Seq(ConnState) /\ Len(conns') = Len(conns)
         /\ slotConn' \in [SlotIds -> Nat] /\ \A t \in SlotIds : slotConn'[t] <= Len(conns')
         /\ OpenHeld'
<1>1. Len(conns) \in Nat /\ slotConn[s] \in 0..Len(conns)
  BY DEF PoolTypeOK
<1>2. /\ conns' \in Seq(ConnState) /\ Len(conns') = Len(conns)
      /\ \A c \in 1..Len(conns) : conns'[c] = IF c = slotConn[s] THEN "closed" ELSE conns[c]
  <2>1. CASE slotConn[s] = 0
    BY <1>1, <2>1 DEF PoolTypeOK
  <2>2. CASE slotConn[s] # 0
    BY <1>1, <2>2, ConnEffect DEF PoolTypeOK, ConnState
  <2> QED
    BY <2>1, <2>2
<1>3. slotConn' \in [SlotIds -> Nat] /\ \A t \in SlotIds : slotConn'[t] <= Len(conns')
  BY <1>1, <1>2 DEF PoolTypeOK
<1>4. OpenHeld'
  BY <1>1, <1>2 DEF OpenHeld, PoolTypeOK
<1> QED
  BY <1>2, <1>3, <1>4

(* Building and tearing down the pool keep the invariant.                  *)
LEMMA PoolLifeStep ==
  ASSUME PoolInv, BuildSlot \/ BuildFails \/ TeardownBegins \/ CloseSlot \/ ForgetSlots
  PROVE  PoolInv'
<1> USE PoolAssumption DEF PoolInv, SlotIds, MoverAt
<1>1. CASE BuildSlot
  <2>1. PICK s \in SlotIds : /\ slotConn[s] = 0
                             /\ slotConn' = [slotConn EXCEPT ![s] = Len(conns')]
                             /\ pool' = IF s = Slots - 1 THEN "up" ELSE "building"
    BY <1>1 DEF BuildSlot
  <2>2. Redial /\ pool = "building" /\ UNCHANGED <<slotMu, idx, closed, mover>>
    BY <1>1 DEF BuildSlot
  <2>3. /\ conns' \in Seq(ConnState) /\ Len(conns') = Len(conns) + 1 /\ Len(conns) \in Nat
        /\ \A c \in 1..Len(conns) : conns'[c] = conns[c]
        /\ \A c \in 1..Len(conns') : c \in 1..Len(conns) \/ c = Len(conns')
    BY <2>2, RedialEffect DEF PoolTypeOK
  <2>4. PoolTypeOK'
    <3>1. \A u \in SlotIds : slotConn[u] \in Nat /\ slotConn[u] <= Len(conns)
      BY DEF PoolTypeOK
    <3>2. Len(conns') \in Nat /\ slotConn \in [SlotIds -> Nat]
      BY <2>3 DEF PoolTypeOK
    <3>3. slotConn' \in [SlotIds -> Nat]
      BY <2>1, <3>2
    <3>4. \A u \in SlotIds : slotConn'[u] <= Len(conns')
      BY <2>1, <2>3, <3>1, <3>2
    <3>5. pool' \in {"building", "up"}
      BY <2>1
    <3> QED
      BY <2>2, <2>3, <3>3, <3>4, <3>5 DEF PoolTypeOK
  <2>5. OpenHeld'
    BY <2>1, <2>3 DEF OpenHeld, PoolTypeOK
  <2>6. DialsAlone' /\ QuietPool' /\ ClosedSlotsEmpty'
    BY <2>1, <2>2 DEF DialsAlone, QuietPool, ClosedSlotsEmpty, PoolTypeOK
  <2> QED
    BY <2>4, <2>5, <2>6
<1>2. CASE BuildFails
  <2>1. /\ conns' = [c \in 1..Len(conns) |-> "closed"] /\ Len(conns) \in Nat
        /\ slotConn' = [s \in SlotIds |-> 0] /\ pool' = "gone" /\ pool = "building"
        /\ UNCHANGED <<slotMu, idx, closed, mover>>
    BY <1>2 DEF BuildFails, PoolTypeOK
  <2>2. conns' \in Seq(ConnState) /\ Len(conns') = Len(conns)
    BY <2>1 DEF ConnState
  <2> QED
    BY <2>1, <2>2 DEF PoolTypeOK, OpenHeld, DialsAlone, QuietPool, ClosedSlotsEmpty
<1>3. CASE TeardownBegins
  BY <1>3 DEF TeardownBegins, PoolTypeOK, OpenHeld, DialsAlone, QuietPool, ClosedSlotsEmpty
<1>4. CASE CloseSlot
  <2>0. /\ pool = "closing" /\ closed < Slots /\ slotMu[closed] = NoMover
        /\ slotConn' = [slotConn EXCEPT ![closed] = 0] /\ closed' = closed + 1
        /\ UNCHANGED <<slotMu, idx, pool, mover>> /\ closed \in SlotIds
    BY <1>4 DEF CloseSlot, PoolTypeOK
  <2>1. /\ conns' \in Seq(ConnState) /\ Len(conns') = Len(conns)
        /\ slotConn' \in [SlotIds -> Nat] /\ \A t \in SlotIds : slotConn'[t] <= Len(conns')
        /\ OpenHeld'
    BY <1>4, <2>0, SlotClosed DEF CloseSlot
  <2>2. PoolTypeOK'
    BY <2>0, <2>1 DEF PoolTypeOK
  <2>4. DialsAlone'
    BY <2>0 DEF DialsAlone, PoolTypeOK, Transfer
  <2>5. QuietPool' /\ ClosedSlotsEmpty'
    BY <2>0 DEF QuietPool, ClosedSlotsEmpty, PoolTypeOK
  <2> QED
    BY <2>1, <2>2, <2>4, <2>5
<1>5. CASE ForgetSlots
  BY <1>5 DEF ForgetSlots, PoolTypeOK, OpenHeld, DialsAlone, QuietPool, ClosedSlotsEmpty
<1> QED
  BY <1>1, <1>2, <1>3, <1>4, <1>5

(* The steps of a transfer keep the invariant.                             *)
LEMMA MoverStep ==
  ASSUME PoolInv, NEW m \in Movers,
         PoolGet(m) \/ SlotGet(m) \/ DialOk(m) \/ DialFails(m) \/ TransferOk(m)
           \/ TransferFails(m) \/ MarkDead(m)
  PROVE  PoolInv'
<1> USE PoolAssumption DEF PoolInv, MoverAt
<1>0. mover[m] \in Transfer /\ mover[m].s \in SlotIds /\ NoTransfer \in Transfer
  BY DEF PoolTypeOK, Transfer, NoTransfer, SlotIds
<1>1. ASSUME UNCHANGED <<conns, slotConn, closed, pool>>,
             NEW t \in Transfer, mover' = [mover EXCEPT ![m] = t],
             slotMu' \in [SlotIds -> Movers \cup {NoMover}], idx' \in Nat,
             \A n \in Movers \ {m} : mover[n].pc = "dial" =>
               slotMu'[mover[n].s] = slotMu[mover[n].s],
             t.pc = "dial" => slotMu'[t.s] = m /\ slotConn[t.s] = 0,
             t.pc = "idle" \/ pool = "up" \/ mover[m].pc # "idle"
      PROVE  PoolInv'
  <2>1. PoolTypeOK' /\ OpenHeld'
    BY <1>1 DEF PoolTypeOK, OpenHeld
  <2>2. DialsAlone'
    BY <1>1 DEF DialsAlone, PoolTypeOK
  <2>3. QuietPool' /\ ClosedSlotsEmpty'
    BY <1>1 DEF QuietPool, ClosedSlotsEmpty, PoolTypeOK
  <2> QED
    BY <2>1, <2>2, <2>3
<1>2. CASE PoolGet(m)
  <2> DEFINE t == [NoTransfer EXCEPT !.pc = "pick", !.start = idx]
  <2>1. t \in Transfer /\ t.pc = "pick"
    BY <1>0 DEF PoolTypeOK, Transfer, NoTransfer
  <2>2. idx' \in Nat
    BY <1>2 DEF PoolGet, PoolTypeOK
  <2>3. /\ UNCHANGED <<conns, slotConn, closed, pool, slotMu>> /\ pool = "up"
        /\ mover' = [mover EXCEPT ![m] = t]
    BY <1>2 DEF PoolGet
  <2> HIDE DEF t
  <2> QED
    BY <1>1, <2>1, <2>2, <2>3 DEF PoolTypeOK
<1>3. CASE SlotGet(m)
  <2> DEFINE s == NextSlot(m)
  <2>0. s \in SlotIds /\ mover[m].pc = "pick" /\ UNCHANGED <<conns, slotConn, idx, closed, pool>>
    BY <1>3, NextSlotInRange DEF SlotGet
  <2>1. CASE pool = "gone"
    <3> DEFINE t == [mover[m] EXCEPT !.pc = "panic"]
    <3>1. t \in Transfer /\ t.pc = "panic"
      BY <1>0 DEF Transfer
    <3>2. mover' = [mover EXCEPT ![m] = t] /\ UNCHANGED slotMu
      BY <1>3, <2>1 DEF SlotGet, MoverGoes
    <3> HIDE DEF t
    <3> QED
      BY <1>1, <2>0, <3>1, <3>2 DEF PoolTypeOK
  <2>2. CASE pool # "gone" /\ slotConn[s] # 0
    <3> DEFINE t == [mover[m] EXCEPT !.pc = "move", !.s = s, !.c = slotConn[s]]
    <3>1. t \in Transfer /\ t.pc = "move"
      BY <1>0, <2>0 DEF PoolTypeOK, Transfer
    <3>2. mover' = [mover EXCEPT ![m].pc = "move", ![m].s = s, ![m].c = slotConn[s]]
          /\ UNCHANGED slotMu
      BY <1>3, <2>2 DEF SlotGet
    <3>3. mover' = [mover EXCEPT ![m] = t]
      BY <3>2
    <3> HIDE DEF t
    <3> QED
      BY <1>1, <2>0, <3>1, <3>2, <3>3 DEF PoolTypeOK
  <2>3. CASE pool # "gone" /\ slotConn[s] = 0
    <3> DEFINE t == [mover[m] EXCEPT !.pc = "dial", !.s = s]
    <3>1. t \in Transfer /\ t.pc = "dial" /\ t.s = s
      BY <1>0, <2>0 DEF Transfer
    <3>2. /\ mover' = [mover EXCEPT ![m].pc = "dial", ![m].s = s]
          /\ slotMu' = [slotMu EXCEPT ![s] = m] /\ slotMu[s] = NoMover
      BY <1>3, <2>3 DEF SlotGet
    <3>3. mover' = [mover EXCEPT ![m] = t]
      BY <3>2
    <3>4. \A n \in Movers \ {m} : mover[n].pc = "dial" =>
            slotMu'[mover[n].s] = slotMu[mover[n].s]
      BY <2>0, <3>2 DEF DialsAlone, PoolTypeOK
    <3>5. slotMu' \in [SlotIds -> Movers \cup {NoMover}] /\ slotMu'[s] = m
      BY <2>0, <3>2 DEF PoolTypeOK
    <3> HIDE DEF t
    <3> QED
      BY <1>1, <2>0, <2>3, <3>1, <3>3, <3>4, <3>5 DEF PoolTypeOK
  <2> QED
    BY <2>1, <2>2, <2>3
<1>4. CASE DialOk(m)
  <2> DEFINE s == mover[m].s
             t == [mover[m] EXCEPT !.pc = "move", !.c = Len(conns')]
  <2>1. /\ Redial /\ mover[m].pc = "dial"
        /\ slotConn' = [slotConn EXCEPT ![s] = Len(conns')]
        /\ slotMu' = [slotMu EXCEPT ![s] = NoMover]
        /\ mover' = [mover EXCEPT ![m].pc = "move", ![m].c = Len(conns')]
        /\ UNCHANGED <<idx, closed, pool>>
    BY <1>4 DEF DialOk
  <2>2. /\ conns' \in Seq(ConnState) /\ Len(conns') = Len(conns) + 1 /\ Len(conns) \in Nat
        /\ \A c \in 1..Len(conns) : conns'[c] = conns[c]
        /\ \A c \in 1..Len(conns') : c \in 1..Len(conns) \/ c = Len(conns')
    BY <2>1, RedialEffect DEF PoolTypeOK
  <2>3. t \in Transfer /\ t.pc = "move"
    <3>1. ASSUME NEW n \in Nat
          PROVE  LET r == [mover[m] EXCEPT !.pc = "move", !.c = n]
                 IN r \in Transfer /\ r.pc = "move"
      BY <1>0 DEF Transfer
    <3>2. Len(conns') \in Nat
      BY <2>2
    <3> QED
      BY <3>1, <3>2
  <2>4. mover' = [mover EXCEPT ![m] = t]
    BY <2>1
  <2>5. s \in SlotIds /\ slotMu[s] = m /\ slotConn[s] = 0
    BY <1>0, <2>1 DEF DialsAlone
  <2> HIDE DEF s, t
  <2>6. PoolTypeOK'
    <3>1. /\ slotConn' \in [SlotIds -> Nat] /\ \A u \in SlotIds : slotConn'[u] <= Len(conns')
      BY <2>1, <2>2, <2>5 DEF PoolTypeOK
    <3>2. slotMu' \in [SlotIds -> Movers \cup {NoMover}]
      BY <2>1, <2>5 DEF PoolTypeOK
    <3>3. mover' \in [Movers -> Transfer]
      BY <2>3, <2>4 DEF PoolTypeOK
    <3> QED
      BY <2>1, <2>2, <3>1, <3>2, <3>3 DEF PoolTypeOK
  <2>7. OpenHeld'
    BY <2>1, <2>2, <2>5 DEF OpenHeld, PoolTypeOK
  <2>8. \A n \in Movers \ {m} : mover[n].pc = "dial" => mover[n].s # s
    BY <2>5 DEF DialsAlone
  <2>9. DialsAlone'
    <3> SUFFICES ASSUME NEW n \in Movers, mover'[n].pc = "dial"
                 PROVE  slotMu'[mover'[n].s] = n /\ slotConn'[mover'[n].s] = 0
      BY DEF DialsAlone
    <3>1. n # m /\ mover'[n] = mover[n]
      BY <2>3, <2>4 DEF PoolTypeOK
    <3>2. mover[n].s # s /\ slotMu[mover[n].s] = n /\ slotConn[mover[n].s] = 0
      BY <2>8, <3>1 DEF DialsAlone
    <3>3. mover[n].s \in SlotIds
      BY DEF PoolTypeOK, Transfer
    <3> QED
      BY <2>1, <3>1, <3>2, <3>3 DEF PoolTypeOK
  <2>10. QuietPool' /\ ClosedSlotsEmpty'
    BY <2>1, <2>3, <2>4 DEF QuietPool, ClosedSlotsEmpty, PoolTypeOK, SlotIds
  <2> QED
    BY <2>6, <2>7, <2>9, <2>10
<1>5. CASE DialFails(m)
  <2> DEFINE t == IF mover[m].try + 1 < Slots
                    THEN [mover[m] EXCEPT !.pc = "pick", !.try = @ + 1] ELSE NoTransfer
  <2>1. t \in Transfer /\ t.pc \in {"pick", "idle"}
    <3>1. ASSUME NEW n \in Nat
          PROVE  LET r == [mover[m] EXCEPT !.pc = "pick", !.try = n]
                 IN r \in Transfer /\ r.pc = "pick"
      BY <1>0 DEF Transfer
    <3>2. mover[m].try + 1 \in Nat /\ NoTransfer.pc = "idle"
      BY <1>0 DEF Transfer, NoTransfer
    <3>3. CASE mover[m].try + 1 < Slots
      <4>1. t = [mover[m] EXCEPT !.pc = "pick", !.try = mover[m].try + 1]
        BY <3>3
      <4> QED
        BY <3>1, <3>2, <4>1
    <3>4. CASE ~(mover[m].try + 1 < Slots)
      BY <1>0, <3>2, <3>4
    <3> QED
      BY <3>3, <3>4
  <2>2. /\ mover[m].pc = "dial" /\ slotMu' = [slotMu EXCEPT ![mover[m].s] = NoMover]
        /\ mover' = [mover EXCEPT ![m] = t]
        /\ UNCHANGED <<conns, slotConn, idx, closed, pool>>
    BY <1>5 DEF DialFails
  <2>3. slotMu[mover[m].s] = m
    BY <2>2 DEF DialsAlone
  <2>4. \A n \in Movers \ {m} : mover[n].pc = "dial" =>
          slotMu'[mover[n].s] = slotMu[mover[n].s]
    BY <1>0, <2>2, <2>3 DEF DialsAlone, PoolTypeOK
  <2>5. slotMu' \in [SlotIds -> Movers \cup {NoMover}]
    BY <1>0, <2>2 DEF PoolTypeOK
  <2> HIDE DEF t
  <2> QED
    BY <1>1, <2>1, <2>2, <2>4, <2>5 DEF PoolTypeOK
<1>6. CASE TransferOk(m)
  BY <1>0, <1>1, <1>6 DEF TransferOk, PoolTypeOK, NoTransfer
<1>7. CASE TransferFails(m)
  <2> DEFINE t == [mover[m] EXCEPT !.pc = "mark"]
  <2>1. t \in Transfer /\ t.pc = "mark"
    BY <1>0 DEF Transfer
  <2>2. /\ mover[m].pc = "move" /\ mover' = [mover EXCEPT ![m] = t]
        /\ UNCHANGED <<conns, slotConn, slotMu, idx, closed, pool>>
    BY <1>7 DEF TransferFails, MoverGoes
  <2> HIDE DEF t
  <2> QED
    BY <1>1, <2>1, <2>2 DEF PoolTypeOK
<1>8. CASE MarkDead(m)
  <2> DEFINE s == mover[m].s
  <2>1. /\ mover[m].pc = "mark" /\ slotMu[s] = NoMover /\ mover' = [mover EXCEPT ![m] = NoTransfer]
        /\ UNCHANGED <<slotMu, idx, closed, pool>>
    BY <1>8 DEF MarkDead
  <2>2. /\ slotConn' = [slotConn EXCEPT ![s] = 0]
        /\ IF slotConn[s] = 0 THEN conns' = conns
           ELSE conns' = [conns EXCEPT ![slotConn[s]] = "closed"]
    BY <1>0, <1>8 DEF MarkDead, PoolTypeOK
  <2>3. /\ conns' \in Seq(ConnState) /\ Len(conns') = Len(conns)
        /\ slotConn' \in [SlotIds -> Nat] /\ \A u \in SlotIds : slotConn'[u] <= Len(conns')
        /\ OpenHeld'
    BY <1>0, <2>2, SlotClosed
  <2>4. PoolTypeOK'
    BY <1>0, <2>1, <2>3 DEF PoolTypeOK
  <2>5. DialsAlone'
    BY <1>0, <2>1, <2>2 DEF DialsAlone, PoolTypeOK, Transfer, NoTransfer
  <2>6. QuietPool' /\ ClosedSlotsEmpty'
    BY <1>0, <2>1, <2>2 DEF QuietPool, ClosedSlotsEmpty, PoolTypeOK, NoTransfer
  <2> QED
    BY <2>3, <2>4, <2>5, <2>6
<1> QED
  BY <1>2, <1>3, <1>4, <1>5, <1>6, <1>7, <1>8

(* The pool keeps its inductive invariant: whoever redials has the slot's  *)
(* mutex and finds it empty, so no open connection is ever overwritten.    *)
THEOREM PoolInvariant == PoolSpec => []PoolInv
<1>1. PoolInit => PoolInv
  <2> SUFFICES ASSUME PoolInit PROVE PoolInv
    OBVIOUS
  <2>1. conns \in Seq(ConnState) /\ Len(conns) = 0
    BY DEF PoolInit
  <2>2. NoTransfer \in Transfer /\ NoTransfer.pc = "idle"
    BY PoolAssumption DEF NoTransfer, Transfer, SlotIds
  <2> QED
    BY <2>1, <2>2, PoolAssumption DEF PoolInit, PoolInv, PoolTypeOK, OpenHeld, DialsAlone,
       QuietPool, ClosedSlotsEmpty, MoverAt, SlotIds
<1>2. PoolInv /\ [PoolNext]_poolVars => PoolInv'
  <2> SUFFICES ASSUME PoolInv, [PoolNext]_poolVars PROVE PoolInv'
    OBVIOUS
  <2>1. ASSUME NEW c \in 1..MaxConns, Dropped(c) PROVE PoolInv'
    <3>1. /\ c \in 1..Len(conns) /\ conns[c] = "open" /\ conns' = [conns EXCEPT ![c] = "dropped"]
          /\ UNCHANGED <<slotConn, slotMu, idx, closed, pool, mover>>
      BY <2>1 DEF Dropped, Dialled, PoolInv, PoolTypeOK
    <3>2. /\ conns' \in Seq(ConnState) /\ Len(conns') = Len(conns)
          /\ \A d \in 1..Len(conns) : conns'[d] = IF d = c THEN "dropped" ELSE conns[d]
      BY <3>1, ConnEffect DEF PoolInv, PoolTypeOK, ConnState
    <3> QED
      BY <3>1, <3>2 DEF PoolInv, PoolTypeOK, OpenHeld, DialsAlone, QuietPool,
         ClosedSlotsEmpty, MoverAt
  <2>2. CASE UNCHANGED poolVars
    BY <2>2 DEF poolVars, PoolInv, PoolTypeOK, OpenHeld, DialsAlone, QuietPool,
       ClosedSlotsEmpty, MoverAt
  <2> QED
    BY <2>1, <2>2, PoolLifeStep, MoverStep DEF PoolNext
<1> QED
  BY <1>1, <1>2, PTL DEF PoolSpec

(* When an upload pool is gone, every connection it ever dialled is        *)
(* closed, whatever failed, was dropped or was redialled meanwhile.        *)
THEOREM PoolLeaksNothing == PoolSpec => []NoConnectionLeaks
<1>1. PoolInv => NoConnectionLeaks
  <2> SUFFICES ASSUME PoolInv, pool = "gone", ~Forced, NEW c \in DOMAIN conns,
                      conns[c] # "closed"
               PROVE  FALSE
    BY DEF NoConnectionLeaks
  <2>1. c \in 1..Len(conns)
    BY DEF PoolInv, PoolTypeOK
  <2>2. PICK s \in SlotIds : slotConn[s] = c
    BY <2>1 DEF PoolInv, OpenHeld
  <2>3. slotConn[s] = 0
    BY DEF PoolInv, ClosedSlotsEmpty
  <2> QED
    BY <2>1, <2>2, <2>3 DEF PoolInv, PoolTypeOK
<1> QED
  BY <1>1, PoolInvariant, PTL

(* An upload pool's teardown waits for its transfers, so none of them ever *)
(* indexes the slice closeAll dropped; only a download pool, whose         *)
(* teardown is forced, is exposed to that.                                 *)
THEOREM UploadPoolInRange == ~Forced => (PoolSpec => []IndexInRange)
<1> SUFFICES ASSUME ~Forced PROVE PoolSpec => []IndexInRange
  OBVIOUS
<1> DEFINE PanicLast == \A m \in Movers : mover[m].pc = "panic" => pool = "gone"
<1>1. PoolInit => PanicLast
  BY DEF PoolInit, NoTransfer
<1>2. PoolInv /\ PanicLast /\ [PoolNext]_poolVars => PanicLast'
  <2> SUFFICES ASSUME PoolInv, PanicLast, [PoolNext]_poolVars PROVE PanicLast'
    OBVIOUS
  <2>0. mover \in [Movers -> Transfer]
    BY DEF PoolInv, PoolTypeOK
  <2>1. ASSUME NEW m \in Movers, SlotGet(m) PROVE PanicLast'
    BY <2>0, <2>1 DEF SlotGet, MoverGoes, Transfer
  <2>2. ASSUME NEW m \in Movers, PoolGet(m) \/ DialOk(m) \/ DialFails(m) \/ TransferOk(m)
                 \/ TransferFails(m) \/ MarkDead(m)
        PROVE  PanicLast'
    <3>1. mover'[m].pc # "panic"
      <4>1. CASE PoolGet(m)
        <5> DEFINE t == [NoTransfer EXCEPT !.pc = "pick", !.start = idx]
        <5>1. mover' = [mover EXCEPT ![m] = t]
          BY <4>1 DEF PoolGet
        <5>2. t.pc = "pick"
          BY DEF NoTransfer
        <5> HIDE DEF t
        <5> QED
          BY <2>0, <5>1, <5>2
      <4>4. CASE TransferOk(m) \/ TransferFails(m)
        BY <2>0, <4>4 DEF TransferOk, TransferFails, MoverGoes, NoTransfer, Transfer
      <4>5. CASE MarkDead(m)
        BY <2>0, <4>5 DEF MarkDead, NoTransfer
      <4>2. CASE DialOk(m)
        BY <2>0, <4>2 DEF DialOk, Transfer
      <4>3. CASE DialFails(m)
        BY <2>0, <4>3 DEF DialFails, NoTransfer, Transfer
      <4> QED
        BY <2>2, <4>1, <4>2, <4>3, <4>4, <4>5
    <3>3. pool' = pool
      BY <2>2 DEF PoolGet, DialOk, DialFails, TransferOk, TransferFails, MarkDead
    <3>2. \A w \in Movers \ {m} : mover'[w] = mover[w]
      BY <2>0, <2>2 DEF PoolGet, DialOk, DialFails, TransferOk, TransferFails, MarkDead, MoverGoes
    <3> QED
      BY <3>1, <3>2, <3>3
  <2>3. CASE BuildSlot \/ BuildFails \/ TeardownBegins \/ CloseSlot \/ ForgetSlots
    BY <2>3 DEF BuildSlot, BuildFails, TeardownBegins, CloseSlot, ForgetSlots
  <2>4. ASSUME NEW c \in 1..MaxConns, Dropped(c) PROVE PanicLast'
    BY <2>4 DEF Dropped
  <2>5. CASE UNCHANGED poolVars
    BY <2>5 DEF poolVars
  <2> HIDE DEF PanicLast
  <2> QED
    BY <2>1, <2>2, <2>3, <2>4, <2>5 DEF PoolNext
<1>3. PoolInv /\ PanicLast => IndexInRange
  BY DEF PoolInv, QuietPool, IndexInRange, MoverAt
<1> QED
  BY <1>1, <1>2, <1>3, PoolInvariant, PTL DEF PoolSpec

-----------------------------------------------------------------------------
(* Run control: the stream semaphore and the failure threshold.            *)

\* The uploads that hold a token, one pair per upload of a user.
Held == {token \in NormalUsers \X (1..MaxDispatched) : token[2] <= flights["normal"][token[1]]}

\* TokensMatchUploads counts in 1..MaxDispatched: a user never has more uploads
\* in flight than were dispatched, and only normal users take tokens.
TokenInv ==
    /\ flights \in [Kinds -> [LoadUsers -> Nat]]
    /\ dispatched \in 0..MaxDispatched
    /\ \A u \in LoadUsers : flights["normal"][u] <= dispatched
    /\ \A u \in LoadUsers \ NormalUsers : flights["normal"][u] = 0
    /\ sem = Cardinality(Held)
    /\ sem <= Streams

-----------------------------------------------------------------------------
\* The tokens form a finite set, whatever is in flight.
LEMMA HeldFinite == IsFiniteSet(Held)
<1>1. IsFiniteSet(NormalUsers) BY ControlAssumption DEF ControlAssumption
<1>2. IsFiniteSet(1..MaxDispatched)
  BY ControlAssumption, FS_Interval DEF ControlAssumption
<1>3. IsFiniteSet(NormalUsers \X (1..MaxDispatched)) BY <1>1, <1>2, FS_Product
<1>4. Held \subseteq NormalUsers \X (1..MaxDispatched) BY DEF Held
<1> QED BY <1>3, <1>4, FS_Subset

\* One more upload of a user is one more token.
LEMMA OneMoreHeld ==
  ASSUME TokenInv, NEW u \in NormalUsers, dispatched < MaxDispatched,
         flights' = [flights EXCEPT !["normal"][u] = @ + 1]
  PROVE  /\ Cardinality(Held') = Cardinality(Held) + 1
         /\ IsFiniteSet(Held)
<1> DEFINE n == flights["normal"][u]
<1>1. u \in LoadUsers /\ n \in Nat /\ n <= dispatched
  BY DEF TokenInv, LoadUsers, Kinds
<1>2. n + 1 \in 1..MaxDispatched
  BY <1>1, ControlAssumption DEF ControlAssumption, TokenInv
<1>3. flights'["normal"] = [flights["normal"] EXCEPT ![u] = n + 1]
  BY <1>1 DEF TokenInv, Kinds
<1>4. <<u, n + 1>> \notin Held BY <1>1 DEF Held
<1>5. Held' = Held \cup {<<u, n + 1>>}
  <2>1. ASSUME NEW v \in NormalUsers, NEW i \in 1..MaxDispatched
        PROVE  (i <= flights'["normal"][v]) <=> (i <= flights["normal"][v] \/ <<v, i>> = <<u, n + 1>>)
    BY <1>1, <1>3 DEF TokenInv, LoadUsers, Kinds
  <2> QED BY <1>2, <2>1 DEF Held
<1> QED BY <1>4, <1>5, HeldFinite, FS_AddElement

\* One upload of a user fewer is one token fewer.
LEMMA OneFewerHeld ==
  ASSUME TokenInv, NEW u \in NormalUsers, flights["normal"][u] > 0,
         flights' = [flights EXCEPT !["normal"][u] = @ - 1]
  PROVE  Cardinality(Held') = Cardinality(Held) - 1
<1> DEFINE n == flights["normal"][u]
<1>1. u \in LoadUsers /\ n \in Nat /\ n <= dispatched /\ n > 0
  BY DEF TokenInv, LoadUsers, Kinds
<1>2. n \in 1..MaxDispatched
  BY <1>1, ControlAssumption DEF ControlAssumption, TokenInv
<1>3. flights'["normal"] = [flights["normal"] EXCEPT ![u] = n - 1]
  BY <1>1 DEF TokenInv, Kinds
<1>4. <<u, n>> \in Held BY <1>1, <1>2 DEF Held
<1>5. Held' = Held \ {<<u, n>>}
  <2>1. ASSUME NEW v \in NormalUsers, NEW i \in 1..MaxDispatched
        PROVE  (i <= flights'["normal"][v]) <=> (i <= flights["normal"][v] /\ <<v, i>> # <<u, n>>)
    BY <1>1, <1>3 DEF TokenInv, LoadUsers, Kinds
  <2> QED BY <1>2, <2>1 DEF Held
<1> QED BY <1>4, <1>5, HeldFinite, FS_RemoveElement

\* A step that leaves the normal uploads alone leaves the tokens alone.
LEMMA SameHeld ==
  ASSUME flights'["normal"] = flights["normal"]
  PROVE  Held' = Held
BY DEF Held

-----------------------------------------------------------------------------
\* A tick of runNormal takes a token with the upload, or neither.
LEMMA DispatchNormalKeeps == ASSUME TokenInv, DispatchNormal PROVE TokenInv'
<1>1. PICK u \in NormalUsers \ retired :
         IF sem < Streams
         THEN sem' = sem + 1 /\ flights' = [flights EXCEPT !["normal"][u] = @ + 1] /\ UNCHANGED skips
         ELSE skips' = skips + 1 /\ UNCHANGED <<sem, flights>>
  BY DEF DispatchNormal, PickActiveUser
<1>2. dispatched' = dispatched + 1 /\ dispatched < MaxDispatched BY DEF DispatchNormal
<1>3. CASE sem < Streams
  <2>1. sem' = sem + 1 /\ flights' = [flights EXCEPT !["normal"][u] = @ + 1] BY <1>1, <1>3
  <2>2. sem' = Cardinality(Held') BY <2>1, <1>2, OneMoreHeld DEF TokenInv
  <2>3. sem \in Nat BY HeldFinite, FS_CardinalityType DEF TokenInv
  <2>4. sem' <= Streams BY <1>3, <2>1, <2>3, ControlAssumption DEF ControlAssumption
  <2>5. u \in LoadUsers BY DEF LoadUsers
  <2>6. flights' \in [Kinds -> [LoadUsers -> Nat]] BY <2>1, <2>5 DEF TokenInv, Kinds
  <2>7. dispatched' \in 0..MaxDispatched BY <1>2, ControlAssumption DEF TokenInv, ControlAssumption
  <2>8. \A v \in LoadUsers : flights'["normal"][v] <= dispatched'
    BY <1>2, <2>1, <2>5 DEF TokenInv, Kinds
  <2>9. \A v \in LoadUsers \ NormalUsers : flights'["normal"][v] = 0
    BY <2>1, <2>5 DEF TokenInv, Kinds
  <2> QED BY <2>2, <2>4, <2>6, <2>7, <2>8, <2>9 DEF TokenInv
<1>4. CASE ~(sem < Streams)
  <2>1. UNCHANGED <<sem, flights>> BY <1>1, <1>4
  <2>2. Held' = Held BY <2>1, SameHeld
  <2> QED BY <1>2, <2>1, <2>2, ControlAssumption DEF TokenInv, ControlAssumption, Kinds
<1> QED BY <1>3, <1>4

\* A large upload takes no token.
LEMMA DispatchLargeKeeps == ASSUME TokenInv, DispatchLarge PROVE TokenInv'
<1>1. PICK u \in LargeUsers \ retired : flights' = [flights EXCEPT !["large"][u] = @ + 1]
  BY DEF DispatchLarge, PickActiveUser
<1>2. dispatched' = dispatched + 1 /\ dispatched < MaxDispatched /\ sem' = sem BY DEF DispatchLarge
<1>3. u \in LoadUsers BY DEF LoadUsers
<1>4. flights' \in [Kinds -> [LoadUsers -> Nat]] BY <1>1, <1>3 DEF TokenInv, Kinds
<1>5. flights'["normal"] = flights["normal"] BY <1>1 DEF TokenInv, Kinds
<1>6. Held' = Held BY <1>5, SameHeld
<1>7. dispatched' \in 0..MaxDispatched BY <1>2, ControlAssumption DEF TokenInv, ControlAssumption
<1>8. \A v \in LoadUsers : flights'["normal"][v] <= dispatched'
  BY <1>2, <1>5 DEF TokenInv, Kinds
<1> QED BY <1>2, <1>4, <1>5, <1>6, <1>7, <1>8 DEF TokenInv

\* An upload that ends gives back the token it holds, if it holds one.
LEMMA LandsKeeps ==
  ASSUME TokenInv, NEW k \in Kinds, NEW u \in LoadUsers, Lands(k, u)
  PROVE  TokenInv'
<1>1. /\ flights[k][u] > 0 /\ flights' = [flights EXCEPT ![k][u] = @ - 1]
      /\ sem' = (IF k = "normal" THEN sem - 1 ELSE sem) /\ dispatched' = dispatched
  BY DEF Lands
<1>2. flights' \in [Kinds -> [LoadUsers -> Nat]] BY <1>1 DEF TokenInv
<1>3. sem \in Nat /\ Streams \in Nat
  BY HeldFinite, FS_CardinalityType, ControlAssumption DEF TokenInv, ControlAssumption
<1>4. CASE k = "normal"
  <2>1. u \in NormalUsers BY <1>1, <1>4 DEF TokenInv
  <2>2. flights' = [flights EXCEPT !["normal"][u] = @ - 1] /\ flights["normal"][u] > 0 BY <1>1, <1>4
  <2>3. sem' = Cardinality(Held') BY <1>1, <1>4, <2>1, <2>2, OneFewerHeld DEF TokenInv
  <2>4. sem' <= Streams BY <1>1, <1>3, <1>4 DEF TokenInv
  <2>5. \A v \in LoadUsers : flights'["normal"][v] <= dispatched' BY <1>1, <2>2 DEF TokenInv, Kinds
  <2>6. \A v \in LoadUsers \ NormalUsers : flights'["normal"][v] = 0
    BY <2>1, <2>2 DEF TokenInv, Kinds
  <2> QED BY <1>1, <1>2, <2>3, <2>4, <2>5, <2>6 DEF TokenInv
<1>5. CASE k # "normal"
  <2>1. flights'["normal"] = flights["normal"] BY <1>1, <1>5 DEF TokenInv, Kinds
  <2>2. Held' = Held BY <2>1, SameHeld
  <2> QED BY <1>1, <1>2, <1>5, <2>1, <2>2 DEF TokenInv
<1> QED BY <1>4, <1>5

\* Every step of the dispatch, the uploads and the stop keeps the tokens.
LEMMA TokenStep == ASSUME TokenInv, [ControlNext]_controlVars PROVE TokenInv'
<1> DEFINE Aside == sem' = sem /\ flights' = flights /\ dispatched' = dispatched
<1>1. ASSUME Aside PROVE TokenInv'
  <2>1. Held' = Held BY <1>1, SameHeld
  <2> QED BY <1>1, <2>1 DEF TokenInv
<1>2. CASE UNCHANGED controlVars BY <1>1, <1>2 DEF controlVars
<1>3. CASE DispatchNormal BY <1>3, DispatchNormalKeeps
<1>4. CASE DispatchLarge BY <1>4, DispatchLargeKeeps
<1>5. CASE \E k \in Kinds, u \in LoadUsers : UploadOk(k, u) \/ UploadFails(k, u)
  BY <1>5, LandsKeeps DEF UploadOk, UploadFails
<1>6. CASE NormalGivesUp \/ LargeGivesUp \/ (\E k \in Kinds : LoopReturns(k))
  BY <1>1, <1>6 DEF NormalGivesUp, LargeGivesUp, LoopReturns
<1>7. CASE UserStops \/ DeadlinePasses \/ SamplerTick
  BY <1>1, <1>7 DEF UserStops, DeadlinePasses, SamplerTick
<1>8. CASE DrainBegins \/ OuterCancelled \/ SealReason
  BY <1>1, <1>8 DEF DrainBegins, OuterCancelled, SealReason
<1> QED BY <1>2, <1>3, <1>4, <1>5, <1>6, <1>7, <1>8 DEF ControlNext

\* The run starts without uploads and without tokens.
LEMMA TokenInit == ASSUME ControlInit PROVE TokenInv
<1>1. flights = [k \in Kinds |-> [u \in LoadUsers |-> 0]] /\ sem = 0 /\ dispatched = 0
  BY DEF ControlInit
<1>2. \A u \in LoadUsers : flights["normal"][u] = 0 BY <1>1 DEF Kinds
<1>3. Held = {} BY <1>2 DEF Held, LoadUsers
<1>4. Cardinality(Held) = 0 BY <1>3, FS_EmptySet
<1> QED BY <1>1, <1>2, <1>4, ControlAssumption DEF TokenInv, ControlAssumption

\* The upload semaphore never leaks a token and never frees one twice, for any
\* number of users, streams and uploads (runNormal, uploadOne's deferred release).
THEOREM Tokens == ControlSpec => []TokensMatchUploads
<1>1. ControlInit => TokenInv BY TokenInit
<1>2. TokenInv /\ [ControlNext]_controlVars => TokenInv' BY TokenStep
<1>3. TokenInv => TokensMatchUploads BY DEF TokenInv, TokensMatchUploads, Held
<1> QED BY <1>1, <1>2, <1>3, PTL DEF ControlSpec

-----------------------------------------------------------------------------
\* "max-failures" is claimed when every normal user is disabled, and a disabled
\* user stays so; the other reasons and the seal's default are different words.
LEMMA MaxFailuresStep ==
  ASSUME MaxFailuresMeansAll, [ControlNext]_controlVars
  PROVE  MaxFailuresMeansAll'
<1> DEFINE Same == reason' = reason /\ sealedReason' = sealedReason /\ retired' = retired
<1>1. ASSUME Same PROVE MaxFailuresMeansAll' BY <1>1 DEF MaxFailuresMeansAll
<1>2. CASE UNCHANGED controlVars BY <1>1, <1>2 DEF controlVars
<1>3. CASE DispatchNormal \/ DispatchLarge \/ LargeGivesUp \/ (\E k \in Kinds : LoopReturns(k))
  BY <1>1, <1>3 DEF DispatchNormal, DispatchLarge, LargeGivesUp, LoopReturns
<1>4. CASE NormalGivesUp
  BY <1>4 DEF NormalGivesUp, PickActiveUser, MaxFailuresMeansAll
<1>5. CASE \E k \in Kinds, u \in LoadUsers : UploadOk(k, u) \/ UploadFails(k, u)
  <2>1. reason' = reason /\ sealedReason' = sealedReason /\ retired \subseteq retired'
    BY <1>5 DEF UploadOk, UploadFails, Lands
  <2> QED BY <2>1 DEF MaxFailuresMeansAll
<1>6. CASE UserStops \/ DeadlinePasses
  BY <1>6 DEF UserStops, DeadlinePasses, Claim, MaxFailuresMeansAll
<1>7. CASE SamplerTick
  <2>1. reason' \in {reason, "speed-floor"} /\ sealedReason' = sealedReason /\ retired' = retired
    BY <1>7 DEF SamplerTick, StopWithReason, Claim
  <2> QED BY <2>1 DEF MaxFailuresMeansAll
<1>8. CASE DrainBegins \/ OuterCancelled
  BY <1>1, <1>8 DEF DrainBegins, OuterCancelled
<1>9. CASE SealReason
  BY <1>9 DEF SealReason, MaxFailuresMeansAll
<1> QED
  BY <1>2, <1>3, <1>4, <1>5, <1>6, <1>7, <1>8, <1>9 DEF ControlNext

\* A run that reports "max-failures" had no upload user left (runNormal's exit
\* against Stop, the floor and the deadline).
THEOREM MaxFailures == ControlSpec => []MaxFailuresMeansAll
<1>1. ControlInit => MaxFailuresMeansAll
  BY ControlAssumption DEF ControlInit, ControlAssumption, MaxFailuresMeansAll
<1>2. MaxFailuresMeansAll /\ [ControlNext]_controlVars => MaxFailuresMeansAll'
  BY MaxFailuresStep
<1> QED BY <1>1, <1>2, PTL DEF ControlSpec

-----------------------------------------------------------------------------
(* The list connections.                                                   *)

ListTypeOK ==
    /\ openLists \subseteq ListConns /\ toClose \subseteq ListConns
    /\ listClient \in [Pollers -> ListConns \cup {NoConn}]
    /\ registry \in [Pollers -> ListConns \cup {NoConn}]
    /\ dials \in [Pollers -> 0..MaxLists]
    /\ poller \in [Pollers -> {"wait", "dial", "register", "list", "transfer", "drop",
                            "unregister", "exit", "gone"}]

(* A worker's connection is the last one it dialled, kept until it is      *)
(* closed and unregistered.                                                *)
OwnList(p) ==
    /\ listClient[p] # NoConn => listClient[p] = <<p, dials[p]>>
    /\ poller[p] \in {"dial", "gone"} => listClient[p] = NoConn
    /\ poller[p] \in {"register", "list", "drop", "unregister", "exit"} => listClient[p] # NoConn
    /\ poller[p] \in {"unregister", "exit"} => listClient[p] \notin openLists

(* The registry has every open connection of a worker past its             *)
(* registration, or the closing goroutine is about to close it.            *)
Closable(p) ==
    listClient[p] \in openLists /\ poller[p] # "register" =>
        registry[p] = listClient[p] \/ listClient[p] \in toClose

OpenOwned == \A c \in openLists : \E p \in Pollers : c = listClient[p]

CloserPhase ==
    /\ closer \in {"run", "collect"} => ~listsClosed
    /\ closer \notin {"run", "collect"} => listsClosed
    /\ listsClosed => registry = [p \in Pollers |-> NoConn]
    /\ closer # "close" => toClose = {}
    /\ closer \in {"run", "collect", "close", "wait", "forced", "torn"}
    /\ closer = "torn" => \A p \in Pollers : poller[p] = "gone"

ListInv ==
    /\ ListTypeOK /\ OpenOwned /\ CloserPhase
    /\ \A p \in Pollers : OwnList(p) /\ Closable(p)

(* Once closeListClients has run no worker waits in List on a connection   *)
(* that nobody will close, whenever it was dialled.                        *)
NoListLeftHanging ==
    closer \in {"wait", "forced", "torn"} =>
        \A p \in Pollers : poller[p] = "list" => listClient[p] \notin openLists

(* A drain that was not forced leaves no list connection open.             *)
NoListOutlivesDrain == closer = "torn" => openLists = {}

(* A step of one worker: the others keep what is theirs, and what it opens *)
(* is its own.                                                             *)
LEMMA WorkerStep ==
  ASSUME ListInv, NEW p \in Pollers, ListTypeOK', poller[p] # "gone",
         UNCHANGED <<listsClosed, toClose, closer>>,
         \A q \in Pollers \ {p} : /\ listClient'[q] = listClient[q] /\ registry'[q] = registry[q]
                                  /\ poller'[q] = poller[q] /\ dials'[q] = dials[q],
         \A c \in openLists' : c \in openLists \/ c = listClient'[p],
         listClient[p] \in openLists' => listClient'[p] = listClient[p],
         listsClosed => registry'[p] = NoConn,
         OwnList(p)', Closable(p)'
  PROVE  ListInv'
<1>1. /\ ListTypeOK /\ OpenOwned /\ CloserPhase
      /\ \A q \in Pollers : OwnList(q) /\ Closable(q)
  BY DEF ListInv
<1>2. ASSUME NEW q \in Pollers, q # p, listClient[q] \in openLists'
      PROVE  listClient[q] \in openLists
  <2>1. SUFFICES ASSUME listClient[q] = listClient'[p] PROVE FALSE
    BY <1>2
  <2>2. listClient[q] # NoConn
    BY <1>2, ListAssumption DEF ListTypeOK
  <2>3. listClient[q] = <<q, dials[q]>>
    BY <1>1, <2>2 DEF OwnList
  <2>4. listClient'[p] = <<p, dials'[p]>>
    BY <2>1, <2>2 DEF OwnList
  <2>5. <<q, dials[q]>> = <<p, dials'[p]>>
    BY <2>1, <2>3, <2>4
  <2> QED
    BY <1>2, <2>5
<1>3. ASSUME NEW q \in Pollers PROVE OwnList(q)' /\ Closable(q)'
  <2>1. CASE q = p BY <2>1
  <2>2. CASE q # p
    <3>1. /\ listClient'[q] = listClient[q] /\ registry'[q] = registry[q]
          /\ poller'[q] = poller[q] /\ dials'[q] = dials[q]
      BY <2>2
    <3>2. OwnList(q) /\ Closable(q)
      BY <1>1
    <3>3. OwnList(q)'
      BY <1>2, <2>2, <3>1, <3>2 DEF OwnList
    <3>4. Closable(q)'
      BY <1>2, <2>2, <3>1, <3>2 DEF Closable
    <3> QED BY <3>3, <3>4
  <2> QED BY <2>1, <2>2
<1>4. OpenOwned'
  <2> SUFFICES ASSUME NEW c \in openLists' PROVE \E q \in Pollers : c = listClient'[q]
    BY DEF OpenOwned
  <2>1. CASE c = listClient'[p] BY <2>1
  <2>2. CASE c \in openLists
    <3>1. PICK q \in Pollers : c = listClient[q]
      BY <1>1, <2>2 DEF OpenOwned
    <3>2. CASE q = p BY <3>1, <3>2
    <3>3. CASE q # p BY <3>1, <3>3
    <3> QED BY <3>2, <3>3
  <2> QED BY <2>1, <2>2
<1>5. CloserPhase'
  <2>1. listsClosed' => registry' = [q \in Pollers |-> NoConn]
    <3> SUFFICES ASSUME listsClosed PROVE \A q \in Pollers : registry'[q] = NoConn
      BY DEF ListTypeOK
    <3>1. \A q \in Pollers : registry[q] = NoConn
      BY <1>1 DEF CloserPhase
    <3> QED BY <3>1
  <2>2. closer # "torn"
    BY <1>1 DEF CloserPhase
  <2> QED BY <1>1, <2>1, <2>2 DEF CloserPhase
<1> QED
  BY <1>3, <1>4, <1>5 DEF ListInv

LEMMA WorkersStep ==
  ASSUME ListInv, NEW p \in Pollers,
         PollerStep(p) \/ PollerDisabled(p) \/ ServerStep(p)
  PROVE  ListInv'
<1>1. ListTypeOK /\ CloserPhase /\ OwnList(p) /\ Closable(p)
  BY DEF ListInv
<1>2. CASE PollTick(p)
  <2>1. ListTypeOK'
    BY <1>1, <1>2 DEF PollTick, PollerGoes, ListTypeOK
  <2>2. \A q \in Pollers \ {p} : /\ listClient'[q] = listClient[q] /\ registry'[q] = registry[q]
                                   /\ poller'[q] = poller[q] /\ dials'[q] = dials[q]
    BY <1>1, <1>2 DEF PollTick, PollerGoes, ListTypeOK
  <2>3. OwnList(p)' /\ Closable(p)'
    BY <1>1, <1>2 DEF PollTick, PollerGoes, ListTypeOK, OwnList, Closable
  <2>4. /\ poller[p] # "gone" /\ UNCHANGED <<listsClosed, toClose, closer>>
        /\ \A c \in openLists' : c \in openLists \/ c = listClient'[p]
        /\ listClient[p] \in openLists' => listClient'[p] = listClient[p]
    BY <1>1, <1>2, ListAssumption DEF PollTick, PollerGoes, ListTypeOK, OwnList
  <2>5. listsClosed => registry'[p] = NoConn
    BY <1>1, <1>2 DEF PollTick, PollerGoes, ListTypeOK, CloserPhase
  <2> QED
    BY <2>1, <2>2, <2>3, <2>4, <2>5, WorkerStep
<1>3. CASE poller[p] = "wait" /\ WorkerReturns(p)
  <2>1. ListTypeOK'
    BY <1>1, <1>3 DEF WorkerReturns, PollerGoes, ListTypeOK
  <2>2. \A q \in Pollers \ {p} : /\ listClient'[q] = listClient[q] /\ registry'[q] = registry[q]
                                   /\ poller'[q] = poller[q] /\ dials'[q] = dials[q]
    BY <1>1, <1>3 DEF WorkerReturns, PollerGoes, ListTypeOK
  <2>3. OwnList(p)' /\ Closable(p)'
    BY <1>1, <1>3 DEF WorkerReturns, PollerGoes, ListTypeOK, OwnList, Closable
  <2>4. /\ poller[p] # "gone" /\ UNCHANGED <<listsClosed, toClose, closer>>
        /\ \A c \in openLists' : c \in openLists \/ c = listClient'[p]
        /\ listClient[p] \in openLists' => listClient'[p] = listClient[p]
    BY <1>1, <1>3, ListAssumption DEF WorkerReturns, PollerGoes, ListTypeOK, OwnList
  <2>5. listsClosed => registry'[p] = NoConn
    BY <1>1, <1>3 DEF WorkerReturns, PollerGoes, ListTypeOK, CloserPhase
  <2> QED
    BY <2>1, <2>2, <2>3, <2>4, <2>5, WorkerStep
<1>4. CASE ExitUnregisters(p)
  <2>1. ListTypeOK'
    BY <1>1, <1>4 DEF ExitUnregisters, Unregister, PollerGoes, ListTypeOK
  <2>2. \A q \in Pollers \ {p} : /\ listClient'[q] = listClient[q] /\ registry'[q] = registry[q]
                                   /\ poller'[q] = poller[q] /\ dials'[q] = dials[q]
    BY <1>1, <1>4 DEF ExitUnregisters, Unregister, PollerGoes, ListTypeOK
  <2>3. OwnList(p)' /\ Closable(p)'
    BY <1>1, <1>4 DEF ExitUnregisters, Unregister, PollerGoes, ListTypeOK, OwnList, Closable
  <2>4. /\ poller[p] # "gone" /\ UNCHANGED <<listsClosed, toClose, closer>>
        /\ \A c \in openLists' : c \in openLists \/ c = listClient'[p]
        /\ listClient[p] \in openLists' => listClient'[p] = listClient[p]
    BY <1>1, <1>4, ListAssumption DEF ExitUnregisters, Unregister, PollerGoes, ListTypeOK, OwnList
  <2>5. listsClosed => registry'[p] = NoConn
    BY <1>1, <1>4 DEF ExitUnregisters, Unregister, PollerGoes, ListTypeOK, CloserPhase
  <2> QED
    BY <2>1, <2>2, <2>3, <2>4, <2>5, WorkerStep
<1>5. CASE ListDialled(p)
  <2> DEFINE new == <<p, dials[p] + 1>>
  <2>1. new \in ListConns /\ new # NoConn /\ dials[p] + 1 \in 0..MaxLists
    BY <1>1, <1>5, ListAssumption DEF ListDialled, ListConns, ListTypeOK
  <2>2. /\ openLists' = openLists \cup {new} /\ listClient' = [listClient EXCEPT ![p] = new]
        /\ dials' = [dials EXCEPT ![p] = dials[p] + 1]
        /\ poller' = [poller EXCEPT ![p] = "register"] /\ UNCHANGED <<registry, toClose>>
    BY <1>5 DEF ListDialled, PollerGoes
  <2>3. listClient'[p] = new /\ dials'[p] = dials[p] + 1 /\ poller'[p] = "register"
    BY <1>1, <2>2 DEF ListTypeOK
  <2>4. ListTypeOK'
    <3> HIDE DEF new
    <3> QED BY <1>1, <2>1, <2>2 DEF ListTypeOK
  <2>5. \A q \in Pollers \ {p} : /\ listClient'[q] = listClient[q] /\ registry'[q] = registry[q]
                                   /\ poller'[q] = poller[q] /\ dials'[q] = dials[q]
    BY <1>1, <1>5 DEF ListDialled, PollerGoes, ListTypeOK
  <2>6. OwnList(p)' /\ Closable(p)'
    BY <2>1, <2>3 DEF OwnList, Closable
  <2>7. /\ poller[p] # "gone" /\ UNCHANGED <<listsClosed, toClose, closer>>
        /\ \A c \in openLists' : c \in openLists \/ c = listClient'[p]
        /\ listClient[p] \in openLists' => listClient'[p] = listClient[p]
    BY <1>1, <1>5, ListAssumption DEF ListDialled, PollerGoes, ListTypeOK, OwnList
  <2>8. listsClosed => registry'[p] = NoConn
    BY <1>1, <1>5 DEF ListDialled, PollerGoes, ListTypeOK, CloserPhase
  <2> QED
    BY <2>4, <2>5, <2>6, <2>7, <2>8, WorkerStep
<1>6. CASE ListDialFails(p)
  <2>1. ListTypeOK'
    BY <1>1, <1>6 DEF ListDialFails, PollerGoes, ListTypeOK
  <2>2. \A q \in Pollers \ {p} : /\ listClient'[q] = listClient[q] /\ registry'[q] = registry[q]
                                   /\ poller'[q] = poller[q] /\ dials'[q] = dials[q]
    BY <1>1, <1>6 DEF ListDialFails, PollerGoes, ListTypeOK
  <2>3. OwnList(p)' /\ Closable(p)'
    BY <1>1, <1>6 DEF ListDialFails, PollerGoes, ListTypeOK, OwnList, Closable
  <2>4. /\ poller[p] # "gone" /\ UNCHANGED <<listsClosed, toClose, closer>>
        /\ \A c \in openLists' : c \in openLists \/ c = listClient'[p]
        /\ listClient[p] \in openLists' => listClient'[p] = listClient[p]
    BY <1>1, <1>6, ListAssumption DEF ListDialFails, PollerGoes, ListTypeOK, OwnList
  <2>5. listsClosed => registry'[p] = NoConn
    BY <1>1, <1>6 DEF ListDialFails, PollerGoes, ListTypeOK, CloserPhase
  <2> QED
    BY <2>1, <2>2, <2>3, <2>4, <2>5, WorkerStep
<1>7. CASE Register(p)
  <2>1. ListTypeOK'
    BY <1>1, <1>7 DEF Register, PollerGoes, ListTypeOK
  <2>2. \A q \in Pollers \ {p} : /\ listClient'[q] = listClient[q] /\ registry'[q] = registry[q]
                                   /\ poller'[q] = poller[q] /\ dials'[q] = dials[q]
    BY <1>1, <1>7 DEF Register, PollerGoes, ListTypeOK
  <2>3. OwnList(p)' /\ Closable(p)'
    BY <1>1, <1>7, ListAssumption DEF Register, PollerGoes, ListTypeOK, OwnList, Closable
  <2>4. /\ poller[p] # "gone" /\ UNCHANGED <<listsClosed, toClose, closer>>
        /\ \A c \in openLists' : c \in openLists \/ c = listClient'[p]
        /\ listClient[p] \in openLists' => listClient'[p] = listClient[p]
    BY <1>1, <1>7, ListAssumption DEF Register, PollerGoes, ListTypeOK, OwnList
  <2>5. listsClosed => registry'[p] = NoConn
    BY <1>1, <1>7 DEF Register, PollerGoes, ListTypeOK, CloserPhase
  <2> QED
    BY <2>1, <2>2, <2>3, <2>4, <2>5, WorkerStep
<1>8. CASE ListAnswers(p)
  <2>1. ListTypeOK'
    BY <1>1, <1>8 DEF ListAnswers, PollerGoes, ListTypeOK
  <2>2. \A q \in Pollers \ {p} : /\ listClient'[q] = listClient[q] /\ registry'[q] = registry[q]
                                   /\ poller'[q] = poller[q] /\ dials'[q] = dials[q]
    BY <1>1, <1>8 DEF ListAnswers, PollerGoes, ListTypeOK
  <2>3. OwnList(p)' /\ Closable(p)'
    BY <1>1, <1>8 DEF ListAnswers, PollerGoes, ListTypeOK, OwnList, Closable
  <2>4. /\ poller[p] # "gone" /\ UNCHANGED <<listsClosed, toClose, closer>>
        /\ \A c \in openLists' : c \in openLists \/ c = listClient'[p]
        /\ listClient[p] \in openLists' => listClient'[p] = listClient[p]
    BY <1>1, <1>8, ListAssumption DEF ListAnswers, PollerGoes, ListTypeOK, OwnList
  <2>5. listsClosed => registry'[p] = NoConn
    BY <1>1, <1>8 DEF ListAnswers, PollerGoes, ListTypeOK, CloserPhase
  <2> QED
    BY <2>1, <2>2, <2>3, <2>4, <2>5, WorkerStep
<1>9. CASE ListBreaks(p)
  <2>1. ListTypeOK'
    BY <1>1, <1>9 DEF ListBreaks, PollerGoes, ListTypeOK
  <2>2. \A q \in Pollers \ {p} : /\ listClient'[q] = listClient[q] /\ registry'[q] = registry[q]
                                   /\ poller'[q] = poller[q] /\ dials'[q] = dials[q]
    BY <1>1, <1>9 DEF ListBreaks, PollerGoes, ListTypeOK
  <2>3. OwnList(p)' /\ Closable(p)'
    BY <1>1, <1>9 DEF ListBreaks, PollerGoes, ListTypeOK, OwnList, Closable
  <2>4. /\ poller[p] # "gone" /\ UNCHANGED <<listsClosed, toClose, closer>>
        /\ \A c \in openLists' : c \in openLists \/ c = listClient'[p]
        /\ listClient[p] \in openLists' => listClient'[p] = listClient[p]
    BY <1>1, <1>9, ListAssumption DEF ListBreaks, PollerGoes, ListTypeOK, OwnList
  <2>5. listsClosed => registry'[p] = NoConn
    BY <1>1, <1>9 DEF ListBreaks, PollerGoes, ListTypeOK, CloserPhase
  <2> QED
    BY <2>1, <2>2, <2>3, <2>4, <2>5, WorkerStep
<1>10. CASE ListInterrupted(p)
  <2>1. ListTypeOK'
    BY <1>1, <1>10 DEF ListInterrupted, PollerGoes, ListTypeOK
  <2>2. \A q \in Pollers \ {p} : /\ listClient'[q] = listClient[q] /\ registry'[q] = registry[q]
                                   /\ poller'[q] = poller[q] /\ dials'[q] = dials[q]
    BY <1>1, <1>10 DEF ListInterrupted, PollerGoes, ListTypeOK
  <2>3. OwnList(p)' /\ Closable(p)'
    BY <1>1, <1>10 DEF ListInterrupted, PollerGoes, ListTypeOK, OwnList, Closable
  <2>4. /\ poller[p] # "gone" /\ UNCHANGED <<listsClosed, toClose, closer>>
        /\ \A c \in openLists' : c \in openLists \/ c = listClient'[p]
        /\ listClient[p] \in openLists' => listClient'[p] = listClient[p]
    BY <1>1, <1>10, ListAssumption DEF ListInterrupted, PollerGoes, ListTypeOK, OwnList
  <2>5. listsClosed => registry'[p] = NoConn
    BY <1>1, <1>10 DEF ListInterrupted, PollerGoes, ListTypeOK, CloserPhase
  <2> QED
    BY <2>1, <2>2, <2>3, <2>4, <2>5, WorkerStep
<1>11. CASE DropList(p)
  <2>1. ListTypeOK'
    BY <1>1, <1>11 DEF DropList, PollerGoes, ListTypeOK
  <2>2. \A q \in Pollers \ {p} : /\ listClient'[q] = listClient[q] /\ registry'[q] = registry[q]
                                   /\ poller'[q] = poller[q] /\ dials'[q] = dials[q]
    BY <1>1, <1>11 DEF DropList, PollerGoes, ListTypeOK
  <2>3. OwnList(p)' /\ Closable(p)'
    BY <1>1, <1>11 DEF DropList, PollerGoes, ListTypeOK, OwnList, Closable
  <2>4. /\ poller[p] # "gone" /\ UNCHANGED <<listsClosed, toClose, closer>>
        /\ \A c \in openLists' : c \in openLists \/ c = listClient'[p]
        /\ listClient[p] \in openLists' => listClient'[p] = listClient[p]
    BY <1>1, <1>11, ListAssumption DEF DropList, PollerGoes, ListTypeOK, OwnList
  <2>5. listsClosed => registry'[p] = NoConn
    BY <1>1, <1>11 DEF DropList, PollerGoes, ListTypeOK, CloserPhase
  <2> QED
    BY <2>1, <2>2, <2>3, <2>4, <2>5, WorkerStep
<1>12. CASE DropUnregisters(p)
  <2>1. ListTypeOK'
    BY <1>1, <1>12 DEF DropUnregisters, Unregister, PollerGoes, ListTypeOK
  <2>2. \A q \in Pollers \ {p} : /\ listClient'[q] = listClient[q] /\ registry'[q] = registry[q]
                                   /\ poller'[q] = poller[q] /\ dials'[q] = dials[q]
    BY <1>1, <1>12 DEF DropUnregisters, Unregister, PollerGoes, ListTypeOK
  <2>3. OwnList(p)' /\ Closable(p)'
    BY <1>1, <1>12 DEF DropUnregisters, Unregister, PollerGoes, ListTypeOK, OwnList, Closable
  <2>4. /\ poller[p] # "gone" /\ UNCHANGED <<listsClosed, toClose, closer>>
        /\ \A c \in openLists' : c \in openLists \/ c = listClient'[p]
        /\ listClient[p] \in openLists' => listClient'[p] = listClient[p]
    BY <1>1, <1>12, ListAssumption DEF DropUnregisters, Unregister, PollerGoes, ListTypeOK, OwnList
  <2>5. listsClosed => registry'[p] = NoConn
    BY <1>1, <1>12 DEF DropUnregisters, Unregister, PollerGoes, ListTypeOK, CloserPhase
  <2> QED
    BY <2>1, <2>2, <2>3, <2>4, <2>5, WorkerStep
<1>13. CASE TransfersEnd(p)
  <2>1. ListTypeOK'
    BY <1>1, <1>13 DEF TransfersEnd, PollerGoes, ListTypeOK
  <2>2. \A q \in Pollers \ {p} : /\ listClient'[q] = listClient[q] /\ registry'[q] = registry[q]
                                   /\ poller'[q] = poller[q] /\ dials'[q] = dials[q]
    BY <1>1, <1>13 DEF TransfersEnd, PollerGoes, ListTypeOK
  <2>3. OwnList(p)' /\ Closable(p)'
    BY <1>1, <1>13 DEF TransfersEnd, PollerGoes, ListTypeOK, OwnList, Closable
  <2>4. /\ poller[p] # "gone" /\ UNCHANGED <<listsClosed, toClose, closer>>
        /\ \A c \in openLists' : c \in openLists \/ c = listClient'[p]
        /\ listClient[p] \in openLists' => listClient'[p] = listClient[p]
    BY <1>1, <1>13, ListAssumption DEF TransfersEnd, PollerGoes, ListTypeOK, OwnList
  <2>5. listsClosed => registry'[p] = NoConn
    BY <1>1, <1>13 DEF TransfersEnd, PollerGoes, ListTypeOK, CloserPhase
  <2> QED
    BY <2>1, <2>2, <2>3, <2>4, <2>5, WorkerStep
<1> QED
  BY <1>2, <1>3, <1>4, <1>5, <1>6, <1>7, <1>8, <1>9, <1>10, <1>11, <1>12, <1>13     DEF PollerStep, ServerStep, PollReturns, PollerDisabled

LEMMA CloserStep ==
  ASSUME ListInv, CancelOuter \/ CloseListClients \/ CloseList \/ Drained \/ HardCap
  PROVE  ListInv'
<1>1. /\ ListTypeOK /\ OpenOwned /\ CloserPhase
      /\ \A p \in Pollers : OwnList(p) /\ Closable(p)
  BY DEF ListInv
<1>2. UNCHANGED <<listClient, poller, dials>>
  BY DEF CancelOuter, CloseListClients, CloseList, Drained, HardCap
<1>3. CASE CancelOuter \/ Drained \/ HardCap
  <2>1. UNCHANGED <<openLists, registry, listsClosed, toClose>>
    BY <1>3 DEF CancelOuter, Drained, HardCap
  <2>2. CloserPhase'
    BY <1>1, <1>2, <1>3, <2>1 DEF CancelOuter, Drained, HardCap, CloserPhase
  <2> QED
    BY <1>1, <1>2, <2>1, <2>2 DEF ListInv, ListTypeOK, OpenOwned, OwnList, Closable
<1>4. CASE CloseListClients
  <2>1. /\ openLists' = openLists /\ toClose' = {registry[p] : p \in Pollers} \ {NoConn}
        /\ registry' = [p \in Pollers |-> NoConn] /\ listsClosed' = TRUE /\ closer' = "close"
        /\ closer = "collect"
    BY <1>4 DEF CloseListClients
  <2>2. ListTypeOK'
    BY <1>1, <1>2, <2>1 DEF ListTypeOK
  <2>3. ASSUME NEW p \in Pollers PROVE OwnList(p)' /\ Closable(p)'
    <3>1. OwnList(p)'
      BY <1>1, <1>2, <2>1 DEF OwnList
    <3>2. toClose = {}
      BY <1>1, <2>1 DEF CloserPhase
    <3>3. listClient[p] \in openLists => listClient[p] # NoConn
      BY <1>1, ListAssumption DEF ListTypeOK
    <3>4. Closable(p)'
      BY <1>1, <1>2, <2>1, <3>2, <3>3 DEF Closable
    <3> QED BY <3>1, <3>4
  <2>4. CloserPhase'
    BY <2>1 DEF CloserPhase
  <2> QED
    BY <1>1, <1>2, <2>1, <2>2, <2>3, <2>4 DEF ListInv, OpenOwned
<1>5. CASE CloseList /\ toClose = {}
  BY <1>1, <1>2, <1>5 DEF CloseList, CloserPhase, ListInv, ListTypeOK, OpenOwned, OwnList, Closable
<1>6. CASE CloseList /\ toClose # {}
  <2>1. PICK c \in toClose : openLists' = openLists \ {c} /\ toClose' = toClose \ {c}
    BY <1>6 DEF CloseList
  <2>2. UNCHANGED <<registry, listsClosed, closer>> /\ closer = "close"
    BY <1>6 DEF CloseList
  <2>3. ListTypeOK' /\ OpenOwned' /\ CloserPhase'
    BY <1>1, <1>2, <2>1, <2>2 DEF ListTypeOK, OpenOwned, CloserPhase
  <2>4. \A p \in Pollers : OwnList(p)' /\ Closable(p)'
    BY <1>1, <1>2, <2>1, <2>2 DEF OwnList, Closable
  <2> QED BY <2>3, <2>4 DEF ListInv
<1> QED
  BY <1>3, <1>4, <1>5, <1>6

(* ListInv is inductive, for any number of workers and dials               *)
(* (downloadWorker's ensureList and dropList, closeListClients).           *)
THEOREM ListInvariant == ListSpec => []ListInv
<1>1. ListInit => ListInv
  BY ListAssumption DEF ListInit, ListInv, ListTypeOK, OpenOwned, CloserPhase, OwnList, Closable
<1>2. ListInv /\ [ListNext]_listVars => ListInv'
  <2>1. ASSUME ListInv, ListNext PROVE ListInv'
    BY <2>1, WorkersStep, CloserStep DEF ListNext
  <2>2. ASSUME ListInv, UNCHANGED listVars PROVE ListInv'
    BY <2>2 DEF listVars, ListInv, ListTypeOK, OpenOwned, CloserPhase, OwnList, Closable
  <2> QED BY <2>1, <2>2
<1> QED
  BY <1>1, <1>2, PTL DEF ListSpec

(* The safety half of WorkersReturn: a connection registered before        *)
(* closeListClients collects is closed by it, one that comes later is      *)
(* refused (runner.go ensureList), so every List call ends in an error.    *)
THEOREM ListsInterrupted == ListSpec => []NoListLeftHanging
<1>1. ListInv => NoListLeftHanging
  <2> SUFFICES ASSUME ListInv, closer \in {"wait", "forced", "torn"},
                      NEW p \in Pollers, poller[p] = "list", listClient[p] \in openLists
               PROVE  FALSE
    BY DEF NoListLeftHanging
  <2>1. registry[p] = NoConn /\ toClose = {}
    BY DEF ListInv, CloserPhase
  <2>2. listClient[p] # NoConn
    BY DEF ListInv, OwnList
  <2> QED BY <2>1, <2>2 DEF ListInv, Closable
<1> QED
  BY <1>1, ListInvariant, PTL

(* Workers close what they dialled before they return, so once they all    *)
(* have no list connection is open (downloadWorker's deferred close).      *)
THEOREM ListsTornDown == ListSpec => []NoListOutlivesDrain
<1>1. ListInv => NoListOutlivesDrain
  <2> SUFFICES ASSUME ListInv, closer = "torn", NEW c \in openLists PROVE FALSE
    BY DEF NoListOutlivesDrain
  <2>1. PICK p \in Pollers : c = listClient[p]
    BY DEF ListInv, OpenOwned
  <2>2. listClient[p] = NoConn
    BY DEF ListInv, CloserPhase, OwnList
  <2> QED BY <2>1, <2>2, ListAssumption DEF ListInv, ListTypeOK
<1> QED
  BY <1>1, ListInvariant, PTL

-----------------------------------------------------------------------------
(* The latency histogram.                                                  *)

LatencyTypeOK ==
    /\ adds \in [Samples -> [pc : {"new", "count", "sum", "max", "swap", "done"},
                             ns : 0..MaxNs, cur : Nat]]
    /\ binned \in SUBSET Samples /\ counted \in SUBSET Samples /\ summed \in SUBSET Samples
    /\ maxNs \in Nat
    /\ snap \in [pc : {"idle", "max", "percentile", "walk", "found", "overrun"}, max : Nat,
                 point : Nat, total : SUBSET Samples, target : Nat, bucket : 0..NumBuckets,
                 seen : SUBSET Samples]

(* A sample is in its bucket before it is counted, and counted before it   *)
(* can become the maximum.                                                 *)
AddsInOrder ==
    \A x \in Samples :
        /\ x \in binned <=> adds[x].pc # "new"
        /\ x \in counted <=> adds[x].pc \in {"sum", "max", "swap", "done"}
        /\ x \in summed <=> adds[x].pc \in {"max", "swap", "done"}
        /\ adds[x].pc = "swap" => adds[x].cur < adds[x].ns

(* What a walk has seen: every sample it counts in the buckets behind it,  *)
(* and none that is in another bucket.                                     *)
WalkSound ==
    snap.pc \in {"walk", "found"} =>
        /\ snap.total \subseteq binned
        /\ snap.target <= Cardinality(snap.total)
        /\ Cardinality(snap.seen) < snap.target
        /\ snap.seen \subseteq binned
        /\ \A x \in snap.seen : bucketIndex(adds[x].ns) < snap.bucket
        /\ \A x \in snap.total : bucketIndex(adds[x].ns) < snap.bucket => x \in snap.seen

LatencyInv == LatencyTypeOK /\ AddsInOrder /\ WalkSound /\ PercentileBracketed /\ MaxCovers

LEMMA BucketRange ==
  ASSUME NEW ns \in Nat
  PROVE  bucketIndex(ns) \in 0..(NumBuckets - 1)
<1>1. CASE ns >= BucketWidth * (NumBuckets - 1)
  BY <1>1, LatencyAssumption DEF bucketIndex
<1>2. CASE ~(ns >= BucketWidth * (NumBuckets - 1))
  <2> DEFINE W == BucketWidth
             q == ns \div W
             L == NumBuckets - 1
  <2>1. W \in Nat /\ W > 0 /\ L \in Nat /\ ns < W * L
    BY <1>2, LatencyAssumption
  <2>2. q \in Nat /\ W * q <= ns
    BY <2>1
  <2>3. bucketIndex(ns) = q
    BY <1>2 DEF bucketIndex
  <2> HIDE DEF W, q, L
  <2>4. q < L
    <3>1. SUFFICES ASSUME q >= L PROVE FALSE
      BY <2>1, <2>2
    <3>2. W * q >= W * L
      BY <2>1, <2>2, <3>1
    <3>3. W * L \in Nat /\ W * q \in Nat
      BY <2>1, <2>2
    <3> QED
      BY <2>1, <2>2, <3>2, <3>3
  <2> QED
    BY <2>1, <2>2, <2>3, <2>4 DEF L
<1> QED
  BY <1>1, <1>2

LEMMA SampleSets ==
  ASSUME NEW S \in SUBSET Samples, NEW T \in SUBSET S
  PROVE  /\ IsFiniteSet(S) /\ IsFiniteSet(T)
         /\ Cardinality(S) \in Nat /\ Cardinality(T) \in Nat /\ Cardinality(T) <= Cardinality(S)
<1>1. IsFiniteSet(S)
  BY FS_Subset, LatencyAssumption
<1> QED
  BY <1>1, FS_Subset, FS_CardinalityType

(* A call of Add: samples that are in buckets keep their durations, and    *)
(* what is in a bucket stays there.                                        *)
LEMMA WalkUndisturbed ==
  ASSUME LatencyInv, LatencyTypeOK', snap' = snap, binned \subseteq binned',
         \A x \in binned : adds'[x].ns = adds[x].ns
  PROVE  WalkSound' /\ PercentileBracketed'
<1>1. LatencyTypeOK /\ WalkSound /\ PercentileBracketed
  BY DEF LatencyInv
<1>2. WalkSound'
  BY <1>1 DEF WalkSound
<1>3. ASSUME snap.pc = "found"
      PROVE  /\ Cardinality({x \in snap.total : bucketIndex(adds'[x].ns) < snap.bucket}) < snap.target
             /\ snap.target <= Cardinality({x \in binned' : bucketIndex(adds'[x].ns) <= snap.bucket})
  <2> DEFINE B == {x \in snap.total : bucketIndex(adds[x].ns) < snap.bucket}
             C == {x \in binned : bucketIndex(adds[x].ns) <= snap.bucket}
             B1 == {x \in snap.total : bucketIndex(adds'[x].ns) < snap.bucket}
             C1 == {x \in binned' : bucketIndex(adds'[x].ns) <= snap.bucket}
  <2>1. Cardinality(B) < snap.target /\ snap.target <= Cardinality(C)
    BY <1>1, <1>3 DEF PercentileBracketed
  <2>2. \A x \in snap.total : adds'[x].ns = adds[x].ns
    BY <1>1, <1>3 DEF WalkSound
  <2>3. B1 = B
    BY <2>2
  <2>4. C \subseteq C1 /\ C1 \in SUBSET Samples
    BY DEF LatencyTypeOK
  <2>5. snap.target \in Nat
    BY <1>1 DEF LatencyTypeOK
  <2> HIDE DEF B, C, B1, C1
  <2>6. Cardinality(C) \in Nat /\ Cardinality(C1) \in Nat /\ Cardinality(C) <= Cardinality(C1)
    BY <2>4, SampleSets
  <2>7. snap.target <= Cardinality(C1)
    BY <2>1, <2>5, <2>6
  <2> QED
    BY <2>1, <2>3, <2>7 DEF B1, C1
<1>4. snap.pc # "overrun"
  BY <1>1 DEF PercentileBracketed
<1>5. PercentileBracketed'
  BY <1>3, <1>4 DEF PercentileBracketed
<1> QED
  BY <1>2, <1>5

LEMMA AddStep ==
  ASSUME LatencyInv, NEW x \in Samples,
         AddToBucket(x) \/ AddToCount(x) \/ AddToSum(x) \/ LoadMax(x) \/ SwapMax(x)
  PROVE  LatencyInv'
<1>1. LatencyTypeOK /\ AddsInOrder /\ MaxCovers
  BY DEF LatencyInv
<1>2. CASE AddToBucket(x)
  <2>1. PICK ns \in 0..MaxNs : adds' = [adds EXCEPT ![x].ns = ns, ![x].pc = "count"]
    BY <1>2 DEF AddToBucket
  <2>2. /\ adds[x].pc = "new" /\ binned' = binned \cup {x}
        /\ UNCHANGED <<counted, summed, maxNs, snap>>
    BY <1>2 DEF AddToBucket
  <2>3. LatencyTypeOK'
    BY <1>1, <2>1, <2>2 DEF LatencyTypeOK
  <2>4. /\ adds'[x].pc = "count" /\ \A y \in Samples \ {x} : adds'[y] = adds[y]
    BY <1>1, <2>1 DEF LatencyTypeOK
  <2>5. AddsInOrder'
    BY <1>1, <2>2, <2>4 DEF AddsInOrder
  <2>6. x \notin binned /\ x \notin summed
    BY <1>1, <2>2 DEF AddsInOrder
  <2>7. MaxCovers'
    BY <1>1, <2>2, <2>4, <2>6 DEF MaxCovers, LatencyTypeOK
  <2>8. \A y \in binned : adds'[y].ns = adds[y].ns
    BY <1>1, <2>4, <2>6 DEF LatencyTypeOK
  <2> QED
    BY <2>2, <2>3, <2>5, <2>7, <2>8, WalkUndisturbed DEF LatencyInv
<1>3. CASE AddToCount(x) \/ AddToSum(x) \/ LoadMax(x) \/ SwapMax(x)
  <2>1. binned' = binned /\ snap' = snap
    BY <1>3 DEF AddToCount, AddToSum, LoadMax, SwapMax
  <2>2. LatencyTypeOK'
    BY <1>1, <1>3 DEF AddToCount, AddToSum, LoadMax, SwapMax, AddGoes, LatencyTypeOK
  <2>3. /\ \A y \in Samples \ {x} : adds'[y] = adds[y]
        /\ adds'[x].ns = adds[x].ns
    BY <1>1, <1>3 DEF AddToCount, AddToSum, LoadMax, SwapMax, AddGoes, LatencyTypeOK
  <2>4. AddsInOrder'
    <3>1. CASE AddToCount(x)
      BY <1>1, <2>3, <3>1 DEF AddToCount, AddGoes, LatencyTypeOK, AddsInOrder
    <3>2. CASE AddToSum(x)
      BY <1>1, <2>3, <3>2 DEF AddToSum, AddGoes, LatencyTypeOK, AddsInOrder
    <3>3. CASE LoadMax(x)
      BY <1>1, <2>3, <3>3 DEF LoadMax, LatencyTypeOK, AddsInOrder
    <3>4. CASE SwapMax(x)
      BY <1>1, <2>3, <3>4 DEF SwapMax, AddGoes, LatencyTypeOK, AddsInOrder
    <3> QED BY <1>3, <3>1, <3>2, <3>3, <3>4
  <2>5. MaxCovers'
    <3>1. CASE AddToCount(x)
      BY <1>1, <2>3, <3>1 DEF AddToCount, AddGoes, LatencyTypeOK, MaxCovers
    <3>2. CASE AddToSum(x)
      BY <1>1, <2>3, <3>2 DEF AddToSum, AddGoes, LatencyTypeOK, MaxCovers
    <3>3. CASE LoadMax(x)
      BY <1>1, <2>3, <3>3 DEF LoadMax, LatencyTypeOK, MaxCovers
    <3>4. CASE SwapMax(x) /\ maxNs = adds[x].cur
      <4>1. maxNs' = adds[x].ns /\ summed' = summed /\ maxNs < adds[x].ns /\ x \in summed
        BY <1>1, <3>4 DEF SwapMax, AddsInOrder
      <4>2. \A y \in Samples : adds[y].ns \in Nat
        BY <1>1, LatencyAssumption DEF LatencyTypeOK
      <4>3. \A y \in Samples \ {x} : adds'[y].pc = "done" => adds'[y].ns <= maxNs'
        <5> SUFFICES ASSUME NEW y \in Samples \ {x}, adds'[y].pc = "done"
                     PROVE  adds'[y].ns <= maxNs'
          OBVIOUS
        <5>1. adds[y].ns <= maxNs /\ adds'[y].ns = adds[y].ns
          BY <1>1, <2>3 DEF MaxCovers
        <5> QED BY <1>1, <4>1, <4>2, <5>1 DEF LatencyTypeOK
      <4> QED BY <2>3, <4>1, <4>2, <4>3 DEF MaxCovers
    <3>5. CASE SwapMax(x) /\ maxNs # adds[x].cur
      BY <1>1, <2>3, <3>5 DEF SwapMax, AddGoes, LatencyTypeOK, MaxCovers
    <3> QED BY <1>3, <3>1, <3>2, <3>3, <3>4, <3>5
  <2>6. \A y \in binned : adds'[y].ns = adds[y].ns
    BY <1>1, <2>3 DEF LatencyTypeOK
  <2> QED
    BY <2>1, <2>2, <2>4, <2>5, <2>6, WalkUndisturbed DEF LatencyInv
<1> QED
  BY <1>2, <1>3

(* The walk: whatever is in its buckets by then, it does not run past the  *)
(* last one, because what was counted was in a bucket before.              *)
LEMMA SnapshotStep ==
  ASSUME LatencyInv,
         \/ SnapshotBegins \/ SnapshotMax \/ PercentileBegins \/ PercentileWalks
         \/ PercentileReturns \/ SnapshotReturns
  PROVE  LatencyInv'
<1>1. LatencyTypeOK /\ AddsInOrder /\ WalkSound /\ PercentileBracketed /\ MaxCovers
  BY DEF LatencyInv
<1>2. UNCHANGED <<adds, binned, counted, summed, maxNs>>
  BY DEF SnapshotBegins, SnapshotMax, PercentileBegins, PercentileWalks,
         PercentileReturns, SnapshotReturns
<1>3. AddsInOrder' /\ MaxCovers'
  BY <1>1, <1>2 DEF AddsInOrder, MaxCovers
<1>4. CASE SnapshotBegins \/ SnapshotMax \/ PercentileReturns \/ SnapshotReturns
  <2>1. PICK s \in {[snap EXCEPT !.pc = "max"], [snap EXCEPT !.pc = "percentile", !.max = maxNs],
                    [snap EXCEPT !.pc = "percentile"], NoSnapshot} : snap' = s
    BY <1>4 DEF SnapshotBegins, SnapshotMax, PercentileReturns, SnapshotReturns
  <2> DEFINE Snaps == [pc : {"idle", "max", "percentile", "walk", "found", "overrun"}, max : Nat,
                       point : Nat, total : SUBSET Samples, target : Nat, bucket : 0..NumBuckets,
                       seen : SUBSET Samples]
  <2>2. snap \in Snaps /\ maxNs \in Nat
    BY <1>1 DEF LatencyTypeOK
  <2>3. [snap EXCEPT !.pc = "max"] \in Snaps /\ [snap EXCEPT !.pc = "max"].pc = "max"
    BY <2>2
  <2>4. [snap EXCEPT !.pc = "percentile"] \in Snaps /\ [snap EXCEPT !.pc = "percentile"].pc = "percentile"
    BY <2>2
  <2>5. /\ [snap EXCEPT !.pc = "percentile", !.max = maxNs] \in Snaps
        /\ [snap EXCEPT !.pc = "percentile", !.max = maxNs].pc = "percentile"
    BY <2>2
  <2>6. NoSnapshot \in Snaps /\ NoSnapshot.pc = "idle"
    <3>1. {} \in SUBSET Samples /\ 0 \in 0..NumBuckets /\ 0 \in Nat
      BY LatencyAssumption
    <3> QED BY <3>1 DEF NoSnapshot
  <2>7. s \in Snaps /\ s.pc \in {"max", "percentile", "idle"}
    BY <2>3, <2>4, <2>5, <2>6
  <2>8. LatencyTypeOK'
    BY <1>1, <1>2, <2>1, <2>7 DEF LatencyTypeOK
  <2> QED
    BY <1>3, <2>1, <2>7, <2>8 DEF LatencyInv, WalkSound, PercentileBracketed
<1>5. CASE PercentileBegins
  <2>1. PICK rank \in 1..Cardinality(counted) :
           snap' = [snap EXCEPT !.pc = "walk", !.point = snap.point + 1, !.total = counted,
                                !.target = rank, !.bucket = 0, !.seen = {}]
    BY <1>5 DEF PercentileBegins
  <2>2. counted \subseteq binned /\ counted \in SUBSET Samples
    BY <1>1 DEF AddsInOrder, LatencyTypeOK
  <2>3. Cardinality(counted) \in Nat /\ Cardinality({}) = 0
    BY <2>2, SampleSets, FS_EmptySet
  <2>4. rank \in Nat /\ rank > 0 /\ rank <= Cardinality(counted)
    BY <2>3
  <2>5. /\ snap'.pc = "walk" /\ snap'.total = counted /\ snap'.target = rank
        /\ snap'.bucket = 0 /\ snap'.seen = {}
    BY <1>1, <2>1 DEF LatencyTypeOK
  <2>6. LatencyTypeOK'
    <3>1. snap' \in [pc : {"idle", "max", "percentile", "walk", "found", "overrun"}, max : Nat,
                     point : Nat, total : SUBSET Samples, target : Nat, bucket : 0..NumBuckets,
                     seen : SUBSET Samples]
      <4>1. 0 \in 0..NumBuckets /\ {} \in SUBSET Samples
        BY LatencyAssumption
      <4>2. snap.point + 1 \in Nat
        BY <1>1 DEF LatencyTypeOK
      <4> QED BY <1>1, <2>1, <2>2, <2>4, <4>1, <4>2 DEF LatencyTypeOK
    <3> QED BY <1>1, <1>2, <3>1 DEF LatencyTypeOK
  <2>7. \A x \in counted : ~(bucketIndex(adds[x].ns) < 0)
    <3> SUFFICES ASSUME NEW x \in counted PROVE ~(bucketIndex(adds[x].ns) < 0)
      OBVIOUS
    <3>1. adds[x].ns \in Nat
      BY <1>1, LatencyAssumption DEF LatencyTypeOK
    <3> QED BY <3>1, BucketRange, LatencyAssumption
  <2>8. WalkSound'
    BY <1>2, <2>2, <2>3, <2>4, <2>5, <2>7 DEF WalkSound
  <2>9. PercentileBracketed'
    BY <2>5 DEF PercentileBracketed
  <2> QED BY <1>3, <2>6, <2>8, <2>9 DEF LatencyInv
<1>6. CASE PercentileWalks /\ snap.bucket # NumBuckets
  <2> DEFINE both == snap.seen \cup InBucket(snap.bucket)
  <2>1. /\ snap.pc = "walk" /\ snap.bucket < NumBuckets
        /\ snap' = IF Cardinality(both) >= snap.target
                   THEN [snap EXCEPT !.pc = "found"]
                   ELSE [snap EXCEPT !.seen = both, !.bucket = snap.bucket + 1]
    BY <1>1, <1>6, LatencyAssumption DEF PercentileWalks, LatencyTypeOK
  <2>2. /\ snap.bucket \in Nat /\ snap.target \in Nat /\ snap.seen \in SUBSET Samples
        /\ \A x \in Samples : adds[x].ns \in Nat
    BY <1>1, LatencyAssumption DEF LatencyTypeOK
  <2>3. \A x \in Samples : bucketIndex(adds[x].ns) \in Int
    BY <2>2, BucketRange, LatencyAssumption
  <2>4. both \in SUBSET Samples /\ both \subseteq binned
        /\ \A x \in both : bucketIndex(adds[x].ns) <= snap.bucket
    <3>1. InBucket(snap.bucket) \subseteq binned /\ binned \in SUBSET Samples
          /\ \A x \in InBucket(snap.bucket) : bucketIndex(adds[x].ns) = snap.bucket
      BY <1>1 DEF InBucket, LatencyTypeOK
    <3>2. snap.seen \subseteq binned /\ \A x \in snap.seen : bucketIndex(adds[x].ns) < snap.bucket
      BY <1>1, <2>1 DEF WalkSound
    <3> QED BY <2>2, <2>3, <3>1, <3>2
  <2>5. \A x \in snap.total : bucketIndex(adds[x].ns) <= snap.bucket => x \in both
    <3>1. snap.total \subseteq binned
          /\ \A x \in snap.total : bucketIndex(adds[x].ns) < snap.bucket => x \in snap.seen
      BY <1>1, <2>1 DEF WalkSound
    <3>2. \A x \in snap.total : bucketIndex(adds[x].ns) \in Int
      BY <1>1, <2>3 DEF LatencyTypeOK
    <3>3. \A x \in snap.total : bucketIndex(adds[x].ns) = snap.bucket => x \in InBucket(snap.bucket)
      BY <3>1 DEF InBucket
    <3> QED BY <2>2, <3>1, <3>2, <3>3
  <2>6. Cardinality(both) \in Nat
    BY <2>4, SampleSets
  <2>7. CASE Cardinality(both) >= snap.target
    <3> HIDE DEF both
    <3>1. snap' = [snap EXCEPT !.pc = "found"]
      BY <2>1, <2>7
    <3>2. /\ snap'.pc = "found" /\ snap'.total = snap.total /\ snap'.target = snap.target
          /\ snap'.bucket = snap.bucket /\ snap'.seen = snap.seen
      BY <1>1, <3>1 DEF LatencyTypeOK
    <3>3. LatencyTypeOK'
      BY <1>1, <1>2, <3>1 DEF LatencyTypeOK
    <3>4. WalkSound'
      BY <1>1, <1>2, <2>1, <3>2 DEF WalkSound
    <3> DEFINE B == {x \in snap.total : bucketIndex(adds[x].ns) < snap.bucket}
               C == {x \in binned : bucketIndex(adds[x].ns) <= snap.bucket}
    <3>5. B \subseteq snap.seen /\ Cardinality(snap.seen) < snap.target
      BY <1>1, <2>1 DEF WalkSound
    <3>6. both \subseteq C /\ C \in SUBSET Samples
      BY <1>1, <2>4 DEF LatencyTypeOK
    <3> HIDE DEF B, C
    <3>7. Cardinality(B) < snap.target
      BY <2>2, <3>5, SampleSets
    <3>8. snap.target <= Cardinality(C)
      BY <2>2, <2>6, <2>7, <3>6, SampleSets
    <3>9. PercentileBracketed'
      BY <1>2, <3>2, <3>7, <3>8 DEF PercentileBracketed, B, C
    <3> QED BY <1>3, <3>3, <3>4, <3>9 DEF LatencyInv
  <2>8. CASE ~(Cardinality(both) >= snap.target)
    <3> HIDE DEF both
    <3>1. snap' = [snap EXCEPT !.seen = both, !.bucket = snap.bucket + 1]
      BY <2>1, <2>8
    <3>2. /\ snap'.pc = "walk" /\ snap'.total = snap.total /\ snap'.target = snap.target
          /\ snap'.bucket = snap.bucket + 1 /\ snap'.seen = both
      BY <1>1, <2>1, <3>1 DEF LatencyTypeOK
    <3>3. snap.bucket + 1 \in 0..NumBuckets
      BY <1>1, <2>1, LatencyAssumption DEF LatencyTypeOK
    <3>4. LatencyTypeOK'
      BY <1>1, <1>2, <2>4, <3>1, <3>3 DEF LatencyTypeOK
    <3>5. Cardinality(both) < snap.target
      BY <2>2, <2>6, <2>8
    <3>6. \A x \in both : bucketIndex(adds[x].ns) < snap.bucket + 1
      BY <2>2, <2>3, <2>4
    <3>7. \A x \in snap.total : bucketIndex(adds[x].ns) < snap.bucket + 1 => x \in both
      <4>1. \A x \in snap.total : bucketIndex(adds[x].ns) \in Int
        BY <1>1, <2>3 DEF LatencyTypeOK
      <4> QED BY <2>2, <2>5, <4>1
    <3>8. WalkSound'
      BY <1>1, <1>2, <2>1, <2>4, <3>2, <3>5, <3>6, <3>7 DEF WalkSound
    <3>9. PercentileBracketed'
      BY <3>2 DEF PercentileBracketed
    <3> QED BY <1>3, <3>4, <3>8, <3>9 DEF LatencyInv
  <2> QED BY <2>7, <2>8
<1>7. CASE PercentileWalks /\ snap.bucket = NumBuckets
  <2>1. snap.pc = "walk" /\ snap.bucket = NumBuckets
    BY <1>7 DEF PercentileWalks
  <2>2. /\ snap.target <= Cardinality(snap.total) /\ Cardinality(snap.seen) < snap.target
        /\ \A x \in snap.total : bucketIndex(adds[x].ns) < NumBuckets => x \in snap.seen
    BY <1>1, <2>1 DEF WalkSound
  <2>3. snap.total \subseteq snap.seen
    <3> SUFFICES ASSUME NEW x \in snap.total PROVE x \in snap.seen
      OBVIOUS
    <3>1. adds[x].ns \in Nat
      BY <1>1, LatencyAssumption DEF LatencyTypeOK
    <3> QED BY <2>2, <3>1, BucketRange, LatencyAssumption
  <2>4. snap.seen \in SUBSET Samples /\ snap.target \in Nat
    BY <1>1 DEF LatencyTypeOK
  <2>5. Cardinality(snap.total) \in Nat /\ Cardinality(snap.seen) \in Nat
        /\ Cardinality(snap.total) <= Cardinality(snap.seen)
    BY <2>3, <2>4, SampleSets
  <2> QED BY <2>2, <2>4, <2>5
<1> QED
  BY <1>4, <1>5, <1>6, <1>7

(* LatencyInv is inductive, for any calls of Add, buckets and percentiles  *)
(* (histogram.go Add, Snapshot).                                           *)
THEOREM LatencyInvariant == LatencySpec => []LatencyInv
<1>1. LatencyInit => LatencyInv
  <2> SUFFICES ASSUME LatencyInit PROVE LatencyInv
    OBVIOUS
  <2>1. /\ \A x \in Samples : adds[x].pc = "new" /\ snap.pc = "idle" /\ maxNs = 0
        /\ binned = {} /\ counted = {} /\ summed = {} /\ snap.pc = "idle"
    BY DEF LatencyInit, NoSnapshot
  <2>2. LatencyTypeOK
    BY LatencyAssumption DEF LatencyInit, NoSnapshot, LatencyTypeOK
  <2> QED
    BY <2>1, <2>2 DEF LatencyInit, NoSnapshot, LatencyInv, AddsInOrder, WalkSound, PercentileBracketed, MaxCovers
<1>2. LatencyInv /\ [LatencyNext]_latencyVars => LatencyInv'
  <2>1. ASSUME LatencyInv, LatencyNext PROVE LatencyInv'
    BY <2>1, AddStep, SnapshotStep DEF LatencyNext
  <2>2. ASSUME LatencyInv, UNCHANGED latencyVars PROVE LatencyInv'
    BY <2>2 DEF latencyVars, LatencyInv, LatencyTypeOK, AddsInOrder, WalkSound, PercentileBracketed, MaxCovers
  <2> QED BY <2>1, <2>2
<1> QED
  BY <1>1, <1>2, PTL DEF LatencySpec

(* A percentile read while samples arrive is the exact one of some set     *)
(* between what was counted at its start and what is in the buckets at its *)
(* end, and the walk finds it before the buckets end (histogram.go         *)
(* percentile).                                                            *)
THEOREM PercentilesBracketed == LatencySpec => []PercentileBracketed
BY LatencyInvariant, PTL DEF LatencyInv

(* The compare-and-swap loop loses no maximum (histogram.go Add).          *)
THEOREM MaximumKept == LatencySpec => []MaxCovers
BY LatencyInvariant, PTL DEF LatencyInv
=============================================================================
