----------------------------- MODULE Scheduler -----------------------------
(***************************************************************************)
(* The web server's run registry (internal/web/web.go: startRun, activeRun, *)
(* activeRunsSnapshot, the retention loop), its persistent schedules        *)
(* (internal/web/schedule.go) and the bulk credential migration that        *)
(* rewrites schedule files (internal/web/vault_migrate.go).                 *)
(*                                                                         *)
(* Three kinds of goroutine share the schedule directory and the registry:  *)
(* the 15-second sweeper, HTTP handlers that start runs or create and       *)
(* cancel schedules, and the migration handler.  The store's mutex covers   *)
(* one list, save or delete; everything between two of them interleaves.    *)
(***************************************************************************)
EXTENDS Integers, FiniteSets, Sequences, FiniteSetsExt, SequencesExt

CONSTANTS
    Schedules,      \* schedule ids ("sched-<UnixNano>", never reused)
    Starters,       \* concurrent POST /api/start handlers
    Sweeper,        \* the scheduleTicker goroutine
    RunIds,         \* run identities
    Retain,         \* maxRetainedRuns
    SinkTemplates,  \* the sink templates operators use
    Intervals,      \* the values of Schedule.every(); 0 is one-shot
    MaxTime,        \* bound: the clock stops here
    MaxStarts,      \* bound: manual starts
    MaxRestarts,    \* bound: process restarts
    Migrations,     \* whether /api/vault/migrate-apply is called
    Faults,         \* which of "save", "delete" may fail
    None            \* no schedule, no run, no file

ASSUME SchedulerAssumption ==
    /\ Retain \in Nat \ {0}
    /\ SinkTemplates \subseteq {"run_id", "plain"}
    /\ Intervals \subseteq Nat
    /\ MaxTime \in Nat /\ MaxStarts \in Nat /\ MaxRestarts \in Nat
    /\ Migrations \in BOOLEAN
    /\ Faults \subseteq {"save", "delete"}
    /\ Sweeper \notin Starters
    /\ None \notin Schedules \cup RunIds

VARIABLES
    now, startedAt,     \* wall clock; scheduleStore.startedAt
    disk,               \* the schedule files
    sweep,              \* the sweeper's program counter and locals
    call,               \* startRun's locals, per caller
    active, template,   \* the runs with doneCh open; their sink template
    order,              \* Server.order (the keys of Server.runs)
    migration,          \* applyScheduleMigrations' snapshot, None when idle
    starts, restarts,   \* counters of the bounds
    created, cancelled, \* what the clients asked for
    lastFire            \* per schedule: the sweep time of its last firing

schedVars == <<now, startedAt, disk, sweep, call, active, template, order,
               migration, starts, restarts, created, cancelled, lastFire>>

Callers == Starters \cup {Sweeper}

\* The operator's sink template: with {run_id}, without, or repaired by the
\* server.  Every run of the model downloads into the same Root.
Templates == {"run_id", "plain", "prefixed"}

\* A schedule file: Schedule.RunAt, every(), the sink template and whether
\* the credentials are still literal or vault references.
Schedule == [runAt : Nat, every : Intervals, template : Templates,
             secret : {"literal", "ref"}]

ASSUME NoneAssumption == None \notin Schedule

NoList == [s \in Schedules |-> None]
Idle == [pc |-> "idle", at |-> 0, list |-> NoList, cur |-> None]
NoCall == [pc |-> "none", template |-> "run_id", run |-> None]

NewServer ==
    /\ now = 0 /\ startedAt = 0
    /\ disk = NoList
    /\ sweep = Idle
    /\ call = [c \in Callers |-> NoCall]
    /\ active = {}
    /\ template = [r \in RunIds |-> "run_id"]
    /\ order = <<>>
    /\ migration = None
    /\ starts = 0 /\ restarts = 0
    /\ created = NoList /\ cancelled = {}
    /\ lastFire = [s \in Schedules |-> -1]

(***************************************************************************)
(* The schedule store: each operation is atomic under scheduleStore.mu;     *)
(* save replaces the file by a rename, so a crash leaves the old or the new *)
(* contents.                                                                *)
(***************************************************************************)
SaveTo(s, e) == disk' = [disk EXCEPT ![s] = e]
Delete(s) == \/ SaveTo(s, None)
             \/ "delete" \in Faults /\ UNCHANGED disk

Listed(list) == {s \in Schedules : list[s] # None}

\* The entries list() may return first: sorted by RunAt, ties in any order.
Earliest(list) ==
    {s \in Listed(list) : \A t \in Listed(list) : list[s].runAt <= list[t].runAt}

(***************************************************************************)
(* HTTP handlers on schedules.                                              *)
(***************************************************************************)
\* The time of a new schedule is not compared with the clock.
ScheduleCreate(s, e) ==
    /\ created[s] = None
    /\ SaveTo(s, e)
    /\ created' = [created EXCEPT ![s] = e]
    /\ UNCHANGED <<now, startedAt, sweep, call, active, template, order,
                   migration, starts, restarts, cancelled, lastFire>>

\* Deleting a file that is gone already is also answered with success.
ScheduleCancel(s) ==
    /\ created[s] # None /\ s \notin cancelled
    /\ SaveTo(s, None)
    /\ cancelled' = cancelled \cup {s}
    /\ UNCHANGED <<now, startedAt, sweep, call, active, template, order,
                   migration, starts, restarts, created, lastFire>>

(***************************************************************************)
(* startRun, called by a handler or by the sweeper: the snapshot of the     *)
(* active siblings and the template repair; the slow dialling that creates  *)
(* the run; the registration with its retention loop.                       *)
(***************************************************************************)
Registered == Range(order)

\* maybePrependRunIDToSink against activeRunsSnapshot().
Repaired(t) == IF t = "plain" /\ Registered \cap active # {}
               THEN "prefixed" ELSE t

BeginStart(c, t) ==
    call' = [call EXCEPT ![c] = [pc |-> "dial", template |-> Repaired(t), run |-> None]]

\* Bound: a run identity is free again when the run ended and was evicted.
FreeIds == RunIds \ (active \cup Registered \cup {call[c].run : c \in Callers})

\* StartWithPersistAndTLS returns a run whose goroutines are already going.
CreateRun(c) ==
    /\ call[c].pc = "dial"
    /\ \E r \in FreeIds :
          /\ active' = active \cup {r}
          /\ template' = [template EXCEPT ![r] = call[c].template]
          /\ call' = [call EXCEPT ![c].pc = "register", ![c].run = r]
    /\ UNCHANGED order

CreateFails(c) ==
    /\ call[c].pc = "dial"
    /\ call' = [call EXCEPT ![c] = NoCall]
    /\ UNCHANGED <<active, template, order>>

\* The retention loop of the earlier releases: it stops at an active head.
EvictHeadOnly(o) == IF Len(o) > Retain /\ o[1] \notin active THEN Tail(o) ELSE o
\* A retention loop that does not spare active runs.
EvictOldest(o) == IF Len(o) > Retain THEN Tail(o) ELSE o

\* The place of position i when only the positions of S are left.
Rank(S, i) == Cardinality({j \in S : j <= i})

\* The retention loop drops the oldest finished runs while there are more
\* than maxRetainedRuns; the others close ranks, and an active run always does.
Kept(o) ==
    LET done(i) == o[i] \notin active
    IN  {i \in DOMAIN o :
            done(i) => Cardinality({j \in 1..i : done(j)}) > Len(o) - Retain}

Evict(o) ==
    [k \in 1..Cardinality(Kept(o)) |-> o[CHOOSE i \in Kept(o) : Rank(Kept(o), i) = k]]

RegisterRun(c) ==
    /\ call[c].pc = "register"
    /\ order' = Evict(Append(order, call[c].run))
    /\ call' = [call EXCEPT ![c] = NoCall]
    /\ UNCHANGED <<active, template>>

\* POST /api/start
HandleStart(h) ==
    /\ call[h].pc = "none" /\ starts < MaxStarts
    /\ \E t \in SinkTemplates : BeginStart(h, t)
    /\ starts' = starts + 1
    /\ UNCHANGED <<now, startedAt, disk, sweep, active, template, order,
                   migration, restarts, created, cancelled, lastFire>>

StarterStep(h) ==
    /\ CreateRun(h) \/ CreateFails(h) \/ RegisterRun(h)
    /\ UNCHANGED <<now, startedAt, disk, sweep, migration, starts, restarts,
                   created, cancelled, lastFire>>

\* A run closes doneCh: its deadline or a Stop, then the pipeline's teardown.
RunDone(r) ==
    /\ r \in active
    /\ active' = active \ {r}
    /\ UNCHANGED <<now, startedAt, disk, sweep, call, template, order,
                   migration, starts, restarts, created, cancelled, lastFire>>

(***************************************************************************)
(* scheduleSweep.  list is the snapshot taken at time "at"; cur the entry   *)
(* being fired.                                                             *)
(***************************************************************************)
SweepUnchanged == UNCHANGED <<now, startedAt, migration, starts, restarts,
                              created, cancelled>>
RegistryUnchanged == UNCHANGED <<call, active, template, order>>

SweepList ==
    /\ sweep.pc = "idle"
    /\ sweep' = [pc |-> "scan", at |-> now, list |-> disk, cur |-> None]
    /\ UNCHANGED <<disk, lastFire>> /\ SweepUnchanged /\ RegistryUnchanged

\* A missed-window test that lets every overdue schedule through.
MissedNever(e) == FALSE
\* Missed during downtime: due before the scheduler came online.
Missed(e) == e.runAt < startedAt

\* A gate that takes a retained run for an active one.
ActiveRetained == order # <<>>
\* activeRun() # nil; only registered runs are seen.
ActiveRun == Registered \cap active # {}

SweepSkip(s) ==
    /\ IF Missed(sweep.list[s]) THEN Delete(s) ELSE UNCHANGED disk
    /\ Missed(sweep.list[s]) \/ sweep.at < sweep.list[s].runAt
    /\ sweep' = [sweep EXCEPT !.list[s] = None]

SweepGate(s) ==
    /\ ~Missed(sweep.list[s]) /\ sweep.at >= sweep.list[s].runAt
    /\ sweep' = IF ActiveRun THEN Idle ELSE [sweep EXCEPT !.pc = "start", !.cur = s]
    /\ UNCHANGED disk

SweepScan ==
    /\ sweep.pc = "scan"
    /\ \/ Listed(sweep.list) = {} /\ sweep' = Idle /\ UNCHANGED disk
       \/ \E s \in Earliest(sweep.list) : SweepSkip(s) \/ SweepGate(s)
    /\ UNCHANGED lastFire /\ SweepUnchanged /\ RegistryUnchanged

\* buildRunConfig shares the sink by pointer with the schedule's own config,
\* so a repaired template is also a change of the entry the sweep will save.
SweepStart ==
    /\ sweep.pc = "start"
    /\ LET t == sweep.list[sweep.cur].template IN
          /\ BeginStart(Sweeper, t)
          /\ sweep' = [sweep EXCEPT !.pc = "fire", !.list[sweep.cur].template = Repaired(t)]
    /\ UNCHANGED <<disk, active, template, order, lastFire>> /\ SweepUnchanged

SweepFire ==
    /\ sweep.pc = "fire" /\ CreateRun(Sweeper)
    /\ lastFire' = [lastFire EXCEPT ![sweep.cur] = sweep.at]
    /\ UNCHANGED <<disk, sweep>> /\ SweepUnchanged

SweepFireFails ==
    /\ sweep.pc = "fire" /\ CreateFails(Sweeper)
    /\ sweep' = [sweep EXCEPT !.pc = "drop"]
    /\ UNCHANGED <<disk, lastFire>> /\ SweepUnchanged

SweepRegister ==
    /\ sweep.pc = "fire" /\ RegisterRun(Sweeper)
    /\ sweep' = [sweep EXCEPT !.pc = "settle"]
    /\ UNCHANGED <<disk, lastFire>> /\ SweepUnchanged

SweepDrop ==
    /\ sweep.pc = "drop"
    /\ Delete(sweep.cur)
    /\ sweep' = Idle
    /\ UNCHANGED lastFire /\ SweepUnchanged /\ RegistryUnchanged

\* A recurrence that advances one period and no further.
NextRunAtOnce(e) == e.runAt + e.every

\* RunAt + k*every, k >= 1, the first one after the sweep's time.
NextRunAt(e) ==
    Min({t \in (e.runAt + 1)..(sweep.at + e.every) :
            t > sweep.at /\ (t - e.runAt) % e.every = 0})

\* A settle that writes every fired entry back.
SweepSettleSaves ==
    /\ sweep.pc = "settle"
    /\ SaveTo(sweep.cur, [sweep.list[sweep.cur] EXCEPT !.runAt = sweep.at + 1])
    /\ sweep' = Idle
    /\ UNCHANGED lastFire /\ SweepUnchanged /\ RegistryUnchanged

SweepSettle ==
    /\ sweep.pc = "settle"
    /\ LET e == sweep.list[sweep.cur] IN
          \/ /\ e.every > 0
             /\ SaveTo(sweep.cur, [e EXCEPT !.runAt = NextRunAt(e)])
             /\ sweep' = Idle
          \/ /\ e.every > 0 /\ "save" \in Faults
             /\ sweep' = [sweep EXCEPT !.pc = "drop"]
             /\ UNCHANGED disk
          \/ e.every = 0 /\ Delete(sweep.cur) /\ sweep' = Idle
    /\ UNCHANGED lastFire /\ SweepUnchanged /\ RegistryUnchanged

\* The sweeper between its dials.
SweepBetweenDials ==
    \/ SweepList \/ SweepScan \/ SweepStart
    \/ SweepRegister \/ SweepDrop \/ SweepSettle

SweepNext == SweepBetweenDials \/ SweepFire \/ SweepFireFails

(***************************************************************************)
(* applyScheduleMigrations: a list, then one save per entry that still had  *)
(* literal credentials.                                                     *)
(***************************************************************************)
MigrateList ==
    /\ Migrations /\ migration = None
    /\ migration' = disk
    /\ UNCHANGED <<now, startedAt, disk, sweep, call, active, template, order,
                   starts, restarts, created, cancelled, lastFire>>

MigrateEntry ==
    /\ migration # None
    /\ \/ /\ Listed(migration) = {}
          /\ migration' = None /\ UNCHANGED disk
       \/ \E s \in Earliest(migration) :
             /\ migration' = [migration EXCEPT ![s] = None]
             /\ \/ /\ migration[s].secret = "literal"
                   /\ SaveTo(s, [migration[s] EXCEPT !.secret = "ref"])
                \/ /\ migration[s].secret = "ref" \/ "save" \in Faults
                   /\ UNCHANGED disk
    /\ UNCHANGED <<now, startedAt, sweep, call, active, template, order,
                   starts, restarts, created, cancelled, lastFire>>

(***************************************************************************)
(* The environment: time, and the process dying at any point and coming     *)
(* back later.  Only the schedule files survive; startedAt is later than    *)
(* every time the dead process read.                                        *)
(***************************************************************************)
Tick ==
    /\ now < MaxTime
    /\ now' = now + 1
    /\ UNCHANGED <<startedAt, disk, sweep, call, active, template, order, migration,
                   starts, restarts, created, cancelled, lastFire>>

Restart ==
    /\ restarts < MaxRestarts /\ now < MaxTime
    /\ now' = now + 1 /\ startedAt' = now + 1
    /\ restarts' = restarts + 1
    /\ sweep' = Idle
    /\ call' = [c \in Callers |-> NoCall]
    /\ active' = {} /\ order' = <<>>
    /\ template' = [r \in RunIds |-> "run_id"]
    /\ migration' = None
    /\ UNCHANGED <<disk, starts, created, cancelled, lastFire>>

Next ==
    \/ \E s \in Schedules :
          \/ \E at \in 0..MaxTime, v \in Intervals, t \in SinkTemplates :
                ScheduleCreate(s, [runAt |-> at, every |-> v, template |-> t,
                                   secret |-> "literal"])
          \/ ScheduleCancel(s)
    \/ \E h \in Starters : HandleStart(h) \/ StarterStep(h)
    \/ \E r \in RunIds : RunDone(r)
    \/ SweepNext
    \/ MigrateList \/ MigrateEntry
    \/ Tick \/ Restart

Spec == NewServer /\ [][Next]_schedVars

\* The sweeper goroutine keeps taking steps.  No dial is assumed to return, a
\* handler's or its own, and no run to end.
FairSpec == Spec /\ WF_schedVars(SweepBetweenDials)
-----------------------------------------------------------------------------
\* A schedule fires for an occurrence later than the sweep that fired it
\* before: a one-shot at most once, a recurring one never twice for one
\* occurrence and never in a burst for the occurrences it slept through,
\* however runs, cancellations and restarts interleave (schedule.go:335-391).
NoCatchUpBurst ==
    [][\A s \in Schedules :
          lastFire'[s] # lastFire[s] => sweep.list[s].runAt > lastFire[s]]_schedVars

\* An occurrence that fell into downtime is never fired: the run a sweep
\* starts belongs to an occurrence of this process's lifetime that is due
\* (schedule.go:339-350).
NoMissedReplay ==
    [][\A s \in Schedules :
          lastFire'[s] # lastFire[s] =>
             startedAt <= sweep.list[s].runAt /\ sweep.list[s].runAt <= now]_schedVars

\* Once its cancellation was answered, a one-shot schedule has no file again,
\* not even when the sweep that fired it settles later (schedule.go:383-386).
OneShotCancelHolds ==
    \A s \in cancelled : created[s].every = 0 => disk[s] = None

\* Every active run is in the registry or about to enter it: no eviction
\* takes the handle an operator needs to stop it (web.go:1578-1604).
ActiveRunsReachable ==
    /\ active \subseteq Registered \cup {call[c].run : c \in Callers}
    /\ Cardinality(Registered) = Len(order)

\* The registry grows past maxRetainedRuns only when every run in it is
\* active (web.go:1584-1588).
OverCapOnlyActive ==
    [][Len(order') > Len(order) /\ Len(order') > Retain
          => Range(order') \subseteq active']_schedVars

\* startRun's dials and a run's uploads have no deadline: nothing in the code
\* keeps the sweeper from dialling, or a run from being active, for ever.
SweepDialsReturn == []<>(call[Sweeper].pc # "dial")
RunsEnd == \A r \in RunIds : []<>(r \notin active)

\* If the sweeper's dials return and runs end, a schedule that is due is
\* eventually fired, dropped or cancelled, whatever else is due before it,
\* however often, whichever runs are active when it falls due, and even
\* while a handler dials for ever.
DueSettles ==
    SweepDialsReturn /\ RunsEnd =>
        \A s \in Schedules :
            (disk[s] # None /\ disk[s].runAt <= now)
                ~> (disk[s] = None \/ disk[s].runAt > now)

\* "cron firings never spawn surprise overlaps" (web.go:1547-1548): when a
\* sweep starts a run, no other run is active.
NoSurpriseOverlap ==
    [][\A s \in Schedules : lastFire'[s] # lastFire[s] => active = {}]_schedVars

\* "POST /api/schedule/cancel?id=... - delete a pending schedule"
\* (schedule.go:249): a cancelled schedule stays deleted.
CancelledStaysCancelled == \A s \in cancelled : disk[s] = None

\* "the form snapshot is locked at schedule time" (tutorial 06): the stored
\* run configuration is the one that was scheduled.
ScheduleConfigKept ==
    \A s \in Schedules : disk[s] # None => disk[s].template = created[s].template

\* "Auto-prepend {run_id}/ so paths stay disjoint" (web.go:1560-1566): two
\* active runs never share a sink whose template lacks the run id.
SinksDisjoint ==
    \A r, q \in active : r # q => ~(template[r] = "plain" /\ template[q] = "plain")

\* "the schedule file is rewritten" with references (vault_migrate.go:7-11):
\* credentials moved to the vault do not come back as literals.
MigrationSticks ==
    [][\A s \in Schedules :
          disk[s] # None /\ disk'[s] # None /\ disk[s].secret = "ref"
             => disk'[s].secret = "ref"]_schedVars
=============================================================================
