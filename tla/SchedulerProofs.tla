-------------------------- MODULE SchedulerProofs --------------------------
(***************************************************************************)
(* What the scheduler promises, proved for any set of schedules, handlers, *)
(* run identities, periods and times.                                      *)
(***************************************************************************)
EXTENDS Scheduler, FiniteSetTheorems, WellFoundedInduction, TLAPS

File == Schedule \cup {None}

Firing == {"start", "fire", "drop", "settle"}

(* The types the promises rest on; the registry plays no part in them. *)
SweepTyped ==
    /\ now \in Nat /\ startedAt \in Nat /\ startedAt <= now
    /\ disk \in [Schedules -> File]
    /\ sweep \in [pc : {"idle", "scan"} \cup Firing, at : Nat,
                  list : [Schedules -> File], cur : Schedules \cup {None}]
    /\ sweep.at <= now
    /\ migration \in [Schedules -> File] \cup {None}
    /\ created \in [Schedules -> File]
    /\ cancelled \in SUBSET Schedules
    /\ lastFire \in [Schedules -> Int]
    /\ call \in [Callers -> [pc : {"none", "dial", "register"}, template : Templates,
                             run : RunIds \cup {None}]]

(* The entry being fired is of this process's lifetime and due. *)
FiringDue ==
    sweep.pc \in Firing =>
        /\ sweep.cur \in Schedules
        /\ sweep.list[sweep.cur] # None
        /\ startedAt <= sweep.list[sweep.cur].runAt
        /\ sweep.list[sweep.cur].runAt <= sweep.at

DueInv == SweepTyped /\ FiringDue

(* The start of the run that fires the current entry has succeeded. *)
RunStarted ==
    \/ sweep.pc = "settle"
    \/ sweep.pc = "fire" /\ call[Sweeper].pc = "register"

(* Schedule s has fired, or failed to, and its file is about to be settled. *)
Settling(s) == sweep.cur = s /\ (RunStarted \/ sweep.pc = "drop")

(* What is known of s is what its client asked for, period included. *)
AsCreated ==
    \A s \in Schedules :
        /\ disk[s] # None => created[s] # None /\ disk[s].every = created[s].every
        /\ sweep.list[s] # None =>
              created[s] # None /\ sweep.list[s].every = created[s].every
        /\ created[s] = None => lastFire[s] = -1 /\ s \notin cancelled

(* While the sweep remembers a schedule, only a cancellation touches its file. *)
ListCurrent ==
    \A s \in Schedules : disk[s] # None /\ sweep.list[s] # None =>
                            disk[s].runAt = sweep.list[s].runAt

(* An occurrence on disk or in the sweep's list lies after the last firing, *)
(* or fell into downtime, or is the one being settled.                      *)
Unfired(s, e) == lastFire[s] < e.runAt \/ e.runAt < startedAt \/ Settling(s)

OccurrencesUnfired ==
    \A s \in Schedules :
        /\ disk[s] # None => Unfired(s, disk[s])
        /\ sweep.list[s] # None => Unfired(s, sweep.list[s])

FiredNow == RunStarted => lastFire[sweep.cur] = sweep.at

CancelInv == DueInv /\ AsCreated /\ OneShotCancelHolds /\ migration = None

FireParts == ListCurrent /\ OccurrencesUnfired /\ FiredNow

FireInv == CancelInv /\ FireParts

(* The registry: no run is listed twice, a run between its start and its   *)
(* registration belongs to one caller and is not listed yet, and every     *)
(* active run is listed or in some caller's hands.                         *)
RegistryInv ==
    /\ order \in Seq(RunIds) /\ IsInjective(order)
    /\ \A c \in Callers : IF call[c].pc = "register"
                          THEN call[c].run \in RunIds \ Registered
                          ELSE call[c].run = None
    /\ \A c, d \in Callers : c # d /\ call[c].run = call[d].run => call[c].run = None
    /\ active \in SUBSET RunIds
    /\ active \subseteq Registered \cup {call[c].run : c \in Callers}

(* The sweeper holds a start of its own only while it fires.               *)
SweeperCall == sweep.pc # "fire" => call[Sweeper].pc = "none"
-----------------------------------------------------------------------------
(* The advance loop ends at the one occurrence in the period that follows  *)
(* the sweep: for r <= at it is a time after the sweep.                    *)
LEMMA NextOccurrence ==
    ASSUME NEW r \in Nat, NEW at \in Nat, NEW v \in Nat, v > 0, r <= at
    PROVE  LET S == {t \in (r + 1)..(at + v) : t > at /\ (t - r) % v = 0}
           IN  Min(S) \in Nat /\ Min(S) > at
<1> DEFINE S == {t \in (r + 1)..(at + v) : t > at /\ (t - r) % v = 0}
           q == (at - r) \div v
<1>1. at - r \in Nat /\ q \in Nat /\ at - r = v * q + ((at - r) % v)
      /\ (at - r) % v \in 0..(v - 1)
  OBVIOUS
<1> HIDE DEF q
<1>2. PICK x \in Int : x = r + v * (q + 1)
  BY <1>1
<1>3. x > at /\ x <= at + v
  <2>1. v * (q + 1) = v * q + v
    BY <1>1
  <2>2. v * q \in Int
    BY <1>1
  <2> QED
    BY <1>1, <1>2, <2>1, <2>2
<1>4. (x - r) % v = 0
  <2>1. x - r = v * (q + 1)
    BY <1>1, <1>2
  <2>2. (v * (q + 1)) % v = 0
    BY <1>1
  <2> QED
    BY <2>1, <2>2
<1>5. x \in S
  BY <1>3, <1>4
<1>6. ASSUME NEW y \in S PROVE y = x
  <2>1. PICK k \in Nat : y - r = v * k
    <3>1. y - r \in Nat /\ (y - r) % v = 0
      OBVIOUS
    <3>2. (y - r) \div v \in Nat /\ y - r = v * ((y - r) \div v) + ((y - r) % v)
      BY <3>1
    <3> QED
      BY <3>1, <3>2
  <2>2. v * k \in Int /\ v * q \in Int /\ v * k > v * q /\ v * k <= v * q + v + ((at - r) % v)
    BY <1>1, <2>1
  <2>3. k > q
    BY <1>1, <2>2
  <2>4. k < q + 2
    <3>1. SUFFICES ASSUME k >= q + 2 PROVE FALSE
      BY <1>1
    <3>2. v * k >= v * (q + 2)
      BY <3>1, <1>1
    <3>3. v * (q + 2) = v * q + v + v
      BY <1>1
    <3> QED
      BY <1>1, <2>2, <3>2, <3>3
  <2>5. k = q + 1
    BY <1>1, <2>3, <2>4
  <2> QED
    BY <1>1, <1>2, <2>1, <2>5
<1>7. Min(S) = x
  BY <1>5, <1>6 DEF Min
<1> QED
  BY <1>3, <1>7

(* ... so a recurring entry that was due is next due after the sweep.      *)
LEMMA NextRunAtLater ==
    ASSUME SweepTyped, NEW e \in Schedule, e.every > 0, e.runAt <= sweep.at
    PROVE  NextRunAt(e) \in Nat /\ NextRunAt(e) > sweep.at
<1>1. e.runAt \in Nat /\ e.every \in Nat /\ sweep.at \in Nat
  BY SchedulerAssumption DEF Schedule, SweepTyped
<1> QED
  BY <1>1, NextOccurrence DEF NextRunAt

(* An entry keeps its type when one of its fields is rewritten.            *)
LEMMA ScheduleOps ==
    ASSUME NEW e \in Schedule
    PROVE  /\ \A t \in Templates : [e EXCEPT !.template = t] \in Schedule
           /\ \A n \in Nat : [e EXCEPT !.runAt = n] \in Schedule
           /\ [e EXCEPT !.secret = "ref"] \in Schedule
  BY DEF Schedule

(* The template repair returns a template.                                 *)
LEMMA RepairedType == \A t \in Templates : Repaired(t) \in Templates
  BY DEF Repaired, Templates

(* The start steps of a caller change its own local state only.            *)
LEMMA StartSteps ==
    ASSUME SweepTyped, NEW c \in Callers,
           \/ \E t \in Templates : BeginStart(c, t)
           \/ CreateRun(c)
           \/ CreateFails(c)
           \/ RegisterRun(c)
    PROVE  /\ call' \in [Callers -> [pc : {"none", "dial", "register"},
                                     template : Templates, run : RunIds \cup {None}]]
           /\ \A d \in Callers : d # c => call'[d] = call[d]
<1>1. ASSUME NEW t \in Templates, BeginStart(c, t)
      PROVE  /\ call' = [call EXCEPT ![c] = [pc |-> "dial", template |-> Repaired(t), run |-> None]]
             /\ Repaired(t) \in Templates
  BY <1>1, RepairedType DEF BeginStart
<1>2. "run_id" \in Templates
  BY DEF Templates
<1>3. CASE \E t \in Templates : BeginStart(c, t)
  BY <1>1, <1>3 DEF SweepTyped
<1>4. CASE CreateRun(c)
  <2>1. PICK r \in RunIds : call' = [call EXCEPT ![c].pc = "register", ![c].run = r]
    BY <1>4 DEF CreateRun, FreeIds
  <2>2. [call[c] EXCEPT !.pc = "register", !.run = r]
          \in [pc : {"none", "dial", "register"}, template : Templates,
               run : RunIds \cup {None}]
    BY DEF SweepTyped
  <2>3. call' = [call EXCEPT ![c] = [call[c] EXCEPT !.pc = "register", !.run = r]]
    BY <2>1 DEF SweepTyped
  <2> QED
    BY <2>2, <2>3 DEF SweepTyped
<1>5. CASE CreateFails(c) \/ RegisterRun(c)
  BY <1>2, <1>5 DEF CreateFails, RegisterRun, NoCall, SweepTyped
<1> QED
  BY <1>3, <1>4, <1>5

(* NewServer establishes the types.                                        *)
LEMMA DueInit == NewServer => DueInv
  BY DEF NewServer, DueInv, SweepTyped, FiringDue, Firing, NoList, Idle, NoCall, File,
         Templates, Callers

(* The handlers on schedules: they write the file of one schedule and      *)
(* remember the request.                                                   *)
LEMMA DueHandlers ==
    ASSUME DueInv, NEW s \in Schedules,
           \/ \E e \in Schedule : ScheduleCreate(s, e)
           \/ ScheduleCancel(s)
    PROVE  DueInv'
  BY DEF DueInv, SweepTyped, FiringDue, ScheduleCreate, ScheduleCancel, SaveTo, File

(* Manual starts and ending runs leave the scheduler alone.                *)
LEMMA DueStarts ==
    ASSUME DueInv,
           \/ \E h \in Starters : HandleStart(h) \/ StarterStep(h)
           \/ \E r \in RunIds : RunDone(r)
    PROVE  DueInv'
<1>1. ASSUME NEW h \in Starters, HandleStart(h) \/ StarterStep(h) PROVE DueInv'
  <2>1. h \in Callers /\ SinkTemplates \subseteq Templates
    BY SchedulerAssumption DEF Callers, Templates
  <2>2. call' \in [Callers -> [pc : {"none", "dial", "register"},
                               template : Templates, run : RunIds \cup {None}]]
    BY <1>1, <2>1, StartSteps DEF DueInv, HandleStart, StarterStep
  <2> QED
    BY <1>1, <2>2 DEF DueInv, SweepTyped, FiringDue, HandleStart, StarterStep
<1>2. ASSUME NEW r \in RunIds, RunDone(r) PROVE DueInv'
  BY <1>2 DEF DueInv, SweepTyped, FiringDue, RunDone
<1> QED
  BY <1>1, <1>2

(* The sweep's steps.                                                      *)
LEMMA DueSweep ==
    ASSUME DueInv, SweepNext
    PROVE  DueInv'
<1> USE DEF DueInv, SweepUnchanged, RegistryUnchanged
<1>1. CASE SweepList
  BY <1>1 DEF SweepList, SweepTyped, FiringDue, Firing
<1>2. CASE SweepScan
  <2>1. CASE Listed(sweep.list) = {} /\ sweep' = Idle /\ UNCHANGED disk
    BY <1>2, <2>1 DEF SweepScan, SweepTyped, FiringDue, Firing, Idle, NoList, File
  <2>2. ASSUME NEW s \in Earliest(sweep.list), SweepSkip(s) PROVE DueInv'
    <3>1. s \in Schedules
      BY DEF Earliest, Listed
    <3>2. sweep' = [sweep EXCEPT !.list = [sweep.list EXCEPT ![s] = None]]
      BY <2>2 DEF SweepSkip, SweepTyped
    <3>3. disk' \in [Schedules -> File]
      BY <2>2 DEF SweepSkip, SweepTyped, Delete, SaveTo, File
    <3>4. [sweep.list EXCEPT ![s] = None] \in [Schedules -> File]
      BY DEF SweepTyped, File
    <3> QED
      BY <1>2, <3>1, <3>2, <3>3, <3>4 DEF SweepScan, SweepTyped, FiringDue, Firing
  <2>3. ASSUME NEW s \in Earliest(sweep.list), SweepGate(s) PROVE DueInv'
    <3>1. s \in Schedules /\ sweep.list[s] # None
      BY DEF Earliest, Listed
    <3>2. sweep.list[s] \in Schedule
      BY <3>1 DEF SweepTyped, File
    <3>3. startedAt <= sweep.list[s].runAt /\ sweep.list[s].runAt <= sweep.at
      BY <2>3, <3>2 DEF SweepGate, Missed, SweepTyped, Schedule
    <3>4. CASE ActiveRun
      BY <1>2, <2>3, <3>4 DEF SweepScan, SweepGate, SweepTyped, FiringDue, Firing, Idle,
                              NoList, File
    <3>5. CASE ~ActiveRun
      BY <1>2, <2>3, <3>1, <3>3, <3>5 DEF SweepScan, SweepGate, SweepTyped, FiringDue, Firing
    <3> QED
      BY <3>4, <3>5
  <2> QED
    BY <1>2, <2>1, <2>2, <2>3 DEF SweepScan
<1>3. CASE SweepStart
  <2> DEFINE e == sweep.list[sweep.cur]
             repaired == [e EXCEPT !.template = Repaired(e.template)]
  <2>1. sweep.cur \in Schedules /\ e # None
    BY <1>3 DEF SweepStart, FiringDue, Firing
  <2>2. e \in Schedule
    BY <2>1 DEF SweepTyped, File
  <2>3. e.template \in Templates /\ Repaired(e.template) \in Templates
    BY <2>2, RepairedType DEF Schedule
  <2>4. repaired \in Schedule /\ repaired.runAt = e.runAt
    BY <2>2, <2>3, ScheduleOps DEF Schedule
  <2>5. sweep' = [sweep EXCEPT !.pc = "fire",
                               !.list = [sweep.list EXCEPT ![sweep.cur] = repaired]]
    BY <1>3, <2>1, <2>2 DEF SweepStart, SweepTyped, Schedule
  <2>6. call' \in [Callers -> [pc : {"none", "dial", "register"},
                               template : Templates, run : RunIds \cup {None}]]
    <3>1. Sweeper \in Callers /\ BeginStart(Sweeper, e.template)
      BY <1>3 DEF Callers, SweepStart
    <3> QED
      BY <2>3, <3>1, StartSteps
  <2>7. e.runAt <= sweep.at /\ startedAt <= e.runAt
    BY <1>3 DEF SweepStart, FiringDue, Firing
  <2> HIDE DEF repaired
  <2>8. /\ sweep'.pc = "fire" /\ sweep'.at = sweep.at /\ sweep'.cur = sweep.cur
        /\ sweep'.list[sweep.cur] = repaired
    BY <2>1, <2>5 DEF SweepTyped
  <2>9. [sweep.list EXCEPT ![sweep.cur] = repaired] \in [Schedules -> File]
    BY <2>4 DEF SweepTyped, File
  <2>10. sweep' \in [pc : {"idle", "scan"} \cup Firing, at : Nat,
                     list : [Schedules -> File], cur : Schedules \cup {None}]
    BY <2>5, <2>9 DEF SweepTyped, Firing
  <2>11. repaired # None
    BY <2>4, NoneAssumption
  <2>12. FiringDue'
    BY <1>3, <2>1, <2>4, <2>7, <2>8, <2>11 DEF FiringDue, SweepStart
  <2>13. SweepTyped'
    BY <1>3, <2>6, <2>8, <2>10 DEF SweepTyped, SweepStart
  <2> QED
    BY <2>12, <2>13
<1>4. CASE SweepFire \/ SweepFireFails \/ SweepRegister
  <2>1. Sweeper \in Callers
    BY DEF Callers
  <2>2. call' \in [Callers -> [pc : {"none", "dial", "register"},
                               template : Templates, run : RunIds \cup {None}]]
    BY <1>4, <2>1, StartSteps DEF SweepFire, SweepFireFails, SweepRegister
  <2> QED
    BY <1>4, <2>2 DEF SweepFire, SweepFireFails, SweepRegister, SweepTyped, FiringDue, Firing
<1>5. CASE SweepDrop
  <2>1. disk' \in [Schedules -> File]
    BY <1>5 DEF SweepDrop, Delete, SaveTo, SweepTyped, File
  <2> QED
    BY <1>5, <2>1 DEF SweepDrop, SweepTyped, FiringDue, Firing, Idle, NoList, File
<1>6. CASE SweepSettle
  <2> DEFINE e == sweep.list[sweep.cur]
  <2>1. e \in Schedule /\ e.runAt <= sweep.at
    BY <1>6 DEF SweepSettle, FiringDue, Firing, SweepTyped, File
  <2>2. e.every > 0 => [e EXCEPT !.runAt = NextRunAt(e)] \in Schedule
    BY <2>1, NextRunAtLater, ScheduleOps
  <2>3. disk' \in [Schedules -> File]
    BY <1>6, <2>2 DEF SweepSettle, Delete, SaveTo, SweepTyped, File
  <2>4. sweep' = Idle \/ sweep' = [sweep EXCEPT !.pc = "drop"]
    BY <1>6 DEF SweepSettle
  <2> QED
    BY <1>6, <2>3, <2>4 DEF SweepSettle, SweepTyped, FiringDue, Firing, Idle, NoList, File
<1> QED
  BY <1>1, <1>2, <1>3, <1>4, <1>5, <1>6 DEF SweepNext, SweepBetweenDials

(* The migration, the clock and the restart.                               *)
LEMMA DueEnvironment ==
    ASSUME DueInv, MigrateList \/ MigrateEntry \/ Tick \/ Restart
    PROVE  DueInv'
<1>1. CASE MigrateList
  BY <1>1 DEF MigrateList, DueInv, SweepTyped, FiringDue
<1>2. CASE MigrateEntry
  <2>1. migration \in [Schedules -> File]
    BY <1>2 DEF MigrateEntry, DueInv, SweepTyped
  <2>2. ASSUME NEW s \in Earliest(migration)
        PROVE  s \in Schedules /\ [migration[s] EXCEPT !.secret = "ref"] \in File
    BY <2>1, ScheduleOps DEF Earliest, Listed, File
  <2>3. disk' \in [Schedules -> File]
    BY <1>2, <2>2 DEF MigrateEntry, SaveTo, DueInv, SweepTyped
  <2>4. migration' \in [Schedules -> File] \cup {None}
    BY <1>2, <2>1, <2>2 DEF MigrateEntry, File
  <2> QED
    BY <1>2, <2>3, <2>4 DEF MigrateEntry, DueInv, SweepTyped, FiringDue
<1>3. CASE Tick
  BY <1>3 DEF Tick, DueInv, SweepTyped, FiringDue
<1>4. CASE Restart
  BY <1>4 DEF Restart, DueInv, SweepTyped, FiringDue, Firing, Idle, NoList, NoCall, File,
              Templates
<1> QED
  BY <1>1, <1>2, <1>3, <1>4

(* Every step keeps the types and fires only what is due.                  *)
LEMMA DueStep == DueInv /\ [Next]_schedVars => DueInv'
<1> SUFFICES ASSUME DueInv, [Next]_schedVars PROVE DueInv'
  OBVIOUS
<1>1. ASSUME NEW s \in Schedules, NEW at \in 0..MaxTime, NEW v \in Intervals,
             NEW t \in SinkTemplates
      PROVE  [runAt |-> at, every |-> v, template |-> t, secret |-> "literal"] \in Schedule
  BY SchedulerAssumption DEF Schedule, Templates
<1>2. CASE UNCHANGED schedVars
  BY <1>2 DEF schedVars, DueInv, SweepTyped, FiringDue
<1> QED
  BY <1>1, <1>2, DueHandlers, DueStarts, DueSweep, DueEnvironment DEF Next

(* The types and the dueness of what is fired hold in every behaviour.     *)
THEOREM DueInvariant == Spec => []DueInv
  BY DueInit, DueStep, PTL DEF Spec

(* An occurrence that fell into downtime is never fired, nor one that is   *)
(* not due: for any clock, any faults, with or without migrations.         *)
THEOREM NoReplay == Spec => NoMissedReplay
<1> DEFINE Timely == \A s \in Schedules :
                        lastFire'[s] # lastFire[s] =>
                           startedAt <= sweep.list[s].runAt /\ sweep.list[s].runAt <= now
<1>1. ASSUME DueInv, [Next]_schedVars PROVE Timely
  <2>1. CASE SweepFire
    <3>1. sweep.cur \in Schedules /\ sweep.list[sweep.cur] \in Schedule
          /\ startedAt <= sweep.list[sweep.cur].runAt
          /\ sweep.list[sweep.cur].runAt <= sweep.at
      BY <1>1, <2>1 DEF DueInv, FiringDue, Firing, SweepFire, SweepTyped, File
    <3>2. \A s \in Schedules : s # sweep.cur => lastFire'[s] = lastFire[s]
      BY <1>1, <2>1 DEF DueInv, SweepTyped, SweepFire
    <3> QED
      BY <1>1, <3>1, <3>2 DEF DueInv, SweepTyped, Schedule
  <2>2. CASE ~SweepFire
    <3>1. lastFire' = lastFire
      BY <1>1, <2>2 DEF Next, SweepNext, SweepBetweenDials, ScheduleCreate, ScheduleCancel, HandleStart,
         StarterStep, RunDone, SweepList, SweepScan, SweepStart, SweepFireFails,
         SweepRegister, SweepDrop, SweepSettle, MigrateList, MigrateEntry, Tick, Restart,
         schedVars
    <3> QED
      BY <3>1
  <2> QED
    BY <2>1, <2>2
<1>2. DueInv /\ [Next]_schedVars => [Timely]_schedVars
  BY <1>1
<1> QED
  BY <1>2, DueInvariant, PTL DEF Spec, NoMissedReplay
-----------------------------------------------------------------------------
(* No step of the handlers, of the clock or of a run touches what the sweep *)
(* knows of a schedule; a creation is of a fresh id.                        *)
LEMMA CancelHandlers ==
    ASSUME CancelInv, NEW s \in Schedules,
           \/ \E e \in Schedule : ScheduleCreate(s, e)
           \/ ScheduleCancel(s)
    PROVE  (AsCreated /\ OneShotCancelHolds /\ migration = None)'
<1>1. ASSUME NEW e \in Schedule, ScheduleCreate(s, e)
      PROVE  (AsCreated /\ OneShotCancelHolds /\ migration = None)'
  <2>1. /\ disk' = [disk EXCEPT ![s] = e] /\ created' = [created EXCEPT ![s] = e]
        /\ UNCHANGED <<sweep, migration, cancelled, lastFire>> /\ created[s] = None
    BY <1>1 DEF ScheduleCreate, SaveTo
  <2>2. e # None /\ s \notin cancelled
    BY <2>1, NoneAssumption DEF CancelInv, AsCreated
  <2>3. \A t \in Schedules : IF t = s THEN disk'[t] = e /\ created'[t] = e
                            ELSE disk'[t] = disk[t] /\ created'[t] = created[t]
    BY <2>1 DEF CancelInv, DueInv, SweepTyped
  <2>4. AsCreated'
    BY <2>1, <2>2, <2>3 DEF CancelInv, AsCreated
  <2>5. OneShotCancelHolds'
    BY <2>1, <2>2, <2>3 DEF CancelInv, OneShotCancelHolds, DueInv, SweepTyped
  <2> QED
    BY <2>1, <2>4, <2>5 DEF CancelInv
<1>2. ASSUME ScheduleCancel(s)
      PROVE  (AsCreated /\ OneShotCancelHolds /\ migration = None)'
  BY <1>2 DEF ScheduleCancel, SaveTo, CancelInv, DueInv, SweepTyped, AsCreated,
              OneShotCancelHolds
<1> QED
  BY <1>1, <1>2

(* The sweep deletes files, and writes back only entries with a period.    *)
LEMMA CancelSweep ==
    ASSUME CancelInv, SweepNext
    PROVE  (AsCreated /\ OneShotCancelHolds /\ migration = None)'
<1>1. UNCHANGED <<created, cancelled, migration>>
  BY DEF SweepNext, SweepBetweenDials, SweepList, SweepScan, SweepStart, SweepFire, SweepFireFails,
         SweepRegister, SweepDrop, SweepSettle, SweepUnchanged
<1>2. SUFFICES
        /\ \A s \in Schedules : disk'[s] # None =>
              \/ disk'[s] = disk[s]
              \/ sweep.list[s] # None /\ disk'[s].every = sweep.list[s].every
                                     /\ disk'[s].every > 0
        /\ \A s \in Schedules : sweep'.list[s] # None =>
              \/ sweep'.list[s] = disk[s]
              \/ sweep.list[s] # None /\ sweep'.list[s].every = sweep.list[s].every
        /\ \A s \in Schedules : lastFire'[s] # lastFire[s] => sweep.list[s] # None
  <2> SUFFICES ASSUME
        /\ \A s \in Schedules : disk'[s] # None =>
              \/ disk'[s] = disk[s]
              \/ sweep.list[s] # None /\ disk'[s].every = sweep.list[s].every
                                     /\ disk'[s].every > 0
        /\ \A s \in Schedules : sweep'.list[s] # None =>
              \/ sweep'.list[s] = disk[s]
              \/ sweep.list[s] # None /\ sweep'.list[s].every = sweep.list[s].every
        /\ \A s \in Schedules : lastFire'[s] # lastFire[s] => sweep.list[s] # None
                PROVE  (AsCreated /\ OneShotCancelHolds /\ migration = None)'
    OBVIOUS
  <2>1. AsCreated'
    BY <1>1 DEF CancelInv, AsCreated
  <2>2. OneShotCancelHolds'
    <3> SUFFICES ASSUME NEW s \in cancelled, created[s].every = 0, disk'[s] # None
                 PROVE  FALSE
      BY <1>1 DEF OneShotCancelHolds
    <3>1. s \in Schedules
      BY DEF CancelInv, DueInv, SweepTyped
    <3>2. disk[s] = None
      BY DEF CancelInv, OneShotCancelHolds
    <3> QED
      BY <3>1, <3>2 DEF CancelInv, AsCreated
  <2> QED
    BY <1>1, <2>1, <2>2 DEF CancelInv
<1> USE DEF CancelInv, DueInv, SweepUnchanged, RegistryUnchanged
<1>3. CASE SweepList
  BY <1>3 DEF SweepList, SweepTyped
<1>4. CASE SweepScan
  <2>1. CASE Listed(sweep.list) = {} /\ sweep' = Idle /\ UNCHANGED disk
    BY <1>4, <2>1 DEF SweepScan, Idle, NoList
  <2>2. ASSUME NEW s \in Earliest(sweep.list), SweepSkip(s)
        PROVE  /\ \A t \in Schedules : disk'[t] \in {disk[t], None}
               /\ \A t \in Schedules : sweep'.list[t] \in {sweep.list[t], None}
    <3>1. sweep' = [sweep EXCEPT !.list = [sweep.list EXCEPT ![s] = None]]
      BY <2>2 DEF SweepSkip, SweepTyped
    <3>2. disk' = disk \/ disk' = [disk EXCEPT ![s] = None]
      BY <2>2 DEF SweepSkip, Delete, SaveTo
    <3> QED
      BY <3>1, <3>2 DEF SweepTyped
  <2>3. ASSUME NEW s \in Earliest(sweep.list), SweepGate(s)
        PROVE  /\ disk' = disk
               /\ sweep'.list = sweep.list \/ sweep'.list = NoList
    BY <2>3 DEF SweepGate, SweepTyped, Idle
  <2> QED
    BY <1>4, <2>1, <2>2, <2>3 DEF SweepScan, NoList
<1>5. CASE SweepStart
  <2> DEFINE e == sweep.list[sweep.cur]
             repaired == [e EXCEPT !.template = Repaired(e.template)]
  <2>1. sweep.cur \in Schedules /\ e # None
    BY <1>5 DEF SweepStart, FiringDue, Firing
  <2>2. e \in Schedule
    BY <2>1 DEF SweepTyped, File
  <2>3. repaired.every = e.every
    BY <2>2 DEF Schedule
  <2>4. sweep' = [sweep EXCEPT !.pc = "fire",
                               !.list = [sweep.list EXCEPT ![sweep.cur] = repaired]]
    BY <1>5, <2>1, <2>2 DEF SweepStart, SweepTyped, Schedule
  <2> HIDE DEF repaired
  <2>5. \A t \in Schedules : sweep'.list[t] = IF t = sweep.cur THEN repaired
                                              ELSE sweep.list[t]
    BY <2>1, <2>4 DEF SweepTyped
  <2> QED
    BY <1>5, <2>1, <2>3, <2>5 DEF SweepStart
<1>6. CASE SweepFire
  BY <1>6 DEF SweepFire, SweepTyped, FiringDue, Firing
<1>7. CASE SweepFireFails \/ SweepRegister
  BY <1>7 DEF SweepFireFails, SweepRegister, SweepTyped
<1>8. CASE SweepDrop
  BY <1>8 DEF SweepDrop, Delete, SaveTo, SweepTyped, Idle, NoList
<1>9. CASE SweepSettle
  <2> DEFINE e == sweep.list[sweep.cur]
             next == [e EXCEPT !.runAt = NextRunAt(e)]
  <2>1. sweep.cur \in Schedules /\ e # None /\ e \in Schedule
    BY <1>9 DEF SweepSettle, FiringDue, Firing, SweepTyped, File
  <2>2. next.every = e.every
    BY <2>1 DEF Schedule
  <2>3. \/ e.every > 0 /\ disk' = [disk EXCEPT ![sweep.cur] = next]
        \/ disk' = disk
        \/ disk' = [disk EXCEPT ![sweep.cur] = None]
    BY <1>9 DEF SweepSettle, Delete, SaveTo
  <2>4. sweep'.list = NoList \/ sweep'.list = sweep.list
    BY <1>9 DEF SweepSettle, Idle, SweepTyped
  <2>5. lastFire' = lastFire
    BY <1>9 DEF SweepSettle
  <2> HIDE DEF next
  <2> QED
    BY <2>1, <2>2, <2>3, <2>4, <2>5 DEF NoList, SweepTyped
<1> QED
  BY <1>3, <1>4, <1>5, <1>6, <1>7, <1>8, <1>9 DEF SweepNext, SweepBetweenDials

(* Without bulk migrations, no step revives a cancelled one-shot.          *)
LEMMA CancelStep ==
    ASSUME ~Migrations
    PROVE  CancelInv /\ [Next]_schedVars => CancelInv'
<1> SUFFICES ASSUME CancelInv, [Next]_schedVars PROVE CancelInv'
  OBVIOUS
<1>1. DueInv'
  BY DueStep DEF CancelInv
<1> SUFFICES (AsCreated /\ OneShotCancelHolds /\ migration = None)'
  BY <1>1 DEF CancelInv
<1>2. ASSUME NEW s \in Schedules, NEW at \in 0..MaxTime, NEW v \in Intervals,
             NEW t \in SinkTemplates
      PROVE  [runAt |-> at, every |-> v, template |-> t, secret |-> "literal"] \in Schedule
  BY SchedulerAssumption DEF Schedule, Templates
<1>3. CASE UNCHANGED schedVars
  BY <1>3 DEF schedVars, CancelInv, AsCreated, OneShotCancelHolds
<1>4. CASE \/ \E h \in Starters : HandleStart(h) \/ StarterStep(h)
           \/ \E r \in RunIds : RunDone(r)
           \/ Tick
  BY <1>4 DEF HandleStart, StarterStep, RunDone, Tick, CancelInv, AsCreated,
              OneShotCancelHolds
<1>5. CASE Restart
  BY <1>5 DEF Restart, Idle, NoList, CancelInv, AsCreated, OneShotCancelHolds
<1>6. ~MigrateList /\ ~MigrateEntry
  BY DEF CancelInv, MigrateList, MigrateEntry
<1> QED
  BY <1>2, <1>3, <1>4, <1>5, <1>6, CancelHandlers, CancelSweep DEF Next

(* A cancelled one-shot never has a file again, for any clock, any faults  *)
(* and any crashes, as long as no bulk migration rewrites the directory.   *)
THEOREM OneShotCancel ==
    ASSUME ~Migrations
    PROVE  Spec => []OneShotCancelHolds
<1>1. NewServer => CancelInv
  BY DueInit DEF NewServer, CancelInv, AsCreated, OneShotCancelHolds, NoList, Idle
<1>2. CancelInv => OneShotCancelHolds
  BY DEF CancelInv
<1> QED
  BY <1>1, <1>2, CancelStep, PTL DEF Spec
-----------------------------------------------------------------------------
(* Handlers: a fresh id has never fired and is in nobody's list.           *)
LEMMA FireHandlers ==
    ASSUME FireInv, NEW s \in Schedules,
           \/ \E e \in Schedule : ScheduleCreate(s, e)
           \/ ScheduleCancel(s)
    PROVE  FireParts'
<1> USE DEF FireInv, FireParts, CancelInv, DueInv
<1>1. UNCHANGED <<startedAt, sweep, call, lastFire>>
  BY DEF ScheduleCreate, ScheduleCancel
<1>2. /\ \A t \in Schedules : t # s => disk'[t] = disk[t]
      /\ \/ disk'[s] = None
         \/ disk'[s] \in Schedule /\ sweep.list[s] = None /\ lastFire[s] = -1
  <2>1. ASSUME NEW e \in Schedule, ScheduleCreate(s, e)
        PROVE  disk' = [disk EXCEPT ![s] = e] /\ sweep.list[s] = None /\ lastFire[s] = -1
    BY <2>1 DEF ScheduleCreate, SaveTo, AsCreated
  <2>2. ScheduleCancel(s) => disk' = [disk EXCEPT ![s] = None]
    BY DEF ScheduleCancel, SaveTo
  <2> QED
    BY <2>1, <2>2 DEF SweepTyped
<1>3. disk'[s] \in Schedule => disk'[s].runAt \in Nat
  BY DEF Schedule
<1>4. \A t \in Schedules : Settling(t)' <=> Settling(t)
  BY <1>1 DEF Settling, RunStarted
<1>5. ListCurrent'
  BY <1>1, <1>2 DEF ListCurrent
<1>6. OccurrencesUnfired'
  BY <1>1, <1>2, <1>3, <1>4 DEF OccurrencesUnfired, Unfired
<1>7. FiredNow'
  BY <1>1 DEF FiredNow, RunStarted
<1> QED
  BY <1>5, <1>6, <1>7 DEF FireParts

(* A manual start is not the sweeper's; time alone fires nothing.          *)
LEMMA FireStarts ==
    ASSUME FireInv,
           \/ \E h \in Starters : HandleStart(h) \/ StarterStep(h)
           \/ \E r \in RunIds : RunDone(r)
           \/ Tick
           \/ UNCHANGED schedVars
    PROVE  FireParts'
<1>1. UNCHANGED <<startedAt, disk, sweep, lastFire>>
  BY DEF HandleStart, StarterStep, RunDone, Tick, schedVars
<1>2. call'[Sweeper] = call[Sweeper]
  <2>1. ASSUME NEW h \in Starters, HandleStart(h) \/ StarterStep(h)
        PROVE  call'[Sweeper] = call[Sweeper]
    <3>1. h \in Callers /\ Sweeper \in Callers /\ Sweeper # h
          /\ SinkTemplates \subseteq Templates
      BY SchedulerAssumption DEF Callers, Templates
    <3> QED
      BY <2>1, <3>1, StartSteps DEF FireInv, FireParts, CancelInv, DueInv, HandleStart, StarterStep
  <2> QED
    BY <2>1 DEF RunDone, Tick, schedVars
<1> QED
  BY <1>1, <1>2 DEF FireInv, FireParts, ListCurrent, OccurrencesUnfired, Unfired, Settling,
                    RunStarted, FiredNow

(* A restart turns what was being settled into a missed occurrence.        *)
LEMMA FireRestart ==
    ASSUME FireInv, Restart
    PROVE  FireParts'
<1> USE DEF FireInv, FireParts, CancelInv, DueInv
<1>1. /\ startedAt' = now + 1 /\ sweep'.pc = "idle" /\ UNCHANGED <<disk, lastFire>>
      /\ \A s \in Schedules : sweep'.list[s] = None
  BY DEF Restart, Idle, NoList
<1>2. ASSUME NEW s \in Schedules, disk[s] # None
      PROVE  lastFire[s] < disk[s].runAt \/ disk[s].runAt < startedAt'
  <2>1. disk[s].runAt \in Nat
    BY <1>2 DEF SweepTyped, File, Schedule
  <2>2. Unfired(s, disk[s])
    BY <1>2 DEF OccurrencesUnfired
  <2>3. CASE Settling(s)
    <3>1. sweep.cur = s /\ sweep.list[s] # None /\ sweep.list[s].runAt <= sweep.at
      BY <2>3 DEF Settling, RunStarted, FiringDue, Firing
    <3>2. disk[s].runAt <= sweep.at
      BY <1>2, <3>1 DEF ListCurrent
    <3> QED
      BY <1>1, <2>1, <3>2 DEF SweepTyped
  <2>4. CASE ~Settling(s)
    BY <1>1, <2>1, <2>2, <2>4 DEF Unfired, SweepTyped
  <2> QED
    BY <2>3, <2>4
<1> QED
  BY <1>1, <1>2 DEF FireParts, ListCurrent, OccurrencesUnfired, Unfired, FiredNow, RunStarted

(* The sweep's steps: an occurrence that was fired is deleted or advanced  *)
(* past the sweep before the next sweep can see it.                        *)
LEMMA FireSweep ==
    ASSUME "delete" \notin Faults, FireInv, SweepNext
    PROVE  FireParts'
<1> USE DEF FireInv, FireParts, CancelInv, DueInv, SweepUnchanged, RegistryUnchanged
<1>0. Sweeper \in Callers
  BY DEF Callers
<1>1. CASE SweepList
  BY <1>1 DEF SweepList, SweepTyped, ListCurrent, OccurrencesUnfired, Unfired, Settling,
              RunStarted, FiredNow
<1>2. CASE SweepScan
  <2>1. /\ \A t \in Schedules : disk'[t] \in {disk[t], None}
        /\ \A t \in Schedules : sweep'.list[t] \in {sweep.list[t], None}
        /\ sweep'.pc \in {"idle", "scan", "start"}
    <3>1. CASE Listed(sweep.list) = {} /\ sweep' = Idle /\ UNCHANGED disk
      BY <3>1 DEF Idle, NoList
    <3>2. ASSUME NEW s \in Earliest(sweep.list), SweepSkip(s)
          PROVE  /\ \A t \in Schedules : disk'[t] \in {disk[t], None}
                 /\ \A t \in Schedules : sweep'.list[t] \in {sweep.list[t], None}
                 /\ sweep'.pc = sweep.pc
      <4>1. sweep' = [sweep EXCEPT !.list = [sweep.list EXCEPT ![s] = None]]
        BY <3>2 DEF SweepSkip, SweepTyped
      <4>2. disk' = disk \/ disk' = [disk EXCEPT ![s] = None]
        BY <3>2 DEF SweepSkip, Delete, SaveTo
      <4> QED
        BY <4>1, <4>2 DEF SweepTyped
    <3>3. ASSUME NEW s \in Earliest(sweep.list), SweepGate(s)
          PROVE  /\ disk' = disk /\ sweep'.pc \in {"idle", "start"}
                 /\ sweep'.list = sweep.list \/ sweep'.list = NoList
      BY <3>3 DEF SweepGate, SweepTyped, Idle
    <3> QED
      BY <1>2, <3>1, <3>2, <3>3 DEF SweepScan, NoList
  <2>2. sweep.pc = "scan" /\ UNCHANGED <<startedAt, lastFire>>
    BY <1>2 DEF SweepScan
  <2>3. \A t \in Schedules : ~Settling(t)
    BY <2>2 DEF Settling, RunStarted
  <2> QED
    BY <2>1, <2>2, <2>3 DEF ListCurrent, OccurrencesUnfired, Unfired, FiredNow, RunStarted
<1>3. CASE SweepStart
  <2> DEFINE e == sweep.list[sweep.cur]
             repaired == [e EXCEPT !.template = Repaired(e.template)]
  <2>1. sweep.cur \in Schedules /\ e # None
    BY <1>3 DEF SweepStart, FiringDue, Firing
  <2>2. e \in Schedule
    BY <2>1 DEF SweepTyped, File
  <2>3. repaired.runAt = e.runAt
    BY <2>2 DEF Schedule
  <2>4. sweep' = [sweep EXCEPT !.pc = "fire",
                               !.list = [sweep.list EXCEPT ![sweep.cur] = repaired]]
    BY <1>3, <2>1, <2>2 DEF SweepStart, SweepTyped, Schedule
  <2> HIDE DEF repaired
  <2>5. /\ \A t \in Schedules : sweep'.list[t] = IF t = sweep.cur THEN repaired
                                                 ELSE sweep.list[t]
        /\ sweep'.pc = "fire" /\ sweep.pc = "start" /\ UNCHANGED <<startedAt, disk, lastFire>>
    <3>1. sweep.pc = "start" /\ UNCHANGED <<startedAt, disk, lastFire>>
      BY <1>3 DEF SweepStart
    <3> QED
      BY <2>1, <2>4, <3>1 DEF SweepTyped
  <2>6. call'[Sweeper].pc = "dial"
    BY <1>0, <1>3 DEF SweepStart, BeginStart, SweepTyped
  <2>7. \A t \in Schedules : ~Settling(t)
    BY <2>5 DEF Settling, RunStarted
  <2>8. \A t \in Schedules : sweep'.list[t] # None =>
           sweep.list[t] # None /\ sweep'.list[t].runAt = sweep.list[t].runAt
    BY <2>1, <2>3, <2>5
  <2> QED
    BY <2>5, <2>6, <2>7, <2>8 DEF ListCurrent, OccurrencesUnfired, Unfired, FiredNow,
                                  RunStarted
<1>4. CASE SweepFire
  <2>1. /\ sweep.pc = "fire" /\ call[Sweeper].pc = "dial" /\ call'[Sweeper].pc = "register"
        /\ UNCHANGED <<startedAt, disk, sweep>>
    BY <1>0, <1>4 DEF SweepFire, CreateRun, SweepTyped
  <2>2. /\ \A t \in Schedules : t # sweep.cur => lastFire'[t] = lastFire[t]
        /\ sweep.cur \in Schedules /\ lastFire'[sweep.cur] = sweep.at
    BY <1>4 DEF SweepFire, SweepTyped, FiringDue, Firing
  <2>3. \A t \in Schedules : ~Settling(t) /\ (t = sweep.cur => Settling(t)')
    BY <2>1 DEF Settling, RunStarted
  <2> QED
    BY <2>1, <2>2, <2>3 DEF ListCurrent, OccurrencesUnfired, Unfired, FiredNow
<1>5. CASE SweepFireFails \/ SweepRegister
  <2>1. /\ sweep.pc = "fire" /\ UNCHANGED <<startedAt, disk, lastFire>>
        /\ sweep'.list = sweep.list /\ sweep'.cur = sweep.cur /\ sweep'.at = sweep.at
        /\ \/ call[Sweeper].pc = "dial" /\ sweep'.pc = "drop"
           \/ call[Sweeper].pc = "register" /\ sweep'.pc = "settle"
    BY <1>5 DEF SweepFireFails, SweepRegister, CreateFails, RegisterRun, SweepTyped
  <2>2. \A t \in Schedules : Settling(t) => Settling(t)'
    BY <2>1 DEF Settling, RunStarted
  <2>3. RunStarted' => RunStarted
    BY <2>1 DEF RunStarted
  <2> QED
    BY <2>1, <2>2, <2>3 DEF ListCurrent, OccurrencesUnfired, Unfired, FiredNow
<1>6. CASE SweepDrop
  <2>1. /\ \A t \in Schedules : disk'[t] = IF t = sweep.cur THEN None ELSE disk[t]
        /\ \A t \in Schedules : sweep'.list[t] = None
        /\ sweep'.pc = "idle" /\ UNCHANGED <<startedAt, lastFire>>
    BY <1>6 DEF SweepDrop, Delete, SaveTo, SweepTyped, Idle, NoList
  <2>2. \A t \in Schedules : t # sweep.cur => ~Settling(t)
    BY DEF Settling
  <2> QED
    BY <2>1, <2>2 DEF ListCurrent, OccurrencesUnfired, Unfired, FiredNow, RunStarted
<1>7. CASE SweepSettle
  <2> DEFINE e == sweep.list[sweep.cur]
             next == [e EXCEPT !.runAt = NextRunAt(e)]
  <2>1. /\ sweep.cur \in Schedules /\ e # None /\ e \in Schedule /\ e.runAt <= sweep.at
        /\ sweep.pc = "settle" /\ UNCHANGED <<startedAt, lastFire, call>>
    BY <1>7 DEF SweepSettle, FiringDue, Firing, SweepTyped, File
  <2>2. lastFire[sweep.cur] = sweep.at
    BY <2>1 DEF FiredNow, RunStarted
  <2>3. \A t \in Schedules : t # sweep.cur => ~Settling(t)
    BY DEF Settling
  <2>4. CASE sweep' = [sweep EXCEPT !.pc = "drop"] /\ UNCHANGED disk
    <3>1. /\ sweep'.list = sweep.list /\ sweep'.cur = sweep.cur /\ sweep'.pc = "drop"
          /\ Settling(sweep.cur)'
      BY <2>4 DEF SweepTyped, Settling
    <3> QED
      BY <2>1, <2>3, <2>4, <3>1 DEF ListCurrent, OccurrencesUnfired, Unfired, FiredNow,
                                    RunStarted
  <2>5. CASE sweep' = Idle
    <3>1. sweep'.pc = "idle" /\ \A t \in Schedules : sweep'.list[t] = None
      BY <2>5 DEF Idle, NoList
    <3>2. e.every > 0 => next.runAt > sweep.at
      BY <2>1, NextRunAtLater DEF Schedule
    <3>3. \/ disk' = [disk EXCEPT ![sweep.cur] = None]
          \/ e.every > 0 /\ disk' = [disk EXCEPT ![sweep.cur] = next]
      BY <1>7, <2>5 DEF SweepSettle, Delete, SaveTo, Idle, SweepTyped
    <3> HIDE DEF next
    <3>4. /\ \A t \in Schedules : t # sweep.cur => disk'[t] = disk[t]
          /\ disk'[sweep.cur] # None => lastFire[sweep.cur] < disk'[sweep.cur].runAt
      BY <2>1, <2>2, <3>2, <3>3 DEF SweepTyped
    <3> QED
      BY <2>1, <2>3, <3>1, <3>4 DEF ListCurrent, OccurrencesUnfired, Unfired, FiredNow,
                                    RunStarted
  <2> QED
    BY <1>7, <2>4, <2>5 DEF SweepSettle
<1> QED
  BY <1>1, <1>2, <1>3, <1>4, <1>5, <1>6, <1>7 DEF SweepNext, SweepBetweenDials

(* Without migrations and failing deletes, every step keeps the invariant. *)
LEMMA FireStep ==
    ASSUME ~Migrations, "delete" \notin Faults
    PROVE  FireInv /\ [Next]_schedVars => FireInv'
<1> SUFFICES ASSUME FireInv, [Next]_schedVars PROVE FireInv'
  OBVIOUS
<1>1. CancelInv'
  BY CancelStep DEF FireInv
<1>2. ASSUME NEW s \in Schedules, NEW at \in 0..MaxTime, NEW v \in Intervals,
             NEW t \in SinkTemplates
      PROVE  [runAt |-> at, every |-> v, template |-> t, secret |-> "literal"] \in Schedule
  BY SchedulerAssumption DEF Schedule, Templates
<1>3. ~MigrateList /\ ~MigrateEntry
  BY DEF FireInv, CancelInv, MigrateList, MigrateEntry
<1>4. FireParts'
  BY <1>2, <1>3, FireHandlers, FireStarts, FireRestart, FireSweep DEF Next
<1> QED
  BY <1>1, <1>4 DEF FireInv

(* A schedule fires for an occurrence later than the sweep that fired it   *)
(* before, through any crashes and failed saves, as long as no bulk        *)
(* migration rewrites the directory and deleting a file succeeds.          *)
THEOREM AtMostOnce ==
    ASSUME ~Migrations, "delete" \notin Faults
    PROVE  Spec => NoCatchUpBurst
<1> DEFINE Later == \A s \in Schedules :
                       lastFire'[s] # lastFire[s] => sweep.list[s].runAt > lastFire[s]
<1>1. NewServer => FireInv
  BY DueInit DEF NewServer, FireInv, FireParts, CancelInv, AsCreated, OneShotCancelHolds, ListCurrent,
                 OccurrencesUnfired, FiredNow, RunStarted, NoList, Idle
<1>2. ASSUME FireInv, [Next]_schedVars PROVE Later
  <2>1. CASE SweepFire
    <3>1. /\ sweep.cur \in Schedules /\ sweep.list[sweep.cur] # None
          /\ sweep.list[sweep.cur] \in Schedule
          /\ startedAt <= sweep.list[sweep.cur].runAt
      BY <1>2, <2>1 DEF FireInv, FireParts, CancelInv, DueInv, FiringDue, Firing, SweepFire,
                        SweepTyped, File
    <3>2. ~Settling(sweep.cur)
      BY <2>1 DEF SweepFire, CreateRun, Settling, RunStarted
    <3>3. lastFire[sweep.cur] < sweep.list[sweep.cur].runAt
      BY <1>2, <3>1, <3>2 DEF FireInv, FireParts, CancelInv, DueInv, SweepTyped, OccurrencesUnfired,
                              Unfired, Schedule
    <3>4. \A s \in Schedules : s # sweep.cur => lastFire'[s] = lastFire[s]
      BY <1>2, <2>1 DEF FireInv, FireParts, CancelInv, DueInv, SweepTyped, SweepFire
    <3> QED
      BY <1>2, <3>1, <3>3, <3>4 DEF FireInv, FireParts, CancelInv, DueInv, SweepTyped, Schedule
  <2>2. CASE ~SweepFire
    <3>1. lastFire' = lastFire
      BY <1>2, <2>2 DEF Next, SweepNext, SweepBetweenDials, ScheduleCreate, ScheduleCancel, HandleStart,
         StarterStep, RunDone, SweepList, SweepScan, SweepStart, SweepFireFails,
         SweepRegister, SweepDrop, SweepSettle, MigrateList, MigrateEntry, Tick, Restart,
         schedVars
    <3> QED
      BY <3>1
  <2> QED
    BY <2>1, <2>2
<1>3. FireInv /\ [Next]_schedVars => [Later]_schedVars
  BY <1>2
<1> QED
  BY <1>1, <1>3, FireStep, PTL DEF Spec, NoCatchUpBurst
-----------------------------------------------------------------------------
(* Closing ranks is one to one: each place in the shortened list is taken  *)
(* by exactly one of the positions that are left.                          *)
LEMMA RankOntoPlaces ==
    ASSUME NEW n \in Nat, NEW S \in SUBSET (1..n)
    PROVE  /\ Cardinality(S) \in Nat
           /\ \A i \in S : Rank(S, i) \in 1..Cardinality(S)
           /\ \A i, j \in S : Rank(S, i) = Rank(S, j) => i = j
           /\ \A k \in 1..Cardinality(S) : \E i \in S : Rank(S, i) = k
<1> DEFINE Upto(i) == {j \in S : j <= i}
           f == [i \in S |-> Rank(S, i)]
<1>1. IsFiniteSet(S) /\ Cardinality(S) \in Nat
  <2>1. IsFiniteSet(1..n)
    BY FS_Interval
  <2>2. IsFiniteSet(S)
    BY <2>1, FS_Subset
  <2> QED
    BY <2>2, FS_CardinalityType
<1>2. ASSUME NEW i \in S PROVE IsFiniteSet(Upto(i)) /\ Rank(S, i) = Cardinality(Upto(i))
  BY <1>1, FS_Subset DEF Rank
<1>3. ASSUME NEW i \in S PROVE Rank(S, i) \in 1..Cardinality(S)
  <2>1. Upto(i) \in SUBSET S /\ Upto(i) # {}
    OBVIOUS
  <2>2. Cardinality(Upto(i)) \in Nat /\ Cardinality(Upto(i)) # 0
    BY <1>2, <2>1, FS_CardinalityType, FS_EmptySet
  <2>3. Cardinality(Upto(i)) <= Cardinality(S)
    BY <1>1, <2>1, FS_Subset
  <2> QED
    BY <1>1, <1>2, <2>2, <2>3
<1>4. ASSUME NEW i \in S, NEW j \in S, i < j PROVE Rank(S, i) # Rank(S, j)
  <2>0. i \in Int /\ j \in Int /\ \A m \in S : m \in Int
    OBVIOUS
  <2>1. \A m \in S : m <= i => m <= j
    BY <1>4, <2>0
  <2>2. Upto(i) \in SUBSET Upto(j)
    BY <2>1
  <2>3. j \in Upto(j) /\ j \notin Upto(i)
    BY <1>4, <2>0
  <2> QED
    BY <1>2, <2>2, <2>3, FS_Subset
<1>5. ASSUME NEW i \in S, NEW j \in S, Rank(S, i) = Rank(S, j) PROVE i = j
  BY <1>4, <1>5
<1>6. f \in Injection(S, 1..Cardinality(S))
  BY <1>3, <1>5 DEF Injection, IsInjective
<1>7. IsFiniteSet(1..Cardinality(S)) /\ Cardinality(1..Cardinality(S)) = Cardinality(S)
  BY <1>1, FS_Interval
<1>8. f \in Surjection(S, 1..Cardinality(S))
  BY <1>6, <1>7, FS_Injection
<1>9. \A k \in 1..Cardinality(S) : \E i \in S : Rank(S, i) = k
  BY <1>8 DEF Surjection
<1> QED
  BY <1>1, <1>3, <1>5, <1>9

(* What appending r to the list p gives. *)
Extends(o, p, r) ==
    /\ o \in Seq(RunIds) /\ Len(o) = Len(p) + 1
    /\ \A i \in 1..Len(p) : o[i] = p[i]
    /\ o[Len(p) + 1] = r

(* Appending a run that is not listed yet lists it once.                   *)
LEMMA ListedOnce ==
    ASSUME NEW p \in Seq(RunIds), NEW r \in RunIds, NEW o,
           IsInjective(p), r \notin Range(p), Extends(o, p, r)
    PROVE  IsInjective(o) /\ Range(o) = Range(p) \cup {r}
<1>1. /\ o \in Seq(RunIds) /\ Len(p) \in Nat
      /\ DOMAIN o = 1..(Len(p) + 1) /\ DOMAIN p = 1..Len(p)
      /\ \A i \in 1..Len(p) : o[i] = p[i]
      /\ o[Len(p) + 1] = r
  BY DEF Extends
<1>2. \A i \in 1..Len(p) : p[i] # r
  BY <1>1 DEF Range
<1>3. \A i \in DOMAIN o : i \in 1..Len(p) \/ i = Len(p) + 1
  BY <1>1
<1>4. IsInjective(o)
  BY <1>1, <1>2, <1>3 DEF IsInjective
<1>5. Range(o) \subseteq Range(p) \cup {r}
  BY <1>1, <1>3 DEF Range
<1>6. Range(p) \cup {r} \subseteq Range(o)
  BY <1>1 DEF Range
<1> QED
  BY <1>4, <1>5, <1>6

(* The retention loop lists no run twice, lists no run it was not given,   *)
(* and keeps every active one.                                             *)
LEMMA EvictKeeps ==
    ASSUME NEW o \in Seq(RunIds), IsInjective(o)
    PROVE  /\ Evict(o) \in Seq(RunIds) /\ IsInjective(Evict(o))
           /\ Len(Evict(o)) = Cardinality(Kept(o))
           /\ Range(Evict(o)) \subseteq Range(o)
           /\ Range(o) \cap active \subseteq Range(Evict(o))
<1> DEFINE S == Kept(o)
           at(k) == CHOOSE i \in S : Rank(S, i) = k
<1>1. S \in SUBSET (1..Len(o)) /\ Len(o) \in Nat /\ DOMAIN o = 1..Len(o)
  BY DEF Kept
<1>2. \A i \in DOMAIN o : o[i] \in active => i \in S
  BY DEF Kept
<1>3. Evict(o) = [k \in 1..Cardinality(S) |-> o[at(k)]]
  BY DEF Evict
<1> HIDE DEF S
<1>4. /\ Cardinality(S) \in Nat
      /\ \A i \in S : Rank(S, i) \in 1..Cardinality(S)
      /\ \A i, j \in S : Rank(S, i) = Rank(S, j) => i = j
      /\ \A k \in 1..Cardinality(S) : \E i \in S : Rank(S, i) = k
  BY <1>1, RankOntoPlaces
<1>5. \A k \in 1..Cardinality(S) : at(k) \in S /\ Rank(S, at(k)) = k
  BY <1>4
<1>6. \A i \in S : at(Rank(S, i)) = i
  BY <1>4, <1>5
<1> HIDE DEF at
<1>7. \A k \in 1..Cardinality(S) : o[at(k)] \in RunIds
  <2>1. \A i \in 1..Len(o) : o[i] \in RunIds
    OBVIOUS
  <2> QED
    BY <1>1, <1>5, <2>1
<1>8. Evict(o) \in Seq(RunIds) /\ Len(Evict(o)) = Cardinality(S)
      /\ DOMAIN Evict(o) = 1..Cardinality(S)
  BY <1>3, <1>4, <1>7
<1>9. IsInjective(Evict(o))
  <2>1. ASSUME NEW k \in 1..Cardinality(S), NEW m \in 1..Cardinality(S), o[at(k)] = o[at(m)]
        PROVE  k = m
    <3>1. at(k) = at(m)
      BY <1>1, <1>5, <2>1 DEF IsInjective
    <3> QED
      BY <1>5, <3>1
  <2> QED
    BY <1>3, <1>8, <2>1 DEF IsInjective
<1>10. Range(Evict(o)) \subseteq Range(o)
  BY <1>1, <1>3, <1>5, <1>8 DEF Range
<1>11. Range(o) \cap active \subseteq Range(Evict(o))
  <2>1. ASSUME NEW i \in DOMAIN o, o[i] \in active PROVE o[i] \in Range(Evict(o))
    <3>1. i \in S /\ Rank(S, i) \in 1..Cardinality(S) /\ at(Rank(S, i)) = i
      BY <1>2, <1>4, <1>6, <2>1
    <3>2. Evict(o)[Rank(S, i)] = o[i]
      BY <1>3, <3>1
    <3> QED
      BY <1>8, <3>1, <3>2 DEF Range
  <2> QED
    BY <2>1 DEF Range
<1> QED
  BY <1>8, <1>9, <1>10, <1>11 DEF S

(* NewServer establishes the registry's invariant.                         *)
LEMMA RegistryInit == NewServer => RegistryInv
<1> SUFFICES ASSUME NewServer PROVE RegistryInv
  OBVIOUS
<1>1. order \in Seq(RunIds) /\ IsInjective(order)
  BY DEF NewServer, IsInjective
<1> QED
  BY <1>1 DEF NewServer, RegistryInv, NoCall

(* The start of a run by one caller: the template repair, the new identity *)
(* and the registration with its retention loop.                           *)
LEMMA RegistryStart ==
    ASSUME SweepTyped, RegistryInv, NEW c \in Callers,
           \/ /\ \E t \in Templates : BeginStart(c, t)
              /\ call[c].pc # "register" /\ UNCHANGED <<active, order>>
           \/ CreateRun(c)
           \/ CreateFails(c)
           \/ RegisterRun(c)
    PROVE  RegistryInv'
<1>0. /\ \A d \in Callers \ {c} : call'[d] = call[d]
      /\ None \notin RunIds
  BY StartSteps, SchedulerAssumption
<1>1. ASSUME UNCHANGED <<active, order>>, call[c].pc # "register",
             call'[c].pc # "register", call'[c].run = None
      PROVE  RegistryInv'
  <2>1. call[c].run = None /\ UNCHANGED Registered
    BY <1>1 DEF RegistryInv, Registered
  <2>2. \A d \in Callers : call'[d].run = call[d].run /\ (call'[d].pc = "register" <=> call[d].pc = "register")
    BY <1>0, <1>1, <2>1
  <2> QED
    BY <1>1, <2>1, <2>2 DEF RegistryInv
<1>2. CASE /\ \E t \in Templates : BeginStart(c, t)
           /\ call[c].pc # "register" /\ UNCHANGED <<active, order>>
  <2>1. call'[c].pc = "dial" /\ call'[c].run = None
    BY <1>2 DEF BeginStart, SweepTyped
  <2> QED
    BY <1>1, <1>2, <2>1
<1>3. CASE CreateFails(c)
  <2>1. call'[c] = NoCall /\ call[c].pc = "dial" /\ UNCHANGED <<active, order>>
    BY <1>3 DEF CreateFails, SweepTyped
  <2> QED
    BY <1>1, <2>1 DEF NoCall
<1>4. CASE CreateRun(c)
  <2>1. PICK r \in FreeIds : /\ active' = active \cup {r}
                             /\ call' = [call EXCEPT ![c].pc = "register", ![c].run = r]
    BY <1>4 DEF CreateRun
  <2>2. call'[c].pc = "register" /\ call'[c].run = r /\ call[c].pc = "dial"
        /\ UNCHANGED order
    BY <1>4, <2>1 DEF CreateRun, SweepTyped
  <2>3. r \in RunIds /\ r \notin Registered /\ \A d \in Callers : call[d].run # r
    BY DEF FreeIds
  <2>4. UNCHANGED Registered /\ call[c].run = None
    BY <2>2 DEF Registered, RegistryInv
  <2>5. active' \subseteq Registered' \cup {call'[d].run : d \in Callers}
    <3> SUFFICES ASSUME NEW q \in active', q \notin Registered
                 PROVE  \E d \in Callers : call'[d].run = q
      BY <2>4
    <3>1. CASE q = r
      BY <2>2, <3>1
    <3>2. CASE q # r
      <4>1. PICK d \in Callers : call[d].run = q
        BY <2>1, <3>2 DEF RegistryInv
      <4>2. CASE d = c
        <5>1. q = None /\ q \in RunIds
          BY <2>1, <2>4, <3>2, <4>1, <4>2 DEF RegistryInv
        <5> QED
          BY <1>0, <5>1
      <4>3. CASE d # c
        BY <1>0, <4>1, <4>3
      <4> QED
        BY <4>2, <4>3
    <3> QED
      BY <3>1, <3>2
  <2>6. \A d \in Callers : IF call'[d].pc = "register"
                           THEN call'[d].run \in RunIds \ Registered'
                           ELSE call'[d].run = None
    BY <1>0, <2>2, <2>3, <2>4 DEF RegistryInv
  <2>7. \A d, e \in Callers : d # e /\ call'[d].run = call'[e].run => call'[d].run = None
    BY <1>0, <2>2, <2>3 DEF RegistryInv
  <2>8. active' \in SUBSET RunIds
    BY <2>1, <2>3 DEF RegistryInv
  <2> QED
    BY <2>2, <2>5, <2>6, <2>7, <2>8 DEF RegistryInv
<1>5. CASE RegisterRun(c)
  <2>1. PICK r : r = call[c].run
    OBVIOUS
  <2>2. PICK o : o = Append(order, r)
    OBVIOUS
  <2>3. /\ r \in RunIds \ Registered /\ order' = Evict(o) /\ UNCHANGED active
        /\ call'[c].pc = "none" /\ call'[c].run = None
    BY <1>5, <2>1, <2>2 DEF RegisterRun, RegistryInv, NoCall, SweepTyped
  <2>4. o \in Seq(RunIds) /\ IsInjective(o) /\ Range(o) = Registered \cup {r}
    <3>1. order \in Seq(RunIds) /\ IsInjective(order) /\ r \in RunIds \ Range(order)
      BY <2>3 DEF RegistryInv, Registered
    <3>2. Extends(o, order, r)
      BY <2>2, <3>1 DEF Extends
    <3>3. IsInjective(o) /\ Range(o) = Range(order) \cup {r}
      BY <3>1, <3>2, ListedOnce
    <3> QED
      BY <3>2, <3>3 DEF Extends, Registered
  <2>5. /\ order' \in Seq(RunIds) /\ IsInjective(order')
        /\ Range(order') \subseteq Registered \cup {r}
        /\ (Registered \cup {r}) \cap active \subseteq Range(order')
    BY <2>3, <2>4, EvictKeeps
  <2>6. Registered' = Range(order')
    BY DEF Registered
  <2>7. \A d \in Callers : IF call'[d].pc = "register"
                           THEN call'[d].run \in RunIds \ Registered'
                           ELSE call'[d].run = None
    BY <1>0, <2>1, <2>3, <2>5, <2>6 DEF RegistryInv
  <2>8. \A d, e \in Callers : d # e /\ call'[d].run = call'[e].run => call'[d].run = None
    BY <1>0, <2>3 DEF RegistryInv
  <2>9. active' \subseteq Registered' \cup {call'[d].run : d \in Callers}
    BY <1>0, <2>1, <2>3, <2>5, <2>6 DEF RegistryInv
  <2>10. active' \in SUBSET RunIds
    BY <2>3 DEF RegistryInv
  <2> QED
    BY <2>5, <2>7, <2>8, <2>9, <2>10 DEF RegistryInv
<1> QED
  BY <1>2, <1>3, <1>4, <1>5

(* Only the sweeper's own steps, and a restart, touch its start.           *)
LEMMA SweeperStep == SweepTyped /\ SweeperCall /\ [Next]_schedVars => SweeperCall'
<1> SUFFICES ASSUME SweepTyped, SweeperCall, [Next]_schedVars PROVE SweeperCall'
  OBVIOUS
<1>1. ASSUME NEW h \in Starters, HandleStart(h) \/ StarterStep(h) PROVE SweeperCall'
  <2>1. h \in Callers /\ Sweeper \in Callers /\ h # Sweeper /\ SinkTemplates \subseteq Templates
    BY SchedulerAssumption DEF Callers, Templates
  <2>2. call'[Sweeper] = call[Sweeper]
    BY <1>1, <2>1, StartSteps DEF HandleStart, StarterStep
  <2> QED
    BY <1>1, <2>2 DEF HandleStart, StarterStep, SweeperCall
<1>2. CASE SweepStart
  BY <1>2 DEF SweepStart, SweeperCall, SweepTyped
<1>3. CASE SweepFire
  BY <1>3 DEF SweepFire, SweeperCall
<1>4. CASE SweepFireFails \/ SweepRegister
  <2>1. Sweeper \in Callers
    BY DEF Callers
  <2>2. call'[Sweeper] = NoCall
    BY <1>4, <2>1 DEF SweepFireFails, SweepRegister, CreateFails, RegisterRun, SweepTyped
  <2> QED
    BY <2>2 DEF SweeperCall, NoCall
<1>5. CASE SweepList \/ SweepScan
  <2>1. UNCHANGED call /\ sweep.pc # "fire"
    BY <1>5 DEF SweepList, SweepScan, RegistryUnchanged
  <2> QED
    BY <2>1 DEF SweeperCall
<1>6. CASE SweepDrop \/ SweepSettle
  <2>1. UNCHANGED call /\ sweep.pc # "fire"
    BY <1>6 DEF SweepDrop, SweepSettle, RegistryUnchanged
  <2> QED
    BY <2>1 DEF SweeperCall
<1>7. CASE Restart
  BY <1>7 DEF Restart, SweeperCall, NoCall, Callers
<1>8. ASSUME UNCHANGED <<call, sweep>> PROVE SweeperCall'
  BY <1>8 DEF SweeperCall
<1> QED
  BY <1>1, <1>2, <1>3, <1>4, <1>5, <1>6, <1>7, <1>8
  DEF Next, SweepNext, SweepBetweenDials, RunDone, ScheduleCreate,
      ScheduleCancel, MigrateList, MigrateEntry,
      Tick, schedVars

(* Every step keeps the registry's invariant.                              *)
LEMMA RegistryStep ==
    DueInv /\ SweeperCall /\ RegistryInv /\ [Next]_schedVars => RegistryInv'
<1> SUFFICES ASSUME DueInv, SweeperCall, RegistryInv, [Next]_schedVars PROVE RegistryInv'
  OBVIOUS
<1>1. ASSUME UNCHANGED <<call, active, order>> PROVE RegistryInv'
  BY <1>1 DEF RegistryInv, Registered
<1>2. SweepTyped /\ SinkTemplates \subseteq Templates
  BY SchedulerAssumption DEF DueInv, Templates
<1>3. ASSUME NEW h \in Starters, HandleStart(h) \/ StarterStep(h) PROVE RegistryInv'
  BY <1>2, <1>3, RegistryStart DEF HandleStart, StarterStep, Callers
<1>4. ASSUME NEW r \in RunIds, RunDone(r) PROVE RegistryInv'
  BY <1>4 DEF RunDone, RegistryInv, Registered
<1>5. CASE SweepStart
  <2>1. call[Sweeper].pc = "none" /\ UNCHANGED <<active, order>>
    BY <1>5 DEF SweepStart, SweeperCall
  <2>2. sweep.list[sweep.cur] \in Schedule
    BY <1>2, <1>5 DEF SweepStart, DueInv, FiringDue, Firing, SweepTyped, File
  <2>3. \E t \in Templates : BeginStart(Sweeper, t)
    BY <1>5, <2>2 DEF SweepStart, Schedule
  <2> QED
    BY <1>2, <2>1, <2>3, RegistryStart DEF Callers
<1>6. CASE SweepFire \/ SweepFireFails \/ SweepRegister
  BY <1>2, <1>6, RegistryStart DEF SweepFire, SweepFireFails, SweepRegister, Callers
<1>7. CASE Restart
  <2>1. order' = <<>> /\ active' = {} /\ call' = [c \in Callers |-> NoCall]
    BY <1>7 DEF Restart
  <2>2. order' \in Seq(RunIds) /\ IsInjective(order')
    BY <2>1 DEF IsInjective
  <2> QED
    BY <2>1, <2>2 DEF RegistryInv, NoCall
<1>8. CASE SweepList \/ SweepScan \/ SweepDrop \/ SweepSettle
  <2>1. UNCHANGED <<call, active, order>>
    BY <1>8 DEF SweepList, SweepScan, SweepDrop, SweepSettle, RegistryUnchanged
  <2> QED
    BY <1>1, <2>1
<1> QED
  BY <1>1, <1>3, <1>4, <1>5, <1>6, <1>7, <1>8
  DEF Next, SweepNext, SweepBetweenDials, ScheduleCreate, ScheduleCancel,
      MigrateList, MigrateEntry, Tick, schedVars

(* The registry's invariant holds in every behaviour, with every fault and *)
(* every interleaving of handlers, sweeper and restarts.                   *)
THEOREM RegistryInvariant == Spec => [](RegistryInv /\ SweeperCall)
<1>1. NewServer => SweeperCall
  BY DEF NewServer, SweeperCall, NoCall, Callers
<1>2. DueInv => SweepTyped
  BY DEF DueInv
<1> QED
  BY <1>1, <1>2, RegistryInit, RegistryStep, SweeperStep, DueInvariant, PTL DEF Spec

(* No eviction ever takes the handle of an active run, and no run is       *)
(* listed twice: for any retention cap, any number of callers and runs.    *)
THEOREM ActiveReachable == Spec => []ActiveRunsReachable
<1>1. ASSUME RegistryInv PROVE Cardinality(Registered) = Len(order)
  <2>1. order \in Surjection(1..Len(order), Registered)
        /\ order \in Injection(1..Len(order), Registered)
    BY <1>1 DEF RegistryInv, Registered, Range, Surjection, Injection, IsInjective
  <2>2. Len(order) \in Nat
    BY <1>1 DEF RegistryInv
  <2>3. IsFiniteSet(1..Len(order)) /\ Cardinality(1..Len(order)) = Len(order)
    <3>1. ASSUME NEW n \in Nat PROVE IsFiniteSet(1..n) /\ Cardinality(1..n) = n
      <4>1. /\ IsFiniteSet(1..n)
            /\ Cardinality(1..n) = IF 1 > n THEN 0 ELSE n - 1 + 1
        BY FS_Interval
      <4> QED
        BY <4>1
    <3> QED
      BY <2>2, <3>1
  <2> QED
    BY <2>1, <2>3, FS_Surjection
<1>2. RegistryInv => ActiveRunsReachable
  BY <1>1 DEF RegistryInv, ActiveRunsReachable
<1> QED
  BY <1>2, RegistryInvariant, PTL

(* A list that was not shortened although it is over the cap holds active  *)
(* runs only: its first finished run would have been dropped.              *)
LEMMA OverCapActive ==
    ASSUME NEW o \in Seq(RunIds), Cardinality(Kept(o)) = Len(o), Len(o) > Retain
    PROVE  Range(o) \subseteq active
<1> DEFINE D == {i \in 1..Len(o) : o[i] \notin active}
<1>1. Len(o) \in Nat /\ DOMAIN o = 1..Len(o) /\ Retain \in Nat
  BY SchedulerAssumption
<1>2. Kept(o) = 1..Len(o)
  <2>1. IsFiniteSet(1..Len(o)) /\ Cardinality(1..Len(o)) = Len(o)
    BY <1>1, FS_Interval
  <2>2. Kept(o) \in SUBSET (1..Len(o))
    BY <1>1 DEF Kept
  <2> QED
    BY <2>1, <2>2, FS_Subset
<1>3. ASSUME NEW i \in D PROVE Cardinality({j \in 1..i : o[j] \notin active}) > 1
  <2>1. Cardinality({j \in 1..i : o[j] \notin active}) > Len(o) - Retain
    BY <1>1, <1>2, <1>3 DEF Kept
  <2>2. {j \in 1..i : o[j] \notin active} \in SUBSET (1..i) /\ IsFiniteSet(1..i)
    BY <1>1, <1>3, FS_Interval
  <2>3. Cardinality({j \in 1..i : o[j] \notin active}) \in Nat
    BY <2>2, FS_Subset, FS_CardinalityType
  <2> QED
    BY <1>1, <2>1, <2>3
<1>4. SUFFICES ASSUME D # {} PROVE FALSE
  BY <1>1 DEF Range
<1>5. PICK i \in D : \A j \in D : ~(j < i)
  <2>1. IsWellFoundedOn(OpToRel(<, Nat), Nat)
    BY NatLessThanWellFounded
  <2>2. D \in SUBSET Nat
    BY <1>1
  <2>3. PICK x \in D : \A y \in D : ~(<<y, x>> \in OpToRel(<, Nat))
    BY <1>4, <2>1, <2>2, WFMin
  <2> QED
    BY <2>2, <2>3 DEF OpToRel
<1>6. {j \in 1..i : o[j] \notin active} = {i}
  BY <1>1, <1>5
<1>7. Cardinality({i}) = 1
  BY FS_Singleton
<1> QED
  BY <1>3, <1>6, <1>7

(* The registry outgrows maxRetainedRuns only when every run it holds is   *)
(* active, for any cap.                                                    *)
THEOREM OverCapActiveOnly == Spec => OverCapOnlyActive
<1> DEFINE Over == Len(order') > Len(order) /\ Len(order') > Retain
                     => Range(order') \subseteq active'
<1>1. ASSUME RegistryInv, SweepTyped, NEW c \in Callers, RegisterRun(c) PROVE Over
  <2>0. PICK r : r = call[c].run
    OBVIOUS
  <2>1. PICK o : o = Append(order, r)
    OBVIOUS
  <2>2. /\ order \in Seq(RunIds) /\ IsInjective(order) /\ r \in RunIds \ Range(order)
        /\ order' = Evict(o) /\ UNCHANGED active
    BY <1>1, <2>0, <2>1 DEF RegistryInv, RegisterRun, Registered
  <2>3. o \in Seq(RunIds) /\ Len(o) = Len(order) + 1 /\ Len(order) \in Nat
        /\ IsInjective(o)
    <3>1. Extends(o, order, r) /\ Len(order) \in Nat
      BY <2>1, <2>2 DEF Extends
    <3>2. IsInjective(o)
      BY <2>2, <3>1, ListedOnce
    <3> QED
      BY <3>1, <3>2 DEF Extends
  <2>4. Len(order') = Cardinality(Kept(o)) /\ Range(order') \subseteq Range(o)
    BY <2>2, <2>3, EvictKeeps
  <2>5. Cardinality(Kept(o)) \in Nat /\ Cardinality(Kept(o)) <= Len(o)
    <3>1. IsFiniteSet(1..Len(o)) /\ Cardinality(1..Len(o)) = Len(o)
      BY <2>3, FS_Interval
    <3>2. Kept(o) \in SUBSET (1..Len(o))
      BY <2>3 DEF Kept
    <3> QED
      BY <3>1, <3>2, FS_Subset, FS_CardinalityType
  <2>6. ASSUME Len(order') > Len(order), Len(order') > Retain
        PROVE  Range(order') \subseteq active'
    <3>1. Cardinality(Kept(o)) = Len(o) /\ Len(o) > Retain
      BY <2>3, <2>4, <2>5, <2>6
    <3> QED
      BY <2>2, <2>3, <2>4, <3>1, OverCapActive
  <2> QED
    BY <2>6
<1>2. ASSUME RegistryInv, order' = order \/ order' = <<>> PROVE Over
  <2>1. Len(order) \in Nat /\ Len(order') <= Len(order)
    BY <1>2 DEF RegistryInv
  <2>2. Len(order') \in Nat
    BY <1>2 DEF RegistryInv
  <2> QED
    BY <2>1, <2>2
<1>3. ASSUME RegistryInv, DueInv, [Next]_schedVars PROVE Over
  <2>1. \/ \E c \in Callers : RegisterRun(c)
        \/ order' = order
        \/ order' = <<>>
    BY <1>3 DEF Next, SweepNext, SweepBetweenDials, HandleStart, StarterStep, CreateRun, CreateFails, Callers,
       RunDone, SweepList, SweepScan, SweepStart, SweepFire, SweepFireFails, SweepRegister,
       SweepDrop, SweepSettle, RegistryUnchanged, ScheduleCreate, ScheduleCancel,
       MigrateList, MigrateEntry, Tick, Restart, schedVars
  <2> QED
    BY <1>1, <1>2, <1>3, <2>1 DEF DueInv
<1>4. RegistryInv /\ DueInv /\ [Next]_schedVars => [Over]_schedVars
  BY <1>3
<1> QED
  BY <1>4, RegistryInvariant, DueInvariant, PTL DEF Spec, OverCapOnlyActive
=============================================================================
