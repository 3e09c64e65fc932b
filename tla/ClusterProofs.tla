--------------------------- MODULE ClusterProofs ----------------------------
(***************************************************************************)
(* For any number of workers, of concurrent requests at the master and of  *)
(* runs of other operators, with calls that are refused, lost or served    *)
(* after the master gave up: no cluster run is left behind on a worker     *)
(* that answered.                                                          *)
(***************************************************************************)
EXTENDS Cluster, FiniteSetTheorems, WellFoundedInduction, TLAPS

MaybeRun == RunIds \cup {NoRun}
RunLists == [Workers -> MaybeRun]
Entries == [worker : Workers, run : MaybeRun, meta : MaybeRun, csv : MaybeRun]

(* What a request at the master knows.                                     *)
CallLocals ==
    [pc : {"none", "start", "rollback", "stop", "read", "archive", "status"},
     todo : SUBSET Workers, runs : RunLists, failed : BOOLEAN, id : Nat, report : SUBSET Entries]

ClusterTypeOK ==
    /\ coord \in [active : BOOLEAN, id : Nat, runs : RunLists]
    /\ request \in [Handlers -> CallLocals]
    /\ order \in [Workers -> Seq(RunIds)]
    /\ late \in [Workers -> Nat]
    /\ clock \in Nat

AllRuns == UNION {Range(order[w]) : w \in Workers}

(* Runs are numbered as they start; a run that ended stays ended.          *)
RunsNumbered ==
    /\ \E n \in Nat : AllRuns = 1..n
    /\ stopping \subseteq active /\ active \subseteq AllRuns

(* What the master records of a worker is a run of that worker.            *)
RunsOwn ==
    \A w \in Workers :
        /\ coord.runs[w] \in Range(order[w]) \cup {NoRun}
        /\ \A h \in Handlers : request[h].runs[w] \in Range(order[w]) \cup {NoRun}

LateTroubled == \A w \in Workers : late[w] > 0 => w \in trouble

(* A start has no run of a worker it has not called yet; a stop is done    *)
(* with the workers it called, unless the call failed.                     *)
StartsAhead(q) == q.pc = "start" => \A w \in q.todo : q.runs[w] = NoRun
StopsBehind(q) ==
    q.pc = "stop" =>
        \A w \in Workers \ (q.todo \cup trouble) : q.runs[w] \in active => q.runs[w] \in stopping

ClusterInv ==
    /\ ClusterTypeOK /\ RunsNumbered /\ RunsOwn /\ LateTroubled
    /\ \A h \in Handlers : StartsAhead(request[h]) /\ StopsBehind(request[h])
    /\ NoStrayRun

(* A request that is going to stop run r of worker w.                      *)
Holds(q, w, r) ==
    /\ q.runs[w] = r
    /\ q.pc = "start" \/ (q.pc \in {"rollback", "stop"} /\ w \in q.todo)

(* In hand: recorded, or held by a request.                                *)
LEMMA InHandIs ==
  ASSUME NEW w, NEW r
  PROVE  /\ InHand(w, r) <=> (coord.active /\ coord.runs[w] = r) \/ \E h \in Handlers : Holds(request[h], w, r)
         /\ InHand(w, r)' <=> (coord'.active /\ coord'.runs[w] = r)
                              \/ \E h \in Handlers : Holds(request'[h], w, r)
  BY DEF InHand, Holds

(* A non-empty set of numbers has a least one.                             *)
LEMMA MinIn ==
  ASSUME NEW S \in SUBSET Nat, S # {}
  PROVE  Min(S) \in S
<1>1. IsWellFoundedOn(OpToRel(<, Nat), Nat)
  BY NatLessThanWellFounded
<1>2. PICK x \in S : \A y \in S : ~(<<y, x>> \in OpToRel(<, Nat))
  BY <1>1, WFMin
<1>3. \A y \in S : ~(y < x)
  BY <1>2 DEF OpToRel
<1>4. \A y \in S : x <= y
  BY <1>3
<1> QED
  BY <1>4 DEF Min

(* The worker called next is one of those left.                            *)
LEMMA MinWorker ==
  ASSUME NEW S \in SUBSET Workers, S # {}
  PROVE  Min(S) \in S /\ Min(S) \in Workers
<1>1. S \in SUBSET Nat
  BY DEF Workers
<1>2. Min(S) \in S
  BY <1>1, MinIn
<1> QED
  BY <1>2

(* The run that starts next is new, and the last of its worker.            *)
LEMMA FreshEffect ==
  ASSUME ClusterTypeOK, RunsNumbered, NEW w \in Workers, NEW r, WorkerStarts(w, r)
  PROVE  /\ r \in RunIds /\ r \notin AllRuns /\ r # NoRun
         /\ order' \in [Workers -> Seq(RunIds)]
         /\ Range(order'[w]) = Range(order[w]) \cup {r}
         /\ \A v \in Workers : v # w => order'[v] = order[v]
         /\ AllRuns' = AllRuns \cup {r} /\ \E n \in Nat : AllRuns' = 1..n
<1>1. PICK n \in Nat : AllRuns = 1..n
  BY DEF RunsNumbered
<1>2. Cardinality(AllRuns) = n
  <2>1. Cardinality(1..n) = n
    BY FS_Interval
  <2> QED
    BY <1>1, <2>1
<1>3. r = n + 1 /\ r \in RunIds
  BY <1>2 DEF WorkerStarts, FreshRuns, AllRuns
<1>4. r \notin AllRuns
  BY <1>1, <1>3
<1>5. r # NoRun
  BY <1>3, ClusterAssumption
<1>6. order' \in [Workers -> Seq(RunIds)] /\ order'[w] = Append(order[w], r)
      /\ \A v \in Workers : v # w => order'[v] = order[v]
  BY <1>3 DEF ClusterTypeOK, WorkerStarts
<1>7. Range(order'[w]) = Range(order[w]) \cup {r}
  <2> DEFINE s == order[w]
             t == order'[w]
  <2>1. s \in Seq(RunIds) /\ t = Append(s, r)
    BY <1>6 DEF ClusterTypeOK
  <2> HIDE DEF s, t
  <2>2. /\ DOMAIN s = 1..Len(s) /\ DOMAIN t = 1..(Len(s) + 1) /\ Len(s) \in Nat
        /\ t[Len(s) + 1] = r /\ \A i \in 1..Len(s) : t[i] = s[i]
    BY <2>1, <1>3
  <2>3. \A i : i \in DOMAIN t <=> i \in DOMAIN s \/ i = Len(s) + 1
    BY <2>2
  <2>4. {t[i] : i \in DOMAIN t} = {s[i] : i \in DOMAIN s} \cup {r}
    BY <2>2, <2>3
  <2> QED
    BY <2>4 DEF Range, s, t
<1>8. AllRuns' = AllRuns \cup {r}
  BY <1>6, <1>7 DEF AllRuns
<1>9. AllRuns' = 1..(n + 1)
  BY <1>1, <1>3, <1>8
<1> QED
  BY <1>3, <1>4, <1>5, <1>6, <1>7, <1>8, <1>9

(* A step of the master that starts no run on a worker: it gives up no run *)
(* it holds, unless the run was told to stop or the call failed.           *)
LEMMA MasterStep ==
  ASSUME ClusterInv, NEW h \in Handlers, NEW t \in CallLocals, request' = [request EXCEPT ![h] = t],
         UNCHANGED <<order, active, foreign>>, clock' \in Nat,
         late' \in [Workers -> Nat], LateTroubled',
         stopping \subseteq stopping', stopping' \subseteq active, trouble \subseteq trouble',
         coord' \in [active : BOOLEAN, id : Nat, runs : RunLists],
         \A w \in Workers : t.runs[w] \in Range(order[w]) \cup {NoRun},
         \A w \in Workers : coord'.runs[w] \in Range(order[w]) \cup {NoRun},
         StartsAhead(t), StopsBehind(t)', overlapped => overlapped',
         ~overlapped' => \A w \in Workers \ trouble' : \A r \in ActiveOn(w) \ (stopping' \cup foreign) :
             (coord.active /\ coord.runs[w] = r) \/ Holds(request[h], w, r) =>
                 (coord'.active /\ coord'.runs[w] = r) \/ Holds(t, w, r)
  PROVE  ClusterInv'
<1>0. /\ ClusterTypeOK /\ RunsNumbered /\ RunsOwn /\ LateTroubled /\ NoStrayRun
      /\ \A g \in Handlers : StartsAhead(request[g]) /\ StopsBehind(request[g])
  BY DEF ClusterInv
<1>1. request' \in [Handlers -> CallLocals] /\ request'[h] = t
      /\ \A g \in Handlers \ {h} : request'[g] = request[g]
  BY <1>0 DEF ClusterTypeOK
<1>2. ClusterTypeOK'
  BY <1>0, <1>1 DEF ClusterTypeOK
<1>3. RunsNumbered'
  <2>1. AllRuns' = AllRuns
    BY DEF AllRuns
  <2> QED
    BY <1>0, <2>1 DEF RunsNumbered
<1>4. RunsOwn'
  BY <1>0, <1>1 DEF RunsOwn
<1>5. \A g \in Handlers : StartsAhead(request'[g])
  BY <1>0, <1>1
<1>6. ASSUME NEW g \in Handlers PROVE StopsBehind(request[g])'
  <2>1. CASE g = h
    BY <1>1, <2>1 DEF StopsBehind
  <2>2. CASE g # h
    <3>1. StopsBehind(request[g]) /\ request'[g] = request[g]
      BY <1>0, <1>1, <2>2
    <3> QED
      BY <3>1 DEF StopsBehind
  <2> QED
    BY <2>1, <2>2
<1>7. NoStrayRun'
  <2> SUFFICES ASSUME ~overlapped', NEW w \in Workers \ trouble',
                      NEW r \in ActiveOn(w)' \ (stopping' \cup foreign')
               PROVE  InHand(w, r)'
    BY DEF NoStrayRun
  <2>1. r \in ActiveOn(w) \ (stopping' \cup foreign)
    BY DEF ActiveOn
  <2>2. InHand(w, r)
    BY <1>0, <2>1 DEF NoStrayRun
  <2>3. \/ coord.active /\ coord.runs[w] = r
        \/ Holds(request[h], w, r)
        \/ \E g \in Handlers \ {h} : Holds(request[g], w, r)
    BY <2>2, InHandIs
  <2>4. \/ coord'.active /\ coord'.runs[w] = r
        \/ Holds(t, w, r)
        \/ \E g \in Handlers \ {h} : Holds(request[g], w, r)
    BY <2>1, <2>3
  <2> QED
    BY <1>1, <2>4, InHandIs
<1> QED
  BY <1>2, <1>3, <1>4, <1>5, <1>6, <1>7 DEF ClusterInv, StartsAhead

(* A run starts on a worker: on behalf of a request, which holds it, of    *)
(* another operator, or late, on a worker a call to which failed.          *)
LEMMA StartStep ==
  ASSUME ClusterInv, NEW w \in Workers, NEW r, WorkerStarts(w, r),
         UNCHANGED <<coord, stopping, trouble, overlapped, clock>>,
         late' \in [Workers -> Nat], LateTroubled',
         request' \in [Handlers -> CallLocals], foreign \subseteq foreign',
         \A h \in Handlers : \/ request'[h] = request[h]
                             \/ /\ request[h].pc = "start" /\ request'[h].pc = "start"
                                /\ request[h].runs[w] = NoRun /\ request'[h].runs[w] = r
                                /\ w \notin request'[h].todo
                                /\ request'[h].todo \subseteq request[h].todo
                                /\ \A v \in Workers : v # w => request'[h].runs[v] = request[h].runs[v],
         r \in foreign' \/ w \in trouble \/ \E h \in Handlers : Holds(request'[h], w, r)
  PROVE  ClusterInv'
<1>0. /\ ClusterTypeOK /\ RunsNumbered /\ RunsOwn /\ LateTroubled /\ NoStrayRun
      /\ \A g \in Handlers : StartsAhead(request[g]) /\ StopsBehind(request[g])
  BY DEF ClusterInv
<1>1. /\ r \in RunIds /\ r \notin AllRuns /\ r # NoRun
      /\ order' \in [Workers -> Seq(RunIds)]
      /\ Range(order'[w]) = Range(order[w]) \cup {r}
      /\ \A v \in Workers : v # w => order'[v] = order[v]
      /\ AllRuns' = AllRuns \cup {r} /\ \E n \in Nat : AllRuns' = 1..n
  BY <1>0, FreshEffect
<1>2. active' = active \cup {r}
  BY DEF WorkerStarts
<1>3. ClusterTypeOK'
  BY <1>0, <1>1 DEF ClusterTypeOK
<1>4. RunsNumbered'
  BY <1>0, <1>1, <1>2 DEF RunsNumbered
<1>5. \A v \in Workers : Range(order[v]) \subseteq Range(order'[v]) /\ Range(order[v]) \subseteq AllRuns
  BY <1>1 DEF AllRuns
<1>6. RunsOwn'
  <2>1. ASSUME NEW v \in Workers, NEW h \in Handlers
        PROVE  request'[h].runs[v] \in Range(order'[v]) \cup {NoRun}
    <3>1. request'[h].runs[v] = request[h].runs[v] \/ (v = w /\ request'[h].runs[v] = r)
      OBVIOUS
    <3> QED
      BY <1>0, <1>1, <1>5, <3>1 DEF RunsOwn
  <2>2. \A v \in Workers : coord'.runs[v] \in Range(order'[v]) \cup {NoRun}
    BY <1>0, <1>5 DEF RunsOwn
  <2> QED
    BY <2>1, <2>2 DEF RunsOwn
<1>7. ASSUME NEW h \in Handlers PROVE StartsAhead(request'[h])
  <2>1. request'[h].todo \subseteq Workers
    BY DEF CallLocals
  <2> QED
    BY <1>0, <2>1 DEF StartsAhead
<1>8. ASSUME NEW h \in Handlers PROVE StopsBehind(request[h])'
  <2> SUFFICES ASSUME request'[h].pc = "stop", NEW v \in Workers \ (request'[h].todo \cup trouble),
                      request'[h].runs[v] \in active'
               PROVE  request'[h].runs[v] \in stopping
    BY DEF StopsBehind
  <2>1. request'[h] = request[h]
    OBVIOUS
  <2>2. request[h].runs[v] \in AllRuns \cup {NoRun}
    BY <1>0, <1>5 DEF RunsOwn
  <2>3. request[h].runs[v] \in active
    BY <1>1, <1>2, <2>1, <2>2
  <2> QED
    BY <1>0, <2>1, <2>3 DEF StopsBehind
<1>9. NoStrayRun'
  <2> SUFFICES ASSUME ~overlapped, NEW v \in Workers \ trouble,
                      NEW x \in ActiveOn(v)' \ (stopping \cup foreign')
               PROVE  InHand(v, x)'
    BY DEF NoStrayRun
  <2>1. CASE x = r
    <3>1. v = w
      BY <1>1, <1>5, <2>1 DEF ActiveOn
    <3> QED
      BY <2>1, <3>1, InHandIs
  <2>2. CASE x # r
    <3>1. x \in ActiveOn(v) \ (stopping \cup foreign)
      BY <1>1, <1>2, <2>2 DEF ActiveOn
    <3>2. InHand(v, x)
      BY <1>0, <3>1 DEF NoStrayRun
    <3>3. x # NoRun
      BY <1>0, <3>1, ClusterAssumption DEF RunsNumbered, ActiveOn, AllRuns, ClusterTypeOK, Range
    <3>4. ASSUME NEW h \in Handlers, Holds(request[h], v, x) PROVE Holds(request'[h], v, x)
      BY <3>3, <3>4 DEF Holds
    <3> QED
      BY <3>2, <3>4, InHandIs
  <2> QED
    BY <2>1, <2>2
<1> QED
  BY <1>3, <1>4, <1>6, <1>7, <1>8, <1>9 DEF ClusterInv, StartsAhead

(* A request that knows nothing, and one that takes the recorded runs.     *)
LEMMA AnsweredFacts ==
  /\ Answered \in CallLocals /\ Answered.pc = "none" /\ Answered.runs = NoRuns /\ Answered.todo = {}
  /\ NoRuns \in RunLists /\ \A w \in Workers : NoRuns[w] = NoRun
<1>1. NoRuns \in RunLists /\ \A w \in Workers : NoRuns[w] = NoRun
  BY DEF NoRuns, RunLists, MaybeRun
<1> QED
  BY <1>1 DEF Answered, CallLocals

(* A request takes up something, or gives up what it does not hold, while  *)
(* the record, the workers and the clock stay.                             *)
LEMMA TakesUp ==
  ASSUME ClusterInv, NEW h \in Handlers, NEW t \in CallLocals, request' = [request EXCEPT ![h] = t],
         UNCHANGED <<coord, workerVars, clock, historyVars>>,
         \/ request[h].pc \notin {"start", "rollback", "stop"}
         \/ request[h].pc \in {"rollback", "stop"} /\ request[h].todo = {},
         t.runs = NoRuns \/ t.runs = coord.runs \/ t.runs = request[h].runs,
         t.pc = "start" => t.runs = NoRuns,
         t.pc = "stop" => t.todo = Members(t.runs)
  PROVE  ClusterInv'
<1>0. /\ ClusterTypeOK /\ RunsNumbered /\ RunsOwn /\ LateTroubled
  BY DEF ClusterInv
<1>1. t.todo \subseteq Workers /\ t.runs \in RunLists
  BY DEF CallLocals
<1>2. StartsAhead(t)
  BY <1>1, AnsweredFacts DEF StartsAhead
<1>3. NoRun \notin active
  BY <1>0, ClusterAssumption DEF RunsNumbered, AllRuns, ClusterTypeOK, Range
<1>4. StopsBehind(t)'
  <2> SUFFICES ASSUME t.pc = "stop", NEW w \in Workers \ t.todo PROVE t.runs[w] \notin active
    BY DEF StopsBehind, workerVars
  <2>1. t.runs[w] = NoRun
    BY DEF Members
  <2> QED
    BY <1>3, <2>1
<1>5. \A w \in Workers : t.runs[w] \in Range(order[w]) \cup {NoRun}
  BY <1>0, AnsweredFacts DEF RunsOwn
<1>6. \A w, r : ~Holds(request[h], w, r)
  BY DEF Holds
<1>7. /\ late' \in [Workers -> Nat] /\ LateTroubled' /\ clock' \in Nat /\ stopping' = stopping
      /\ trouble' = trouble /\ overlapped' = overlapped /\ coord' = coord
      /\ UNCHANGED <<order, active, foreign>>
  BY <1>0 DEF ClusterTypeOK, LateTroubled, workerVars, historyVars
<1>8. /\ stopping' \subseteq active /\ coord' \in [active : BOOLEAN, id : Nat, runs : RunLists]
      /\ \A w \in Workers : coord'.runs[w] \in Range(order[w]) \cup {NoRun}
  BY <1>0, <1>7 DEF RunsNumbered, ClusterTypeOK, RunsOwn
<1> QED
  BY <1>2, <1>4, <1>5, <1>6, <1>7, <1>8, MasterStep

(* The first steps of the handlers, and the ends that hold nothing.        *)
LEMMA TakesUpSteps ==
  ASSUME ClusterInv, NEW h \in Handlers,
         \/ StartCheck(h) \/ StopCheck(h) \/ StatusRead(h) \/ StartFailed(h)
         \/ ArchiveRead(h) \/ ArchiveSeal(h)
  PROVE  ClusterInv'
<1>0. coord.runs \in RunLists /\ coord.id \in Nat
  BY DEF ClusterInv, ClusterTypeOK
<1>1. \A runs : Members(runs) \subseteq Workers
  BY DEF Members
<1>2. CASE StartCheck(h)
  <2>1. PICK ws \in SUBSET Workers :
           /\ request' = [request EXCEPT ![h] = [Answered EXCEPT !.pc = "start", !.todo = ws]]
           /\ request[h].pc = "none" /\ UNCHANGED <<coord, workerVars, clock, historyVars>>
    BY <1>2 DEF StartCheck
  <2> DEFINE t == [Answered EXCEPT !.pc = "start", !.todo = ws]
  <2>2. t \in CallLocals /\ t.pc = "start" /\ t.runs = NoRuns
    BY <2>1, AnsweredFacts DEF CallLocals
  <2> HIDE DEF t
  <2> QED
    BY <2>1, <2>2, TakesUp DEF t
<1>3. CASE StopCheck(h)
  <2> DEFINE t == IF coord.active
                  THEN [Answered EXCEPT !.pc = "stop", !.runs = coord.runs, !.todo = Members(coord.runs)]
                  ELSE [Answered EXCEPT !.pc = "read"]
  <2>1. /\ request' = [request EXCEPT ![h] = t] /\ request[h].pc = "none"
        /\ UNCHANGED <<coord, workerVars, clock, historyVars>>
    BY <1>3 DEF StopCheck
  <2>2. /\ t \in CallLocals /\ t.runs \in {NoRuns, coord.runs} /\ t.pc # "start"
        /\ t.pc = "stop" => t.todo = Members(t.runs)
    BY <1>0, <1>1, AnsweredFacts DEF CallLocals
  <2> HIDE DEF t
  <2> QED
    BY <2>1, <2>2, TakesUp
<1>4. CASE StatusRead(h)
  <2> DEFINE t == [Answered EXCEPT !.pc = "status", !.runs = coord.runs]
  <2>1. /\ request' = [request EXCEPT ![h] = t] /\ request[h].pc = "none"
        /\ UNCHANGED <<coord, workerVars, clock, historyVars>>
    BY <1>4 DEF StatusRead
  <2>2. t \in CallLocals /\ t.runs = coord.runs /\ t.pc = "status"
    BY <1>0, AnsweredFacts DEF CallLocals
  <2> HIDE DEF t
  <2> QED
    BY <2>1, <2>2, TakesUp
<1>5. CASE StartFailed(h)
  <2>1. /\ request' = [request EXCEPT ![h] = Answered]
        /\ request[h].pc = "rollback" /\ request[h].todo = {}
        /\ UNCHANGED <<coord, workerVars, clock, historyVars>>
    BY <1>5 DEF StartFailed
  <2> QED
    BY <2>1, AnsweredFacts, TakesUp
<1>6. CASE ArchiveRead(h)
  <2> DEFINE t == IF Members(coord.runs) = {} THEN Answered
                  ELSE [Answered EXCEPT !.pc = "archive", !.runs = coord.runs, !.id = coord.id,
                                        !.todo = Members(coord.runs)]
  <2>1. /\ request' = [request EXCEPT ![h] = t] /\ request[h].pc = "read"
        /\ UNCHANGED <<coord, workerVars, clock, historyVars>>
    BY <1>6 DEF ArchiveRead
  <2>2. /\ t \in CallLocals /\ t.runs \in {NoRuns, coord.runs} /\ t.pc \notin {"start", "stop"}
    BY <1>0, <1>1, AnsweredFacts DEF CallLocals
  <2> HIDE DEF t
  <2> QED
    BY <2>1, <2>2, TakesUp
<1>7. CASE ArchiveSeal(h)
  <2>1. /\ request' = [request EXCEPT ![h] = Answered] /\ request[h].pc = "archive"
        /\ UNCHANGED <<coord, workerVars, clock, historyVars>>
    BY <1>7 DEF ArchiveSeal
  <2> QED
    BY <2>1, AnsweredFacts, TakesUp
<1> QED
  BY <1>2, <1>3, <1>4, <1>5, <1>6, <1>7

(* The archive asks one worker for its contribution.                       *)
LEMMA ArchiveWorkerStep ==
  ASSUME ClusterInv, NEW h \in Handlers, ArchiveWorker(h)
  PROVE  ClusterInv'
<1>0. ClusterTypeOK /\ request[h] \in CallLocals
  BY DEF ClusterInv, ClusterTypeOK
<1>1. /\ request[h].pc = "archive" /\ request[h].todo # {}
      /\ UNCHANGED <<coord, workerVars, clock, historyVars>>
  BY DEF ArchiveWorker
<1> DEFINE w == Min(request[h].todo)
           r == request[h].runs[w]
<1>2. w \in Workers
  <2>1. request[h].todo \in SUBSET Workers
    BY <1>0 DEF CallLocals
  <2> QED
    BY <1>1, <2>1, MinWorker
<1>3. r \in MaybeRun
  BY <1>0, <1>2 DEF CallLocals, RunLists
<1>4. PickByRun(w, r) \in MaybeRun /\ NoRun \in MaybeRun
  BY <1>3 DEF PickByRun, MaybeRun
<1>5. PickForCsv(w, r) \in MaybeRun
  <2>1. order[w] \in Seq(RunIds)
    BY <1>0, <1>2 DEF ClusterTypeOK
  <2>2. order[w] # <<>> => Last(order[w]) \in RunIds
    BY <2>1 DEF Last
  <2> QED
    BY <2>2 DEF PickForCsv, Latest, MaybeRun
<1>6. PICK meta \in MaybeRun, csv \in MaybeRun :
         request' = [request EXCEPT ![h].todo = @ \ {w},
                       ![h].report = @ \cup {[worker |-> w, run |-> r, meta |-> meta, csv |-> csv]}]
  BY <1>4, <1>5 DEF ArchiveWorker
<1> DEFINE e == [worker |-> w, run |-> r, meta |-> meta, csv |-> csv]
           t == [request[h] EXCEPT !.todo = @ \ {w}, !.report = @ \cup {e}]
<1>7. e \in Entries
  BY <1>2, <1>3, <1>6 DEF Entries
<1>8. request' = [request EXCEPT ![h] = t]
  BY <1>6
<1> HIDE DEF w, r, e
<1>9. t \in CallLocals /\ t.pc = request[h].pc /\ t.runs = request[h].runs
  BY <1>0, <1>7 DEF CallLocals
<1> HIDE DEF t
<1> QED
  BY <1>1, <1>8, <1>9, TakesUp

(* A call to a worker's /api/stop: whichever way it goes, what runs on the *)
(* worker was told to stop or the worker is on record.                     *)
LEMMA StopCall ==
  ASSUME RunsNumbered, NEW w, StopAnswered(w) \/ StopRefused(w) \/ StopLost(w)
  PROVE  /\ stopping \subseteq stopping' /\ stopping' \subseteq active /\ trouble \subseteq trouble'
         /\ w \in trouble' \/ ActiveOn(w) \subseteq stopping'
<1>1. ActiveOn(w) \subseteq active /\ stopping \subseteq active
  BY DEF ActiveOn, RunsNumbered
<1>2. CASE StopAnswered(w)
  BY <1>1, <1>2 DEF StopAnswered, WorkerStops
<1>3. CASE StopRefused(w)
  BY <1>1, <1>3 DEF StopRefused
<1>4. CASE StopLost(w)
  BY <1>1, <1>4 DEF StopLost, WorkerStops
<1> QED
  BY <1>2, <1>3, <1>4

(* A rollback or a stop calls one worker.                                  *)
LEMMA StopSteps ==
  ASSUME ClusterInv, NEW h \in Handlers, RollBackWorker(h) \/ StopWorker(h)
  PROVE  ClusterInv'
<1> DEFINE q == request[h]
           w == Min(q.todo)
<1>0. /\ ClusterTypeOK /\ RunsNumbered /\ RunsOwn /\ LateTroubled /\ StopsBehind(q) /\ q \in CallLocals
  BY DEF ClusterInv, ClusterTypeOK
<1>1. /\ q.pc \in {"rollback", "stop"} /\ q.todo # {}
      /\ StopAnswered(w) \/ StopRefused(w) \/ StopLost(w)
      /\ UNCHANGED <<coord, order, active, late, foreign, clock, overlapped>>
  BY DEF RollBackWorker, StopWorker
<1>2. w \in Workers /\ w \in q.todo
  <2>1. q.todo \in SUBSET Workers
    BY <1>0 DEF CallLocals
  <2> QED
    BY <1>1, <2>1, MinWorker
<1>3. /\ stopping \subseteq stopping' /\ stopping' \subseteq active /\ trouble \subseteq trouble'
      /\ w \in trouble' \/ ActiveOn(w) \subseteq stopping'
  BY <1>0, <1>1, StopCall
<1>4. PICK b \in BOOLEAN : request' = [request EXCEPT ![h] = [q EXCEPT !.todo = @ \ {w}, !.failed = b]]
  <2>1. q.failed \in BOOLEAN /\ q = [q EXCEPT !.failed = q.failed]
    BY <1>0 DEF CallLocals
  <2>2. CASE request' = [request EXCEPT ![h].todo = @ \ {w}]
    <3>1. request' = [request EXCEPT ![h] = [q EXCEPT !.todo = @ \ {w}]]
      BY <2>2
    <3>2. [q EXCEPT !.todo = @ \ {w}] = [q EXCEPT !.todo = @ \ {w}, !.failed = q.failed]
      BY <1>0 DEF CallLocals
    <3> QED
      BY <2>1, <3>1, <3>2
  <2>3. CASE request' = [request EXCEPT ![h].todo = @ \ {w}, ![h].failed = TRUE]
    BY <2>3
  <2> QED
    BY <2>2, <2>3 DEF RollBackWorker, StopWorker
<1> HIDE DEF w
<1>5. [q EXCEPT !.todo = @ \ {w}, !.failed = b] \in CallLocals
  BY <1>0, <1>4 DEF CallLocals
<1>6. PICK t \in CallLocals : /\ request' = [request EXCEPT ![h] = t]
                              /\ t.pc = q.pc /\ t.runs = q.runs /\ t.todo = q.todo \ {w}
  BY <1>0, <1>4, <1>5 DEF CallLocals
<1>7. \A v \in Workers : q.runs[v] \in active => q.runs[v] \in ActiveOn(v)
  <2>1. NoRun \notin active
    BY <1>0, ClusterAssumption DEF RunsNumbered, AllRuns, ClusterTypeOK, Range
  <2> QED
    BY <1>0, <2>1 DEF RunsOwn, ActiveOn
<1>8. StopsBehind(t)'
  <2> SUFFICES ASSUME q.pc = "stop", NEW v \in Workers, v \notin q.todo \ {w}, v \notin trouble',
                      q.runs[v] \in active
               PROVE  q.runs[v] \in stopping'
    BY <1>1, <1>6 DEF StopsBehind
  <2> QED
    BY <1>0, <1>3, <1>7 DEF StopsBehind
<1>9. StartsAhead(t)
  BY <1>1, <1>6 DEF StartsAhead
<1>10. \A v \in Workers \ trouble' : \A r \in ActiveOn(v) \ (stopping' \cup foreign) :
          Holds(q, v, r) => Holds(t, v, r)
  BY <1>1, <1>3, <1>6 DEF Holds
<1>11. /\ late' \in [Workers -> Nat] /\ LateTroubled' /\ clock' \in Nat
       /\ coord' \in [active : BOOLEAN, id : Nat, runs : RunLists]
  BY <1>0, <1>1, <1>3 DEF ClusterTypeOK, LateTroubled
<1>12. \A v \in Workers : /\ t.runs[v] \in Range(order[v]) \cup {NoRun}
                          /\ coord'.runs[v] \in Range(order[v]) \cup {NoRun}
  BY <1>0, <1>1, <1>6 DEF RunsOwn
<1> QED
  BY <1>1, <1>3, <1>6, <1>8, <1>9, <1>10, <1>11, <1>12, MasterStep

(* A start calls one worker: it holds the run, or rolls back all others.   *)
LEMMA StartWorkerStep ==
  ASSUME ClusterInv, NEW h \in Handlers, StartWorker(h)
  PROVE  ClusterInv'
<1> DEFINE q == request[h]
           w == Min(q.todo)
<1>0. /\ ClusterTypeOK /\ RunsNumbered /\ RunsOwn /\ LateTroubled /\ StartsAhead(q) /\ q \in CallLocals
  BY DEF ClusterInv, ClusterTypeOK
<1>1. q.pc = "start" /\ q.todo # {} /\ UNCHANGED <<coord, stopping, foreign, clock, overlapped>>
  BY DEF StartWorker
<1>2. w \in Workers /\ w \in q.todo /\ q.runs[w] = NoRun
  <2>1. q.todo \in SUBSET Workers
    BY <1>0 DEF CallLocals
  <2>2. w \in q.todo /\ w \in Workers
    BY <1>1, <2>1, MinWorker
  <2> QED
    BY <1>0, <1>1, <2>2 DEF StartsAhead
<1>3. CASE /\ \E r \in FreshRuns :
                 /\ WorkerStarts(w, r)
                 /\ request' = [request EXCEPT ![h].runs[w] = r, ![h].todo = @ \ {w}]
           /\ UNCHANGED <<late, trouble>>
  <2>1. PICK r \in FreshRuns :
           /\ WorkerStarts(w, r)
           /\ request' = [request EXCEPT ![h].runs[w] = r, ![h].todo = @ \ {w}]
    BY <1>3
  <2> HIDE DEF w
  <2> DEFINE runs == [q.runs EXCEPT ![w] = r]
             t == [q EXCEPT !.runs = runs, !.todo = @ \ {w}]
  <2>2. request' = [request EXCEPT ![h] = t]
    BY <2>1
  <2>3. runs \in RunLists /\ runs[w] = r /\ \A v \in Workers : v # w => runs[v] = q.runs[v]
    <3>1. r \in MaybeRun /\ q.runs \in RunLists
      BY <1>0 DEF FreshRuns, MaybeRun, CallLocals
    <3> QED
      BY <1>2, <3>1 DEF RunLists
  <2> HIDE DEF runs
  <2>4. t \in CallLocals /\ t.pc = q.pc /\ t.runs = runs /\ t.todo = q.todo \ {w}
    BY <1>0, <2>3 DEF CallLocals
  <2> HIDE DEF t
  <2>5. request' \in [Handlers -> CallLocals] /\ request'[h] = t
        /\ \A g \in Handlers \ {h} : request'[g] = request[g]
    BY <1>0, <2>2, <2>4 DEF ClusterTypeOK
  <2>6. late' \in [Workers -> Nat] /\ LateTroubled' /\ foreign \subseteq foreign'
    BY <1>0, <1>1, <1>3 DEF ClusterTypeOK, LateTroubled
  <2>7. Holds(request'[h], w, r)
    BY <1>1, <2>3, <2>4, <2>5 DEF Holds
  <2>8. \A g \in Handlers : \/ request'[g] = request[g]
                            \/ /\ request[g].pc = "start" /\ request'[g].pc = "start"
                               /\ request[g].runs[w] = NoRun /\ request'[g].runs[w] = r
                               /\ w \notin request'[g].todo
                               /\ request'[g].todo \subseteq request[g].todo
                               /\ \A v \in Workers : v # w => request'[g].runs[v] = request[g].runs[v]
    BY <1>1, <1>2, <2>3, <2>4, <2>5
  <2> QED
    BY <1>1, <1>2, <1>3, <2>1, <2>5, <2>6, <2>7, <2>8, StartStep
<1>4. ASSUME RollBack(h, w), late' \in [Workers -> Nat], LateTroubled', trouble \subseteq trouble',
             UNCHANGED <<order, active>>
      PROVE  ClusterInv'
  <2> HIDE DEF w
  <2> DEFINE T == Members(q.runs) \ {w}
             t0 == [q EXCEPT !.pc = "rollback", !.todo = T]
  <2>1. T \in SUBSET Workers
    BY DEF Members
  <2>2. request' = [request EXCEPT ![h] = t0]
    BY <1>4 DEF RollBack
  <2>3. \A v \in Workers : q.runs[v] # NoRun => v \in T
    BY <1>2 DEF Members
  <2> HIDE DEF T
  <2>4. t0 \in CallLocals /\ t0.pc = "rollback" /\ t0.runs = q.runs /\ t0.todo = T
    BY <1>0, <2>1 DEF CallLocals
  <2>5. PICK t \in CallLocals : /\ request' = [request EXCEPT ![h] = t]
                                /\ t.pc = "rollback" /\ t.runs = q.runs /\ t.todo = T
    BY <2>2, <2>4
  <2>6. NoRun \notin active
    BY <1>0, ClusterAssumption DEF RunsNumbered, AllRuns, ClusterTypeOK, Range
  <2>7. \A v \in Workers : \A r \in ActiveOn(v) : Holds(q, v, r) => Holds(t, v, r)
    BY <2>3, <2>5, <2>6 DEF Holds, ActiveOn
  <2>8. StartsAhead(t) /\ StopsBehind(t)'
    BY <2>5 DEF StartsAhead, StopsBehind
  <2>9. /\ clock' \in Nat /\ coord' \in [active : BOOLEAN, id : Nat, runs : RunLists]
        /\ stopping \subseteq stopping' /\ stopping' \subseteq active
        /\ \A v \in Workers : /\ t.runs[v] \in Range(order[v]) \cup {NoRun}
                              /\ coord'.runs[v] \in Range(order[v]) \cup {NoRun}
    BY <1>0, <1>1, <2>5 DEF ClusterTypeOK, RunsNumbered, RunsOwn
  <2> QED
    BY <1>1, <1>4, <2>5, <2>7, <2>8, <2>9, MasterStep
<1>5. CASE RollBack(h, w) /\ UNCHANGED <<order, active, late, trouble>>
  <2>1. late' \in [Workers -> Nat] /\ LateTroubled' /\ trouble \subseteq trouble'
    BY <1>0, <1>5 DEF ClusterTypeOK, LateTroubled
  <2> QED
    BY <1>4, <1>5, <2>1
<1>6. CASE /\ RollBack(h, w) /\ late' = [late EXCEPT ![w] = @ + 1] /\ trouble' = trouble \cup {w}
           /\ UNCHANGED <<order, active>>
  <2> HIDE DEF w
  <2>1. late' \in [Workers -> Nat] /\ \A v \in Workers : v # w => late'[v] = late[v]
    BY <1>0, <1>2, <1>6 DEF ClusterTypeOK
  <2>2. LateTroubled'
    BY <1>0, <1>6, <2>1 DEF LateTroubled
  <2> QED
    BY <1>4, <1>6, <2>1, <2>2 DEF w
<1> QED
  BY <1>3, <1>5, <1>6 DEF StartWorker

(* The record changes: a start or a stop commits, a status is stored.      *)
LEMMA RecordSteps ==
  ASSUME ClusterInv, NEW h \in Handlers, StartCommit(h) \/ StopCommit(h) \/ StatusStore(h)
  PROVE  ClusterInv'
<1> DEFINE q == request[h]
<1>0. /\ ClusterTypeOK /\ RunsNumbered /\ RunsOwn /\ LateTroubled /\ StopsBehind(q) /\ q \in CallLocals
      /\ q.runs \in RunLists /\ coord \in [active : BOOLEAN, id : Nat, runs : RunLists] /\ clock \in Nat
  BY DEF ClusterInv, ClusterTypeOK, CallLocals
<1>1. UNCHANGED <<workerVars, clock, trouble>>
  BY DEF StartCommit, StopCommit, StatusStore
<1>2. /\ order' = order /\ active' = active /\ foreign' = foreign /\ clock' \in Nat
      /\ stopping' = stopping /\ stopping' \subseteq active /\ trouble' = trouble
      /\ late' \in [Workers -> Nat] /\ LateTroubled'
  BY <1>0, <1>1 DEF workerVars, RunsNumbered, ClusterTypeOK, LateTroubled
<1>3. ASSUME NEW t \in CallLocals, request' = [request EXCEPT ![h] = t], t.runs = NoRuns,
             t.pc \in {"none", "read"}, overlapped => overlapped',
             coord' \in [active : BOOLEAN, id : Nat, runs : RunLists],
             coord'.runs \in {q.runs, coord.runs},
             ~overlapped' => \A w \in Workers \ trouble : \A r \in ActiveOn(w) \ (stopping \cup foreign) :
                 (coord.active /\ coord.runs[w] = r) \/ Holds(q, w, r) => coord'.active /\ coord'.runs[w] = r
      PROVE  ClusterInv'
  <2>1. StartsAhead(t) /\ StopsBehind(t)'
    BY <1>3 DEF StartsAhead, StopsBehind
  <2>2. \A v \in Workers : /\ t.runs[v] \in Range(order[v]) \cup {NoRun}
                           /\ coord'.runs[v] \in Range(order[v]) \cup {NoRun}
    BY <1>0, <1>3, AnsweredFacts DEF RunsOwn
  <2> QED
    BY <1>2, <1>3, <2>1, <2>2, MasterStep
<1>4. CASE StartCommit(h)
  <2>1. /\ q.pc = "start" /\ coord' = [active |-> TRUE, id |-> clock, runs |-> q.runs]
        /\ request' = [request EXCEPT ![h] = Answered] /\ overlapped' = (overlapped \/ coord.active)
    BY <1>4 DEF StartCommit
  <2>2. /\ coord' \in [active : BOOLEAN, id : Nat, runs : RunLists]
        /\ coord'.active = TRUE /\ coord'.runs = q.runs
    BY <1>0, <2>1
  <2> QED
    BY <1>3, <2>1, <2>2, AnsweredFacts DEF Holds
<1>5. CASE StopCommit(h)
  <2> DEFINE t == IF q.failed THEN Answered ELSE [Answered EXCEPT !.pc = "read"]
  <2>1. /\ q.pc = "stop" /\ q.todo = {} /\ coord' = [coord EXCEPT !.active = FALSE]
        /\ request' = [request EXCEPT ![h] = t]
        /\ overlapped' = (overlapped \/ (coord.active /\ coord.runs # q.runs))
    BY <1>5 DEF StopCommit
  <2>2. t \in CallLocals /\ t.runs = NoRuns /\ t.pc \in {"none", "read"}
    BY AnsweredFacts DEF CallLocals
  <2> HIDE DEF t
  <2>3. /\ coord' \in [active : BOOLEAN, id : Nat, runs : RunLists] /\ coord'.runs = coord.runs
    BY <1>0, <2>1
  <2>4. ASSUME ~overlapped', NEW w \in Workers \ trouble, NEW r \in ActiveOn(w) \ (stopping \cup foreign),
               (coord.active /\ coord.runs[w] = r) \/ Holds(q, w, r)
        PROVE  FALSE
    <3>1. q.runs[w] = r
      BY <2>1, <2>4 DEF Holds
    <3>2. r \in active /\ r \notin stopping
      BY <2>4 DEF ActiveOn
    <3> QED
      BY <1>0, <2>1, <2>4, <3>1, <3>2 DEF StopsBehind
  <2>5. overlapped => overlapped'
    BY <2>1
  <2> QED
    BY <1>3, <2>1, <2>2, <2>3, <2>4, <2>5
<1>6. CASE StatusStore(h)
  <2>1. /\ q.pc = "status" /\ coord' = [coord EXCEPT !.runs = q.runs]
        /\ request' = [request EXCEPT ![h] = Answered]
        /\ overlapped' = (overlapped \/ coord.runs # q.runs)
    BY <1>6 DEF StatusStore
  <2>2. /\ coord' \in [active : BOOLEAN, id : Nat, runs : RunLists]
        /\ coord'.runs = q.runs /\ coord'.active = coord.active
    BY <1>0, <2>1
  <2> QED
    BY <1>3, <2>1, <2>2, AnsweredFacts DEF Holds
<1> QED
  BY <1>4, <1>5, <1>6

(* The workers: other operators' runs, late starts, the end of a run.      *)
LEMMA WorkerSteps ==
  ASSUME ClusterInv,
         \/ \E w \in Workers : ForeignStart(w) \/ LateStart(w)
         \/ \E r \in RunIds : RunEnds(r)
  PROVE  ClusterInv'
<1>0. /\ ClusterTypeOK /\ RunsNumbered /\ RunsOwn /\ LateTroubled /\ NoStrayRun
      /\ \A g \in Handlers : StartsAhead(request[g]) /\ StopsBehind(request[g])
      /\ request \in [Handlers -> CallLocals] /\ late \in [Workers -> Nat]
  BY DEF ClusterInv, ClusterTypeOK
<1>1. ASSUME NEW w \in Workers, ForeignStart(w) PROVE ClusterInv'
  <2>1. PICK r : WorkerStarts(w, r) /\ foreign' = foreign \cup {r}
    BY <1>1 DEF ForeignStart
  <2>2. UNCHANGED <<coord, request, stopping, late, clock, trouble, overlapped>>
    BY <1>1 DEF ForeignStart, historyVars
  <2>3. late' \in [Workers -> Nat] /\ LateTroubled' /\ request' \in [Handlers -> CallLocals]
    BY <1>0, <2>2 DEF LateTroubled
  <2> QED
    BY <2>1, <2>2, <2>3, StartStep
<1>2. ASSUME NEW w \in Workers, LateStart(w) PROVE ClusterInv'
  <2>1. /\ late[w] > 0 /\ late' = [late EXCEPT ![w] = @ - 1]
        /\ UNCHANGED <<coord, request, stopping, clock, foreign, trouble, overlapped>>
    BY <1>2 DEF LateStart, historyVars
  <2>2. late' \in [Workers -> Nat] /\ \A v \in Workers : v # w => late'[v] = late[v]
    BY <1>0, <2>1
  <2>3. LateTroubled' /\ w \in trouble
    BY <1>0, <2>1, <2>2 DEF LateTroubled
  <2>4. ASSUME NEW r, WorkerStarts(w, r) PROVE ClusterInv'
    BY <1>0, <2>1, <2>2, <2>3, <2>4, StartStep
  <2>5. CASE UNCHANGED <<order, active>>
    <3>1. RunsNumbered' /\ RunsOwn' /\ NoStrayRun'
          /\ (\A g \in Handlers : StartsAhead(request[g]) /\ StopsBehind(request[g]))'
      BY <1>0, <2>1, <2>5 DEF RunsNumbered, AllRuns, RunsOwn, NoStrayRun, ActiveOn, InHand, StartsAhead,
                              StopsBehind
    <3>2. ClusterTypeOK'
      BY <1>0, <2>1, <2>2, <2>5 DEF ClusterTypeOK
    <3> QED
      BY <2>3, <3>1, <3>2 DEF ClusterInv
  <2> QED
    BY <1>2, <2>4, <2>5 DEF LateStart
<1>3. ASSUME NEW r \in RunIds, RunEnds(r) PROVE ClusterInv'
  <2>1. /\ active' = active \ {r} /\ stopping' = stopping \ {r}
        /\ UNCHANGED <<coord, request, order, late, clock, foreign, trouble, overlapped>>
    BY <1>3 DEF RunEnds, historyVars
  <2>2. ClusterTypeOK' /\ RunsNumbered' /\ RunsOwn' /\ LateTroubled'
    BY <1>0, <2>1 DEF ClusterTypeOK, RunsNumbered, AllRuns, RunsOwn, LateTroubled
  <2>3. (\A g \in Handlers : StartsAhead(request[g]) /\ StopsBehind(request[g]))'
    BY <1>0, <2>1 DEF StartsAhead, StopsBehind
  <2>4. NoStrayRun'
    BY <1>0, <2>1 DEF NoStrayRun, ActiveOn, InHand
  <2> QED
    BY <2>2, <2>3, <2>4 DEF ClusterInv
<1> QED
  BY <1>1, <1>2, <1>3

(* The master, its record and the workers keep their inductive invariant:  *)
(* what the master records are runs of the workers named, a start holds    *)
(* what it started and a stop is done with whom it called.                 *)
THEOREM ClusterInvariant == ClusterSpec => []ClusterInv
<1>1. ClusterInit => ClusterInv
  <2> SUFFICES ASSUME ClusterInit PROVE ClusterInv
    OBVIOUS
  <2>1. /\ coord = [active |-> FALSE, id |-> 0, runs |-> NoRuns]
        /\ request = [h \in Handlers |-> Answered] /\ order = [w \in Workers |-> <<>>]
        /\ late = [w \in Workers |-> 0] /\ clock = 0 /\ active = {} /\ stopping = {}
    BY DEF ClusterInit
  <2>2. ClusterTypeOK
    BY <2>1, AnsweredFacts DEF ClusterTypeOK
  <2>3. \A w \in Workers : Range(order[w]) = {}
    BY <2>1 DEF Range
  <2>4. RunsNumbered
    <3>1. AllRuns = {}
      BY <2>3 DEF AllRuns
    <3>2. AllRuns = 1..0 /\ 0 \in Nat
      BY <3>1
    <3> QED
      BY <2>1, <3>2 DEF RunsNumbered
  <2>5. RunsOwn /\ LateTroubled
    BY <2>1, AnsweredFacts DEF RunsOwn, LateTroubled
  <2>6. \A h \in Handlers : StartsAhead(request[h]) /\ StopsBehind(request[h])
    BY <2>1, AnsweredFacts DEF StartsAhead, StopsBehind
  <2>7. NoStrayRun
    BY <2>1 DEF NoStrayRun, ActiveOn
  <2> QED
    BY <2>2, <2>4, <2>5, <2>6, <2>7 DEF ClusterInv
<1>2. ClusterInv /\ [ClusterNext]_clusterVars => ClusterInv'
  <2> SUFFICES ASSUME ClusterInv, [ClusterNext]_clusterVars PROVE ClusterInv'
    OBVIOUS
  <2>1. ASSUME NEW h \in Handlers, StartCheck(h) \/ StopCheck(h) \/ StatusRead(h) PROVE ClusterInv'
    BY <2>1, TakesUpSteps
  <2>2. ASSUME NEW h \in Handlers, RequestStep(h) PROVE ClusterInv'
    BY <2>2, TakesUpSteps, ArchiveWorkerStep, StopSteps, StartWorkerStep, RecordSteps DEF RequestStep
  <2>3. CASE \/ \E w \in Workers : ForeignStart(w) \/ LateStart(w)
             \/ \E r \in RunIds : RunEnds(r)
    BY <2>3, WorkerSteps
  <2>4. CASE Tick \/ UNCHANGED clusterVars
    <3>1. /\ UNCHANGED <<coord, request, order, active, stopping, late, foreign, trouble, overlapped>>
          /\ clock \in Nat => clock' \in Nat
      BY <2>4 DEF Tick, clusterVars, workerVars, historyVars
    <3> QED
      BY <3>1 DEF ClusterInv, ClusterTypeOK, RunsNumbered, AllRuns, RunsOwn, LateTroubled, StartsAhead,
                  StopsBehind, NoStrayRun, ActiveOn, InHand
  <2> QED
    BY <2>1, <2>2, <2>3, <2>4 DEF ClusterNext
<1> QED
  BY <1>1, <1>2, PTL DEF ClusterSpec

(* No run is left behind by a start that rolled back or by a stop, for any *)
(* workers and concurrent requests: a worker that fails strands no other.  *)
THEOREM NothingStrays == ClusterSpec => []NoStrayRun
<1>1. ClusterInv => NoStrayRun
  BY DEF ClusterInv
<1> QED
  BY <1>1, ClusterInvariant, PTL
=============================================================================
