---------------------------- MODULE StoresProofs ----------------------------
(***************************************************************************)
(* The stores the servers keep on behalf of others, proved for any number  *)
(* of concurrent requests: the alerts configuration and its dispatchers,   *)
(* the sessions of threaddump-analyzer, the vault, and the file system of  *)
(* the mock servers.                                                       *)
(***************************************************************************)
EXTENDS Alerts, DumpSession, Vault, MockServer, FiniteSetTheorems, TLAPS

-----------------------------------------------------------------------------
(* Alerts: saves of the configuration, and dispatchers.                    *)

PostLocals ==
    [pc : {"idle", "copy", "open", "write", "rename", "answered"}, cfg : AlertConfigs,
     ino : Posts \cup {NoFile}]

AlertsTypeOK ==
    /\ alertsCfg \in AlertConfigs /\ settled \in AlertConfigs
    /\ inode \in [Posts -> AlertConfigs \cup {Truncated}]
    /\ alertsFile \in Posts \cup {NoFile} /\ alertsTmp \in Posts \cup {NoFile}
    /\ post \in [Posts -> PostLocals]

(* Without overlap one save is under way; what it writes and renames is    *)
(* the temporary file, which is not the file alerts.json names.            *)
OneSaver ==
    /\ \A p, q \in Posts : p # q => ~SaveUnderWay(p) \/ ~SaveUnderWay(q)
    /\ \A p \in Posts : PostAt(p, "write") => post[p].ino = alertsTmp /\ alertsTmp # NoFile
    /\ \A p \in Posts : PostAt(p, "rename") => alertsTmp # NoFile /\ inode[alertsTmp] = post[p].cfg
    /\ alertsFile # NoFile => alertsFile # alertsTmp /\ PostAt(alertsFile, "answered")
    /\ alertsTmp # NoFile => post[alertsTmp].pc \in {"write", "rename", "answered"}

(* The file holds what was last settled; without a file nothing was.       *)
FileSettled == settled = IF alertsFile = NoFile THEN Disabled ELSE inode[alertsFile]

SavesInv == AlertsTypeOK /\ (~savesOverlap => OneSaver /\ FileSettled)

JobLocals ==
    [pc : {"running", "decide", "fire", "ended", "lost"}, cfg : AlertConfigs, ev : Events,
     next : 1..4, tried : Seq({"slack", "webhook", "email"})]

(* The channels Fire has been through.                                     *)
Before(n) == {Order[i] : i \in 1..(n - 1)}

(* A dispatcher has tried the set channels among those, each once.         *)
TriedBy(t) ==
    LET due == t.cfg.channels \cap Before(t.next)
    IN  /\ {t.tried[i] : i \in DOMAIN t.tried} = due
        /\ IsFiniteSet(due) /\ Len(t.tried) = Cardinality(due)
        /\ t.pc = "fire" => t.next <= 3
        /\ t.pc \in {"running", "decide"} => t.next = 1
        /\ t.pc = "ended" => t.next \in {1, 4}

TriedSoFar == \A j \in Jobs : TriedBy(job[j])

DispatchInv == AlertsTypeOK /\ job \in [Jobs -> JobLocals] /\ TriedSoFar

(* A configuration is never the cut file.                                  *)
LEMMA ConfigsWhole == Truncated \notin AlertConfigs /\ Disabled \in AlertConfigs
<1>1. Truncated.channels = {"?"} /\ Disabled \in AlertConfigs
  BY DEF Truncated, Disabled, AlertConfigs
<1>2. \A c \in AlertConfigs : "?" \notin c.channels
  BY DEF AlertConfigs
<1> QED
  BY <1>1, <1>2

(* A save's step that leaves the two names alone.                          *)
LEMMA PostKeeps ==
  ASSUME SavesInv, OneSaver, FileSettled, NEW p \in Posts, NEW t \in PostLocals,
         post' = [post EXCEPT ![p] = t], alertsCfg' \in AlertConfigs,
         UNCHANGED <<inode, alertsFile, alertsTmp, settled>>,
         post[p].pc # "answered",
         t.pc \in {"idle", "answered"} \/ \A q \in Posts \ {p} : ~SaveUnderWay(q),
         t.pc \notin {"write", "rename"},
         alertsTmp = p => t.pc = "answered"
  PROVE  AlertsTypeOK' /\ OneSaver' /\ FileSettled'
<1>1. post'[p] = t /\ \A q \in Posts \ {p} : post'[q] = post[q]
  BY DEF SavesInv, AlertsTypeOK
<1>2. AlertsTypeOK' /\ FileSettled'
  BY DEF SavesInv, AlertsTypeOK, FileSettled
<1>3. \A q, r \in Posts : q # r => (~SaveUnderWay(q) \/ ~SaveUnderWay(r))'
  BY <1>1 DEF OneSaver, SaveUnderWay
<1>4. alertsFile # p
  BY AlertsAssumption DEF OneSaver, PostAt
<1>5. OneSaver'
  BY <1>1, <1>3, <1>4 DEF OneSaver, PostAt, SavesInv, AlertsTypeOK
<1> QED
  BY <1>2, <1>5

(* The steps of one save, while no other is under way.                     *)
LEMMA SaveStep ==
  ASSUME SavesInv, OneSaver, FileSettled, NEW p \in Posts, ~savesOverlap',
         \/ \E cfg \in AlertConfigs : PostReplaces(p, cfg)
         \/ SaveCopies(p) \/ OpensTemp(p) \/ WritesTemp(p) \/ RenamesTemp(p) \/ SaveErrors(p)
  PROVE  AlertsTypeOK' /\ OneSaver' /\ FileSettled'
<1> DEFINE NoOther == \A q \in Posts \ {p} : ~SaveUnderWay(q)
<1>0. /\ post[p] \in PostLocals /\ alertsCfg \in AlertConfigs /\ AlertsTypeOK
      /\ NoFile \notin Posts /\ AlertConfigs \subseteq AlertConfigs \cup {Truncated}
  BY AlertsAssumption DEF SavesInv, AlertsTypeOK
<1>1. SaveUnderWay(p) => NoOther
  BY DEF OneSaver
<1>2. ASSUME NEW cfg \in AlertConfigs, PostReplaces(p, cfg)
      PROVE  AlertsTypeOK' /\ OneSaver' /\ FileSettled'
  <2> DEFINE t == [post[p] EXCEPT !.pc = "copy"]
  <2>1. t \in PostLocals /\ t.pc = "copy"
    BY <1>0 DEF PostLocals
  <2>2. /\ post' = [post EXCEPT ![p] = t] /\ alertsCfg' \in AlertConfigs /\ post[p].pc = "idle"
        /\ NoOther /\ UNCHANGED <<inode, alertsFile, alertsTmp, settled>>
    BY <1>2 DEF PostReplaces, PostAt
  <2>3. alertsTmp # p
    BY <1>0, <2>2 DEF OneSaver
  <2> HIDE DEF t
  <2> QED
    BY <2>1, <2>2, <2>3, PostKeeps
<1>3. CASE SaveCopies(p)
  <2> DEFINE t == [post[p] EXCEPT !.pc = "open", !.cfg = alertsCfg]
  <2>1. t \in PostLocals /\ t.pc = "open"
    BY <1>0 DEF PostLocals
  <2>2. /\ post' = [post EXCEPT ![p].pc = "open", ![p].cfg = alertsCfg] /\ post[p].pc = "copy"
        /\ UNCHANGED <<alertsCfg, inode, alertsFile, alertsTmp, settled>>
    BY <1>3 DEF SaveCopies, PostAt
  <2>3. post' = [post EXCEPT ![p] = t]
    BY <2>2
  <2>4. alertsTmp # p
    BY <1>0, <2>2 DEF OneSaver
  <2>5. SaveUnderWay(p)
    BY <2>2 DEF SaveUnderWay
  <2> HIDE DEF t
  <2> QED
    BY <1>0, <1>1, <2>1, <2>2, <2>3, <2>4, <2>5, PostKeeps
<1>4. CASE SaveErrors(p)
  <2> DEFINE t == [post[p] EXCEPT !.pc = "answered"]
  <2>1. t \in PostLocals /\ t.pc = "answered"
    BY <1>0 DEF PostLocals
  <2>2. /\ post' = [post EXCEPT ![p] = t] /\ post[p].pc \in {"open", "write"}
        /\ UNCHANGED <<alertsCfg, inode, alertsFile, alertsTmp, settled>>
    BY <1>4 DEF SaveErrors
  <2> HIDE DEF t
  <2> QED
    BY <1>0, <2>1, <2>2, PostKeeps
<1>5. CASE OpensTemp(p)
  <2> DEFINE ino == IF alertsTmp = NoFile THEN p ELSE alertsTmp
             t == [post[p] EXCEPT !.pc = "write", !.ino = ino]
  <2>0. ino \in Posts
    BY <1>0 DEF AlertsTypeOK
  <2>1. /\ post' = [post EXCEPT ![p].pc = "write", ![p].ino = ino] /\ post[p].pc = "open"
        /\ alertsTmp' = ino /\ inode' = [inode EXCEPT ![ino] = Truncated]
        /\ UNCHANGED <<alertsCfg, alertsFile, settled>>
    BY <1>5 DEF OpensTemp, PostAt
  <2>2. alertsFile # NoFile => alertsFile # ino
    BY <2>1 DEF OneSaver, PostAt
  <2>3. NoOther
    BY <1>1, <2>1 DEF SaveUnderWay
  <2>4. ino # p => post[ino].pc = "answered"
    BY <1>0, <2>0, <2>3 DEF OneSaver, SaveUnderWay, AlertsTypeOK
  <2> HIDE DEF ino
  <2>5. t \in PostLocals /\ t.pc = "write" /\ t.ino = ino
    BY <1>0, <2>0 DEF PostLocals
  <2>6. post' = [post EXCEPT ![p] = t]
    BY <2>1
  <2> HIDE DEF t
  <2>7. post'[p] = t /\ \A q \in Posts \ {p} : post'[q] = post[q]
    BY <1>0, <2>6 DEF AlertsTypeOK
  <2>8. AlertsTypeOK'
    <3>1. inode' \in [Posts -> AlertConfigs \cup {Truncated}]
      BY <1>0, <2>0, <2>1 DEF AlertsTypeOK
    <3>2. post' \in [Posts -> PostLocals]
      BY <1>0, <2>5, <2>6 DEF AlertsTypeOK
    <3> QED
      BY <1>0, <2>0, <2>1, <3>1, <3>2 DEF AlertsTypeOK
  <2>9. FileSettled'
    BY <1>0, <2>0, <2>1, <2>2 DEF FileSettled, AlertsTypeOK
  <2>10. OneSaver'
    <3>1. \A q \in Posts : q # p => ~SaveUnderWay(q)'
      BY <2>3, <2>7 DEF SaveUnderWay
    <3>2. \A q \in Posts \ {p} : ~PostAt(q, "write")' /\ ~PostAt(q, "rename")'
      BY <3>1 DEF SaveUnderWay, PostAt
    <3>3. PostAt(p, "write")' /\ ~PostAt(p, "rename")' /\ post'[p].ino = ino
      BY <2>5, <2>7 DEF PostAt
    <3>4. alertsFile' # NoFile => alertsFile' # alertsTmp' /\ PostAt(alertsFile, "answered")'
      BY <1>0, <2>1, <2>2, <2>7 DEF OneSaver, PostAt, AlertsTypeOK
    <3>5. post'[ino].pc \in {"write", "rename", "answered"}
      BY <2>0, <2>4, <2>5, <2>7
    <3> QED
      BY <1>0, <2>0, <2>1, <3>1, <3>2, <3>3, <3>4, <3>5 DEF OneSaver
  <2> QED
    BY <2>8, <2>9, <2>10
<1>6. CASE WritesTemp(p)
  <2> DEFINE t == [post[p] EXCEPT !.pc = "rename"]
  <2>1. t \in PostLocals /\ t.pc = "rename" /\ t.cfg = post[p].cfg /\ post[p].cfg \in AlertConfigs
    BY <1>0 DEF PostLocals
  <2>2. /\ post' = [post EXCEPT ![p] = t] /\ post[p].pc = "write"
        /\ inode' = [inode EXCEPT ![post[p].ino] = post[p].cfg]
        /\ UNCHANGED <<alertsCfg, alertsFile, alertsTmp, settled>>
    BY <1>6 DEF WritesTemp, PostAt
  <2>3. post[p].ino = alertsTmp /\ alertsTmp \in Posts
    BY <1>0, <2>2 DEF OneSaver, PostAt, AlertsTypeOK
  <2>4. NoOther
    BY <1>1, <2>2 DEF SaveUnderWay
  <2> HIDE DEF t
  <2>5. post'[p] = t /\ \A q \in Posts \ {p} : post'[q] = post[q]
    BY <1>0, <2>2 DEF AlertsTypeOK
  <2>6. AlertsTypeOK'
    BY <1>0, <2>1, <2>2, <2>3 DEF AlertsTypeOK
  <2>7. FileSettled'
    BY <1>0, <2>2, <2>3 DEF FileSettled, AlertsTypeOK, OneSaver
  <2>8. inode'[alertsTmp] = t.cfg
    BY <1>0, <2>1, <2>2, <2>3 DEF AlertsTypeOK
  <2>9. \A q \in Posts : q # p => ~SaveUnderWay(q)'
    BY <2>4, <2>5 DEF SaveUnderWay
  <2>10. \A q \in Posts \ {p} : ~PostAt(q, "write")' /\ ~PostAt(q, "rename")'
    BY <2>9 DEF SaveUnderWay, PostAt
  <2>11. OneSaver'
    BY <1>0, <2>1, <2>2, <2>3, <2>5, <2>8, <2>9, <2>10 DEF OneSaver, PostAt, AlertsTypeOK
  <2> QED
    BY <2>6, <2>7, <2>11
<1>7. CASE RenamesTemp(p)
  <2> DEFINE t == [post[p] EXCEPT !.pc = "answered"]
  <2>1. t \in PostLocals /\ t.pc = "answered"
    BY <1>0 DEF PostLocals
  <2>2. post' = [post EXCEPT ![p] = t] /\ post[p].pc = "rename" /\ UNCHANGED <<alertsCfg, inode>>
    BY <1>7 DEF RenamesTemp, PostAt
  <2>3. alertsTmp # NoFile /\ alertsTmp \in Posts /\ inode[alertsTmp] = post[p].cfg
    BY <1>0, <2>2 DEF OneSaver, PostAt, AlertsTypeOK
  <2>4. alertsFile' = alertsTmp /\ alertsTmp' = NoFile /\ settled' = post[p].cfg
    BY <1>7, <2>3 DEF RenamesTemp
  <2>5. NoOther
    BY <1>1, <2>2 DEF SaveUnderWay
  <2> HIDE DEF t
  <2>6. post'[p] = t /\ \A q \in Posts \ {p} : post'[q] = post[q]
    BY <1>0, <2>2 DEF AlertsTypeOK
  <2>7. AlertsTypeOK'
    BY <1>0, <2>1, <2>2, <2>3, <2>4 DEF AlertsTypeOK, PostLocals
  <2>8. FileSettled'
    BY <1>0, <2>2, <2>3, <2>4 DEF FileSettled
  <2>9. post'[alertsTmp].pc = "answered"
    BY <2>1, <2>3, <2>5, <2>6 DEF OneSaver, SaveUnderWay
  <2>10. OneSaver'
    BY <1>0, <2>1, <2>3, <2>4, <2>5, <2>6, <2>9 DEF OneSaver, PostAt, SaveUnderWay
  <2> QED
    BY <2>7, <2>8, <2>10
<1> QED
  BY <1>2, <1>3, <1>4, <1>5, <1>6, <1>7

(* The variables keep their types, saves overlapping or not.               *)
LEMMA AlertsTypeStep ==
  ASSUME AlertsTypeOK, [AlertsNext]_alertVars
  PROVE  AlertsTypeOK'
<1>0. NoFile \notin Posts /\ NoFile \in Posts \cup {NoFile}
  BY AlertsAssumption
<1>1. ASSUME NEW p \in Posts,
             \/ \E cfg \in AlertConfigs : PostReplaces(p, cfg)
             \/ SaveCopies(p) \/ WritesTemp(p) \/ RenamesTemp(p) \/ SaveErrors(p)
      PROVE  AlertsTypeOK'
  <2>0. post[p] \in PostLocals /\ post[p].cfg \in AlertConfigs
    BY DEF AlertsTypeOK, PostLocals
  <2>1. post' \in [Posts -> PostLocals]
    <3>1. CASE SaveCopies(p)
      <4> DEFINE t == [post[p] EXCEPT !.pc = "open", !.cfg = alertsCfg]
      <4>1. t \in PostLocals
        BY <2>0 DEF AlertsTypeOK, PostLocals
      <4>2. post' = [post EXCEPT ![p].pc = "open", ![p].cfg = alertsCfg]
        BY <3>1 DEF SaveCopies
      <4>3. post' = [post EXCEPT ![p] = t]
        BY <4>2
      <4> HIDE DEF t
      <4> QED
        BY <4>1, <4>3 DEF AlertsTypeOK
    <3>2. ASSUME NEW pc \in {"copy", "rename", "answered"}, post' = [post EXCEPT ![p].pc = pc]
          PROVE  post' \in [Posts -> PostLocals]
      <4> DEFINE t == [post[p] EXCEPT !.pc = pc]
      <4>1. t \in PostLocals
        BY <2>0 DEF PostLocals
      <4> HIDE DEF t
      <4>2. post' = [post EXCEPT ![p] = t]
        BY <3>2 DEF t
      <4> QED
        BY <4>1, <4>2 DEF AlertsTypeOK
    <3> QED
      BY <1>1, <3>1, <3>2 DEF PostReplaces, WritesTemp, RenamesTemp, SaveErrors
  <2>2. inode' \in [Posts -> AlertConfigs \cup {Truncated}]
    BY <1>1, <2>0 DEF AlertsTypeOK, PostReplaces, SaveCopies, WritesTemp, RenamesTemp, SaveErrors
  <2>3. alertsCfg' \in AlertConfigs /\ settled' \in AlertConfigs
    BY <1>1, <2>0 DEF AlertsTypeOK, PostReplaces, SaveCopies, WritesTemp, RenamesTemp, SaveErrors
  <2>4. alertsFile' \in Posts \cup {NoFile} /\ alertsTmp' \in Posts \cup {NoFile}
    BY <1>1 DEF AlertsTypeOK, PostReplaces, SaveCopies, WritesTemp, RenamesTemp, SaveErrors
  <2> QED
    BY <2>1, <2>2, <2>3, <2>4 DEF AlertsTypeOK
<1>2. ASSUME NEW p \in Posts, OpensTemp(p) PROVE AlertsTypeOK'
  <2> DEFINE ino == IF alertsTmp = NoFile THEN p ELSE alertsTmp
             t == [post[p] EXCEPT !.pc = "write", !.ino = ino]
  <2>1. ino \in Posts
    BY <1>0 DEF AlertsTypeOK
  <2>2. /\ post' = [post EXCEPT ![p].pc = "write", ![p].ino = ino]
        /\ alertsTmp' = ino /\ inode' = [inode EXCEPT ![ino] = Truncated]
        /\ UNCHANGED <<alertsCfg, alertsFile, settled>>
    BY <1>2 DEF OpensTemp
  <2> HIDE DEF ino
  <2>3. t \in PostLocals
    BY <2>1 DEF AlertsTypeOK, PostLocals
  <2>4. post' = [post EXCEPT ![p] = t]
    BY <2>2
  <2> HIDE DEF t
  <2>5. inode' \in [Posts -> AlertConfigs \cup {Truncated}]
    BY <2>1, <2>2 DEF AlertsTypeOK
  <2>6. post' \in [Posts -> PostLocals]
    BY <2>3, <2>4 DEF AlertsTypeOK
  <2> QED
    BY <2>1, <2>2, <2>5, <2>6 DEF AlertsTypeOK
<1>3. ASSUME NEW j \in Jobs,
             \/ \E ev \in Events : JobCopies(j, ev)
             \/ JobDecides(j) \/ TestAsked(j) \/ \E ok \in BOOLEAN : TriesChannel(j, ok)
      PROVE  AlertsTypeOK'
  BY <1>3 DEF AlertsTypeOK, JobCopies, JobDecides, TestAsked, TriesChannel
<1>4. CASE AlertsCrash
  <2>1. Loaded \in AlertConfigs
    BY ConfigsWhole DEF Loaded, AlertsTypeOK
  <2>2. \A p \in Posts : [post[p] EXCEPT !.pc = "answered"] \in PostLocals
    BY DEF AlertsTypeOK, PostLocals
  <2>3. post' \in [Posts -> PostLocals]
    BY <1>4, <2>2 DEF AlertsCrash, AlertsTypeOK
  <2> QED
    BY <1>4, <2>1, <2>3 DEF AlertsCrash, AlertsTypeOK
<1>5. CASE UNCHANGED alertVars
  BY <1>5 DEF alertVars, AlertsTypeOK
<1> QED
  BY <1>1, <1>2, <1>3, <1>4, <1>5 DEF AlertsNext

(* Saves keep their inductive invariant.                                   *)
THEOREM SavesInvariant == AlertsSpec => []SavesInv
<1>1. AlertsInit => SavesInv
  <2>1. NoPost \in PostLocals /\ NoPost.pc = "idle"
    BY ConfigsWhole DEF NoPost, PostLocals
  <2> QED
    BY <2>1, ConfigsWhole DEF AlertsInit, SavesInv, AlertsTypeOK, OneSaver, FileSettled, PostAt,
       SaveUnderWay
<1>2. SavesInv /\ [AlertsNext]_alertVars => SavesInv'
  <2> SUFFICES ASSUME SavesInv, [AlertsNext]_alertVars, ~savesOverlap'
               PROVE  OneSaver' /\ FileSettled'
    BY AlertsTypeStep DEF SavesInv
  <2>1. ~savesOverlap
    BY DEF AlertsNext, PostReplaces, SaveCopies, OpensTemp, WritesTemp, RenamesTemp, SaveErrors,
       JobCopies, JobDecides, TestAsked, TriesChannel, AlertsCrash, alertVars
  <2>2. OneSaver /\ FileSettled
    BY <2>1 DEF SavesInv
  <2>3. ASSUME NEW j \in Jobs,
               \/ \E ev \in Events : JobCopies(j, ev)
               \/ JobDecides(j) \/ TestAsked(j) \/ \E ok \in BOOLEAN : TriesChannel(j, ok)
        PROVE  OneSaver' /\ FileSettled'
    <3>1. UNCHANGED <<inode, alertsFile, alertsTmp, post, settled>>
      BY <2>3 DEF JobCopies, JobDecides, TestAsked, TriesChannel
    <3> QED
      BY <2>2, <3>1 DEF OneSaver, FileSettled, PostAt, SaveUnderWay
  <2>4. CASE AlertsCrash
    <3>1. /\ UNCHANGED <<inode, alertsFile, alertsTmp, settled>>
          /\ \A p \in Posts : post'[p].pc = IF SaveUnderWay(p) THEN "answered" ELSE post[p].pc
      BY <2>4 DEF AlertsCrash, SavesInv, AlertsTypeOK, PostLocals
    <3>2. \A p \in Posts : post'[p].pc \in {"idle", "answered"}
      BY <3>1 DEF SaveUnderWay
    <3>3. \A p \in Posts : post[p].pc # "idle" => post'[p].pc = "answered"
      BY <3>1 DEF SaveUnderWay
    <3>4. alertsTmp # NoFile => post'[alertsTmp].pc = "answered"
      BY <2>2, <3>3 DEF OneSaver, SavesInv, AlertsTypeOK
    <3>5. alertsFile # NoFile => post'[alertsFile].pc = "answered" /\ alertsFile # alertsTmp
      BY <2>2, <3>3 DEF OneSaver, PostAt, SavesInv, AlertsTypeOK
    <3>6. OneSaver'
      BY <3>1, <3>2, <3>4, <3>5 DEF OneSaver, PostAt, SaveUnderWay
    <3> QED
      BY <2>2, <3>1, <3>6 DEF FileSettled
  <2>5. CASE UNCHANGED alertVars
    BY <2>2, <2>5 DEF alertVars, OneSaver, FileSettled, PostAt, SaveUnderWay
  <2> QED
    BY <2>2, <2>3, <2>4, <2>5, SaveStep DEF AlertsNext
<1> QED
  BY <1>1, <1>2, PTL DEF AlertsSpec

(* A server that dies at any moment of a save that overlaps no other finds *)
(* the last configuration that was settled, never a file cut short.        *)
THEOREM SavesAtomic == AlertsSpec => []SoloSavesAtomic
<1>1. SavesInv => SoloSavesAtomic
  BY ConfigsWhole DEF SavesInv, SoloSavesAtomic, FileSettled, Loaded, AlertsTypeOK
<1> QED
  BY <1>1, SavesInvariant, PTL

(* A dispatcher that starts over has tried nothing yet.                    *)
LEMMA NothingTried ==
  ASSUME NEW t, t.next = 1, t.tried = << >>
  PROVE  TriedBy(t)
<1>1. Before(t.next) = {}
  BY DEF Before
<1>2. {t.tried[i] : i \in DOMAIN t.tried} = {} /\ Len(t.tried) = 0
  OBVIOUS
<1>3. t.cfg.channels \cap Before(t.next) = {}
  BY <1>1
<1>4. IsFiniteSet({}) /\ Cardinality({}) = 0
  BY FS_EmptySet
<1>5. /\ t.pc = "fire" => t.next <= 3
      /\ t.pc \in {"running", "decide"} => t.next = 1
      /\ t.pc = "ended" => t.next \in {1, 4}
  OBVIOUS
<1> QED
  BY <1>2, <1>3, <1>4, <1>5, Zenon DEF TriedBy

(* And one that has been through no channel has tried none.                *)
LEMMA NotYetTried ==
  ASSUME NEW t \in JobLocals, t.next = 1, TriedBy(t)
  PROVE  t.tried = << >>
<1>1. Before(1) = {}
  BY DEF Before
<1>2. {t.tried[i] : i \in DOMAIN t.tried} = {}
  BY <1>1 DEF TriedBy
<1> DEFINE s == t.tried
<1>3. s \in Seq({"slack", "webhook", "email"}) /\ \A i \in DOMAIN s : FALSE
  BY <1>2 DEF JobLocals
<1> HIDE DEF s
<1>4. s = << >>
  BY <1>3
<1> QED
  BY <1>4 DEF s

(* Fire's next channel is none it has been through, and adds itself.       *)
LEMMA NextChannel ==
  ASSUME NEW n \in 1..3
  PROVE  /\ Order[n] \notin Before(n) /\ Before(n + 1) = Before(n) \cup {Order[n]}
         /\ Order[n] \in {"slack", "webhook", "email"}
<1>1. Order[1] = "slack" /\ Order[2] = "webhook" /\ Order[3] = "email"
  BY DEF Order
<1>2. n = 1 \/ n = 2 \/ n = 3
  OBVIOUS
<1>3. \A x : x \in Before(n) <=> \E i \in 1..(n - 1) : x = Order[i]
  BY DEF Before
<1>4. Order[n] \notin Before(n)
  BY <1>1, <1>2, <1>3
<1>5. \A i : i \in 1..(n + 1 - 1) <=> (i \in 1..(n - 1) \/ i = n)
  OBVIOUS
<1>6. Before(n + 1) = Before(n) \cup {Order[n]}
  BY <1>5 DEF Before
<1> QED
  BY <1>1, <1>2, <1>4, <1>6

(* What appending leaves of a sequence.                                    *)
LEMMA AppendEffect ==
  ASSUME NEW S, NEW s \in Seq(S), NEW x \in S, NEW r, r = Append(s, x)
  PROVE  /\ Len(r) = Len(s) + 1 /\ Len(s) \in Nat
         /\ DOMAIN r = 1..(Len(s) + 1) /\ DOMAIN s = 1..Len(s)
         /\ r[Len(s) + 1] = x /\ \A i \in 1..Len(s) : r[i] = s[i]
  OBVIOUS

(* A channel that is tried is appended, and its count is right.            *)
LEMMA ChannelTried ==
  ASSUME NEW t \in JobLocals, t.pc = "fire", TriedBy(t), NEW u \in JobLocals,
         u.cfg = t.cfg, u.next = t.next + 1,
         u.tried = IF Order[t.next] \in t.cfg.channels THEN Append(t.tried, Order[t.next])
                   ELSE t.tried,
         u.pc = IF t.next = 3 THEN "ended" ELSE "fire"
  PROVE  TriedBy(u)
<1> DEFINE n == t.next
           c == Order[n]
           due == t.cfg.channels \cap Before(n)
           due2 == t.cfg.channels \cap Before(n + 1)
<1>1. n \in 1..3
  BY DEF TriedBy, JobLocals
<1>2. c \notin Before(n) /\ Before(n + 1) = Before(n) \cup {c} /\ c \in {"slack", "webhook", "email"}
  BY <1>1, NextChannel
<1>3. /\ {t.tried[i] : i \in DOMAIN t.tried} = due /\ IsFiniteSet(due)
      /\ Len(t.tried) = Cardinality(due)
  BY DEF TriedBy
<1>4. t.tried \in Seq({"slack", "webhook", "email"})
  BY DEF JobLocals
<1>5. {u.tried[i] : i \in DOMAIN u.tried} = due2 /\ IsFiniteSet(due2)
      /\ Len(u.tried) = Cardinality(due2)
  <2>1. CASE c \in t.cfg.channels
    <3>1. due2 = due \cup {c} /\ c \notin due
      BY <1>2, <2>1
    <3>3. u.tried = Append(t.tried, c)
      BY <2>1
    <3> HIDE DEF n, c, due, due2
    <3>2. IsFiniteSet(due2) /\ Cardinality(due2) = Cardinality(due) + 1
      BY <1>3, <3>1, FS_AddElement, Zenon
    <3>4. /\ Len(u.tried) = Len(t.tried) + 1 /\ Len(t.tried) \in Nat
          /\ DOMAIN u.tried = 1..(Len(t.tried) + 1) /\ DOMAIN t.tried = 1..Len(t.tried)
          /\ u.tried[Len(t.tried) + 1] = c /\ \A i \in 1..Len(t.tried) : u.tried[i] = t.tried[i]
      <4> DEFINE Set == {"slack", "webhook", "email"}
      <4>1. t.tried \in Seq(Set) /\ c \in Set
        BY <1>2, <1>4
      <4> HIDE DEF Set
      <4> QED
        BY ONLY <3>3, <4>1, AppendEffect
    <3>5. \A x : x \in {u.tried[i] : i \in DOMAIN u.tried} <=> x \in due \/ x = c
      BY <1>3, <3>4
    <3> QED
      BY <1>3, <3>1, <3>2, <3>4, <3>5
  <2>2. CASE c \notin t.cfg.channels
    <3>1. due2 = due
      BY <1>2, <2>2
    <3> QED
      BY <1>3, <2>2, <3>1
  <2> QED
    BY <2>1, <2>2
<1> QED
  BY <1>1, <1>5 DEF TriedBy

(* A step of one dispatcher keeps what each has tried.                     *)
LEMMA DispatchStep ==
  ASSUME DispatchInv, [AlertsNext]_alertVars
  PROVE  DispatchInv'
<1>0. AlertsTypeOK'
  BY AlertsTypeStep DEF DispatchInv
<1>1. ASSUME NEW j \in Jobs, NEW u \in JobLocals, TriedBy(u), job' = [job EXCEPT ![j] = u]
      PROVE  DispatchInv'
  <2>1. job'[j] = u /\ \A k \in Jobs \ {j} : job'[k] = job[k]
    BY <1>1 DEF DispatchInv
  <2>2. TriedSoFar'
    <3>1. \A k \in Jobs : job'[k] = u \/ job'[k] = job[k]
      BY <2>1
    <3>2. ASSUME NEW k \in Jobs PROVE TriedBy(job'[k])
      <4>1. CASE job'[k] = u
        BY <1>1, <4>1
      <4>2. CASE job'[k] = job[k]
        BY <4>2 DEF DispatchInv, TriedSoFar
      <4> QED
        BY <3>1, <4>1, <4>2
    <3> QED
      BY <3>2 DEF TriedSoFar
  <2> QED
    BY <1>0, <1>1, <2>2 DEF DispatchInv
<1>2. ASSUME NEW j \in Jobs, NEW ev \in Events, JobCopies(j, ev) PROVE DispatchInv'
  <2> DEFINE pc == IF Anything(alertsCfg) THEN "decide" ELSE "ended"
             u == [job[j] EXCEPT !.pc = pc, !.cfg = alertsCfg, !.ev = ev]
  <2>1. pc \in {"decide", "ended"}
    OBVIOUS
  <2>2. /\ job' = [job EXCEPT ![j].pc = pc, ![j].cfg = alertsCfg, ![j].ev = ev]
        /\ job[j].pc = "running"
    BY <1>2 DEF JobCopies, JobAt
  <2> HIDE DEF pc
  <2>3. job' = [job EXCEPT ![j] = u]
    BY <2>2
  <2>4. job[j] \in JobLocals /\ alertsCfg \in AlertConfigs
    BY DEF DispatchInv, AlertsTypeOK
  <2>5. u \in JobLocals /\ u.next = job[j].next /\ u.tried = job[j].tried
    BY <2>1, <2>4 DEF JobLocals
  <2> HIDE DEF u
  <2>6. job[j].next = 1
    BY <2>2 DEF DispatchInv, TriedSoFar, TriedBy
  <2>7. job[j].tried = << >>
    BY <2>4, <2>6, NotYetTried DEF DispatchInv, TriedSoFar
  <2>8. TriedBy(u)
    BY <2>5, <2>6, <2>7, NothingTried
  <2> QED
    BY <1>1, <2>3, <2>5, <2>8
<1>3. ASSUME NEW j \in Jobs, JobDecides(j) PROVE DispatchInv'
  <2> DEFINE pc == IF ShouldFire(job[j].cfg, job[j].ev) THEN "fire" ELSE "ended"
             u == [job[j] EXCEPT !.pc = pc]
  <2>1. pc \in {"fire", "ended"}
    OBVIOUS
  <2>2. job' = [job EXCEPT ![j].pc = pc] /\ job[j].pc = "decide"
    BY <1>3 DEF JobDecides, JobAt
  <2> HIDE DEF pc
  <2>3. job' = [job EXCEPT ![j] = u]
    BY <2>2
  <2>4. job[j] \in JobLocals
    BY DEF DispatchInv
  <2>5. u \in JobLocals /\ u.next = job[j].next /\ u.tried = job[j].tried
    BY <2>1, <2>4 DEF JobLocals
  <2> HIDE DEF u
  <2>6. job[j].next = 1
    BY <2>2 DEF DispatchInv, TriedSoFar, TriedBy
  <2>7. job[j].tried = << >>
    BY <2>4, <2>6, NotYetTried DEF DispatchInv, TriedSoFar
  <2>8. TriedBy(u)
    BY <2>5, <2>6, <2>7, NothingTried
  <2> QED
    BY <1>1, <2>3, <2>5, <2>8
<1>4. ASSUME NEW j \in Jobs, TestAsked(j) PROVE DispatchInv'
  <2> DEFINE pc == IF Anything(alertsCfg) THEN "fire" ELSE "ended"
             u == [job[j] EXCEPT !.pc = pc, !.cfg = alertsCfg]
  <2>1. pc \in {"fire", "ended"}
    OBVIOUS
  <2>2. job' = [job EXCEPT ![j].pc = pc, ![j].cfg = alertsCfg] /\ job[j].pc = "running"
    BY <1>4 DEF TestAsked, JobAt
  <2> HIDE DEF pc
  <2>3. job' = [job EXCEPT ![j] = u]
    BY <2>2
  <2>4. job[j] \in JobLocals /\ alertsCfg \in AlertConfigs
    BY DEF DispatchInv, AlertsTypeOK
  <2>5. u \in JobLocals /\ u.next = job[j].next /\ u.tried = job[j].tried
    BY <2>1, <2>4 DEF JobLocals
  <2> HIDE DEF u
  <2>6. job[j].next = 1
    BY <2>2 DEF DispatchInv, TriedSoFar, TriedBy
  <2>7. job[j].tried = << >>
    BY <2>4, <2>6, NotYetTried DEF DispatchInv, TriedSoFar
  <2>8. TriedBy(u)
    BY <2>5, <2>6, <2>7, NothingTried
  <2> QED
    BY <1>1, <2>3, <2>5, <2>8
<1>5. ASSUME NEW j \in Jobs, NEW ok \in BOOLEAN, TriesChannel(j, ok) PROVE DispatchInv'
  <2> DEFINE c == Order[job[j].next]
             more == Attempted(j, c)
             n == job[j].next + 1
             pc == IF job[j].next = 3 THEN "ended" ELSE "fire"
             u == [job[j] EXCEPT !.next = n, !.tried = more, !.pc = pc]
  <2>1. job[j] \in JobLocals /\ TriedBy(job[j]) /\ job[j].pc = "fire" /\ Len(Order) = 3
    BY <1>5 DEF DispatchInv, TriedSoFar, TriesChannel, JobAt, Order
  <2>2. job[j].next \in 1..3
    BY <2>1 DEF TriedBy, JobLocals
  <2>3. job' = [job EXCEPT ![j].next = n, ![j].tried = more, ![j].pc = pc]
    BY <1>5, <2>1 DEF TriesChannel
  <2>4. job' = [job EXCEPT ![j] = u]
    BY <2>3
  <2>5. n \in 1..4 /\ pc \in {"fire", "ended"}
    BY <2>2
  <2>6. more \in Seq({"slack", "webhook", "email"})
    BY <2>1, <2>2, NextChannel DEF Attempted, JobLocals
  <2> HIDE DEF n, more, pc
  <2>7. u \in JobLocals /\ u.cfg = job[j].cfg /\ u.next = n /\ u.tried = more /\ u.pc = pc
    BY <2>1, <2>5, <2>6 DEF JobLocals
  <2> HIDE DEF u
  <2>8. TriedBy(u)
    BY <2>1, <2>7, ChannelTried DEF n, more, pc, Attempted
  <2> QED
    BY <1>1, <2>4, <2>7, <2>8
<1>6. CASE AlertsCrash
  <2> DEFINE lost == [NoJob EXCEPT !.pc = "lost"]
  <2>0. << >> \in Seq({"slack", "webhook", "email"})
    OBVIOUS
  <2>1. lost \in JobLocals /\ lost.next = 1 /\ lost.tried = << >>
    <3>1. lost = [pc |-> "lost", cfg |-> Disabled, ev |-> "clean", next |-> 1, tried |-> << >>]
      BY DEF NoJob
    <3> HIDE DEF lost
    <3>2. lost \in JobLocals
      BY <2>0, <3>1, ConfigsWhole DEF JobLocals, Events
    <3> QED
      BY <3>1, <3>2
  <2>2. TriedBy(lost)
    BY <2>1, NothingTried
  <2>3. /\ DOMAIN job' = Jobs /\ job' = [j \in Jobs |-> job'[j]]
        /\ \A j \in Jobs : job'[j] = lost \/ job'[j] = job[j]
    BY <1>6 DEF AlertsCrash, DispatchInv
  <2> HIDE DEF lost
  <2>4. job' \in [Jobs -> JobLocals]
    BY <2>1, <2>3 DEF DispatchInv
  <2>5. \A j \in Jobs : TriedBy(job'[j])
    <3> TAKE j \in Jobs
    <3>1. CASE job'[j] = lost
      BY <2>2, <3>1
    <3>2. CASE job'[j] = job[j]
      BY <3>2 DEF DispatchInv, TriedSoFar
    <3> QED
      BY <2>3, <3>1, <3>2
  <2> QED
    BY <1>0, <2>4, <2>5 DEF DispatchInv, TriedSoFar
<1>7. CASE UNCHANGED job
  BY <1>0, <1>7 DEF DispatchInv, TriedSoFar
<1>8. ASSUME NEW p \in Posts,
             \/ \E cfg \in AlertConfigs : PostReplaces(p, cfg)
             \/ SaveCopies(p) \/ OpensTemp(p) \/ WritesTemp(p) \/ RenamesTemp(p) \/ SaveErrors(p)
      PROVE  UNCHANGED job
  BY <1>8 DEF PostReplaces, SaveCopies, OpensTemp, WritesTemp, RenamesTemp, SaveErrors
<1> QED
  BY <1>2, <1>3, <1>4, <1>5, <1>6, <1>7, <1>8 DEF AlertsNext, alertVars

(* Dispatchers keep their inductive invariant.                             *)
THEOREM DispatchInvariant == AlertsSpec => []DispatchInv
<1>1. AlertsInit => DispatchInv
  <2> SUFFICES ASSUME AlertsInit PROVE DispatchInv
    OBVIOUS
  <2>1. NoJob \in JobLocals /\ NoJob.next = 1 /\ NoJob.tried = << >>
    BY ConfigsWhole DEF NoJob, JobLocals, Events
  <2>2. TriedBy(NoJob)
    BY <2>1, NothingTried
  <2>3. NoPost \in PostLocals
    BY ConfigsWhole DEF NoPost, PostLocals
  <2>4. AlertsTypeOK
    BY <2>3, ConfigsWhole DEF AlertsInit, AlertsTypeOK
  <2> QED
    BY <2>1, <2>2, <2>4 DEF AlertsInit, DispatchInv, TriedSoFar
<1>2. DispatchInv /\ [AlertsNext]_alertVars => DispatchInv'
  BY DispatchStep
<1> QED
  BY <1>1, <1>2, PTL DEF AlertsSpec

(* A dispatcher that fires tries every channel its copy of the             *)
(* configuration sets, each once, whichever fail and whatever is posted.   *)
THEOREM AllChannels == AlertsSpec => []EveryChannelTried
<1>1. DispatchInv => EveryChannelTried
  <2> SUFFICES ASSUME DispatchInv, NEW j \in Jobs, job[j].pc = "ended", job[j].next > 1
               PROVE  /\ {job[j].tried[i] : i \in DOMAIN job[j].tried} = job[j].cfg.channels
                      /\ Len(job[j].tried) = Cardinality(job[j].cfg.channels)
    BY DEF EveryChannelTried
  <2>1. TriedBy(job[j]) /\ job[j] \in JobLocals
    BY DEF DispatchInv, TriedSoFar
  <2>2. job[j].next = 4
    BY <2>1 DEF TriedBy
  <2>3. Before(4) = {"slack", "webhook", "email"}
    <3>1. Order[1] = "slack" /\ Order[2] = "webhook" /\ Order[3] = "email"
      BY DEF Order
    <3>2. 1..(4 - 1) = {1, 2, 3}
      OBVIOUS
    <3> QED
      BY <3>1, <3>2 DEF Before
  <2>4. job[j].cfg.channels \subseteq {"slack", "webhook", "email"}
    BY <2>1 DEF JobLocals, AlertConfigs
  <2>5. job[j].cfg.channels \cap Before(job[j].next) = job[j].cfg.channels
    BY <2>2, <2>3, <2>4
  <2> QED
    BY <2>1, <2>5, Zenon DEF TriedBy
<1> QED
  BY <1>1, DispatchInvariant, PTL

-----------------------------------------------------------------------------
(* threaddump-analyzer: the session directory.                             *)

Metas == [names : Nat, aux : BOOLEAN]

UpLocals ==
    [pc : {"idle", "save", "files", "meta", "rename", "aux"}, kind : {"none", "dump", "aux"},
     dump : Nat, meta : Metas \cup {Missing}]

DumpTypeOK ==
    /\ dumps \in Seq(Nat) /\ uploads \in 0..MaxUploads /\ Len(dumps) <= uploads
    /\ DOMAIN dumpFile = Indices
    /\ smeta \in Metas /\ smetaTmp \in Metas \cup {Missing}
    /\ smeta.names <= Len(dumps)
    /\ up \in [Uploaders -> UpLocals] /\ kept \subseteq Nat

(* Dump files hold the session's dumps.                                    *)
FilesMatch == \A i \in Indices : dumpFile[i] # Missing => i <= Len(dumps) /\ dumpFile[i] = dumps[i]

(* A save of a dump holds the read lock and has the session's metadata;    *)
(* past the files none is missing.                                         *)
DumpSaves ==
    \A u \in Uploaders :
        /\ up[u].kind = "dump" => \E i \in 1..Len(dumps) : dumps[i] = up[u].dump
        /\ Writing(u) /\ up[u].kind = "dump" =>
              u \in savers /\ up[u].meta \in Metas /\ up[u].meta.names = Len(dumps)
        /\ up[u].kind = "dump" /\ up[u].pc \in {"meta", "rename"} =>
              \A i \in 1..Len(dumps) : dumpFile[i] # Missing
        /\ up[u].pc \in {"save", "files"} => up[u].kind = "dump"
        /\ UpAt(u, "aux") => up[u].kind = "aux"
        /\ Writing(u) => up[u].kind \in {"dump", "aux"}

(* Without a crossing an auxiliary save writes alone, on top of the        *)
(* metadata it read.                                                       *)
AuxSaves ==
    \A u \in Uploaders : Writing(u) /\ up[u].kind = "aux" =>
        /\ up[u].meta \in Metas /\ up[u].meta.names = smeta.names
        /\ \A w \in Uploaders \ {u} : ~Writing(w)

(* The temporary file is that of the saves that are about to rename it.    *)
TmpOwned ==
    smetaTmp # Missing =>
        /\ \E u \in Uploaders : UpAt(u, "rename")
        /\ \A u \in Uploaders : UpAt(u, "rename") => smetaTmp.names = up[u].meta.names

Undisturbed == ~crossed /\ boots = 0

SessionInv == DumpTypeOK /\ FilesMatch /\ DumpSaves /\ AuxSaves /\ TmpOwned

DumpInv == boots \in Nat /\ (Undisturbed => SessionInv /\ SavedDumpsKept)

(* Requests that only move on.                                             *)
LEMMA UpEffect ==
  ASSUME DumpTypeOK, NEW u \in Uploaders, NEW t \in UpLocals, up' = [up EXCEPT ![u] = t]
  PROVE  /\ up' \in [Uploaders -> UpLocals] /\ up'[u] = t
         /\ \A w \in Uploaders \ {u} : up'[w] = up[w]
  BY DEF DumpTypeOK

(* A dump joins the session while nobody saves.                            *)
LEMMA AddDumpStep ==
  ASSUME SessionInv, NEW u \in Uploaders, AddDump(u)
  PROVE  SessionInv'
<1> DEFINE n == uploads + 1
           t == [NoUpload EXCEPT !.pc = "save", !.kind = "dump", !.dump = n]
<1>0. DumpTypeOK /\ FilesMatch /\ DumpSaves /\ AuxSaves /\ TmpOwned
  BY DEF SessionInv
<1>1. /\ n \in 0..MaxUploads /\ uploads' = n /\ savers = {} /\ up[u].pc = "idle"
      /\ dumps' = Append(dumps, n) /\ up' = [up EXCEPT ![u] = t]
      /\ UNCHANGED <<dumpFile, smeta, smetaTmp, savers, kept>>
  BY <1>0, DumpAssumption DEF AddDump, UpAt, DumpTypeOK
<1>2. t.pc = "save" /\ t.kind = "dump" /\ t.dump = n
  <2> HIDE DEF n
  <2> QED
    BY DEF NoUpload
<1>3. t \in UpLocals
  <2>1. n \in Nat /\ NoUpload \in UpLocals
    BY <1>1, DumpAssumption DEF NoUpload, UpLocals
  <2> HIDE DEF n
  <2> QED
    BY <2>1 DEF UpLocals
<1> HIDE DEF t
<1>4. /\ up' \in [Uploaders -> UpLocals] /\ up'[u] = t
      /\ \A w \in Uploaders \ {u} : up'[w] = up[w]
  BY <1>0, <1>1, <1>3, UpEffect
<1>5. /\ dumps' \in Seq(Nat) /\ Len(dumps) \in Nat /\ Len(dumps') = Len(dumps) + 1
      /\ dumps'[Len(dumps) + 1] = n /\ \A i \in 1..Len(dumps) : dumps'[i] = dumps[i]
  BY <1>0, <1>1 DEF DumpTypeOK
<1>6. \A w \in Uploaders : Writing(w) => up[w].kind = "aux"
  BY <1>0, <1>1 DEF DumpSaves
<1>7. \A w \in Uploaders : Writing(w)' => Writing(w) /\ w # u
  BY <1>2, <1>4 DEF Writing
<1>8. DumpTypeOK'
  BY <1>0, <1>1, <1>4, <1>5 DEF DumpTypeOK, Metas
<1>9. FilesMatch'
  BY <1>0, <1>1, <1>5, DumpAssumption DEF FilesMatch, Indices
<1>10. DumpSaves'
  <2>1. ASSUME NEW w \in Uploaders, up'[w].kind = "dump"
        PROVE  \E i \in 1..Len(dumps') : dumps'[i] = up'[w].dump
    <3>1. CASE w = u
      BY <1>2, <1>4, <1>5, <3>1
    <3>2. CASE w # u
      <4>1. PICK i \in 1..Len(dumps) : dumps[i] = up[w].dump
        BY <1>0, <1>4, <2>1, <3>2 DEF DumpSaves
      <4> QED
        BY <1>4, <1>5, <3>2, <4>1
    <3> QED
      BY <3>1, <3>2
  <2>2. \A w \in Uploaders : up'[w].kind = "dump" => ~Writing(w)'
    BY <1>4, <1>6, <1>7
  <2>3. \A w \in Uploaders : /\ up'[w].pc \in {"save", "files"} => up'[w].kind = "dump"
                             /\ up'[w].pc = "aux" => up'[w].kind = "aux"
                             /\ Writing(w)' => up'[w].kind \in {"dump", "aux"}
    BY <1>0, <1>2, <1>4, <1>6, <1>7 DEF DumpSaves, UpAt
  <2> QED
    BY <2>1, <2>2, <2>3 DEF DumpSaves, UpAt, Writing
<1>11. AuxSaves'
  BY <1>0, <1>1, <1>4, <1>7 DEF AuxSaves
<1>12. TmpOwned'
  <2>1. \A w \in Uploaders : UpAt(w, "rename") <=> UpAt(w, "rename")'
    BY <1>1, <1>2, <1>4 DEF UpAt
  <2>2. \A w \in Uploaders : UpAt(w, "rename")' => up'[w] = up[w]
    BY <1>2, <1>4 DEF UpAt
  <2> QED
    BY <1>0, <1>1, <2>1, <2>2 DEF TmpOwned
<1> QED
  BY <1>8, <1>9, <1>10, <1>11, <1>12 DEF SessionInv

(* A save takes the read lock and the session's metadata.                  *)
LEMMA SaveBeginsStep ==
  ASSUME SessionInv, NEW u \in Uploaders, SaveBegins(u), ~crossed'
  PROVE  SessionInv'
<1> DEFINE m == [names |-> Len(dumps), aux |-> FALSE]
           t == [up[u] EXCEPT !.pc = "files", !.meta = m]
<1>0. DumpTypeOK /\ FilesMatch /\ DumpSaves /\ AuxSaves /\ TmpOwned /\ up[u] \in UpLocals
  BY DEF SessionInv, DumpTypeOK
<1>1. /\ up' = [up EXCEPT ![u].pc = "files", ![u].meta = m] /\ up[u].pc = "save"
      /\ savers' = savers \cup {u} /\ UNCHANGED <<dumps, dumpFile, smeta, smetaTmp, uploads, kept>>
  BY DEF SaveBegins, UpAt
<1>2. m \in Metas /\ m.names = Len(dumps)
  BY <1>0 DEF Metas, DumpTypeOK
<1>3. up[u].kind = "dump"
  BY <1>0, <1>1 DEF DumpSaves
<1>4. \A w \in Uploaders \ {u} : Writing(w) => up[w].kind # "aux"
  BY DEF SaveBegins, Overlap
<1> HIDE DEF m
<1>5. up' = [up EXCEPT ![u] = t]
  BY <1>1
<1>6. t \in UpLocals /\ t.pc = "files" /\ t.meta = m /\ t.kind = "dump" /\ t.dump = up[u].dump
  BY <1>0, <1>2, <1>3 DEF UpLocals
<1> HIDE DEF t
<1>7. /\ up' \in [Uploaders -> UpLocals] /\ up'[u] = t
      /\ \A w \in Uploaders \ {u} : up'[w] = up[w]
  BY <1>0, <1>5, <1>6, UpEffect
<1>8. DumpTypeOK' /\ FilesMatch'
  BY <1>0, <1>1, <1>7 DEF DumpTypeOK, FilesMatch
<1>9. DumpSaves'
  BY <1>0, <1>1, <1>2, <1>3, <1>6, <1>7 DEF DumpSaves, Writing, UpAt
<1>10. AuxSaves'
  BY <1>0, <1>1, <1>4, <1>6, <1>7 DEF AuxSaves, Writing
<1>11. TmpOwned'
  <2>1. \A w \in Uploaders : UpAt(w, "rename") <=> UpAt(w, "rename")'
    BY <1>1, <1>6, <1>7 DEF UpAt
  <2>2. \A w \in Uploaders : UpAt(w, "rename")' => up'[w] = up[w]
    BY <1>6, <1>7 DEF UpAt
  <2> QED
    BY <1>0, <1>1, <2>1, <2>2 DEF TmpOwned
<1> QED
  BY <1>8, <1>9, <1>10, <1>11 DEF SessionInv

(* The steps of a save between its beginning and its rename.               *)
LEMMA SavingSteps ==
  ASSUME SessionInv, NEW u \in Uploaders,
         WriteMissing(u) \/ FilesDone(u) \/ WriteTmp(u)
  PROVE  SessionInv'
<1>0. DumpTypeOK /\ FilesMatch /\ DumpSaves /\ AuxSaves /\ TmpOwned /\ up[u] \in UpLocals
  BY DEF SessionInv, DumpTypeOK
<1>1. CASE WriteMissing(u)
  <2>1. PICK i \in 1..Len(dumps) : dumpFile[i] = Missing /\ dumpFile' = [dumpFile EXCEPT ![i] = dumps[i]]
    BY <1>1 DEF WriteMissing
  <2>2. UNCHANGED <<dumps, smeta, smetaTmp, savers, up, uploads, kept>>
    BY <1>1 DEF WriteMissing
  <2>3. i \in Indices /\ Len(dumps) \in Nat
    BY <1>0, DumpAssumption DEF DumpTypeOK, Indices
  <2>4. /\ DOMAIN dumpFile' = Indices /\ dumpFile'[i] = dumps[i]
        /\ \A j \in Indices \ {i} : dumpFile'[j] = dumpFile[j]
    BY <1>0, <2>1, <2>3 DEF DumpTypeOK
  <2>5. DumpTypeOK' /\ AuxSaves' /\ TmpOwned'
    BY <1>0, <2>2, <2>4 DEF DumpTypeOK, AuxSaves, TmpOwned, Writing, UpAt
  <2>6. FilesMatch'
    BY <1>0, <2>2, <2>3, <2>4 DEF FilesMatch
  <2>7. \A w \in Uploaders : ~(up[w].kind = "dump" /\ up[w].pc \in {"meta", "rename"})
    BY <1>0, <2>1 DEF DumpSaves
  <2>8. DumpSaves'
    BY <1>0, <2>2, <2>7 DEF DumpSaves, Writing, UpAt
  <2> QED
    BY <2>5, <2>6, <2>8 DEF SessionInv
<1>2. CASE FilesDone(u)
  <2> DEFINE t == [up[u] EXCEPT !.pc = "meta"]
  <2>1. t \in UpLocals /\ t.pc = "meta" /\ t.meta = up[u].meta /\ t.kind = up[u].kind /\ t.dump = up[u].dump
    BY <1>0 DEF UpLocals
  <2>2. /\ up' = [up EXCEPT ![u] = t] /\ up[u].pc = "files"
        /\ \A i \in 1..Len(dumps) : dumpFile[i] # Missing
        /\ UNCHANGED <<dumps, dumpFile, smeta, smetaTmp, savers, uploads, kept>>
    BY <1>2 DEF FilesDone, UpGoes, UpAt
  <2> HIDE DEF t
  <2>3. /\ up' \in [Uploaders -> UpLocals] /\ up'[u] = t
        /\ \A w \in Uploaders \ {u} : up'[w] = up[w]
    BY <1>0, <2>1, <2>2, UpEffect
  <2>4. DumpTypeOK' /\ FilesMatch'
    BY <1>0, <2>2, <2>3 DEF DumpTypeOK, FilesMatch
  <2>5. DumpSaves'
    BY <1>0, <2>1, <2>2, <2>3 DEF DumpSaves, Writing, UpAt
  <2>6. AuxSaves'
    BY <1>0, <2>1, <2>2, <2>3 DEF AuxSaves, Writing
  <2>7. TmpOwned'
    BY <1>0, <2>1, <2>2, <2>3 DEF TmpOwned, UpAt
  <2> QED
    BY <2>4, <2>5, <2>6, <2>7 DEF SessionInv
<1>3. CASE WriteTmp(u)
  <2> DEFINE t == [up[u] EXCEPT !.pc = "rename"]
  <2>1. t \in UpLocals /\ t.pc = "rename" /\ t.meta = up[u].meta /\ t.kind = up[u].kind /\ t.dump = up[u].dump
    BY <1>0 DEF UpLocals
  <2>2. /\ up' = [up EXCEPT ![u] = t] /\ up[u].pc = "meta" /\ smetaTmp' = up[u].meta
        /\ UNCHANGED <<dumps, dumpFile, smeta, savers, uploads, kept>>
    BY <1>3 DEF WriteTmp, UpGoes, UpAt
  <2> HIDE DEF t
  <2>3. /\ up' \in [Uploaders -> UpLocals] /\ up'[u] = t
        /\ \A w \in Uploaders \ {u} : up'[w] = up[w]
    BY <1>0, <2>1, <2>2, UpEffect
  <2>4. smetaTmp' \in Metas \cup {Missing}
    BY <1>0, <2>2 DEF UpLocals
  <2>5. DumpTypeOK' /\ FilesMatch'
    BY <1>0, <2>2, <2>3, <2>4 DEF DumpTypeOK, FilesMatch
  <2>6. DumpSaves'
    BY <1>0, <2>1, <2>2, <2>3 DEF DumpSaves, Writing, UpAt
  <2>7. AuxSaves'
    BY <1>0, <2>1, <2>2, <2>3 DEF AuxSaves, Writing
  <2>8. Writing(u)
    BY <2>2 DEF Writing
  <2>9. \A w \in Uploaders \ {u} : up[w].pc = "rename" => up[w].meta.names = up[u].meta.names
    <3> TAKE w \in Uploaders \ {u}
    <3>1. SUFFICES ASSUME up[w].pc = "rename" PROVE up[w].meta.names = up[u].meta.names
      OBVIOUS
    <3>2. Writing(w)
      BY <3>1 DEF Writing
    <3>3. up[w].kind = "dump" /\ up[u].kind = "dump"
      BY <1>0, <2>8, <3>2 DEF AuxSaves, DumpSaves
    <3> QED
      BY <1>0, <2>8, <3>2, <3>3 DEF DumpSaves
  <2>10. TmpOwned'
    BY <2>1, <2>2, <2>3, <2>9 DEF TmpOwned, UpAt
  <2> QED
    BY <2>5, <2>6, <2>7, <2>10 DEF SessionInv
<1> QED
  BY <1>1, <1>2, <1>3

(* A save ends: renamed, or given up.                                      *)
LEMMA SaveEnds ==
  ASSUME SessionInv, NEW u \in Uploaders, RenameMeta(u) \/ SaveGivesUp(u)
  PROVE  SessionInv'
<1>0. DumpTypeOK /\ FilesMatch /\ DumpSaves /\ AuxSaves /\ TmpOwned /\ up[u] \in UpLocals
  BY DEF SessionInv, DumpTypeOK
<1>1. NoUpload \in UpLocals /\ NoUpload.pc = "idle" /\ NoUpload.kind = "none"
  BY DEF NoUpload, UpLocals
<1>2. /\ up' = [up EXCEPT ![u] = NoUpload] /\ Writing(u) /\ savers' = savers \ {u}
      /\ UNCHANGED <<dumps, dumpFile, uploads>>
  BY DEF RenameMeta, SaveGivesUp, Answers, Writing, UpAt
<1>3. /\ up' \in [Uploaders -> UpLocals] /\ up'[u] = NoUpload
      /\ \A w \in Uploaders \ {u} : up'[w] = up[w]
  BY <1>0, <1>1, <1>2, UpEffect
<1>4. FilesMatch' /\ DumpSaves'
  BY <1>0, <1>1, <1>2, <1>3 DEF FilesMatch, DumpSaves, Writing, UpAt
<1>5. CASE UNCHANGED <<smeta, smetaTmp, kept>> /\ (up[u].pc # "rename" \/ smetaTmp = Missing)
  <2>1. DumpTypeOK'
    BY <1>0, <1>2, <1>3, <1>5 DEF DumpTypeOK
  <2>2. AuxSaves'
    BY <1>0, <1>1, <1>3, <1>5 DEF AuxSaves, Writing
  <2>3. TmpOwned'
    BY <1>0, <1>1, <1>3, <1>5 DEF TmpOwned, UpAt
  <2> QED
    BY <1>4, <2>1, <2>2, <2>3 DEF SessionInv
<1>6. CASE /\ up[u].pc = "rename" /\ smetaTmp # Missing /\ smeta' = smetaTmp /\ smetaTmp' = Missing
           /\ kept' = kept \cup (IF up[u].kind = "dump" THEN {up[u].dump} ELSE {})
  <2>1. smetaTmp \in Metas /\ smetaTmp.names = up[u].meta.names
    BY <1>0, <1>6 DEF DumpTypeOK, TmpOwned, UpAt
  <2>2. kept' \subseteq Nat
    BY <1>0, <1>6 DEF DumpTypeOK, UpLocals
  <2>3. smeta'.names <= Len(dumps)
    BY <1>0, <1>2, <1>6, <2>1 DEF DumpSaves, AuxSaves, DumpTypeOK, Metas
  <2>4. DumpTypeOK'
    BY <1>0, <1>2, <1>3, <1>6, <2>1, <2>2, <2>3 DEF DumpTypeOK
  <2>5. \A w \in Uploaders \ {u} : ~(Writing(w) /\ up[w].kind = "aux")
    BY <1>0, <1>2 DEF AuxSaves
  <2>6. AuxSaves'
    BY <1>1, <1>3, <2>5 DEF AuxSaves, Writing
  <2>7. TmpOwned'
    BY <1>6 DEF TmpOwned
  <2> QED
    BY <1>4, <2>4, <2>6, <2>7 DEF SessionInv
<1> QED
  BY <1>5, <1>6 DEF RenameMeta, SaveGivesUp, UpAt

(* An auxiliary save reads the metadata and writes its file.               *)
LEMMA AuxSteps ==
  ASSUME SessionInv, NEW u \in Uploaders, AuxReads(u) \/ AuxWrites(u), ~crossed'
  PROVE  SessionInv'
<1>0. DumpTypeOK /\ FilesMatch /\ DumpSaves /\ AuxSaves /\ TmpOwned /\ up[u] \in UpLocals
  BY DEF SessionInv, DumpTypeOK
<1>1. ASSUME NEW t \in UpLocals, up' = [up EXCEPT ![u] = t], t.pc \in {"aux", "meta"}, t.kind = "aux",
             t.meta \in Metas, t.meta.names = smeta.names,
             \A w \in Uploaders \ {u} : ~Writing(w), uploads' \in 0..MaxUploads, uploads <= uploads',
             up[u].pc # "rename",
             UNCHANGED <<dumps, dumpFile, smeta, smetaTmp, savers, kept>>
      PROVE  SessionInv'
  <2>1. /\ up' \in [Uploaders -> UpLocals] /\ up'[u] = t
        /\ \A w \in Uploaders \ {u} : up'[w] = up[w]
    BY <1>0, <1>1, UpEffect
  <2>2. DumpTypeOK' /\ FilesMatch'
    BY <1>0, <1>1, <2>1 DEF DumpTypeOK, FilesMatch
  <2>3. DumpSaves'
    BY <1>0, <1>1, <2>1 DEF DumpSaves, Writing, UpAt
  <2>4. AuxSaves'
    BY <1>0, <1>1, <2>1 DEF AuxSaves, Writing
  <2>5. TmpOwned'
    BY <1>0, <1>1, <2>1 DEF TmpOwned, UpAt
  <2> QED
    BY <2>2, <2>3, <2>4, <2>5 DEF SessionInv
<1>2. CASE AuxReads(u)
  <2> DEFINE t == [NoUpload EXCEPT !.pc = "aux", !.kind = "aux", !.meta = smeta]
  <2>1. t.pc = "aux" /\ t.kind = "aux" /\ t.meta = smeta
    BY DEF NoUpload
  <2>6. t \in UpLocals
    <3>1. NoUpload \in UpLocals /\ smeta \in Metas
      BY <1>0 DEF NoUpload, UpLocals, DumpTypeOK
    <3> QED
      BY <3>1 DEF UpLocals
  <2>2. /\ up' = [up EXCEPT ![u] = t] /\ up[u].pc = "idle" /\ uploads' = uploads + 1
        /\ uploads < MaxUploads /\ \A w \in Uploaders \ {u} : ~Writing(w)
        /\ UNCHANGED <<dumps, dumpFile, smeta, smetaTmp, savers, kept>>
    BY <1>2 DEF AuxReads, UpAt
  <2> HIDE DEF t
  <2>3. t.meta \in Metas
    BY <1>0, <2>1 DEF DumpTypeOK
  <2>4. uploads' \in 0..MaxUploads /\ uploads <= uploads'
    BY <1>0, <2>2, DumpAssumption DEF DumpTypeOK
  <2> QED
    BY <1>1, <2>1, <2>2, <2>3, <2>4, <2>6
<1>3. CASE AuxWrites(u)
  <2> DEFINE m == [up[u].meta EXCEPT !.aux = TRUE]
             t == [up[u] EXCEPT !.pc = "meta", !.meta = m]
  <2>1. /\ up' = [up EXCEPT ![u].pc = "meta", ![u].meta.aux = TRUE] /\ up[u].pc = "aux"
        /\ UNCHANGED <<dumps, dumpFile, smeta, smetaTmp, savers, uploads, kept>>
    BY <1>3 DEF AuxWrites, UpAt
  <2>2. up' = [up EXCEPT ![u] = t]
    BY <2>1
  <2>3. Writing(u) /\ up[u].kind = "aux"
    BY <1>0, <2>1 DEF Writing, DumpSaves, UpAt
  <2>4. /\ up[u].meta \in Metas /\ up[u].meta.names = smeta.names
        /\ \A w \in Uploaders \ {u} : ~Writing(w)
    BY <1>0, <2>3 DEF AuxSaves
  <2>5. m \in Metas /\ m.names = smeta.names
    BY <2>4 DEF Metas
  <2> HIDE DEF m
  <2>6. t \in UpLocals /\ t.pc = "meta" /\ t.kind = "aux" /\ t.meta = m
    BY <1>0, <2>3, <2>5 DEF UpLocals
  <2>7. uploads' \in 0..MaxUploads /\ uploads <= uploads'
    BY <1>0, <2>1 DEF DumpTypeOK
  <2> HIDE DEF t
  <2> QED
    BY <1>1, <2>1, <2>2, <2>4, <2>5, <2>6, <2>7
<1> QED
  BY <1>2, <1>3

(* The session keeps its inductive invariant as long as no auxiliary save  *)
(* crosses another save and the process lives.                             *)
THEOREM SessionInvariant == DumpSpec => []DumpInv
<1>1. DumpInit => DumpInv
  <2>0. DumpInit => boots \in Nat
    BY DEF DumpInit
  <2> SUFFICES ASSUME DumpInit PROVE SessionInv /\ SavedDumpsKept
    BY <2>0 DEF DumpInv
  <2>1. NoUpload \in UpLocals /\ NoUpload.pc = "idle" /\ NoUpload.kind = "none"
    BY DEF NoUpload, UpLocals
  <2>2. DumpTypeOK
    BY <2>1, DumpAssumption DEF DumpInit, DumpTypeOK, Metas
  <2>3. FilesMatch /\ DumpSaves /\ AuxSaves /\ TmpOwned /\ SavedDumpsKept
    BY <2>1 DEF DumpInit, FilesMatch, DumpSaves, AuxSaves, TmpOwned, SavedDumpsKept, Writing, UpAt
  <2> QED
    BY <2>2, <2>3 DEF SessionInv
<1>2. DumpInv /\ [DumpNext]_dumpVars => DumpInv'
  <2>0. ASSUME DumpInv, [DumpNext]_dumpVars PROVE boots' \in Nat
    <3>1. CASE Boot
      BY <2>0, <3>1 DEF DumpInv, Boot
    <3>2. CASE ~Boot
      <4>1. UNCHANGED boots
        BY <2>0, <3>2 DEF DumpNext, dumpVars, AddDump, SaveBegins, WriteMissing, FilesDone,
           WriteTmp, RenameMeta, SaveGivesUp, AuxReads, AuxWrites
      <4> QED
        BY <2>0, <4>1 DEF DumpInv
    <3> QED
      BY <3>1, <3>2
  <2> SUFFICES ASSUME DumpInv, [DumpNext]_dumpVars, ~crossed', boots' = 0
               PROVE  SessionInv' /\ SavedDumpsKept'
    BY <2>0 DEF DumpInv, Undisturbed
  <2>1. CASE Boot
    BY <2>1 DEF Boot, DumpInv
  <2>2. CASE UNCHANGED dumpVars
    <3>1. SessionInv /\ SavedDumpsKept
      BY <2>2 DEF dumpVars, DumpInv, Undisturbed
    <3> QED
      BY <2>2, <3>1 DEF dumpVars, SessionInv, DumpTypeOK, FilesMatch, DumpSaves, AuxSaves, TmpOwned,
         SavedDumpsKept, Writing, UpAt
  <2>3. ASSUME NEW u \in Uploaders,
               \/ AddDump(u) \/ SaveBegins(u) \/ WriteMissing(u) \/ FilesDone(u)
               \/ WriteTmp(u) \/ RenameMeta(u) \/ SaveGivesUp(u) \/ AuxReads(u) \/ AuxWrites(u)
        PROVE  SessionInv' /\ SavedDumpsKept'
    <3>1. ~crossed /\ boots = 0
      <4>1. CASE SaveBegins(u)
        BY <4>1 DEF SaveBegins, Overlap
      <4>2. CASE AuxReads(u)
        BY <4>2 DEF AuxReads
      <4> QED
        BY <2>3, <4>1, <4>2 DEF AddDump, WriteMissing, FilesDone, WriteTmp, RenameMeta,
           SaveGivesUp, AuxWrites
    <3>2. SessionInv /\ SavedDumpsKept
      BY <3>1 DEF DumpInv, Undisturbed
    <3>3. SessionInv'
      BY <2>3, <3>2, AddDumpStep, SaveBeginsStep, SavingSteps, SaveEnds, AuxSteps
    <3>4. /\ \A d \in kept : \E i \in 1..smeta.names : dumpFile[i] = d
          /\ smeta.names \in Nat /\ kept \subseteq Nat
      BY <3>1, <3>2 DEF SavedDumpsKept, SessionInv, DumpTypeOK, Metas
    <3>5. CASE UNCHANGED <<dumpFile, smeta, kept>>
      BY <3>3, <3>4, <3>5 DEF SavedDumpsKept
    <3>6. CASE WriteMissing(u)
      <4>1. PICK i \in 1..Len(dumps) :
               dumpFile[i] = Missing /\ dumpFile' = [dumpFile EXCEPT ![i] = dumps[i]]
        BY <3>6 DEF WriteMissing
      <4>2. UNCHANGED <<smeta, kept>>
        BY <3>6 DEF WriteMissing
      <4>3. \A j : j # i /\ j \in DOMAIN dumpFile => dumpFile'[j] = dumpFile[j]
        BY <4>1
      <4>4. \A j \in 1..smeta.names : j \in DOMAIN dumpFile
        BY <3>2, <3>4, DumpAssumption DEF SessionInv, DumpTypeOK, Indices
      <4>5. \A d \in kept : \E j \in 1..smeta.names : dumpFile'[j] = d
        BY <3>4, <4>1, <4>3, <4>4, DumpAssumption
      <4> QED
        BY <3>3, <4>2, <4>5 DEF SavedDumpsKept
    <3>7. CASE RenameMeta(u) /\ smetaTmp # Missing
      <4>1. /\ smeta' = smetaTmp /\ up[u].pc = "rename" /\ UNCHANGED dumpFile
            /\ kept' = kept \cup (IF up[u].kind = "dump" THEN {up[u].dump} ELSE {})
        BY <3>7 DEF RenameMeta, UpAt
      <4>2. smetaTmp.names = up[u].meta.names /\ Writing(u)
        BY <3>2, <3>7, <4>1 DEF SessionInv, TmpOwned, UpAt, Writing
      <4>3. CASE up[u].kind = "aux"
        <5>1. smeta'.names = smeta.names /\ kept' = kept
          BY <3>2, <4>1, <4>2, <4>3 DEF SessionInv, AuxSaves
        <5> QED
          BY <3>3, <3>4, <4>1, <5>1 DEF SavedDumpsKept
      <4>4. CASE up[u].kind = "dump"
        <5>1. smeta'.names = Len(dumps) /\ kept' = kept \cup {up[u].dump}
          BY <3>2, <4>1, <4>2, <4>4 DEF SessionInv, DumpSaves
        <5>2. smeta.names <= Len(dumps) /\ Len(dumps) \in Nat
          BY <3>2 DEF SessionInv, DumpTypeOK
        <5>3. PICK i \in 1..Len(dumps) : dumps[i] = up[u].dump
          BY <3>2, <4>4 DEF SessionInv, DumpSaves
        <5>4. dumpFile[i] = up[u].dump
          <6>1. i \in Indices
            BY <3>2, DumpAssumption DEF SessionInv, DumpTypeOK, Indices
          <6>2. dumpFile[i] # Missing
            BY <3>2, <4>1, <4>4 DEF SessionInv, DumpSaves
          <6> QED
            BY <3>2, <5>3, <6>1, <6>2 DEF SessionInv, FilesMatch
        <5> QED
          BY <3>3, <3>4, <4>1, <5>1, <5>2, <5>4 DEF SavedDumpsKept
      <4> QED
        BY <3>2, <4>2, <4>3, <4>4 DEF SessionInv, DumpSaves
    <3> QED
      BY <2>3, <3>3, <3>5, <3>6, <3>7 DEF AddDump, SaveBegins, FilesDone, WriteTmp, RenameMeta,
         SaveGivesUp, AuxReads, AuxWrites
  <2> QED
    BY <2>1, <2>2, <2>3 DEF DumpNext
<1> QED
  BY <1>1, <1>2, PTL DEF DumpSpec

(* However uploads overlap, a dump whose save succeeded stays named by     *)
(* meta.json and its file is its own, unless an auxiliary save crossed     *)
(* another save or the process died.                                       *)
THEOREM DumpsKept == DumpSpec => []SavedDumpsKept
<1>1. DumpInv => SavedDumpsKept
  BY DEF DumpInv, Undisturbed, SavedDumpsKept
<1> QED
  BY <1>1, SessionInvariant, PTL

-----------------------------------------------------------------------------
(* The vault.                                                              *)

(* What a vault is written as, and what it is in memory.                   *)
VaultFile == [pass : Passes, secrets : SUBSET Refs]
VaultState == [pass : Passes \cup {Nothing}, secrets : SUBSET Refs]

ReqLocals ==
    [pc : {"idle", "open", "clear", "bind", "mutate", "save", "write", "rename"},
     op : {"none", "unlock", "lock", "set", "delete", "change", "migrate"},
     v : Nat, todo : SUBSET Refs, sets : SUBSET Refs, pass : Passes \cup {Nothing},
     content : VaultFile \cup {Nothing}, inode : Nat]

VaultTypeOK ==
    /\ vaults \in Seq(VaultState) /\ bound \in 0..Len(vaults)
    /\ inodes \in Seq(VaultFile \cup {Nothing})
    /\ vfile \in 0..Len(inodes) /\ vtmp \in 0..Len(inodes)
    /\ req \in [Clients -> ReqLocals]
    /\ \A c \in Clients : req[c].v <= Len(vaults)
    /\ stored \subseteq Refs /\ removed \subseteq Refs

Kept == stored \ removed

(* Unlocks and changes have a passphrase and nothing to set; a save comes  *)
(* after the last mutation.                                                *)
RequestsFormed ==
    \A c \in Clients :
        /\ req[c].pc = "open" => req[c].op = "unlock"
        /\ req[c].op \in {"unlock", "change"} =>
              req[c].sets = {} /\ req[c].todo = {} /\ req[c].pass \in Passes
        /\ req[c].pc \in {"save", "write", "rename"} => req[c].todo = {}

(* The Vault in use knows every secret kept, and those its requests set.   *)
UsedIsCurrent ==
    /\ \A v, w \in InUse : v = w
    /\ \A v \in InUse : Kept \subseteq vaults[v].secrets
    /\ \A c \in Clients : req[c].v \in InUse =>
          (req[c].sets \ req[c].todo) \ removed \subseteq vaults[req[c].v].secrets

SavingReq(c) == req[c].pc \in {"write", "rename"}

(* One request saves: the Vault in use, as it is, to the temporary file.   *)
SaverAlone ==
    /\ \A c, d \in Clients : SavingReq(c) /\ SavingReq(d) => c = d
    /\ \A c \in Clients : SavingReq(c) =>
          /\ req[c].v \in InUse /\ req[c].content = vaults[req[c].v]
          /\ vtmp # 0 /\ req[c].inode = vtmp
          /\ req[c].pc = "rename" => inodes[vtmp] = req[c].content

(* The vault file is whole, apart from the temporary one, and has every    *)
(* secret kept.                                                            *)
FileCurrent ==
    /\ vfile # 0 => vfile # vtmp /\ inodes[vfile] \in VaultFile
    /\ Kept \subseteq IF vfile = 0 THEN {} ELSE inodes[vfile].secrets

VaultFacts == VaultTypeOK /\ RequestsFormed /\ UsedIsCurrent /\ SaverAlone /\ FileCurrent

VaultInv == hazard = {} => VaultFacts

(* A Vault in use.                                                         *)
LEMMA UsedVault ==
  ASSUME NEW v
  PROVE  v \in InUse <=> (/\ v \in 1..Len(vaults) /\ vaults[v].pass # Nothing
                         /\ (bound = v \/ \E c \in Clients : req[c].v = v))
  BY DEF InUse, Closed

(* The same after a step.                                                  *)
LEMMA UsedVaultNext ==
  ASSUME NEW v
  PROVE  v \in InUse' <=> (/\ v \in 1..Len(vaults') /\ vaults'[v].pass # Nothing
                          /\ (bound' = v \/ \E c \in Clients : req'[c].v = v))
  BY DEF InUse, Closed

(* What an update of one element leaves of a sequence.                     *)
LEMMA UpdateEffect ==
  ASSUME NEW S, NEW s \in Seq(S), NEW i \in 1..Len(s), NEW x \in S, NEW r, r = [s EXCEPT ![i] = x]
  PROVE  /\ r \in Seq(S) /\ Len(r) = Len(s) /\ Len(s) \in Nat
         /\ r[i] = x /\ \A j \in 1..Len(s) : j # i => r[j] = s[j]
  OBVIOUS

(* A request that moves on, on the Vault it has or on the bound one, or    *)
(* ends; nothing else changes.                                             *)
LEMMA ReqKeeps ==
  ASSUME VaultFacts, NEW c \in Clients, NEW t \in ReqLocals, req' = [req EXCEPT ![c] = t],
         UNCHANGED <<vaults, bound, vaultFiles, stored, removed>>,
         t.v \in {0, bound, req[c].v}, t.pc \notin {"write", "rename"},
         t.pc = "open" => t.op = "unlock",
         t.op \in {"unlock", "change"} => t.sets = {} /\ t.todo = {} /\ t.pass \in Passes,
         t.pc = "save" => t.todo = {},
         t.v \in InUse => (t.sets \ t.todo) \ removed \subseteq vaults[t.v].secrets
  PROVE  VaultFacts'
<1>0. VaultTypeOK /\ RequestsFormed /\ UsedIsCurrent /\ SaverAlone /\ FileCurrent
  BY DEF VaultFacts
<1>1. req' \in [Clients -> ReqLocals] /\ req'[c] = t /\ \A d \in Clients \ {c} : req'[d] = req[d]
  BY <1>0 DEF VaultTypeOK
<1>2. Len(vaults) \in Nat /\ t.v <= Len(vaults)
  BY <1>0 DEF VaultTypeOK
<1>3. VaultTypeOK'
  BY <1>0, <1>1, <1>2 DEF VaultTypeOK, vaultFiles
<1>4. RequestsFormed'
  BY <1>0, <1>1 DEF RequestsFormed
<1>5. InUse' \subseteq InUse
  <2> SUFFICES ASSUME NEW v \in InUse' PROVE v \in InUse
    OBVIOUS
  <2>1. v \in 1..Len(vaults) /\ vaults[v].pass # Nothing /\ (bound = v \/ \E d \in Clients : req'[d].v = v)
    BY UsedVaultNext
  <2>2. bound = v \/ \E d \in Clients : req[d].v = v
    BY <1>1, <2>1
  <2> QED
    BY <2>1, <2>2, UsedVault
<1>6. UsedIsCurrent'
  BY <1>0, <1>1, <1>5 DEF UsedIsCurrent, Kept
<1>7. SaverAlone'
  <2>1. \A d \in Clients : SavingReq(d)' => d # c /\ SavingReq(d)
    BY <1>1 DEF SavingReq
  <2>2. ASSUME NEW d \in Clients, SavingReq(d)' PROVE req'[d] = req[d] /\ req[d].v \in InUse'
    <3>1. req'[d] = req[d] /\ req[d].v \in InUse
      BY <1>0, <1>1, <2>1, <2>2 DEF SaverAlone
    <3>2. req'[d].v = req[d].v
      BY <3>1
    <3> QED
      BY <3>1, <3>2, UsedVault, UsedVaultNext
  <2> QED
    BY <1>0, <2>1, <2>2 DEF SaverAlone, vaultFiles, SavingReq
<1>8. FileCurrent'
  BY <1>0 DEF FileCurrent, vaultFiles, Kept
<1> QED
  BY <1>3, <1>4, <1>6, <1>7, <1>8 DEF VaultFacts

(* The first step of a request.                                            *)
LEMMA AskStep ==
  ASSUME VaultFacts, NEW c \in Clients,
         \/ ConfigureAsked(c) \/ MigrateAsked(c) \/ LockAsked(c)
         \/ \E p \in Passes : ChangeAsked(c, p) \/ UnlockAsked(c, p)
         \/ \E r \in Refs : SetAsked(c, r) \/ DeleteAsked(c, r)
  PROVE  VaultFacts'
<1>0. bound \in Nat /\ Nothing \in Passes \cup {Nothing}
  BY DEF VaultFacts, VaultTypeOK
<1>1. ASSUME NEW op, NEW refs \in SUBSET Refs, NEW sets \in SUBSET Refs,
             NEW o \in {"set", "delete", "migrate"}, sets \subseteq refs,
             Asks(c, op, OnBound(o, refs, sets))
      PROVE  VaultFacts'
  <2> DEFINE t == OnBound(o, refs, sets)
  <2>1. t.pc = "mutate" /\ t.op = o /\ t.v = bound /\ t.todo = refs /\ t.sets = sets
    BY DEF OnBound, NoRequest
  <2>2. t \in ReqLocals
    <3>1. NoRequest \in ReqLocals
      BY DEF NoRequest, ReqLocals
    <3> QED
      BY <1>0, <1>1, <3>1 DEF ReqLocals, OnBound
  <2> HIDE DEF t
  <2>3. req' = [req EXCEPT ![c] = t] /\ UNCHANGED <<vaults, bound, vaultFiles, stored, removed>>
    BY <1>1 DEF Asks, t
  <2>4. t.sets \ t.todo = {}
    BY <1>1, <2>1
  <2>5. t.v = bound /\ t.pc = "mutate" /\ t.op \in {"set", "delete", "migrate"}
    BY <2>1
  <2> QED
    BY <2>2, <2>3, <2>4, <2>5, ReqKeeps
<1>2. ASSUME NEW op, NEW p,
             \/ /\ p \in Passes
                /\ \/ Asks(c, op, [OnBound("change", {}, {}) EXCEPT !.pass = p])
                   \/ Asks(c, op, [NoRequest EXCEPT !.pc = "open", !.op = "unlock", !.pass = p])
             \/ Asks(c, op, [NoRequest EXCEPT !.pc = "clear", !.op = "lock"])
      PROVE  VaultFacts'
  <2>1. ASSUME NEW t \in ReqLocals, Asks(c, op, t), t.v \in {0, bound}, t.sets = {}, t.todo = {},
               t.pc \in {"mutate", "open", "clear"}, t.pc = "open" => t.op = "unlock",
               t.op \in {"unlock", "change"} => t.pass \in Passes
        PROVE  VaultFacts'
    BY <2>1, ReqKeeps DEF Asks
  <2>2. NoRequest \in ReqLocals /\ NoRequest.v = 0 /\ NoRequest.sets = {} /\ NoRequest.todo = {}
    BY DEF NoRequest, ReqLocals
  <2>3. CASE p \in Passes /\ Asks(c, op, [OnBound("change", {}, {}) EXCEPT !.pass = p])
    <3> DEFINE b == OnBound("change", {}, {})
               t == [b EXCEPT !.pass = p]
    <3>1. b.pc = "mutate" /\ b.op = "change" /\ b.v = bound /\ b.todo = {} /\ b.sets = {}
      BY DEF OnBound, NoRequest
    <3>2. b \in ReqLocals
      BY <1>0, <2>2 DEF ReqLocals, OnBound
    <3>3. Asks(c, op, t)
      BY <2>3
    <3> HIDE DEF b
    <3>4. /\ t \in ReqLocals /\ t.pc = "mutate" /\ t.v = bound /\ t.todo = {} /\ t.sets = {}
          /\ t.pass = p
      BY <2>3, <3>1, <3>2 DEF ReqLocals
    <3> HIDE DEF t
    <3> QED
      BY <2>1, <2>3, <3>3, <3>4
  <2>4. CASE p \in Passes
             /\ Asks(c, op, [NoRequest EXCEPT !.pc = "open", !.op = "unlock", !.pass = p])
    <3> DEFINE t == [NoRequest EXCEPT !.pc = "open", !.op = "unlock", !.pass = p]
    <3>1. t \in ReqLocals /\ t.pc = "open" /\ t.op = "unlock" /\ t.pass \in Passes
      BY <2>2, <2>4 DEF ReqLocals
    <3>2. t.v = 0 /\ t.sets = {} /\ t.todo = {}
      BY <2>2 DEF ReqLocals
    <3>3. Asks(c, op, t)
      BY <2>4
    <3> HIDE DEF t
    <3> QED
      BY <2>1, <3>1, <3>2, <3>3
  <2>5. CASE Asks(c, op, [NoRequest EXCEPT !.pc = "clear", !.op = "lock"])
    <3> DEFINE t == [NoRequest EXCEPT !.pc = "clear", !.op = "lock"]
    <3>1. t \in ReqLocals /\ t.pc = "clear" /\ t.op = "lock"
      BY <2>2 DEF ReqLocals
    <3>2. t.v = 0 /\ t.sets = {} /\ t.todo = {}
      BY <2>2 DEF ReqLocals
    <3>3. Asks(c, op, t)
      BY <2>5
    <3> HIDE DEF t
    <3> QED
      BY <2>1, <3>1, <3>2, <3>3
  <2> QED
    BY <1>2, <2>3, <2>4, <2>5
<1>3. Candidates \subseteq Refs
  BY DEF Candidates
<1>4. CASE ConfigureAsked(c)
  BY <1>1, <1>4 DEF ConfigureAsked
<1>5. CASE MigrateAsked(c)
  BY <1>1, <1>3, <1>5 DEF MigrateAsked
<1>6. CASE LockAsked(c)
  BY <1>2, <1>6 DEF LockAsked
<1>7. ASSUME NEW p \in Passes, ChangeAsked(c, p) \/ UnlockAsked(c, p) PROVE VaultFacts'
  BY <1>2, <1>7 DEF ChangeAsked, UnlockAsked
<1>8. ASSUME NEW r \in Refs, SetAsked(c, r) \/ DeleteAsked(c, r) PROVE VaultFacts'
  BY <1>1, <1>8 DEF SetAsked, DeleteAsked
<1> QED
  BY <1>4, <1>5, <1>6, <1>7, <1>8

(* The bound Vault is closed, or replaced by the one a request opened,     *)
(* while no request saves it.                                              *)
LEMMA BindStep ==
  ASSUME VaultFacts, NEW n \in 0..Len(vaults), Bind(n),
         n = 0 \/ \E c \in Clients : req[c].v = n,
         bound # 0 => ~Saving(bound),
         UNCHANGED <<vaultFiles, stored, removed>>,
         UNCHANGED req \/ \E c \in Clients : ~SavingReq(c) /\ req' = [req EXCEPT ![c] = NoRequest]
  PROVE  VaultFacts'
<1>0. VaultTypeOK /\ RequestsFormed /\ UsedIsCurrent /\ SaverAlone /\ FileCurrent
  BY DEF VaultFacts
<1>1. /\ vaults' \in Seq(VaultState) /\ Len(vaults') = Len(vaults) /\ Len(vaults) \in Nat
      /\ \A v \in 1..Len(vaults) : v # bound => vaults'[v] = vaults[v]
      /\ bound # 0 => vaults'[bound].pass = Nothing
  <2>1. CASE bound = 0
    BY <1>0, <2>1 DEF Bind, VaultTypeOK
  <2>2. CASE bound # 0
    <3> DEFINE x == [pass |-> Nothing, secrets |-> {}]
    <3>1. x \in VaultState /\ x.pass = Nothing
      BY DEF VaultState
    <3>2. vaults' = [vaults EXCEPT ![bound] = x] /\ bound \in 1..Len(vaults) /\ vaults \in Seq(VaultState)
      BY <1>0, <2>2 DEF Bind, VaultTypeOK
    <3> HIDE DEF x
    <3> QED
      BY <3>1, <3>2, UpdateEffect
  <2> QED
    BY <2>1, <2>2
<1>2. NoRequest \in ReqLocals /\ NoRequest.v = 0 /\ NoRequest.pc = "idle" /\ NoRequest.op = "none"
  BY DEF NoRequest, ReqLocals
<1>3. /\ req' \in [Clients -> ReqLocals]
      /\ \A d \in Clients : req'[d] = req[d] \/ (req'[d] = NoRequest /\ ~SavingReq(d))
  BY <1>0, <1>2 DEF VaultTypeOK
<1>4. VaultTypeOK'
  <2>1. \A d \in Clients : req'[d].v <= Len(vaults')
    BY <1>0, <1>1, <1>2, <1>3 DEF VaultTypeOK
  <2> QED
    BY <1>0, <1>1, <1>3, <2>1 DEF VaultTypeOK, Bind, vaultFiles
<1>5. RequestsFormed'
  BY <1>0, <1>2, <1>3 DEF RequestsFormed
<1>6. \A v \in InUse' : v \in InUse /\ v # bound /\ vaults'[v] = vaults[v]
  <2> SUFFICES ASSUME NEW v \in InUse' PROVE v \in InUse /\ v # bound /\ vaults'[v] = vaults[v]
    OBVIOUS
  <2>1. v \in 1..Len(vaults) /\ vaults'[v].pass # Nothing
        /\ (n = v \/ \E c \in Clients : req'[c].v = v)
    BY <1>1, UsedVaultNext DEF Bind
  <2>2. v # bound /\ vaults'[v] = vaults[v]
    BY <1>1, <2>1
  <2>3. \E c \in Clients : req[c].v = v
    BY <1>2, <1>3, <2>1
  <2> QED
    BY <2>1, <2>2, <2>3, UsedVault
<1>7. UsedIsCurrent'
  <2>1. \A c \in Clients : req'[c].v \in InUse' => req'[c] = req[c]
    BY <1>2, <1>3, <1>6, UsedVault
  <2> QED
    BY <1>0, <1>6, <2>1 DEF UsedIsCurrent, Kept
<1>8. SaverAlone'
  <2>1. \A d \in Clients : SavingReq(d)' => SavingReq(d) /\ req'[d] = req[d]
    BY <1>2, <1>3 DEF SavingReq
  <2>2. ASSUME NEW d \in Clients, SavingReq(d)'
        PROVE  req'[d].v \in InUse' /\ vaults'[req[d].v] = vaults[req[d].v]
    <3>1. req[d].v \in InUse /\ SavingReq(d)
      BY <1>0, <2>1, <2>2 DEF SaverAlone
    <3>2. req[d].v \in 1..Len(vaults) /\ vaults[req[d].v].pass # Nothing
      BY <3>1, UsedVault
    <3>3. req[d].v # bound
      BY <3>1, <3>2 DEF Saving, SavingReq
    <3>4. vaults'[req[d].v] = vaults[req[d].v] /\ req'[d].v = req[d].v
      BY <1>1, <2>1, <2>2, <3>2, <3>3
    <3>5. req'[d].v \in 1..Len(vaults') /\ vaults'[req'[d].v].pass # Nothing
      BY <1>1, <3>2, <3>4
    <3> QED
      BY <3>4, <3>5, UsedVaultNext
  <2> QED
    BY <1>0, <2>1, <2>2 DEF SaverAlone, vaultFiles
<1>9. FileCurrent'
  BY <1>0 DEF FileCurrent, vaultFiles, Kept
<1> QED
  BY <1>4, <1>5, <1>7, <1>8, <1>9 DEF VaultFacts

(* A Vault is opened, or created, while none is in use: it has what the    *)
(* file has.                                                               *)
LEMMA OpenStep ==
  ASSUME VaultFacts, NEW c \in Clients, OpenVault(c), hazard' = {}
  PROVE  VaultFacts'
<1>0. /\ VaultTypeOK /\ RequestsFormed /\ UsedIsCurrent /\ SaverAlone /\ FileCurrent
      /\ req[c] \in ReqLocals /\ Len(vaults) \in Nat
  BY DEF VaultFacts, VaultTypeOK
<1>1. /\ req[c].pc = "open" /\ UNCHANGED <<bound, vaultFiles, stored, removed>> /\ InUse = {}
      /\ req[c].op = "unlock" /\ req[c].sets = {} /\ req[c].todo = {} /\ req[c].pass \in Passes
  BY <1>0 DEF OpenVault, RequestsFormed
<1>2. \A d \in Clients : ~SavingReq(d)
  BY <1>0, <1>1 DEF SaverAlone
<1>3. ASSUME ReqEnds(c), UNCHANGED vaults PROVE VaultFacts'
  <2>1. NoRequest \in ReqLocals /\ NoRequest.v = 0 /\ NoRequest.pc = "idle" /\ NoRequest.op = "none"
        /\ NoRequest.sets = {}
    BY DEF NoRequest, ReqLocals
  <2> QED
    BY <1>1, <1>3, <2>1, ReqKeeps DEF ReqEnds
<1>4. ASSUME NEW x \in VaultFile, vaults' = Append(vaults, x), NEW pc \in {"bind", "save"},
             req' = [req EXCEPT ![c].pc = pc, ![c].v = Len(vaults) + 1],
             Kept \subseteq x.secrets
      PROVE  VaultFacts'
  <2> DEFINE n == Len(vaults) + 1
             t == [req[c] EXCEPT !.pc = pc, !.v = n]
  <2>1. req' = [req EXCEPT ![c] = t]
    BY <1>4
  <2>2. n \in Nat
    BY <1>0
  <2>3. /\ x \in VaultState /\ vaults' \in Seq(VaultState) /\ Len(vaults') = n /\ vaults'[n] = x
        /\ \A v \in 1..Len(vaults) : vaults'[v] = vaults[v]
    <3>1. x \in VaultState
      BY DEF VaultFile, VaultState
    <3> QED
      BY <1>0, <1>4, <3>1 DEF VaultTypeOK
  <2>4. \A v : v \in 1..Len(vaults') <=> v \in 1..Len(vaults) \/ v = n
    BY <1>0, <2>3
  <2>5. \A d \in Clients : req[d].v <= Len(vaults)
    BY <1>0 DEF VaultTypeOK
  <2>6. Len(vaults) <= n
    BY <1>0
  <2> HIDE DEF n
  <2>7. /\ t \in ReqLocals /\ t.pc = pc /\ t.v = n /\ t.op = req[c].op /\ t.sets = req[c].sets
        /\ t.todo = req[c].todo /\ t.pass = req[c].pass
    BY <1>0, <2>2 DEF ReqLocals
  <2> HIDE DEF t
  <2>8. req' \in [Clients -> ReqLocals] /\ req'[c] = t /\ \A d \in Clients \ {c} : req'[d] = req[d]
    BY <1>0, <2>1, <2>7 DEF VaultTypeOK
  <2>9. VaultTypeOK'
    <3>0. \A d \in Clients : req[d].v \in Nat /\ req[d].v <= n
      BY <1>0, <2>2, <2>5, <2>6 DEF VaultTypeOK, ReqLocals
    <3>1. \A d \in Clients : req'[d].v <= Len(vaults')
      <4>1. n <= n
        BY <2>2
      <4> QED
        BY <2>3, <2>7, <2>8, <3>0, <4>1
    <3>2. bound' \in 0..Len(vaults')
      BY <1>0, <1>1, <2>2, <2>3, <2>6 DEF VaultTypeOK
    <3> QED
      BY <1>0, <1>1, <2>3, <2>8, <3>1, <3>2 DEF VaultTypeOK, vaultFiles
  <2>10. RequestsFormed'
    BY <1>0, <1>1, <2>7, <2>8 DEF RequestsFormed
  <2>11. \A v \in InUse' : v = n
    <3> SUFFICES ASSUME NEW v \in InUse', v # n PROVE FALSE
      OBVIOUS
    <3>1. v \in 1..Len(vaults) /\ vaults[v].pass # Nothing
          /\ (bound = v \/ \E d \in Clients : req'[d].v = v)
      BY <1>1, <2>3, <2>4, UsedVaultNext
    <3>2. bound = v \/ \E d \in Clients : req[d].v = v
      BY <2>7, <2>8, <3>1
    <3>3. v \in InUse
      BY <3>1, <3>2, UsedVault
    <3> QED
      BY <1>1, <3>3
  <2>12. \A d \in Clients : req'[d].v = n => d = c
    BY <1>0, <2>2, <2>5, <2>8, <2>3 DEF n, VaultTypeOK, ReqLocals
  <2>13. UsedIsCurrent'
    BY <1>1, <1>4, <2>3, <2>7, <2>8, <2>11, <2>12 DEF UsedIsCurrent, Kept
  <2>14. SaverAlone'
    BY <1>2, <2>7, <2>8 DEF SaverAlone, SavingReq
  <2>15. FileCurrent'
    BY <1>0, <1>1 DEF FileCurrent, vaultFiles, Kept
  <2> QED
    BY <2>9, <2>10, <2>13, <2>14, <2>15 DEF VaultFacts
<1>5. CASE /\ Contents(vfile) # Nothing /\ vaults' = Append(vaults, Contents(vfile))
           /\ req' = [req EXCEPT ![c].pc = "bind", ![c].v = Len(vaults) + 1]
  <2>1. Contents(vfile) \in VaultFile /\ Kept \subseteq Contents(vfile).secrets
    BY <1>0, <1>5 DEF Contents, FileCurrent
  <2> QED
    BY <1>4, <1>5, <2>1
<1>6. CASE /\ vfile = 0 /\ vaults' = Append(vaults, [pass |-> req[c].pass, secrets |-> {}])
           /\ req' = [req EXCEPT ![c].pc = "save", ![c].v = Len(vaults) + 1]
  <2> DEFINE x == [pass |-> req[c].pass, secrets |-> {}]
  <2>1. x \in VaultFile /\ x.secrets = {}
    BY <1>1 DEF VaultFile
  <2>2. Kept \subseteq {}
    BY <1>0, <1>6 DEF FileCurrent
  <2>3. vaults' = Append(vaults, x)
    BY <1>6
  <2> HIDE DEF x
  <2> QED
    BY <1>4, <1>6, <2>1, <2>2, <2>3
<1> QED
  BY <1>3, <1>5, <1>6 DEF OpenVault

(* A request changes the Vault it holds, which nobody saves, and moves on: *)
(* the Vault loses only secrets somebody asked to delete.                  *)
LEMMA ChangeStep ==
  ASSUME VaultFacts, NEW c \in Clients, NEW t \in ReqLocals, NEW v, v = req[c].v, Owns(c),
         NEW x \in VaultState, vaults' = [vaults EXCEPT ![v] = x],
         x.pass = Nothing <=> vaults[v].pass = Nothing,
         req' = [req EXCEPT ![c] = t], t.v = v, t.pc \in {"mutate", "save"},
         t.op \in {"unlock", "change"} => t.sets = {} /\ t.todo = {} /\ t.pass \in Passes,
         t.pc = "save" => t.todo = {},
         UNCHANGED <<bound, vaultFiles, stored>>,
         removed \subseteq removed', removed' \subseteq Refs,
         vaults[v].secrets \ removed' \subseteq x.secrets,
         v \in InUse => (t.sets \ t.todo) \ removed' \subseteq x.secrets
  PROVE  VaultFacts'
<1>0. VaultTypeOK /\ RequestsFormed /\ UsedIsCurrent /\ SaverAlone /\ FileCurrent
  BY DEF VaultFacts
<1>1. req' \in [Clients -> ReqLocals] /\ req'[c] = t /\ \A d \in Clients \ {c} : req'[d] = req[d]
  BY <1>0 DEF VaultTypeOK
<1>2. \A d \in Clients : req'[d].v = req[d].v
  BY <1>1
<1>3. v \in 1..Len(vaults)
  <2>1. v \in Nat /\ v <= Len(vaults) /\ v # 0 /\ Len(vaults) \in Nat
    BY <1>0 DEF VaultTypeOK, ReqLocals, Owns
  <2> QED
    BY <2>1
<1>4. /\ vaults' \in Seq(VaultState) /\ Len(vaults') = Len(vaults) /\ vaults'[v] = x
      /\ \A w \in 1..Len(vaults) : w # v => vaults'[w] = vaults[w]
  <2>1. vaults \in Seq(VaultState)
    BY <1>0 DEF VaultTypeOK
  <2> QED
    BY <1>3, <2>1, UpdateEffect
<1>5. \A w : w \in InUse' <=> w \in InUse
  <2> TAKE w
  <2>1. w \in 1..Len(vaults) => (vaults'[w].pass = Nothing <=> vaults[w].pass = Nothing)
    BY <1>4
  <2> QED
    BY <1>2, <1>4, <2>1, UsedVault, UsedVaultNext
<1>6. VaultTypeOK'
  <2>1. \A d \in Clients : req'[d].v <= Len(vaults')
    BY <1>0, <1>2, <1>4 DEF VaultTypeOK
  <2> QED
    BY <1>0, <1>1, <1>4, <2>1 DEF VaultTypeOK, vaultFiles
<1>7. RequestsFormed'
  BY <1>0, <1>1 DEF RequestsFormed
<1>8. Kept' \subseteq Kept
  BY DEF Kept
<1>9. \A w \in InUse : vaults[w].secrets \ removed' \subseteq vaults'[w].secrets
  BY <1>4, UsedVault
<1>10. UsedIsCurrent'
  <2>1. \A w \in InUse' : Kept' \subseteq vaults'[w].secrets
    BY <1>0, <1>5, <1>8, <1>9 DEF UsedIsCurrent, Kept
  <2>2. ASSUME NEW d \in Clients, req'[d].v \in InUse'
        PROVE  (req'[d].sets \ req'[d].todo) \ removed' \subseteq vaults'[req'[d].v].secrets
    <3>1. CASE d = c
      BY <1>1, <1>4, <1>5, <2>2, <3>1
    <3>2. CASE d # c
      <4>1. req'[d] = req[d] /\ req[d].v \in InUse
        BY <1>1, <1>5, <2>2, <3>2
      <4> QED
        BY <1>0, <1>9, <4>1 DEF UsedIsCurrent
    <3> QED
      BY <3>1, <3>2
  <2> QED
    BY <1>0, <1>5, <2>1, <2>2 DEF UsedIsCurrent
<1>11. SaverAlone'
  <2>1. \A d \in Clients : SavingReq(d)' => SavingReq(d) /\ req'[d] = req[d] /\ req[d].v # v
    BY <1>1 DEF SavingReq, Owns, Saving
  <2>2. ASSUME NEW d \in Clients, SavingReq(d)'
        PROVE  req'[d].v \in InUse' /\ vaults'[req[d].v] = vaults[req[d].v]
    <3>1. req[d].v \in InUse /\ req[d].v # v /\ req'[d].v = req[d].v
      BY <1>0, <2>1, <2>2 DEF SaverAlone
    <3> QED
      BY <1>4, <1>5, <3>1, UsedVault
  <2> QED
    BY <1>0, <2>1, <2>2 DEF SaverAlone, vaultFiles
<1>12. FileCurrent'
  BY <1>0, <1>8 DEF FileCurrent, vaultFiles
<1> QED
  BY <1>6, <1>7, <1>10, <1>11, <1>12 DEF VaultFacts

(* Set, Delete and the migration of one credential.                        *)
LEMMA MutateStep ==
  ASSUME VaultFacts, NEW c \in Clients, NEW r \in Refs, MutateOne(c, r) \/ MigrateOne(c, r)
  PROVE  VaultFacts'
<1> DEFINE v == req[c].v
           gone == req[c].op = "delete"
           S == IF gone THEN vaults[v].secrets \ {r} ELSE vaults[v].secrets \cup {r}
           x == [vaults[v] EXCEPT !.secrets = S]
           t == [req[c] EXCEPT !.todo = @ \ {r}]
<1>0. VaultTypeOK /\ RequestsFormed /\ UsedIsCurrent /\ req[c] \in ReqLocals
  BY DEF VaultFacts, VaultTypeOK
<1>1. /\ vaults' = [vaults EXCEPT ![v] = x] /\ req' = [req EXCEPT ![c] = t]
      /\ removed' = IF gone THEN removed \cup {r} ELSE removed
      /\ Owns(c) /\ req[c].pc = "mutate" /\ r \in req[c].todo
      /\ UNCHANGED <<bound, vaultFiles, stored>>
  BY DEF MutateOne, MigrateOne
<1>2. v \in 1..Len(vaults)
  <2>1. v \in Nat /\ v <= Len(vaults) /\ v # 0 /\ Len(vaults) \in Nat
    BY <1>0, <1>1 DEF VaultTypeOK, ReqLocals, Owns
  <2> QED
    BY <2>1
<1>3. vaults[v] \in VaultState
  BY <1>0, <1>2 DEF VaultTypeOK
<1>4. S \in SUBSET Refs
  BY <1>3 DEF VaultState
<1>5. /\ t \in ReqLocals /\ t.v = v /\ t.pc = "mutate" /\ t.op = req[c].op /\ t.sets = req[c].sets
      /\ t.pass = req[c].pass /\ t.todo = req[c].todo \ {r}
  BY <1>0, <1>1 DEF ReqLocals
<1>6. /\ removed \subseteq removed' /\ removed' \subseteq Refs
      /\ vaults[v].secrets \ removed' \subseteq S
      /\ r \in S \/ r \in removed'
  BY <1>0, <1>1 DEF VaultTypeOK
<1> HIDE DEF S, t
<1>7. x \in VaultState /\ x.pass = vaults[v].pass /\ x.secrets = S
  BY <1>3, <1>4 DEF VaultState
<1> HIDE DEF x
<1>8. t.op \in {"unlock", "change"} => t.sets = {} /\ t.todo = {} /\ t.pass \in Passes
  BY <1>0, <1>5 DEF RequestsFormed
<1>9. v \in InUse => (t.sets \ t.todo) \ removed' \subseteq x.secrets
  <2>1. v \in InUse => (req[c].sets \ req[c].todo) \ removed \subseteq vaults[v].secrets
    BY <1>0 DEF UsedIsCurrent
  <2> QED
    BY <1>5, <1>6, <1>7, <2>1
<1> QED
  BY <1>1, <1>5, <1>6, <1>7, <1>8, <1>9, ChangeStep

(* The passphrase of an open Vault is swapped.                             *)
LEMMA SwapStep ==
  ASSUME VaultFacts, NEW c \in Clients, SwapPass(c), hazard' = {}
  PROVE  VaultFacts'
<1> DEFINE v == req[c].v
           x == [vaults[v] EXCEPT !.pass = req[c].pass]
           t == [req[c] EXCEPT !.pc = "save"]
<1>0. VaultTypeOK /\ RequestsFormed /\ UsedIsCurrent /\ req[c] \in ReqLocals
  BY DEF VaultFacts, VaultTypeOK
<1>1. /\ vaults' = [vaults EXCEPT ![v] = x] /\ req' = [req EXCEPT ![c] = t]
      /\ Owns(c) /\ req[c].op = "change" /\ vaults[v].pass # Nothing
      /\ UNCHANGED <<bound, vaultFiles, stored, removed>>
  BY DEF SwapPass, ReqGoes, Closed
<1>2. v \in 1..Len(vaults)
  <2>1. v \in Nat /\ v <= Len(vaults) /\ v # 0 /\ Len(vaults) \in Nat
    BY <1>0, <1>1 DEF VaultTypeOK, ReqLocals, Owns
  <2> QED
    BY <2>1
<1>3. vaults[v] \in VaultState
  BY <1>0, <1>2 DEF VaultTypeOK
<1>4. req[c].pass \in Passes /\ req[c].sets = {} /\ req[c].todo = {}
  BY <1>0, <1>1 DEF RequestsFormed
<1>5. /\ t \in ReqLocals /\ t.v = v /\ t.pc = "save" /\ t.op = req[c].op /\ t.sets = req[c].sets
      /\ t.pass = req[c].pass /\ t.todo = req[c].todo
  BY <1>0 DEF ReqLocals
<1> HIDE DEF t
<1>6. x \in VaultState /\ x.pass = req[c].pass /\ x.secrets = vaults[v].secrets
  BY <1>3, <1>4 DEF VaultState
<1>7. x.pass # Nothing
  BY <1>4, <1>6, VaultAssumption
<1> HIDE DEF x
<1>8. removed \subseteq removed' /\ removed' \subseteq Refs
  BY <1>0, <1>1 DEF VaultTypeOK
<1> QED
  BY <1>1, <1>4, <1>5, <1>6, <1>7, <1>8, ChangeStep

(* The last mutation is done, or the save of a closed Vault is refused.    *)
LEMMA DoneStep ==
  ASSUME VaultFacts, NEW c \in Clients, MutationsDone(c) \/ SaveRefused(c)
  PROVE  VaultFacts'
<1>0. VaultTypeOK /\ RequestsFormed /\ UsedIsCurrent /\ req[c] \in ReqLocals
  BY DEF VaultFacts, VaultTypeOK
<1>1. CASE MutationsDone(c)
  <2> DEFINE t == [req[c] EXCEPT !.pc = "save"]
  <2>1. /\ req' = [req EXCEPT ![c] = t] /\ UNCHANGED <<vaults, bound, vaultFiles, stored, removed>>
        /\ req[c].todo = {}
    BY <1>1 DEF MutationsDone, ReqGoes
  <2>2. /\ t \in ReqLocals /\ t.v = req[c].v /\ t.pc = "save" /\ t.op = req[c].op
        /\ t.sets = req[c].sets /\ t.pass = req[c].pass /\ t.todo = req[c].todo
    BY <1>0 DEF ReqLocals
  <2> HIDE DEF t
  <2>3. t.op \in {"unlock", "change"} => t.sets = {} /\ t.todo = {} /\ t.pass \in Passes
    BY <1>0, <2>2 DEF RequestsFormed
  <2>4. t.v \in InUse => (t.sets \ t.todo) \ removed \subseteq vaults[t.v].secrets
    BY <1>0, <2>2 DEF UsedIsCurrent
  <2> QED
    BY <2>1, <2>2, <2>3, <2>4, ReqKeeps
<1>2. CASE SaveRefused(c)
  <2>1. NoRequest \in ReqLocals /\ NoRequest.v = 0 /\ NoRequest.pc = "idle" /\ NoRequest.op = "none"
        /\ NoRequest.sets = {}
    BY DEF NoRequest, ReqLocals
  <2> QED
    BY <1>2, <2>1, ReqKeeps DEF ReqEnds, SaveRefused
<1> QED
  BY <1>1, <1>2

(* A request that saves is the only one, and what it saves is whole.       *)
LEMMA SaverFacts ==
  ASSUME VaultFacts, NEW c \in Clients, req[c].v \in InUse
  PROVE  /\ vaults[req[c].v] \in VaultFile /\ req[c].v # 0
         /\ \A d \in Clients : SavingReq(d) => req[d].v = req[c].v
<1>0. VaultTypeOK /\ UsedIsCurrent /\ SaverAlone
  BY DEF VaultFacts
<1>1. req[c].v \in 1..Len(vaults) /\ vaults[req[c].v].pass # Nothing
  BY UsedVault
<1>2. vaults[req[c].v] \in VaultState
  BY <1>0, <1>1 DEF VaultTypeOK
<1>3. vaults[req[c].v] \in VaultFile
  BY <1>1, <1>2 DEF VaultFile, VaultState
<1>4. req[c].v # 0
  BY <1>1
<1> QED
  BY <1>0, <1>3, <1>4 DEF SaverAlone, UsedIsCurrent

(* A saving request moves on: the Vaults stay, and every secret kept is in *)
(* the file and in the Vault in use.                                       *)
LEMMA SaveKeeps ==
  ASSUME VaultFacts, NEW c \in Clients, NEW t \in ReqLocals, req' = [req EXCEPT ![c] = t],
         UNCHANGED <<vaults, bound, removed>>, t.v \in {0, req[c].v},
         \A d \in Clients : SavingReq(d) => d = c,
         t.pc # "open",
         t.op \in {"unlock", "change"} => t.sets = {} /\ t.todo = {} /\ t.pass \in Passes,
         t.pc \in {"save", "write", "rename"} => t.todo = {},
         t.v \in InUse => (t.sets \ t.todo) \ removed \subseteq vaults[t.v].secrets,
         inodes' \in Seq(VaultFile \cup {Nothing}), vfile' \in 0..Len(inodes'),
         vtmp' \in 0..Len(inodes'), stored' \subseteq Refs,
         \A v \in InUse : Kept' \subseteq vaults[v].secrets,
         t.pc \in {"write", "rename"} =>
             /\ t.v \in InUse /\ t.v = req[c].v /\ t.content = vaults[t.v]
             /\ vtmp' # 0 /\ t.inode = vtmp'
             /\ t.pc = "rename" => inodes'[vtmp'] = t.content,
         FileCurrent'
  PROVE  VaultFacts'
<1>0. VaultTypeOK /\ RequestsFormed /\ UsedIsCurrent /\ SaverAlone
  BY DEF VaultFacts
<1>1. req' \in [Clients -> ReqLocals] /\ req'[c] = t /\ \A d \in Clients \ {c} : req'[d] = req[d]
  BY <1>0 DEF VaultTypeOK
<1>2. Len(vaults) \in Nat /\ t.v <= Len(vaults)
  BY <1>0 DEF VaultTypeOK
<1>3. VaultTypeOK'
  BY <1>0, <1>1, <1>2 DEF VaultTypeOK
<1>4. RequestsFormed'
  BY <1>0, <1>1 DEF RequestsFormed
<1>5. InUse' \subseteq InUse
  <2> SUFFICES ASSUME NEW v \in InUse' PROVE v \in InUse
    OBVIOUS
  <2>1. v \in 1..Len(vaults) /\ vaults[v].pass # Nothing /\ (bound = v \/ \E d \in Clients : req'[d].v = v)
    BY UsedVaultNext
  <2>2. v # 0
    BY <2>1
  <2>3. bound = v \/ \E d \in Clients : req[d].v = v
    BY <1>1, <2>1, <2>2
  <2> QED
    BY <2>1, <2>3, UsedVault
<1>6. UsedIsCurrent'
  BY <1>0, <1>1, <1>5 DEF UsedIsCurrent
<1>7. SaverAlone'
  <2>1. \A d \in Clients : SavingReq(d)' => d = c /\ t.pc \in {"write", "rename"}
    BY <1>1 DEF SavingReq
  <2>2. t.pc \in {"write", "rename"} => t.v \in InUse'
    BY <1>1, UsedVault, UsedVaultNext
  <2> QED
    BY <1>1, <2>1, <2>2 DEF SaverAlone
<1> QED
  BY <1>3, <1>4, <1>6, <1>7 DEF VaultFacts

(* Save truncates the temporary file.                                      *)
LEMMA SaveOpensStep ==
  ASSUME VaultFacts, NEW c \in Clients, SaveOpens(c)
  PROVE  VaultFacts'
<1> DEFINE v == req[c].v
           x == vaults[v]
           i == vtmp'
           t == [req[c] EXCEPT !.pc = "write", !.inode = i, !.content = x]
<1>0. /\ VaultTypeOK /\ RequestsFormed /\ UsedIsCurrent /\ SaverAlone /\ FileCurrent
      /\ req[c] \in ReqLocals
  BY DEF VaultFacts, VaultTypeOK
<1>1. /\ req[c].pc = "save" /\ Owns(c) /\ x.pass # Nothing /\ req' = [req EXCEPT ![c] = t]
      /\ UNCHANGED <<vaults, bound, vfile, stored, removed>>
  BY DEF SaveOpens, Closed
<1>2. v \in InUse
  <2>1. v \in Nat /\ v <= Len(vaults) /\ v # 0 /\ Len(vaults) \in Nat
    BY <1>0, <1>1 DEF VaultTypeOK, ReqLocals, Owns
  <2>2. v \in 1..Len(vaults)
    BY <2>1
  <2> QED
    BY <1>1, <2>2, UsedVault
<1>3. x \in VaultFile /\ \A d \in Clients : ~SavingReq(d)
  BY <1>1, <1>2, SaverFacts DEF SavingReq, Owns, Saving
<1>4. /\ inodes' \in Seq(VaultFile \cup {Nothing}) /\ i \in 1..Len(inodes')
      /\ vfile' \in 0..Len(inodes') /\ i \in Nat
      /\ vfile # 0 => vfile # i /\ inodes'[vfile] = inodes[vfile]
  <2> DEFINE F == VaultFile \cup {Nothing}
  <2>1. Nothing \in F /\ inodes \in Seq(F) /\ vtmp \in 0..Len(inodes) /\ vfile \in 0..Len(inodes)
        /\ (vfile # 0 => vfile # vtmp) /\ vfile' = vfile
    BY <1>0, <1>1 DEF VaultTypeOK, FileCurrent
  <2> HIDE DEF F
  <2>2. CASE vtmp = 0
    <3>1. inodes' = Append(inodes, Nothing) /\ i = Len(inodes) + 1
      BY <2>2 DEF SaveOpens
    <3> QED
      BY <2>1, <3>1 DEF F
  <2>3. CASE vtmp # 0
    <3>1. inodes' = [inodes EXCEPT ![vtmp] = Nothing] /\ i = vtmp
      BY <2>3 DEF SaveOpens
    <3>2. vtmp \in 1..Len(inodes)
      BY <2>1, <2>3
    <3> QED
      BY <2>1, <3>1, <3>2, UpdateEffect DEF F
  <2> QED
    BY <2>2, <2>3
<1>5. i # 0 /\ i \in 0..Len(inodes')
  BY <1>4
<1> HIDE DEF x, i
<1>6. /\ t \in ReqLocals /\ t.pc = "write" /\ t.inode = i /\ t.content = x /\ t.v = v
      /\ t.op = req[c].op /\ t.sets = req[c].sets /\ t.todo = req[c].todo /\ t.pass = req[c].pass
  BY <1>0, <1>3, <1>4 DEF ReqLocals
<1> HIDE DEF t
<1>7. FileCurrent'
  BY <1>0, <1>1, <1>4 DEF FileCurrent, Kept, i
<1>8. /\ t.op \in {"unlock", "change"} => t.sets = {} /\ t.todo = {} /\ t.pass \in Passes
      /\ t.todo = {}
  BY <1>0, <1>1, <1>6 DEF RequestsFormed
<1>9. (t.sets \ t.todo) \ removed \subseteq vaults[t.v].secrets
  BY <1>0, <1>2, <1>6 DEF UsedIsCurrent
<1>10. stored' \subseteq Refs /\ \A w \in InUse : Kept' \subseteq vaults[w].secrets
  BY <1>0, <1>1 DEF UsedIsCurrent, VaultTypeOK, Kept
<1> QED
  BY <1>1, <1>2, <1>3, <1>4, <1>5, <1>6, <1>7, <1>8, <1>9, <1>10, SaveKeeps DEF i, x

(* Save writes the temporary file.                                         *)
LEMMA SaveWritesStep ==
  ASSUME VaultFacts, NEW c \in Clients, SaveWrites(c)
  PROVE  VaultFacts'
<1> DEFINE x == req[c].content
           t == [req[c] EXCEPT !.pc = "rename"]
<1>0. /\ VaultTypeOK /\ RequestsFormed /\ UsedIsCurrent /\ SaverAlone /\ FileCurrent
      /\ req[c] \in ReqLocals
  BY DEF VaultFacts, VaultTypeOK
<1>1. /\ req[c].pc = "write" /\ req' = [req EXCEPT ![c] = t]
      /\ inodes' = [inodes EXCEPT ![req[c].inode] = x]
      /\ UNCHANGED <<vaults, bound, vfile, vtmp, stored, removed>>
  BY DEF SaveWrites, ReqGoes
<1>2. /\ req[c].v \in InUse /\ x = vaults[req[c].v] /\ vtmp # 0 /\ req[c].inode = vtmp
      /\ \A d \in Clients : SavingReq(d) => d = c
  BY <1>0, <1>1 DEF SaverAlone, SavingReq
<1>3. x \in VaultFile
  BY <1>2, SaverFacts
<1>4. /\ inodes' \in Seq(VaultFile \cup {Nothing}) /\ Len(inodes') = Len(inodes)
      /\ inodes'[vtmp] = x /\ \A j \in 1..Len(inodes) : j # vtmp => inodes'[j] = inodes[j]
  <2> DEFINE F == VaultFile \cup {Nothing}
  <2>1. x \in F /\ inodes \in Seq(F) /\ vtmp \in 1..Len(inodes)
    BY <1>0, <1>2, <1>3 DEF VaultTypeOK
  <2> HIDE DEF F, x
  <2> QED
    BY <1>1, <1>2, <2>1, UpdateEffect DEF F
<1>5. FileCurrent'
  <2>1. vfile # 0 => vfile # vtmp /\ vfile \in 1..Len(inodes)
    BY <1>0 DEF FileCurrent, VaultTypeOK
  <2> QED
    BY <1>0, <1>1, <1>4, <2>1 DEF FileCurrent, Kept
<1>6. /\ t \in ReqLocals /\ t.pc = "rename" /\ t.inode = req[c].inode /\ t.content = x
      /\ t.v = req[c].v /\ t.op = req[c].op /\ t.sets = req[c].sets /\ t.todo = req[c].todo
      /\ t.pass = req[c].pass
  BY <1>0 DEF ReqLocals
<1> HIDE DEF t, x
<1>7. /\ t.op \in {"unlock", "change"} => t.sets = {} /\ t.todo = {} /\ t.pass \in Passes
      /\ t.todo = {}
  BY <1>0, <1>1, <1>6 DEF RequestsFormed
<1>8. (t.sets \ t.todo) \ removed \subseteq vaults[t.v].secrets
  BY <1>0, <1>2, <1>6 DEF UsedIsCurrent
<1>9. stored' \subseteq Refs /\ \A w \in InUse : Kept' \subseteq vaults[w].secrets
  BY <1>0, <1>1 DEF UsedIsCurrent, VaultTypeOK, Kept
<1>10. vfile' \in 0..Len(inodes') /\ vtmp' \in 0..Len(inodes')
  BY <1>0, <1>1, <1>4 DEF VaultTypeOK
<1> QED
  BY <1>1, <1>2, <1>4, <1>5, <1>6, <1>7, <1>8, <1>9, <1>10, SaveKeeps

(* The write fails and the temporary file is removed, or the rename fails. *)
LEMMA SaveFailsStep ==
  ASSUME VaultFacts, NEW c \in Clients, VaultSaveFails(c)
  PROVE  VaultFacts'
<1>0. VaultTypeOK /\ UsedIsCurrent /\ SaverAlone /\ FileCurrent
  BY DEF VaultFacts
<1>1. /\ req[c].pc \in {"write", "rename"} /\ vtmp' \in {0, vtmp}
      /\ req' = [req EXCEPT ![c] = NoRequest]
      /\ UNCHANGED <<vaults, bound, vfile, inodes, stored, removed>>
  BY DEF VaultSaveFails, ReqEnds
<1>2. \A d \in Clients : SavingReq(d) => d = c
  BY <1>0, <1>1 DEF SaverAlone, SavingReq
<1>3. NoRequest \in ReqLocals /\ NoRequest.v = 0 /\ NoRequest.pc = "idle" /\ NoRequest.op = "none"
      /\ NoRequest.sets = {}
  BY DEF NoRequest, ReqLocals
<1>4. FileCurrent'
  BY <1>0, <1>1 DEF FileCurrent, Kept
<1>5. /\ stored' \subseteq Refs /\ \A w \in InUse : Kept' \subseteq vaults[w].secrets
      /\ inodes' \in Seq(VaultFile \cup {Nothing}) /\ vfile' \in 0..Len(inodes')
  BY <1>0, <1>1 DEF UsedIsCurrent, VaultTypeOK, Kept
<1>6. vtmp' \in 0..Len(inodes')
  BY <1>0, <1>1 DEF VaultTypeOK
<1> QED
  BY <1>1, <1>2, <1>3, <1>4, <1>5, <1>6, SaveKeeps

(* The rename: the file becomes the Vault saved, with what was just set.   *)
LEMMA SaveRenamesStep ==
  ASSUME VaultFacts, NEW c \in Clients, SaveRenames(c)
  PROVE  VaultFacts'
<1>0. /\ VaultTypeOK /\ RequestsFormed /\ UsedIsCurrent /\ SaverAlone /\ FileCurrent
      /\ req[c] \in ReqLocals
  BY DEF VaultFacts, VaultTypeOK
<1>1. /\ req[c].pc = "rename" /\ UNCHANGED <<vaults, bound, inodes, removed>>
  BY DEF SaveRenames
<1>2. /\ req[c].v \in InUse /\ vtmp # 0 /\ inodes[vtmp] = vaults[req[c].v]
      /\ \A d \in Clients : SavingReq(d) => d = c
  BY <1>0, <1>1 DEF SaverAlone, SavingReq
<1>3. vfile' = vtmp /\ vtmp' = 0 /\ stored' = stored \cup req[c].sets
  BY <1>2 DEF SaveRenames, Succeed
<1>4. inodes[vtmp] \in VaultFile
  BY <1>2, SaverFacts
<1>5. Kept' \subseteq vaults[req[c].v].secrets
  <2>1. req[c].todo = {}
    BY <1>0, <1>1 DEF RequestsFormed
  <2>2. req[c].sets \ removed \subseteq vaults[req[c].v].secrets /\ Kept \subseteq vaults[req[c].v].secrets
    BY <1>0, <1>2, <2>1 DEF UsedIsCurrent
  <2> QED
    BY <1>1, <1>3, <2>2 DEF Kept
<1>6. FileCurrent'
  BY <1>1, <1>2, <1>3, <1>4, <1>5 DEF FileCurrent
<1>7. /\ stored' \subseteq Refs /\ \A w \in InUse : Kept' \subseteq vaults[w].secrets
      /\ inodes' \in Seq(VaultFile \cup {Nothing}) /\ vfile' \in 0..Len(inodes')
  <2>1. req[c].sets \subseteq Refs
    BY <1>0 DEF ReqLocals
  <2>2. \A w \in InUse : w = req[c].v
    BY <1>0, <1>2 DEF UsedIsCurrent
  <2> QED
    BY <1>0, <1>1, <1>3, <1>5, <2>1, <2>2 DEF VaultTypeOK
<1>8. vtmp' \in 0..Len(inodes')
  BY <1>0, <1>1, <1>3 DEF VaultTypeOK
<1>9. CASE req[c].op = "unlock"
  <2> DEFINE t == [req[c] EXCEPT !.pc = "bind"]
  <2>1. req' = [req EXCEPT ![c] = t]
    BY <1>2, <1>9 DEF SaveRenames, Succeed, ReqGoes
  <2>2. /\ t \in ReqLocals /\ t.pc = "bind" /\ t.v = req[c].v /\ t.op = req[c].op
        /\ t.sets = req[c].sets /\ t.todo = req[c].todo /\ t.pass = req[c].pass
    BY <1>0 DEF ReqLocals
  <2> HIDE DEF t
  <2>3. t.sets = {} /\ t.todo = {} /\ t.pass \in Passes
    BY <1>0, <1>9, <2>2 DEF RequestsFormed
  <2> QED
    BY <1>1, <1>2, <1>6, <1>7, <1>8, <2>1, <2>2, <2>3, SaveKeeps
<1>10. CASE req[c].op # "unlock"
  <2>1. NoRequest \in ReqLocals /\ NoRequest.v = 0 /\ NoRequest.pc = "idle" /\ NoRequest.op = "none"
        /\ NoRequest.sets = {}
    BY DEF NoRequest, ReqLocals
  <2>2. req' = [req EXCEPT ![c] = NoRequest]
    BY <1>2, <1>10 DEF SaveRenames, Succeed, ReqEnds
  <2> QED
    BY <1>1, <1>2, <1>6, <1>7, <1>8, <2>1, <2>2, SaveKeeps
<1> QED
  BY <1>9, <1>10

(* The process dies: no Vault and no request is left, the file stays.      *)
LEMMA CrashStep ==
  ASSUME VaultFacts, VaultCrash
  PROVE  VaultFacts'
<1>0. VaultTypeOK /\ FileCurrent
  BY DEF VaultFacts
<1>1. NoRequest \in ReqLocals /\ NoRequest.v = 0 /\ NoRequest.pc = "idle" /\ NoRequest.op = "none"
  BY DEF NoRequest, ReqLocals
<1>2. /\ req' \in [Clients -> ReqLocals] /\ \A c \in Clients : req'[c] = NoRequest
      /\ vaults' = <<>> /\ bound' = 0 /\ UNCHANGED <<vfile, vtmp, inodes, stored, removed>>
  BY <1>1 DEF VaultCrash, vaultFiles
<1>3. Len(vaults') = 0 /\ vaults' \in Seq(VaultState) /\ 1..Len(vaults') = {}
  BY <1>2
<1>4. VaultTypeOK'
  BY <1>0, <1>1, <1>2, <1>3 DEF VaultTypeOK
<1>5. RequestsFormed'
  BY <1>1, <1>2 DEF RequestsFormed
<1>6. InUse' = {}
  <2> SUFFICES ASSUME NEW v \in InUse' PROVE FALSE
    OBVIOUS
  <2> QED
    BY <1>3, UsedVaultNext
<1>7. UsedIsCurrent'
  BY <1>6 DEF UsedIsCurrent
<1>8. SaverAlone'
  BY <1>1, <1>2 DEF SaverAlone, SavingReq
<1>9. FileCurrent'
  BY <1>0, <1>2 DEF FileCurrent, Kept
<1> QED
  BY <1>4, <1>5, <1>7, <1>8, <1>9 DEF VaultFacts

(* A lock, an idle sweep or the end of an unlock.                          *)
LEMMA BindsStep ==
  ASSUME VaultFacts, SweepClears \/ \E c \in Clients : LockVault(c) \/ BindVault(c)
  PROVE  VaultFacts'
<1>0. VaultTypeOK /\ Len(vaults) \in Nat /\ 0 \in 0..Len(vaults)
  BY DEF VaultFacts, VaultTypeOK
<1>1. CASE SweepClears
  BY <1>0, <1>1, BindStep DEF SweepClears
<1>2. ASSUME NEW c \in Clients, LockVault(c) PROVE VaultFacts'
  BY <1>0, <1>2, BindStep DEF LockVault, ReqEnds, SavingReq
<1>3. ASSUME NEW c \in Clients, BindVault(c) PROVE VaultFacts'
  <2>1. req[c].v \in 0..Len(vaults)
    BY <1>0 DEF VaultTypeOK, ReqLocals
  <2> QED
    BY <1>3, <2>1, BindStep DEF BindVault, ReqEnds, SavingReq
<1> QED
  BY <1>1, <1>2, <1>3

(* The windows once opened stay on record.                                 *)
LEMMA HazardGrows ==
  ASSUME [VaultNext]_vaultVars
  PROVE  hazard \subseteq hazard'
<1>1. ASSUME NEW c \in Clients, NEW op, NEW t, Asks(c, op, t) PROVE UNCHANGED hazard
  BY <1>1 DEF Asks
<1>2. ASSUME NEW c \in Clients, ConfigureAsked(c) \/ MigrateAsked(c) \/ LockAsked(c) PROVE UNCHANGED hazard
  BY <1>1, <1>2 DEF ConfigureAsked, MigrateAsked, LockAsked
<1>3. ASSUME NEW c \in Clients, NEW p \in Passes, ChangeAsked(c, p) \/ UnlockAsked(c, p)
      PROVE  UNCHANGED hazard
  BY <1>1, <1>3 DEF ChangeAsked, UnlockAsked
<1>4. ASSUME NEW c \in Clients, NEW r \in Refs, SetAsked(c, r) \/ DeleteAsked(c, r) PROVE UNCHANGED hazard
  BY <1>1, <1>4 DEF SetAsked, DeleteAsked
<1>5. ASSUME NEW c \in Clients, NEW r \in Refs, MutateOne(c, r) \/ MigrateOne(c, r) PROVE UNCHANGED hazard
  BY <1>5 DEF MutateOne, MigrateOne
<1>6. ASSUME NEW c \in Clients, OpenVault(c) \/ SwapPass(c) PROVE hazard \subseteq hazard'
  BY <1>6 DEF OpenVault, SwapPass
<1>7. ASSUME NEW c \in Clients, LockVault(c) \/ BindVault(c) \/ MutationsDone(c) PROVE UNCHANGED hazard
  BY <1>7 DEF LockVault, BindVault, MutationsDone
<1>8. ASSUME NEW c \in Clients,
             SaveRefused(c) \/ SaveOpens(c) \/ SaveWrites(c) \/ VaultSaveFails(c) \/ SaveRenames(c)
      PROVE  UNCHANGED hazard
  BY <1>8 DEF SaveRefused, SaveOpens, SaveWrites, VaultSaveFails, SaveRenames
<1>9. CASE SweepFindsIdle \/ SweepClears \/ VaultCrash
  BY <1>9 DEF SweepFindsIdle, SweepClears, VaultCrash
<1>10. CASE UNCHANGED vaultVars
  BY <1>10 DEF vaultVars
<1> QED
  BY <1>2, <1>3, <1>4, <1>5, <1>6, <1>7, <1>8, <1>9, <1>10 DEF VaultNext

(* As long as neither window opened, the Vault in use, the one save and    *)
(* the file agree: every step of every handler keeps that.                 *)
THEOREM VaultInvariant == VaultSpec => []VaultInv
<1>1. VaultInit => VaultInv
  <2> SUFFICES ASSUME VaultInit PROVE VaultFacts
    BY DEF VaultInv
  <2>1. NoRequest \in ReqLocals /\ NoRequest.v = 0 /\ NoRequest.pc = "idle" /\ NoRequest.op = "none"
    BY DEF NoRequest, ReqLocals
  <2>2. /\ req \in [Clients -> ReqLocals] /\ \A c \in Clients : req[c] = NoRequest
        /\ vaults = <<>> /\ bound = 0 /\ vfile = 0 /\ vtmp = 0 /\ inodes = <<>>
        /\ stored = {} /\ removed = {}
    BY <2>1 DEF VaultInit
  <2>3. /\ Len(vaults) = 0 /\ vaults \in Seq(VaultState) /\ 1..Len(vaults) = {}
        /\ Len(inodes) = 0 /\ inodes \in Seq(VaultFile \cup {Nothing})
    BY <2>2
  <2>4. VaultTypeOK
    BY <2>1, <2>2, <2>3 DEF VaultTypeOK
  <2>5. RequestsFormed
    BY <2>1, <2>2 DEF RequestsFormed
  <2>6. InUse = {}
    BY <2>3, UsedVault
  <2> QED
    BY <2>1, <2>2, <2>4, <2>5, <2>6 DEF VaultFacts, UsedIsCurrent, SaverAlone, SavingReq, FileCurrent, Kept
<1>2. VaultInv /\ [VaultNext]_vaultVars => VaultInv'
  <2> SUFFICES ASSUME VaultInv, [VaultNext]_vaultVars, hazard' = {} PROVE VaultFacts'
    BY DEF VaultInv
  <2>0. hazard = {}
    BY HazardGrows
  <2>1. VaultFacts
    BY <2>0 DEF VaultInv
  <2>2. CASE UNCHANGED <<vaults, bound, vaultFiles, req, stored, removed>>
    BY <2>1, <2>2 DEF VaultFacts, VaultTypeOK, RequestsFormed, UsedIsCurrent, SaverAlone, FileCurrent,
                      Kept, SavingReq, InUse, Closed, vaultFiles
  <2>3. CASE UNCHANGED vaultVars
    BY <2>2, <2>3 DEF vaultVars, vaultFiles
  <2>4. CASE SweepFindsIdle
    BY <2>2, <2>4 DEF SweepFindsIdle
  <2>5. CASE SweepClears
    BY <2>1, <2>5, BindsStep
  <2>6. CASE VaultCrash
    BY <2>1, <2>6, CrashStep
  <2>7. ASSUME NEW c \in Clients,
               \/ ConfigureAsked(c) \/ MigrateAsked(c) \/ LockAsked(c)
               \/ \E p \in Passes : ChangeAsked(c, p) \/ UnlockAsked(c, p)
               \/ \E r \in Refs : SetAsked(c, r) \/ DeleteAsked(c, r)
        PROVE  VaultFacts'
    BY <2>1, <2>7, AskStep
  <2>8. ASSUME NEW c \in Clients, NEW r \in Refs, MutateOne(c, r) \/ MigrateOne(c, r) PROVE VaultFacts'
    BY <2>1, <2>8, MutateStep
  <2>9. ASSUME NEW c \in Clients, LockVault(c) \/ BindVault(c) PROVE VaultFacts'
    BY <2>1, <2>9, BindsStep
  <2>10. ASSUME NEW c \in Clients, OpenVault(c) PROVE VaultFacts'
    BY <2>1, <2>10, OpenStep
  <2>11. ASSUME NEW c \in Clients, SwapPass(c) PROVE VaultFacts'
    BY <2>1, <2>11, SwapStep
  <2>12. ASSUME NEW c \in Clients, MutationsDone(c) \/ SaveRefused(c) PROVE VaultFacts'
    BY <2>1, <2>12, DoneStep
  <2>13. ASSUME NEW c \in Clients, SaveOpens(c) PROVE VaultFacts'
    BY <2>1, <2>13, SaveOpensStep
  <2>14. ASSUME NEW c \in Clients, SaveWrites(c) PROVE VaultFacts'
    BY <2>1, <2>14, SaveWritesStep
  <2>15. ASSUME NEW c \in Clients, VaultSaveFails(c) PROVE VaultFacts'
    BY <2>1, <2>15, SaveFailsStep
  <2>16. ASSUME NEW c \in Clients, SaveRenames(c) PROVE VaultFacts'
    BY <2>1, <2>16, SaveRenamesStep
  <2> QED
    BY <2>3, <2>4, <2>5, <2>6, <2>7, <2>8, <2>9, <2>10, <2>11, <2>12, <2>13, <2>14, <2>15, <2>16
       DEF VaultNext
<1> QED
  BY <1>1, <1>2, PTL DEF VaultSpec

(* A secret whose Set was acknowledged and that nobody asked to delete is  *)
(* in the file, through locks, idle sweeps, failed saves, other requests   *)
(* and deaths of the process, for any references, passphrases and clients. *)
THEOREM SecretsDurable == VaultSpec => []StoredSecretsDurable
<1>1. VaultInv => StoredSecretsDurable
  <2> SUFFICES ASSUME VaultInv, hazard = {}, stored \ removed # {}
               PROVE  Contents(vfile) # Nothing /\ stored \ removed \subseteq Contents(vfile).secrets
    BY DEF StoredSecretsDurable
  <2>1. FileCurrent
    BY DEF VaultInv, VaultFacts
  <2>2. vfile # 0 /\ inodes[vfile] \in VaultFile
    BY <2>1 DEF FileCurrent, Kept
  <2> QED
    BY <2>1, <2>2, VaultAssumption DEF FileCurrent, Kept, Contents, VaultFile
<1> QED
  BY <1>1, VaultInvariant, PTL

(* Save's temporary file and rename: the vault file is never cut, at       *)
(* whatever step the process dies.                                         *)
THEOREM VaultFileWhole == VaultSpec => []FileAlwaysWhole
<1>1. VaultInv => FileAlwaysWhole
  BY VaultAssumption DEF VaultInv, VaultFacts, FileCurrent, FileAlwaysWhole, Contents, VaultFile
<1> QED
  BY <1>1, VaultInvariant, PTL

-----------------------------------------------------------------------------
(* The mock servers.                                                       *)

(* The inbox key of an upload, and the three keys promotion gives it.      *)
InboxKey(f) == FileKey(f.user, "inbox", f.name, Untracked)
OutboxKey(f, p) == FileKey(Destination(f.user), "outbox", f.name, p)
Copies(f, p) ==
    {FileKey(f.user, "inbox", f.name, p), FileKey(f.user, "sent", f.name, p), OutboxKey(f, p)}

Open(w) == writer[w] # NoPut
Waiting(p) == InboxKey(puts[p]) \in DOMAIN mockFiles /\ mockFiles[InboxKey(puts[p])].put = p

MockTypeOK ==
    /\ mockFiles \in [DOMAIN mockFiles -> [put : Nat, done : BOOLEAN]]
    /\ puts \in Seq([user : Paired \cup Alone, name : Names])
    /\ DOMAIN writer = Putters
    /\ acked \cup fetched \subseteq 1..Len(puts)
    /\ \A k \in listed : k.folder = "outbox"

(* An entry is an upload in its inbox or a finished copy of one.           *)
EntriesFit ==
    \A k \in DOMAIN mockFiles :
        /\ mockFiles[k].put \in 1..Len(puts)
        /\ \/ k = InboxKey(puts[mockFiles[k].put])
           \/ k \in Copies(puts[mockFiles[k].put], mockFiles[k].put) /\ mockFiles[k].done

WritersFit ==
    /\ \A w \in Putters : Open(w) =>
          /\ writer[w].put \in 1..Len(puts) /\ writer[w].key = InboxKey(puts[writer[w].put])
          /\ writer[w].put \notin fetched
          /\ \A k \in DOMAIN mockFiles : mockFiles[k].done => mockFiles[k].put # writer[w].put
    /\ \A w, x \in Putters : Open(w) /\ Open(x) /\ writer[w].put = writer[x].put => w = x

(* An open upload nobody met has its entry; of two that meet on a key both *)
(* are on record.                                                          *)
WritersMeet ==
    /\ \A w \in Putters : Open(w) /\ writer[w].put \notin meddled => Waiting(writer[w].put)
    /\ \A w, x \in Putters : Open(w) /\ Open(x) /\ w # x /\ writer[w].key = writer[x].key =>
          writer[w].put \in meddled
    /\ \A w \in Putters : Open(w) /\ writer[w].key \in DOMAIN mockFiles =>
          \/ mockFiles[writer[w].key].put = writer[w].put
          \/ mockFiles[writer[w].key].put \in meddled

(* What was promoted or downloaded is no longer waiting.                   *)
PromotedOnce ==
    /\ \A k \in DOMAIN mockFiles : k \in Copies(puts[mockFiles[k].put], mockFiles[k].put) => ~Waiting(mockFiles[k].put)
    /\ \A p \in fetched : ~Waiting(p)

Delivered ==
    \A p \in acked \ (meddled \cup fetched) :
        \E k \in {InboxKey(puts[p]), OutboxKey(puts[p], p)} \cap DOMAIN mockFiles :
            mockFiles[k].put = p /\ mockFiles[k].done

MockInv ==
    /\ MockTypeOK /\ EntriesFit /\ WritersFit /\ WritersMeet /\ PromotedOnce
    /\ Delivered /\ EvictionBounded

(* An inbox key has no track id, a copy has its upload's.                  *)
LEMMA KeyFacts ==
  ASSUME NEW p, NEW f, NEW g, p # 0
  PROVE  /\ InboxKey(g).folder = "inbox" /\ InboxKey(g).tid = 0
         /\ \A k \in Copies(f, p) : k.tid = p /\ k.name = f.name
         /\ InboxKey(g) \notin Copies(f, p)
         /\ OutboxKey(f, p) \in Copies(f, p) /\ OutboxKey(f, p).user = Destination(f.user)
         /\ OutboxKey(f, p).folder = "outbox" /\ OutboxKey(f, p).tid = p
<1>1. InboxKey(g).folder = "inbox" /\ InboxKey(g).tid = 0
  BY DEF InboxKey, FileKey, Untracked
<1>2. \A k \in Copies(f, p) : k.tid = p /\ k.name = f.name
  BY DEF Copies, OutboxKey, FileKey
<1>3. /\ OutboxKey(f, p) \in Copies(f, p) /\ OutboxKey(f, p).user = Destination(f.user)
      /\ OutboxKey(f, p).folder = "outbox" /\ OutboxKey(f, p).tid = p
  BY DEF Copies, OutboxKey, FileKey
<1> QED
  BY <1>1, <1>2, <1>3

(* What the key of an entry says about it.                                 *)
LEMMA EntryFacts ==
  ASSUME MockTypeOK, EntriesFit, NEW k \in DOMAIN mockFiles
  PROVE  /\ mockFiles[k].put \in 1..Len(puts) /\ mockFiles[k].put # 0 /\ mockFiles[k].done \in BOOLEAN
         /\ k.tid = 0 => k = InboxKey(puts[mockFiles[k].put]) /\ Waiting(mockFiles[k].put)
         /\ k.tid # 0 => /\ k \in Copies(puts[mockFiles[k].put], mockFiles[k].put) /\ k.tid = mockFiles[k].put
                         /\ mockFiles[k].done
<1> DEFINE p == mockFiles[k].put
<1>1. p \in 1..Len(puts) /\ mockFiles[k] \in [put : Nat, done : BOOLEAN]
  BY DEF EntriesFit, MockTypeOK
<1>2. p # 0
  BY <1>1
<1>3. k = InboxKey(puts[p]) \/ (k \in Copies(puts[p], p) /\ mockFiles[k].done)
  BY DEF EntriesFit
<1>4. k.tid = 0 => k = InboxKey(puts[p])
  BY <1>2, <1>3, KeyFacts
<1>5. k.tid # 0 => k \in Copies(puts[p], p) /\ k.tid = p /\ mockFiles[k].done
  BY <1>2, <1>3, KeyFacts
<1> QED
  BY <1>1, <1>2, <1>4, <1>5 DEF Waiting

(* The end of an upload.                                                   *)
LEMMA PutEndsStep ==
  ASSUME MockInv, NEW w \in Putters, NEW whole \in BOOLEAN, PutEnds(w, whole)
  PROVE  MockInv'
<1> DEFINE p == writer[w].put
           key == writer[w].key
<1>0. /\ MockTypeOK /\ EntriesFit /\ WritersFit /\ WritersMeet /\ PromotedOnce
      /\ Delivered /\ EvictionBounded
  BY DEF MockInv
<1>1. /\ Open(w) /\ writer' = [writer EXCEPT ![w] = NoPut] /\ mockFiles' = Completed(key, p)
      /\ acked' \subseteq acked \cup {p} /\ UNCHANGED <<puts, meddled, listed, fetched>>
  BY DEF PutEnds, Open
<1>2. /\ p \in 1..Len(puts) /\ key = InboxKey(puts[p]) /\ p \notin fetched
      /\ \A k \in DOMAIN mockFiles : mockFiles[k].done => mockFiles[k].put # p
      /\ \A x \in Putters : Open(x) /\ x # w => writer[x].put # p
  BY <1>0, <1>1 DEF WritersFit
<1>3. /\ DOMAIN mockFiles' = DOMAIN mockFiles
      /\ key \in DOMAIN mockFiles => mockFiles'[key] = [put |-> p, done |-> TRUE]
      /\ \A k \in DOMAIN mockFiles : k # key => mockFiles'[k] = mockFiles[k]
  BY <1>1 DEF Completed
<1>4. \A x \in Putters : Open(x)' => x # w /\ Open(x) /\ writer'[x] = writer[x]
  BY <1>0, <1>1 DEF Open, MockTypeOK
<1>6. p # 0 /\ p \in Nat
  BY <1>2
<1>7. MockTypeOK'
  <2>1. mockFiles' \in [DOMAIN mockFiles' -> [put : Nat, done : BOOLEAN]]
    <3>1. \A k \in DOMAIN mockFiles : mockFiles[k] \in [put : Nat, done : BOOLEAN]
      BY <1>0 DEF MockTypeOK
    <3> QED
      BY <1>1, <1>6, <3>1 DEF Completed
  <2> QED
    BY <1>0, <1>1, <1>2, <2>1 DEF MockTypeOK
<1> HIDE DEF p, key
<1>8. EntriesFit'
  BY <1>0, <1>1, <1>2, <1>3 DEF EntriesFit
<1>9. WritersFit'
  <2>1. ASSUME NEW x \in Putters, Open(x)', NEW k \in DOMAIN mockFiles', mockFiles'[k].done
        PROVE  mockFiles'[k].put # writer'[x].put
    BY <1>0, <1>2, <1>3, <1>4, <2>1 DEF WritersFit
  <2>2. ASSUME NEW x \in Putters, Open(x)'
        PROVE  writer'[x].put \in 1..Len(puts') /\ writer'[x].key = InboxKey(puts'[writer'[x].put])
               /\ writer'[x].put \notin fetched'
    BY <1>0, <1>1, <1>4, <2>2 DEF WritersFit
  <2>3. \A x, y \in Putters : Open(x)' /\ Open(y)' /\ writer'[x].put = writer'[y].put => x = y
    BY <1>0, <1>4 DEF WritersFit
  <2> QED
    BY <2>1, <2>2, <2>3 DEF WritersFit
<1>10. WritersMeet'
  <2>0. \A x \in Putters : Open(x)' => writer[x].key = InboxKey(puts[writer[x].put])
    BY <1>0, <1>4 DEF WritersFit
  <2>1. ASSUME NEW x \in Putters, Open(x)', writer'[x].put \notin meddled' PROVE Waiting(writer[x].put)'
    <3>1. Waiting(writer[x].put) /\ writer[x].key # key
      BY <1>0, <1>1, <1>4, <2>1 DEF WritersMeet, key
    <3>2. InboxKey(puts[writer[x].put]) # key
      BY <2>0, <2>1, <3>1
    <3> QED
      BY <1>1, <1>3, <1>4, <2>1, <3>1, <3>2 DEF Waiting
  <2>2. ASSUME NEW x \in Putters, Open(x)', writer'[x].key \in DOMAIN mockFiles'
        PROVE  mockFiles'[writer'[x].key].put \in {writer'[x].put} \cup meddled'
    <3>1. CASE writer[x].key = key
      <4>1. p \in meddled
        BY <1>0, <1>1, <1>4, <2>2, <3>1 DEF WritersMeet, p, key
      <4> QED
        BY <1>1, <1>3, <1>4, <2>2, <3>1, <4>1
    <3>2. CASE writer[x].key # key
      BY <1>0, <1>1, <1>3, <1>4, <2>2, <3>2 DEF WritersMeet
    <3> QED
      BY <3>1, <3>2
  <2>3. \A x, y \in Putters : Open(x)' /\ Open(y)' /\ x # y /\ writer'[x].key = writer'[y].key =>
            writer'[x].put \in meddled'
    BY <1>0, <1>1, <1>4 DEF WritersMeet
  <2> QED
    BY <2>1, <2>2, <2>3 DEF WritersMeet
<1>11. \A q : Waiting(q)' => Waiting(q) \/ q = p
  BY <1>1, <1>3 DEF Waiting
<1>12. PromotedOnce'
  <2>1. ASSUME NEW k \in DOMAIN mockFiles', k \in Copies(puts'[mockFiles'[k].put], mockFiles'[k].put) PROVE ~Waiting(mockFiles[k].put)'
    <3>1. k # key
      BY <1>2, <1>3, <1>6, <2>1, KeyFacts
    <3>2. mockFiles'[k] = mockFiles[k] /\ k \in DOMAIN mockFiles
      BY <1>3, <3>1
    <3>3. k \in Copies(puts[mockFiles[k].put], mockFiles[k].put)
      BY <1>1, <2>1, <3>2
    <3>4. mockFiles[k].put # p
      <4>1. k.tid # 0
        BY <1>0, <3>2, <3>3, EntryFacts, KeyFacts
      <4> QED
        BY <1>0, <1>2, <3>2, <4>1, EntryFacts
    <3> QED
      BY <1>0, <1>11, <3>2, <3>3, <3>4 DEF PromotedOnce
  <2>2. \A q \in fetched' : ~Waiting(q)'
    BY <1>0, <1>1, <1>2, <1>11 DEF PromotedOnce
  <2> QED
    BY <2>1, <2>2 DEF PromotedOnce
<1>13. Delivered'
  <2> SUFFICES ASSUME NEW q \in acked' \ (meddled' \cup fetched')
               PROVE  \E k \in {InboxKey(puts[q]), OutboxKey(puts[q], q)} \cap DOMAIN mockFiles' :
                         mockFiles'[k].put = q /\ mockFiles'[k].done
    BY <1>1 DEF Delivered
  <2>1. CASE q = p
    <3>1. Waiting(p)
      BY <1>0, <1>1, <2>1 DEF WritersMeet, p
    <3> QED
      BY <1>2, <1>3, <2>1, <3>1 DEF Waiting
  <2>2. CASE q # p
    <3>1. PICK k \in {InboxKey(puts[q]), OutboxKey(puts[q], q)} \cap DOMAIN mockFiles : mockFiles[k].put = q /\ mockFiles[k].done
      BY <1>0, <1>1, <2>2 DEF Delivered
    <3>2. k # key
      BY <1>0, <1>1, <2>2, <3>1 DEF WritersMeet, p, key
    <3> QED
      BY <1>3, <3>1, <3>2
  <2> QED
    BY <2>1, <2>2
<1>14. EvictionBounded'
  <2>1. \A q \in fetched : Holding(q)' \subseteq Holding(q)
    BY <1>2, <1>3 DEF Holding
  <2> QED
    BY <1>0, <1>1, <2>1 DEF EvictionBounded
<1> QED
  BY <1>7, <1>8, <1>9, <1>10, <1>12, <1>13, <1>14 DEF MockInv

(* What a promotion makes of the entries.                                  *)
LEMMA PromotionEffect ==
  ASSUME MockTypeOK, EntriesFit, NEW ripe \in SUBSET Ready, NEW M, M = AfterPromoting(ripe)
  PROVE  /\ M \in [DOMAIN M -> [put : Nat, done : BOOLEAN]]
         /\ \A k \in DOMAIN mockFiles \ ripe : k \in DOMAIN M /\ M[k] = mockFiles[k]
         /\ \A r \in ripe : /\ r \in DOMAIN mockFiles /\ r.tid = 0 /\ mockFiles[r].done
                            /\ r = InboxKey(puts[mockFiles[r].put]) /\ Waiting(mockFiles[r].put)
         /\ \A k \in DOMAIN M :
               \/ k \in DOMAIN mockFiles \ ripe
               \/ \E r \in ripe : /\ M[k].put = mockFiles[r].put /\ M[k].done /\ k.tid # 0
                                  /\ k \in Copies(puts[mockFiles[r].put], mockFiles[r].put)
         /\ \A r \in ripe : \A k \in Copies(puts[mockFiles[r].put], mockFiles[r].put) :
               k \in DOMAIN M /\ M[k].put = mockFiles[r].put /\ M[k].done
<1>1. \A r \in ripe : /\ r \in DOMAIN mockFiles /\ r.tid = 0 /\ mockFiles[r].done /\ mockFiles[r].put # 0
                      /\ r = InboxKey(puts[mockFiles[r].put]) /\ Waiting(mockFiles[r].put)
  BY EntryFacts DEF Ready, Untracked
<1>2. \A r \in ripe : Promoted(r) = Copies(puts[mockFiles[r].put], mockFiles[r].put)
  <2> SUFFICES ASSUME NEW r \in ripe
               PROVE  Promoted(r) = Copies(puts[mockFiles[r].put], mockFiles[r].put)
    OBVIOUS
  <2>1. r.user = puts[mockFiles[r].put].user /\ r.name = puts[mockFiles[r].put].name
    BY <1>1 DEF InboxKey, FileKey
  <2> QED
    BY <2>1 DEF Promoted, Copies, OutboxKey
<1>3. \A r \in ripe : \A k \in Promoted(r) : k.tid = mockFiles[r].put /\ k.tid # 0 /\ k \notin ripe
  BY <1>1, <1>2, KeyFacts
<1>4. DOMAIN M = (DOMAIN mockFiles \ ripe) \cup UNION {Promoted(r) : r \in ripe}
  BY DEF AfterPromoting
<1>5. \A k \in DOMAIN mockFiles \ ripe : k \in DOMAIN M /\ M[k] = mockFiles[k]
  BY DEF AfterPromoting
<1>6. ASSUME NEW r \in ripe, NEW k \in Promoted(r)
      PROVE  /\ k \in DOMAIN M /\ M[k].put = mockFiles[r].put /\ M[k].done
             /\ M[k] \in [put : Nat, done : BOOLEAN]
  <2>1. k \in DOMAIN M
    BY <1>4, <1>6
  <2>2. CASE k \in DOMAIN mockFiles
    <3>1. M[k] = mockFiles[k]
      BY <1>3, <1>5, <1>6, <2>2
    <3> QED
      BY <1>3, <1>6, <2>1, <2>2, <3>1, EntryFacts DEF MockTypeOK
  <2>3. CASE k \notin DOMAIN mockFiles
    <3> DEFINE x == CHOOSE z \in ripe : k \in Promoted(z)
    <3>1. x \in ripe /\ k \in Promoted(x)
      BY <1>6
    <3>2. M[k] = mockFiles[x]
      BY <2>1, <2>3 DEF AfterPromoting
    <3> HIDE DEF x
    <3> QED
      BY <1>1, <1>3, <1>6, <2>1, <3>1, <3>2 DEF MockTypeOK
  <2> QED
    BY <2>2, <2>3
<1>7. \A k \in DOMAIN M : k \in DOMAIN mockFiles \ ripe \/ \E r \in ripe : k \in Promoted(r)
  BY <1>4
<1>8. M \in [DOMAIN M -> [put : Nat, done : BOOLEAN]]
  <2>1. \A k \in DOMAIN M : M[k] \in [put : Nat, done : BOOLEAN]
    BY <1>5, <1>6, <1>7 DEF MockTypeOK
  <2>2. M = [k \in DOMAIN M |-> M[k]]
    BY DEF AfterPromoting
  <2> QED
    BY <2>1, <2>2
<1>9. \A k \in DOMAIN M :
         \/ k \in DOMAIN mockFiles \ ripe
         \/ \E r \in ripe : /\ M[k].put = mockFiles[r].put /\ M[k].done /\ k.tid # 0
                            /\ k \in Copies(puts[mockFiles[r].put], mockFiles[r].put)
  BY <1>2, <1>3, <1>6, <1>7
<1> QED
  BY <1>1, <1>2, <1>5, <1>6, <1>8, <1>9

(* A listing promotes some of the finished uploads.                        *)
LEMMA MockListsStep ==
  ASSUME MockInv, NEW u \in Users, MockLists(u)
  PROVE  MockInv'
<1>0. /\ MockTypeOK /\ EntriesFit /\ WritersFit /\ WritersMeet /\ PromotedOnce
      /\ Delivered /\ EvictionBounded
  BY DEF MockInv
<1>1. PICK ripe \in SUBSET Ready :
         /\ mockFiles' = AfterPromoting(ripe) /\ listed' = listed \cup OutboxOf(u, DOMAIN mockFiles')
         /\ UNCHANGED <<puts, writer, acked, cutOff, meddled, fetched>>
  BY DEF MockLists
<1>2. /\ mockFiles' \in [DOMAIN mockFiles' -> [put : Nat, done : BOOLEAN]]
      /\ \A k \in DOMAIN mockFiles \ ripe : k \in DOMAIN mockFiles' /\ mockFiles'[k] = mockFiles[k]
      /\ \A r \in ripe : /\ r \in DOMAIN mockFiles /\ r.tid = 0 /\ mockFiles[r].done
                         /\ r = InboxKey(puts[mockFiles[r].put]) /\ Waiting(mockFiles[r].put)
      /\ \A k \in DOMAIN mockFiles' :
            \/ k \in DOMAIN mockFiles \ ripe
            \/ \E r \in ripe : /\ mockFiles'[k].put = mockFiles[r].put /\ mockFiles'[k].done /\ k.tid # 0
                               /\ k \in Copies(puts[mockFiles[r].put], mockFiles[r].put)
      /\ \A r \in ripe : \A k \in Copies(puts[mockFiles[r].put], mockFiles[r].put) :
            k \in DOMAIN mockFiles' /\ mockFiles'[k].put = mockFiles[r].put /\ mockFiles'[k].done
  BY <1>0, <1>1, PromotionEffect
<1>3. \A p : InboxKey(puts[p]).tid = 0
  BY DEF InboxKey, FileKey, Untracked
<1>4. \A p : Waiting(p)' <=> Waiting(p) /\ InboxKey(puts[p]) \notin ripe
  BY <1>1, <1>2, <1>3 DEF Waiting
<1>5. MockTypeOK'
  BY <1>0, <1>1, <1>2 DEF MockTypeOK, OutboxOf
<1>6. EntriesFit'
  BY <1>0, <1>1, <1>2 DEF EntriesFit
<1>7. \A k \in DOMAIN mockFiles' : \E r \in DOMAIN mockFiles :
         mockFiles'[k].put = mockFiles[r].put /\ (mockFiles'[k].done => mockFiles[r].done)
  BY <1>2
<1>8. WritersFit'
  BY <1>0, <1>1, <1>7 DEF WritersFit, Open
<1>9. WritersMeet'
  <2>1. ASSUME NEW w \in Putters, Open(w)', writer[w].put \notin meddled PROVE Waiting(writer[w].put)'
    <3>1. Waiting(writer[w].put) /\ Open(w)
      BY <1>0, <1>1, <2>1 DEF WritersMeet, Open
    <3>2. InboxKey(puts[writer[w].put]) \notin ripe
      BY <1>0, <1>2, <3>1 DEF WritersFit, Waiting
    <3>3. Waiting(writer[w].put)' <=> Waiting(writer[w].put) /\ InboxKey(puts[writer[w].put]) \notin ripe
      BY <1>1, <1>2, <1>3 DEF Waiting
    <3> QED
      BY <3>1, <3>2, <3>3
  <2>2. ASSUME NEW w \in Putters, Open(w)', writer[w].key \in DOMAIN mockFiles'
        PROVE  mockFiles'[writer[w].key].put \in {writer[w].put} \cup meddled
    <3>1. writer[w].key \in DOMAIN mockFiles \ ripe
      BY <1>0, <1>1, <1>2, <1>3, <2>2 DEF WritersFit, Open
    <3> QED
      BY <1>0, <1>1, <1>2, <2>2, <3>1 DEF WritersMeet, Open
  <2> QED
    BY <1>0, <1>1, <2>1, <2>2 DEF WritersMeet, Open
<1>10. PromotedOnce'
  <2>1. ASSUME NEW k \in DOMAIN mockFiles', k \in Copies(puts[mockFiles'[k].put], mockFiles'[k].put),
               NEW p, p = mockFiles'[k].put, Waiting(p)'
        PROVE  FALSE
    <3>1. CASE k \in DOMAIN mockFiles \ ripe
      <4>1. k \in Copies(puts[mockFiles[k].put], mockFiles[k].put) /\ mockFiles[k].put = p /\ Waiting(p)
        BY <1>2, <1>4, <2>1, <3>1
      <4> QED
        BY <1>0, <3>1, <4>1 DEF PromotedOnce
    <3>2. CASE \E r \in ripe : mockFiles'[k].put = mockFiles[r].put
      BY <1>2, <1>4, <2>1, <3>2
    <3> QED
      BY <1>2, <2>1, <3>1, <3>2
  <2>2. \A p \in fetched : ~Waiting(p)'
    BY <1>0, <1>4 DEF PromotedOnce
  <2>3. \A k \in DOMAIN mockFiles' : k \in Copies(puts[mockFiles'[k].put], mockFiles'[k].put) =>
            ~(InboxKey(puts[mockFiles'[k].put]) \in DOMAIN mockFiles'
              /\ mockFiles'[InboxKey(puts[mockFiles'[k].put])].put = mockFiles'[k].put)
    BY <1>1, <2>1 DEF Waiting
  <2> QED
    BY <1>1, <2>2, <2>3 DEF PromotedOnce, Waiting
<1>11. Delivered'
  <2> SUFFICES ASSUME NEW q \in acked \ (meddled \cup fetched)
               PROVE  \E k \in {InboxKey(puts[q]), OutboxKey(puts[q], q)} \cap DOMAIN mockFiles' :
                         mockFiles'[k].put = q /\ mockFiles'[k].done
    BY <1>1 DEF Delivered
  <2>1. PICK k \in {InboxKey(puts[q]), OutboxKey(puts[q], q)} \cap DOMAIN mockFiles :
           mockFiles[k].put = q /\ mockFiles[k].done
    BY <1>0 DEF Delivered
  <2>2. CASE k \in ripe
    <3>1. OutboxKey(puts[q], q) \in Copies(puts[q], q)
      BY DEF Copies
    <3> QED
      BY <1>2, <2>1, <2>2, <3>1
  <2>3. CASE k \notin ripe
    BY <1>2, <2>1, <2>3
  <2> QED
    BY <2>2, <2>3
<1>12. EvictionBounded'
  <2>1. ASSUME NEW p \in fetched, NEW k \in DOMAIN mockFiles', mockFiles'[k].put = p
        PROVE  k \in Holding(p)
    BY <1>0, <1>2, <2>1 DEF PromotedOnce, Holding
  <2>2. \A p \in fetched : Holding(p)' \subseteq Holding(p)
    BY <2>1 DEF Holding
  <2> QED
    BY <1>0, <1>1, <2>2 DEF EvictionBounded
<1> QED
  BY <1>5, <1>6, <1>8, <1>9, <1>10, <1>11, <1>12 DEF MockInv

(* Entries are dropped: those that waited or whose upload was acknowledged *)
(* only if it is on record as met, deleted or downloaded.                  *)
LEMMA DropStep ==
  ASSUME MockInv, NEW keys, mockFiles' = Without(keys), NEW q, q \in 1..Len(puts),
         \A k \in keys \cap DOMAIN mockFiles : mockFiles[k].put = q,
         UNCHANGED <<puts, writer, acked, listed>>,
         \/ meddled' = meddled \cup {q} /\ fetched' = fetched
         \/ /\ meddled' = meddled /\ fetched' = fetched \cup {q}
            /\ ~Waiting(q) /\ \A w \in Putters : Open(w) => writer[w].put # q
            /\ Evict /\ puts[q].user \in Paired => Holding(q) \subseteq keys
  PROVE  MockInv'
<1>0. /\ MockTypeOK /\ EntriesFit /\ WritersFit /\ WritersMeet /\ PromotedOnce
      /\ Delivered /\ EvictionBounded
  BY DEF MockInv
<1>1. /\ DOMAIN mockFiles' = DOMAIN mockFiles \ keys
      /\ \A k \in DOMAIN mockFiles' : k \in DOMAIN mockFiles /\ mockFiles'[k] = mockFiles[k]
      /\ mockFiles' = [k \in DOMAIN mockFiles' |-> mockFiles'[k]]
  BY DEF Without
<1>2. MockTypeOK'
  BY <1>0, <1>1 DEF MockTypeOK
<1>3. EntriesFit'
  BY <1>0, <1>1 DEF EntriesFit
<1>4. WritersFit'
  BY <1>0, <1>1 DEF WritersFit, Open
<1>5. \A p : Waiting(p)' => Waiting(p)
  BY <1>1 DEF Waiting
<1>6. WritersMeet'
  <2>1. ASSUME NEW w \in Putters, Open(w), writer[w].put \notin meddled', NEW p, p = writer[w].put
        PROVE  Waiting(p)'
    <3>1. Waiting(p) /\ p # q
      BY <1>0, <2>1 DEF WritersMeet
    <3> QED
      BY <1>1, <3>1 DEF Waiting
  <2>2. ASSUME NEW w \in Putters, Open(w), writer[w].put \notin meddled'
        PROVE  /\ InboxKey(puts[writer[w].put]) \in DOMAIN mockFiles'
               /\ mockFiles'[InboxKey(puts[writer[w].put])].put = writer[w].put
    BY <2>1, <2>2 DEF Waiting
  <2>3. meddled \subseteq meddled' /\ \A w \in Putters : Open(w)' <=> Open(w)
    BY DEF Open
  <2>4. \A w \in Putters : Open(w)' /\ writer'[w].put \notin meddled' => Waiting(writer[w].put)'
    BY <2>2, <2>3 DEF Waiting
  <2>5. \A w \in Putters : Open(w)' /\ writer'[w].key \in DOMAIN mockFiles' =>
            \/ mockFiles'[writer'[w].key].put = writer'[w].put
            \/ mockFiles'[writer'[w].key].put \in meddled'
    BY <1>0, <1>1, <2>3 DEF WritersMeet
  <2>6. \A w, x \in Putters : Open(w)' /\ Open(x)' /\ w # x /\ writer'[w].key = writer'[x].key =>
            writer'[w].put \in meddled'
    BY <1>0, <2>3 DEF WritersMeet
  <2> QED
    BY <2>4, <2>5, <2>6 DEF WritersMeet
<1>7. PromotedOnce'
  BY <1>0, <1>1 DEF PromotedOnce, Waiting
<1>8. Delivered'
  <2> SUFFICES ASSUME NEW p \in acked \ (meddled' \cup fetched')
               PROVE  \E k \in {InboxKey(puts[p]), OutboxKey(puts[p], p)} \cap DOMAIN mockFiles' :
                         mockFiles'[k].put = p /\ mockFiles'[k].done
    BY DEF Delivered
  <2>1. PICK k \in {InboxKey(puts[p]), OutboxKey(puts[p], p)} \cap DOMAIN mockFiles :
           mockFiles[k].put = p /\ mockFiles[k].done
    BY <1>0 DEF Delivered
  <2>2. k \in DOMAIN mockFiles'
    BY <1>1, <2>1
  <2> QED
    BY <1>1, <2>1, <2>2
<1>9. EvictionBounded'
  <2>1. \A p : Holding(p)' = Holding(p) \ keys
    BY <1>1 DEF Holding
  <2> QED
    BY <1>0, <2>1 DEF EvictionBounded
<1> QED
  BY <1>2, <1>3, <1>4, <1>6, <1>7, <1>8, <1>9 DEF MockInv

(* A download, with or without eviction.                                   *)
LEMMA MockReadsStep ==
  ASSUME MockInv, NEW k, MockReads(k)
  PROVE  MockInv'
<1> DEFINE q == mockFiles[k].put
<1>0. /\ MockTypeOK /\ EntriesFit /\ WritersFit /\ PromotedOnce
      /\ k \in DOMAIN mockFiles /\ k.folder = "outbox"
  BY DEF MockInv, MockReads, MockTypeOK
<1>1. q \in 1..Len(puts) /\ q # 0
  BY <1>0, EntryFacts
<1>2. k.tid # 0
  <2>1. InboxKey(puts[q]).folder = "inbox"
    BY DEF InboxKey, FileKey
  <2> QED
    BY <1>0, <2>1, EntryFacts
<1>3. k \in Copies(puts[q], q) /\ k.tid = q /\ mockFiles[k].done
  BY <1>0, <1>2, EntryFacts
<1>4. ~Waiting(q) /\ \A w \in Putters : Open(w) => writer[w].put # q
  BY <1>0, <1>3 DEF PromotedOnce, WritersFit
<1>5. k = OutboxKey(puts[q], q) /\ k.name = puts[q].name /\ k.user = Destination(puts[q].user)
  <2>1. k = OutboxKey(puts[q], q)
    BY <1>0, <1>3 DEF Copies, FileKey
  <2> QED
    BY <2>1 DEF OutboxKey, FileKey
<1>6. \A x \in Evicted(k) \cap DOMAIN mockFiles : mockFiles[x].put = q
  <2>1. \A x \in Evicted(k) : x.tid = q
    BY <1>3 DEF Evicted, FileKey
  <2> QED
    BY <1>0, <1>1, <2>1, EntryFacts
<1>7. puts[q].user \in Paired => Holding(q) \subseteq Evicted(k)
  <2> SUFFICES ASSUME puts[q].user \in Paired, NEW x \in DOMAIN mockFiles, mockFiles[x].put = q
               PROVE  x \in Evicted(k)
    BY DEF Holding
  <2>1. x \in Copies(puts[q], q)
    <3>1. x.tid # 0
      BY <1>0, <1>4, EntryFacts
    <3> QED
      BY <1>0, <3>1, EntryFacts
  <2>2. x = k \/ \E f \in {"inbox", "sent"} : x = FileKey(puts[q].user, f, k.name, k.tid)
    BY <1>3, <1>5, <2>1 DEF Copies
  <2>3. k.user = Receiver
    BY <1>5 DEF Destination
  <2> QED
    BY <2>2, <2>3 DEF Evicted
<1>8. /\ fetched' = fetched \cup {q} /\ mockFiles' = IF Evict THEN Without(Evicted(k)) ELSE mockFiles
      /\ UNCHANGED <<puts, writer, acked, meddled, listed>>
  BY DEF MockReads
<1> HIDE DEF q
<1>9. CASE Evict
  BY <1>1, <1>4, <1>6, <1>7, <1>8, <1>9, DropStep
<1>10. CASE ~Evict
  <2>1. mockFiles' = Without({})
    BY <1>0, <1>8, <1>10 DEF Without, MockTypeOK
  <2> QED
    BY <1>1, <1>4, <1>8, <1>10, <2>1, DropStep
<1> QED
  BY <1>9, <1>10

(* DELE.                                                                   *)
LEMMA MockDeletesStep ==
  ASSUME MockInv, NEW k, MockDeletes(k)
  PROVE  MockInv'
<1>1. k \in DOMAIN mockFiles /\ mockFiles[k].put \in 1..Len(puts)
  BY DEF MockInv, EntriesFit, MockDeletes
<1>2. /\ mockFiles' = Without({k}) /\ meddled' = meddled \cup {mockFiles[k].put}
      /\ UNCHANGED <<puts, writer, acked, listed, fetched>>
  BY DEF MockDeletes
<1> QED
  BY <1>1, <1>2, DropStep

(* An upload begins: its entry replaces whatever has the key.              *)
LEMMA PutBeginsStep ==
  ASSUME MockInv, NEW w \in Putters, NEW u \in Paired \cup Alone, NEW n \in Names, PutBegins(w, u, n)
  PROVE  MockInv'
<1> DEFINE p == Len(puts) + 1
           f == [user |-> u, name |-> n]
           key == FileKey(u, "inbox", n, Untracked)
           e == [put |-> p, done |-> FALSE]
           met == SameKey(key)
<1>0. /\ MockTypeOK /\ EntriesFit /\ WritersFit /\ WritersMeet /\ PromotedOnce
      /\ Delivered /\ EvictionBounded
  BY DEF MockInv
<1>1. /\ ~Open(w) /\ puts' = Append(puts, f)
      /\ mockFiles' = [k \in DOMAIN mockFiles \cup {key} |-> IF k = key THEN e ELSE mockFiles[k]]
      /\ writer' = [writer EXCEPT ![w] = [key |-> key, put |-> p]]
      /\ meddled' = IF met = {} THEN meddled ELSE meddled \cup met \cup {p}
      /\ UNCHANGED <<acked, listed, fetched>>
  BY DEF PutBegins, Open
<1>2. key = InboxKey(f)
  BY DEF InboxKey
<1>3. f \in [user : Paired \cup Alone, name : Names] /\ puts \in Seq([user : Paired \cup Alone, name : Names])
  BY <1>0 DEF MockTypeOK
<1> HIDE DEF f, key
<1>4. /\ puts' \in Seq([user : Paired \cup Alone, name : Names]) /\ Len(puts') = p /\ puts'[p] = f
      /\ p \in Nat /\ p \in 1..Len(puts') /\ p \notin 1..Len(puts) /\ p # 0
      /\ \A q \in 1..Len(puts) : q \in 1..Len(puts') /\ puts'[q] = puts[q] /\ q # p
  BY <1>1, <1>3
<1> HIDE DEF p
<1>5. e \in [put : Nat, done : BOOLEAN] /\ e.put = p /\ e.done = FALSE
  BY <1>4
<1> HIDE DEF e
<1>6. /\ DOMAIN mockFiles' = DOMAIN mockFiles \cup {key} /\ mockFiles'[key] = e
      /\ \A k \in DOMAIN mockFiles : k # key => mockFiles'[k] = mockFiles[k]
  BY <1>1
<1>7. DOMAIN writer' = Putters /\ writer'[w].put = p /\ writer'[w].key = key
      /\ \A x \in Putters : x # w => writer'[x] = writer[x]
  BY <1>0, <1>1 DEF MockTypeOK
<1>8. \A x \in Putters : x # w => (Open(x)' <=> Open(x))
  BY <1>7 DEF Open
<1>9. /\ key \in DOMAIN mockFiles => mockFiles[key].put \in met
      /\ \A x \in Putters : Open(x) /\ writer[x].key = key => writer[x].put \in met
  BY DEF SameKey, Open
<1> HIDE DEF met
<1>10. meddled \subseteq meddled' /\ met \subseteq meddled' /\ (met # {} => p \in meddled')
  BY <1>1
<1>11. \A k \in DOMAIN mockFiles : mockFiles[k].put \in 1..Len(puts)
  BY <1>0 DEF EntriesFit
<1>12. \A x \in Putters : Open(x) => writer[x].put \in 1..Len(puts)
                                    /\ writer[x].key = InboxKey(puts[writer[x].put])
  BY <1>0 DEF WritersFit
<1>13. MockTypeOK'
  <2>1. mockFiles' \in [DOMAIN mockFiles' -> [put : Nat, done : BOOLEAN]]
    <3>1. \A k \in DOMAIN mockFiles : mockFiles[k] \in [put : Nat, done : BOOLEAN]
      BY <1>0 DEF MockTypeOK
    <3> QED
      BY <1>1, <1>5, <3>1
  <2>2. acked' \cup fetched' \subseteq 1..Len(puts')
    BY <1>0, <1>1, <1>4 DEF MockTypeOK
  <2>3. \A k \in listed' : k.folder = "outbox"
    BY <1>0, <1>1 DEF MockTypeOK
  <2> QED
    BY <1>4, <1>7, <2>1, <2>2, <2>3 DEF MockTypeOK
<1>14. EntriesFit'
  <2> SUFFICES ASSUME NEW k \in DOMAIN mockFiles'
               PROVE  /\ mockFiles'[k].put \in 1..Len(puts')
                      /\ \/ k = InboxKey(puts'[mockFiles'[k].put])
                         \/ k \in Copies(puts'[mockFiles'[k].put], mockFiles'[k].put) /\ mockFiles'[k].done
    BY DEF EntriesFit
  <2>1. CASE k = key
    BY <1>2, <1>4, <1>5, <1>6, <2>1
  <2>2. CASE k # key
    <3>1. k \in DOMAIN mockFiles /\ mockFiles'[k] = mockFiles[k] /\ mockFiles[k].put \in 1..Len(puts)
      BY <1>6, <1>11, <2>2
    <3>2. puts'[mockFiles[k].put] = puts[mockFiles[k].put]
      BY <1>4, <3>1
    <3> QED
      BY <1>0, <1>4, <3>1, <3>2 DEF EntriesFit
  <2> QED
    BY <2>1, <2>2
<1>15. WritersFit'
  <2>1. ASSUME NEW x \in Putters, Open(x)'
        PROVE  /\ writer'[x].put \in 1..Len(puts') /\ writer'[x].key = InboxKey(puts'[writer'[x].put])
               /\ writer'[x].put \notin fetched'
               /\ \A k \in DOMAIN mockFiles' : mockFiles'[k].done => mockFiles'[k].put # writer'[x].put
    <3>1. CASE x = w
      <4>1. p \notin fetched
        BY <1>0, <1>4 DEF MockTypeOK
      <4>2. \A k \in DOMAIN mockFiles' : mockFiles'[k].done => mockFiles'[k].put # p
        BY <1>4, <1>5, <1>6, <1>11
      <4> QED
        BY <1>1, <1>2, <1>4, <1>7, <3>1, <4>1, <4>2
    <3>2. CASE x # w
      <4>1. Open(x) /\ writer'[x] = writer[x]
        BY <1>7, <1>8, <2>1, <3>2
      <4>2. writer[x].put \in 1..Len(puts) /\ puts'[writer[x].put] = puts[writer[x].put]
        BY <1>4, <1>12, <4>1
      <4>3. \A k \in DOMAIN mockFiles' : mockFiles'[k].done => mockFiles'[k].put # writer[x].put
        BY <1>0, <1>5, <1>6, <4>1 DEF WritersFit
      <4>4. writer[x].key = InboxKey(puts[writer[x].put]) /\ writer[x].put \notin fetched
        BY <1>0, <4>1 DEF WritersFit
      <4>5. writer[x].put \in 1..Len(puts')
        BY <1>4, <4>2
      <4>6. fetched' = fetched /\ writer'[x] = writer[x]
        BY <1>1, <4>1
      <4> QED
        BY <4>2, <4>3, <4>4, <4>5, <4>6
    <3> QED
      BY <3>1, <3>2
  <2>2. \A x, y \in Putters : Open(x)' /\ Open(y)' /\ writer'[x].put = writer'[y].put => x = y
    BY <1>0, <1>4, <1>7, <1>8, <1>12 DEF WritersFit
  <2> QED
    BY <2>1, <2>2 DEF WritersFit
<1>16. WritersMeet'
  <2>1. ASSUME NEW x \in Putters, Open(x)', writer'[x].put \notin meddled'
        PROVE  /\ InboxKey(puts'[writer'[x].put]) \in DOMAIN mockFiles'
               /\ mockFiles'[InboxKey(puts'[writer'[x].put])].put = writer'[x].put
    <3>1. CASE x = w
      BY <1>2, <1>4, <1>5, <1>6, <1>7, <3>1
    <3>2. CASE x # w
      <4>1. Open(x) /\ writer'[x] = writer[x] /\ writer[x].put \notin meddled
        BY <1>7, <1>8, <1>10, <2>1, <3>2
      <4>2. writer[x].key # key
        BY <1>9, <1>10, <2>1, <4>1
      <4>3. Waiting(writer[x].put) /\ puts'[writer[x].put] = puts[writer[x].put]
        BY <1>0, <1>4, <1>12, <4>1 DEF WritersMeet
      <4> QED
        BY <1>6, <1>12, <4>1, <4>2, <4>3 DEF Waiting
    <3> QED
      BY <3>1, <3>2
  <2>2. ASSUME NEW x \in Putters, NEW y \in Putters, Open(x)', Open(y)', x # y,
               writer'[x].key = writer'[y].key
        PROVE  writer'[x].put \in meddled'
    <3>1. CASE x = w
      BY <1>7, <1>8, <1>9, <1>10, <2>2, <3>1
    <3>2. CASE y = w
      BY <1>7, <1>8, <1>9, <1>10, <2>2, <3>2
    <3>3. CASE x # w /\ y # w
      BY <1>0, <1>7, <1>8, <1>10, <2>2, <3>3 DEF WritersMeet
    <3> QED
      BY <3>1, <3>2, <3>3
  <2>3. ASSUME NEW x \in Putters, Open(x)', writer'[x].key \in DOMAIN mockFiles'
        PROVE  mockFiles'[writer'[x].key].put \in {writer'[x].put} \cup meddled'
    <3>1. CASE x = w
      BY <1>5, <1>6, <1>7, <3>1
    <3>2. CASE x # w /\ writer[x].key = key
      BY <1>5, <1>6, <1>7, <1>8, <1>9, <1>10, <2>3, <3>2
    <3>3. CASE x # w /\ writer[x].key # key
      BY <1>0, <1>6, <1>7, <1>8, <1>10, <2>3, <3>3 DEF WritersMeet
    <3> QED
      BY <3>1, <3>2, <3>3
  <2> QED
    BY <2>1, <2>2, <2>3 DEF WritersMeet, Waiting
<1>17. \A q \in 1..Len(puts) : Waiting(q)' => Waiting(q)
  BY <1>4, <1>5, <1>6 DEF Waiting
<1>18. PromotedOnce'
  <2>1. ASSUME NEW k \in DOMAIN mockFiles', k \in Copies(puts'[mockFiles'[k].put], mockFiles'[k].put)
        PROVE  \E q \in 1..Len(puts) : q = mockFiles'[k].put /\ ~Waiting(q)
    <3>1. k # key
      <4>1. key = InboxKey(f) /\ mockFiles'[k].put # 0
        BY <1>2, <1>4, <1>5, <1>6, <1>11
      <4> QED
        BY <2>1, <4>1, KeyFacts
    <3>2. k \in DOMAIN mockFiles /\ mockFiles'[k] = mockFiles[k] /\ mockFiles[k].put \in 1..Len(puts)
      BY <1>6, <1>11, <3>1
    <3>3. puts'[mockFiles[k].put] = puts[mockFiles[k].put]
      BY <1>4, <3>2
    <3> QED
      BY <1>0, <2>1, <3>2, <3>3 DEF PromotedOnce
  <2>2. \A k \in DOMAIN mockFiles' : k \in Copies(puts'[mockFiles'[k].put], mockFiles'[k].put) =>
            ~(InboxKey(puts'[mockFiles'[k].put]) \in DOMAIN mockFiles'
              /\ mockFiles'[InboxKey(puts'[mockFiles'[k].put])].put = mockFiles'[k].put)
    BY <1>17, <2>1 DEF Waiting
  <2>3. \A q \in fetched' : ~Waiting(q)'
    BY <1>0, <1>1, <1>17 DEF PromotedOnce, MockTypeOK
  <2> QED
    BY <2>2, <2>3 DEF PromotedOnce, Waiting
<1>19. Delivered'
  <2> SUFFICES ASSUME NEW q \in acked \ (meddled' \cup fetched)
               PROVE  \E k \in {InboxKey(puts'[q]), OutboxKey(puts'[q], q)} \cap DOMAIN mockFiles' :
                         mockFiles'[k].put = q /\ mockFiles'[k].done
    BY <1>1 DEF Delivered
  <2>1. q \in 1..Len(puts) /\ puts'[q] = puts[q] /\ q \notin meddled
    BY <1>0, <1>4, <1>10 DEF MockTypeOK
  <2>2. PICK k \in {InboxKey(puts[q]), OutboxKey(puts[q], q)} \cap DOMAIN mockFiles :
           mockFiles[k].put = q /\ mockFiles[k].done
    BY <1>0, <2>1 DEF Delivered
  <2>3. k # key
    BY <1>9, <1>10, <2>2
  <2> QED
    BY <1>6, <2>1, <2>2, <2>3
<1>20. EvictionBounded'
  <2>1. \A q \in fetched : q # p /\ puts'[q] = puts[q]
    BY <1>0, <1>4 DEF MockTypeOK
  <2>2. \A q \in fetched : Holding(q)' \subseteq Holding(q)
    BY <1>5, <1>6, <2>1 DEF Holding
  <2> QED
    BY <1>0, <1>1, <2>1, <2>2 DEF EvictionBounded
<1> QED
  BY <1>13, <1>14, <1>15, <1>16, <1>18, <1>19, <1>20 DEF MockInv

(* Every entry of the mock servers is an upload in its inbox or a finished *)
(* copy of one, and open handles, promotions and downloads do not cross.   *)
THEOREM MockInvariant == MockSpec => []MockInv
<1>1. MockInit => MockInv
  <2> SUFFICES ASSUME MockInit PROVE MockInv
    OBVIOUS
  <2>1. DOMAIN mockFiles = {} /\ mockFiles \in [DOMAIN mockFiles -> [put : Nat, done : BOOLEAN]]
    BY DEF MockInit
  <2>2. puts \in Seq([user : Paired \cup Alone, name : Names])
    BY DEF MockInit
  <2>3. DOMAIN writer = Putters /\ \A w \in Putters : ~Open(w)
    BY DEF MockInit, Open
  <2>4. acked = {} /\ fetched = {} /\ listed = {}
    BY DEF MockInit
  <2>5. MockTypeOK
    BY <2>1, <2>2, <2>3, <2>4 DEF MockTypeOK
  <2> QED
    BY <2>1, <2>3, <2>4, <2>5
       DEF MockInv, EntriesFit, WritersFit, WritersMeet, PromotedOnce, Delivered, EvictionBounded
<1>2. MockInv /\ [MockNext]_mockVars => MockInv'
  <2> SUFFICES ASSUME MockInv, [MockNext]_mockVars PROVE MockInv'
    OBVIOUS
  <2>1. ASSUME NEW w \in Putters, NEW u \in Paired \cup Alone, NEW n \in Names, PutBegins(w, u, n)
        PROVE  MockInv'
    BY <2>1, PutBeginsStep
  <2>2. ASSUME NEW w \in Putters, NEW whole \in BOOLEAN, PutEnds(w, whole) PROVE MockInv'
    BY <2>2, PutEndsStep
  <2>3. ASSUME NEW u \in Users, MockLists(u) PROVE MockInv'
    BY <2>3, MockListsStep
  <2>4. ASSUME NEW k, MockReads(k) PROVE MockInv'
    BY <2>4, MockReadsStep
  <2>5. ASSUME NEW k, MockDeletes(k) PROVE MockInv'
    BY <2>5, MockDeletesStep
  <2>6. CASE UNCHANGED mockVars
    BY <2>6 DEF mockVars, MockInv, MockTypeOK, EntriesFit, WritersFit, WritersMeet, PromotedOnce,
                Delivered, EvictionBounded, Open, Waiting, Holding
  <2> QED
    BY <2>1, <2>2, <2>3, <2>4, <2>5, <2>6 DEF MockNext
<1> QED
  BY <1>1, <1>2, PTL DEF MockSpec

(* An acknowledged upload that met no other of its name waits complete in  *)
(* its inbox, lies complete in the outbox it is routed to, or was          *)
(* downloaded, for any users, names and concurrent uploads.                *)
THEOREM UploadsDelivered == MockSpec => []AckedUploadsDelivered
<1>1. MockInv => AckedUploadsDelivered
  <2> SUFFICES ASSUME MockInv, NEW p \in acked \ (meddled \cup fetched)
               PROVE  \E k \in Holding(p) :
                         /\ mockFiles[k].done
                         /\ \/ k.folder = "inbox" /\ k.tid = Untracked /\ k.user = puts[p].user
                            \/ k.folder = "outbox" /\ k.user = Destination(puts[p].user)
    BY DEF AckedUploadsDelivered
  <2>1. PICK k \in {InboxKey(puts[p]), OutboxKey(puts[p], p)} \cap DOMAIN mockFiles :
           mockFiles[k].put = p /\ mockFiles[k].done
    BY DEF MockInv, Delivered
  <2>2. /\ InboxKey(puts[p]).folder = "inbox" /\ InboxKey(puts[p]).tid = Untracked
        /\ InboxKey(puts[p]).user = puts[p].user
        /\ OutboxKey(puts[p], p).folder = "outbox"
        /\ OutboxKey(puts[p], p).user = Destination(puts[p].user)
    BY DEF InboxKey, OutboxKey, FileKey
  <2> QED
    BY <2>1, <2>2 DEF Holding
<1> QED
  BY <1>1, MockInvariant, PTL

(* With EvictAfterRead a download of a routed upload leaves no entry of it *)
(* in memory, and none comes back.                                         *)
THEOREM ReadsEvict == MockSpec => []EvictionBounded
<1>1. MockInv => EvictionBounded
  BY DEF MockInv
<1> QED
  BY <1>1, MockInvariant, PTL
=============================================================================
