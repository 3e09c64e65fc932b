------------------------------- MODULE Alerts -------------------------------
(***************************************************************************)
(* Alerts (internal/alerts/alerts.go; web.go:119-176, 965-1118): one         *)
(* configuration in memory and in alerts.json, replaced by POST /api/alerts, *)
(* and per finished run, or test request, a dispatcher that takes a copy of  *)
(* the configuration, decides on the triggers and tries every channel.       *)
(*                                                                         *)
(* alertsCfgMu covers each read or write of the configuration, not the       *)
(* request: saves overlap, and they share the name of the temporary file.    *)
(***************************************************************************)
EXTENDS Naturals, Sequences, FiniteSets

CONSTANTS
    Posts,          \* POST /api/alerts requests
    Jobs,           \* finished runs and test requests
    MaxAlertCrashes,\* bound: crashes and restarts of the server
    NoFile          \* no file of that name

ASSUME AlertsAssumption == MaxAlertCrashes \in Nat /\ NoFile \notin Posts

VARIABLES
    alertsCfg,      \* Server.alertsCfg
    inode,          \* content of each file written, by the save that created it
    alertsFile, alertsTmp,  \* the inodes named alerts.json and alerts.json.tmp
    post,           \* per request: program counter, its configuration, its inode
    job,            \* per dispatcher: program counter, copy of the configuration, progress
    alertCrashes,   \* counter of the bound
    savesOverlap,     \* history: two saves were under way at once
    settled         \* history: the last configuration answered "ok"

alertVars == <<alertsCfg, inode, alertsFile, alertsTmp, post, job, alertCrashes, savesOverlap,
               settled>>

-----------------------------------------------------------------------------
(* Configuration and events.                                                *)

\* The order Fire goes through the channels.
Order == <<"slack", "webhook", "email">>

\* The channels that are set, and whether a failed file is a trigger; the
\* other thresholds are compared the same way.
AlertConfigs ==
    [channels : {{}, {"webhook", "email"}, {"slack", "webhook", "email"}}, onFailure : BOOLEAN]
Disabled == [channels |-> {}, onFailure |-> FALSE]
Truncated == [channels |-> {"?"}, onFailure |-> FALSE]  \* a file that does not parse

Anything(cfg) == cfg.channels # {}

\* What a run ended with: failed files, and a speed-floor stop or a hash
\* mismatch, which only the sealed metadata tells.
Events == {"clean", "failed", "urgent", "urgent unreadable"}

\* ShouldFire's triggers, on the event as built from what could be read.
ShouldFire(cfg, ev) == (cfg.onFailure /\ ev = "failed") \/ ev = "urgent"

NoPost == [pc |-> "idle", cfg |-> Disabled, ino |-> NoFile]
NoJob == [pc |-> "running", cfg |-> Disabled, ev |-> "clean", next |-> 1, tried |-> << >>]

AlertsInit ==
    /\ alertsCfg = Disabled
    /\ inode = [p \in Posts |-> Disabled]
    /\ alertsFile = NoFile /\ alertsTmp = NoFile
    /\ post = [p \in Posts |-> NoPost]
    /\ job = [j \in Jobs |-> NoJob]
    /\ alertCrashes = 0
    /\ savesOverlap = FALSE
    /\ settled = Disabled

-----------------------------------------------------------------------------
(* POST /api/alerts.                                                        *)

PostAt(p, pc) == post[p].pc = pc
SaveUnderWay(p) == post[p].pc \notin {"idle", "answered"}

\* The handler replaces the configuration under the lock.
PostReplaces(p, cfg) ==
    /\ PostAt(p, "idle")
    /\ alertsCfg' = cfg
    /\ post' = [post EXCEPT ![p].pc = "copy"]
    /\ savesOverlap' = (savesOverlap \/ \E q \in Posts \ {p} : SaveUnderWay(q))
    /\ UNCHANGED <<inode, alertsFile, alertsTmp, job, alertCrashes, settled>>

\* saveAlertsConfig takes the lock again and copies what is there now.
SaveCopies(p) ==
    /\ PostAt(p, "copy")
    /\ post' = [post EXCEPT ![p].pc = "open", ![p].cfg = alertsCfg]
    /\ UNCHANGED <<alertsCfg, inode, alertsFile, alertsTmp, job, alertCrashes, savesOverlap, settled>>

\* Variant: alerts.json itself is opened.
OpensInPlace(p) ==
    /\ PostAt(p, "open")
    /\ \E ino \in {IF alertsFile = NoFile THEN p ELSE alertsFile} :
          /\ alertsFile' = ino /\ alertsTmp' = ino
          /\ inode' = [inode EXCEPT ![ino] = Truncated]
          /\ post' = [post EXCEPT ![p].pc = "write", ![p].ino = ino]
    /\ UNCHANGED <<alertsCfg, job, alertCrashes, savesOverlap, settled>>

\* os.WriteFile opens the temporary file, created or truncated...
OpensTemp(p) ==
    /\ PostAt(p, "open")
    /\ \E ino \in {IF alertsTmp = NoFile THEN p ELSE alertsTmp} :
          /\ alertsTmp' = ino
          /\ inode' = [inode EXCEPT ![ino] = Truncated]
          /\ post' = [post EXCEPT ![p].pc = "write", ![p].ino = ino]
    /\ UNCHANGED <<alertsCfg, alertsFile, job, alertCrashes, savesOverlap, settled>>

\* ...and writes it, wherever the file has been renamed to by then.
WritesTemp(p) ==
    /\ PostAt(p, "write")
    /\ inode' = [inode EXCEPT ![post[p].ino] = post[p].cfg]
    /\ post' = [post EXCEPT ![p].pc = "rename"]
    /\ UNCHANGED <<alertsCfg, alertsFile, alertsTmp, job, alertCrashes, savesOverlap, settled>>

\* os.Rename of whatever bears the temporary name; without one, an error.
RenamesTemp(p) ==
    /\ PostAt(p, "rename")
    /\ post' = [post EXCEPT ![p].pc = "answered"]
    /\ IF alertsTmp = NoFile THEN UNCHANGED <<alertsFile, alertsTmp, settled>>
       ELSE /\ alertsFile' = alertsTmp /\ alertsTmp' = NoFile
            /\ settled' = post[p].cfg
    /\ UNCHANGED <<alertsCfg, inode, job, alertCrashes, savesOverlap>>

\* The open or the write fails: the handler answers with the error, the
\* configuration in memory stays replaced.
SaveErrors(p) ==
    /\ post[p].pc \in {"open", "write"}
    /\ post' = [post EXCEPT ![p].pc = "answered"]
    /\ UNCHANGED <<alertsCfg, inode, alertsFile, alertsTmp, job, alertCrashes, savesOverlap, settled>>

-----------------------------------------------------------------------------
(* dispatchAlertsWhenDone and /api/alerts/test.                             *)

JobAt(j, pc) == job[j].pc = pc

\* The run is done: the configuration is copied, and without a channel that is
\* all.
JobCopies(j, ev) ==
    /\ JobAt(j, "running")
    /\ job' = [job EXCEPT ![j].pc = IF Anything(alertsCfg) THEN "decide" ELSE "ended",
                          ![j].cfg = alertsCfg, ![j].ev = ev]
    /\ UNCHANGED <<alertsCfg, inode, alertsFile, alertsTmp, post, alertCrashes, savesOverlap, settled>>

\* The metadata directory is read and the triggers are evaluated.
JobDecides(j) ==
    /\ JobAt(j, "decide")
    /\ job' = [job EXCEPT ![j].pc =
                  IF ShouldFire(job[j].cfg, job[j].ev) THEN "fire" ELSE "ended"]
    /\ UNCHANGED <<alertsCfg, inode, alertsFile, alertsTmp, post, alertCrashes, savesOverlap, settled>>

\* POST /api/alerts/test: a synthetic event through the same channels.
TestAsked(j) ==
    /\ JobAt(j, "running")
    /\ job' = [job EXCEPT ![j].pc = IF Anything(alertsCfg) THEN "fire" ELSE "ended",
                          ![j].cfg = alertsCfg]
    /\ UNCHANGED <<alertsCfg, inode, alertsFile, alertsTmp, post, alertCrashes, savesOverlap, settled>>

\* A channel that is set is tried (postSlack, postJSON, sendEmail).
Attempted(j, c) ==
    IF c \in job[j].cfg.channels THEN Append(job[j].tried, c) ELSE job[j].tried

\* Variant: the first error ends the dispatch.
GivesUpOnError(j, ok) ==
    /\ JobAt(j, "fire")
    /\ job' = [job EXCEPT ![j].next = @ + 1,
                          ![j].tried = Attempted(j, Order[job[j].next]),
                          ![j].pc = IF ~ok \/ job[j].next = Len(Order) THEN "ended" ELSE @]
    /\ UNCHANGED <<alertsCfg, inode, alertsFile, alertsTmp, post, alertCrashes, savesOverlap, settled>>

\* Fire: the channels in turn; an error is logged, the next one is tried.
TriesChannel(j, ok) ==
    /\ JobAt(j, "fire")
    /\ job' = [job EXCEPT ![j].next = @ + 1,
                          ![j].tried = Attempted(j, Order[job[j].next]),
                          ![j].pc = IF job[j].next = Len(Order) THEN "ended" ELSE @]
    /\ UNCHANGED <<alertsCfg, inode, alertsFile, alertsTmp, post, alertCrashes, savesOverlap, settled>>

-----------------------------------------------------------------------------
\* loadAlertsConfig: no file, or one that does not parse, disables alerts.
Loaded ==
    IF alertsFile = NoFile \/ inode[alertsFile] = Truncated THEN Disabled ELSE inode[alertsFile]

\* The server dies and starts again: requests and dispatchers are gone, the
\* files stay as they are.
AlertsCrash ==
    /\ alertCrashes < MaxAlertCrashes
    /\ alertCrashes' = alertCrashes + 1
    /\ alertsCfg' = Loaded
    /\ post' = [p \in Posts |-> IF SaveUnderWay(p) THEN [post[p] EXCEPT !.pc = "answered"] ELSE post[p]]
    /\ job' = [j \in Jobs |-> IF job[j].pc \in {"decide", "fire"} THEN [NoJob EXCEPT !.pc = "lost"]
                             ELSE job[j]]
    /\ UNCHANGED <<inode, alertsFile, alertsTmp, savesOverlap, settled>>

AlertsNext ==
    \/ \E p \in Posts :
          \/ \E cfg \in AlertConfigs : PostReplaces(p, cfg)
          \/ SaveCopies(p) \/ OpensTemp(p) \/ WritesTemp(p) \/ RenamesTemp(p) \/ SaveErrors(p)
    \/ \E j \in Jobs :
          \/ \E ev \in Events : JobCopies(j, ev)
          \/ JobDecides(j) \/ TestAsked(j)
          \/ \E ok \in BOOLEAN : TriesChannel(j, ok)
    \/ AlertsCrash

AlertsSpec == AlertsInit /\ [][AlertsNext]_alertVars

-----------------------------------------------------------------------------
(* Properties.                                                              *)

\* A dispatcher that found a trigger tries every channel that was set when the
\* run finished, each exactly once, whichever of them fail and whatever is
\* posted meanwhile: "a failing webhook never blocks ... the next alert from
\* firing".
EveryChannelTried ==
    \A j \in Jobs :
        LET done == job[j].pc = "ended" /\ job[j].next > 1
            tried == job[j].tried
        IN  done => /\ {tried[i] : i \in DOMAIN tried} = job[j].cfg.channels
                    /\ Len(tried) = Cardinality(job[j].cfg.channels)

\* Saves that do not overlap are atomic: a server that dies at any moment of
\* one and starts again has the configuration of the last save that went
\* through, however many saves or crashes came before; never a file cut short.
SoloSavesAtomic == ~savesOverlap => Loaded = settled

\* "Atomic write via temp + rename so a crash mid-write doesn't corrupt the
\* file" (web.go:149-151): fails for two saves that overlap, one truncating
\* the temporary file the other renames.
AlertsFileWhole == alertsFile # NoFile => inode[alertsFile] # Truncated

\* "speed-floor and hash-mismatch are always-on triggers" (alerts.go:112-116):
\* fails when the metadata is not readable, for which web.go:996-997 says it
\* falls back to the run in memory.
UrgentAlwaysFires ==
    \A j \in Jobs :
        job[j].pc = "ended" /\ job[j].ev \in {"urgent", "urgent unreadable"}
            /\ Anything(job[j].cfg) => job[j].tried # << >>
=============================================================================
