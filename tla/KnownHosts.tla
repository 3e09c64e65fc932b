----------------------------- MODULE KnownHosts -----------------------------
(***************************************************************************)
(* Host-key trust in file mode (internal/sftpx/client.go): the known_hosts  *)
(* file that probes append to and rewrite, and the process-wide callback    *)
(* that runs dial with, a snapshot of the file taken at boot and after a    *)
(* probe captured a new key (web.go, handleProbe).                          *)
(*                                                                         *)
(* The mutex of TOFUCallback belongs to one callback, and every probe makes *)
(* its own: probes serialise with nobody.                                   *)
(***************************************************************************)
EXTENDS Integers, FiniteSets

CONSTANTS
    FileHosts, FileKeys,  \* hosts and their keys
    Probes,               \* concurrent /api/probe requests
    MaxProbes,            \* bound: probes
    NoLines               \* no temporary file

ASSUME KnownHostsAssumption == MaxProbes \in Nat

Entries == FileHosts \X FileKeys

VARIABLES
    lines,      \* the entries of the known_hosts file
    linesTmp,   \* its ".tmp", NoLines when absent
    view,       \* hostKeyCallback: the entries it was loaded with
    presents,   \* the key each server presents
    probe,      \* per probe: program counter and locals
    probes,     \* counter of the bound
    approved,   \* entries whose probe answered ok, minus those renewed since
    probesOverlapped  \* two probes were in flight at once

khVars == <<lines, linesTmp, view, presents, probe, probes, approved, probesOverlapped>>

NoProbe == [pc |-> "idle", host |-> NoLines, key |-> NoLines, copy |-> {}, fresh |-> FALSE]

KnownInit ==
    /\ lines = {} /\ linesTmp = NoLines /\ view = {}
    /\ presents \in [FileHosts -> FileKeys]
    /\ probe = [p \in Probes |-> NoProbe]
    /\ probes = 0 /\ approved = {} /\ probesOverlapped = FALSE

ProbeAt(p, pc) == probe[p].pc = pc
ProbeGoes(p, pc) == probe' = [probe EXCEPT ![p].pc = pc]
ProbeEnds(p) == probe' = [probe EXCEPT ![p] = NoProbe]
EntriesOf(h) == {e \in Entries : e[1] = h}
\* What the server of this probe's host presents, as an entry.
Presented(p) == <<probe[p].host, presents[probe[p].host]>>

-----------------------------------------------------------------------------

\* handleProbe with trust_on_first_use, with or without accept_changed.
ProbeBegins(p) ==
    /\ ProbeAt(p, "idle") /\ probes < MaxProbes /\ probes' = probes + 1
    /\ \E h \in FileHosts, pc \in {"remove", "dial"} :
         probe' = [probe EXCEPT ![p].pc = pc, ![p].host = h]
    /\ probesOverlapped' = (probesOverlapped \/ \E q \in Probes \ {p} : ~ProbeAt(q, "idle"))
    /\ UNCHANGED <<lines, linesTmp, view, presents, approved>>

\* RemoveKnownHostEntries reads the file and drops the host's lines, ...
RemoveReads(p) ==
    /\ ProbeAt(p, "remove")
    /\ probe' = [probe EXCEPT ![p].pc = "rewrite", ![p].copy = lines \ EntriesOf(probe[p].host)]
    /\ approved' = approved \ EntriesOf(probe[p].host)
    /\ UNCHANGED <<lines, linesTmp, view, presents, probes, probesOverlapped>>

\* A rewrite that keeps only comments.
RewriteDropsAll(p) ==
    /\ ProbeAt(p, "rewrite")
    /\ linesTmp' = {}
    /\ ProbeGoes(p, "rename")
    /\ UNCHANGED <<lines, view, presents, probes, approved, probesOverlapped>>

\* ... writes what is left to the temporary file, or part of it and answers
\* an error, ...
RemoveWrites(p) ==
    /\ ProbeAt(p, "rewrite")
    /\ \/ linesTmp' = probe[p].copy /\ ProbeGoes(p, "rename")
       \/ linesTmp' \in SUBSET probe[p].copy /\ ProbeEnds(p)
    /\ UNCHANGED <<lines, view, presents, probes, approved, probesOverlapped>>

\* ... and renames it; another probe may have renamed it first, which ends
\* this one with an error.
RemoveRenames(p) ==
    /\ ProbeAt(p, "rename")
    /\ IF linesTmp = NoLines
       THEN ProbeEnds(p) /\ UNCHANGED <<lines, linesTmp>>
       ELSE lines' = linesTmp /\ linesTmp' = NoLines /\ ProbeGoes(p, "dial")
    /\ UNCHANGED <<view, presents, probes, approved, probesOverlapped>>

\* TOFUCallback reloads the file and checks: a listed key is accepted, a
\* host listed with other keys refused, an unlisted host appended.
CheckEntry(p) ==
    /\ ProbeAt(p, "dial")
    /\ CASE Presented(p) \in lines -> ProbeGoes(p, "login")
         [] Presented(p) \notin lines /\ lines \cap EntriesOf(probe[p].host) # {} -> ProbeEnds(p)
         [] OTHER -> probe' = [probe EXCEPT ![p].pc = "append", ![p].key = Presented(p)[2]]
    /\ UNCHANGED <<lines, linesTmp, view, presents, probes, approved, probesOverlapped>>

AppendEntry(p) ==
    /\ ProbeAt(p, "append")
    /\ lines' = lines \cup {<<probe[p].host, probe[p].key>>}
    /\ probe' = [probe EXCEPT ![p].pc = "login", ![p].fresh = TRUE]
    /\ UNCHANGED <<linesTmp, view, presents, probes, approved, probesOverlapped>>

\* The login fails: the probe answers an error, the appended line stays.
LoginRefused(p) ==
    /\ ProbeAt(p, "login")
    /\ ProbeEnds(p)
    /\ UNCHANGED <<lines, linesTmp, view, presents, probes, approved, probesOverlapped>>

\* The login succeeds: UseKnownHosts reads the file again if the callback
\* captured a new key.
LoginAccepted(p) ==
    /\ ProbeAt(p, "login")
    /\ probe' = [probe EXCEPT ![p].pc = IF probe[p].fresh THEN "install" ELSE "answer",
                              ![p].copy = lines]
    /\ UNCHANGED <<lines, linesTmp, view, presents, probes, approved, probesOverlapped>>

\* SetHostKeyCallback installs what was read.
InstallView(p) ==
    /\ ProbeAt(p, "install")
    /\ view' = probe[p].copy
    /\ ProbeGoes(p, "answer")
    /\ UNCHANGED <<lines, linesTmp, presents, probes, approved, probesOverlapped>>

AnswerOk(p) ==
    /\ ProbeAt(p, "answer")
    /\ approved' = approved \cup (lines \cap {Presented(p)})
    /\ ProbeEnds(p)
    /\ UNCHANGED <<lines, linesTmp, view, presents, probes, probesOverlapped>>

\* The server's key changes while nothing is in flight.  External.
Renewed(h) ==
    /\ \A p \in Probes : ProbeAt(p, "idle")
    /\ probes < MaxProbes
    /\ \E k \in FileKeys \ {presents[h]} : presents' = [presents EXCEPT ![h] = k]
    /\ UNCHANGED <<lines, linesTmp, view, probe, probes, approved, probesOverlapped>>

KnownNext ==
    \/ \E p \in Probes :
         \/ ProbeBegins(p) \/ RemoveReads(p) \/ RemoveWrites(p) \/ RemoveRenames(p)
         \/ CheckEntry(p) \/ AppendEntry(p) \/ LoginRefused(p) \/ LoginAccepted(p)
         \/ InstallView(p) \/ AnswerOk(p)
    \/ \E h \in FileHosts : Renewed(h)

KnownSpec == KnownInit /\ [][KnownNext]_khVars

-----------------------------------------------------------------------------
(* Properties.                                                              *)

\* As long as probes came one after the other, an entry the operator approved
\* stays in the file, across other hosts' renewals and failed logins, and no
\* host is listed with two keys (client.go:92-147, 247-291).
SoloProbesKeepTrust ==
    ~probesOverlapped => /\ approved \subseteq lines
                   /\ \A h \in FileHosts : Cardinality(lines \cap EntriesOf(h)) <= 1

\* "serialises strict-check + append so concurrent first-time dials cannot
\* race" (client.go:106): no host is listed with two keys.
OneKeyPerHost == \A h \in FileHosts : Cardinality(lines \cap EntriesOf(h)) <= 1

\* "reload it so next /api/start sees the freshly-appended entry"
\* (web.go:575-576): what a probe answered ok for, a run may dial.
ApprovedReachesRuns == approved \subseteq view
=============================================================================
