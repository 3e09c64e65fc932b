------------------------------ MODULE MCStores ------------------------------
(***************************************************************************)
(* The components that keep state on behalf of others: the report store with *)
(* a live-CSV request, the cluster coordinator and its archive, the reports  *)
(* directory, the diagnosis log, the vault, the two forms of host trust, the  *)
(* alerts configuration, the mock servers' files and the sessions of         *)
(* threaddump-analyzer.  They share no state and are checked one at a time:  *)
(* a behaviour picks one of them and is one of its own.                      *)
(***************************************************************************)
EXTENDS ReportStore, Cluster, RunArchive, RunDoctor, Vault, TrustStore, KnownHosts,
        DumpSession, MockServer, Alerts, TLC

CONSTANTS a1, a2, h1, h2, k1, k2

VARIABLE component  \* the component this behaviour is about

StoresInit ==
    /\ component \in {"report", "cluster", "archive", "doctor", "vault", "trust", "known", "dumps",
                     "mock", "alerts"}
    /\ Init /\ ClusterInit /\ ArchInit /\ DoctorInit /\ VaultInit /\ DumpInit
    /\ MockInit /\ AlertsInit
    \* Which key a server presents matters to its own component only.
    /\ IF component = "trust" THEN TrustInit
       ELSE TrustInit /\ served = [h \in Hosts |-> k1]
    /\ IF component = "known" THEN KnownInit
       ELSE KnownInit /\ presents = [h \in FileHosts |-> k1]

IdleBut(name) ==
    /\ component = name /\ UNCHANGED component
    /\ name # "report" => UNCHANGED storeVars
    /\ name # "cluster" => UNCHANGED clusterVars
    /\ name # "archive" => UNCHANGED archVars
    /\ name # "doctor" => UNCHANGED doctorVars
    /\ name # "vault" => UNCHANGED vaultVars
    /\ name # "trust" => UNCHANGED trustVars
    /\ name # "known" => UNCHANGED khVars
    /\ name # "dumps" => UNCHANGED dumpVars
    /\ name # "mock" => UNCHANGED mockVars
    /\ name # "alerts" => UNCHANGED alertVars

StoresNext ==
    \/ IdleBut("report") /\ Next
    \/ IdleBut("cluster") /\ ClusterNext
    \/ IdleBut("archive") /\ ArchNext
    \/ IdleBut("doctor") /\ DoctorNext
    \/ IdleBut("vault") /\ VaultNext
    \/ IdleBut("trust") /\ TrustNext
    \/ IdleBut("known") /\ KnownNext
    \/ IdleBut("dumps") /\ DumpNext
    \/ IdleBut("mock") /\ MockNext
    \/ IdleBut("alerts") /\ AlertsNext

storesVars == <<component, storeVars, clusterVars, archVars, doctorVars, vaultVars, trustVars,
                 khVars, dumpVars, mockVars, alertVars>>

StoresSpec == StoresInit /\ [][StoresNext]_storesVars

Symmetry ==
    Permutations({a1, a2}) \cup Permutations({h1, h2}) \cup Permutations({k1, k2})
=============================================================================
