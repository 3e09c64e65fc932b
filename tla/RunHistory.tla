----------------------------- MODULE RunHistory -----------------------------
(***************************************************************************)
(* What the reports directory promises its readers: a run is listed at most *)
(* once, by its clean seal or by the recovery of an interrupted run, and an *)
(* entry that has been listed never changes and never goes away.            *)
(***************************************************************************)
CONSTANTS
    Runs,       \* run identities
    Entries,    \* what an entry may say
    Unlisted    \* no entry

VARIABLE history    \* per run: its entry, or Unlisted

HistoryInit == history = [r \in Runs |-> Unlisted]

\* A run's entry appears.
ListRun(r) ==
    /\ history[r] = Unlisted
    /\ history'[r] \in Entries
    /\ history' = [history EXCEPT ![r] = history'[r]]

HistoryNext == \E r \in Runs : ListRun(r)

HistorySpec == HistoryInit /\ [][HistoryNext]_history
=============================================================================
