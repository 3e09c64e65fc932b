----------------------------- MODULE MCScheduler -----------------------------
\* Small instances of the scheduler for TLC.
EXTENDS Scheduler, TLC

\* Schedules, handlers and run identities are interchangeable (safety only).
Symmetry == Permutations(Schedules) \cup Permutations(Starters) \cup Permutations(RunIds)
=============================================================================
