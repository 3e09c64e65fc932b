\* Two schedules, one manual start, one restart; saves may fail.
SPECIFICATION Spec
CONSTANTS
    Schedules = {s1, s2}
    Starters = {h1}
    Sweeper = sweeper
    RunIds = {r1, r2}
    Retain = 1
    SinkTemplates = {"run_id"}
    Intervals = {0, 1}
    MaxTime = 3
    MaxStarts = 1
    MaxRestarts = 1
    Migrations = FALSE
    Faults = {"save"}
    None = none
SYMMETRY Symmetry
INVARIANT OneShotCancelHolds
PROPERTY NoCatchUpBurst
PROPERTY NoMissedReplay
