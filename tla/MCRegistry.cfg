\* Two start handlers against the retention cap, with every fault on.
SPECIFICATION Spec
CONSTANTS
    Schedules = {s1}
    Starters = {h1, h2}
    Sweeper = sweeper
    RunIds = {r1, r2, r3, r4}
    Retain = 1
    SinkTemplates = {"run_id"}
    Intervals = {0}
    MaxTime = 1
    MaxStarts = 3
    MaxRestarts = 1
    Migrations = TRUE
    Faults = {"save", "delete"}
    None = none
SYMMETRY Symmetry
INVARIANT ActiveRunsReachable
PROPERTY OverCapOnlyActive
