\* A one-shot schedule and a concurrent credential migration.
SPECIFICATION Spec
CONSTANTS
    Schedules = {s1}
    Starters = {}
    Sweeper = sweeper
    RunIds = {r1, r2}
    Retain = 1
    SinkTemplates = {"run_id"}
    Intervals = {0}
    MaxTime = 2
    MaxStarts = 0
    MaxRestarts = 0
    Migrations = TRUE
    Faults = {}
    None = none
PROPERTY NoCatchUpBurst
