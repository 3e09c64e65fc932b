\* One due schedule and one manual start.
SPECIFICATION Spec
CONSTANTS
    Schedules = {s1}
    Starters = {h1}
    Sweeper = sweeper
    RunIds = {r1, r2}
    Retain = 1
    SinkTemplates = {"run_id"}
    Intervals = {0}
    MaxTime = 1
    MaxStarts = 1
    MaxRestarts = 0
    Migrations = FALSE
    Faults = {}
    None = none
PROPERTY NoSurpriseOverlap
