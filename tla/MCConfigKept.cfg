\* A recurring schedule with a plain sink template and a manual run.
SPECIFICATION Spec
CONSTANTS
    Schedules = {s1}
    Starters = {h1}
    Sweeper = sweeper
    RunIds = {r1, r2}
    Retain = 1
    SinkTemplates = {"run_id", "plain"}
    Intervals = {1}
    MaxTime = 1
    MaxStarts = 1
    MaxRestarts = 0
    Migrations = FALSE
    Faults = {}
    None = none
INVARIANT ScheduleConfigKept
