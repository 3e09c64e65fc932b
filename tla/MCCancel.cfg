\* One recurring schedule, cancelled while a sweep fires it.
SPECIFICATION Spec
CONSTANTS
    Schedules = {s1}
    Starters = {}
    Sweeper = sweeper
    RunIds = {r1}
    Retain = 1
    SinkTemplates = {"run_id"}
    Intervals = {1}
    MaxTime = 2
    MaxStarts = 0
    MaxRestarts = 0
    Migrations = FALSE
    Faults = {}
    None = none
INVARIANT CancelledStaysCancelled
