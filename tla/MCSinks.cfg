\* Two start handlers with the same plain sink.
SPECIFICATION Spec
CONSTANTS
    Schedules = {s1}
    Starters = {h1, h2}
    Sweeper = sweeper
    RunIds = {r1, r2}
    Retain = 1
    SinkTemplates = {"run_id", "plain"}
    Intervals = {0}
    MaxTime = 1
    MaxStarts = 2
    MaxRestarts = 0
    Migrations = FALSE
    Faults = {}
    None = none
INVARIANT SinksDisjoint
