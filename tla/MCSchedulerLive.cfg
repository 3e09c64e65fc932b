\* Two schedules that fall due behind one manual run, under fairness.
SPECIFICATION FairSpec
CONSTANTS
    Schedules = {s1, s2}
    Starters = {h1}
    Sweeper = sweeper
    RunIds = {r1, r2}
    Retain = 1
    SinkTemplates = {"run_id"}
    Intervals = {0, 1}
    MaxTime = 2
    MaxStarts = 1
    MaxRestarts = 0
    Migrations = FALSE
    Faults = {}
    None = none
PROPERTY DueSettles
