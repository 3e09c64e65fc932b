\* A recurring schedule fired while its credentials are migrated.
SPECIFICATION Spec
CONSTANTS
    Schedules = {s1}
    Starters = {}
    Sweeper = sweeper
    RunIds = {r1}
    Retain = 1
    SinkTemplates = {"run_id"}
    Intervals = {1}
    MaxTime = 2
    MaxStarts = 0
    MaxRestarts = 0
    Migrations = TRUE
    Faults = {}
    None = none
PROPERTY MigrationSticks
