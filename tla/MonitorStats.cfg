SPECIFICATION Spec
CONSTANTS
    Databases <- MCDatabases
    Now = 48
    Periods = {1, 2, 4, 48}
    HourTicks = 2
    MaxShown = 2
INVARIANTS TypeOK PercentileRight ErrorsAccounted BreakdownAddsUp
CHECK_DEADLOCK FALSE
