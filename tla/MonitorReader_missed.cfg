SPECIFICATION ReaderSpec
CONSTANTS
    Writers = {w1}
    MaxDays = 2
    LastDay = 2
    MaxRecords = 2
    Faulty = FALSE
INVARIANTS NothingMissed
