SPECIFICATION ReaderSpec
CONSTANTS
    Writers = {w1, w2}
    MaxDays = 1
    LastDay = 3
    MaxRecords = 3
    Faulty = TRUE
SYMMETRY Symmetry
VIEW Relevant
INVARIANTS TypeOK RetainsRecent StoredOnce RotatedBounded ReadOnce
PROPERTIES DropsOnlyImpaired
