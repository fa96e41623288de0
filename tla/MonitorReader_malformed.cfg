SPECIFICATION FairReaderSpec
CONSTANTS
    Writers = {w1}
    MaxDays = 2
    LastDay = 1
    MaxRecords = 1
    Faulty = TRUE
PROPERTIES MalformedLinesSkipped
