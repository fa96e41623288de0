SPECIFICATION FairSpec
CONSTANTS
    Rotate = 1
    MaxFiles = 1
    MaxSnaps = 3
    MaxRotated = 3
    Faulty = TRUE
    MayCrash = TRUE
INVARIANTS TypeOK RetainsNewest AtMostMaxFiles FinalSnapshot ClosedIsRetried
PROPERTIES StopTerminates WritingResumes
