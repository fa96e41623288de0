SPECIFICATION FairSpec
CONSTANTS
    N = 2
    Names = {"services", "plugin"}
    NameOf <- DistinctNames
    Readers = {r1}
    Hanging <- SecondHangs
    MaxVersion = 1
PROPERTIES RequestsAnswered OthersRefresh StopHaltsProviders
