SPECIFICATION Spec
CONSTANTS
    N = 2
    Names = {"services", "plugin"}
    NameOf <- DistinctNames
    Readers = {r1}
    Hanging <- NoneHang
    MaxVersion = 2
INVARIANTS TypeOK WholeResults FullOnlyWhenAllCollected FreshAnswers
PROPERTIES AtomicSpec
