SPECIFICATION Spec
CONSTANTS
    Words <- MCWords
    Numbers <- MCNumbers
    Outputs <- MCOutputs
    Timeout = 1
    MaxVersion = 2
    MaxKey = 2
INVARIANTS TypeOK RunsOnlySigned SignedIsNotRefused ParsedAsMeant
PROPERTIES TimeoutEnds
