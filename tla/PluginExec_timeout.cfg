SPECIFICATION Spec
CONSTANTS
    Words <- MCWords
    Numbers <- MCNumbers
    Outputs <- FewOutputs
    Timeout = 1
    MaxVersion = 2
    MaxKey = 2
INVARIANTS NothingAfterTimeout
