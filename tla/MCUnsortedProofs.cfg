CONSTANTS
    Keys <- TwoKeys
    Validity = 1
    MaxLedger = 2
    MaxProofs = 2
    NoCall = NoCall
SPECIFICATION Spec
CHECK_DEADLOCK FALSE
INVARIANT CoSignedEntriesReadable
