CONSTANTS
    Keys <- ThreeKeys
    Validity = 1
    MaxLedger = 3
    MaxProofs = 4
    NoCall = NoCall
SPECIFICATION Spec
CHECK_DEADLOCK FALSE
INVARIANT ProofsAgree
INVARIANT NoProofLost
