SPECIFICATION Spec
CONSTANTS
    k1 = k1
    p1 = p1
    q1 = q1
    q2 = q2
    account = account
    dapp = dapp
    other = other
    w2 = w2
    payload = payload
    stale = stale
    Account = account
    Contracts <- MCContracts
    Ed25519Keys <- MCEd25519Keys
    Secp256r1Keys <- MCSecp256r1Keys
    PublicKeys <- MCPublicKeys
    Wasms <- MCWasms
    KeyOrder <- MCKeyOrder
    Missing = Missing
    Payload = payload
    Payloads <- MCPayloads
    Stores <- MCStores
    Times <- MCTimes
    ProofMaps <- MCProofMaps
    Contexts <- MCContexts
INVARIANT TypeOK
INVARIANT LoopsDecide
INVARIANT LookUpBeforeVerify
INVARIANT AdminCallNeedsAdmin
INVARIANT MoreSignersStillOk
CHECK_DEADLOCK FALSE
