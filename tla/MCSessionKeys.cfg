SPECIFICATION Spec
CONSTANTS
    k1 = k1
    k2 = k2
    p1 = p1
    q1 = q1
    q2 = q2
    account = account
    dapp = dapp
    factory = factory
    w1 = w1
    w2 = w2
    n1 = n1
    n2 = n2
    n3 = n3
    Account = account
    Contracts <- MCContracts
    Wasms = {w1, w2}
    InitialWasm = w1
    Migratable = {w2}
    Factory = factory
    Missing = Missing
    NoWasm = NoWasm
    NoEntry = NoEntry
    NoNonce = NoNonce
    NoTx = NoTx
    Ed25519Keys = {k1, k2}
    Secp256r1Keys = {}
    PublicKeys = {}
    Nonces = {n1, n2}
    MaxTime = 2
    EntryLifetime = 1
    Invocations <- EdInvocations
    ConstructorArgs <- EdConstructorArgs
    Misrouted = TRUE
SYMMETRY Perms
INVARIANTS
    TypeOK
    DeployedIsInitialized
    LogTellsSigners
    EntriesAccountForState
    NothingExecutedOutsideWindows
PROPERTIES
    ConstructedPoliciesValid
    ImplementsPromise
