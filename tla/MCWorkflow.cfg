SPECIFICATION Spec
CONSTANTS
    ROOT = ROOT
    DEPLOYER = DEPLOYER
    TREASURY = TREASURY
    ADMIN_SIGNER = ADMIN_SIGNER
    DELEGATED_SIGNER = DELEGATED_SIGNER
    deployer = deployer
    Deployer = deployer
    Salts = {s1, s2}
    Hello = Hello
    TheFactory = TheFactory
    Wallet = Wallet
    SdkValidity = 3
    Validity = 2
    MaxLag = 1
    MaxLedger = 5
    NoAccount = NoAccount
    NoWallet = NoWallet
    Nobody = Nobody
    Missing = Missing
    Addresses <- MCAddresses
    Roles <- MCRoles
    NoAddress = NoAddress
    NoRole = NoRole
CHECK_DEADLOCK FALSE
INVARIANT TypeOK
INVARIANT EffectsInOrder
INVARIANT InTimeSucceeds
INVARIANT FailureHasCause
INVARIANT ConfirmedReturns
PROPERTY EndsUnlessLost
