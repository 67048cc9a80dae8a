CONSTANTS
    root = root
    keeper = keeper
    worker = worker
    deployer = deployer
    dep_admin = dep_admin
    s1 = s1
    s2 = s2
    mine = mine
    yours = yours
    bad = bad
    me = me
    you = you
    outside = outside
    factory = factory
    Addresses = {root, keeper, worker}
    Roles = {deployer, dep_admin}
    Root = root
    Deployer = deployer
    Salts = {s1, s2}
    Builds = {mine, yours, bad}
    Broken = {bad}
    Owners = {me, you}
    OwnerOf <- Owner
    Outside = outside
    TheFactory = factory
    Nonces = {n1, n2, n3}
    n1 = n1
    n2 = n2
    n3 = n3
    Requests <- CallRequests
    NoAddress = NoAddress
    NoRole = NoRole
    NoContract = NoContract
    NoOrder = NoOrder
    NoNonce = NoNonce
    NoTx = NoTx
SPECIFICATION Spec
INVARIANT DeployedAsOrdered
INVARIANT CallsEndorsed
PROPERTY ImplementsPromise

