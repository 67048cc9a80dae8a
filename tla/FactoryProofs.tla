---------------------------- MODULE FactoryProofs ----------------------------
(***************************************************************************)
(* Theorems about the contract factory, for every set of addresses, roles, *)
(* salts, builds and requests.                                             *)
(***************************************************************************)
EXTENDS FactoryProperties, TLAPS

-----------------------------------------------------------------------------
(* Types.                                                                  *)

\* What the ledger holds after a step has the types of a ledger state.
LEMMA LedgerTypes ==
    Saved' \in LedgerState
    <=> /\ AccessTypeOK'
        /\ contracts' \in [Salts -> Builds \cup {NoContract}]
        /\ used' \in SUBSET Nonces
        /\ log' \in Seq(Entry)
        /\ called' \in Seq(Call)
BY DEF Saved, LedgerState, AccessTypeOK

\* TypeOK, with the ledger as one value.
LEMMA TypeParts ==
    ASSUME Saved' \in LedgerState,
           orders' \in [Nonces -> Requests \cup {NoOrder}],
           endorsed' \in [Nonces -> SUBSET Owners],
           tx' \in Tx \cup {NoTx},
           tx' # NoTx /\ tx'.phase # "factory" => tx'.nonce \in Nonces
    PROVE  TypeOK'
BY LedgerTypes DEF TypeOK

\* The ledger of a state of the right types, as one value.
LEMMA SavedType == ASSUME TypeOK PROVE Saved \in LedgerState
BY DEF TypeOK, Saved, LedgerState, AccessTypeOK

\* The function an order names tells which fields it has.
LEMMA OrderKinds ==
    ASSUME NEW o \in Requests
    PROVE  /\ o.fn \in {"deploy", "upload_and_deploy", "deploy_account_and_invoke"} =>
                  o \in Deployment
           /\ o.fn \in {"grant_role", "revoke_role"} =>
                  o.caller \in Addresses /\ o.account \in Addresses /\ o.role \in Roles
           /\ o.fn = "renounce_role" => o.caller \in Addresses /\ o.role \in Roles
           /\ o.fn = "transfer_admin_role" => o.account \in Addresses
           /\ o.fn = "set_role_admin" => o.role \in Roles /\ o.adminRole \in Roles
BY RequestsAssumption DEF Order, Deployment, RoleChange

\* A failing call restores what the transaction saved, and ends it.
LEMMA FailRestores ==
    ASSUME TypeOK, tx # NoTx, Fail
    PROVE  Saved' = tx.saved /\ tx' = NoTx /\ UNCHANGED <<orders, endorsed>>
BY DEF TypeOK, Tx, LedgerState, Fail, Saved

\* A step of a transaction is a step of one that has begun.
LEMMA ExecuteInTx == ASSUME TypeOK, Execute PROVE tx # NoTx /\ tx \in Tx
BY DEF TypeOK, Execute, GrantRole, RevokeRole, RenounceRole, ChangeAdministration,
       TransferAdminRole, AcceptAdminTransfer, Deploy, RequireAccountAuth, InvokeContract,
       Commit, Calling

\* Recording an entry keeps the log a log, and so does recording none.
LEMMA RecordType ==
    ASSUME log \in Seq(Entry), NEW e \in Entry, Record(<<e>>) \/ Record(<<>>)
    PROVE  /\ log' \in Seq(Entry)
           /\ Record(<<e>>) => log' = Append(log, e)
           /\ Record(<<>>) => log' = log
<1>1. <<e>> \in Seq(Entry) /\ <<>> \in Seq(Entry)
  OBVIOUS
<1>2. log \o <<e>> = Append(log, e) /\ log \o <<>> = log
  OBVIOUS
<1> QED BY <1>1, <1>2 DEF Record

\* A transaction that goes on keeps its order, its nonce and what it saved.
LEMMA ContinueType ==
    ASSUME tx \in Tx, NEW phase \in {"factory", "account", "calls"}, NEW calls \in Seq(Targets),
           Continue(phase, calls)
    PROVE  /\ tx' \in Tx /\ tx' # NoTx
           /\ tx'.phase = phase /\ tx'.calls = calls
           /\ tx'.order = tx.order /\ tx'.nonce = tx.nonce /\ tx'.saved = tx.saved
           /\ UNCHANGED <<orders, endorsed>>
<1>1. /\ tx' \in Tx /\ tx'.phase = phase /\ tx'.calls = calls
      /\ tx'.order = tx.order /\ tx'.nonce = tx.nonce /\ tx'.saved = tx.saved
  BY DEF Continue, Tx
<1> QED BY <1>1, NoTxAssumption DEF Continue

\* The log entries of a transaction that changed a role.
LEMMA RoleEntry ==
    ASSUME NEW what \in {"granted", "revoked"}, NEW account \in Addresses, NEW role \in Roles
    PROVE  [what |-> what, account |-> account, role |-> role] \in Entry
BY DEF Entry

\* Taking a role away, as revoke_role and renounce_role do.
LEMMA RemoveRoleType ==
    ASSUME TypeOK, tx \in Tx, NEW account \in Addresses, tx.order.role \in Roles,
           Authorized, RemoveRole(account)
    PROVE  Saved' \in LedgerState /\ Continue("calls", <<>>)
<1>1. log' \in Seq(Entry)
  <2>1. [what |-> "revoked", account |-> account, role |-> tx.order.role] \in Entry
    BY RoleEntry
  <2>2. Record(<<[what |-> "revoked", account |-> account, role |-> tx.order.role]>>)
    BY DEF RemoveRole
  <2> QED BY <2>1, <2>2, RecordType DEF TypeOK
<1>2. used' \in SUBSET Nonces
  BY DEF TypeOK, RemoveRole, Consume, Authorized, Tx
<1>3. AccessTypeOK'
  BY DEF TypeOK, AccessTypeOK, RemoveRole, Revoke
<1>4. contracts' \in [Salts -> Builds \cup {NoContract}] /\ called' \in Seq(Call)
  BY DEF TypeOK, RemoveRole
<1> QED BY <1>1, <1>2, <1>3, <1>4, LedgerTypes DEF RemoveRole

\* The ledger keeps its type, and the transaction goes on, is reverted or ends.
LEMMA ExecuteType ==
    ASSUME TypeOK, Execute
    PROVE  TypeOK'
<1>t. tx # NoTx /\ tx \in Tx /\ tx.order \in Requests
  BY ExecuteInTx DEF Tx
<1>e. <<>> \in Seq(Targets) /\ <<>> \in Seq(Entry)
  OBVIOUS
<1>n. Authorized => tx.nonce \in Nonces
  BY <1>t DEF Authorized, Tx
<1>f. CASE Fail
  <2>1. tx.saved \in LedgerState
    BY <1>t DEF Tx
  <2>2. Saved' = tx.saved /\ tx' = NoTx /\ UNCHANGED <<orders, endorsed>>
    BY <1>f, <1>t, FailRestores
  <2> QED BY <2>1, <2>2, TypeParts DEF TypeOK
<1>g. ASSUME NEW phase \in {"account", "calls"}, NEW calls \in Seq(Targets),
             tx.nonce \in Nonces, Continue(phase, calls), Saved' \in LedgerState
      PROVE  TypeOK'
  <2>1. tx' \in Tx /\ tx'.nonce = tx.nonce /\ UNCHANGED <<orders, endorsed>>
    BY <1>t, <1>g, ContinueType
  <2> QED BY <1>g, <2>1, TypeParts DEF TypeOK
<1>1. CASE GrantRole /\ ~Fail
  <2>1. /\ Authorized
        /\ tx.order.account \in Addresses /\ tx.order.role \in Roles
        /\ Grant(tx.order.account, tx.order.role)
        /\ Record(IF HasRole(tx.order.account, tx.order.role) THEN <<>>
                  ELSE <<[what |-> "granted", account |-> tx.order.account,
                          role |-> tx.order.role]>>)
        /\ Consume /\ Continue("calls", <<>>) /\ UNCHANGED <<contracts, called>>
    BY <1>1, <1>t, OrderKinds DEF GrantRole, Calling
  <2>2. log' \in Seq(Entry)
    <3>1. [what |-> "granted", account |-> tx.order.account, role |-> tx.order.role] \in Entry
      BY <2>1, RoleEntry
    <3>2. \/ Record(<<[what |-> "granted", account |-> tx.order.account, role |-> tx.order.role]>>)
          \/ Record(<<>>)
      BY <2>1
    <3> QED BY <3>1, <3>2, RecordType DEF TypeOK
  <2>3. AccessTypeOK'
    BY <2>1 DEF TypeOK, AccessTypeOK, Grant
  <2>4. used' \in SUBSET Nonces
    BY <1>n, <2>1 DEF TypeOK, Consume
  <2>5. contracts' \in [Salts -> Builds \cup {NoContract}] /\ called' \in Seq(Call)
    BY <2>1 DEF TypeOK
  <2> QED BY <1>e, <1>g, <1>n, <2>1, <2>2, <2>3, <2>4, <2>5, LedgerTypes
<1>2. CASE RevokeRole /\ ~Fail
  <2>1. Authorized /\ RemoveRole(tx.order.account)
        /\ tx.order.account \in Addresses /\ tx.order.role \in Roles
    BY <1>2, <1>t, OrderKinds DEF RevokeRole, Calling
  <2> QED BY <1>e, <1>g, <1>n, <1>t, <2>1, RemoveRoleType
<1>3. CASE RenounceRole /\ ~Fail
  <2>1. Authorized /\ RemoveRole(tx.order.caller)
        /\ tx.order.caller \in Addresses /\ tx.order.role \in Roles
    BY <1>3, <1>t, OrderKinds DEF RenounceRole, Calling
  <2> QED BY <1>e, <1>g, <1>n, <1>t, <2>1, RemoveRoleType
<1>4. CASE (ChangeAdministration \/ TransferAdminRole \/ AcceptAdminTransfer) /\ ~Fail
  <2>1. Authorized /\ Consume /\ Continue("calls", <<>>) /\ UNCHANGED <<contracts, log, called>>
    BY <1>4 DEF ChangeAdministration, TransferAdminRole, AcceptAdminTransfer
  <2>2. AccessTypeOK'
    <3>1. CASE ChangeAdministration
      BY <1>4, <1>t, <3>1, OrderKinds
         DEF ChangeAdministration, SetRoleAdmin, RenounceAdmin, TypeOK, AccessTypeOK
    <3>2. CASE TransferAdminRole
      BY <1>4, <1>t, <3>2, OrderKinds
         DEF TransferAdminRole, Calling, TransferAdmin, TypeOK, AccessTypeOK
    <3>3. CASE AcceptAdminTransfer
      BY <1>4, <3>3 DEF AcceptAdminTransfer, AcceptAdmin, TypeOK, AccessTypeOK
    <3> QED BY <1>4, <3>1, <3>2, <3>3
  <2>3. used' \in SUBSET Nonces
    BY <1>n, <2>1 DEF TypeOK, Consume
  <2>4. /\ contracts' \in [Salts -> Builds \cup {NoContract}]
        /\ log' \in Seq(Entry) /\ called' \in Seq(Call)
    BY <2>1 DEF TypeOK
  <2> QED BY <1>e, <1>g, <1>n, <2>1, <2>2, <2>3, <2>4, LedgerTypes
<1>5. CASE Deploy /\ ~Fail
  <2>1. tx.order \in Deployment
    BY <1>5, <1>t, OrderKinds DEF Deploy, Calling
  <2>2. /\ Authorized /\ Consume /\ UNCHANGED <<access, called>>
        /\ contracts' = [contracts EXCEPT ![tx.order.salt] = tx.order.build]
        /\ Record(<<[what |-> "deployed", nonce |-> tx.nonce, salt |-> tx.order.salt]>>)
        /\ Continue("account", tx.order.calls) \/ Continue("calls", <<>>)
    BY <1>5 DEF Deploy, Install
  <2>3. [what |-> "deployed", nonce |-> tx.nonce, salt |-> tx.order.salt] \in Entry
    BY <1>n, <2>1, <2>2 DEF Entry, Deployment
  <2>4. log' \in Seq(Entry)
    BY <2>2, <2>3, RecordType DEF TypeOK
  <2>5. AccessTypeOK' /\ used' \in SUBSET Nonces /\ called' \in Seq(Call)
    BY <1>n, <2>2 DEF TypeOK, access, AccessTypeOK, Consume
  <2>6. contracts' \in [Salts -> Builds \cup {NoContract}]
    BY <2>1, <2>2 DEF TypeOK, Deployment
  <2>7. tx.order.calls \in Seq(Targets)
    BY <2>1 DEF Deployment
  <2> QED BY <1>e, <1>g, <1>n, <2>2, <2>4, <2>5, <2>6, <2>7, LedgerTypes
<1>6. CASE RequireAccountAuth /\ ~Fail
  <2>1. Continue("calls", tx.calls) /\ UNCHANGED ledger /\ tx.calls \in Seq(Targets)
        /\ tx.nonce \in Nonces
    BY <1>6, <1>t DEF RequireAccountAuth, Tx, TypeOK
  <2>2. Saved' = Saved
    BY <2>1 DEF ledger, access, Saved
  <2> QED BY <1>g, <2>1, <2>2, SavedType
<1>7. CASE InvokeContract /\ ~Fail
  <2>1. tx.calls \in Seq(Targets) /\ tx.calls # <<>> /\ tx.nonce \in Nonces
    BY <1>7, <1>t DEF InvokeContract, Tx, TypeOK
  <2>2. Head(tx.calls) \in Targets /\ Tail(tx.calls) \in Seq(Targets)
    BY <2>1
  <2>3. /\ RecordCall(Head(tx.calls))
        /\ Continue("calls", Tail(tx.calls))
        /\ UNCHANGED <<access, contracts, used, log>>
    BY <1>7 DEF InvokeContract
  <2>4. called' \in Seq(Call)
    BY <2>1, <2>2, <2>3 DEF RecordCall, Call, TypeOK
  <2>5. AccessTypeOK' /\ used' \in SUBSET Nonces /\ log' \in Seq(Entry)
        /\ contracts' \in [Salts -> Builds \cup {NoContract}]
    BY <2>3 DEF TypeOK, access, AccessTypeOK
  <2> QED BY <1>g, <2>1, <2>2, <2>3, <2>4, <2>5, LedgerTypes
<1>8. CASE Commit
  <2>1. Saved' = Saved /\ tx' = NoTx /\ UNCHANGED <<orders, endorsed>>
    BY <1>8 DEF Commit, ledger, access, Saved
  <2> QED BY <2>1, SavedType, TypeParts DEF TypeOK
<1> QED BY <1>f, <1>1, <1>2, <1>3, <1>4, <1>5, <1>6, <1>7, <1>8 DEF Execute

\* What callers and owners do leaves the ledger alone, and every order as signed.
Client ==
    /\ tx' = tx /\ Saved' = Saved
    /\ \A n \in Nonces : orders[n] # NoOrder => orders'[n] = orders[n]
    /\ \A n \in Nonces : endorsed[n] \subseteq endorsed'[n]

\* A transaction begins with the ledger as it is and an order as signed.
Begun ==
    /\ tx = NoTx /\ tx' # NoTx
    /\ Saved' = Saved /\ tx'.saved = Saved /\ tx'.phase = "factory"
    /\ tx'.nonce # NoNonce => tx'.nonce \in Nonces /\ orders[tx'.nonce] = tx'.order
    /\ UNCHANGED <<orders, endorsed>>

\* However a transaction begins, it carries an order that may be signed.
LEMMA BeginBegun ==
    ASSUME TypeOK, NEW o \in Requests, NEW n \in Nonces \cup {NoNonce},
           n # NoNonce => orders[n] = o, Begin(o, n)
    PROVE  TypeOK' /\ Begun
<1> DEFINE t == [phase |-> "factory", order |-> o, nonce |-> n, calls |-> <<>>, saved |-> Saved]
<1>1. <<>> \in Seq(Targets)
  OBVIOUS
<1>2. t \in Tx
  BY <1>1, SavedType DEF Tx
<1>3. tx = NoTx /\ tx' = t /\ UNCHANGED <<ledger, orders, endorsed>>
  BY DEF Begin
<1>4. tx' \in Tx /\ tx' # NoTx /\ tx'.phase = "factory" /\ tx'.order = o /\ tx'.nonce = n
      /\ tx'.saved = Saved
  BY <1>2, <1>3, NoTxAssumption
<1>5. Saved' = Saved
  BY <1>3 DEF ledger, access, Saved
<1>6. TypeOK'
  BY <1>3, <1>4, <1>5, SavedType, TypeParts DEF TypeOK
<1> QED BY <1>3, <1>4, <1>5, <1>6 DEF Begun

\* Every step is one of callers and owners, begins a transaction, or is one of its own.
LEMMA StepKinds ==
    ASSUME TypeOK, [Next]_vars
    PROVE  TypeOK' /\ (Client \/ Begun \/ Execute)
<1>1. CASE UNCHANGED vars
  <2>1. UNCHANGED <<orders, endorsed, tx>> /\ Saved' = Saved
    BY <1>1 DEF vars, ledger, access, Saved
  <2> QED BY <2>1, SavedType, TypeParts DEF TypeOK, Client
<1>2. ASSUME NEW n \in Nonces, NEW o \in Requests, SignOrder(n, o) PROVE TypeOK' /\ Client
  <2>1. Saved' = Saved /\ UNCHANGED <<endorsed, tx>>
    BY <1>2 DEF SignOrder, ledger, access, Saved
  <2>2. orders' \in [Nonces -> Requests \cup {NoOrder}]
    BY <1>2 DEF SignOrder, TypeOK
  <2>3. \A m \in Nonces : orders[m] # NoOrder => orders'[m] = orders[m]
    BY <1>2 DEF SignOrder, TypeOK
  <2> QED BY <2>1, <2>2, <2>3, SavedType, TypeParts DEF TypeOK, Client
<1>3. ASSUME NEW n \in Nonces, NEW owner \in Owners, Endorse(n, owner) PROVE TypeOK' /\ Client
  <2>1. Saved' = Saved /\ UNCHANGED <<orders, tx>>
    BY <1>3 DEF Endorse, ledger, access, Saved
  <2>2. endorsed' \in [Nonces -> SUBSET Owners]
    BY <1>3 DEF Endorse, TypeOK
  <2>3. \A m \in Nonces : endorsed[m] \subseteq endorsed'[m]
    BY <1>3 DEF Endorse, TypeOK
  <2> QED BY <2>1, <2>2, <2>3, SavedType, TypeParts DEF TypeOK, Client
<1>4. ASSUME NEW n \in Nonces, Submit(n) PROVE TypeOK' /\ Begun
  <2>1. orders[n] \in Requests /\ Begin(orders[n], n)
    BY <1>4 DEF Submit, TypeOK
  <2> QED BY <2>1, BeginBegun
<1>5. ASSUME NEW o \in Requests, SubmitUnsigned(o) PROVE TypeOK' /\ Begun
  BY <1>5, BeginBegun DEF SubmitUnsigned
<1>6. CASE Execute
  BY <1>6, ExecuteType
<1> QED BY <1>1, <1>2, <1>3, <1>4, <1>5, <1>6 DEF Next

\* The initial state has the right types.
LEMMA InitType == Init => TypeOK
<1> SUFFICES ASSUME Init PROVE TypeOK
  OBVIOUS
<1>1. [what |-> "granted", account |-> Root, role |-> Deployer] \in Entry
  BY RolesAssumption, RoleEntry
<1>2. log \in Seq(Entry)
  BY <1>1 DEF Init
<1>3. AccessTypeOK
  BY RolesAssumption DEF Init, AccessInit, AccessTypeOK
<1> QED BY <1>2, <1>3 DEF Init, TypeOK

\* TypeOK holds of every behaviour of the factory; in particular no order that
\* nobody signed gets past the function of the factory it calls.
THEOREM FactoryTypeCorrect == Spec => []TypeOK
<1>1. TypeOK /\ [Next]_vars => TypeOK'
  BY StepKinds
<1> QED BY <1>1, InitType, PTL DEF Spec

-----------------------------------------------------------------------------
(* The steps of a transaction.                                             *)

\* A transaction that goes on, to the given phase with the given calls left.
Goes(phase, calls) ==
    /\ tx' # NoTx /\ tx'.phase = phase /\ tx'.calls = calls
    /\ tx'.order = tx.order /\ tx'.nonce = tx.nonce /\ tx'.saved = tx.saved
    /\ UNCHANGED <<orders, endorsed>>

Reverted == Saved' = tx.saved /\ tx' = NoTx /\ UNCHANGED <<orders, endorsed>>

Committed ==
    tx.phase = "calls" /\ tx.calls = <<>> /\ Saved' = Saved /\ tx' = NoTx
    /\ UNCHANGED <<orders, endorsed>>

\* The order's nonce is consumed.
Settling == tx.nonce \in Nonces /\ tx.nonce \notin used /\ used' = used \cup {tx.nonce}

Granting ==
    /\ tx.phase = "factory" /\ Goes("calls", <<>>) /\ UNCHANGED <<contracts, called>> /\ Settling
    /\ tx.order.fn = "grant_role"
    /\ tx.order.role \in Roles /\ tx.order.account \in Addresses
    /\ MayAdminister(tx.order.caller, tx.order.role)
    /\ Grant(tx.order.account, tx.order.role)
    /\ IF HasRole(tx.order.account, tx.order.role) THEN log' = log
       ELSE log' = Append(log, [what |-> "granted", account |-> tx.order.account,
                                role |-> tx.order.role])

Revoking(account) ==
    /\ tx.phase = "factory" /\ Goes("calls", <<>>) /\ UNCHANGED <<contracts, called>> /\ Settling
    /\ \/ tx.order.fn = "revoke_role" /\ account = tx.order.account
       \/ tx.order.fn = "renounce_role" /\ account = tx.order.caller
    /\ tx.order.role \in Roles /\ account \in Addresses
    /\ Revoke(account, tx.order.role)
    /\ log' = Append(log, [what |-> "revoked", account |-> account, role |-> tx.order.role])

Administering ==
    /\ tx.phase = "factory" /\ Goes("calls", <<>>) /\ Settling
    /\ UNCHANGED <<contracts, holders, log, called>>
    /\ tx.order.fn \in {"set_role_admin", "renounce_admin", "transfer_admin_role",
                       "accept_admin_transfer"}
    /\ tx.order.caller \in {admin, pendingAdmin}

Deploying ==
    /\ tx.phase = "factory" /\ UNCHANGED <<access, called>> /\ Settling
    /\ \/ tx.order.fn = "deploy_account_and_invoke" /\ Goes("account", tx.order.calls)
       \/ tx.order.fn # "deploy_account_and_invoke" /\ Goes("calls", <<>>)
    /\ tx.order \in Deployment
    /\ HasRole(tx.order.caller, Deployer)
    /\ contracts[tx.order.salt] = NoContract
    /\ contracts' = [contracts EXCEPT ![tx.order.salt] = tx.order.build]
    /\ log' = Append(log, [what |-> "deployed", nonce |-> tx.nonce, salt |-> tx.order.salt])

Approving ==
    /\ tx.phase = "account" /\ Goes("calls", tx.calls) /\ Saved' = Saved
    /\ OwnerOf[contracts[tx.order.salt]] \in endorsed[tx.nonce]

Invoking ==
    /\ tx.phase = "calls" /\ tx.calls # <<>> /\ Goes("calls", Tail(tx.calls))
    /\ RecordCall(Head(tx.calls)) /\ UNCHANGED <<access, contracts, used, log>>

\* Only an invocation of a contract reverts a transaction after its first calls.
LEMMA ExecuteSteps ==
    ASSUME TypeOK, Execute
    PROVE  /\ tx # NoTx /\ tx \in Tx
           /\ \/ Reverted /\ (tx.phase = "calls" => tx.calls # <<>>)
              \/ Committed \/ Granting \/ Administering \/ Deploying \/ Approving \/ Invoking
              \/ \E account \in Addresses : Revoking(account)
<1>t. tx # NoTx /\ tx \in Tx /\ tx.order \in Requests
  BY ExecuteInTx DEF Tx
<1>e. <<>> \in Seq(Targets) /\ <<>> \in Seq(Entry)
  OBVIOUS
<1>n. Authorized => tx.nonce \in Nonces
  BY <1>t DEF Authorized, Tx
<1>g. ASSUME NEW phase \in {"account", "calls"}, NEW calls \in Seq(Targets), Continue(phase, calls)
      PROVE  Goes(phase, calls)
  BY <1>t, <1>g, ContinueType DEF Goes
<1>l. log \in Seq(Entry)
  BY DEF TypeOK
<1>s. ASSUME Authorized, Consume PROVE Settling
  BY <1>n, <1>s DEF Authorized, Consume, Settling
<1>f. ASSUME Fail PROVE (Reverted /\ (tx.phase = "calls" => tx.calls # <<>>)) \/ Commit
  <2>1. Reverted
    BY <1>f, <1>t, FailRestores DEF Reverted
  <2>2. tx.phase = "calls" => tx.calls # <<>> \/ Commit
    BY <1>t DEF Execute, GrantRole, RevokeRole, RenounceRole, ChangeAdministration,
       TransferAdminRole, AcceptAdminTransfer, Deploy, RequireAccountAuth, InvokeContract, Calling
  <2> QED BY <2>1, <2>2
<1>c. ASSUME Commit PROVE Committed
  BY <1>c DEF Commit, Committed, ledger, access, Saved
<1>1. ASSUME GrantRole, ~Fail PROVE Granting
  <2> DEFINE e == [what |-> "granted", account |-> tx.order.account, role |-> tx.order.role]
  <2>1. /\ tx.phase = "factory"
        /\ tx.order.account \in Addresses /\ tx.order.role \in Roles
        /\ MayAdminister(tx.order.caller, tx.order.role)
        /\ Grant(tx.order.account, tx.order.role)
        /\ Record(IF HasRole(tx.order.account, tx.order.role) THEN <<>> ELSE <<e>>)
        /\ Continue("calls", <<>>) /\ UNCHANGED <<contracts, called>>
        /\ tx.order.fn = "grant_role" /\ Authorized /\ Consume
    BY <1>1, <1>t, OrderKinds DEF GrantRole, Calling
  <2>2. e \in Entry
    BY <2>1, RoleEntry
  <2>3. IF HasRole(tx.order.account, tx.order.role) THEN log' = log ELSE log' = Append(log, e)
    BY <1>l, <2>1, <2>2, RecordType
  <2> QED BY <1>e, <1>g, <1>s, <2>1, <2>3 DEF Granting
<1>2. ASSUME NEW account \in Addresses, tx.phase = "factory", tx.order.role \in Roles,
             RemoveRole(account), Authorized,
             \/ tx.order.fn = "revoke_role" /\ account = tx.order.account
             \/ tx.order.fn = "renounce_role" /\ account = tx.order.caller
      PROVE  Revoking(account)
  <2> DEFINE e == [what |-> "revoked", account |-> account, role |-> tx.order.role]
  <2>1. /\ Revoke(account, tx.order.role) /\ Record(<<e>>)
        /\ Continue("calls", <<>>) /\ UNCHANGED <<contracts, called>> /\ Consume
    BY <1>2 DEF RemoveRole
  <2>2. e \in Entry
    BY <1>2, RoleEntry
  <2>3. log' = Append(log, e)
    BY <1>l, <2>1, <2>2, RecordType
  <2> QED BY <1>2, <1>e, <1>g, <1>s, <2>1, <2>3 DEF Revoking
<1>3. ASSUME RevokeRole \/ RenounceRole, ~Fail
      PROVE  \E account \in Addresses : Revoking(account)
  <2>1. CASE RevokeRole
    BY <1>2, <1>3, <1>t, <2>1, OrderKinds DEF RevokeRole, Calling
  <2>2. CASE RenounceRole
    BY <1>2, <1>3, <1>t, <2>2, OrderKinds DEF RenounceRole, Calling
  <2> QED BY <1>3, <2>1, <2>2
<1>4. ASSUME ChangeAdministration \/ TransferAdminRole \/ AcceptAdminTransfer, ~Fail
      PROVE  Administering
  <2>1. /\ tx.phase = "factory" /\ tx.order.caller \in {admin, pendingAdmin}
        /\ Continue("calls", <<>>) /\ UNCHANGED <<contracts, holders, log, called>>
        /\ Authorized /\ Consume
        /\ tx.order.fn \in {"set_role_admin", "renounce_admin", "transfer_admin_role",
                           "accept_admin_transfer"}
    BY <1>4 DEF ChangeAdministration, TransferAdminRole, AcceptAdminTransfer, Calling,
                SetRoleAdmin, RenounceAdmin, TransferAdmin, AcceptAdmin
  <2> QED BY <1>e, <1>g, <1>s, <2>1 DEF Administering
<1>5. ASSUME Deploy, ~Fail PROVE Deploying
  <2> DEFINE e == [what |-> "deployed", nonce |-> tx.nonce, salt |-> tx.order.salt]
  <2>1. /\ tx.phase = "factory" /\ tx.order \in Deployment
    BY <1>5, <1>t, OrderKinds DEF Deploy, Calling
  <2>2. /\ Authorized /\ HasRole(tx.order.caller, Deployer)
        /\ contracts[tx.order.salt] = NoContract
        /\ contracts' = [contracts EXCEPT ![tx.order.salt] = tx.order.build]
        /\ Record(<<e>>) /\ Consume /\ UNCHANGED <<access, called>>
        /\ \/ tx.order.fn = "deploy_account_and_invoke" /\ Continue("account", tx.order.calls)
           \/ tx.order.fn # "deploy_account_and_invoke" /\ Continue("calls", <<>>)
    BY <1>5 DEF Deploy, Install, OnlyDeployer, Vacant
  <2>3. e \in Entry /\ tx.nonce \in Nonces /\ tx.order.calls \in Seq(Targets)
    BY <1>n, <2>1, <2>2 DEF Entry, Deployment
  <2>4. log' = Append(log, e)
    BY <1>l, <2>2, <2>3, RecordType
  <2>5. \/ tx.order.fn = "deploy_account_and_invoke" /\ Goes("account", tx.order.calls)
        \/ tx.order.fn # "deploy_account_and_invoke" /\ Goes("calls", <<>>)
    BY <1>e, <1>g, <2>2, <2>3
  <2> QED BY <1>s, <2>1, <2>2, <2>3, <2>4, <2>5 DEF Deploying
<1>6. ASSUME RequireAccountAuth, ~Fail PROVE Approving
  <2>1. /\ tx.phase = "account" /\ Continue("calls", tx.calls) /\ UNCHANGED ledger
        /\ OwnerOf[contracts[tx.order.salt]] \in endorsed[tx.nonce] /\ tx.calls \in Seq(Targets)
    BY <1>6, <1>t DEF RequireAccountAuth, Tx
  <2>2. Saved' = Saved
    BY <2>1 DEF ledger, access, Saved
  <2> QED BY <1>g, <2>1, <2>2 DEF Approving
<1>7. ASSUME InvokeContract, ~Fail PROVE Invoking
  <2>1. tx.phase = "calls" /\ tx.calls # <<>> /\ tx.calls \in Seq(Targets)
    BY <1>7, <1>t DEF InvokeContract, Tx
  <2>2. Tail(tx.calls) \in Seq(Targets)
    BY <2>1
  <2>3. /\ RecordCall(Head(tx.calls)) /\ Continue("calls", Tail(tx.calls))
        /\ UNCHANGED <<access, contracts, used, log>>
    BY <1>7 DEF InvokeContract
  <2> QED BY <1>g, <2>1, <2>2, <2>3 DEF Invoking
<1> QED BY <1>t, <1>f, <1>c, <1>1, <1>3, <1>4, <1>5, <1>6, <1>7 DEF Execute
=============================================================================
