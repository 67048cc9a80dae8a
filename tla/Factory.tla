------------------------------- MODULE Factory -------------------------------
(***************************************************************************)
(* The contract factory (contracts/contract-factory/src/lib.rs) under the  *)
(* Soroban host: who may deploy, which address a deployment takes, and the *)
(* deployment of an account together with its first calls.                 *)
(*                                                                         *)
(* Callers sign orders, which transactions submit later, in any order, any *)
(* number of times.  The owner of an account that is still to be deployed  *)
(* endorses an order by signing the entry of that account for it.  A       *)
(* transaction runs one call per step, and reverts as a whole when one of  *)
(* them fails.                                                             *)
(*                                                                         *)
(* The constants that bound a run: Nonces (orders ever signed), Requests   *)
(* (what callers may ask for).                                             *)
(***************************************************************************)
EXTENDS AccessControl, Naturals, Sequences

CONSTANTS
    Root,         \* the admin given to the factory's constructor
    Deployer,     \* the role "deployer"
    Salts,        \* a salt stands for the address the factory gives it
    Builds,       \* code and constructor arguments of what is deployed
    Broken,       \* builds whose deployment fails: no such code, bad arguments
    Owners,       \* those who hold the keys of the accounts
    OwnerOf,      \* whose signature the account of a build accepts
    Nonces,       \* nonces of the orders
    Requests,     \* the orders that may be signed
    Outside,      \* a contract that is neither the factory nor deployed by it
    TheFactory,   \* the address of the factory
    NoContract, NoOrder, NoNonce, NoTx

ASSUME RolesAssumption == Root \in Addresses /\ Deployer \in Roles
ASSUME BuildsAssumption == NoContract \notin Builds /\ OwnerOf \in [Builds -> Owners]
ASSUME TargetsAssumption ==
    Outside \notin Salts /\ TheFactory \notin Salts /\ Outside # TheFactory
ASSUME NoNonceAssumption == NoNonce \notin Nonces

Targets == Salts \cup {Outside, TheFactory}

\* The orders: a call of the factory with its arguments, signed by caller.
\* calls are the contracts called after the deployment, in order; live tells
\* whether live_until_ledger starts a transfer of the admin, or is 0, to take it back.
Deployment ==
    [fn : {"deploy", "upload_and_deploy", "deploy_account_and_invoke"},
     caller : Addresses, salt : Salts, build : Builds, calls : Seq(Targets)]
RoleChange ==
    [fn : {"grant_role", "revoke_role"}, caller : Addresses, account : Addresses, role : Roles]
        \cup [fn : {"renounce_role"}, caller : Addresses, role : Roles]
        \cup [fn : {"set_role_admin"}, caller : Addresses, role : Roles, adminRole : Roles]
        \cup [fn : {"renounce_admin", "accept_admin_transfer"}, caller : Addresses]
        \cup [fn : {"transfer_admin_role"}, caller : Addresses, account : Addresses, live : BOOLEAN]
Order == Deployment \cup RoleChange

ASSUME RequestsAssumption ==
    /\ Requests \subseteq Order
    /\ \A r \in Requests : r \in Deployment /\ r.fn # "deploy_account_and_invoke" => r.calls = <<>>
ASSUME NoOrderAssumption == NoOrder \notin Requests

VARIABLES
    contracts,  \* what was deployed at the address of each salt
    used,       \* nonces the host has stored as used
    log,        \* history: the roles that changed and what was deployed
    called,     \* history: the calls made after deployments
    orders,     \* the order signed with each nonce
    endorsed,   \* the owners who have endorsed it
    tx          \* the transaction being executed

ledger == <<access, contracts, used, log, called>>
vars == <<ledger, orders, endorsed, tx>>

Entry ==
    [what : {"granted", "revoked"}, account : Addresses, role : Roles]
        \cup [what : {"deployed"}, nonce : Nonces, salt : Salts]

Call == [what : {"called"}, nonce : Nonces, target : Targets]

LedgerState ==
    [admin : Addresses \cup {NoAddress}, pendingAdmin : Addresses \cup {NoAddress},
     holders : [Roles -> SUBSET Addresses],
     roleAdmin : [Roles -> Roles \cup {NoRole}],
     contracts : [Salts -> Builds \cup {NoContract}], used : SUBSET Nonces, log : Seq(Entry),
     called : Seq(Call)]

Tx == [phase : {"factory", "account", "calls"}, order : Requests, nonce : Nonces \cup {NoNonce},
       calls : Seq(Targets), saved : LedgerState]

ASSUME NoTxAssumption == NoTx \notin Tx

-----------------------------------------------------------------------------
\* The factory's constructor has run.
Init ==
    /\ AccessInit(Root, Deployer)
    /\ contracts = [s \in Salts |-> NoContract]
    /\ used = {}
    /\ log = <<[what |-> "granted", account |-> Root, role |-> Deployer]>>
    /\ called = <<>>
    /\ orders = [n \in Nonces |-> NoOrder]
    /\ endorsed = [n \in Nonces |-> {}]
    /\ tx = NoTx

-----------------------------------------------------------------------------
(* Callers and owners, while no transaction is executed.                   *)

SignOrder(n, order) ==
    /\ tx = NoTx
    /\ orders[n] = NoOrder
    /\ orders' = [orders EXCEPT ![n] = order]
    /\ UNCHANGED <<ledger, endorsed, tx>>

\* An owner signs the account's entry for the order, whose root is the same call.
Endorse(n, owner) ==
    /\ tx = NoTx
    /\ orders[n] # NoOrder
    /\ orders[n].fn = "deploy_account_and_invoke"
    /\ n \notin used
    /\ endorsed' = [endorsed EXCEPT ![n] = @ \cup {owner}]
    /\ UNCHANGED <<ledger, orders, tx>>

Saved ==
    [admin |-> admin, pendingAdmin |-> pendingAdmin, holders |-> holders, roleAdmin |-> roleAdmin,
     contracts |-> contracts, used |-> used, log |-> log,
     called |-> called]

Begin(order, n) ==
    /\ tx = NoTx
    /\ tx' = [phase |-> "factory", order |-> order, nonce |-> n, calls |-> <<>>, saved |-> Saved]
    /\ UNCHANGED <<ledger, orders, endorsed>>

Submit(n) == orders[n] # NoOrder /\ Begin(orders[n], n)

\* Somebody submits a call its caller has not signed.
SubmitUnsigned(order) == Begin(order, NoNonce)

Fail ==
    /\ admin' = tx.saved.admin
    /\ pendingAdmin' = tx.saved.pendingAdmin
    /\ holders' = tx.saved.holders
    /\ roleAdmin' = tx.saved.roleAdmin
    /\ contracts' = tx.saved.contracts
    /\ used' = tx.saved.used
    /\ log' = tx.saved.log
    /\ called' = tx.saved.called
    /\ tx' = NoTx
    /\ UNCHANGED <<orders, endorsed>>

-----------------------------------------------------------------------------
(* The functions of the factory.                                           *)

Calling(fns) == tx # NoTx /\ tx.phase = "factory" /\ tx.order.fn \in fns

\* caller.require_auth(), which consumes the nonce of the order
Authorized_Unsigned == tx.nonce \notin used
Authorized == tx.nonce # NoNonce /\ tx.nonce \notin used

Consume == used' = used \cup {tx.nonce}

Record(entries) == log' = log \o entries

RecordCall(target) ==
    called' = Append(called, [what |-> "called", nonce |-> tx.nonce, target |-> target])

Continue(phase, calls) ==
    /\ tx' = [tx EXCEPT !.phase = phase, !.calls = calls]
    /\ UNCHANGED <<orders, endorsed>>

GrantRole ==
    LET o == tx.order
        accepted == Authorized /\ MayAdminister(o.caller, o.role)
    IN  /\ Calling({"grant_role"})
        /\ \/ /\ accepted
              /\ Grant(o.account, o.role)
              /\ Record(IF HasRole(o.account, o.role) THEN <<>>
                        ELSE <<[what |-> "granted", account |-> o.account, role |-> o.role]>>)
              /\ Consume
              /\ Continue("calls", <<>>)
              /\ UNCHANGED <<contracts, called>>
           \/ ~accepted /\ Fail

\* revoke_role and renounce_role: a role that is not held cannot be taken away.
RemoveRole(account) ==
    LET o == tx.order
    IN  /\ Revoke(account, o.role)
        /\ Record(<<[what |-> "revoked", account |-> account, role |-> o.role]>>)
        /\ Consume
        /\ Continue("calls", <<>>)
        /\ UNCHANGED <<contracts, called>>

RevokeRole ==
    LET o == tx.order
        accepted == Authorized /\ MayAdminister(o.caller, o.role) /\ HasRole(o.account, o.role)
    IN  /\ Calling({"revoke_role"})
        /\ (accepted /\ RemoveRole(o.account)) \/ (~accepted /\ Fail)

RenounceRole ==
    LET o == tx.order
        accepted == Authorized /\ HasRole(o.caller, o.role)
    IN  /\ Calling({"renounce_role"})
        /\ (accepted /\ RemoveRole(o.caller)) \/ (~accepted /\ Fail)

\* set_role_admin and renounce_admin require the authorization of the admin.
ChangeAdministration ==
    LET o == tx.order
        accepted == Authorized /\ o.caller = admin
    IN  /\ Calling({"set_role_admin", "renounce_admin"})
        /\ \/ /\ accepted
              /\ \/ o.fn = "set_role_admin" /\ SetRoleAdmin(o.role, o.adminRole)
                 \/ o.fn = "renounce_admin" /\ RenounceAdmin
              /\ Consume
              /\ Continue("calls", <<>>)
              /\ UNCHANGED <<contracts, log, called>>
           \/ ~accepted /\ Fail

\* transfer_admin_role, which the admin authorizes and fails for a ledger that has
\* passed: a transfer that is taken back has to be the pending one.
TransferAdminRole ==
    LET o == tx.order
        accepted == Authorized /\ o.caller = admin /\ (o.live \/ pendingAdmin = o.account)
    IN  /\ Calling({"transfer_admin_role"})
        /\ \/ /\ accepted
              /\ TransferAdmin(IF o.live THEN o.account ELSE NoAddress)
              /\ Consume
              /\ Continue("calls", <<>>)
              /\ UNCHANGED <<contracts, log, called>>
           \/ Fail

\* accept_admin_transfer, which the pending admin authorizes and which fails when
\* the transfer has expired.  Nothing here says that it fails, or that the transfer
\* is gone, when the admin was renounced in between.
AcceptAdminTransfer ==
    LET o == tx.order
        accepted == Authorized /\ o.caller = pendingAdmin
    IN  /\ Calling({"accept_admin_transfer"})
        /\ \/ /\ accepted
              /\ AcceptAdmin
              /\ Consume
              /\ Continue("calls", <<>>)
              /\ UNCHANGED <<contracts, log, called>>
           \/ Fail

\* The host gives a contract the address of its salt once.
Vacant(salt) == contracts[salt] = NoContract

\* #[only_role(caller, "deployer")]
OnlyDeployer_Admin(caller) == HasRole(caller, Deployer) \/ caller = admin
OnlyDeployer(caller) == HasRole(caller, Deployer)

\* deployer().with_current_contract(salt).deploy_v2(wasm_hash, constructor_args)
Install_OneSalt(order) == contracts' = [contracts EXCEPT ![CHOOSE s \in Salts : TRUE] = order.build]
Install(order) == contracts' = [contracts EXCEPT ![order.salt] = order.build]

\* deploy, upload_and_deploy, and deploy_account_and_invoke up to the account's
\* require_auth.
Deploy ==
    LET o == tx.order
        accepted == OnlyDeployer(o.caller) /\ Authorized /\ Vacant(o.salt) /\ o.build \notin Broken
    IN  /\ Calling({"deploy", "upload_and_deploy", "deploy_account_and_invoke"})
        /\ \/ /\ accepted
              /\ Install(o)
              /\ Record(<<[what |-> "deployed", nonce |-> tx.nonce, salt |-> o.salt]>>)
              /\ Consume
              /\ \/ o.fn = "deploy_account_and_invoke" /\ Continue("account", o.calls)
                 \/ o.fn # "deploy_account_and_invoke" /\ Continue("calls", <<>>)
              /\ UNCHANGED <<access, called>>
           \/ ~accepted /\ Fail

\* contract_id.require_auth(): the account, deployed a moment ago, accepts the
\* signature of its owner.
RequireAccountAuth_Skipped ==
    /\ tx # NoTx
    /\ tx.phase = "account"
    /\ Continue("calls", tx.calls)
    /\ UNCHANGED ledger

RequireAccountAuth ==
    LET accepted == OwnerOf[contracts[tx.order.salt]] \in endorsed[tx.nonce]
    IN  /\ tx # NoTx
        /\ tx.phase = "account"
        /\ \/ accepted /\ Continue("calls", tx.calls) /\ UNCHANGED ledger
           \/ ~accepted /\ Fail

\* env.invoke_contract, which may fail whatever it calls, and does when nothing
\* is deployed there or the factory would be entered a second time.
InvokeContract_FailureSkipped ==
    /\ tx # NoTx
    /\ tx.phase = "calls"
    /\ tx.calls # <<>>
    /\ Continue("calls", Tail(tx.calls))
    /\ RecordCall(Head(tx.calls)) \/ UNCHANGED called
    /\ UNCHANGED <<access, contracts, used, log>>

InvokeContract ==
    LET target == Head(tx.calls)
    IN  /\ tx # NoTx
        /\ tx.phase = "calls"
        /\ tx.calls # <<>>
        /\ \/ /\ target # TheFactory
              /\ target \in Salts => ~Vacant(target)
              /\ RecordCall(target)
              /\ Continue("calls", Tail(tx.calls))
              /\ UNCHANGED <<access, contracts, used, log>>
           \/ Fail

Commit ==
    /\ tx # NoTx
    /\ tx.phase = "calls"
    /\ tx.calls = <<>>
    /\ tx' = NoTx
    /\ UNCHANGED <<ledger, orders, endorsed>>

Execute ==
    \/ GrantRole \/ RevokeRole \/ RenounceRole \/ ChangeAdministration
    \/ TransferAdminRole \/ AcceptAdminTransfer
    \/ Deploy \/ RequireAccountAuth \/ InvokeContract
    \/ Commit

Next ==
    \/ \E n \in Nonces :
          \/ \E order \in Requests : SignOrder(n, order)
          \/ \E owner \in Owners : Endorse(n, owner)
          \/ Submit(n)
    \/ \E order \in Requests : SubmitUnsigned(order)
    \/ Execute

Spec == Init /\ [][Next]_vars
=============================================================================
