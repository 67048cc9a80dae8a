-------------------------- MODULE FactoryProperties --------------------------
(***************************************************************************)
(* What the contract factory guarantees (contracts/contract-factory).      *)
(***************************************************************************)
EXTENDS Factory

\* Every variable has its type, and only a signed order gets past the function
\* of the factory it names.
TypeOK ==
    /\ AccessTypeOK
    /\ contracts \in [Salts -> Builds \cup {NoContract}]
    /\ used \subseteq Nonces
    /\ log \in Seq(Entry)
    /\ called \in Seq(Call)
    /\ orders \in [Nonces -> Requests \cup {NoOrder}]
    /\ endorsed \in [Nonces -> SUBSET Owners]
    /\ tx \in Tx \cup {NoTx}
    /\ tx # NoTx /\ tx.phase # "factory" => tx.nonce \in Nonces

-----------------------------------------------------------------------------
Concerns(entry, address, role) ==
    entry.what \in {"granted", "revoked"} /\ entry.account = address /\ entry.role = role

\* address held role when the i-th entry of the log l was written.
Held(l, address, role, i) ==
    \E j \in 1 .. i - 1 :
        /\ Concerns(l[j], address, role)
        /\ l[j].what = "granted"
        /\ \A k \in j + 1 .. i - 1 : ~Concerns(l[k], address, role)

\* "Only authorized deployers can create contracts" (README.md): whoever signed
\* the order held the role when it was carried out, however long ago it was
\* signed; being the admin is not enough (lib.rs: only_role of the three
\* functions that deploy).
DeployedByDeployers ==
    \A i \in DOMAIN log : log[i].what = "deployed" =>
        Held(log, orders[log[i].nonce].caller, Deployer, i)

\* What an order deployed stays at the address predicted for its salt, whoever
\* else asked for the same salt, before or after (lib.rs: get_deployed_address).
DeployedAsOrdered ==
    \A i \in DOMAIN log : log[i].what = "deployed" =>
        LET order == orders[log[i].nonce]
        IN  log[i].salt = order.salt /\ contracts[order.salt] = order.build

\* No call is made after a deployment unless the owner of the account that was
\* deployed has endorsed the whole order (lib.rs: deploy_account_and_invoke).
CallsEndorsed ==
    \A i \in DOMAIN called :
        LET n == called[i].nonce
        IN  OwnerOf[contracts[orders[n].salt]] \in endorsed[n]

\* Once there is no admin, nobody to accept its transfer and nobody who holds a
\* role that administers another, nobody is ever granted a role again, by any
\* order signed before or after.
Frozen ==
    /\ admin = NoAddress
    /\ pendingAdmin = NoAddress
    /\ \A r \in Roles : roleAdmin[r] # NoRole => holders[roleAdmin[r]] = {}

FrozenForEver ==
    [][Frozen => Frozen' /\ \A r \in Roles : holders'[r] \subseteq holders[r]]_vars

-----------------------------------------------------------------------------
(* The factory keeps its promise.  A transaction in progress has not       *)
(* changed what has been settled.                                          *)

Settled == IF tx = NoTx THEN Saved ELSE tx.saved

Promise ==
    INSTANCE FactorySpec WITH
        settled <- Settled.used,
        deployers <- Settled.holders[Deployer],
        contracts <- Settled.contracts,
        called <- Settled.called

\* FactorySpec, for the state that transactions have settled.
ImplementsPromise == Promise!Spec
=============================================================================
