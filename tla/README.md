# TLA+ models of the Stellar smart account

This directory holds a TLA+ development of the contracts in `src/contracts`: models that TLC checks on small
instances, and theorems about them that TLAPS checks for every instance. `PROJECT.json` is its index: which
definition stands for which lines, which run checks which property, which theorem establishes it.

## 1. The system

A smart account is a Soroban contract that other contracts treat as a user. Whoever wants to act in its name
prepares an *authorization entry* (the invocations it authorizes, a nonce, an expiration ledger), has it signed by one
or more of the account's *signers*, and submits a transaction with it. When a contract in that transaction calls
`require_auth` on the account's address, the Soroban host matches the entry, consumes its nonce and asks the account,
through `__check_auth`, whether the proofs in the entry authorize those invocations. The account's own configuration
(its signers, its code) is changed by calls to itself, which need the same authorization.

| Component | State it keeps | Operations | Correct when |
|---|---|---|---|
| Smart account (`smart-account/src/account.rs`) | the signer map, in instance storage | `__constructor`, `add_signer`, `update_signer`, `revoke_signer`, `upgrade`, `__check_auth` | it is deployed whole or not at all; its configuration changes only with the approval of a current Admin; its events tell its signers; an Admin is not lost by accident |
| Authorization (`smart-account/src/auth`) | none | verification of a proof, `is_authorized` of roles and policies, `check` of policies | a role allows no more than a stronger one; calls to the account need an Admin; policies bind when they are used, not when something was signed |
| `storage` crate | entries of instance or persistent storage | `get`, `store`, `update`, `delete`, `has`, each change with an event | `store` only creates, `update` and `delete` only touch what is there; no event without a change |
| `initializable` crate | one flag, in instance storage | `initialize`, `is_initialized`, guards | set exactly once, by the constructor |
| `upgradeable` crate | the flag `MIGRATING` | `upgrade`, `migrate` | the code changes only with authorization, data migrates at most once per upgrade |
| Contract factory (`contract-factory/src/lib.rs`) | roles (external crate), addresses given by salts | `deploy`, `deploy_account_and_invoke`, `upload_and_deploy`, `get_deployed_address` | only deployers deploy; a salt is used once; deployment and first calls are one transaction |
| Example client (`examples/*.ts`) | the operation of `main` being run, its transaction as simulated, the entries being signed | `deployFactory`, `grantDeployerRole`, `deploySmartAccount`, `addSigner`, `deployAndInvokeContractWithSmartAccount`, `sendHelloWorldTransactionWithSmartAccountAuth`, `upgradeSmartAccount`, with `authorizeWithSmartAccount`, `confirmTransaction`, `printAuthEntries` | each entry gets the proofs made for it; operations take effect in order and once; none stands in the way of a later one; `main` ends |
| Bindings (`packages/*`) | none | generated declarations and the calls of the contracts | |

How they interact: the account calls the three crates directly (they are code linked into it and share its instance
storage); the factory invokes the account's constructor through the host's deployer and later calls in the same
transaction; the host calls `__check_auth` in the middle of another contract's `require_auth`; clients only ever talk to
the host. A transaction is atomic: what any of its calls wrote is undone when one of them fails.

What is hard about it. There are no threads in a contract, and all the difficulty is between transactions and inside a
transaction that fails:

* an entry is signed in one state of the account and run in another: signers are added, demoted, revoked, given another
  key pair under the same key; time passes, windows open and close; entries run in any order, some never, some twice;
* the constructor stores signers with authorization switched off (`require_auth_if_initialized`) and can fail half-way;
* batches of calls fail half-way, after storage has changed and events have been published;
* `__check_auth` is three passes over a map with early returns, a cache and a break, on proofs of mixed kinds by signers
  of mixed roles for contexts of mixed kinds;
* legal calls in sequence can take the last Admin away;
* a deployer signs an order now and it runs later, when roles have been granted and revoked and a salt may be taken;
* several signers put their proofs into one entry, one after the other, while ledgers close;
* the client is told a transaction's fate by polling, asks a node that may be behind or unreachable, and may be told that
  a transaction it sent could not be sent; entries expire while it waits.

`PROJECT.json` lists these, each at its line, under `hazards`, with the properties below that watch them.

## 2. The modules

| Module | What it is |
|---|---|
| `Authorization` | Signers, roles, policies, proofs, contexts, and the decision of `__check_auth`, as operators without state. |
| `CheckAuth` | One run of `__check_auth`, an iteration of a loop per step: the implementation of the decision. |
| `SmartAccount` | The account under the host: clients, transactions, constructor, authorization, calls. Composes the decision of `Authorization` with the storage, initializable and upgradeable crates. |
| `AccountSpec` | The abstract promise: whole creation, and changes that are atomic, approved by a current Admin and never twice by the same approval. |
| `SmartAccountProperties` | The properties of `SmartAccount` and its refinement mapping to `AccountSpec`. |
| `AccessControl` | Roles, their holders and their administration, as the factory uses them: the state and the operations of the external crate. |
| `Factory` | The factory under the host: callers who sign orders, owners who endorse them, transactions. Extends `AccessControl`. |
| `FactorySpec` | The abstract promise: an order is carried out at most once, as a whole, by a deployer of that moment. |
| `FactoryProperties` | The properties of `Factory` and its refinement mapping to `FactorySpec`. |
| `CoSigning` | The entry of `authorizeWithSmartAccount`, signed by several co-signers, and the host that reads it. |
| `Operations` | The operations of the example client, as the source, the call and the steps of a transaction each, without state. |
| `Workflow` | `main` running them, step by step, against the factory and the accounts it deploys, an RPC node and a network. Extends `AccessControl`, and takes an account's decision from `Authorization`. |
| `MCCheckAuth`, `MCSmartAccount`, `MCFactory`, `MCCoSigning`, `MCWorkflow` | Instances for TLC, with a `.cfg` for each run. |
| `AuthorizationProofs`, `CheckAuthProofs`, `SmartAccountProofs`, `SmartAccountSafety`, `FactoryProofs`, `FactorySafety`, `CoSigningProofs`, `WorkflowProofs` | Theorems and proofs. |

A definition `Name_Variant` is a wrong version of `Name`, a bug as it could be made in that code, which the
properties are known to detect. Nothing else uses it.

### How the state corresponds to the code

`Authorization`. A key pair is represented by its public key, and a proof by the key pair and the payload it was made
with; `ed25519_verify` and `secp256r1_verify` succeed exactly when those match what they check. For a Secp256r1 signer
that is the public key only: the code verifies a signature over data taken from the proof. A Secp256r1 signer is stored
under its `key_id` and may have any public key, an Ed25519 signer is stored under its public key: `Credentials`. Maps are
total functions with `Missing` for absent keys. Timestamps are natural numbers: the code compares them and does no
arithmetic. Error codes are kept where something tells them apart (`CheckAuth`'s results) and are otherwise just failure.

`CheckAuth`. `pc` is the loop being run, `left` the keys its iterator has yet to visit, `context` the counter of the loop
over contexts, `verified` is `verified_signers`, `result` what was returned. `KeyOrder` is the order in which Soroban
iterates over maps: each iteration takes the key of `left` that is earlier than the others (`IsNext`).

`SmartAccount`. `wasm`, `initialized`, `migrating` and `signers` are the instance; `events` is what the account published
(the storage event and the signer event of an operation are published together and are one element); `consumed` is the
host's record of used nonces; `entries` are the authorization entries clients have prepared; `tx` is the transaction
being executed, with what is left to do and, in `saved`, what the ledger held before it. `executed` is history and
guards nothing; so are `tx.view`, what `__check_auth` decided on, and `tx.trail`, the account when it had decided and
after each call since, which `executed` keeps. The actions are:

* `PrepareEntry`, `SignEntry` for `authorizeWithSmartAccount`; `MisrouteProof`, switched on by the constant `Misrouted`,
  for a proof that arrives with another entry than it was made for;
* `Submit`, `SubmitUnsigned`, `Deploy`, `DeployAndInvoke` to begin a transaction: an entry may be submitted any number
  of times, before it is signed, after it has expired, after other transactions;
* `ConstructorCheck`, `ConstructorAdd` (once per signer), `ConstructorInitialize` for `__constructor`;
* `RequireAuth` for `require_auth` with `__check_auth` in it;
* `AddSigner`, `UpdateSigner`, `RevokeSigner`, `Upgrade`, `OtherCall`, each with its failing branch, and `Commit`;
* `Migrate`, for an account that has been upgraded to one of the builds of `Migratable`, those that implement
  `SmartAccountUpgradeableMigratable`: the build of this repository does not;
* `Tick` for a ledger close.

A failing branch is `Fail`, which restores `saved`. Every guard and every order of effects is the code's: for example
`AddSigner` succeeds only when authorization was given (or the flag is unset) and the key is not there.

`Factory`. `admin`, `pendingAdmin`, `holders` and `roleAdmin` are the factory's storage as the access-control crate keeps
it. `contracts` gives what is deployed at the address of each salt: the address is a function of the factory and the salt
(`get_deployed_address`), so a salt stands for its address. `orders` are the calls of the factory that callers have
signed, one nonce each; `endorsed` the owners who have signed the account's entry for an order, whose root is the same
call. `used` is the host's record of nonces, `tx` the transaction being executed, `log` and `called` are history,
the one of the roles that changed and of what was deployed, the other of the calls made after deployments: they are not
the events the factory publishes (`upload_and_deploy` publishes none) and no guard reads them. The actions are `SignOrder`, `Endorse`, `Submit` and `SubmitUnsigned` for clients; `GrantRole`,
`RevokeRole`, `RenounceRole`, `ChangeAdministration`, `TransferAdminRole` and `AcceptAdminTransfer` for the functions of
the access-control trait, which the factory exposes with their default bodies; `Deploy` for `deploy`, `upload_and_deploy` and the first call of
`deploy_account_and_invoke`, whose effect is `Install`: what the order names, under the salt it names;
`RequireAccountAuth` and `InvokeContract`, once per call, for the rest of that; `Commit` and `Fail` for the host, whose
check it also is that an address is free (`Vacant`). A deployment fails when the salt is taken or the build is one of `Broken` (no such code, constructor
arguments it refuses); a call may fail whatever it calls, and does when it calls the factory, which Soroban does not let
be entered again, or an address nothing is deployed at.

`Factory` and `SmartAccount` meet in `deploy_account_and_invoke`. In `Factory` the account is abstract: it accepts
its owner's signature. In `SmartAccount` the factory is: it deploys one account, once, and its calls run. What is between
them, that an account accepts the signatures it should, is `CheckAuthOk`.

`CoSigning`. `entry` has the two fields of the credentials that change, the expiration and the map of proofs; `call` is
the running call of `authorizeWithSmartAccount` with its `clone`, made before the latest ledger is awaited, and put back
when the call returns (`Attach`) or thrown away (`Throw`). The payload of a proof is the expiration it was made over: the
nonce and the invocation are the same for all signers. Keys keep their bytes, because the order of the map is the order
of their decimal digits in the client and of the bytes themselves in the host: `LocaleBefore`, `Before`. The client
pushes its proof at the end and sorts; as the others are sorted already and the sort is stable, that puts the proof
behind those it does not precede, which is what `Insert` does.

`Operations` and `Workflow`. An operation is a record: the source of its transaction, its call, and its steps, one for
each `await` and each read that may throw, in the order of the code. That order is where operations differ:
`deploySmartAccount` signs before it simulates again and reads a result at the end, the others do not; `addSigner`, the
two greetings and the upgrade share `WithSmartAccountAuth`. `at` is the operation of `main` that is running, `pc` its
step, and `exit` tells how `main` ended: an operation that throws ends it. An `AssembledTransaction` is `simulation` (its
last result), `entries` (its authorization entries) and `signed` (those of the envelope that was signed, which is what
`send` sends). `sent` and `status` are the transaction the network has, `closed` the ledger that last included one. A
salt stands for the address the factory gives it, in `wallet` and in `accounts`, which keeps the signers of each account
that was deployed; two random salts differ. An action runs one step, and each step that asks the node has its ways to
fail:

* `Unreachable`: the request throws, and `main` with it;
* `Seen`: the node takes one of the last `MaxLag` ledgers for the last one. A node that has not seen the ledger of the last
  transaction (`Behind`) may simulate as if it had not happened, and its ledger is what expirations are counted from;
* `Send`: it may throw although the transaction is on its way, because the answer is lost or says that it is pending;
* `Include`, `Drop`: a pending transaction is included in any later ledger, where its entries may have expired, or never.

`since` of an entry, `executed` and `trouble` are history and guard nothing. `Effect` and `Permitted` are what `Factory`
and `SmartAccount` have in detail, for the calls `main` makes; the decision about proofs is `CheckAuthOk` itself, of the
module `Authorization`. An entry has one signer here; several are `CoSigning`'s. That a network refuses a transaction its
source has not signed is part of `Sign`. `printAuthEntries` changes nothing but throws when the simulation it prints
failed, and that is what is modelled of it.

### What was abstracted, and why that is sound here

* One authorization entry of the account per transaction, required at the root of its invocation tree, before the calls
  below it. That is how the host does it when the root contract requires the account's authorization, as
  `deploy_account_and_invoke` does, and when there is a single call. An entry whose first context is the factory's is run
  by `DeployAndInvoke` only.
* Transactions run one at a time, and clients take no step during one: the host executes conflicting transactions in
  sequence, and a submitted transaction carries its own copy of its entry.
* The ledger sequence number and the timestamp advance together as `now`.
* A payload is the entry's nonce: two entries never have the same payload, because nonces differ.
* A `Contract` context for another contract keeps its address only, and those for the account keep the function and its
  argument, because that is all the code looks at. A call of an account's function the model has no action for does not
  exist in `Invocations`.
* After an upgrade the account runs the same handlers: what other builds do is not in this repository.
* Other contracts cannot touch the account's storage; a call to one is an action that changes nothing.
* In `Factory`, a pending transfer of the admin may be accepted until it is taken back or accepted, and its acceptance may
  fail at any time: how long the crate keeps it, and whether renouncing the admin ends it, is not in this repository, and
  both are among the behaviours checked.
* In `CoSigning`, the calls of `authorizeWithSmartAccount` for one entry follow one another, as `main` makes them. Calls
  for one entry that overlap, which the code does not prevent, are not modelled.
* In `Factory`, an endorsement is for one order: the entry an owner signs names the same call, and its nonce is used
  with the order's.
* In `Workflow`, an upgrade and a greeting change nothing that a later operation could tell: the upgrade installs the
  build that is there already. Printing an entry whose credentials are the source account's would throw
  (`utils.ts:35` tests a method, not its result); the key pairs of `consts.ts` are distinct (`KeypairsAssumption`), so
  that no authorizer is the source and no entry has such credentials.

### Not modelled

* Calls of the generated bindings that nothing in this repository makes, and their encoders: the former are the contract
  functions `SmartAccount` and `Factory` have, the latter carry no logic.
* Storage over persistent entries: nothing in this repository uses it, the account keeps everything in its instance.
* What a build's `_migrate` does to the data: there is no such build in this repository.
* Fees, resource limits, sizes, archival of entries, and the encoding of keys and values: the host's, with no counterpart
  in the contracts' code.

## 3. The runs

| Run | What it covers | Bounds |
|---|---|---|
| `check_auth` | all loops of `__check_auth` against the declarative decision | one signer of each kind, 6 roles each (all three kinds of policy), 5 kinds of proof each (right or wrong key pair, payload and scheme), up to 2 contexts of 4 kinds, 3 instants: 620k states |
| `session_keys` | an Admin and a session key with a window; constructors that fail; batches that fail half-way; misrouted proofs | 2 entries, 3 ledgers, entries that expire after one; constructor arguments include no Admin, a key that comes twice and an invalid allow list: 1.3M states |
| `passkeys` | rotation and demotion of a passkey under one `key_id`; upgrades to a build that migrates and to one that does not, with migrations; against `AccountSpec`, so that proofs arrive where they belong | 2 entries, 2 ledgers: 610k states |
| `admin_turnover` | Admins come and go; constructors and batches that fail | 3 entries, all in one ledger: 61k states |
| `factory_roles` | roles granted, revoked and renounced, and the admin renounced or handed over to the keeper of the role, between the signature of a deployment and its execution | 5 orders out of 13, 3 addresses, 2 roles: 1.4M states |
| `factory_calls` | two orders for one salt, builds that fail, calls that fail, call an empty address or the factory | 3 orders out of 7, 2 salts, 2 owners, no symmetry: 225k states |
| `co_signing` | an entry with several signers, calls that throw, ledgers that close in between | 3 keys, up to 4 proofs, 3 ledgers: 770 states |
| `workflow` | all of `main` against a node that is behind or unreachable and a network that is late or loses transactions | 5 ledgers, a lag of 1, entries valid for 2 (by the client) or 3 ledgers (by the SDK), 2 salts: 42k states |
| `last_admin`, `added_policies`, `proof_payload`, `unsorted_proofs` | violations, see section 6 | as small as shows them |

The bounds are the constants `Nonces` (entries prepared in a run), `MaxTime` (ledgers closed), `EntryLifetime` (ledgers
until an entry expires), `Invocations` and `ConstructorArgs` (what clients may ask for) and `Wasms`; in `Factory`,
`Nonces` (orders signed) and `Requests` (what they may ask for); in `CoSigning`, `MaxLedger`, `MaxProofs` and `Validity`; in `Workflow`, `MaxLedger`, `MaxLag`, `Validity`, `SdkValidity`
and `Salts`.
Why they are enough: the hazards need one entry signed before and run after another that changed the account, hence two
entries; the last Admin needs three changes (one to add, one to demote, one to try again), hence three; a window needs
an instant before, in and after it, hence three ledgers with a window of one. Entries only differ in their nonce, so that
permuting nonces is a symmetry of the model, which the passing runs of the account and `factory_roles` use. In the factory,
freezing the roles takes an order for each way to give one (three, and one deployment before or after); a race for a salt
takes two deployments, and a third order lets one of them be by a deployer just appointed. In the workflow, an entry signed by a
node that is one ledger behind must outlive the ledger it is included in and also expire before a later one, hence a
validity of two and five ledgers; `main` has two salts, one for each account it deploys. Co-signing has no more to show with
more keys than with three, two that the two orders tell apart and one that agrees with both, and a fourth proof makes
one of them sign twice.

Each property is about something no single handler guarantees:

* `LoopsDecide`, `LookUpBeforeVerify` (`CheckAuth`): the loops decide what they should, and pay for no signature when a
  key is unknown. `AdminCallNeedsAdmin`, `MoreSignersStillOk`: what the decision means for an entry that mixes contexts
  and roles: a call to the account has an Admin's proof, with the key pair stored for that Admin and, for an Ed25519
  key, over this payload; one more good proof does no harm.
* `DeployedIsInitialized`: no failure leaves an account that skips authorization.
* `LogTellsSigners`: the events replay to the signer map, also after calls that were reverted.
* `ApprovedByAdmin`: a reconfiguration carried a proof of a key that was an Admin's when it ran.
* `MigratesOncePerUpgrade`: a build migrates at most once, and only the build of the last upgrade.
* `NothingExecutedOutsideWindows`: windows bind at execution time.
* `ConstructedPoliciesValid`: the signers an account is created with have policies valid in that ledger.
* `NoAdminOnlyByUpdate`, `LockedStaysLocked`: how the last Admin goes, and what is true ever after.
* `EntriesAccountForState`: the account is what the executed entries made of it. Each ran whole, every call with its
  effect and in its order; each started from the account the one before left; the last left the signers and the code
  that are there. A call that is skipped or loses its effect while its entry's nonce is consumed, and a change that
  comes without an entry, would break it. It says of the content of a change what `ImplementsPromise` does not:
  `AccountSpec` has an approved change lead to any configuration.
* `ImplementsPromise`: all of it refines `AccountSpec`, with `Config` (the committed configuration, which a transaction in
  progress has not changed yet), `Signed` (the proofs in existence) and the consumed nonces as the abstract state.

* `DeployedByDeployers`: whoever signed an order that deployed something held the role when it ran, by what had been
  granted and revoked before, even if not when it was signed.
* `DeployedAsOrdered`: nothing replaces what was deployed at the address predicted for a salt.
* `CallsEndorsed`: calls after a deployment have the approval of the owner of the account that was deployed.
* `FrozenForEver`: roles that nobody can give any more are never given, by any order, however old. A pending transfer of
  the admin counts as somebody: without that conjunct TLC finds an admin who proposes a transfer and renounces, and an
  heir who accepts it.
* `ImplementsPromise` (of `FactoryProperties`): all of it refines `FactorySpec`, with the state that the transaction in
  progress has not changed yet, so that a deployment, its nonce and all its calls happen in one step or not at all.
* `ProofsAgree`, `NoProofLost`: later signers neither spoil nor drop the proofs of earlier ones.
* `EffectsInOrder`: whatever fails, the operations of `main` take effect in its order and once each, and at most the last
  one is in doubt.
* `InTimeSucceeds`: a transaction that the network takes in time is never refused, at any point of `main`.
* `FailureHasCause`: `main` never fails on its own account: roles, salts, keys, signers and the order of steps are right.
* `ConfirmedReturns`: an operation whose transaction was confirmed returns, `deploySmartAccount` excepted.
* `EndsUnlessLost`: `main` ends, unless a transaction is lost.

Fairness: only `Workflow` states any. That a loop over a map ends, or that the host brings a transaction it has begun to
an end, holds of any contract, so `CheckAuth`, `SmartAccount`, `Factory` and `CoSigning` claim no liveness and assume no
fairness. `Workflow` has `WF_vars(Client)`, because an `await` returns or
throws, and `WF_vars(Include \/ Drop)`, because a pending transaction is included or passes its time bounds; neither a
ledger nor a failing node is fair, and nothing brings a lost transaction back, which is why `EndsUnlessLost` excepts it: the
loop of `confirmTransaction` has no bound. `CHECK_DEADLOCK FALSE` is used for `CheckAuth`, where the
function returns, for `CoSigning`, where an entry is sent once, and for `Workflow`, where `main` ends; `SmartAccount` and `Factory` can always take a step, and
TLC checks that they can.

## 4. The theorems

Every safety property that a passing run checks is stated by a theorem, for all values of the constants: every set of keys,
contracts, requests, salts and entries, and any number of ledgers. In `SmartAccount` they hold whether `Misrouted` is
true or false, `AccountKeepsPromise` excepted (see below). What is assumed is named, in the modules:

* values that stand for nothing are none of the values they stand beside (`MissingAssumption`, `NoTxAssumption`,
  `NoEntryAssumption`, `NoProofAssumption`, `NoConfigAssumption`, `NoCallAssumption`, `NothingAssumption` and so on);
* the account is a contract and the factory another one, keys of the two kinds differ, requests are non-empty sequences
  of contexts, the first build is not one of those that migrate;
* for `CheckAuth`, that the order of keys is one, and that stores, proof maps and contexts are of their types;
* for the factory, that the root is an address, the deployer a role, the factory and the outside contract have no salt,
  and only orders for `deploy_account_and_invoke` have calls;
* for `CoSigning`, that keys are sequences of bytes of one length;
* for `Workflow`, that the key pairs of `consts.ts` differ, that two of them are addresses the factory knows, that the
  address of a contract is not a key pair's and that the contract greeted is not an account.

### The decision

* `AuthorizationProofs`: roles are ordered (`RolesAreOrdered`); a call to the account needs an Admin's proof; a window
  that passes its check opens in this ledger or a later one; a further good proof never hurts.
* `CheckAuthProofs!DecidesAsStated`, `KnownBeforeVerified` and `LoopsTypeCorrect`: the loops decide what `CheckAuthOk`
  says, whatever the proofs, the contexts and the order of the keys. All from `LoopInv`, which says what is known of the
  keys already visited (`Visited`) in each loop: they are in the store; their proofs verify and the cache is what the
  store has for them, and nothing else; none of them may authorize the current context, while all earlier contexts are
  authorized. `LoopsDecide` says something only at the end and so is the last conjunct.
  `AcceptedCallHasAdmin` (which Admin's proof, with which key pair and over which payload) and `FurtherSignerAccepted` then follow from the theorems about the decision.

### The account

* `SmartAccountProofs!TypeCorrect`: `TypeOK` is inductive as it stands; one lemma for the operations on maps, one for
  steps that begin a transaction, one for the steps of a transaction, with a case per action.
* `SmartAccountProofs!DeployedInitialized`: from `DeployInv`. `DeployedIsInitialized` alone is not inductive: it says
  nothing of the constructor's middle. `DeployInv` adds that the saved ledger is whole, that the constructor has changed
  nothing before its checks, and that while signers are being stored the flag is unset and the code is there.
* `SmartAccountProofs!LogIsComplete`: from `LogInv`, the property for the current events and signers, and for the saved
  ones, which a failure puts back.
* `SmartAccountProofs!CreatedWithUsefulPolicies`: from `CreationInv`. While signers are being stored, those stored have
  policies that are valid in the current ledger; no ledger closes in between. It is about the
  constructor only, see run `added_policies` in section 6.
* `SmartAccountProofs!AdminsLostByUpdate`: from `AdminInv`. An initialized account has an Admin, or a key whose events
  tell that it was demoted; likewise the saved one; and the constructor either has stored an Admin or still
  has one among the signers to store. It rests on `store` refusing a key that is there: no later signer replaces the Admin.
* `SmartAccountSafety!ChangesApprovedByAdmin` and `WindowsRespected`: from `AuthInv`, which says that the transaction
  being run, once authenticated, and every transaction in history were decided by `CheckAuthOk` on the signers and in the
  ledger they ran with. Then the theorems about the decision itself apply, in whatever state the account is now.
* `SmartAccountSafety!LockedForEver`: from `LockInv`, which adds that the calls left are calls of the entry and that an
  unauthenticated transaction, or one on an account without an Admin, has not changed signers or code.
* `SmartAccountSafety!MigrationsFollowUpgrades`: from `MigrationInv`, which has the property for the committed history,
  and for the history with the calls the running transaction has made so far; the flag `MIGRATING` is tied to the upgrade
  that no migration has followed yet, now and in the saved ledger, where each upgrade is compared with the latest one.
* `SmartAccountSafety!EntriesTellState`: `EntriesAccountForState`, from `TraceInv`. While an authenticated transaction
  runs, its trail has one account for each call made and one more, each the effect of its call on the one before; the
  first is the committed account and the last the account now. An account that has executed an entry is initialized, so
  that nothing unauthenticated changes it any more.
* `SmartAccountSafety!AccountKeepsPromise`: the refinement of `AccountSpec`. Steps in the middle of a transaction
  stutter, since `Config`, `Signed` and the consumed nonces are read from the committed ledger; `Commit` is the step
  of the specification that creates or changes the account. It needs `RunInv`: a constructor has consumed nothing
  before it ends, an unauthenticated transaction has created the account at most, and an authenticated one has the approval of an
  Admin of the committed configuration, on a nonce that was not consumed. Its hypothesis `Bound` says that
  proofs arrive with the entry they were made for or that there is no Secp256r1 key. Without it the refinement is
  false: the code does not bind a Secp256r1 proof to the payload (section 6), so an Admin's passkey proof for one entry
  approves another one. With Ed25519 keys only, it holds although proofs are misrouted.

### The factory

* `FactoryProofs!FactoryTypeCorrect`: `TypeOK` is inductive as it stands; its last conjunct, that only a signed order gets
  past the factory, is what the other proofs need to name the order of an element of the history.
* `FactorySafety!RolesFrozenForEver`: from `AccessInv`. A failing step restores the saved roles, so the theorem needs that
  a transaction that has changed roles cannot fail any more.
* `FactorySafety!AddressesKept` and `CallsAreEndorsed`: from `TraceInv`, what the history says about contracts,
  orders and endorsements, for the current ledger and for the saved one, with what the transaction has done in between.
* `FactorySafety!OnlyDeployersDeploy`: from `DeployersInv`, which ties the holders of a role to the last change in the
  history that is about them, again for both ledgers; then a check of the role is a statement about the history.
* `FactorySafety!FactoryKeepsPromise`: the refinement of `FactorySpec`, from `SettledInv`: a transaction is still at the
  function it calls and has changed nothing; or it has deployed, its caller was a deployer of the saved ledger, and the
  calls made and the calls left together are those of its order; or it has changed roles and nothing else. Then
  `Commit` is one step of `FactorySpec` and every other step of a transaction a stutter.

### Co-signing and the client

* `CoSigningProofs!CoSignersAgree` and `EveryProofKept`: from `CoInv`, whose point is that the clone of a running call is
  the entry (calls of one entry follow one another) and that the expiration is set exactly when there are proofs. The lemma
  about `Insert` says that it keeps what was there and adds one proof, wherever the order of the keys puts it.
* `WorkflowProofs!OperationsInOrder`: from `PhaseInv`. `EffectsInOrder` alone is not inductive: it does not say which
  operation a pending transaction belongs to. `PhaseInv` adds that an operation is preparing, in flight or in effect, and
  where its step stands then; the lemma `StepsOfMain` gives the steps at which each operation sends and confirms.
* `WorkflowProofs!TransactionsInTimeSucceed`, `FailuresHaveCauses`, `ConfirmedCallsReturn` and `ClientTypeCorrect`: all
  from `WorkInv`. To say that the next transaction succeeds one needs the roles and accounts there are after so many
  effects (`WorldInv`), the account that `main` works with (`WalletInv`), that each entry the client holds, once its step
  of signing has passed, is signed by the right key pair for the validity the code gives it (`PreparedInv`), and that
  what is on its way is what was signed (`SentInv`). `CallsPermitted` and `CallsAccepted` draw the conclusion, call by call,
  the latter by evaluating `CheckAuthOk` (`AccountAccepts`); `BlameInv` keeps it. TLC has checked `WorkInv` on the
  instance of run `workflow` as well. The argument is for these operations: the proof fails, as it should, when
  the key pair of `main` is given a role too weak for the calls it signs, or when the entries are not given their validity.

The lemma `StepKinds` splits `Next` once and for all into steps outside transactions, steps that begin one and steps of
one; each inductive proof uses it and then has one case per action of `Execute`. `FactoryProofs` has its own, with
`ExecuteSteps` for what a step of a transaction can be; in `WorkflowProofs` it is `StepOf` and `KindOf`, which give the
step of `main` from the operation and its counter.

Only model-checked: `EndsUnlessLost`, a liveness property, which the prover does not reach. What `Digits` and the sort do to particular keys, which decides
whether the host can read a co-signed entry, is TLC's too (run `unsorted_proofs`).

## 5. Plan

Order of work, the most important behaviour first. Items 1 to 9 are done.

1. `Authorization` and `CheckAuth`: the decision, and the loops that take it.
2. `SmartAccount` with its properties, runs and mutants.
3. `AccountSpec` and the refinement, with proofs delivered as they were made.
4. Type correctness and the first safety theorems.
5. `AccessControl`, `Factory`, `FactorySpec`, and the safety theorems of the factory.
6. `CoSigning`: one entry with several co-signers.
7. `Migrate` in `SmartAccount`: the `migrate` of a build that has it, and `MigratesOncePerUpgrade`.
8. `Operations` and `Workflow`: the example client against a node and a network that may fail, with its first theorem.
9. Theorems for every safety property of the passing runs, the two refinements and the loops of `__check_auth` included.
10. Left: theorems about what the refinements imply for a client that knows only the specifications (an approval
    changes the configuration at most once; an order is settled once), and a shorter `WorkflowProofs`.

## 6. Where documents and code disagree

* *"At least one admin signer must exist to prevent lockout"* (`contracts/smart-account/README.md:534`). `update_signer`
  gives the only Admin another role. Run `last_admin`; what remains true is `NoAdminOnlyByUpdate` and `LockedStaysLocked`.
* *"All policies are validated during signer creation"* (`contracts/smart-account/README.md:535`). Only the constructor
  validates; `add_signer` does not. Run `added_policies`; what remains true is `ConstructedPoliciesValid`.
* *"Verify a signature against a payload"* (`contracts/smart-account/src/auth/signers/mod.rs:12`). The Secp256r1 verifier
  does not use the payload. Run `proof_payload`; what remains true is `ApprovedByAdmin` and, when proofs arrive with the
  entry they were made for, `ImplementsPromise`.
* *"Add the new signature to the existing map"* (`examples/smart-account-operations.ts:138`) and *"Multi-Signature
  Support"* (`README.md:45`). The client sorts the map by the decimal text of the keys' bytes, which is another order than
  that of the bytes, and the host takes no map that is out of order. Run `unsorted_proofs`; what remains true is
  `ProofsAgree` and `NoProofLost`, and that signers whose keys the two orders agree on can co-sign.

## 7. Running it

    tlc -workers 2 -config MCSessionKeys.cfg MCSmartAccount
    tlc -workers 2 -config MCFactoryCalls.cfg MCFactory
    tlc -workers 2 -config MCWorkflow.cfg MCWorkflow
    tlapm SmartAccountSafety.tla
    tlapm WorkflowProofs.tla
