---------------------------- MODULE SmartAccount ----------------------------
(***************************************************************************)
(* The smart account contract (contracts/smart-account/src/account.rs with *)
(* the storage, initializable and upgradeable crates it is built on) under *)
(* the Soroban host.                                                       *)
(*                                                                         *)
(* Clients prepare authorization entries, the holders of the signers' keys *)
(* sign them, and a transaction submits one of them later, in any order,   *)
(* any number of times, after any other transaction.  A transaction runs   *)
(* one call per step: the constructor, signer by signer; require_auth,     *)
(* which runs __check_auth once for all the contexts of the entry; and     *)
(* each call the entry authorizes.  A call that panics or returns an error *)
(* reverts the transaction: Fail restores what the ledger held before it.  *)
(*                                                                         *)
(* The constants that bound a run: Nonces (entries ever prepared), MaxTime *)
(* (ledgers closed), Invocations, ConstructorArgs and Wasms (what clients  *)
(* ask for).  A ledger close advances sequence and timestamp together.     *)
(***************************************************************************)
EXTENDS Authorization

CONSTANTS
    Nonces,           \* nonces of the authorization entries
    Invocations,      \* what a client may ask for: sequences of contexts
    ConstructorArgs,  \* sequences of signers a deployer may pass
    Factory,          \* the address of the contract factory
    InitialWasm,      \* the build the factory deploys
    Migratable,       \* builds that are SmartAccountUpgradeableMigratable
    EntryLifetime,    \* ledgers after which an entry expires
    MaxTime,          \* bound on the ledger clock
    Misrouted,        \* a proof may be delivered with another entry
    NoWasm, NoEntry, NoNonce, NoTx

ASSUME InvocationsAssumption == Invocations \subseteq (Seq(Context) \ {<<>>})
ASSUME ConstructorArgsAssumption == ConstructorArgs \subseteq Seq(Signer)
ASSUME WasmsAssumption == InitialWasm \in Wasms /\ NoWasm \notin Wasms
ASSUME MigratableAssumption == Migratable \subseteq Wasms \ {InitialWasm}
ASSUME BoundsAssumption == EntryLifetime \in Nat /\ MaxTime \in Nat
ASSUME MisroutedAssumption == Misrouted \in BOOLEAN
ASSUME FactoryAssumption == Factory \in Contracts \ {Account}
ASSUME NoNonceAssumption == NoNonce \notin Nonces
ASSUME NoProofAssumption == Missing \notin Proof(Nonces)

VARIABLES
    now,          \* the last closed ledger
    wasm,         \* the build of the contract, NoWasm before it is deployed
    initialized,  \* INITIALIZED in instance storage
    migrating,    \* MIGRATING in instance storage
    signers,      \* the signer map in instance storage
    events,       \* the events the account has published
    consumed,     \* nonces the host has stored as used
    entries,      \* the entry prepared for each nonce
    tx,           \* the transaction being executed
    executed      \* history: the authorized transactions that succeeded

instance == <<wasm, initialized, migrating, signers>>
ledger == <<instance, events, consumed>>
vars == <<now, ledger, entries, tx, executed>>

-----------------------------------------------------------------------------
(* The values the variables take.                                          *)

Entry == [calls : Invocations, expires : Nat, proofs : ProofMap(Nonces)]

\* The events of the storage crate and of the account, published together.
Event == [storage : {"store", "update", "delete"}, signer : {"added", "updated", "revoked"},
          key : SignerKeys, value : Signer]

LedgerState ==
    [wasm : Wasms \cup {NoWasm}, initialized : BOOLEAN, migrating : BOOLEAN,
     signers : SignerMap, events : Seq(Event), consumed : SUBSET Nonces]

\* What the calls of an entry may change.
AccountState == [code : Wasms \cup {NoWasm}, signers : SignerMap]

\* args and calls are what is left to do, saved what Fail restores; view and trail
\* are history: the signers __check_auth decided on, and what the account was then
\* and after each call since.
Tx == [phase : {"constructor", "signers", "calls"}, args : Seq(Signer), calls : Seq(Context),
       nonce : Nonces \cup {NoNonce}, authenticated : BOOLEAN, view : SignerMap,
       trail : Seq(AccountState), saved : LedgerState]

\* What history keeps of a transaction the account authorized.
Execution == [nonce : Nonces, time : Nat, signers : SignerMap, proofs : ProofMap(Nonces),
              trail : Seq(AccountState)]

ASSUME NoTxAssumption == NoTx \notin Tx
ASSUME NoEntryAssumption == NoEntry \notin Entry

-----------------------------------------------------------------------------
Init ==
    /\ now = 0
    /\ wasm = NoWasm
    /\ initialized = FALSE
    /\ migrating = FALSE
    /\ signers = Empty
    /\ events = <<>>
    /\ consumed = {}
    /\ entries = [n \in Nonces |-> NoEntry]
    /\ tx = NoTx
    /\ executed = <<>>

Tick ==
    /\ tx = NoTx
    /\ now < MaxTime
    /\ now' = now + 1
    /\ UNCHANGED <<ledger, entries, tx, executed>>

-----------------------------------------------------------------------------
(* Clients.  A submitted transaction carries a copy of its entry, so that  *)
(* they take no step while one is executed.                                *)

\* The expiration is fixed when the entry is prepared, before it is signed.
PrepareEntry(n, calls) ==
    /\ tx = NoTx
    /\ entries[n] = NoEntry
    /\ entries' = [entries EXCEPT ![n] =
                      [calls |-> calls, expires |-> now + EntryLifetime, proofs |-> Empty]]
    /\ UNCHANGED <<now, ledger, tx, executed>>

\* Nobody signs an entry that has been used.
AttachProof(n, k, proof) ==
    /\ tx = NoTx
    /\ entries[n] # NoEntry
    /\ n \notin consumed
    /\ k \notin Present(entries[n].proofs)
    /\ entries' = [entries EXCEPT ![n].proofs = SetEntry(@, k, proof)]
    /\ UNCHANGED <<now, ledger, tx, executed>>

\* The holder of a key pair signs the payload of the entry; pub may be a key
\* pair the signer no longer has, or does not have yet.
SignEntry(n, k, pub) ==
    AttachProof(n, k, [scheme |-> Scheme(k), pub |-> pub, payload |-> n])

\* A proof made for one entry is delivered with another.
MisrouteProof(n, m, k) ==
    /\ Misrouted
    /\ entries[m] # NoEntry
    /\ k \in Present(entries[m].proofs)
    /\ AttachProof(n, k, entries[m].proofs[k])

-----------------------------------------------------------------------------
(* Transactions.                                                           *)

Current ==
    [wasm |-> wasm, initialized |-> initialized, migrating |-> migrating,
     signers |-> signers, events |-> events, consumed |-> consumed]

Transaction(phase, args, calls, n) ==
    [phase |-> phase, args |-> args, calls |-> calls, nonce |-> n,
     authenticated |-> FALSE, view |-> Empty, trail |-> <<>>,
     saved |-> Current]

Begin(transaction) ==
    /\ tx = NoTx
    /\ tx' = transaction
    /\ UNCHANGED <<now, ledger, entries, executed>>

\* The root of what an entry authorizes is a call to the factory.
ByFactory(calls) == Head(calls) = ContractCallContext(Factory)

\* A transaction with the entry of n, signed or not, expired or not, new or not.
Submit(n) ==
    /\ entries[n] # NoEntry
    /\ ~ByFactory(entries[n].calls)
    /\ Begin(Transaction("calls", <<>>, entries[n].calls, n))

\* A transaction with no entry for the account.
SubmitUnsigned(calls) ==
    ~ByFactory(calls) /\ Begin(Transaction("calls", <<>>, calls, NoNonce))

\* ContractFactory::deploy
Deploy(args) == Begin(Transaction("constructor", args, <<>>, NoNonce))

\* ContractFactory::deploy_account_and_invoke with the account's entry of n: its
\* require_auth is the root of the entry, the calls it makes come under it.
DeployAndInvoke(args, n) ==
    /\ entries[n] # NoEntry
    /\ ByFactory(entries[n].calls)
    /\ Begin(Transaction("constructor", args, entries[n].calls, n))

Fail ==
    /\ wasm' = tx.saved.wasm
    /\ initialized' = tx.saved.initialized
    /\ migrating' = tx.saved.migrating
    /\ signers' = tx.saved.signers
    /\ events' = tx.saved.events
    /\ consumed' = tx.saved.consumed
    /\ tx' = NoTx
    /\ UNCHANGED <<now, entries, executed>>

\* The account publishes a storage event, then a signer event.
Publish_OldValue(storage, signer, key, value) ==
    events' = Append(events, [storage |-> storage, signer |-> signer, key |-> key,
                              value |-> IF Has(signers, key) THEN signers[key] ELSE value])

Publish(storage, signer, key, value) ==
    events' = Append(events, [storage |-> storage, signer |-> signer, key |-> key, value |-> value])

\* Storage::store and the event of add_signer
StoreSigner_KeyOfKind(s) ==
    /\ signers' = SetEntry(signers, CHOOSE k \in SignerKeys : Scheme(k) = Scheme(s.key), s)
    /\ Publish("store", "added", s.key, s)

StoreSigner(s) ==
    /\ signers' = SetEntry(signers, s.key, s)
    /\ Publish("store", "added", s.key, s)

\* require_auth_if_initialized
AuthIfInitialized_Skipped == TRUE
AuthIfInitialized == initialized => tx.authenticated

-----------------------------------------------------------------------------
(* The constructor.                                                        *)

InPhase(phase) == tx # NoTx /\ tx.phase = phase

HasAdmin(args) == \E i \in DOMAIN args : args[i].role.kind = "Admin"

DistinctKeys(args) == \A i, j \in DOMAIN args : args[i].key = args[j].key => i = j

ConstructorCheck ==
    LET accepted == wasm = NoWasm /\ ~initialized /\ HasAdmin(tx.args) /\ DistinctKeys(tx.args)
    IN  /\ InPhase("constructor")
        /\ \/ /\ accepted
              /\ wasm' = InitialWasm
              /\ tx' = [tx EXCEPT !.phase = "signers"]
              /\ UNCHANGED <<now, initialized, migrating, signers, events, consumed, entries, executed>>
           \/ ~accepted /\ Fail

ConstructorAdd ==
    LET s == Head(tx.args)
        accepted == PoliciesValid(s.role, now) /\ AuthIfInitialized /\ ~Has(signers, s.key)
    IN  /\ InPhase("signers")
        /\ tx.args # <<>>
        /\ \/ /\ accepted
              /\ StoreSigner(s)
              /\ tx' = [tx EXCEPT !.args = Tail(@)]
              /\ UNCHANGED <<now, wasm, initialized, migrating, consumed, entries, executed>>
           \/ ~accepted /\ Fail

ConstructorInitialize_FlagUnset ==
    /\ InPhase("signers")
    /\ tx.args = <<>>
    /\ tx' = [tx EXCEPT !.phase = "calls"]
    /\ UNCHANGED <<now, instance, events, consumed, entries, executed>>

\* Initializable::initialize; ConstructorCheck has seen the flag unset, and no
\* call in between sets it, so that its AlreadyInitialized error is not met.
ConstructorInitialize ==
    /\ InPhase("signers")
    /\ tx.args = <<>>
    /\ ~initialized
    /\ initialized' = TRUE
    /\ tx' = [tx EXCEPT !.phase = "calls"]
    /\ UNCHANGED <<now, wasm, migrating, signers, events, consumed, entries, executed>>

-----------------------------------------------------------------------------
(* Authorization: require_auth of the account's address, at the root of    *)
(* the entry, before the first call.                                       *)

EntryAccepted(n) ==
    /\ wasm # NoWasm
    /\ now <= entries[n].expires
    /\ n \notin consumed
    /\ CheckAuthOk(signers, now, n, entries[n].proofs, entries[n].calls)

RequireAuth ==
    /\ InPhase("calls")
    /\ tx.nonce # NoNonce
    /\ ~tx.authenticated
    /\ \/ /\ EntryAccepted(tx.nonce)
          /\ consumed' = consumed \cup {tx.nonce}
          /\ tx' = [tx EXCEPT !.authenticated = TRUE, !.view = signers,
                                  !.trail = <<[code |-> wasm, signers |-> signers]>>]
          /\ UNCHANGED <<now, instance, events, entries, executed>>
       \/ ~EntryAccepted(tx.nonce) /\ Fail

-----------------------------------------------------------------------------
(* The calls, in the order of the entry.                                   *)

NextCall ==
    /\ InPhase("calls")
    /\ tx.nonce # NoNonce => tx.authenticated
    /\ tx.calls # <<>>

Calling(fn) ==
    NextCall /\ IsAdminOperation(Head(tx.calls)) /\ Head(tx.calls).fn = fn

CallDone ==
    tx' = [tx EXCEPT !.calls = Tail(@), !.trail = Append(@, [code |-> wasm', signers |-> signers'])]

AddSigner_ErrorDropped ==
    LET s == Head(tx.calls).arg
        accepted == wasm # NoWasm /\ AuthIfInitialized
    IN  /\ Calling("add_signer")
        /\ \/ /\ accepted
              /\ IF Has(signers, s.key) THEN UNCHANGED <<signers, events>> ELSE StoreSigner(s)
              /\ UNCHANGED <<now, wasm, initialized, migrating, consumed, entries, executed>>
              /\ CallDone
           \/ ~accepted /\ Fail

AddSigner ==
    LET s == Head(tx.calls).arg
        accepted == wasm # NoWasm /\ AuthIfInitialized /\ ~Has(signers, s.key)
    IN  /\ Calling("add_signer")
        /\ \/ /\ accepted
              /\ StoreSigner(s)
              /\ UNCHANGED <<now, wasm, initialized, migrating, consumed, entries, executed>>
              /\ CallDone
           \/ ~accepted /\ Fail

UpdateSigner ==
    LET s == Head(tx.calls).arg
        accepted == wasm # NoWasm /\ AuthIfInitialized /\ Has(signers, s.key)
    IN  /\ Calling("update_signer")
        /\ \/ /\ accepted
              /\ signers' = SetEntry(signers, s.key, s)
              /\ Publish("update", "updated", s.key, s)
              /\ UNCHANGED <<now, wasm, initialized, migrating, consumed, entries, executed>>
              /\ CallDone
           \/ ~accepted /\ Fail

\* Only a signer that is there and is no Admin can be revoked.
Revocable_Admins(k) == Has(signers, k)
Revocable(k) == Has(signers, k) /\ signers[k].role.kind # "Admin"

RevokeSigner ==
    LET k == Head(tx.calls).arg
        accepted == wasm # NoWasm /\ AuthIfInitialized /\ Revocable(k)
    IN  /\ Calling("revoke_signer")
        /\ \/ /\ accepted
              /\ signers' = RemoveEntry(signers, k)
              /\ Publish("delete", "revoked", k, signers[k])
              /\ UNCHANGED <<now, wasm, initialized, migrating, consumed, entries, executed>>
              /\ CallDone
           \/ ~accepted /\ Fail

\* Authorization is required whether the account is initialized or not.
Upgrade ==
    LET accepted == wasm # NoWasm /\ tx.authenticated
    IN  /\ Calling("upgrade")
        /\ \/ /\ accepted
              /\ migrating' = TRUE
              /\ wasm' = Head(tx.calls).arg
              /\ UNCHANGED <<now, initialized, signers, events, consumed, entries, executed>>
              /\ CallDone
           \/ ~accepted /\ Fail

\* migrate is there only after an upgrade to a build that has it, and completes
\* the migration; what else _migrate does is the build's, and may fail.
Migrate_NotCompleted ==
    LET accepted == wasm \in Migratable /\ tx.authenticated /\ migrating
    IN  /\ Calling("migrate")
        /\ \/ accepted /\ UNCHANGED <<now, ledger, entries, executed>> /\ CallDone
           \/ Fail

Migrate ==
    LET accepted == wasm \in Migratable /\ tx.authenticated /\ migrating
    IN  /\ Calling("migrate")
        /\ \/ /\ accepted
              /\ migrating' = FALSE
              /\ UNCHANGED <<now, wasm, initialized, signers, events, consumed, entries, executed>>
              /\ CallDone
           \/ Fail

\* A call of another contract, or the creation of one, that requires the
\* account's authorization; it cannot touch the account's storage.
OtherCall ==
    /\ NextCall
    /\ ~IsAdminOperation(Head(tx.calls))
    /\ \/ /\ tx.authenticated
          /\ UNCHANGED <<now, ledger, entries, executed>>
          /\ CallDone
       \/ ~tx.authenticated /\ Fail

Commit ==
    /\ InPhase("calls")
    /\ tx.nonce # NoNonce => tx.authenticated
    /\ tx.calls = <<>>
    /\ executed' = IF tx.nonce = NoNonce THEN executed
                   ELSE Append(executed, [nonce |-> tx.nonce, time |-> now, signers |-> tx.view,
                                          proofs |-> entries[tx.nonce].proofs,
                                          trail |-> tx.trail])
    /\ tx' = NoTx
    /\ UNCHANGED <<now, ledger, entries>>

Execute ==
    \/ ConstructorCheck \/ ConstructorAdd \/ ConstructorInitialize
    \/ RequireAuth
    \/ AddSigner \/ UpdateSigner \/ RevokeSigner \/ Upgrade \/ Migrate \/ OtherCall
    \/ Commit

Next ==
    \/ Tick
    \/ \E n \in Nonces :
          \/ \E calls \in Invocations : PrepareEntry(n, calls)
          \/ \E k \in SignerKeys : \E pub \in Credentials(k) : SignEntry(n, k, pub)
          \/ \E m \in Nonces, k \in SignerKeys : MisrouteProof(n, m, k)
          \/ Submit(n)
          \/ \E args \in ConstructorArgs : DeployAndInvoke(args, n)
    \/ \E calls \in Invocations : SubmitUnsigned(calls)
    \/ \E args \in ConstructorArgs : Deploy(args)
    \/ Execute

Spec == Init /\ [][Next]_vars
=============================================================================
