----------------------- MODULE SmartAccountProperties -----------------------
(***************************************************************************)
(* What must hold of the smart account: its properties over the state and  *)
(* the history of SmartAccount, and the refinement of AccountSpec.         *)
(***************************************************************************)
EXTENDS SmartAccount

\* What the ledger holds: a transaction that has not ended has changed nothing.
Committed == IF tx = NoTx THEN Current ELSE tx.saved

Idle == tx = NoTx

-----------------------------------------------------------------------------
\* Values of the right shape: in particular a signer is only ever stored under
\* its own key, with a public key that key may have.
TypeOK ==
    /\ now \in Nat
    /\ Current \in LedgerState
    /\ entries \in [Nonces -> Entry \cup {NoEntry}]
    /\ tx \in Tx \cup {NoTx}
    /\ tx # NoTx /\ tx.nonce # NoNonce => entries[tx.nonce] # NoEntry
    /\ executed \in Seq(Execution)

-----------------------------------------------------------------------------
\* require_auth_if_initialized skips authorization when the flag is unset, so
\* every deployed account must have it set: whatever the constructor met on the
\* way, no ledger ever holds a deployed account that is not initialized, nor the
\* signers of one that is not deployed.
DeployedIsInitialized ==
    /\ Committed.initialized <=> Committed.wasm # NoWasm
    /\ ~Committed.initialized => Committed.signers = Empty

\* Whoever replays the account's events, with no access to its storage, knows
\* its signers: a key is stored exactly when its last event is not "revoked",
\* with the signer of that event.  Reverted calls leave no event behind.
EventsOf(k) == {i \in DOMAIN events : events[i].key = k}

LogTellsSigners ==
    \A k \in SignerKeys :
        IF Has(signers, k)
        THEN \E i \in EventsOf(k) :
                 /\ \A j \in EventsOf(k) : j <= i
                 /\ events[i].signer # "revoked"
                 /\ events[i].value = signers[k]
        ELSE \A i \in EventsOf(k) :
                 (\A j \in EventsOf(k) : j <= i) => events[i].signer = "revoked"

\* A transaction that reconfigured the account carried a proof by a key that was
\* an Admin's when the transaction ran, not when the entry was signed; made by
\* the key pair stored for it at that moment; and, for an Ed25519 key, made for
\* this very entry.
HasAdminCall(calls) == \E i \in DOMAIN calls : IsAdminOperation(calls[i])

ApprovedByAdmin ==
    \A i \in DOMAIN executed : HasAdminCall(entries[executed[i].nonce].calls) =>
        \E k \in Present(executed[i].proofs) \cap Admins(executed[i].signers) :
            /\ executed[i].proofs[k].pub = executed[i].signers[k].pub
            /\ k \in Ed25519Keys => executed[i].proofs[k].payload = executed[i].nonce

\* Signers confined to a time window do not act outside of it, whenever they
\* signed: if the window of every signer of a transaction was closed when it
\* ran, the transaction did not succeed.
OutsideWindow(role, time) ==
    /\ role.kind = "Restricted"
    /\ \E i \in DOMAIN role.policies :
          /\ role.policies[i].kind = "TimeBased"
          /\ time \notin role.policies[i].not_before .. role.policies[i].not_after

NothingExecutedOutsideWindows ==
    \A i \in DOMAIN executed : \E k \in Present(executed[i].proofs) :
        ~OutsideWindow(executed[i].signers[k].role, executed[i].time)

\* revoke_signer keeps Admins, so an initialized account is left without one
\* only through update_signer: some key that had been an Admin's was given
\* another role by an "updated" event.
LostAdmin(k) ==
    \E i, j \in EventsOf(k) :
        /\ i < j
        /\ events[i].signer # "revoked" /\ events[i].value.role.kind = "Admin"
        /\ events[j].signer = "updated" /\ events[j].value.role.kind # "Admin"

NoAdminOnlyByUpdate ==
    Idle /\ initialized /\ Admins(signers) = {} => \E k \in SignerKeys : LostAdmin(k)

\* An account left without an Admin is locked: no transaction changes its
\* signers or its code any more, not even one signed while it had one.
Locked == Committed.initialized /\ Admins(Committed.signers) = {}

LockedStaysLocked ==
    [][Locked => /\ Committed'.signers = Committed.signers
                 /\ Committed'.wasm = Committed.wasm]_vars

\* A policy that can be met from now on: its window is open now or later, its
\* list does not name the account, which a restricted signer may never call.
Useful(policy) ==
    /\ policy.kind = "TimeBased" => \E t \in policy.not_before .. policy.not_after : t >= now
    /\ policy.kind = "ContractAllowList" => Account \notin policy.allowed_contracts

AllUseful(role) ==
    role.kind = "Restricted" => \A i \in DOMAIN role.policies : Useful(role.policies[i])

\* The signers an account is created with have policies that can be met from the
\* ledger that creates it on, however long ago its deployer chose them.
ConstructedPoliciesValid ==
    [][~initialized /\ initialized' => \A k \in Present(signers') : AllUseful(signers'[k].role)]_vars

\* A build migrates the account's data at most once, and only the build of the
\* last upgrade, however many upgrades came before it and whatever was reverted in
\* between.  Calls are told by their transaction and their place in its entry.
CallsOf(i) == entries[executed[i].nonce].calls
CallsMade == UNION {{i} \X (DOMAIN CallsOf(i)) : i \in DOMAIN executed}
CallAt(c) == CallsOf(c[1])[c[2]]
Before(c, d) == c[1] < d[1] \/ (c[1] = d[1] /\ c[2] < d[2])

Made(fn) == {c \in CallsMade : IsAdminOperation(CallAt(c)) /\ CallAt(c).fn = fn}

MigratesOncePerUpgrade ==
    \A m \in Made("migrate") : \E u \in Made("upgrade") :
        /\ CallAt(u).arg \in Migratable
        /\ Before(u, m)
        /\ \A c \in Made("upgrade") \cup Made("migrate") : ~(Before(u, c) /\ Before(c, m))

\* What a call that has not failed makes of the account.
Effect(before, call, after) ==
    IF ~IsAdminOperation(call) \/ call.fn = "migrate" THEN after = before
    ELSE \/ /\ call.fn = "add_signer" /\ ~Has(before.signers, call.arg.key)
            /\ after = [before EXCEPT !.signers = SetEntry(@, call.arg.key, call.arg)]
         \/ /\ call.fn = "update_signer" /\ Has(before.signers, call.arg.key)
            /\ after = [before EXCEPT !.signers = SetEntry(@, call.arg.key, call.arg)]
         \/ /\ call.fn = "revoke_signer" /\ call.arg \in Present(before.signers) \ Admins(before.signers)
            /\ after = [before EXCEPT !.signers = RemoveEntry(@, call.arg)]
         \/ call.fn = "upgrade" /\ after = [before EXCEPT !.code = call.arg]

\* Run(i)[j] is the account before the j-th call of the i-th transaction.
Run(i) == executed[i].trail
End(i) == Run(i)[Len(Run(i))]

\* The entries that have been executed account for what the account is: each ran
\* whole, every call in its order and none without its effect; each found the
\* account as the one before had left it, whatever failed or came without an
\* entry in between; and so is the account left by the last.
EntriesAccountForState ==
    /\ \A i \in DOMAIN executed :
          /\ Len(Run(i)) = Len(CallsOf(i)) + 1
          /\ \A j \in DOMAIN CallsOf(i) : Effect(Run(i)[j], CallsOf(i)[j], Run(i)[j + 1])
          /\ i > 1 => Run(i)[1] = End(i - 1)
    /\ executed # <<>> =>
          End(Len(executed)) = [code |-> Committed.wasm, signers |-> Committed.signers]

-----------------------------------------------------------------------------
(* Refinement: the committed configuration behaves as AccountSpec says.    *)

Configuration == [code : Wasms, signers : SUBSET Signer]

ASSUME NoConfigAssumption == NoWasm \notin Configuration

Config ==
    IF Committed.wasm = NoWasm THEN NoWasm
    ELSE [code |-> Committed.wasm, signers |-> {Committed.signers[k] : k \in Present(Committed.signers)}]

Signed ==
    UNION {{<<entries[n].proofs[k].pub, entries[n].proofs[k].payload>> :
                k \in Present(entries[n].proofs)} :
           n \in {m \in Nonces : entries[m] # NoEntry}}

Offered == UNION {{args[i] : i \in DOMAIN args} : args \in ConstructorArgs}

Abstract == INSTANCE AccountSpec WITH
    Approvals <- Nonces,
    Pubs <- Ed25519Keys \cup PublicKeys,
    InitialSigners <- SUBSET Offered,
    InitialCode <- InitialWasm,
    NoConfig <- NoWasm,
    config <- Config,
    signed <- Signed,
    used <- Committed.consumed

\* The contract keeps the promise of AccountSpec when each proof is delivered
\* with the entry it was made for.
ImplementsPromise == Abstract!AccountPromise

-----------------------------------------------------------------------------
(* What the documents say and the code does not do.                        *)

\* "At least one admin signer must exist to prevent lockout"
AtLeastOneAdmin == Idle /\ initialized => Admins(signers) # {}

\* "All policies are validated during signer creation"
PoliciesValidatedOnCreation ==
    [][\A k \in Present(signers') \ Present(signers) :
          tx' # NoTx => AllUseful(signers'[k].role)]_vars
=============================================================================
