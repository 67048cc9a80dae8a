------------------------------ MODULE Workflow ------------------------------
(***************************************************************************)
(* The example client at work (examples/smart-account-operations.ts): main *)
(* runs the operations of the module Operations one after the other,       *)
(* against the factory and the accounts it deploys, through an RPC node    *)
(* and a network that may fail.  An action runs one step.                  *)
(*                                                                         *)
(* What a step can meet besides success: the node is unreachable (any step *)
(* that asks it throws), the node is behind by up to MaxLag ledgers, send  *)
(* throws although the transaction is on its way, a transaction is         *)
(* included late or never.  An operation that throws ends main.            *)
(*                                                                         *)
(* MaxLedger bounds the ledgers that close in a run.                       *)
(***************************************************************************)
EXTENDS Operations, AccessControl

CONSTANTS
    Salts,        \* random salts, each for the address the factory gives it
    SdkValidity,  \* ledgers an entry signed by the SDK is valid for
    Validity,     \* 300 / 5, the same for authorizeWithSmartAccount
    MaxLag, MaxLedger,
    NoAccount, NoWallet, Nobody

ASSUME PartiesAssumption == {ROOT, DEPLOYER} \subseteq Addresses /\ Deployer \in Roles
\* A contract's address is not a classical account's, and what stands for nothing
\* is not what it stands in for.
ASSUME SaltsAssumption == Salts \cap Addresses = {}
ASSUME NothingAssumption ==
    /\ Nobody \notin {ROOT, DEPLOYER} \cup SignerKeys
    /\ NoWallet \notin Salts
    /\ NoAccount \notin Decision!SignerMap
    /\ Missing \notin Decision!Signer \cup Decision!Proof(Nat)
ASSUME BoundsAssumption ==
    /\ {SdkValidity, Validity, MaxLag, MaxLedger} \subseteq Nat
    /\ MaxLedger > 0

VARIABLES
    accounts,   \* the signers of the account deployed with each salt
    ledger,     \* the last closed ledger, from 1
    at,         \* the operation of main being run
    pc,         \* its step
    exit,       \* whether main is running, completed or failed
    wallet,     \* the salt of the account last worked with, its contract id
    simulation, \* the last simulation of the operation's AssembledTransaction
    entries,    \* the authorization entries of that transaction
    signed,     \* the entries of the signed transaction
    sent,       \* the transaction sent last: whose operation, its call and entries
    status,     \* what became of it: none, pending, SUCCESS, FAILED, lost
    closed,     \* the ledger that last included a transaction
    executed,   \* history: the operations whose transactions succeeded
    trouble     \* history: what the node and the network did wrong

chain == <<access, accounts, closed, executed>>
transaction == <<simulation, entries, signed>>
client == <<at, pc, exit, wallet, transaction>>
network == <<sent, status>>
vars == <<chain, client, ledger, network, trouble>>

\* The operation being run
Operation == main(wallet)[at]

-----------------------------------------------------------------------------
(* The contracts, as far as these calls reach them.                        *)

\* The signer map the constructor stores.
Constructed(signers) ==
    [k \in SignerKeys |-> IF \E s \in signers : s.key = k
                          THEN CHOOSE s \in signers : s.key = k ELSE Missing]

\* What the calls check apart from authorization.  The account's constructor
\* wants an Admin, add_signer a new key.
Deploys(call) ==
    /\ HasRole(call.caller, Deployer)
    /\ accounts[call.salt] = NoAccount
    /\ \E s \in call.signers : s.role = Decision!Admin

Permitted(call) ==
    \/ call.fn = "__constructor"
    \/ call.fn = "grant_role" /\ MayAdminister(call.caller, call.role)
    \/ call.fn = "deploy" /\ Deploys(call)
    \/ /\ call.fn = "deploy_account_and_invoke"
       /\ Deploys(call)
       /\ ~Decision!Has(Constructed(call.signers), call.signer.key)
    \/ /\ call.fn = "add_signer"
       /\ accounts[call.contract] # NoAccount
       /\ ~Decision!Has(accounts[call.contract], call.signer.key)
    \/ call.fn \in {"upgrade", "hello"} /\ accounts[call.contract] # NoAccount

\* Whose authorization the call requires; the source's comes with its signature.
Required(call) ==
    CASE call.fn = "__constructor" -> {}
      [] call.fn \in {"grant_role", "deploy"} -> {call.caller}
      [] call.fn = "deploy_account_and_invoke" -> {call.caller, call.salt}
      [] OTHER -> {call.contract}

Contexts(call) ==
    CASE call.fn = "hello" -> <<Decision!ContractCallContext(Hello)>>
      [] call.fn = "deploy_account_and_invoke" ->
            <<Decision!ContractCallContext(TheFactory), Decision!ContractCallContext(Wallet),
              Decision!ContractCallContext(Hello)>>
      [] OTHER -> <<Decision!ContractCallContext(Wallet)>>

\* The account that is asked is the one deployed, or the one the call is about.
StoreFor(call) ==
    IF call.fn = "deploy_account_and_invoke" THEN Constructed(call.signers)
    ELSE accounts[call.contract]

\* The payload of a proof is told apart by the expiration it is made over.
Proofs(entry) ==
    Decision!SetEntry(Decision!Empty, entry.signer,
        [scheme |-> "Ed25519", pub |-> entry.signer, payload |-> entry.expiration])

Expired(entry, when) == entry.expiration < when

Authenticated(call, address, entry, when) ==
    /\ entry.signer # Nobody
    /\ ~Expired(entry, when)
    /\ IF address \in Salts
       THEN Decision!CheckAuthOk(StoreFor(call), when, entry.expiration, Proofs(entry), Contexts(call))
       ELSE entry.signer = address

\* The call succeeds with these entries in ledger when.
Accepted(call, auth, when) ==
    /\ Permitted(call)
    /\ \A address \in Required(call) : Authenticated(call, address, auth[address], when)

Late(call, auth, when) == \E address \in Required(call) : Expired(auth[address], when)

Effect(call) ==
    \/ /\ call.fn = "__constructor"
       /\ admin' = call.admin
       /\ holders' = [holders EXCEPT ![Deployer] = {call.admin}]
       /\ UNCHANGED <<pendingAdmin, roleAdmin, accounts>>
    \/ call.fn = "grant_role" /\ Grant(call.account, call.role) /\ UNCHANGED accounts
    \/ /\ call.fn = "deploy"
       /\ accounts' = [accounts EXCEPT ![call.salt] = Constructed(call.signers)]
       /\ UNCHANGED access
    \/ /\ call.fn = "deploy_account_and_invoke"
       /\ accounts' = [accounts EXCEPT ![call.salt] =
              Decision!SetEntry(Constructed(call.signers), call.signer.key, call.signer)]
       /\ UNCHANGED access
    \/ /\ call.fn = "add_signer"
       /\ accounts' = [accounts EXCEPT ![call.contract] =
              Decision!SetEntry(@, call.signer.key, call.signer)]
       /\ UNCHANGED access
    \/ call.fn \in {"upgrade", "hello"} /\ UNCHANGED <<access, accounts>>

-----------------------------------------------------------------------------
Unsigned == [signer |-> Nobody, expiration |-> 0, since |-> 0]
NoEntries == [address \in {} |-> Unsigned]

Init ==
    /\ admin = NoAddress
    /\ pendingAdmin = NoAddress
    /\ holders = [r \in Roles |-> {}]
    /\ roleAdmin = [r \in Roles |-> NoRole]
    /\ accounts = [s \in Salts |-> NoAccount]
    /\ ledger = 1
    /\ at = 1 /\ pc = 1 /\ exit = "running"
    /\ wallet = NoWallet
    /\ simulation = "none" /\ entries = NoEntries /\ signed = NoEntries
    /\ sent = [at |-> 0, call |-> deployFactory.call, auth |-> NoEntries]
    /\ status = "none"
    /\ closed = 0
    /\ executed = <<>>
    /\ trouble = {}

-----------------------------------------------------------------------------
(* The client.                                                             *)

step == Operation.steps[pc]
At(name) == exit = "running" /\ step.do = name

Advance ==
    \/ pc < Len(Operation.steps) /\ pc' = pc + 1 /\ UNCHANGED <<at, exit>>
    \/ /\ pc = Len(Operation.steps)
       /\ pc' = 1 /\ at' = at + 1
       /\ exit' = IF at = Len(main(wallet)) THEN "completed" ELSE exit

\* throw, caught by the operation, thrown again and caught by main: exit(1).
Throw == exit' = "failed" /\ UNCHANGED <<at, pc>>

\* The ledgers a node may take for the last one, and whether it misses a
\* transaction that is in effect.
Seen == {l \in 1 .. ledger : ledger <= l + MaxLag}
Behind(seen) == seen < closed

Meet(causes) == trouble' = trouble \cup causes

Awaits == {"get_deployed_address", "build", "signAuthEntries", "authorizeWithSmartAccount",
           "simulate", "send", "confirmTransaction"}

Unreachable ==
    /\ exit = "running"
    /\ step.do \in Awaits
    /\ Throw
    /\ Meet({"unreachable"})
    /\ UNCHANGED <<chain, ledger, wallet, transaction, network>>

\* crypto.getRandomValues: two salts differ.
GetDeployedAddress ==
    /\ At("get_deployed_address")
    /\ \E salt \in Salts \ {wallet} : wallet' = salt
    /\ \/ Advance /\ UNCHANGED trouble
       \/ (\E seen \in Seen : Behind(seen)) /\ Throw /\ Meet({"behind"})
    /\ UNCHANGED <<chain, ledger, transaction, network>>

\* A simulation without entries records those that will be needed, and checks
\* everything but them.
Build ==
    /\ At("build")
    /\ Advance
    /\ \/ /\ Permitted(Operation.call)
          /\ simulation' = "success"
          /\ entries' = [address \in Required(Operation.call) |-> Unsigned]
          /\ UNCHANGED trouble
       \/ \E seen \in Seen :
             /\ Behind(seen) \/ ~Permitted(Operation.call)
             /\ simulation' = "error"
             /\ entries' = NoEntries
             /\ Meet(IF Behind(seen) THEN {"behind"} ELSE {})
    /\ UNCHANGED <<chain, ledger, wallet, signed, network>>

\* A simulation with entries checks them too.
Simulate ==
    /\ At("simulate")
    /\ Advance
    /\ \E seen \in Seen :
          LET call == Operation.call
          IN  \/ /\ Accepted(call, entries, seen)
                 /\ simulation' = "success"
                 /\ UNCHANGED trouble
              \/ /\ Behind(seen) \/ ~Accepted(call, entries, seen)
                 /\ simulation' = "error"
                 /\ Meet((IF Behind(seen) THEN {"behind"} ELSE {})
                         \cup IF Late(call, entries, seen) THEN {"late"} ELSE {})
    /\ UNCHANGED <<chain, ledger, wallet, entries, signed, network>>

\* simulationData, of a simulation that failed, throws.
ReadSimulation ==
    /\ (simulation = "error" /\ Throw) \/ (simulation # "error" /\ Advance)
    /\ UNCHANGED <<chain, ledger, wallet, transaction, network, trouble>>

PrintAuthEntries == At("printAuthEntries") /\ ReadSimulation
Result == At("result") /\ ReadSimulation

\* sequence + 300 / 5, of the ledger the node takes for the last
Expiration_Now(seen) == seen
Expiration(seen) == seen + Validity

AttachSignature_ExpirationNotSet(address, signer, expiration) ==
    /\ entries' = [entries EXCEPT ![address] =
          [signer |-> signer, expiration |-> @.expiration, since |-> ledger]]
    /\ Advance
    /\ UNCHANGED <<chain, ledger, wallet, simulation, signed, network, trouble>>

AttachSignature(address, signer, expiration) ==
    /\ entries' = [entries EXCEPT ![address] =
          [signer |-> signer, expiration |-> expiration, since |-> ledger]]
    /\ Advance
    /\ UNCHANGED <<chain, ledger, wallet, simulation, signed, network, trouble>>

AuthorizeWithSmartAccount ==
    /\ At("authorizeWithSmartAccount")
    /\ \E seen \in Seen : AttachSignature(step.address, step.signer, Expiration(seen))

SignAuthEntries ==
    /\ At("signAuthEntries")
    /\ \E seen \in Seen : AttachSignature(step.address, step.address, seen + SdkValidity)

\* The SDK refuses while a classical account has not signed its entry, and the
\* network a transaction that its source has not signed.
Signable ==
    /\ simulation = "success"
    /\ \A address \in DOMAIN entries : address \in Salts \/ entries[address].signer # Nobody
    /\ step.signer = Operation.source

Sign ==
    /\ At("sign")
    /\ (Signable /\ Advance /\ signed' = entries) \/ (~Signable /\ Throw /\ UNCHANGED signed)
    /\ UNCHANGED <<chain, ledger, wallet, simulation, entries, network, trouble>>

\* The answer to send may be lost, or be that the transaction is still pending.
Send ==
    /\ At("send")
    /\ sent' = [at |-> at, call |-> Operation.call, auth |-> signed]
    /\ status' = "pending"
    /\ (Advance /\ UNCHANGED trouble) \/ (Throw /\ Meet({"unreachable"}))
    /\ UNCHANGED <<chain, ledger, wallet, transaction>>

\* do { ... } while (status == "NOT_FOUND"), which is what the node says of a
\* pending or lost transaction, and of any other while it is behind.
ConfirmTransaction_Once ==
    /\ At("confirmTransaction")
    /\ (status # "FAILED" /\ Advance) \/ (status = "FAILED" /\ Throw)
    /\ UNCHANGED <<chain, ledger, wallet, transaction, network, trouble>>

ConfirmTransaction_UntilSuccess ==
    /\ At("confirmTransaction")
    /\ status = "SUCCESS" /\ Advance
    /\ UNCHANGED <<chain, ledger, wallet, transaction, network, trouble>>

ConfirmTransaction ==
    /\ At("confirmTransaction")
    /\ (status = "SUCCESS" /\ Advance) \/ (status = "FAILED" /\ Throw)
    /\ UNCHANGED <<chain, ledger, wallet, transaction, network, trouble>>

Client ==
    \/ GetDeployedAddress \/ Build \/ PrintAuthEntries
    \/ AuthorizeWithSmartAccount \/ SignAuthEntries \/ Simulate \/ Sign
    \/ Send \/ ConfirmTransaction \/ Result

-----------------------------------------------------------------------------
(* The network.                                                            *)

Include ==
    /\ status = "pending"
    /\ closed' = ledger
    /\ \/ /\ Accepted(sent.call, sent.auth, ledger)
          /\ Effect(sent.call)
          /\ status' = "SUCCESS"
          /\ executed' = Append(executed, sent.at)
          /\ UNCHANGED trouble
       \/ /\ ~Accepted(sent.call, sent.auth, ledger)
          /\ status' = "FAILED"
          /\ Meet(IF Late(sent.call, sent.auth, ledger) THEN {"late"} ELSE {})
          /\ UNCHANGED <<access, accounts, executed>>
    /\ UNCHANGED <<client, ledger, sent>>

Drop ==
    /\ status = "pending"
    /\ status' = "lost"
    /\ Meet({"lost"})
    /\ UNCHANGED <<chain, client, ledger, sent>>

Tick ==
    /\ ledger < MaxLedger
    /\ ledger' = ledger + 1
    /\ UNCHANGED <<chain, client, network, trouble>>

Next == Client \/ Unreachable \/ Include \/ Drop \/ Tick

\* A step of the client ends, and a transaction that is pending is included or,
\* after its time bounds, can never be.  Nothing obliges the node to fail.
Spec == Init /\ [][Next]_vars /\ WF_vars(Client) /\ WF_vars(Include \/ Drop)

-----------------------------------------------------------------------------
Addressable == Addresses \cup Salts
Signed == [signer : Addressable \cup SignerKeys, expiration : Nat \ {0}, since : 1 .. MaxLedger]
Entry == Signed \cup {Unsigned}

\* The entries of a transaction, by the address whose authorization they carry.
IsEntryMap(auth) == DOMAIN auth \subseteq Addressable /\ auth \in [DOMAIN auth -> Entry]

TypeOK ==
    /\ AccessTypeOK
    /\ ledger \in 1 .. MaxLedger /\ closed \in 0 .. ledger
    /\ at \in 1 .. 8 \/ (at = 9 /\ exit = "completed")
    /\ at \in 1 .. 8 => pc \in DOMAIN Operation.steps
    /\ exit \in {"running", "completed", "failed"}
    /\ wallet \in Salts \cup {NoWallet}
    /\ simulation \in {"none", "success", "error"}
    /\ IsEntryMap(entries) /\ IsEntryMap(signed) /\ IsEntryMap(sent.auth)
    /\ sent.at \in 0 .. 8
    /\ status \in {"none", "pending", "SUCCESS", "FAILED", "lost"}
    /\ executed \in Seq(1 .. 8)

-----------------------------------------------------------------------------
FirstOperations(n) == [i \in 1 .. n |-> i]

\* Whatever the node and the network do, the operations take effect in the order
\* of main and once each: when one runs, all before it are in effect, and after
\* main has ended, with an error or without, nothing is that main had not reached.
\* Only the last one may be in doubt (await confirmTransaction of each operation).
EffectsInOrder == executed \in {FirstOperations(at - 1), FirstOperations(at)}

\* A transaction fails only if it was included so late that one of its entries
\* had expired: at every point of main the roles, the accounts and their signers
\* are what the next operation needs, and its entries are signed by the right
\* keys for the validity the code gives them.
ValidityOf(address) == IF address \in Salts THEN Validity ELSE SdkValidity

InTimeSucceeds ==
    status = "FAILED" =>
        \E address \in DOMAIN sent.auth :
            closed + MaxLag > sent.auth[address].since + ValidityOf(address)

\* main fails only because of the node or the network: no operation stands in
\* the way of a later one (roles, salts, and keys of consts.ts).
FailureHasCause == exit = "failed" => trouble # {}

\* Only deploySmartAccount can fail after its transaction was confirmed: the
\* simulation its result is read from was made after it was signed.
ConfirmedReturns ==
    exit = "failed" /\ step.do = "result" => at = 3

\* main ends, unless a transaction is lost: then confirmTransaction polls for it
\* for ever.
EndsUnlessLost == <>(exit # "running" \/ status = "lost")
=============================================================================
