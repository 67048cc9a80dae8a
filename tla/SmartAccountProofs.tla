-------------------------- MODULE SmartAccountProofs --------------------------
(***************************************************************************)
(* Theorems about what the smart account holds, for every set of keys,     *)
(* contracts, requests and entries and for ledgers that close for ever:    *)
(* its types, that it is whole, what its events tell, and its Admins.      *)
(***************************************************************************)
EXTENDS SmartAccountProperties, TLAPS

-----------------------------------------------------------------------------
(* Maps.                                                                   *)

\* The empty map is a signer map and a proof map.
LEMMA EmptyMap == Empty \in SignerMap /\ Empty \in ProofMap(Nonces) /\ Present(Empty) = {}
BY DEF Empty, SignerMap, ProofMap, Present

\* A signer has the key it is stored under.
LEMMA SignerKey == ASSUME NEW s \in Signer PROVE s.key \in SignerKeys
BY DEF Signer

\* Storing a signer under its key, or removing an entry, keeps a signer map one.
LEMMA SignerMapUpdates ==
    ASSUME NEW map \in SignerMap
    PROVE  /\ \A s \in Signer : SetEntry(map, s.key, s) \in SignerMap
           /\ \A k \in SignerKeys : RemoveEntry(map, k) \in SignerMap
<1>1. \A s \in Signer : SetEntry(map, s.key, s) \in SignerMap
  BY SignerKey DEF SignerMap, SetEntry, Present
<1>2. \A k \in SignerKeys : RemoveEntry(map, k) \in SignerMap
  BY DEF SignerMap, RemoveEntry, Present
<1> QED BY <1>1, <1>2

\* The entries a signer map has are signers.
LEMMA StoredSigner ==
    ASSUME NEW map \in SignerMap, NEW k \in SignerKeys, Has(map, k)
    PROVE  map[k] \in Signer /\ map[k].key = k
BY DEF SignerMap, Has, Present

\* The calls to the account carry arguments of their function.
LEMMA CallArguments ==
    ASSUME NEW c \in Context, IsAdminOperation(c)
    PROVE  /\ c.fn \in {"add_signer", "update_signer"} => c.arg \in Signer
           /\ c.fn = "revoke_signer" => c.arg \in SignerKeys
           /\ c.fn \in {"upgrade", "migrate"} => c.arg \in Wasms
BY DEF Context, Calls, IsAdminOperation, ContractCallContext, CreateContractContext

\* The first of the calls left is a call, and so is each of the rest.
LEMMA NextCallType ==
    ASSUME TypeOK, NextCall
    PROVE  /\ tx \in Tx
           /\ Head(tx.calls) \in Context
           /\ Tail(tx.calls) \in Seq(Context)
BY DEF TypeOK, NextCall, InPhase, Tx

-----------------------------------------------------------------------------
(* Types.                                                                  *)

\* The storage of the account has the types of a ledger state.
LEMMA LedgerTypes ==
    Current \in LedgerState
    <=> /\ wasm \in Wasms \cup {NoWasm}
        /\ initialized \in BOOLEAN
        /\ migrating \in BOOLEAN
        /\ signers \in SignerMap
        /\ events \in Seq(Event)
        /\ consumed \in SUBSET Nonces
BY DEF Current, LedgerState

\* A failing call restores a ledger state.
LEMMA FailType == ASSUME TypeOK, tx # NoTx, Fail PROVE TypeOK'
<1>1. tx.saved \in LedgerState
  BY DEF TypeOK, Tx
<1>2. Current' = tx.saved
  BY <1>1 DEF Fail, Current, LedgerState
<1> QED BY <1>1, <1>2, NoTxAssumption DEF TypeOK, Fail, Tx

\* Publishing an event about a signer extends the log by an event.
LEMMA PublishType ==
    ASSUME events \in Seq(Event), NEW k \in SignerKeys, NEW s \in Signer,
           NEW op \in {"store", "update", "delete"}, NEW topic \in {"added", "updated", "revoked"},
           Publish(op, topic, k, s)
    PROVE  events' \in Seq(Event)
BY DEF Publish, Event

\* A transaction begins with the ledger it found.
LEMMA BeginType ==
    ASSUME TypeOK, NEW phase \in {"constructor", "signers", "calls"}, NEW args \in Seq(Signer),
           NEW calls \in Seq(Context), NEW n \in Nonces \cup {NoNonce},
           n # NoNonce => entries[n] # NoEntry,
           Begin(Transaction(phase, args, calls, n))
    PROVE  TypeOK'
<1>1. Transaction(phase, args, calls, n) \in Tx /\ Transaction(phase, args, calls, n).nonce = n
  BY EmptyMap DEF TypeOK, Transaction, Tx
<1> QED BY <1>1 DEF TypeOK, Begin, ledger, instance, Current

\* Preparing and signing an entry makes it an entry.
LEMMA AttachType ==
    ASSUME TypeOK, NEW n \in Nonces, NEW k \in SignerKeys, NEW proof \in Proof(Nonces),
           AttachProof(n, k, proof)
    PROVE  TypeOK'
<1>1. entries[n] \in Entry
  BY DEF TypeOK, AttachProof
<1>2. [entries[n] EXCEPT !.proofs = SetEntry(entries[n].proofs, k, proof)] \in Entry
  BY <1>1 DEF Entry, SetEntry, ProofMap
<1>3. entries' \in [Nonces -> Entry \cup {NoEntry}]
  BY <1>2 DEF TypeOK, AttachProof
<1>4. tx' = tx /\ tx = NoTx /\ Current' = Current /\ now' = now /\ executed' = executed
  BY DEF AttachProof, ledger, instance, Current
<1> QED BY <1>3, <1>4 DEF TypeOK

\* Every initial state has values of the right shape.
LEMMA InitType == Init => TypeOK
<1> SUFFICES ASSUME Init PROVE TypeOK
  OBVIOUS
<1>1. <<>> \in Seq(Event) /\ <<>> \in Seq(Execution)
  OBVIOUS
<1>2. Current \in LedgerState
  BY <1>1, EmptyMap, LedgerTypes DEF Init
<1>3. entries \in [Nonces -> Entry \cup {NoEntry}]
  BY DEF Init
<1> QED BY <1>1, <1>2, <1>3 DEF Init, TypeOK

\* The types hold after every step of a transaction.
LEMMA ExecuteType == ASSUME TypeOK, Execute PROVE TypeOK'
<1> USE DEF TypeOK
<1>t. tx # NoTx
  BY DEF Execute, ConstructorCheck, ConstructorAdd, ConstructorInitialize, RequireAuth, AddSigner,
         UpdateSigner, RevokeSigner, Upgrade, Migrate, OtherCall, Commit, Calling, NextCall, InPhase
<1>u. tx \in Tx
  BY <1>t
<1>f. CASE Fail
  BY <1>t, <1>f, FailType
<1>1. CASE ConstructorCheck /\ ~Fail
  <2>1. /\ wasm' = InitialWasm
        /\ tx' = [tx EXCEPT !.phase = "signers"]
        /\ UNCHANGED <<now, initialized, migrating, signers, events, consumed, entries, executed>>
    BY <1>1 DEF ConstructorCheck
  <2>2. tx' \in Tx /\ tx'.nonce = tx.nonce
    BY <1>u, <2>1 DEF Tx
  <2> QED BY <1>t, <2>1, <2>2, LedgerTypes, WasmsAssumption DEF Current, LedgerState
<1>2. CASE ConstructorAdd /\ ~Fail
  <2>1. Head(tx.args) \in Signer /\ Tail(tx.args) \in Seq(Signer)
    BY <1>2, <1>u DEF ConstructorAdd, Tx
  <2>2. /\ StoreSigner(Head(tx.args))
        /\ tx' = [tx EXCEPT !.args = Tail(@)]
        /\ UNCHANGED <<now, wasm, initialized, migrating, consumed, entries, executed>>
    BY <1>2 DEF ConstructorAdd
  <2>3. signers' \in SignerMap /\ events' \in Seq(Event)
    BY <2>1, <2>2, LedgerTypes, SignerMapUpdates, SignerKey, PublishType DEF StoreSigner
  <2>4. tx' \in Tx /\ tx'.nonce = tx.nonce
    BY <1>u, <2>1, <2>2 DEF Tx
  <2> QED BY <1>t, <2>2, <2>3, <2>4, LedgerTypes DEF Current, LedgerState
<1>3. CASE ConstructorInitialize
  <2>1. tx' \in Tx /\ tx'.nonce = tx.nonce
    BY <1>u, <1>3 DEF Tx, ConstructorInitialize
  <2> QED BY <1>t, <1>3, <2>1, LedgerTypes DEF ConstructorInitialize, Current, LedgerState
<1>4. CASE RequireAuth /\ ~Fail
  <2>1. /\ tx.nonce \in Nonces
        /\ consumed' = consumed \cup {tx.nonce}
        /\ tx' = [tx EXCEPT !.authenticated = TRUE, !.view = signers,
                                !.trail = <<[code |-> wasm, signers |-> signers]>>]
        /\ UNCHANGED <<now, instance, events, entries, executed>>
    BY <1>u, <1>4 DEF RequireAuth, Tx
  <2>2. tx' \in Tx /\ tx'.nonce = tx.nonce
    <3>1. <<[code |-> wasm, signers |-> signers]>> \in Seq(AccountState) /\ signers \in SignerMap
      BY LedgerTypes DEF AccountState
    <3> QED BY <1>u, <2>1, <3>1 DEF Tx
  <2> QED BY <1>t, <2>1, <2>2, LedgerTypes DEF instance, Current, LedgerState
<1>5. CASE (AddSigner \/ UpdateSigner \/ RevokeSigner \/ Upgrade \/ Migrate \/ OtherCall) /\ ~Fail
  <2>1. /\ Head(tx.calls) \in Context
        /\ Tail(tx.calls) \in Seq(Context)
    BY <1>5, NextCallType DEF AddSigner, UpdateSigner, RevokeSigner, Upgrade, Migrate, OtherCall, Calling
  <2>2. CallDone /\ UNCHANGED <<now, entries, executed>>
    BY <1>5 DEF AddSigner, UpdateSigner, RevokeSigner, Upgrade, Migrate, OtherCall
  <2>3. Current' \in LedgerState
    <3>1. CASE AddSigner \/ UpdateSigner
      <4>1. Head(tx.calls).arg \in Signer
        BY <2>1, <3>1, CallArguments DEF AddSigner, UpdateSigner, Calling
      <4>2. signers' \in SignerMap /\ events' \in Seq(Event)
        BY <1>5, <3>1, <4>1, LedgerTypes, SignerMapUpdates, SignerKey, PublishType
           DEF AddSigner, UpdateSigner, StoreSigner
      <4> QED BY <1>5, <3>1, <4>2, LedgerTypes DEF AddSigner, UpdateSigner, Current, LedgerState
    <3>2. CASE RevokeSigner
      <4>1. Head(tx.calls).arg \in SignerKeys
        BY <2>1, <3>2, CallArguments DEF RevokeSigner, Calling
      <4>2. Has(signers, Head(tx.calls).arg)
        BY <1>5, <3>2 DEF RevokeSigner, Revocable
      <4>3. signers' \in SignerMap /\ events' \in Seq(Event)
        BY <1>5, <3>2, <4>1, <4>2, LedgerTypes, SignerMapUpdates, StoredSigner, PublishType
           DEF RevokeSigner
      <4> QED BY <1>5, <3>2, <4>3, LedgerTypes DEF RevokeSigner, Current, LedgerState
    <3>3. CASE Upgrade
      BY <1>5, <2>1, <3>3, LedgerTypes, CallArguments DEF Upgrade, Calling, Current, LedgerState
    <3>4. CASE Migrate
      BY <1>5, <3>4, LedgerTypes DEF Migrate, Current, LedgerState
    <3>5. CASE OtherCall
      BY <1>5, <3>5, LedgerTypes DEF OtherCall, ledger, instance, Current, LedgerState
    <3> QED BY <1>5, <3>1, <3>2, <3>3, <3>4, <3>5
  <2>4. tx' \in Tx /\ tx'.nonce = tx.nonce
    <3> DEFINE after == [code |-> wasm', signers |-> signers']
    <3>1. after \in AccountState
      BY <2>3 DEF AccountState, Current, LedgerState
    <3> HIDE DEF after
    <3>2. Append(tx.trail, after) \in Seq(AccountState)
      BY <1>u, <3>1 DEF Tx
    <3>3. tx' = [tx EXCEPT !.calls = Tail(tx.calls), !.trail = Append(tx.trail, after)]
      BY <2>2 DEF CallDone, after
    <3> QED BY <1>u, <2>1, <3>2, <3>3 DEF Tx
  <2> QED BY <1>t, <2>2, <2>3, <2>4
<1>6. CASE Commit
  <2>1. executed' \in Seq(Execution)
    <3>1. CASE tx.nonce = NoNonce
      BY <1>6, <3>1 DEF Commit
    <3>2. CASE tx.nonce # NoNonce
      <4>1. entries[tx.nonce] \in Entry /\ tx.nonce \in Nonces /\ tx.view \in SignerMap
            /\ tx.trail \in Seq(AccountState)
        BY <1>u, <1>t, <3>2 DEF Tx
      <4>2. [nonce |-> tx.nonce, time |-> now, signers |-> tx.view,
             proofs |-> entries[tx.nonce].proofs, trail |-> tx.trail] \in Execution
        BY <4>1 DEF Execution, Entry
      <4> QED BY <1>6, <3>2, <4>2 DEF Commit
    <3> QED BY <3>1, <3>2
  <2> QED BY <1>6, <2>1 DEF Commit, ledger, instance, Current
<1> QED BY <1>f, <1>1, <1>2, <1>3, <1>4, <1>5, <1>6 DEF Execute

\* The types hold after every step.
LEMMA TypeNext == ASSUME TypeOK, [Next]_vars PROVE TypeOK'
<1>1. CASE UNCHANGED vars
  BY <1>1 DEF TypeOK, vars, ledger, instance, Current
<1>2. CASE Tick
  BY <1>2 DEF Tick, TypeOK, ledger, instance, Current
<1>3. ASSUME NEW n \in Nonces, NEW calls \in Invocations, PrepareEntry(n, calls) PROVE TypeOK'
  <2>1. [calls |-> calls, expires |-> now + EntryLifetime, proofs |-> Empty] \in Entry
    BY EmptyMap, BoundsAssumption DEF TypeOK, Entry
  <2> QED BY <1>3, <2>1 DEF PrepareEntry, TypeOK, ledger, instance, Current
<1>4. ASSUME NEW n \in Nonces, NEW k \in SignerKeys, NEW pub \in Credentials(k),
             SignEntry(n, k, pub)
      PROVE  TypeOK'
  <2>1. [scheme |-> Scheme(k), pub |-> pub, payload |-> n] \in Proof(Nonces)
    BY DEF Proof, Scheme, Schemes, Credentials
  <2> QED BY <1>4, <2>1, AttachType DEF SignEntry
<1>5. ASSUME NEW n \in Nonces, NEW m \in Nonces, NEW k \in SignerKeys, MisrouteProof(n, m, k)
      PROVE  TypeOK'
  <2>1. entries[m].proofs[k] \in Proof(Nonces)
    BY <1>5 DEF TypeOK, MisrouteProof, Entry, ProofMap, Present
  <2> QED BY <1>5, <2>1, AttachType DEF MisrouteProof
<1>6. ASSUME NEW n \in Nonces, Submit(n) PROVE TypeOK'
  <2>1. entries[n] \in Entry /\ entries[n].calls \in Seq(Context) /\ n # NoNonce
    BY <1>6, InvocationsAssumption, NoNonceAssumption DEF Submit, TypeOK, Entry
  <2>2. <<>> \in Seq(Signer)
    OBVIOUS
  <2>3. Begin(Transaction("calls", <<>>, entries[n].calls, n)) /\ entries[n] # NoEntry
    BY <1>6 DEF Submit
  <2> QED BY <2>1, <2>2, <2>3, BeginType
<1>7. ASSUME NEW args \in ConstructorArgs, NEW n \in Nonces, DeployAndInvoke(args, n)
      PROVE  TypeOK'
  <2>1. entries[n] \in Entry /\ entries[n].calls \in Seq(Context) /\ n # NoNonce
    BY <1>7, InvocationsAssumption, NoNonceAssumption DEF DeployAndInvoke, TypeOK, Entry
  <2> QED BY <1>7, <2>1, BeginType, ConstructorArgsAssumption
          DEF DeployAndInvoke
<1>8. ASSUME NEW calls \in Invocations, SubmitUnsigned(calls) PROVE TypeOK'
  <2>1. <<>> \in Seq(Signer) /\ calls \in Seq(Context)
    BY InvocationsAssumption
  <2> QED BY <1>8, <2>1, BeginType DEF SubmitUnsigned
<1>9. ASSUME NEW args \in ConstructorArgs, Deploy(args) PROVE TypeOK'
  <2>1. args \in Seq(Signer) /\ <<>> \in Seq(Context)
    BY ConstructorArgsAssumption
  <2> QED BY <1>9, <2>1, BeginType DEF Deploy
<1>10. CASE Execute
  BY <1>10, ExecuteType
<1> QED BY <1>1, <1>2, <1>3, <1>4, <1>5, <1>6, <1>7, <1>8, <1>9, <1>10 DEF Next

\* TypeOK holds of every behaviour of the account: in particular a signer is
\* only ever stored under the key of its own key pair or credential, and a
\* reverted transaction leaves values of the right shape behind.
THEOREM TypeCorrect == Spec => []TypeOK
<1>1. TypeOK /\ [Next]_vars => TypeOK'
  BY TypeNext
<1> QED BY <1>1, InitType, PTL DEF Spec

-----------------------------------------------------------------------------
(* Steps: how a transaction begins, moves on and ends.                     *)

\* Fail restores what the transaction saved.
LEMMA FailRestores ==
    ASSUME TypeOK, tx # NoTx, Fail
    PROVE  Current' = tx.saved /\ tx' = NoTx
BY DEF TypeOK, Tx, LedgerState, Fail, Current

\* A step of a transaction is a step of one that has begun.
LEMMA ExecuteInTx == ASSUME TypeOK, Execute PROVE tx # NoTx /\ tx \in Tx
BY DEF TypeOK, Execute, ConstructorCheck, ConstructorAdd, ConstructorInitialize, RequireAuth,
       AddSigner, UpdateSigner, RevokeSigner, Upgrade, Migrate, OtherCall, Commit, Calling, NextCall, InPhase

\* What a step that does not end the transaction does to the transaction itself.
Kept == /\ tx' # NoTx /\ tx'.saved = tx.saved /\ tx'.nonce = tx.nonce
        /\ now' = now /\ entries' = entries /\ executed' = executed

Moves(from, to) == tx.phase = from /\ tx'.phase = to

Construct == /\ tx'.authenticated = tx.authenticated /\ tx'.calls = tx.calls

AccountNow == [code |-> wasm, signers |-> signers]

Authenticated == /\ EntryAccepted(tx.nonce) /\ tx.nonce \in Nonces
                 /\ tx'.authenticated /\ tx'.view = signers /\ tx'.calls = tx.calls
                 /\ tx'.trail = <<AccountNow>>

Called == /\ tx'.authenticated = tx.authenticated /\ tx'.view = tx.view
          /\ tx'.trail = Append(tx.trail, AccountNow')
          /\ tx.calls # <<>> /\ tx'.calls = Tail(tx.calls)

\* Each step of a transaction moves it on in its own way, or reverts it.
LEMMA ExecuteTx ==
    ASSUME TypeOK, Execute, ~Fail
    PROVE  /\ ConstructorCheck => Kept /\ Moves("constructor", "signers") /\ Construct
           /\ ConstructorAdd => Kept /\ Moves("signers", "signers") /\ Construct
           /\ ConstructorInitialize => Kept /\ Moves("signers", "calls") /\ Construct
           /\ RequireAuth => Kept /\ Moves("calls", "calls") /\ Authenticated
           /\ AddSigner \/ UpdateSigner \/ RevokeSigner \/ Upgrade \/ Migrate \/ OtherCall =>
                  Kept /\ Moves("calls", "calls") /\ Called
<1> USE DEF Kept, Moves, Construct, Authenticated, Called
<1>1. tx # NoTx /\ tx \in Tx
  BY ExecuteInTx
<1>2. ASSUME ConstructorCheck PROVE Kept /\ Moves("constructor", "signers") /\ Construct
  <2>1. tx.phase = "constructor" /\ tx' = [tx EXCEPT !.phase = "signers"]
        /\ UNCHANGED <<now, entries, executed>>
    BY <1>2 DEF ConstructorCheck, InPhase
  <2>2. /\ tx' \in Tx /\ tx'.saved = tx.saved /\ tx'.nonce = tx.nonce /\ tx'.phase = "signers"
        /\ tx'.authenticated = tx.authenticated /\ tx'.calls = tx.calls
    BY <1>1, <2>1 DEF Tx
  <2> QED BY <1>2, <2>1, <2>2, NoTxAssumption
<1>3. ASSUME ConstructorAdd PROVE Kept /\ Moves("signers", "signers") /\ Construct
  <2>1. Tail(tx.args) \in Seq(Signer)
    BY <1>1, <1>3 DEF ConstructorAdd, Tx
  <2>2. tx.phase = "signers" /\ tx' = [tx EXCEPT !.args = Tail(tx.args)]
        /\ UNCHANGED <<now, entries, executed>>
    BY <1>3 DEF ConstructorAdd, InPhase
  <2>3. /\ tx' \in Tx /\ tx'.saved = tx.saved /\ tx'.nonce = tx.nonce /\ tx'.phase = tx.phase
        /\ tx'.authenticated = tx.authenticated /\ tx'.calls = tx.calls
    BY <1>1, <2>1, <2>2 DEF Tx
  <2> QED BY <1>3, <2>2, <2>3, NoTxAssumption
<1>4. ASSUME ConstructorInitialize PROVE Kept /\ Moves("signers", "calls") /\ Construct
  <2>1. tx.phase = "signers" /\ tx' = [tx EXCEPT !.phase = "calls"]
        /\ UNCHANGED <<now, entries, executed>>
    BY <1>4 DEF ConstructorInitialize, InPhase
  <2>2. /\ tx' \in Tx /\ tx'.saved = tx.saved /\ tx'.nonce = tx.nonce /\ tx'.phase = "calls"
        /\ tx'.authenticated = tx.authenticated /\ tx'.calls = tx.calls
    BY <1>1, <2>1 DEF Tx
  <2> QED BY <1>4, <2>1, <2>2, NoTxAssumption
<1>5. ASSUME RequireAuth PROVE Kept /\ Moves("calls", "calls") /\ Authenticated
  <2>1. /\ signers \in SignerMap /\ tx.nonce \in Nonces /\ tx.phase = "calls"
        /\ tx' = [tx EXCEPT !.authenticated = TRUE, !.view = signers, !.trail = <<AccountNow>>]
        /\ EntryAccepted(tx.nonce)
        /\ UNCHANGED <<now, entries, executed>>
    BY <1>1, <1>5, LedgerTypes DEF TypeOK, Tx, RequireAuth, InPhase, AccountNow
  <2>a. <<AccountNow>> \in Seq(AccountState)
    <3>1. AccountNow \in AccountState
      BY LedgerTypes DEF TypeOK, AccountNow, AccountState
    <3> QED BY <3>1
  <2>2. /\ tx' \in Tx /\ tx'.saved = tx.saved /\ tx'.nonce = tx.nonce /\ tx'.phase = tx.phase
        /\ tx'.authenticated = TRUE /\ tx'.view = signers /\ tx'.calls = tx.calls
        /\ tx'.trail = <<AccountNow>>
    BY <1>1, <2>1, <2>a DEF Tx
  <2> QED BY <1>5, <2>1, <2>2, NoTxAssumption
<1>6. ASSUME AddSigner \/ UpdateSigner \/ RevokeSigner \/ Upgrade \/ Migrate \/ OtherCall PROVE Kept /\ Moves("calls", "calls") /\ Called
  <2>1. NextCall
    BY <1>6 DEF AddSigner, UpdateSigner, RevokeSigner, Upgrade, Migrate, OtherCall, Calling
  <2>2. Tail(tx.calls) \in Seq(Context) /\ tx.phase = "calls" /\ tx.calls # <<>>
    BY <2>1, NextCallType DEF NextCall, InPhase
  <2>3. /\ tx' = [tx EXCEPT !.calls = Tail(tx.calls), !.trail = Append(tx.trail, AccountNow')]
        /\ UNCHANGED <<now, entries, executed>>
    BY <1>6 DEF AddSigner, UpdateSigner, RevokeSigner, Upgrade, Migrate, OtherCall, CallDone, AccountNow
  <2>a. Append(tx.trail, AccountNow') \in Seq(AccountState)
    <3>1. AccountNow' \in AccountState
      BY ExecuteType DEF TypeOK, Current, LedgerState, AccountNow, AccountState
    <3> QED BY <1>1, <3>1 DEF Tx
  <2>4. /\ tx' \in Tx /\ tx'.saved = tx.saved /\ tx'.nonce = tx.nonce /\ tx'.phase = tx.phase
        /\ tx'.authenticated = tx.authenticated /\ tx'.view = tx.view
        /\ tx'.calls = Tail(tx.calls) /\ tx'.trail = Append(tx.trail, AccountNow')
    BY <1>1, <2>2, <2>3, <2>a DEF Tx
  <2> QED BY <1>6, <2>2, <2>3, <2>4, NoTxAssumption
<1> QED BY <1>2, <1>3, <1>4, <1>5, <1>6

\* Clients and the clock leave the account alone and keep what an entry asks for.
Outside ==
    /\ tx = NoTx /\ tx' = NoTx
    /\ Current' = Current
    /\ executed' = executed
    /\ \A n \in Nonces : entries[n] # NoEntry =>
           entries'[n] # NoEntry /\ entries'[n].calls = entries[n].calls

\* A transaction begins with the ledger as it is and nothing authenticated.
Begun ==
    /\ tx = NoTx /\ tx' # NoTx
    /\ Current' = Current /\ tx'.saved = Current
    /\ ~tx'.authenticated
    /\ tx'.phase \in {"constructor", "calls"}
    /\ tx'.phase = "constructor" => tx'.args \in ConstructorArgs
    /\ tx'.nonce # NoNonce => tx'.nonce \in Nonces /\ tx'.calls = entries[tx'.nonce].calls
    /\ now' = now /\ entries' = entries /\ executed' = executed

\* Whichever call begins a transaction, what it carries is what was prepared.
LEMMA BeginBegun ==
    ASSUME TypeOK, NEW phase \in {"constructor", "calls"}, NEW args \in Seq(Signer),
           NEW calls \in Seq(Context), NEW n \in Nonces \cup {NoNonce},
           n # NoNonce => calls = entries[n].calls,
           phase = "constructor" => args \in ConstructorArgs,
           Begin(Transaction(phase, args, calls, n))
    PROVE  Begun
<1>1. Transaction(phase, args, calls, n) \in Tx
  BY EmptyMap DEF TypeOK, Transaction, Tx
<1>2. tx = NoTx /\ tx' = Transaction(phase, args, calls, n) /\ tx' # NoTx
  BY <1>1, NoTxAssumption DEF Begin
<1>3. /\ tx'.saved = Current /\ ~tx'.authenticated /\ tx'.phase = phase
      /\ tx'.nonce = n /\ tx'.calls = calls /\ tx'.args = args
  BY <1>2 DEF Transaction
<1>4. Current' = Current /\ now' = now /\ entries' = entries /\ executed' = executed
  BY DEF Begin, ledger, instance, Current
<1> QED BY <1>2, <1>3, <1>4 DEF Begun

\* Signing happens outside of transactions and leaves the ledger alone.
LEMMA AttachOutside ==
    ASSUME TypeOK, NEW n \in Nonces, NEW k \in SignerKeys, NEW proof \in Proof(Nonces),
           AttachProof(n, k, proof)
    PROVE  Outside
<1>1. entries[n] \in Entry /\ entries' = [entries EXCEPT ![n] = [entries[n] EXCEPT !.proofs = SetEntry(entries[n].proofs, k, proof)]]
  BY DEF TypeOK, AttachProof
<1>2. /\ [entries[n] EXCEPT !.proofs = SetEntry(entries[n].proofs, k, proof)] \in Entry
      /\ [entries[n] EXCEPT !.proofs = SetEntry(entries[n].proofs, k, proof)].calls = entries[n].calls
  BY <1>1 DEF Entry, SetEntry, ProofMap
<1>3. \A m \in Nonces : entries[m] # NoEntry =>
          entries'[m] # NoEntry /\ entries'[m].calls = entries[m].calls
  BY <1>1, <1>2, NoEntryAssumption DEF TypeOK
<1> QED BY <1>3 DEF AttachProof, Outside, ledger, instance, Current

\* The transactions clients submit.
Submitted ==
    \/ \E n \in Nonces : Submit(n) \/ \E args \in ConstructorArgs : DeployAndInvoke(args, n)
    \/ \E calls \in Invocations : SubmitUnsigned(calls)
    \/ \E args \in ConstructorArgs : Deploy(args)

\* Each of them begins with the ledger as it is.
LEMMA TransactionsBegin == ASSUME TypeOK, Submitted PROVE Begun
<1>1. ASSUME NEW n \in Nonces, Submit(n) PROVE Begun
  <2>1. entries[n].calls \in Seq(Context) /\ <<>> \in Seq(Signer)
    BY <1>1, InvocationsAssumption DEF Submit, TypeOK, Entry
  <2>2. Begin(Transaction("calls", <<>>, entries[n].calls, n))
    BY <1>1 DEF Submit
  <2> QED BY <2>1, <2>2, BeginBegun
<1>2. ASSUME NEW args \in ConstructorArgs, NEW n \in Nonces, DeployAndInvoke(args, n) PROVE Begun
  <2>1. entries[n].calls \in Seq(Context) /\ args \in Seq(Signer)
    BY <1>2, InvocationsAssumption, ConstructorArgsAssumption DEF DeployAndInvoke, TypeOK, Entry
  <2>2. Begin(Transaction("constructor", args, entries[n].calls, n))
    BY <1>2 DEF DeployAndInvoke
  <2> QED BY <2>1, <2>2, BeginBegun
<1>3. ASSUME NEW calls \in Invocations, SubmitUnsigned(calls) PROVE Begun
  <2>1. calls \in Seq(Context) /\ <<>> \in Seq(Signer)
    BY InvocationsAssumption
  <2> QED BY <1>3, <2>1, BeginBegun DEF SubmitUnsigned
<1>4. ASSUME NEW args \in ConstructorArgs, Deploy(args) PROVE Begun
  <2>1. args \in Seq(Signer) /\ <<>> \in Seq(Context)
    BY ConstructorArgsAssumption
  <2> QED BY <1>4, <2>1, BeginBegun DEF Deploy
<1> QED BY <1>1, <1>2, <1>3, <1>4 DEF Submitted

\* Every step is a step of a transaction, begins one, or is outside of any.
LEMMA StepKinds ==
    ASSUME TypeOK, [Next]_vars
    PROVE  Execute \/ Begun \/ Outside \/ UNCHANGED vars
<1>1. CASE Tick
  BY <1>1 DEF Tick, Outside, ledger, instance, Current
<1>2. ASSUME NEW n \in Nonces, NEW calls \in Invocations, PrepareEntry(n, calls) PROVE Outside
  BY <1>2 DEF TypeOK, PrepareEntry, Outside, ledger, instance, Current
<1>3. ASSUME NEW n \in Nonces, NEW k \in SignerKeys, NEW pub \in Credentials(k),
             SignEntry(n, k, pub)
      PROVE  Outside
  <2>1. [scheme |-> Scheme(k), pub |-> pub, payload |-> n] \in Proof(Nonces)
    BY DEF Proof, Scheme, Schemes, Credentials
  <2> QED BY <1>3, <2>1, AttachOutside DEF SignEntry
<1>4. ASSUME NEW n \in Nonces, NEW m \in Nonces, NEW k \in SignerKeys, MisrouteProof(n, m, k)
      PROVE  Outside
  <2>1. entries[m].proofs[k] \in Proof(Nonces)
    BY <1>4 DEF TypeOK, MisrouteProof, Entry, ProofMap, Present
  <2> QED BY <1>4, <2>1, AttachOutside DEF MisrouteProof
<1>5. CASE Submitted
  BY <1>5, TransactionsBegin
<1> QED BY <1>1, <1>2, <1>3, <1>4, <1>5 DEF Next, Submitted

-----------------------------------------------------------------------------
(* Deployed accounts are initialized.                                      *)

\* What DeployedIsInitialized says of one ledger state.
WholeAccount(l) ==
    /\ l.initialized <=> l.wasm # NoWasm
    /\ ~l.initialized => l.signers = Empty

\* The constructor leaves the account whole before any other call can run.
DeployInv ==
    /\ tx # NoTx => WholeAccount(tx.saved)
    /\ tx # NoTx /\ tx.phase = "constructor" => Current = tx.saved
    /\ tx # NoTx /\ tx.phase = "signers" => ~initialized /\ wasm # NoWasm
    /\ tx = NoTx \/ tx.phase = "calls" => WholeAccount(Current)

\* No step, reverted or not, leaves the account deployed and uninitialized.
LEMMA DeployInductive ==
    ASSUME TypeOK, DeployInv, [Next]_vars
    PROVE  DeployInv'
<1>1. CASE UNCHANGED vars
  BY <1>1 DEF DeployInv, Current, vars, ledger, instance
<1>2. CASE Outside
  BY <1>2 DEF DeployInv, Outside
<1>3. CASE Begun
  BY <1>3 DEF DeployInv, Begun
<1>4. CASE Execute
  <2>t. tx # NoTx /\ tx \in Tx
    BY <1>4, ExecuteInTx
  <2>1. CASE Fail
    BY <2>t, <2>1, FailRestores DEF DeployInv
  <2>2. CASE Commit
    BY <2>2 DEF DeployInv, Commit, InPhase, ledger, instance, Current
  <2>3. CASE ConstructorCheck /\ ~Fail
    <3>1. wasm' # NoWasm /\ ~initialized'
      BY <2>3, WasmsAssumption DEF ConstructorCheck
    <3>2. Kept /\ Moves("constructor", "signers")
      BY <1>4, <2>3, ExecuteTx
    <3> QED BY <2>t, <3>1, <3>2 DEF DeployInv, Kept, Moves
  <2>4. CASE ConstructorAdd /\ ~Fail
    <3>1. UNCHANGED <<wasm, initialized>>
      BY <2>4 DEF ConstructorAdd
    <3>2. Kept /\ Moves("signers", "signers")
      BY <1>4, <2>4, ExecuteTx
    <3> QED BY <2>t, <3>1, <3>2 DEF DeployInv, Kept, Moves
  <2>5. CASE ConstructorInitialize /\ ~Fail
    <3>1. initialized' = TRUE /\ wasm' = wasm
      BY <2>5 DEF ConstructorInitialize
    <3>2. Kept /\ Moves("signers", "calls")
      BY <1>4, <2>5, ExecuteTx
    <3>3. wasm # NoWasm
      BY <2>t, <3>2 DEF DeployInv, Moves
    <3>4. WholeAccount(Current)'
      BY <3>1, <3>3 DEF WholeAccount, Current
    <3> QED BY <2>t, <3>2, <3>4 DEF DeployInv, Kept, Moves
  <2>6. CASE RequireAuth /\ ~Fail
    <3>1. UNCHANGED <<wasm, initialized, signers>>
      BY <2>6 DEF RequireAuth, instance
    <3>2. Kept /\ Moves("calls", "calls")
      BY <1>4, <2>6, ExecuteTx
    <3>3. WholeAccount(Current)'
      BY <2>t, <3>1, <3>2 DEF DeployInv, Moves, WholeAccount, Current
    <3> QED BY <2>t, <3>2, <3>3 DEF DeployInv, Kept, Moves
  <2>7. CASE (AddSigner \/ UpdateSigner \/ RevokeSigner \/ Upgrade \/ Migrate \/ OtherCall) /\ ~Fail
    <3>1. initialized' = initialized
      BY <2>7 DEF AddSigner, UpdateSigner, RevokeSigner, Upgrade, Migrate, OtherCall, ledger, instance
    <3>2. Kept /\ Moves("calls", "calls")
      BY <1>4, <2>7, ExecuteTx
    <3>3. WholeAccount(Current)
      BY <2>t, <3>2 DEF DeployInv, Moves
    <3>4. wasm # NoWasm <=> wasm' # NoWasm
      <4>1. CASE Upgrade
        <5>1. Head(tx.calls) \in Context /\ IsAdminOperation(Head(tx.calls)) /\ Head(tx.calls).fn = "upgrade"
          BY <4>1, NextCallType DEF Upgrade, Calling
        <5>2. Head(tx.calls).arg \in Wasms
          BY <5>1, CallArguments
        <5> QED BY <2>7, <4>1, <5>2, WasmsAssumption DEF Upgrade
      <4> QED BY <2>7, <4>1 DEF AddSigner, UpdateSigner, RevokeSigner, Migrate, OtherCall, ledger, instance
    <3>5. ~initialized => UNCHANGED signers
      BY <2>7, <3>3 DEF AddSigner, UpdateSigner, RevokeSigner, Upgrade, Migrate, OtherCall, ledger, instance,
                        WholeAccount, Current
    <3>6. WholeAccount(Current)'
      BY <3>1, <3>3, <3>4, <3>5 DEF WholeAccount, Current
    <3> QED BY <2>t, <3>2, <3>6 DEF DeployInv, Kept, Moves
  <2> QED BY <1>4, <2>1, <2>2, <2>3, <2>4, <2>5, <2>6, <2>7 DEF Execute
<1> QED BY <1>1, <1>2, <1>3, <1>4, StepKinds

\* The account is whole in every ledger Fail can restore.
LEMMA DeployInvariant == Spec => []DeployInv
<1>1. Init => DeployInv
  BY DEF Init, DeployInv, WholeAccount, Current
<1>2. TypeOK /\ DeployInv /\ [Next]_vars => DeployInv'
  BY DeployInductive
<1> QED BY <1>1, <1>2, TypeCorrect, PTL DEF Spec

\* No ledger holds a deployed account that is not initialized, whatever signers
\* and policies its deployer passed: require_auth_if_initialized never lets a
\* call of a deployed account through without authorization.
THEOREM DeployedInitialized == Spec => []DeployedIsInitialized
<1>1. DeployInv => DeployedIsInitialized
  BY DEF DeployInv, DeployedIsInitialized, WholeAccount, Committed
<1> QED BY <1>1, DeployInvariant, PTL

-----------------------------------------------------------------------------
(* The events tell the signers.                                            *)

\* The last event about a key tells what a map holds for it.
LastOf(log, k, i) ==
    log[i].key = k /\ \A j \in DOMAIN log : log[j].key = k => j <= i

Tells(log, map, k) ==
    IF Has(map, k)
    THEN \E i \in DOMAIN log :
             LastOf(log, k, i) /\ log[i].signer # "revoked" /\ log[i].value = map[k]
    ELSE \A i \in DOMAIN log : LastOf(log, k, i) => log[i].signer = "revoked"

\* Both the ledger and what Fail would restore are told by their own events.
LogInv ==
    /\ \A k \in SignerKeys : Tells(events, signers, k)
    /\ tx # NoTx => \A k \in SignerKeys : Tells(tx.saved.events, tx.saved.signers, k)

\* An event more tells what it did to its key, and nothing about another one.
LEMMA EventTells ==
    ASSUME NEW log \in Seq(Event), NEW e \in Event, NEW map \in SignerMap, NEW map2 \in SignerMap,
           \A k \in SignerKeys : Tells(log, map, k),
           \A k \in SignerKeys \ {e.key} : map2[k] = map[k],
           IF e.signer = "revoked" THEN map2[e.key] = Missing ELSE map2[e.key] = e.value
    PROVE  \A k \in SignerKeys : Tells(Append(log, e), map2, k)
<1> DEFINE more == Append(log, e)
           n == Len(log) + 1
<1>1. DOMAIN more = DOMAIN log \cup {n} /\ n \notin DOMAIN log /\ more[n] = e
      /\ \A i \in DOMAIN log : more[i] = log[i] /\ i \in Nat /\ i <= n
  OBVIOUS
<1>2. e.key \in SignerKeys /\ e.value \in Signer /\ e.value # Missing /\ n \in Nat
  BY MissingAssumption DEF Event
<1> HIDE DEF more, n
<1>3. LastOf(more, e.key, n) /\ \A i \in DOMAIN more : LastOf(more, e.key, i) => i = n
  <2>1. LastOf(more, e.key, n)
    BY <1>1, <1>2 DEF LastOf
  <2>2. ASSUME NEW i \in DOMAIN more, LastOf(more, e.key, i) PROVE i = n
    <3>1. n <= i
      BY <1>1, <2>2 DEF LastOf
    <3> QED BY <1>1, <1>2, <3>1
  <2> QED BY <2>1, <2>2
<1>4. Tells(more, map2, e.key)
  BY <1>1, <1>2, <1>3 DEF Tells, Has, Present
<1>5. ASSUME NEW k \in SignerKeys \ {e.key} PROVE Tells(more, map2, k)
  <2>1. \A i \in DOMAIN log : LastOf(more, k, i) <=> LastOf(log, k, i)
    BY <1>1 DEF LastOf
  <2>2. ~LastOf(more, k, n)
    BY <1>1 DEF LastOf
  <2>3. Has(map2, k) <=> Has(map, k)
    BY DEF Has, Present
  <2>4. Tells(log, map, k) /\ map2[k] = map[k]
    OBVIOUS
  <2> QED BY <1>1, <2>1, <2>2, <2>3, <2>4 DEF Tells
<1> QED BY <1>4, <1>5 DEF more

\* What the calls that add, update and revoke a signer do, one event each.
ReplaceSigner(s) ==
    signers' = SetEntry(signers, s.key, s) /\ Publish("update", "updated", s.key, s)

DropSigner(k) ==
    /\ Has(signers, k)
    /\ signers' = RemoveEntry(signers, k)
    /\ Publish("delete", "revoked", k, signers[k])

\* A signer that is stored is the one its event carries.
LEMMA StoredBy ==
    ASSUME signers \in SignerMap, NEW s \in Signer, StoreSigner(s) \/ ReplaceSigner(s)
    PROVE  \E e \in Event :
              /\ events' = Append(events, e)
              /\ e.key = s.key /\ e.value = s /\ e.signer # "revoked"
              /\ \A k \in SignerKeys \ {e.key} : signers'[k] = signers[k]
              /\ signers'[e.key] = e.value
<1>1. /\ s.key \in SignerKeys
      /\ \A k \in SignerKeys \ {s.key} : signers'[k] = signers[k]
      /\ signers'[s.key] = s
  BY SignerKey DEF StoreSigner, ReplaceSigner, SetEntry, SignerMap
<1>2. CASE StoreSigner(s)
  <2> DEFINE e == [storage |-> "store", signer |-> "added", key |-> s.key, value |-> s]
  <2>1. e \in Event /\ e.key = s.key /\ e.value = s /\ e.signer # "revoked"
    BY <1>1 DEF Event
  <2>2. events' = Append(events, e)
    BY <1>2 DEF StoreSigner, Publish
  <2> HIDE DEF e
  <2> QED BY <1>1, <2>1, <2>2
<1>3. CASE ReplaceSigner(s)
  <2> DEFINE e == [storage |-> "update", signer |-> "updated", key |-> s.key, value |-> s]
  <2>1. e \in Event /\ e.key = s.key /\ e.value = s /\ e.signer # "revoked"
    BY <1>1 DEF Event
  <2>2. events' = Append(events, e)
    BY <1>3 DEF ReplaceSigner, Publish
  <2> HIDE DEF e
  <2> QED BY <1>1, <2>1, <2>2
<1> QED BY <1>2, <1>3

\* An update publishes an "updated" event.
LEMMA ReplacedBy ==
    ASSUME signers \in SignerMap, NEW s \in Signer, ReplaceSigner(s)
    PROVE  \E e \in Event :
              /\ events' = Append(events, e)
              /\ e.signer = "updated"
              /\ \A k \in SignerKeys \ {e.key} : signers'[k] = signers[k]
              /\ signers'[e.key] = e.value
<1> DEFINE e == [storage |-> "update", signer |-> "updated", key |-> s.key, value |-> s]
<1>1. /\ s.key \in SignerKeys
      /\ \A k \in SignerKeys \ {s.key} : signers'[k] = signers[k]
      /\ signers'[s.key] = s
  BY SignerKey DEF ReplaceSigner, SetEntry, SignerMap
<1>2. e \in Event /\ e.key = s.key /\ e.value = s /\ e.signer = "updated"
  BY <1>1 DEF Event
<1>3. events' = Append(events, e)
  BY DEF ReplaceSigner, Publish
<1> HIDE DEF e
<1> QED BY <1>1, <1>2, <1>3

\* A revocation publishes a "revoked" event.
LEMMA DroppedBy ==
    ASSUME signers \in SignerMap, NEW k \in SignerKeys, DropSigner(k)
    PROVE  \E e \in Event :
              /\ events' = Append(events, e)
              /\ e.key = k /\ e.signer = "revoked"
              /\ \A j \in SignerKeys \ {e.key} : signers'[j] = signers[j]
              /\ signers'[e.key] = Missing
<1> DEFINE e == [storage |-> "delete", signer |-> "revoked", key |-> k, value |-> signers[k]]
<1>1. \A j \in SignerKeys \ {k} : signers'[j] = signers[j]
  BY DEF DropSigner, RemoveEntry, SignerMap
<1>2. signers'[k] = Missing
  BY DEF DropSigner, RemoveEntry, SignerMap
<1>3. e \in Event /\ e.key = k /\ e.signer = "revoked"
  BY StoredSigner DEF DropSigner, Event
<1>4. events' = Append(events, e)
  BY DEF DropSigner, Publish
<1> HIDE DEF e
<1> QED BY <1>1, <1>2, <1>3, <1>4

\* Every event a call publishes tells what the call did to the signers.
LEMMA LogInductive ==
    ASSUME TypeOK, LogInv, [Next]_vars
    PROVE  LogInv'
<1>1. CASE UNCHANGED vars
  BY <1>1 DEF LogInv, vars, ledger, instance
<1>2. CASE Outside
  BY <1>2 DEF LogInv, Outside, Current
<1>3. CASE Begun
  <2>1. signers' = signers /\ events' = events /\ tx'.saved.signers = signers /\ tx'.saved.events = events
    BY <1>3 DEF Begun, Current
  <2> QED BY <2>1 DEF LogInv
<1>4. CASE Execute
  <2>t. tx # NoTx /\ tx \in Tx
    BY <1>4, ExecuteInTx
  <2>s. signers \in SignerMap /\ events \in Seq(Event) /\ signers' \in SignerMap
    <3>1. Current' \in LedgerState
      BY <1>4, ExecuteType DEF TypeOK
    <3> QED BY <3>1, LedgerTypes DEF TypeOK, Current, LedgerState
  <2>1. CASE Fail
    BY <2>t, <2>1 DEF LogInv, Fail
  <2>2. CASE Commit
    BY <2>2 DEF LogInv, Commit, ledger, instance
  <2>3. CASE (ConstructorCheck \/ ConstructorInitialize \/ RequireAuth \/ Upgrade \/ Migrate \/ OtherCall) /\ ~Fail
    <3>1. Kept
      BY <1>4, <2>3, ExecuteTx
    <3>2. signers' = signers /\ events' = events
      BY <2>3 DEF ConstructorCheck, ConstructorInitialize, RequireAuth, Upgrade, Migrate, OtherCall, ledger, instance
    <3> QED BY <2>t, <3>1, <3>2 DEF LogInv, Kept
  <2>4. CASE (ConstructorAdd \/ AddSigner \/ UpdateSigner \/ RevokeSigner) /\ ~Fail
    <3>1. Kept
      BY <1>4, <2>4, ExecuteTx
    <3>2. PICK e \in Event :
              /\ events' = Append(events, e)
              /\ \A k \in SignerKeys \ {e.key} : signers'[k] = signers[k]
              /\ IF e.signer = "revoked" THEN signers'[e.key] = Missing ELSE signers'[e.key] = e.value
      <4>1. CASE ConstructorAdd
        <5>1. Head(tx.args) \in Signer
          BY <2>t, <4>1 DEF ConstructorAdd, Tx
        <5>2. StoreSigner(Head(tx.args))
          BY <2>4, <4>1 DEF ConstructorAdd
        <5> QED BY <2>s, <5>1, <5>2, StoredBy
      <4>2. CASE AddSigner \/ UpdateSigner
        <5>1. Head(tx.calls).arg \in Signer
          BY <4>2, NextCallType, CallArguments DEF AddSigner, UpdateSigner, Calling
        <5>2. StoreSigner(Head(tx.calls).arg) \/ ReplaceSigner(Head(tx.calls).arg)
          BY <2>4, <4>2 DEF AddSigner, UpdateSigner, ReplaceSigner
        <5> QED BY <2>s, <5>1, <5>2, StoredBy
      <4>3. CASE RevokeSigner
        <5>1. Head(tx.calls).arg \in SignerKeys
          BY <4>3, NextCallType, CallArguments DEF RevokeSigner, Calling
        <5>2. DropSigner(Head(tx.calls).arg)
          BY <2>4, <4>3 DEF RevokeSigner, Revocable, DropSigner
        <5> QED BY <2>s, <5>1, <5>2, DroppedBy
      <4> QED BY <2>4, <4>1, <4>2, <4>3
    <3>3. \A k \in SignerKeys : Tells(events', signers', k)
      BY <2>s, <3>2, EventTells DEF LogInv
    <3> QED BY <2>t, <3>1, <3>3 DEF LogInv, Kept
  <2> QED BY <1>4, <2>1, <2>2, <2>3, <2>4 DEF Execute
<1> QED BY <1>1, <1>2, <1>3, <1>4, StepKinds

\* The events tell the signers, of the ledger and of what Fail restores.
LEMMA LogInvariant == Spec => []LogInv
<1>1. Init => LogInv
  BY EmptyMap DEF Init, LogInv, Tells, Has
<1>2. TypeOK /\ LogInv /\ [Next]_vars => LogInv'
  BY LogInductive
<1> QED BY <1>1, <1>2, TypeCorrect, PTL DEF Spec

\* Whoever replays the events knows the signers, whatever was reverted in
\* between and however often a key was removed and added again.
THEOREM LogIsComplete == Spec => []LogTellsSigners
<1>1. LogInv => LogTellsSigners
  <2> SUFFICES ASSUME LogInv, NEW k \in SignerKeys
               PROVE  IF Has(signers, k)
                      THEN \E i \in EventsOf(k) :
                               /\ \A j \in EventsOf(k) : j <= i
                               /\ events[i].signer # "revoked"
                               /\ events[i].value = signers[k]
                      ELSE \A i \in EventsOf(k) :
                               (\A j \in EventsOf(k) : j <= i) => events[i].signer = "revoked"
    BY DEF LogTellsSigners
  <2>1. Tells(events, signers, k)
    BY DEF LogInv
  <2> QED BY <2>1 DEF Tells, LastOf, EventsOf
<1> QED BY <1>1, LogInvariant, PTL

-----------------------------------------------------------------------------
(* An account is created with policies that can be met.                    *)

\* The signers stored by a constructor that has not ended were validated in
\* this very ledger; nothing unsets the flag a transaction found set.
CreationInv ==
    tx # NoTx =>
        /\ tx.saved.initialized => initialized
        /\ tx.phase = "signers" =>
               \A k \in Present(signers) : PoliciesValid(signers[k].role, now)

\* No step of a constructor stores a signer without its checks.
LEMMA CreationInductive ==
    ASSUME TypeOK, DeployInv, CreationInv, [Next]_vars
    PROVE  CreationInv'
<1>1. CASE UNCHANGED vars
  BY <1>1 DEF CreationInv, vars, ledger, instance
<1>2. CASE Outside
  BY <1>2 DEF CreationInv, Outside
<1>3. CASE Begun
  <2>1. initialized' = initialized /\ tx'.saved.initialized = initialized
    BY <1>3 DEF Begun, Current
  <2> QED BY <1>3, <2>1 DEF CreationInv, Begun
<1>4. CASE Execute
  <2>t. tx # NoTx /\ tx \in Tx
    BY <1>4, ExecuteInTx
  <2>1. CASE Fail \/ Commit
    BY <2>1 DEF CreationInv, Fail, Commit
  <2>2. CASE ConstructorCheck /\ ~Fail
    <3>1. Kept /\ Moves("constructor", "signers")
      BY <1>4, <2>2, ExecuteTx
    <3>2. ~initialized /\ UNCHANGED <<initialized, signers>>
      BY <2>2 DEF ConstructorCheck
    <3>3. WholeAccount(Current)
      BY <2>t, <3>1 DEF DeployInv, Moves
    <3>4. signers = Empty
      BY <3>2, <3>3 DEF WholeAccount, Current
    <3>5. Present(signers') = {}
      BY <3>2, <3>4, EmptyMap
    <3> QED BY <2>t, <3>1, <3>2, <3>5 DEF CreationInv, Kept
  <2>3. CASE ConstructorAdd /\ ~Fail
    <3> DEFINE s == Head(tx.args)
    <3>1. Kept /\ Moves("signers", "signers")
      BY <1>4, <2>3, ExecuteTx
    <3>2. PoliciesValid(s.role, now) /\ signers' = SetEntry(signers, s.key, s) /\ UNCHANGED initialized
      BY <2>3 DEF ConstructorAdd, StoreSigner
    <3>3. signers \in SignerMap
      BY LedgerTypes DEF TypeOK
    <3>4. s \in Signer
      BY <2>t, <2>3 DEF ConstructorAdd, Tx
    <3> HIDE DEF s
    <3>5. ASSUME NEW k \in Present(signers') PROVE PoliciesValid(signers'[k].role, now)
      <4>1. CASE k = s.key
        BY <3>2, <3>3, <3>4, <4>1, SignerKey DEF SetEntry, SignerMap
      <4>2. CASE k # s.key
        <5>1. k \in Present(signers) /\ signers'[k] = signers[k]
          BY <3>2, <3>3, <4>2 DEF SetEntry, SignerMap, Present
        <5> QED BY <2>t, <3>1, <5>1 DEF CreationInv, Moves
      <4> QED BY <4>1, <4>2
    <3> QED BY <2>t, <3>1, <3>2, <3>5 DEF CreationInv, Kept
  <2>4. CASE ConstructorInitialize /\ ~Fail
    <3>1. Kept /\ Moves("signers", "calls")
      BY <1>4, <2>4, ExecuteTx
    <3>2. initialized'
      BY <2>4 DEF ConstructorInitialize
    <3> QED BY <3>1, <3>2 DEF CreationInv, Kept, Moves
  <2>5. CASE (RequireAuth \/ AddSigner \/ UpdateSigner \/ RevokeSigner \/ Upgrade \/ Migrate \/ OtherCall) /\ ~Fail
    <3>1. Kept /\ Moves("calls", "calls")
      BY <1>4, <2>5, ExecuteTx
    <3>2. initialized' = initialized
      BY <2>5 DEF RequireAuth, AddSigner, UpdateSigner, RevokeSigner, Upgrade, Migrate, OtherCall, ledger, instance
    <3> QED BY <2>t, <3>1, <3>2 DEF CreationInv, Kept, Moves
  <2> QED BY <1>4, <2>1, <2>2, <2>3, <2>4, <2>5 DEF Execute
<1> QED BY <1>1, <1>2, <1>3, <1>4, StepKinds

\* A policy that passes its check in a ledger can be met from then on.
LEMMA CheckedIsUseful ==
    ASSUME now \in Nat, NEW s \in Signer, PoliciesValid(s.role, now)
    PROVE  AllUseful(s.role)
<1> SUFFICES ASSUME s.role.kind = "Restricted", NEW i \in DOMAIN s.role.policies
             PROVE  Useful(s.role.policies[i])
  BY DEF AllUseful
<1> DEFINE p == s.role.policies[i]
<1>1. s.role.policies \in Seq(SignerPolicy)
  BY DEF Signer, SignerRole
<1>2. p \in SignerPolicy /\ PolicyCheck(p, now)
  BY <1>1 DEF PoliciesValid
<1> HIDE DEF p
<1>3. ASSUME p.kind = "TimeBased" PROVE Useful(p)
  <2>1. p \in TimeBasedPolicy
    BY <1>2, <1>3 DEF SignerPolicy, ContractDenyListPolicy, ContractAllowListPolicy
  <2>2. now <= p.not_after /\ p.not_before <= p.not_after /\ p.not_before \in Nat /\ p.not_after \in Nat
    BY <1>2, <1>3, <2>1 DEF PolicyCheck, TimeBasedCheck, TimeBasedPolicy
  <2>3. p.not_after \in p.not_before .. p.not_after /\ p.not_after >= now
    BY <2>2
  <2> QED BY <1>3, <2>3 DEF Useful
<1>4. ASSUME p.kind = "ContractAllowList" PROVE Useful(p)
  BY <1>2, <1>4 DEF PolicyCheck, AllowListCheck, Useful
<1>5. ASSUME p.kind # "TimeBased", p.kind # "ContractAllowList" PROVE Useful(p)
  BY <1>5 DEF Useful
<1>6. Useful(p)
  BY <1>3, <1>4, <1>5
<1> QED BY <1>6 DEF p

\* Only the end of a constructor sets the flag.
LEMMA InitializedByConstructor ==
    ASSUME TypeOK, CreationInv, [Next]_vars, ~initialized, initialized'
    PROVE  ConstructorInitialize /\ tx # NoTx /\ tx.phase = "signers" /\ UNCHANGED <<now, signers>>
<1>1. CASE UNCHANGED vars
  BY <1>1 DEF vars, ledger, instance
<1>2. CASE Outside \/ Begun
  BY <1>2 DEF Outside, Begun, Current
<1>3. CASE Execute
  <2>1. tx # NoTx
    BY <1>3, ExecuteInTx
  <2>2. ~Fail
    BY <2>1 DEF CreationInv, Fail
  <2>3. ~(ConstructorCheck \/ ConstructorAdd \/ RequireAuth \/ AddSigner \/ UpdateSigner \/ RevokeSigner
          \/ Upgrade \/ Migrate \/ OtherCall \/ Commit)
    BY <2>2 DEF ConstructorCheck, ConstructorAdd, RequireAuth, AddSigner, UpdateSigner, RevokeSigner,
                Upgrade, Migrate, OtherCall, Commit, ledger, instance
  <2>4. ConstructorInitialize
    BY <1>3, <2>3 DEF Execute
  <2> QED BY <2>1, <2>4 DEF ConstructorInitialize, InPhase
<1> QED BY <1>1, <1>2, <1>3, StepKinds

\* A constructor only stores signers it has validated.
LEMMA CreationInvariant == Spec => []CreationInv
<1>1. Init => CreationInv
  BY DEF Init, CreationInv
<1>2. TypeOK /\ DeployInv /\ CreationInv /\ [Next]_vars => CreationInv'
  BY CreationInductive
<1> QED BY <1>1, <1>2, TypeCorrect, DeployInvariant, PTL DEF Spec

\* However old the choice of its policies, an account that comes into being has
\* none that can never be met.
THEOREM CreatedWithUsefulPolicies == Spec => ConstructedPoliciesValid
<1>1. ASSUME TypeOK, CreationInv, [Next]_vars, ~initialized, initialized'
      PROVE  \A k \in Present(signers') : AllUseful(signers'[k].role)
  <2> SUFFICES ASSUME NEW k \in Present(signers') PROVE AllUseful(signers'[k].role)
    OBVIOUS
  <2>1. tx # NoTx /\ tx.phase = "signers" /\ signers' = signers
    BY <1>1, InitializedByConstructor
  <2>2. k \in Present(signers) /\ k \in SignerKeys /\ signers \in SignerMap /\ now \in Nat
    BY <1>1, <2>1, LedgerTypes DEF TypeOK, Present
  <2>3. signers[k] \in Signer /\ PoliciesValid(signers[k].role, now)
    BY <1>1, <2>1, <2>2, StoredSigner DEF CreationInv, Has
  <2> QED BY <2>1, <2>2, <2>3, CheckedIsUseful
<1>2. TypeOK /\ CreationInv /\ [Next]_vars =>
          [~initialized /\ initialized' => \A k \in Present(signers') : AllUseful(signers'[k].role)]_vars
  BY <1>1
<1> QED BY <1>2, TypeCorrect, CreationInvariant, PTL DEF Spec, ConstructedPoliciesValid

-----------------------------------------------------------------------------
(* An account is only left without an Admin by update_signer.              *)

\* LostAdmin, of any log.
Demoted(log, k) ==
    \E i, j \in DOMAIN log :
        /\ log[i].key = k /\ log[j].key = k /\ i < j
        /\ log[i].signer # "revoked" /\ log[i].value.role.kind = "Admin"
        /\ log[j].signer = "updated" /\ log[j].value.role.kind # "Admin"

HasOrLostAdmin(log, map) == Admins(map) # {} \/ \E k \in SignerKeys : Demoted(log, k)

\* A constructor has stored an Admin or has one left to store.
AdminInv ==
    /\ initialized => HasOrLostAdmin(events, signers)
    /\ tx # NoTx /\ tx.saved.initialized => HasOrLostAdmin(tx.saved.events, tx.saved.signers)
    /\ tx # NoTx /\ tx.phase = "signers" => Admins(signers) # {} \/ HasAdmin(tx.args)

\* Nothing published later hides that an Admin was given another role.
LEMMA DemotedForEver ==
    ASSUME NEW log \in Seq(Event), NEW e \in Event, NEW k, Demoted(log, k)
    PROVE  Demoted(Append(log, e), k)
<1> DEFINE more == Append(log, e)
<1>1. DOMAIN log \subseteq DOMAIN more /\ \A i \in DOMAIN log : more[i] = log[i]
  OBVIOUS
<1> HIDE DEF more
<1>2. Demoted(more, k)
  BY <1>1 DEF Demoted
<1> QED BY <1>2 DEF more

\* A key that is an Admin's and is updated to another role was an Admin's in an
\* earlier event.
LEMMA UpdateDemotes ==
    ASSUME NEW log \in Seq(Event), NEW e \in Event, NEW map, e.key \in Admins(map),
           Tells(log, map, e.key), e.signer = "updated", e.value.role.kind # "Admin"
    PROVE  Demoted(Append(log, e), e.key)
<1> DEFINE more == Append(log, e)
           n == Len(log) + 1
<1>1. PICK i \in DOMAIN log :
          log[i].key = e.key /\ log[i].signer # "revoked" /\ log[i].value.role.kind = "Admin"
  BY DEF Tells, Has, Admins, LastOf
<1>2. n \in DOMAIN more /\ more[n] = e /\ i \in DOMAIN more /\ more[i] = log[i] /\ i < n
  OBVIOUS
<1> HIDE DEF more, n
<1>3. Demoted(more, e.key)
  BY <1>1, <1>2 DEF Demoted
<1> QED BY <1>3 DEF more

\* A call that neither updates an Admin nor removes one leaves one if there was.
LEMMA AdminsKept ==
    ASSUME NEW map \in SignerMap, NEW map2 \in SignerMap, NEW key,
           \A k \in SignerKeys \ {key} : map2[k] = map[k], key \notin Admins(map)
    PROVE  Admins(map) \subseteq Admins(map2)
BY DEF Admins, Present

\* An Admin among the signers to store is the first or one of the others.
LEMMA RestHasAdmin ==
    ASSUME NEW args \in Seq(Signer), args # <<>>, HasAdmin(args)
    PROVE  Head(args).role.kind = "Admin" \/ HasAdmin(Tail(args))
<1>1. PICK i \in DOMAIN args : args[i].role.kind = "Admin"
  BY DEF HasAdmin
<1>2. CASE i = 1
  BY <1>1, <1>2
<1>3. CASE i # 1
  <2>1. i - 1 \in DOMAIN Tail(args) /\ Tail(args)[i - 1] = args[i]
    BY <1>3
  <2> QED BY <1>1, <2>1 DEF HasAdmin
<1> QED BY <1>2, <1>3

\* No step leaves an account without an Admin and without that event.
LEMMA AdminInductive ==
    ASSUME TypeOK, DeployInv, LogInv, AdminInv, [Next]_vars
    PROVE  AdminInv'
<1>1. CASE UNCHANGED vars
  BY <1>1 DEF AdminInv, vars, ledger, instance
<1>2. CASE Outside
  BY <1>2 DEF AdminInv, Outside, Current
<1>3. CASE Begun
  <2>1. /\ initialized' = initialized /\ signers' = signers /\ events' = events
        /\ tx'.saved.initialized = initialized /\ tx'.saved.signers = signers
        /\ tx'.saved.events = events
    BY <1>3 DEF Begun, Current
  <2> QED BY <1>3, <2>1 DEF AdminInv, Begun
<1>4. CASE Execute
  <2>t. tx # NoTx /\ tx \in Tx
    BY <1>4, ExecuteInTx
  <2>s. signers \in SignerMap /\ events \in Seq(Event) /\ signers' \in SignerMap
    <3>1. Current' \in LedgerState
      BY <1>4, ExecuteType DEF TypeOK
    <3> QED BY <3>1, LedgerTypes DEF TypeOK, Current, LedgerState
  <2>1. CASE Fail
    BY <2>t, <2>1 DEF AdminInv, Fail
  <2>2. CASE Commit
    BY <2>2 DEF AdminInv, Commit, ledger, instance
  <2>3. CASE ConstructorCheck /\ ~Fail
    <3>1. Kept /\ Moves("constructor", "signers")
      BY <1>4, <2>3, ExecuteTx
    <3>2. /\ ~initialized /\ HasAdmin(tx.args) /\ UNCHANGED <<initialized, signers, events>>
          /\ tx' = [tx EXCEPT !.phase = "signers"]
      BY <2>3 DEF ConstructorCheck
    <3>3. tx'.args = tx.args
      BY <2>t, <3>2 DEF Tx
    <3> QED BY <2>t, <3>1, <3>2, <3>3 DEF AdminInv, Kept
  <2>4. CASE ConstructorAdd /\ ~Fail
    <3> DEFINE s == Head(tx.args)
    <3>1. Kept /\ Moves("signers", "signers")
      BY <1>4, <2>4, ExecuteTx
    <3>2. ~initialized'
      BY <2>t, <2>4, <3>1 DEF DeployInv, Moves, ConstructorAdd
    <3>3. /\ signers' = SetEntry(signers, s.key, s) /\ ~Has(signers, s.key)
          /\ tx' = [tx EXCEPT !.args = Tail(tx.args)]
      BY <2>4 DEF ConstructorAdd, StoreSigner
    <3>4. tx.args \in Seq(Signer) /\ tx.args # <<>> /\ s \in Signer /\ tx'.args = Tail(tx.args)
      BY <2>t, <2>4, <3>3 DEF ConstructorAdd, Tx
    <3>5. HasAdmin(tx.args) => s.role.kind = "Admin" \/ HasAdmin(Tail(tx.args))
      BY <3>4, RestHasAdmin
    <3> HIDE DEF s
    <3>6. s.key \in SignerKeys /\ signers'[s.key] = s /\ s # Missing
          /\ \A k \in SignerKeys \ {s.key} : signers'[k] = signers[k]
      BY <2>s, <3>3, <3>4, SignerKey, MissingAssumption DEF SetEntry, SignerMap
    <3>7. s.role.kind = "Admin" => s.key \in Admins(signers')
      BY <3>6 DEF Admins, Present
    <3>8. Admins(signers) \subseteq Admins(signers')
      BY <2>s, <3>3, <3>6, AdminsKept DEF Has, Admins
    <3> QED BY <2>t, <3>1, <3>2, <3>4, <3>5, <3>7, <3>8 DEF AdminInv, Kept, Moves
  <2>5. CASE ConstructorInitialize /\ ~Fail
    <3>1. Kept /\ Moves("signers", "calls")
      BY <1>4, <2>5, ExecuteTx
    <3>2. tx.args = <<>> /\ UNCHANGED <<signers, events>>
      BY <2>5 DEF ConstructorInitialize
    <3>3. Admins(signers) # {}
      BY <2>t, <3>1, <3>2 DEF AdminInv, Moves, HasAdmin
    <3> QED BY <2>t, <3>1, <3>2, <3>3 DEF AdminInv, Kept, Moves, HasOrLostAdmin
  <2>6. CASE (RequireAuth \/ Upgrade \/ Migrate \/ OtherCall) /\ ~Fail
    <3>1. Kept /\ Moves("calls", "calls")
      BY <1>4, <2>6, ExecuteTx
    <3>2. UNCHANGED <<initialized, signers, events>>
      BY <2>6 DEF RequireAuth, Upgrade, Migrate, OtherCall, ledger, instance
    <3> QED BY <2>t, <3>1, <3>2 DEF AdminInv, Kept, Moves
  <2>7. CASE (AddSigner \/ UpdateSigner \/ RevokeSigner) /\ ~Fail
    <3>1. Kept /\ Moves("calls", "calls")
      BY <1>4, <2>7, ExecuteTx
    <3>2. initialized' = initialized
      BY <2>7 DEF AddSigner, UpdateSigner, RevokeSigner
    <3>3. HasOrLostAdmin(events, signers) => HasOrLostAdmin(events', signers')
      <4>1. PICK e \in Event :
                /\ events' = Append(events, e)
                /\ \A k \in SignerKeys \ {e.key} : signers'[k] = signers[k]
                /\ \/ e.key \notin Admins(signers)
                   \/ e.signer = "updated" /\ signers'[e.key] = e.value
        <5>1. CASE AddSigner
          <6>1. Head(tx.calls).arg \in Signer /\ ~Has(signers, Head(tx.calls).arg.key)
            BY <2>7, <5>1, NextCallType, CallArguments DEF AddSigner, Calling
          <6>2. StoreSigner(Head(tx.calls).arg)
            BY <2>7, <5>1 DEF AddSigner
          <6> QED BY <2>s, <6>1, <6>2, StoredBy DEF Admins, Has
        <5>2. CASE UpdateSigner
          <6>1. Head(tx.calls).arg \in Signer
            BY <5>2, NextCallType, CallArguments DEF UpdateSigner, Calling
          <6>2. ReplaceSigner(Head(tx.calls).arg)
            BY <2>7, <5>2 DEF UpdateSigner, ReplaceSigner
          <6> QED BY <2>s, <6>1, <6>2, ReplacedBy
        <5>3. CASE RevokeSigner
          <6>1. Head(tx.calls).arg \in SignerKeys
            BY <5>3, NextCallType, CallArguments DEF RevokeSigner, Calling
          <6>2. DropSigner(Head(tx.calls).arg) /\ Revocable(Head(tx.calls).arg)
            BY <2>7, <5>3 DEF RevokeSigner, Revocable, DropSigner
          <6> QED BY <2>s, <6>1, <6>2, DroppedBy DEF Revocable, Admins
        <5> QED BY <2>7, <5>1, <5>2, <5>3
      <4>2. ASSUME NEW k \in SignerKeys, Demoted(events, k) PROVE Demoted(events', k)
        BY <2>s, <4>1, <4>2, DemotedForEver
      <4>3. CASE e.key \notin Admins(signers)
        <5>1. Admins(signers) \subseteq Admins(signers')
          BY <2>s, <4>1, <4>3, AdminsKept
        <5> QED BY <4>2, <5>1 DEF HasOrLostAdmin
      <4>4. CASE e.key \in Admins(signers)
        <5>1. e.signer = "updated" /\ signers'[e.key] = e.value /\ e.key \in SignerKeys
              /\ e.value \in Signer /\ e.value # Missing
          BY <4>1, <4>4, MissingAssumption DEF Event
        <5>2. CASE e.value.role.kind = "Admin"
          <6>1. e.key \in Admins(signers')
            BY <5>1, <5>2 DEF Admins, Present
          <6> QED BY <6>1 DEF HasOrLostAdmin
        <5>3. CASE e.value.role.kind # "Admin"
          <6>1. Demoted(events', e.key)
            BY <2>s, <4>1, <4>4, <5>1, <5>3, UpdateDemotes DEF LogInv
          <6> QED BY <5>1, <6>1 DEF HasOrLostAdmin
        <5> QED BY <5>2, <5>3
      <4> QED BY <4>3, <4>4
    <3> QED BY <2>t, <3>1, <3>2, <3>3 DEF AdminInv, Kept, Moves
  <2> QED BY <1>4, <2>1, <2>2, <2>3, <2>4, <2>5, <2>6, <2>7 DEF Execute
<1> QED BY <1>1, <1>2, <1>3, <1>4, StepKinds

\* There is an Admin, or the events tell how the last one was lost.
LEMMA AdminInvariant == Spec => []AdminInv
<1>1. Init => AdminInv
  BY DEF Init, AdminInv
<1>2. TypeOK /\ DeployInv /\ LogInv /\ AdminInv /\ [Next]_vars => AdminInv'
  BY AdminInductive
<1> QED BY <1>1, <1>2, TypeCorrect, DeployInvariant, LogInvariant, PTL DEF Spec

\* revoke_signer never removes an Admin, so whoever finds an account without one
\* finds in its events the update that took the role away.
THEOREM AdminsLostByUpdate == Spec => []NoAdminOnlyByUpdate
<1>1. AdminInv => NoAdminOnlyByUpdate
  BY DEF AdminInv, HasOrLostAdmin, Demoted, NoAdminOnlyByUpdate, LostAdmin, EventsOf
<1> QED BY <1>1, AdminInvariant, PTL
=============================================================================
