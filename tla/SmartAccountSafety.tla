-------------------------- MODULE SmartAccountSafety --------------------------
(***************************************************************************)
(* Theorems about what transactions do to the smart account: who approved  *)
(* what was executed, what can no longer change, and that the account does *)
(* what AccountSpec promises.                                              *)
(***************************************************************************)
EXTENDS SmartAccountProofs, AuthorizationProofs

-----------------------------------------------------------------------------
(* What was executed was authorized.                                       *)

\* An entry's contexts were authorized by the signers of then.
Decided(signerMap, time, n, proofs) ==
    /\ n \in Nonces /\ entries[n] # NoEntry
    /\ CheckAuthOk(signerMap, time, n, proofs, entries[n].calls)

\* The transaction being executed and every one that has been was accepted by
\* __check_auth, on the signers and in the ledger it ran with.
AuthInv ==
    /\ tx # NoTx /\ tx.authenticated =>
           Decided(tx.view, now, tx.nonce, entries[tx.nonce].proofs)
    /\ \A i \in DOMAIN executed :
           Decided(executed[i].signers, executed[i].time, executed[i].nonce, executed[i].proofs)

\* No step makes history hold a transaction __check_auth did not decide on.
LEMMA AuthInductive ==
    ASSUME TypeOK, AuthInv, [Next]_vars
    PROVE  AuthInv'
<1>1. CASE UNCHANGED vars
  BY <1>1 DEF AuthInv, Decided, vars
<1>2. CASE Outside
  BY <1>2 DEF AuthInv, Decided, Outside
<1>3. CASE Begun
  BY <1>3 DEF AuthInv, Decided, Begun
<1>4. CASE Execute
  <2>t. tx # NoTx /\ tx \in Tx
    BY <1>4, ExecuteInTx
  <2>1. CASE Fail
    BY <2>t, <2>1 DEF AuthInv, Decided, Fail
  <2>2. CASE Commit
    <3>1. tx' = NoTx /\ entries' = entries
      BY <2>2 DEF Commit
    <3>2. CASE tx.nonce = NoNonce
      BY <2>2, <3>1, <3>2 DEF AuthInv, Decided, Commit
    <3>3. CASE tx.nonce # NoNonce
      <4> DEFINE e == [nonce |-> tx.nonce, time |-> now, signers |-> tx.view,
                       proofs |-> entries[tx.nonce].proofs, trail |-> tx.trail]
      <4>1. executed' = Append(executed, e) /\ tx.authenticated
        BY <2>2, <3>3 DEF Commit
      <4>2. Decided(e.signers, e.time, e.nonce, e.proofs)
        BY <2>t, <4>1 DEF AuthInv
      <4>3. executed \in Seq(Execution)
        BY DEF TypeOK
      <4>4. \A i \in DOMAIN executed' : executed'[i] = e \/ (i \in DOMAIN executed /\ executed'[i] = executed[i])
        <5> HIDE DEF e
        <5> QED BY <4>1, <4>3
      <4> QED BY <3>1, <4>2, <4>4 DEF AuthInv, Decided
    <3> QED BY <3>2, <3>3
  <2>3. CASE RequireAuth /\ ~Fail
    <3>1. Kept /\ Authenticated
      BY <1>4, <2>3, ExecuteTx
    <3>2. entries[tx.nonce] # NoEntry
      BY <2>t, <3>1, NoNonceAssumption DEF TypeOK, Authenticated
    <3>3. Decided(signers, now, tx.nonce, entries[tx.nonce].proofs)
      BY <3>1, <3>2 DEF Authenticated, EntryAccepted, Decided
    <3> QED BY <3>1, <3>3 DEF AuthInv, Kept, Authenticated, Decided
  <2>4. CASE (ConstructorCheck \/ ConstructorAdd \/ ConstructorInitialize) /\ ~Fail
    <3>1. Kept /\ UNCHANGED <<entries>>
      BY <1>4, <2>4, ExecuteTx DEF Kept
    <3>2. tx'.authenticated = tx.authenticated /\ tx'.view = tx.view
      BY <2>t, <2>4 DEF ConstructorCheck, ConstructorAdd, ConstructorInitialize, Tx
    <3> QED BY <2>t, <3>1, <3>2 DEF AuthInv, Kept, Decided
  <2>5. CASE (AddSigner \/ UpdateSigner \/ RevokeSigner \/ Upgrade \/ Migrate \/ OtherCall) /\ ~Fail
    <3>1. Kept /\ Called
      BY <1>4, <2>5, ExecuteTx
    <3> QED BY <2>t, <3>1 DEF AuthInv, Kept, Called, Decided
  <2> QED BY <1>4, <2>1, <2>2, <2>3, <2>4, <2>5 DEF Execute
<1> QED BY <1>1, <1>2, <1>3, <1>4, StepKinds

\* What history and the current transaction hold was decided by __check_auth.
LEMMA AuthInvariant == Spec => []AuthInv
<1>1. Init => AuthInv
  BY DEF Init, AuthInv
<1>2. TypeOK /\ AuthInv /\ [Next]_vars => AuthInv'
  BY AuthInductive
<1> QED BY <1>1, <1>2, TypeCorrect, PTL DEF Spec

\* Whatever was signed, delivered, rotated, revoked or retried in between: every
\* transaction that reconfigured the account carried a proof by an Admin of the
\* moment it ran, made with the key pair stored for it then and, for an Ed25519
\* key, over that very entry.
THEOREM ChangesApprovedByAdmin == Spec => []ApprovedByAdmin
<1>1. TypeOK /\ AuthInv => ApprovedByAdmin
  <2> SUFFICES ASSUME TypeOK, AuthInv, NEW i \in DOMAIN executed,
                      NEW j \in DOMAIN entries[executed[i].nonce].calls,
                      IsAdminOperation(entries[executed[i].nonce].calls[j])
               PROVE  \E k \in Present(executed[i].proofs) \cap Admins(executed[i].signers) :
                          /\ executed[i].proofs[k].pub = executed[i].signers[k].pub
                          /\ k \in Ed25519Keys => executed[i].proofs[k].payload = executed[i].nonce
    BY DEF ApprovedByAdmin, HasAdminCall
  <2>1. executed[i] \in Execution
    BY DEF TypeOK
  <2>2. CheckAuthOk(executed[i].signers, executed[i].time, executed[i].nonce, executed[i].proofs,
                    entries[executed[i].nonce].calls)
    BY DEF AuthInv, Decided
  <2>3. executed[i].signers \in SignerMap
    BY <2>1 DEF Execution
  <2> QED BY <2>2, <2>3, AdminCallNeedsAdminProof
<1> QED BY <1>1, TypeCorrect, AuthInvariant, PTL

\* Signers confined to time windows do not act outside of them, however the
\* ledger advanced between their signature and the transaction.
THEOREM WindowsRespected == Spec => []NothingExecutedOutsideWindows
<1>1. TypeOK /\ AuthInv => NothingExecutedOutsideWindows
  <2> SUFFICES ASSUME TypeOK, AuthInv, NEW i \in DOMAIN executed
               PROVE  \E k \in Present(executed[i].proofs) :
                          ~OutsideWindow(executed[i].signers[k].role, executed[i].time)
    BY DEF NothingExecutedOutsideWindows
  <2> DEFINE e == executed[i]
  <2>1. e \in Execution
    BY DEF TypeOK
  <2>2. e.nonce \in Nonces /\ entries[e.nonce] \in Entry
    BY DEF AuthInv, Decided, TypeOK
  <2>3. entries[e.nonce].calls \in Seq(Context) /\ entries[e.nonce].calls # <<>>
    BY <2>2, InvocationsAssumption DEF Entry
  <2>4. 1 \in DOMAIN entries[e.nonce].calls
    BY <2>3
  <2>5. CheckAuthOk(e.signers, e.time, e.nonce, e.proofs, entries[e.nonce].calls)
    BY DEF AuthInv, Decided
  <2>6. PICK k \in Present(e.proofs) :
            IsAuthorized(e.signers[k].role, e.time, entries[e.nonce].calls[1])
    BY <2>4, <2>5 DEF CheckAuthOk, ContextAuthorized
  <2>7. e.signers[k] \in Signer
    BY <2>1, <2>5, <2>6, StoredSigner DEF CheckAuthOk, AllKnown, Execution, Present
  <2>8. ~OutsideWindow(e.signers[k].role, e.time)
    <3> SUFFICES ASSUME e.signers[k].role.kind = "Restricted",
                        NEW p \in DOMAIN e.signers[k].role.policies,
                        e.signers[k].role.policies[p].kind = "TimeBased"
                 PROVE  e.time \in e.signers[k].role.policies[p].not_before
                                   .. e.signers[k].role.policies[p].not_after
      BY DEF OutsideWindow
    <3>1. e.signers[k].role.policies \in Seq(SignerPolicy)
      BY <2>7 DEF Signer, SignerRole
    <3>2. e.signers[k].role.policies[p] \in TimeBasedPolicy
      BY <3>1 DEF SignerPolicy, TimeBasedPolicy, ContractDenyListPolicy, ContractAllowListPolicy
    <3>3. TimeBasedAuthorizes(e.signers[k].role.policies[p], e.time)
      BY <2>6 DEF IsAuthorized, AllPoliciesAuthorize, PolicyAuthorizes
    <3>4. e.time \in Nat
      BY <2>1 DEF Execution
    <3> QED BY <3>2, <3>3, <3>4 DEF TimeBasedPolicy, TimeBasedAuthorizes
  <2> QED BY <2>6, <2>8
<1> QED BY <1>1, TypeCorrect, AuthInvariant, PTL

-----------------------------------------------------------------------------
(* A locked account stays locked.                                          *)

\* What is left to call is part of the entry; until it is authenticated, a
\* transaction changes nothing of an account that was initialized before it;
\* after that, only if that account had an Admin.
Left == tx.nonce # NoNonce =>
            \A i \in DOMAIN tx.calls : \E j \in DOMAIN entries[tx.nonce].calls :
                tx.calls[i] = entries[tx.nonce].calls[j]

Guarded ==
    tx.saved.initialized =>
        /\ tx.phase # "signers"
        /\ tx.phase = "constructor" \/ ~tx.authenticated => Current = tx.saved
        /\ tx.authenticated => tx.view = tx.saved.signers
        /\ tx.authenticated /\ Admins(tx.saved.signers) = {} =>
               signers = tx.saved.signers /\ wasm = tx.saved.wasm

LockInv == tx # NoTx => Left /\ Guarded

\* The next call of an authenticated transaction is one its entry asks for.
LEMMA CallOfEntry ==
    ASSUME AuthInv, LockInv, tx # NoTx, tx \in Tx, tx.authenticated, tx.calls # <<>>
    PROVE  \E j \in DOMAIN entries[tx.nonce].calls : Head(tx.calls) = entries[tx.nonce].calls[j]
<1>1. tx.nonce \in Nonces /\ tx.calls \in Seq(Context)
  BY DEF AuthInv, Decided, Tx
<1>2. 1 \in DOMAIN tx.calls /\ Head(tx.calls) = tx.calls[1]
  BY <1>1
<1> QED BY <1>1, <1>2, NoNonceAssumption DEF LockInv, Left

\* A call to the account that is not rejected was authenticated by its entry.
LEMMA AdminCallAuthenticated ==
    ASSUME TypeOK, AuthInv, LockInv, tx # NoTx, tx \in Tx, tx.authenticated, tx.calls # <<>>,
           IsAdminOperation(Head(tx.calls))
    PROVE  Admins(tx.view) # {}
<1>1. CheckAuthOk(tx.view, now, tx.nonce, entries[tx.nonce].proofs, entries[tx.nonce].calls)
  BY DEF AuthInv, Decided
<1>2. PICK j \in DOMAIN entries[tx.nonce].calls : Head(tx.calls) = entries[tx.nonce].calls[j]
  BY CallOfEntry
<1>3. tx.view \in SignerMap
  BY DEF Tx
<1> QED BY <1>1, <1>2, <1>3, AdminCallNeedsAdminProof

\* The calls left of an authenticated transaction are calls its signers may make.
LEMMA LockInductive ==
    ASSUME TypeOK, AuthInv, LockInv, [Next]_vars
    PROVE  LockInv'
<1>1. CASE UNCHANGED vars
  BY <1>1 DEF LockInv, Left, Guarded, Current, vars, ledger, instance
<1>2. CASE Outside
  BY <1>2 DEF LockInv, Outside
<1>3. CASE Begun
  BY <1>3 DEF LockInv, Left, Guarded, Begun
<1>4. CASE Execute
  <2>t. tx # NoTx /\ tx \in Tx /\ Left /\ Guarded
    BY <1>4, ExecuteInTx DEF LockInv
  <2>1. CASE Fail
    BY <2>1 DEF LockInv, Fail
  <2>2. CASE Commit
    BY <2>2 DEF LockInv, Commit
  <2>3. CASE ConstructorCheck /\ ~Fail
    <3>1. Kept /\ Moves("constructor", "signers") /\ Construct /\ ~initialized
      BY <1>4, <2>3, ExecuteTx DEF ConstructorCheck
    <3>2. Left'
      BY <2>t, <3>1 DEF Left, Kept, Construct
    <3>3. ~tx.saved.initialized
      BY <2>t, <3>1 DEF Guarded, Moves, Current
    <3> QED BY <3>1, <3>2, <3>3 DEF LockInv, Guarded, Kept
  <2>4. CASE (ConstructorAdd \/ ConstructorInitialize) /\ ~Fail
    <3>1. Kept /\ Construct /\ tx.phase = "signers"
      BY <1>4, <2>4, ExecuteTx DEF Moves
    <3>2. Left'
      BY <2>t, <3>1 DEF Left, Kept, Construct
    <3> QED BY <2>t, <3>1, <3>2 DEF LockInv, Guarded, Kept
  <2>5. CASE RequireAuth /\ ~Fail
    <3>1. Kept /\ Moves("calls", "calls") /\ Authenticated /\ ~tx.authenticated
      BY <1>4, <2>5, ExecuteTx DEF RequireAuth
    <3>2. Left'
      BY <2>t, <3>1 DEF Left, Kept, Authenticated
    <3>3. UNCHANGED <<signers, wasm>>
      BY <2>5 DEF RequireAuth, instance
    <3>4. tx.saved.initialized => signers = tx.saved.signers /\ wasm = tx.saved.wasm
      BY <2>t, <3>1 DEF Guarded, Current
    <3> QED BY <3>1, <3>2, <3>3, <3>4 DEF LockInv, Guarded, Kept, Moves, Authenticated
  <2>6. CASE (AddSigner \/ UpdateSigner \/ RevokeSigner \/ Upgrade \/ Migrate \/ OtherCall) /\ ~Fail
    <3>1. Kept /\ Moves("calls", "calls") /\ Called
      BY <1>4, <2>6, ExecuteTx
    <3>2. Left'
      <4>1. tx.calls \in Seq(Context) /\ tx.calls # <<>>
        BY <2>t, <3>1 DEF Tx, Called
      <4>2. \A i \in DOMAIN Tail(tx.calls) : i + 1 \in DOMAIN tx.calls /\ Tail(tx.calls)[i] = tx.calls[i + 1]
        BY <4>1
      <4> QED BY <2>t, <3>1, <4>2 DEF Left, Kept, Called
    <3>3. CASE ~tx.saved.initialized
      BY <3>1, <3>2, <3>3 DEF LockInv, Guarded, Kept
    <3>4. CASE tx.saved.initialized /\ ~tx.authenticated
      <4>1. initialized
        BY <2>t, <3>4 DEF Guarded, Current
      <4> QED BY <2>6, <3>4, <4>1
          DEF AddSigner, UpdateSigner, RevokeSigner, Upgrade, Migrate, OtherCall, AuthIfInitialized
    <3>5. CASE tx.saved.initialized /\ tx.authenticated
      <4>1. Admins(tx.saved.signers) = {} => UNCHANGED <<signers, wasm>>
        <5>1. CASE OtherCall
          BY <2>6, <5>1 DEF OtherCall, ledger, instance
        <5>2. CASE AddSigner \/ UpdateSigner \/ RevokeSigner \/ Upgrade \/ Migrate
          <6>1. IsAdminOperation(Head(tx.calls))
            BY <5>2 DEF AddSigner, UpdateSigner, RevokeSigner, Upgrade, Migrate, Calling
          <6>2. Admins(tx.view) # {}
            BY <2>t, <3>1, <3>5, <6>1, AdminCallAuthenticated DEF Called
          <6> QED BY <2>t, <3>5, <6>2 DEF Guarded
        <5> QED BY <2>6, <5>1, <5>2
      <4> QED BY <2>t, <3>1, <3>2, <3>5, <4>1 DEF LockInv, Guarded, Kept, Moves, Called
    <3> QED BY <3>3, <3>4, <3>5
  <2> QED BY <1>4, <2>1, <2>2, <2>3, <2>4, <2>5, <2>6 DEF Execute
<1> QED BY <1>1, <1>2, <1>3, <1>4, StepKinds

\* No step changes a locked account once it has ended.
LEMMA LockStep ==
    ASSUME TypeOK, AuthInv, LockInv, [Next]_vars, Locked
    PROVE  Committed'.signers = Committed.signers /\ Committed'.wasm = Committed.wasm
<1>1. CASE UNCHANGED vars
  BY <1>1 DEF Committed, Current, vars, ledger, instance
<1>2. CASE Outside
  BY <1>2 DEF Committed, Outside
<1>3. CASE Begun
  BY <1>3 DEF Committed, Begun
<1>4. CASE Execute
  <2>t. tx # NoTx /\ tx \in Tx /\ Guarded
    BY <1>4, ExecuteInTx DEF LockInv
  <2>1. CASE Fail
    BY <2>t, <2>1, FailRestores DEF Committed
  <2>2. CASE Commit
    <3>1. tx' = NoTx /\ Current' = Current /\ tx.phase = "calls"
      BY <2>2 DEF Commit, InPhase, ledger, instance, Current
    <3>2. tx.saved.initialized /\ Admins(tx.saved.signers) = {}
      BY <2>t DEF Locked, Committed
    <3>3. signers = tx.saved.signers /\ wasm = tx.saved.wasm
      BY <2>t, <3>1, <3>2 DEF Guarded, Current
    <3> QED BY <2>t, <3>1, <3>3 DEF Committed, Current
  <2>3. CASE ~Fail /\ ~Commit
    BY <1>4, <2>t, <2>3, ExecuteTx DEF Execute, Kept, Committed
  <2> QED BY <2>1, <2>2, <2>3
<1> QED BY <1>1, <1>2, <1>3, <1>4, StepKinds

\* A transaction is guarded by what its entry asks for and who signed it.
LEMMA LockInvariant == Spec => []LockInv
<1>1. Init => LockInv
  BY DEF Init, LockInv
<1>2. TypeOK /\ AuthInv /\ LockInv /\ [Next]_vars => LockInv'
  BY LockInductive
<1> QED BY <1>1, <1>2, TypeCorrect, AuthInvariant, PTL DEF Spec

\* An account whose last Admin has been given another role is never changed
\* again: not by the signers it has left, not by entries signed before.
THEOREM LockedForEver == Spec => LockedStaysLocked
<1>1. TypeOK /\ AuthInv /\ LockInv /\ [Next]_vars =>
          [Locked => /\ Committed'.signers = Committed.signers
                     /\ Committed'.wasm = Committed.wasm]_vars
  BY LockStep
<1> QED BY <1>1, TypeCorrect, AuthInvariant, LockInvariant, PTL DEF Spec, LockedStaysLocked

-----------------------------------------------------------------------------
(* The account keeps its promise when proofs are not delivered with        *)
(* another entry, or when all its keys are Ed25519 keys, whose proofs are  *)
(* over the payload of their entry.                                        *)

Bound == ~Misrouted \/ Secp256r1Keys = {}

\* Unless proofs are misrouted, a proof is over the entry that holds it.
ProofInv ==
    ~Misrouted =>
        \A n \in Nonces : entries[n] # NoEntry =>
            \A k \in Present(entries[n].proofs) : entries[n].proofs[k].payload = n

\* What is signed are the proofs the entries hold.
LEMMA SignedProofs ==
    /\ \A x : x \in Signed <=>
           \E n \in Nonces : /\ entries[n] # NoEntry
                             /\ \E k \in Present(entries[n].proofs) :
                                    x = <<entries[n].proofs[k].pub, entries[n].proofs[k].payload>>
    /\ \A x : x \in Signed' <=>
           \E n \in Nonces : /\ entries'[n] # NoEntry
                             /\ \E k \in Present(entries'[n].proofs) :
                                    x = <<entries'[n].proofs[k].pub, entries'[n].proofs[k].payload>>
BY DEF Signed

\* A proof that is attached is the only thing that is signed anew.
LEMMA AttachSigns ==
    ASSUME TypeOK, NEW n \in Nonces, NEW k \in SignerKeys, NEW proof \in Proof(Nonces),
           proof # Missing, AttachProof(n, k, proof)
    PROVE  /\ Signed' = Signed \cup {<<proof.pub, proof.payload>>}
           /\ ProofInv /\ (~Misrouted => proof.payload = n) => ProofInv'
<1> DEFINE old == entries[n].proofs
           new == SetEntry(old, k, proof)
<1>1. entries[n] \in Entry /\ entries[n] # NoEntry /\ k \notin Present(old)
      /\ entries' = [entries EXCEPT ![n] = [entries[n] EXCEPT !.proofs = new]]
  BY DEF TypeOK, AttachProof
<1>2. old \in ProofMap(Nonces) /\ new \in ProofMap(Nonces)
  BY <1>1 DEF Entry, ProofMap, SetEntry
<1>3. /\ entries'[n].proofs = new /\ entries'[n] # NoEntry
      /\ \A m \in Nonces \ {n} : entries'[m] = entries[m]
  <2>1. [entries[n] EXCEPT !.proofs = new] \in Entry /\ [entries[n] EXCEPT !.proofs = new].proofs = new
    BY <1>1, <1>2 DEF Entry
  <2> QED BY <1>1, <2>1, NoEntryAssumption DEF TypeOK
<1>4. Present(new) = Present(old) \cup {k} /\ new[k] = proof /\ \A j \in Present(old) : new[j] = old[j]
  BY <1>1, <1>2 DEF Present, SetEntry, ProofMap
<1> HIDE DEF new
<1>5. \A x : x \in Signed' <=> x \in Signed \cup {<<proof.pub, proof.payload>>}
  <2>1. ASSUME NEW x, x \in Signed' PROVE x \in Signed \cup {<<proof.pub, proof.payload>>}
    <3>1. PICK m \in Nonces : /\ entries'[m] # NoEntry
                              /\ \E j \in Present(entries'[m].proofs) :
                                     x = <<entries'[m].proofs[j].pub, entries'[m].proofs[j].payload>>
      BY <2>1, SignedProofs
    <3>2. CASE m = n
      BY <1>1, <1>3, <1>4, <3>1, <3>2, SignedProofs
    <3>3. CASE m # n
      BY <1>3, <3>1, <3>3, SignedProofs
    <3> QED BY <3>2, <3>3
  <2>2. ASSUME NEW x, x \in Signed PROVE x \in Signed'
    <3>1. PICK m \in Nonces : /\ entries[m] # NoEntry
                              /\ \E j \in Present(entries[m].proofs) :
                                     x = <<entries[m].proofs[j].pub, entries[m].proofs[j].payload>>
      BY <2>2, SignedProofs
    <3>2. CASE m = n
      BY <1>1, <1>3, <1>4, <3>1, <3>2, SignedProofs
    <3>3. CASE m # n
      BY <1>3, <3>1, <3>3, SignedProofs
    <3> QED BY <3>2, <3>3
  <2>3. <<proof.pub, proof.payload>> \in Signed'
    BY <1>3, <1>4, SignedProofs
  <2> QED BY <2>1, <2>2, <2>3
<1>6. ASSUME ProofInv, ~Misrouted => proof.payload = n PROVE ProofInv'
  <2> SUFFICES ASSUME ~Misrouted, NEW m \in Nonces, entries'[m] # NoEntry,
                      NEW j \in Present(entries'[m].proofs)
               PROVE  entries'[m].proofs[j].payload = m
    BY DEF ProofInv
  <2>1. CASE m = n
    BY <1>1, <1>3, <1>4, <1>6, <2>1 DEF ProofInv
  <2>2. CASE m # n
    BY <1>3, <1>6, <2>2 DEF ProofInv
  <2> QED BY <2>1, <2>2
<1> QED BY <1>5, <1>6

\* Outside of transactions nothing happens but that somebody signs an entry.
LEMMA OutsideSigns ==
    ASSUME TypeOK, ProofInv, [Next]_vars, ~Execute, ~Begun
    PROVE  /\ ProofInv'
           /\ \/ Signed' = Signed
              \/ \E pub \in Ed25519Keys \cup PublicKeys, n \in Nonces :
                     Signed' = Signed \cup {<<pub, n>>}
<1>1. CASE UNCHANGED entries
  BY <1>1 DEF ProofInv, Signed
<1>2. ASSUME NEW n \in Nonces, NEW calls \in Invocations, PrepareEntry(n, calls)
      PROVE  ProofInv' /\ Signed' = Signed
  <2> DEFINE e == [calls |-> calls, expires |-> now + EntryLifetime, proofs |-> Empty]
  <2>1. /\ entries[n] = NoEntry /\ entries'[n] = e /\ Present(e.proofs) = {}
        /\ \A m \in Nonces \ {n} : entries'[m] = entries[m]
    BY <1>2, EmptyMap DEF PrepareEntry, TypeOK
  <2> HIDE DEF e
  <2>2. \A x : x \in Signed' <=> x \in Signed
    <3>1. \A m \in Nonces : \A k \in Present(entries'[m].proofs) : entries'[m] # NoEntry =>
              entries[m] # NoEntry /\ entries'[m] = entries[m]
      BY <2>1
    <3>2. \A m \in Nonces : entries[m] # NoEntry => entries'[m] = entries[m]
      BY <2>1
    <3>3. ASSUME NEW x, x \in Signed' PROVE x \in Signed
      BY <3>1, <3>3, SignedProofs
    <3>4. ASSUME NEW x, x \in Signed PROVE x \in Signed'
      BY <3>2, <3>4, SignedProofs
    <3> QED BY <3>3, <3>4
  <2>3. ProofInv'
    BY <2>1 DEF ProofInv
  <2> QED BY <2>2, <2>3
<1>3. ASSUME NEW n \in Nonces, NEW k \in SignerKeys, NEW pub \in Credentials(k),
             SignEntry(n, k, pub)
      PROVE  ProofInv' /\ pub \in Ed25519Keys \cup PublicKeys /\ Signed' = Signed \cup {<<pub, n>>}
  <2> DEFINE proof == [scheme |-> Scheme(k), pub |-> pub, payload |-> n]
  <2>1. proof \in Proof(Nonces) /\ proof.payload = n /\ proof.pub = pub
    BY DEF Proof, Scheme, Schemes, Credentials
  <2>2. AttachProof(n, k, proof)
    BY <1>3 DEF SignEntry
  <2> HIDE DEF proof
  <2> QED BY <2>1, <2>2, NoProofAssumption, AttachSigns DEF Credentials
<1>4. ASSUME NEW n \in Nonces, NEW m \in Nonces, NEW k \in SignerKeys, MisrouteProof(n, m, k)
      PROVE  ProofInv' /\ Signed' = Signed
  <2> DEFINE proof == entries[m].proofs[k]
  <2>1. proof \in Proof(Nonces) /\ proof # Missing /\ AttachProof(n, k, proof) /\ Misrouted
    BY <1>4 DEF TypeOK, MisrouteProof, Entry, ProofMap, Present
  <2>2. <<proof.pub, proof.payload>> \in Signed
    BY <1>4, SignedProofs DEF MisrouteProof
  <2> HIDE DEF proof
  <2> QED BY <2>1, <2>2, AttachSigns
<1>5. ~Submitted
  BY TransactionsBegin
<1> QED BY <1>1, <1>2, <1>3, <1>4, <1>5 DEF Next, Submitted, Tick, vars

\* What an account may be created with.
Constructed(map) == Admins(map) # {} /\ \A k \in Present(map) : map[k] \in Offered

\* The signers and the code a transaction found, or has created the account with.
Found(map, code) ==
    IF tx.saved.wasm = NoWasm THEN code = InitialWasm /\ Constructed(map)
    ELSE code = tx.saved.wasm /\ map = tx.saved.signers

\* Until it is authenticated, a transaction changes nothing but that it creates
\* the account; after that, only if its entry asks for a call to the account.
Constructing ==
    /\ ~tx.authenticated
    /\ \A i \in DOMAIN tx.args : tx.args[i] \in Offered
    /\ tx.phase = "signers" =>
           /\ tx.saved.wasm = NoWasm /\ wasm = InitialWasm /\ consumed = tx.saved.consumed
           /\ \A k \in Present(signers) : signers[k] \in Offered

Unauthenticated ==
    /\ consumed = tx.saved.consumed
    /\ IF initialized THEN Found(signers, wasm) ELSE tx.saved.wasm = NoWasm

Approved ==
    /\ tx.phase = "calls" /\ initialized
    /\ tx.nonce \in Nonces \ tx.saved.consumed /\ consumed = tx.saved.consumed \cup {tx.nonce}
    /\ \E code \in Wasms :
          /\ Found(tx.view, code)
          /\ (signers = tx.view /\ wasm = code) \/ HasAdminCall(entries[tx.nonce].calls)

RunInv ==
    tx # NoTx =>
        /\ tx.phase \in {"constructor", "signers"} => Constructing
        /\ tx.phase = "calls" /\ ~tx.authenticated => Unauthenticated
        /\ tx.authenticated => Approved

\* No step of a transaction does more than was approved.
LEMMA RunInductive ==
    ASSUME TypeOK, DeployInv, AuthInv, LockInv, AdminInv, RunInv, [Next]_vars
    PROVE  RunInv'
<1> USE DEF RunInv
<1>1. CASE UNCHANGED vars
  BY <1>1 DEF Constructing, Unauthenticated, Approved, Found, vars, ledger, instance
<1>2. CASE Outside
  BY <1>2 DEF Outside
<1>3. CASE Begun
  <2>1. tx'.saved = Current /\ Current' = Current /\ ~tx'.authenticated
        /\ tx'.phase \in {"constructor", "calls"} /\ tx = NoTx
    BY <1>3 DEF Begun
  <2>2. tx'.phase = "constructor" => Constructing'
    BY <1>3, <2>1 DEF Begun, Constructing, Offered
  <2>3. Unauthenticated'
    <3>1. wasm' = wasm /\ signers' = signers /\ initialized' = initialized /\ consumed' = consumed
          /\ tx'.saved.wasm = wasm /\ tx'.saved.signers = signers /\ tx'.saved.consumed = consumed
      BY <2>1 DEF Current
    <3>2. WholeAccount(Current)
      BY <2>1 DEF DeployInv
    <3> QED BY <3>1, <3>2 DEF Unauthenticated, Found, WholeAccount, Current
  <2> QED BY <2>1, <2>2, <2>3
<1>4. CASE Execute
  <2>t. tx # NoTx /\ tx \in Tx
    BY <1>4, ExecuteInTx
  <2>1. CASE Fail \/ Commit
    BY <2>1 DEF Fail, Commit
  <2>2. CASE ConstructorCheck /\ ~Fail
    <3>1. Kept /\ Moves("constructor", "signers") /\ Construct
      BY <1>4, <2>2, ExecuteTx
    <3>2. /\ ~initialized /\ wasm = NoWasm /\ wasm' = InitialWasm /\ UNCHANGED <<signers, consumed>>
          /\ tx' = [tx EXCEPT !.phase = "signers"]
      BY <2>2 DEF ConstructorCheck
    <3>3. Current = tx.saved /\ signers = Empty
      BY <2>t, <3>1, <3>2 DEF DeployInv, Moves, WholeAccount, Current
    <3>4. tx.saved.wasm = NoWasm /\ tx.saved.consumed = consumed
      BY <3>2, <3>3 DEF Current
    <3>5. tx'.args = tx.args
      BY <2>t, <3>2 DEF Tx
    <3>6. Constructing'
      BY <2>t, <3>1, <3>2, <3>3, <3>4, <3>5, EmptyMap DEF Constructing, Kept, Moves, Construct
    <3> QED BY <3>1, <3>6 DEF Moves, Constructing
  <2>3. CASE ConstructorAdd /\ ~Fail
    <3> DEFINE s == Head(tx.args)
    <3>1. Kept /\ Moves("signers", "signers") /\ Construct
      BY <1>4, <2>3, ExecuteTx
    <3>2. /\ signers' = SetEntry(signers, s.key, s) /\ UNCHANGED <<wasm, consumed>>
          /\ tx' = [tx EXCEPT !.args = Tail(tx.args)]
      BY <2>3 DEF ConstructorAdd, StoreSigner
    <3>3. tx.args \in Seq(Signer) /\ tx.args # <<>> /\ tx'.args = Tail(tx.args)
      BY <2>t, <2>3, <3>2 DEF ConstructorAdd, Tx
    <3>4. /\ \A i \in DOMAIN tx'.args : i + 1 \in DOMAIN tx.args /\ tx'.args[i] = tx.args[i + 1]
          /\ 1 \in DOMAIN tx.args /\ s = tx.args[1] /\ s \in Signer
      BY <3>3
    <3>5. Constructing /\ s \in Offered
      BY <2>t, <3>1, <3>4 DEF Moves, Constructing
    <3> HIDE DEF s
    <3>6. \A k \in Present(signers') : signers'[k] \in Offered
      <4>1. signers \in SignerMap
        BY LedgerTypes DEF TypeOK
      <4>2. \A k \in Present(signers') : k = s.key \/ (k \in Present(signers) /\ signers'[k] = signers[k])
        BY <3>2, <4>1 DEF SetEntry, SignerMap, Present
      <4>3. signers'[s.key] = s
        BY <3>2, <3>4, <4>1, SignerKey DEF SetEntry, SignerMap
      <4> QED BY <3>1, <3>5, <4>2, <4>3 DEF Constructing, Moves
    <3>7. Constructing'
      BY <3>1, <3>2, <3>4, <3>5, <3>6 DEF Constructing, Kept, Moves, Construct
    <3> QED BY <3>1, <3>7 DEF Moves, Constructing
  <2>4. CASE ConstructorInitialize /\ ~Fail
    <3>1. Kept /\ Moves("signers", "calls") /\ Construct
      BY <1>4, <2>4, ExecuteTx
    <3>2. tx.args = <<>> /\ UNCHANGED <<wasm, signers, consumed>>
      BY <2>4 DEF ConstructorInitialize
    <3>3. Admins(signers) # {}
      BY <2>t, <3>1, <3>2 DEF AdminInv, Moves, HasAdmin
    <3>4. Constructing
      BY <2>t, <3>1 DEF Moves
    <3>5. Unauthenticated'
      BY <3>1, <3>2, <3>3, <3>4 DEF Unauthenticated, Constructing, Found, Constructed, Kept, Moves
    <3> QED BY <3>1, <3>4, <3>5 DEF Moves, Construct, Constructing
  <2>5. CASE RequireAuth /\ ~Fail
    <3>1. Kept /\ Moves("calls", "calls") /\ Authenticated
      BY <1>4, <2>5, ExecuteTx
    <3>2. ~tx.authenticated /\ consumed' = consumed \cup {tx.nonce} /\ UNCHANGED <<wasm, signers, initialized>>
      BY <2>5 DEF RequireAuth, instance
    <3>3. wasm \in Wasms /\ initialized /\ tx.nonce \notin consumed
      <4>1. WholeAccount(Current) /\ wasm # NoWasm /\ tx.nonce \notin consumed
        BY <2>t, <3>1 DEF DeployInv, Moves, Authenticated, EntryAccepted
      <4> QED BY <4>1, LedgerTypes DEF WholeAccount, Current, TypeOK
    <3>4. Unauthenticated
      BY <2>t, <3>1, <3>2 DEF Moves
    <3>5. Found(tx.view, wasm)'
      BY <3>1, <3>2, <3>3, <3>4 DEF Unauthenticated, Found, Kept, Authenticated
    <3>6. Approved'
      BY <3>1, <3>2, <3>3, <3>4, <3>5 DEF Approved, Unauthenticated, Kept, Moves, Authenticated
    <3> QED BY <3>1, <3>6 DEF Moves, Authenticated
  <2>6. CASE (AddSigner \/ UpdateSigner \/ RevokeSigner \/ Upgrade \/ Migrate \/ OtherCall) /\ ~Fail
    <3>1. Kept /\ Moves("calls", "calls") /\ Called
      BY <1>4, <2>6, ExecuteTx
    <3>2. initialized' = initialized /\ consumed' = consumed
      BY <2>6 DEF AddSigner, UpdateSigner, RevokeSigner, Upgrade, Migrate, OtherCall, ledger, instance
    <3>3. tx.authenticated
      <4>1. WholeAccount(Current)
        BY <2>t, <3>1 DEF DeployInv, Moves
      <4>2. wasm \in Migratable => wasm # NoWasm
        BY MigratableAssumption, WasmsAssumption
      <4> QED BY <2>6, <4>1, <4>2
          DEF AddSigner, UpdateSigner, RevokeSigner, Upgrade, Migrate, OtherCall, AuthIfInitialized,
              WholeAccount, Current
    <3>4. Approved
      BY <2>t, <3>3
    <3>5. (signers' = signers /\ wasm' = wasm) \/ HasAdminCall(entries[tx.nonce].calls)
      <4>1. CASE OtherCall
        BY <2>6, <4>1 DEF OtherCall, ledger, instance
      <4>2. CASE AddSigner \/ UpdateSigner \/ RevokeSigner \/ Upgrade \/ Migrate
        <5>1. IsAdminOperation(Head(tx.calls))
          BY <4>2 DEF AddSigner, UpdateSigner, RevokeSigner, Upgrade, Migrate, Calling
        <5> QED BY <2>t, <3>1, <3>3, <5>1, CallOfEntry DEF Called, HasAdminCall
      <4> QED BY <2>6, <4>1, <4>2
    <3>6. PICK code \in Wasms :
              /\ Found(tx.view, code)
              /\ (signers = tx.view /\ wasm = code) \/ HasAdminCall(entries[tx.nonce].calls)
      BY <3>4 DEF Approved
    <3>7. Found(tx.view, code)'
      BY <3>1, <3>6 DEF Found, Kept, Called
    <3>8. Approved'
      BY <3>1, <3>2, <3>4, <3>5, <3>6, <3>7 DEF Approved, Kept, Moves, Called
    <3> QED BY <3>1, <3>3, <3>8 DEF Moves, Called
  <2> QED BY <1>4, <2>1, <2>2, <2>3, <2>4, <2>5, <2>6 DEF Execute
<1> QED BY <1>1, <1>2, <1>3, <1>4, StepKinds

\* A transaction only carries out what was approved by the account it found, or
\* by the one it created.
LEMMA RunInvariant == Spec => []RunInv
<1>1. Init => RunInv
  BY DEF Init, RunInv
<1>2. TypeOK /\ DeployInv /\ AuthInv /\ LockInv /\ AdminInv /\ RunInv /\ [Next]_vars => RunInv'
  BY RunInductive
<1> QED BY <1>1, <1>2, TypeCorrect, DeployInvariant, AuthInvariant, LockInvariant, AdminInvariant,
           PTL DEF Spec

\* The signers of an account, without their keys.
SetOf(map) == {map[k] : k \in Present(map)}

\* The committed configuration is a configuration.
LEMMA ConfigIs ==
    ASSUME NEW code \in Wasms, NEW map \in SignerMap
    PROVE  [code |-> code, signers |-> SetOf(map)] # NoWasm
<1>1. SetOf(map) \subseteq Signer
  BY StoredSigner DEF SetOf, Has, Present
<1>2. [code |-> code, signers |-> SetOf(map)] \in Configuration
  BY <1>1 DEF Configuration
<1> QED BY <1>2, NoConfigAssumption

\* The Admins of an account are the Admins of AccountSpec.
LEMMA AdminsAre ==
    ASSUME NEW map \in SignerMap
    PROVE  Abstract!AdminsOf(SetOf(map)) = {map[k] : k \in Admins(map)}
BY DEF Abstract!AdminsOf, SetOf, Admins

\* What __check_auth accepted was signed for this entry by one of the signers,
\* and by an Admin if it asks for a call to the account.
LEMMA AcceptedIsSigned ==
    ASSUME TypeOK, ProofInv, Bound, NEW n \in Nonces, NEW map \in SignerMap, NEW time,
           Decided(map, time, n, entries[n].proofs)
    PROVE  /\ Abstract!SignedBy(SetOf(map), n)
           /\ HasAdminCall(entries[n].calls) => Abstract!SignedBy(Abstract!AdminsOf(SetOf(map)), n)
<1> DEFINE proofs == entries[n].proofs
<1>1. entries[n] # NoEntry /\ CheckAuthOk(map, time, n, proofs, entries[n].calls)
  BY DEF Decided
<1>2. ASSUME NEW k \in Present(proofs)
      PROVE  k \in Present(map) /\ <<map[k].pub, n>> \in Signed
  <2>1. k \in Present(map) /\ k \in SignerKeys /\ Verify(map[k], n, proofs[k]) = "Ok"
    BY <1>1, <1>2 DEF CheckAuthOk, AllKnown, AllVerify, Has, Present
  <2>2. map[k] \in Signer /\ map[k].key = k
    BY <2>1, StoredSigner DEF Has
  <2>3. proofs[k].pub = map[k].pub /\ (k \in Ed25519Keys => proofs[k].payload = n)
    BY <2>1, <2>2, VerifyMeans
  <2>4. proofs[k].payload = n
    <3>1. CASE ~Misrouted
      BY <1>1, <1>2, <3>1 DEF ProofInv
    <3>2. CASE Secp256r1Keys = {}
      BY <2>1, <2>3, <3>2 DEF SignerKeys
    <3> QED BY <3>1, <3>2 DEF Bound
  <2>5. <<proofs[k].pub, proofs[k].payload>> \in Signed
    BY <1>1, <1>2, SignedProofs
  <2> QED BY <2>1, <2>3, <2>4, <2>5
<1>3. Abstract!SignedBy(SetOf(map), n)
  <2>1. PICK k \in Present(proofs) : TRUE
    BY <1>1 DEF CheckAuthOk
  <2> QED BY <1>2, <2>1 DEF Abstract!SignedBy, SetOf
<1>4. ASSUME HasAdminCall(entries[n].calls)
      PROVE  Abstract!SignedBy(Abstract!AdminsOf(SetOf(map)), n)
  <2>1. PICK k \in Present(proofs) : k \in Admins(map)
    BY <1>1, <1>4, AdminCallNeedsAdminProof DEF HasAdminCall
  <2> QED BY <1>2, <2>1, AdminsAre DEF Abstract!SignedBy
<1> QED BY <1>3, <1>4

\* A transaction that ends creates the account, acts for it, changes it, or has
\* done nothing to it.
LEMMA CommitKeepsPromise ==
    ASSUME TypeOK, DeployInv, AuthInv, ProofInv, Bound, RunInv, Commit
    PROVE  Abstract!SpecNext \/ UNCHANGED Abstract!specVars
<1>t. tx # NoTx /\ tx \in Tx /\ tx.phase = "calls" /\ tx' = NoTx /\ entries' = entries
      /\ Current' = Current
  BY DEF Commit, InPhase, TypeOK, ledger, instance, Current
<1>1. Signed' = Signed
  BY <1>t DEF Signed
<1>2. Committed = tx.saved /\ Committed' = Current
  BY <1>t DEF Committed
<1>3. /\ Config = IF tx.saved.wasm = NoWasm THEN NoWasm
                  ELSE [code |-> tx.saved.wasm, signers |-> SetOf(tx.saved.signers)]
      /\ Config' = IF wasm = NoWasm THEN NoWasm ELSE [code |-> wasm, signers |-> SetOf(signers)]
  BY <1>2 DEF Config, SetOf, Current
<1>4. Committed.consumed = tx.saved.consumed /\ Committed'.consumed = consumed
  BY <1>2 DEF Current
<1>5. /\ WholeAccount(Current)
      /\ wasm \in Wasms \cup {NoWasm} /\ signers \in SignerMap
      /\ tx.saved.wasm \in Wasms \cup {NoWasm} /\ tx.saved.signers \in SignerMap /\ tx.view \in SignerMap
  BY <1>t, LedgerTypes DEF DeployInv, TypeOK, Tx, LedgerState
<1>6. ASSUME NEW map \in SignerMap, Constructed(map)
      PROVE  SetOf(map) \in SUBSET Offered /\ Abstract!AdminsOf(SetOf(map)) # {}
  <2>1. SetOf(map) \in SUBSET Offered
    BY <1>6 DEF Constructed, SetOf
  <2>2. {map[k] : k \in Admins(map)} # {}
    BY <1>6 DEF Constructed
  <2> QED BY <2>1, <2>2, AdminsAre
<1>7. CASE ~tx.authenticated
  <2>1. Unauthenticated
    BY <1>t, <1>7 DEF RunInv
  <2>2. CASE tx.saved.wasm = NoWasm /\ initialized
    <3>1. wasm = InitialWasm /\ Constructed(signers)
      BY <2>1, <2>2 DEF Unauthenticated, Found
    <3>2. Config = NoWasm /\ Config' = [code |-> InitialWasm, signers |-> SetOf(signers)]
      BY <1>3, <2>2, <3>1, WasmsAssumption
    <3>3. Abstract!Create
      BY <1>1, <1>4, <1>5, <1>6, <2>1, <3>1, <3>2 DEF Abstract!Create, Unauthenticated
    <3> QED BY <3>3 DEF Abstract!SpecNext
  <2>3. CASE ~(tx.saved.wasm = NoWasm /\ initialized)
    <3>1. Config' = Config
      BY <1>3, <1>5, <2>1, <2>3 DEF Unauthenticated, Found, WholeAccount, Current
    <3> QED BY <1>1, <1>4, <2>1, <3>1 DEF Abstract!specVars, Unauthenticated
  <2> QED BY <2>2, <2>3
<1>8. CASE tx.authenticated
  <2> DEFINE n == tx.nonce
  <2>1. n \in Nonces /\ n \notin tx.saved.consumed /\ consumed = tx.saved.consumed \cup {n} /\ initialized
    BY <1>t, <1>8 DEF RunInv, Approved
  <2>2. PICK code \in Wasms : /\ Found(tx.view, code)
                              /\ (signers = tx.view /\ wasm = code) \/ HasAdminCall(entries[n].calls)
    BY <1>t, <1>8 DEF RunInv, Approved
  <2>3. Abstract!Use(n)
    BY <1>1, <1>4, <2>1 DEF Abstract!Use
  <2>4. wasm \in Wasms /\ Config' = [code |-> wasm, signers |-> SetOf(signers)] /\ Config' # NoWasm
    <3>1. wasm \in Wasms /\ wasm # NoWasm
      BY <1>5, <2>1 DEF WholeAccount, Current
    <3> QED BY <1>3, <1>5, <3>1, ConfigIs
  <2>5. /\ Abstract!SignedBy(SetOf(tx.view), n)
        /\ HasAdminCall(entries[n].calls) => Abstract!SignedBy(Abstract!AdminsOf(SetOf(tx.view)), n)
    BY <1>t, <1>5, <1>8, <2>1, AcceptedIsSigned DEF AuthInv
  <2>6. CASE tx.saved.wasm = NoWasm
    <3>1. code = InitialWasm /\ Constructed(tx.view)
      BY <2>2, <2>6 DEF Found
    <3>2. Config = NoWasm
      BY <1>3, <2>6
    <3>3. SetOf(tx.view) \in SUBSET Offered /\ Abstract!AdminsOf(SetOf(tx.view)) # {}
      BY <1>5, <1>6, <3>1
    <3>4. \/ Config' = [code |-> InitialWasm, signers |-> SetOf(tx.view)]
          \/ Config' # NoWasm /\ Abstract!SignedBy(Abstract!AdminsOf(SetOf(tx.view)), n)
      BY <2>2, <2>4, <2>5, <3>1
    <3>5. Abstract!CreateAndUse(n)
      BY <2>3, <2>5, <3>2, <3>3, <3>4 DEF Abstract!CreateAndUse
    <3> QED BY <2>1, <3>5 DEF Abstract!SpecNext
  <2>7. CASE tx.saved.wasm # NoWasm
    <3>1. code = tx.saved.wasm /\ tx.view = tx.saved.signers
      BY <2>2, <2>7 DEF Found
    <3>2. Config = [code |-> code, signers |-> SetOf(tx.view)] /\ Config # NoWasm
      BY <1>3, <1>5, <2>7, <3>1, ConfigIs
    <3>3. Config.signers = SetOf(tx.view)
      BY <3>2
    <3>4. CASE signers = tx.view /\ wasm = code
      <4>1. Abstract!Act(n)
        BY <2>3, <2>4, <2>5, <3>2, <3>3, <3>4 DEF Abstract!Act
      <4> QED BY <2>1, <4>1 DEF Abstract!SpecNext
    <3>5. CASE HasAdminCall(entries[n].calls)
      <4>1. Abstract!Change(n)
        BY <2>3, <2>4, <2>5, <3>2, <3>3, <3>5 DEF Abstract!Change
      <4> QED BY <2>1, <4>1 DEF Abstract!SpecNext
    <3> QED BY <2>2, <3>4, <3>5
  <2> QED BY <2>6, <2>7
<1> QED BY <1>7, <1>8

\* Every step is one of AccountSpec, or leaves what it tells alone.
LEMMA StepKeepsPromise ==
    ASSUME TypeOK, DeployInv, AuthInv, ProofInv, Bound, RunInv, [Next]_vars
    PROVE  [Abstract!SpecNext]_(Abstract!specVars) /\ ProofInv'
<1>s. ASSUME Committed' = Committed, Signed' = Signed PROVE UNCHANGED Abstract!specVars
  BY <1>s DEF Abstract!specVars, Config
<1>1. CASE Execute
  <2>t. tx # NoTx
    BY <1>1, ExecuteInTx
  <2>1. entries' = entries
    BY <1>1, ExecuteTx DEF Execute, Kept, Fail, Commit
  <2>2. Signed' = Signed /\ ProofInv'
    BY <2>1 DEF Signed, ProofInv
  <2>3. CASE Commit
    BY <2>2, <2>3, CommitKeepsPromise
  <2>4. CASE Fail
    BY <1>s, <2>t, <2>2, <2>4, FailRestores DEF Committed
  <2>5. CASE ~Commit /\ ~Fail
    BY <1>1, <1>s, <2>t, <2>2, <2>5, ExecuteTx DEF Execute, Kept, Committed
  <2> QED BY <2>3, <2>4, <2>5
<1>2. CASE Begun
  <2>1. Committed' = Committed /\ Signed' = Signed /\ ProofInv'
    BY <1>2 DEF Begun, Committed, Signed, ProofInv
  <2> QED BY <1>s, <2>1
<1>3. CASE ~Execute /\ ~Begun
  <2>1. Committed' = Committed
    <3>1. CASE Outside
      BY <3>1 DEF Outside, Committed
    <3>2. CASE UNCHANGED vars
      BY <3>2 DEF vars, ledger, instance, Current, Committed
    <3> QED BY <1>3, <3>1, <3>2, StepKinds
  <2>2. /\ ProofInv'
        /\ \/ Signed' = Signed
           \/ \E pub \in Ed25519Keys \cup PublicKeys, n \in Nonces : Signed' = Signed \cup {<<pub, n>>}
    BY <1>3, OutsideSigns
  <2>3. ASSUME NEW pub \in Ed25519Keys \cup PublicKeys, NEW n \in Nonces,
               Signed' = Signed \cup {<<pub, n>>}
        PROVE  Abstract!SpecNext
    <3>1. Abstract!Sign(pub, n)
      BY <2>1, <2>3 DEF Abstract!Sign, Config
    <3> QED BY <3>1 DEF Abstract!SpecNext
  <2> QED BY <1>s, <2>1, <2>2, <2>3
<1> QED BY <1>1, <1>2, <1>3

\* The configuration of an account only ever changes at once, with an approval
\* nobody has used before, made by an Admin of that moment over exactly that
\* change: when nobody delivers a proof with another entry, or when the account
\* can only have Ed25519 signers.
THEOREM AccountKeepsPromise == ASSUME Bound PROVE Spec => ImplementsPromise
<1>1. Init => ProofInv /\ Abstract!SpecInit
  BY DEF Init, ProofInv, Abstract!SpecInit, Config, Committed, Current, Signed
<1>2. TypeOK /\ DeployInv /\ AuthInv /\ ProofInv /\ RunInv /\ [Next]_vars
          => [Abstract!SpecNext]_(Abstract!specVars) /\ ProofInv'
  BY StepKeepsPromise
<1> QED BY <1>1, <1>2, TypeCorrect, DeployInvariant, AuthInvariant, RunInvariant, PTL
        DEF Spec, ImplementsPromise, Abstract!AccountPromise

-----------------------------------------------------------------------------
(* A build migrates at most once per upgrade.                              *)

\* The calls that have succeeded: those of the transactions that have, and those
\* the current one has made already.
Asked == entries[tx.nonce].calls
DoneNow == IF tx # NoTx /\ tx.authenticated THEN Len(Asked) - Len(tx.calls) ELSE 0
CallsDone == CallsMade \cup ({Len(executed) + 1} \X (1..DoneNow))
DoneAt(c) == IF c[1] \in DOMAIN executed THEN CallAt(c) ELSE Asked[c[2]]

Done(fn) == {c \in CallsDone : IsAdminOperation(DoneAt(c)) /\ DoneAt(c).fn = fn}
DoneTo(builds) == {c \in Done("upgrade") : DoneAt(c).arg \in builds}
MadeTo(builds) == {c \in Made("upgrade") : CallAt(c).arg \in builds}

\* Each migration has an upgrade to a build that migrates as the last upgrade
\* or migration before it.
Once(upgrades, good, migrations) ==
    \A m \in migrations : \E u \in good :
        Before(u, m) /\ \A c \in upgrades \cup migrations : ~(Before(u, c) /\ Before(c, m))

Latest(upgrades, migrations, u) == \A c \in upgrades \cup migrations : ~Before(u, c)

\* What is left to call is the end of what the entry asks for.
Remaining ==
    tx.nonce # NoNonce =>
        /\ Len(tx.calls) <= Len(Asked)
        /\ ~tx.authenticated => tx.calls = Asked
        /\ \A i \in DOMAIN tx.calls : tx.calls[i] = Asked[Len(Asked) - Len(tx.calls) + i]

\* MIGRATING is only set between an upgrade and the migration of its build.
MigrationInv ==
    /\ Once(Done("upgrade"), DoneTo(Migratable), Done("migrate"))
    /\ migrating => /\ wasm # NoWasm
                    /\ \E u \in DoneTo({wasm}) : Latest(Done("upgrade"), Done("migrate"), u)
    /\ tx # NoTx =>
           /\ Remaining
           /\ Once(Made("upgrade"), MadeTo(Migratable), Made("migrate"))
           /\ tx.saved.migrating =>
                  /\ tx.saved.wasm # NoWasm
                  /\ \E u \in MadeTo({tx.saved.wasm}) : Latest(Made("upgrade"), Made("migrate"), u)

\* A call made has a transaction and a place in its entry.
LEMMA CallsMadeAre ==
    /\ \A c : c \in CallsMade <=> \E i \in DOMAIN executed : \E j \in DOMAIN CallsOf(i) : c = <<i, j>>
    /\ \A c : c \in CallsMade' <=> \E i \in DOMAIN executed' : \E j \in DOMAIN CallsOf(i)' : c = <<i, j>>
BY DEF CallsMade

\* Nothing that has been executed changes while no transaction ends.
LEMMA MadeSame ==
    ASSUME AuthInv, TypeOK, executed' = executed,
           \A n \in Nonces : entries[n] # NoEntry => entries'[n].calls = entries[n].calls
    PROVE  /\ CallsMade' = CallsMade
           /\ \A c \in CallsMade : CallAt(c)' = CallAt(c)
           /\ \A fn : Made(fn)' = Made(fn)
           /\ \A builds : MadeTo(builds)' = MadeTo(builds)
<1>1. \A i \in DOMAIN executed : CallsOf(i)' = CallsOf(i)
  BY DEF AuthInv, Decided, CallsOf
<1>2. \A c : c \in CallsMade' <=> c \in CallsMade
  BY <1>1, CallsMadeAre
<1>3. ASSUME NEW c \in CallsMade PROVE CallAt(c)' = CallAt(c)
  <2>1. PICK i \in DOMAIN executed : \E j \in DOMAIN CallsOf(i) : c = <<i, j>>
    BY CallsMadeAre
  <2> QED BY <1>1, <2>1 DEF CallAt
<1>4. CallsMade' = CallsMade
  BY <1>2
<1>5. \A fn : Made(fn)' = Made(fn)
  BY <1>3, <1>4 DEF Made
<1>6. \A builds : MadeTo(builds)' = MadeTo(builds)
  <2>1. \A c \in Made("upgrade") : c \in CallsMade
    BY DEF Made
  <2> QED BY <1>3, <1>5, <2>1 DEF MadeTo
<1> QED BY <1>3, <1>4, <1>5, <1>6

\* Calls that are done stay what they are as long as their places do.
LEMMA DoneSame ==
    ASSUME CallsDone' = CallsDone, \A c \in CallsDone : DoneAt(c)' = DoneAt(c)
    PROVE  /\ \A fn : Done(fn)' = Done(fn)
           /\ \A builds : DoneTo(builds)' = DoneTo(builds)
<1>1. \A fn : Done(fn)' = Done(fn)
  BY DEF Done
<1>2. \A c \in Done("upgrade") : c \in CallsDone
  BY DEF Done
<1> QED BY <1>1, <1>2 DEF DoneTo

\* Until the current transaction is authenticated, only others have made calls.
LEMMA DoneIsMade ==
    /\ DoneNow = 0 => /\ CallsDone = CallsMade /\ \A c \in CallsMade : DoneAt(c) = CallAt(c)
                      /\ \A fn : Done(fn) = Made(fn)
                      /\ \A builds : DoneTo(builds) = MadeTo(builds)
    /\ DoneNow' = 0 => /\ CallsDone' = CallsMade' /\ \A c \in CallsMade' : DoneAt(c)' = CallAt(c)'
                       /\ \A fn : Done(fn)' = Made(fn)'
                       /\ \A builds : DoneTo(builds)' = MadeTo(builds)'
<1>1. ASSUME DoneNow = 0
      PROVE  /\ CallsDone = CallsMade /\ \A c \in CallsMade : DoneAt(c) = CallAt(c)
             /\ \A fn : Done(fn) = Made(fn)
             /\ \A builds : DoneTo(builds) = MadeTo(builds)
  <2>1. CallsDone = CallsMade
    BY <1>1 DEF CallsDone
  <2>2. \A c \in CallsMade : DoneAt(c) = CallAt(c)
    BY CallsMadeAre DEF DoneAt
  <2>3. \A fn : Done(fn) = Made(fn)
    BY <2>1, <2>2 DEF Done, Made
  <2>4. \A c \in Made("upgrade") : c \in CallsMade
    BY DEF Made
  <2> QED BY <2>1, <2>2, <2>3, <2>4 DEF DoneTo, MadeTo
<1>2. ASSUME DoneNow' = 0
      PROVE  /\ CallsDone' = CallsMade' /\ \A c \in CallsMade' : DoneAt(c)' = CallAt(c)'
             /\ \A fn : Done(fn)' = Made(fn)'
             /\ \A builds : DoneTo(builds)' = MadeTo(builds)'
  <2>1. CallsDone' = CallsMade'
    BY <1>2 DEF CallsDone
  <2>2. \A c \in CallsMade' : DoneAt(c)' = CallAt(c)'
    BY CallsMadeAre DEF DoneAt
  <2>3. \A fn : Done(fn)' = Made(fn)'
    BY <2>1, <2>2 DEF Done, Made
  <2>4. \A c \in Made("upgrade")' : c \in CallsMade'
    BY DEF Made
  <2> QED BY <2>1, <2>2, <2>3, <2>4 DEF DoneTo, MadeTo
<1> QED BY <1>1, <1>2

\* An upgrade made after all that has been done is the latest; a migration made
\* then comes after the latest upgrade.
LEMMA CallAfter ==
    ASSUME NEW U, NEW M, NEW G, NEW p \in Nat \X Nat,
           \A c \in U \cup M : c \in Nat \X Nat /\ Before(c, p), Once(U, G, M), G \subseteq U
    PROVE  /\ Once(U \cup {p}, G \cup {p}, M) /\ Once(U \cup {p}, G, M)
           /\ Latest(U \cup {p}, M, p)
           /\ \A u \in G : Latest(U, M, u) => Once(U, G, M \cup {p})
<1>1. \A c \in Nat \X Nat : Before(c, p) => ~Before(p, c)
  BY DEF Before
<1>2. ~Before(p, p)
  BY DEF Before
<1>3. Once(U \cup {p}, G \cup {p}, M) /\ Once(U \cup {p}, G, M)
  <2> SUFFICES ASSUME NEW m \in M
               PROVE  \E u \in G : /\ Before(u, m)
                                   /\ \A c \in (U \cup {p}) \cup M : ~(Before(u, c) /\ Before(c, m))
    BY DEF Once
  <2>1. PICK u \in G : Before(u, m) /\ \A c \in U \cup M : ~(Before(u, c) /\ Before(c, m))
    BY DEF Once
  <2>2. ~Before(p, m)
    BY <1>1
  <2> QED BY <2>1, <2>2
<1>4. Latest(U \cup {p}, M, p)
  BY <1>1, <1>2 DEF Latest
<1>5. ASSUME NEW u \in G, Latest(U, M, u) PROVE Once(U, G, M \cup {p})
  <2> SUFFICES ASSUME NEW m \in M \cup {p}
               PROVE  \E v \in G : /\ Before(v, m)
                                   /\ \A c \in U \cup (M \cup {p}) : ~(Before(v, c) /\ Before(c, m))
    BY DEF Once
  <2>1. CASE m = p
    BY <1>2, <1>5, <2>1 DEF Latest
  <2>2. CASE m \in M
    <3>1. PICK v \in G : Before(v, m) /\ \A c \in U \cup M : ~(Before(v, c) /\ Before(c, m))
      BY <2>2 DEF Once
    <3>2. ~Before(p, m)
      BY <1>1, <2>2
    <3> QED BY <3>1, <3>2
  <2> QED BY <2>1, <2>2
<1> QED BY <1>3, <1>4, <1>5

\* Where the next call is made: after all that has been done.
NextPlace == <<Len(executed) + 1, DoneNow + 1>>

\* The place after the last one.
LEMMA NextPlaceIsLast ==
    ASSUME TypeOK, AuthInv, DoneNow \in Nat
    PROVE  NextPlace \in Nat \X Nat /\ \A c \in CallsDone : c \in Nat \X Nat /\ Before(c, NextPlace)
<1>1. executed \in Seq(Execution) /\ Len(executed) \in Nat
  BY DEF TypeOK
<1>2. NextPlace \in Nat \X Nat
  BY <1>1 DEF NextPlace
<1>3. ASSUME NEW c \in CallsMade PROVE c \in Nat \X Nat /\ Before(c, NextPlace)
  <2>1. PICK i \in DOMAIN executed : \E j \in DOMAIN CallsOf(i) : c = <<i, j>>
    BY CallsMadeAre
  <2>2. executed[i].nonce \in Nonces /\ entries[executed[i].nonce] \in Entry
    BY DEF AuthInv, Decided, TypeOK
  <2>3. CallsOf(i) \in Seq(Context)
    BY <2>2, InvocationsAssumption DEF CallsOf, Entry
  <2>4. i \in Nat /\ i < Len(executed) + 1 /\ DOMAIN CallsOf(i) \subseteq Nat
    BY <1>1, <2>3
  <2> QED BY <2>1, <2>4 DEF Before, NextPlace
<1>4. ASSUME NEW c \in {Len(executed) + 1} \X (1..DoneNow) PROVE c \in Nat \X Nat /\ Before(c, NextPlace)
  BY <1>1 DEF Before, NextPlace
<1> QED BY <1>2, <1>3, <1>4 DEF CallsDone

\* A call of an authenticated transaction is done after all the others.
LEMMA CallIsDone ==
    ASSUME TypeOK, AuthInv, tx # NoTx, tx \in Tx, tx.authenticated, Remaining, Kept, Called
    PROVE  /\ DoneNow \in Nat /\ Remaining'
           /\ \A fn : Done(fn)' = Done(fn) \cup
                  {c \in {NextPlace} : IsAdminOperation(Head(tx.calls)) /\ Head(tx.calls).fn = fn}
           /\ \A builds : DoneTo(builds)' = DoneTo(builds) \cup
                  {c \in {NextPlace} : /\ IsAdminOperation(Head(tx.calls)) /\ Head(tx.calls).fn = "upgrade"
                                       /\ Head(tx.calls).arg \in builds}
<1>1. tx.nonce \in Nonces /\ tx.nonce # NoNonce /\ entries[tx.nonce] \in Entry
  BY NoNonceAssumption DEF AuthInv, Decided, TypeOK
<1>2. Asked \in Seq(Context) /\ tx.calls \in Seq(Context) /\ tx.calls # <<>>
  BY <1>1, InvocationsAssumption DEF Asked, Entry, Tx, Called
<1>3. /\ DoneNow = Len(Asked) - Len(tx.calls) /\ Len(tx.calls) <= Len(Asked)
      /\ \A i \in DOMAIN tx.calls : tx.calls[i] = Asked[Len(Asked) - Len(tx.calls) + i]
  BY <1>1 DEF DoneNow, Remaining
<1>4. /\ tx' # NoTx /\ tx'.nonce = tx.nonce /\ tx'.authenticated = tx.authenticated
      /\ tx'.calls = Tail(tx.calls) /\ Asked' = Asked /\ executed' = executed /\ entries' = entries
  BY DEF Kept, Called, Asked
<1>5. /\ Len(tx'.calls) = Len(tx.calls) - 1 /\ Len(tx.calls) \in Nat /\ Len(Asked) \in Nat
      /\ DOMAIN tx'.calls = 1 .. (Len(tx.calls) - 1) /\ DOMAIN tx.calls = 1 .. Len(tx.calls)
      /\ \A i \in DOMAIN tx'.calls : tx'.calls[i] = tx.calls[i + 1]
      /\ Head(tx.calls) = tx.calls[1] /\ 1 \in DOMAIN tx.calls
  BY <1>2, <1>4
<1>6. DoneNow \in Nat /\ DoneNow' = DoneNow + 1
  <2>1. DoneNow' = Len(Asked) - Len(tx'.calls)
    BY <1>4 DEF DoneNow
  <2> QED BY <1>3, <1>5, <2>1
<1>7. Remaining'
  <2>1. Len(tx'.calls) <= Len(Asked)
    BY <1>3, <1>5
  <2>2. ASSUME NEW i \in DOMAIN tx'.calls
        PROVE  tx'.calls[i] = Asked[Len(Asked) - Len(tx'.calls) + i]
    <3> DEFINE left == Len(tx.calls)
               all == Len(Asked)
    <3>0. left \in Nat /\ all \in Nat /\ i \in 1 .. (left - 1)
      BY <1>5
    <3>1. i + 1 \in 1 .. left /\ all - (left - 1) + i = all - left + (i + 1)
      <4> HIDE DEF left, all
      <4> QED BY <3>0
    <3> QED BY <1>3, <1>5, <3>1
  <2> QED BY <1>4, <2>1, <2>2 DEF Remaining
<1>8. CallsMade' = CallsMade /\ \A c \in CallsMade : CallAt(c)' = CallAt(c)
  BY <1>4 DEF CallsMade, CallsOf, CallAt
<1>9. CallsDone' = CallsDone \cup {NextPlace}
  <2>1. 1 .. DoneNow' = (1 .. DoneNow) \cup {DoneNow + 1}
    BY <1>6
  <2> QED BY <1>4, <1>8, <2>1 DEF CallsDone, NextPlace
<1>10. Len(executed) + 1 \notin DOMAIN executed
  BY DEF TypeOK
<1>11. \A c \in CallsDone : c # NextPlace /\ DoneAt(c)' = DoneAt(c)
  <2>1. \A c \in CallsDone : c # NextPlace
    BY <1>6, NextPlaceIsLast DEF Before
  <2>2. \A c \in CallsDone : c \in CallsMade \/ c[1] \notin DOMAIN executed
    BY <1>10 DEF CallsDone
  <2>3. \A c \in CallsMade : c[1] \in DOMAIN executed
    BY CallsMadeAre
  <2> QED BY <1>4, <1>8, <2>1, <2>2, <2>3 DEF DoneAt
<1>12. \A c : c = NextPlace => DoneAt(c)' = Head(tx.calls)
  <2>1. Asked[DoneNow + 1] = Head(tx.calls)
    BY <1>3, <1>5
  <2> QED BY <1>4, <1>10, <2>1 DEF NextPlace, DoneAt
<1>13. \A fn : Done(fn)' = Done(fn) \cup
           {c \in {NextPlace} : IsAdminOperation(Head(tx.calls)) /\ Head(tx.calls).fn = fn}
  BY <1>9, <1>11, <1>12 DEF Done
<1>14. \A builds : DoneTo(builds)' = DoneTo(builds) \cup
           {c \in {NextPlace} : /\ IsAdminOperation(Head(tx.calls)) /\ Head(tx.calls).fn = "upgrade"
                                /\ Head(tx.calls).arg \in builds}
  <2>1. \A c \in Done("upgrade") : c \in CallsDone
    BY DEF Done
  <2> QED BY <1>11, <1>12, <1>13, <2>1 DEF DoneTo
<1> QED BY <1>6, <1>7, <1>13, <1>14

\* A step of a transaction that makes no call keeps what has been done.
LEMMA NoCallKeeps ==
    ASSUME TypeOK, AuthInv, MigrationInv, tx # NoTx, Kept, DoneNow = 0, DoneNow' = 0, Remaining',
           migrating' = migrating, migrating => wasm' = wasm
    PROVE  MigrationInv'
<1>1. executed' = executed /\ entries' = entries /\ tx' # NoTx /\ tx'.saved = tx.saved
  BY DEF Kept
<1>2. (\A fn : Made(fn)' = Made(fn)) /\ \A builds : MadeTo(builds)' = MadeTo(builds)
  BY <1>1, MadeSame
<1>3. (\A fn : Done(fn)' = Done(fn)) /\ \A builds : DoneTo(builds)' = DoneTo(builds)
  BY <1>2, DoneIsMade
<1>4. Once(Done("upgrade")', DoneTo(Migratable)', Done("migrate")')
  BY <1>3 DEF MigrationInv
<1>5. migrating' => /\ wasm' # NoWasm
                    /\ \E u \in DoneTo({wasm})' : Latest(Done("upgrade")', Done("migrate")', u)
  BY <1>3 DEF MigrationInv
<1> QED BY <1>1, <1>2, <1>4, <1>5 DEF MigrationInv

\* A transaction that ends leaves its calls where the current ones were.
LEMMA CommitMakes ==
    ASSUME TypeOK, AuthInv, MigrationInv, Commit
    PROVE  (\A fn : Made(fn)' = Done(fn)) /\ \A builds : MadeTo(builds)' = DoneTo(builds)
<1>1. tx # NoTx /\ tx \in Tx /\ tx' = NoTx /\ entries' = entries /\ tx.calls = <<>> /\ Remaining
      /\ (tx.nonce # NoNonce => tx.authenticated)
  BY DEF Commit, InPhase, TypeOK, MigrationInv
<1>2. CASE tx.nonce = NoNonce
  <2>1. executed' = executed /\ ~tx.authenticated
    BY <1>1, <1>2, NoNonceAssumption DEF Commit, AuthInv, Decided
  <2>2. DoneNow = 0
    BY <2>1 DEF DoneNow
  <2> QED BY <1>1, <2>1, <2>2, MadeSame, DoneIsMade
<1>3. CASE tx.nonce # NoNonce
  <2> DEFINE e == [nonce |-> tx.nonce, time |-> now, signers |-> tx.view,
                   proofs |-> entries[tx.nonce].proofs, trail |-> tx.trail]
  <2>0. PICK n \in Nat : n = Len(executed) + 1
    BY DEF TypeOK
  <2>1. executed' = Append(executed, e) /\ e.nonce = tx.nonce /\ executed \in Seq(Execution)
    BY <1>3 DEF Commit, TypeOK
  <2>2. entries[tx.nonce] \in Entry
    BY <1>1, <1>3 DEF TypeOK, Tx
  <2>3. Asked \in Seq(Context) /\ DoneNow = Len(Asked)
    BY <1>1, <1>3, <2>2, InvocationsAssumption DEF Asked, Entry, DoneNow
  <2>4. DOMAIN executed' = DOMAIN executed \cup {n} /\ n \notin DOMAIN executed
        /\ executed'[n] = e /\ \A i \in DOMAIN executed : executed'[i] = executed[i]
    <3> HIDE DEF e
    <3> QED BY <2>0, <2>1
  <2> HIDE DEF e
  <2>5. CallsOf(n)' = Asked /\ \A i \in DOMAIN executed : CallsOf(i)' = CallsOf(i)
    <3>1. \A i : CallsOf(i)' = entries[executed'[i].nonce].calls
      BY <1>1 DEF CallsOf
    <3> QED BY <2>1, <2>4, <3>1 DEF CallsOf, Asked
  <2>6. \A c : c \in CallsMade' <=> c \in CallsDone
    <3>1. \A c : c \in {n} \X (1 .. DoneNow) <=> \E j \in DOMAIN Asked : c = <<n, j>>
      BY <2>3
    <3>2. ASSUME NEW c, c \in CallsMade' PROVE c \in CallsDone
      <4>1. PICK i \in DOMAIN executed' : \E j \in DOMAIN CallsOf(i)' : c = <<i, j>>
        BY <3>2, CallsMadeAre
      <4> QED BY <2>0, <2>4, <2>5, <3>1, <4>1, CallsMadeAre DEF CallsDone
    <3>3. ASSUME NEW c, c \in CallsDone PROVE c \in CallsMade'
      <4>1. CASE c \in CallsMade
        <5>1. PICK i \in DOMAIN executed : \E j \in DOMAIN CallsOf(i) : c = <<i, j>>
          BY <4>1, CallsMadeAre
        <5> QED BY <2>4, <2>5, <5>1, CallsMadeAre
      <4>2. CASE c \in {n} \X (1 .. DoneNow)
        BY <2>4, <2>5, <3>1, <4>2, CallsMadeAre
      <4> QED BY <2>0, <3>3, <4>1, <4>2 DEF CallsDone
    <3> QED BY <3>2, <3>3
  <2>7. ASSUME NEW c \in CallsDone PROVE CallAt(c)' = DoneAt(c)
    <3>1. CallAt(c)' = CallsOf(c[1])'[c[2]]
      BY DEF CallAt
    <3>2. CASE c \in CallsMade
      <4>1. c[1] \in DOMAIN executed
        BY <3>2, CallsMadeAre
      <4> QED BY <2>5, <3>1, <4>1 DEF DoneAt, CallAt
    <3>3. CASE c \in {n} \X (1 .. DoneNow)
      <4>1. c[1] = n
        BY <3>3
      <4> QED BY <2>4, <2>5, <3>1, <4>1 DEF DoneAt
    <3> QED BY <2>0, <3>2, <3>3 DEF CallsDone
  <2>8. CallsMade' = CallsDone
    BY <2>6
  <2>9. \A fn : Made(fn)' = Done(fn)
    BY <2>7, <2>8 DEF Made, Done
  <2>10. \A c \in Done("upgrade") : c \in CallsDone
    BY DEF Done
  <2> QED BY <2>7, <2>9, <2>10 DEF MadeTo, DoneTo
<1> QED BY <1>2, <1>3

\* No step migrates twice after an upgrade, nor after one that was reverted.
LEMMA MigrationInductive ==
    ASSUME TypeOK, AuthInv, RunInv, MigrationInv, [Next]_vars
    PROVE  MigrationInv'
<1>1. CASE UNCHANGED vars
  <2>1. UNCHANGED <<executed, entries, tx, wasm, migrating>>
    BY <1>1 DEF vars, ledger, instance
  <2>2. (\A fn : Made(fn)' = Made(fn)) /\ (\A builds : MadeTo(builds)' = MadeTo(builds))
    BY <2>1, MadeSame
  <2>3. CallsDone' = CallsDone /\ \A c \in CallsDone : DoneAt(c)' = DoneAt(c)
    BY <2>1 DEF CallsDone, CallsMade, CallsOf, DoneNow, Asked, DoneAt, CallAt
  <2>4. (\A fn : Done(fn)' = Done(fn)) /\ (\A builds : DoneTo(builds)' = DoneTo(builds))
    BY <2>3, DoneSame
  <2>5. Remaining' = Remaining
    BY <2>1 DEF Remaining, Asked
  <2> QED BY <2>1, <2>2, <2>4, <2>5 DEF MigrationInv
<1>2. CASE Outside \/ Begun
  <2>1. /\ tx = NoTx /\ executed' = executed /\ wasm' = wasm /\ migrating' = migrating
        /\ \A n \in Nonces : entries[n] # NoEntry => entries'[n].calls = entries[n].calls
        /\ DoneNow = 0 /\ DoneNow' = 0
    BY <1>2 DEF Outside, Begun, Current, DoneNow
  <2>2. (\A fn : Made(fn)' = Made(fn)) /\ (\A builds : MadeTo(builds)' = MadeTo(builds))
    BY <2>1, MadeSame
  <2>3. /\ (\A fn : Done(fn)' = Made(fn)) /\ (\A builds : DoneTo(builds)' = MadeTo(builds))
        /\ (\A fn : Done(fn) = Made(fn)) /\ (\A builds : DoneTo(builds) = MadeTo(builds))
    BY <2>1, <2>2, DoneIsMade
  <2>4. tx' # NoTx => /\ tx'.saved.wasm = wasm /\ tx'.saved.migrating = migrating
                      /\ Remaining'
    <3>1. ASSUME tx' # NoTx, tx'.nonce # NoNonce PROVE tx'.calls = Asked' /\ tx'.calls \in Seq(Context)
      <4>1. tx'.nonce \in Nonces /\ tx'.calls = Asked'
        BY <1>2, <3>1 DEF Outside, Begun, Asked
      <4>2. TypeOK'
        BY TypeNext
      <4> QED BY <3>1, <4>1, <4>2 DEF TypeOK, Tx
    <3> QED BY <1>2, <3>1 DEF Outside, Begun, Remaining, Current
  <2> QED BY <2>1, <2>2, <2>3, <2>4 DEF MigrationInv
<1>3. CASE Execute
  <2>t. tx # NoTx /\ tx \in Tx /\ Remaining
    BY <1>3, ExecuteInTx DEF MigrationInv
  <2>1. CASE Fail
    <3>1. /\ tx' = NoTx /\ executed' = executed /\ entries' = entries /\ DoneNow' = 0
          /\ wasm' = tx.saved.wasm /\ migrating' = tx.saved.migrating
      BY <2>1 DEF Fail, DoneNow
    <3>2. (\A fn : Done(fn)' = Made(fn)) /\ (\A builds : DoneTo(builds)' = MadeTo(builds))
      BY <3>1, MadeSame, DoneIsMade
    <3> QED BY <2>t, <3>1, <3>2 DEF MigrationInv
  <2>2. CASE Commit
    <3>1. tx' = NoTx /\ DoneNow' = 0 /\ wasm' = wasm /\ migrating' = migrating
      BY <2>2 DEF Commit, DoneNow, ledger, instance
    <3>2. (\A fn : Done(fn)' = Done(fn)) /\ (\A builds : DoneTo(builds)' = DoneTo(builds))
      BY <2>2, <3>1, CommitMakes, DoneIsMade
    <3> QED BY <3>1, <3>2 DEF MigrationInv
  <2>3. CASE (ConstructorCheck \/ ConstructorAdd \/ ConstructorInitialize) /\ ~Fail
    <3>1. Kept /\ Construct /\ tx.phase \in {"constructor", "signers"}
      BY <1>3, <2>3, ExecuteTx DEF Moves
    <3>2. ~tx.authenticated
      BY <2>t, <3>1 DEF RunInv, Constructing
    <3>3. migrating' = migrating /\ (migrating => wasm' = wasm)
      BY <2>3 DEF ConstructorCheck, ConstructorAdd, ConstructorInitialize, MigrationInv
    <3>4. DoneNow = 0 /\ DoneNow' = 0 /\ Remaining'
      BY <2>t, <3>1, <3>2 DEF DoneNow, Remaining, Asked, Kept, Construct
    <3> QED BY <2>t, <3>1, <3>3, <3>4, NoCallKeeps
  <2>4. CASE RequireAuth /\ ~Fail
    <3>1. Kept /\ Authenticated /\ ~tx.authenticated /\ UNCHANGED <<wasm, migrating>>
      BY <1>3, <2>4, ExecuteTx DEF RequireAuth, instance
    <3>2. tx.nonce # NoNonce
      BY <2>4 DEF RequireAuth
    <3>3. tx.calls = Asked /\ Asked' = Asked /\ tx.calls \in Seq(Context)
      BY <2>t, <3>1, <3>2 DEF Remaining, Asked, Kept, Tx
    <3>4. DoneNow = 0 /\ DoneNow' = 0 /\ Remaining'
      BY <2>t, <3>1, <3>3 DEF DoneNow, Remaining, Kept, Authenticated
    <3> QED BY <2>t, <3>1, <3>4, NoCallKeeps
  <2>5. CASE (AddSigner \/ UpdateSigner \/ RevokeSigner \/ Upgrade \/ Migrate \/ OtherCall) /\ ~Fail
    <3>1. Kept /\ Called
      BY <1>3, <2>5, ExecuteTx
    <3>2. NextCall
      BY <2>5 DEF AddSigner, UpdateSigner, RevokeSigner, Upgrade, Migrate, OtherCall, Calling
    <3>3. CASE ~tx.authenticated
      <4>1. tx.nonce = NoNonce /\ UNCHANGED <<wasm, migrating>>
        BY <2>5, <3>2, <3>3 DEF NextCall, AddSigner, UpdateSigner, RevokeSigner, Upgrade, Migrate, OtherCall
      <4>2. DoneNow = 0 /\ DoneNow' = 0 /\ Remaining'
        BY <3>1, <3>3, <4>1 DEF DoneNow, Remaining, Kept, Called
      <4> QED BY <2>t, <3>1, <4>1, <4>2, NoCallKeeps
    <3>4. CASE tx.authenticated
      <4> DEFINE p == NextPlace
                 op == Head(tx.calls)
                 U == Done("upgrade")
                 M == Done("migrate")
                 G == DoneTo(Migratable)
      <4>1. DoneNow \in Nat /\ Remaining'
        BY <2>t, <3>1, <3>4, CallIsDone
      <4>2. /\ U' = U \cup {c \in {p} : IsAdminOperation(op) /\ op.fn = "upgrade"}
            /\ M' = M \cup {c \in {p} : IsAdminOperation(op) /\ op.fn = "migrate"}
            /\ G' = G \cup {c \in {p} : IsAdminOperation(op) /\ op.fn = "upgrade" /\ op.arg \in Migratable}
            /\ \A builds : DoneTo(builds)' = DoneTo(builds) \cup
                   {c \in {p} : IsAdminOperation(op) /\ op.fn = "upgrade" /\ op.arg \in builds}
        BY <2>t, <3>1, <3>4, CallIsDone
      <4>3. p \in Nat \X Nat /\ (\A c \in U \cup M : c \in Nat \X Nat /\ Before(c, p)) /\ G \subseteq U
        BY <4>1, NextPlaceIsLast DEF Done, DoneTo
      <4>4. Once(U, G, M)
        BY DEF MigrationInv
      <4>5. /\ tx' # NoTx /\ tx'.saved = tx.saved
            /\ (\A fn : Made(fn)' = Made(fn)) /\ (\A builds : MadeTo(builds)' = MadeTo(builds))
        BY <3>1, MadeSame DEF Kept
      <4>6. Once(U', G', M') /\ (migrating' => /\ wasm' # NoWasm
                                               /\ \E u \in DoneTo({wasm})' : Latest(U', M', u))
        <5>1. CASE Upgrade
          <6>1. IsAdminOperation(op) /\ op.fn = "upgrade" /\ wasm' = op.arg /\ wasm' \in Wasms
            BY <2>5, <3>2, <5>1, NextCallType, CallArguments DEF Upgrade, Calling
          <6>2. U' = U \cup {p} /\ M' = M /\ (G' = G \/ G' = G \cup {p}) /\ p \in DoneTo({wasm})'
            BY <4>2, <6>1
          <6>3. /\ Once(U \cup {p}, G \cup {p}, M) /\ Once(U \cup {p}, G, M) /\ Latest(U \cup {p}, M, p)
            BY <4>3, <4>4, CallAfter
          <6> QED BY <6>1, <6>2, <6>3, WasmsAssumption
        <5>2. CASE Migrate
          <6>1. IsAdminOperation(op) /\ op.fn = "migrate" /\ ~migrating'
                /\ migrating /\ wasm \in Migratable
            BY <2>5, <5>2 DEF Migrate, Calling
          <6>2. U' = U /\ M' = M \cup {p} /\ G' = G
            BY <4>2, <6>1
          <6>3. PICK u \in G : Latest(U, M, u)
            BY <6>1 DEF MigrationInv, DoneTo
          <6>4. Once(U, G, M \cup {p})
            BY <4>3, <4>4, <6>3, CallAfter
          <6> QED BY <6>1, <6>2, <6>4
        <5>3. CASE AddSigner \/ UpdateSigner \/ RevokeSigner \/ OtherCall
          <6>1. UNCHANGED <<wasm, migrating>>
            BY <2>5, <5>3 DEF AddSigner, UpdateSigner, RevokeSigner, OtherCall, ledger, instance
          <6>2. ~(IsAdminOperation(op) /\ op.fn \in {"upgrade", "migrate"})
            BY <5>3 DEF AddSigner, UpdateSigner, RevokeSigner, OtherCall, Calling
          <6>3. U' = U /\ M' = M /\ G' = G /\ DoneTo({wasm})' = DoneTo({wasm})
            BY <4>2, <6>1, <6>2
          <6> QED BY <4>4, <6>1, <6>3 DEF MigrationInv
        <5> QED BY <2>5, <5>1, <5>2, <5>3
      <4> QED BY <2>t, <4>1, <4>5, <4>6 DEF MigrationInv
    <3> QED BY <3>3, <3>4
  <2> QED BY <1>3, <2>1, <2>2, <2>3, <2>4, <2>5 DEF Execute
<1> QED BY <1>1, <1>2, <1>3, StepKinds

\* Migrations and upgrades alternate.
LEMMA MigrationInvariant == Spec => []MigrationInv
<1>1. Init => MigrationInv
  BY DEF Init, MigrationInv, Once, Done, Made, CallsDone, CallsMade, DoneNow
<1>2. TypeOK /\ AuthInv /\ RunInv /\ MigrationInv /\ [Next]_vars => MigrationInv'
  BY MigrationInductive
<1> QED BY <1>1, <1>2, TypeCorrect, AuthInvariant, RunInvariant, PTL DEF Spec

\* However many upgrades and reverted transactions came before it, a migration is
\* the first since the last upgrade, and that upgrade was to a build that has one.
THEOREM MigrationsFollowUpgrades == Spec => []MigratesOncePerUpgrade
<1>1. MigrationInv => MigratesOncePerUpgrade
  <2> SUFFICES ASSUME MigrationInv, NEW m \in Made("migrate")
               PROVE  \E u \in Made("upgrade") :
                          /\ CallAt(u).arg \in Migratable
                          /\ Before(u, m)
                          /\ \A c \in Made("upgrade") \cup Made("migrate") : ~(Before(u, c) /\ Before(c, m))
    BY DEF MigratesOncePerUpgrade
  <2>1. Once(Made("upgrade"), MadeTo(Migratable), Made("migrate"))
    <3>1. tx = NoTx => DoneNow = 0
      BY DEF DoneNow
    <3> QED BY <3>1, DoneIsMade DEF MigrationInv
  <2> QED BY <2>1 DEF Once, MadeTo
<1> QED BY <1>1, MigrationInvariant, PTL

-----------------------------------------------------------------------------
(* The entries account for what the account is.                            *)

CommittedAccount == [code |-> Committed.wasm, signers |-> Committed.signers]

\* How far the entry of an authenticated transaction has been carried out: the
\* trail has an account for each call made, each the effect of its call, from
\* what the ledger holds to what the account is now.
Traced ==
    /\ initialized
    /\ Len(tx.trail) + Len(tx.calls) = Len(Asked) + 1
    /\ \A j \in 1 .. Len(tx.trail) - 1 : Effect(tx.trail[j], Asked[j], tx.trail[j + 1])
    /\ tx.trail[Len(tx.trail)] = AccountNow
    /\ executed # <<>> => tx.trail[1] = CommittedAccount

\* An account that has executed an entry is deployed for good, so that nothing
\* but an authenticated transaction changes it.
TraceInv ==
    /\ EntriesAccountForState
    /\ executed # <<>> => Committed.initialized
    /\ tx # NoTx /\ tx.authenticated => Traced

\* What has been executed stays accounted for while history and the committed
\* account stay.
LEMMA HistoryKept ==
    ASSUME TypeOK, AuthInv, EntriesAccountForState, executed' = executed,
           \A n \in Nonces : entries[n] # NoEntry => entries'[n].calls = entries[n].calls,
           executed # <<>> => Committed'.wasm = Committed.wasm /\ Committed'.signers = Committed.signers
    PROVE  EntriesAccountForState'
<1>1. \A i \in DOMAIN executed : CallsOf(i)' = CallsOf(i)
  BY DEF AuthInv, Decided, CallsOf
<1>2. \A i : Run(i)' = Run(i) /\ End(i)' = End(i)
  BY DEF Run, End
<1>3. ASSUME NEW i \in DOMAIN executed'
      PROVE  /\ Len(Run(i)') = Len(CallsOf(i)') + 1
             /\ \A j \in DOMAIN CallsOf(i)' : Effect(Run(i)'[j], CallsOf(i)'[j], Run(i)'[j + 1])
             /\ i > 1 => Run(i)'[1] = End(i - 1)'
  BY <1>1, <1>2, <1>3 DEF EntriesAccountForState
<1>4. executed' # <<>> => End(Len(executed))' = CommittedAccount'
  <2>1. End(Len(executed))' = End(Len(executed))
    BY DEF Run, End
  <2> QED BY <2>1 DEF EntriesAccountForState, CommittedAccount
<1> QED BY <1>3, <1>4 DEF EntriesAccountForState, CommittedAccount

\* The next call of an authenticated transaction is the next one of its entry.
LEMMA NextAsked ==
    ASSUME TypeOK, AuthInv, tx # NoTx, tx \in Tx, tx.authenticated, Remaining
    PROVE  /\ Asked \in Seq(Context) /\ tx.calls \in Seq(Context) /\ tx.nonce \in Nonces
           /\ tx.calls # <<>> => Head(tx.calls) = Asked[Len(Asked) - Len(tx.calls) + 1]
<1>1. tx.nonce \in Nonces /\ tx.nonce # NoNonce /\ entries[tx.nonce] \in Entry
  BY NoNonceAssumption DEF AuthInv, Decided, TypeOK
<1>2. Asked \in Seq(Context) /\ tx.calls \in Seq(Context)
  BY <1>1, InvocationsAssumption DEF Asked, Entry, Tx
<1>3. tx.calls # <<>> => 1 \in DOMAIN tx.calls /\ Head(tx.calls) = tx.calls[1]
  BY <1>2
<1> QED BY <1>1, <1>2, <1>3 DEF Remaining

\* A call that is not reverted has its effect on the account.
LEMMA CallEffect ==
    ASSUME TypeOK, AddSigner \/ UpdateSigner \/ RevokeSigner \/ Upgrade \/ Migrate \/ OtherCall, ~Fail
    PROVE  Effect(AccountNow, Head(tx.calls), AccountNow')
<1> USE DEF Effect, AccountNow
<1>1. CASE AddSigner
  BY <1>1 DEF AddSigner, StoreSigner, Calling
<1>2. CASE UpdateSigner
  BY <1>2 DEF UpdateSigner, Calling
<1>3. CASE RevokeSigner
  <2>1. Head(tx.calls).arg \in Present(signers) \ Admins(signers)
    BY <1>3 DEF RevokeSigner, Revocable, Has, Admins
  <2> QED BY <1>3, <2>1 DEF RevokeSigner, Calling
<1>4. CASE Upgrade
  BY <1>4 DEF Upgrade, Calling
<1>5. CASE Migrate
  BY <1>5 DEF Migrate, Calling
<1>6. CASE OtherCall
  BY <1>6 DEF OtherCall, ledger, instance
<1> QED BY <1>1, <1>2, <1>3, <1>4, <1>5, <1>6

\* A call carries the entry one further.
LEMMA CallTraced ==
    ASSUME TypeOK, AuthInv, tx # NoTx, tx \in Tx, tx.authenticated, Remaining, Traced,
           Kept, Called, AccountNow' \in AccountState, initialized',
           Effect(AccountNow, Head(tx.calls), AccountNow')
    PROVE  Traced'
<1> DEFINE m == Len(tx.trail)
           left == Len(tx.calls)
           all == Len(Asked)
<1>1. /\ Asked \in Seq(Context) /\ tx.calls \in Seq(Context) /\ tx.trail \in Seq(AccountState)
      /\ tx.calls # <<>> /\ Head(tx.calls) = Asked[all - left + 1]
  BY NextAsked DEF Called, Tx
<1>2. /\ tx'.calls = Tail(tx.calls) /\ tx'.trail = Append(tx.trail, AccountNow') /\ Asked' = Asked
      /\ executed' = executed /\ CommittedAccount' = CommittedAccount
  BY DEF Kept, Called, Asked, Committed, CommittedAccount
<1>3. m \in Nat /\ left \in Nat \ {0} /\ all \in Nat /\ m + left = all + 1 /\ left <= all
  <2>1. m \in Nat /\ left \in Nat /\ left # 0 /\ all \in Nat
    BY <1>1
  <2>2. tx.nonce # NoNonce
    BY NextAsked, NoNonceAssumption
  <2>3. m + left = all + 1 /\ left <= all
    BY <2>2 DEF Traced, Remaining
  <2> QED BY <2>1, <2>3
<1>4. m \in Nat \ {0} /\ all - left + 1 = m
  <2> HIDE DEF m, left, all
  <2> QED BY <1>3
<1>5. /\ Len(tx'.trail) = m + 1 /\ Len(tx'.calls) = left - 1
      /\ tx'.trail[m + 1] = AccountNow' /\ \A j \in 1 .. m : tx'.trail[j] = tx.trail[j]
  <2> DEFINE after == AccountNow'
  <2>1. after \in AccountState /\ tx'.trail = Append(tx.trail, after)
    BY <1>2
  <2> HIDE DEF after
  <2>2. /\ Len(tx'.trail) = m + 1 /\ tx'.trail[m + 1] = after
        /\ \A j \in 1 .. m : tx'.trail[j] = tx.trail[j]
    BY <1>1, <2>1
  <2>3. Len(tx'.calls) = left - 1
    BY <1>1, <1>2
  <2> QED BY <2>2, <2>3 DEF after
<1>6. ASSUME NEW j \in 1 .. m PROVE Effect(tx'.trail[j], Asked[j], tx'.trail[j + 1])
  <2>1. CASE j = m
    <3>1. tx'.trail[j] = AccountNow /\ Asked[j] = Head(tx.calls) /\ tx'.trail[j + 1] = AccountNow'
      BY <1>1, <1>4, <1>5, <2>1 DEF Traced
    <3> QED BY <3>1
  <2>2. CASE j # m
    <3>1. j \in 1 .. m - 1 /\ j + 1 \in 1 .. m
      BY <1>4, <2>2
    <3> QED BY <1>5, <3>1 DEF Traced
  <2> QED BY <2>1, <2>2
<1> HIDE DEF m, left, all
<1>7. Len(tx'.trail) + Len(tx'.calls) = all + 1 /\ Len(tx'.trail) - 1 = m /\ 1 \in 1 .. m
  BY <1>3, <1>4, <1>5
<1>8. executed' # <<>> => tx'.trail[1] = CommittedAccount'
  BY <1>2, <1>5, <1>7 DEF Traced
<1>9. Len(Asked') = all
  BY <1>2 DEF all
<1> QED BY <1>2, <1>5, <1>6, <1>7, <1>8, <1>9 DEF Traced

\* require_auth finds the account as the ledger has it.
LEMMA RequireAuthTraced ==
    ASSUME TypeOK, DeployInv, AuthInv, LockInv, MigrationInv, TraceInv, RequireAuth, ~Fail
    PROVE  Traced'
<1>t. tx # NoTx /\ tx \in Tx /\ Remaining /\ Execute
  BY ExecuteInTx DEF MigrationInv, Execute
<1>1. /\ Kept /\ Moves("calls", "calls") /\ Authenticated /\ ~tx.authenticated /\ tx.nonce # NoNonce
      /\ UNCHANGED <<wasm, signers, initialized>>
  BY <1>t, ExecuteTx DEF RequireAuth, instance
<1>2. initialized
  BY <1>1 DEF DeployInv, WholeAccount, Moves, Authenticated, EntryAccepted, Current
<1>3. executed # <<>> => AccountNow = CommittedAccount
  BY <1>t, <1>1 DEF TraceInv, Committed, CommittedAccount, AccountNow, Current, LockInv, Guarded
<1>4. /\ Asked' = Asked /\ AccountNow' = AccountNow /\ CommittedAccount' = CommittedAccount
      /\ executed' = executed /\ tx'.calls = Asked /\ tx'.trail = <<AccountNow>>
  BY <1>t, <1>1 DEF Kept, Authenticated, Asked, AccountNow, Committed, CommittedAccount, Remaining
<1>5. Len(Asked) \in Nat
  BY <1>1, <1>t, NoNonceAssumption, InvocationsAssumption DEF Asked, TypeOK, Tx, Entry
<1>6. Len(<<AccountNow>>) = 1 /\ <<AccountNow>>[1] = AccountNow
  OBVIOUS
<1> QED BY <1>1, <1>2, <1>3, <1>4, <1>5, <1>6 DEF Traced

\* A transaction that ends has carried out the whole of its entry.
LEMMA CommitTraced ==
    ASSUME TypeOK, AuthInv, LockInv, MigrationInv, TraceInv, Commit
    PROVE  TraceInv'
<1>1. /\ tx # NoTx /\ tx \in Tx /\ tx' = NoTx /\ entries' = entries /\ tx.calls = <<>> /\ Remaining
      /\ tx.phase = "calls" /\ (tx.nonce # NoNonce => tx.authenticated) /\ Current' = Current
  BY DEF Commit, InPhase, TypeOK, MigrationInv, Current, ledger, instance
<1>2. /\ Committed' = Current /\ CommittedAccount' = AccountNow /\ Committed'.initialized = initialized
  BY <1>1 DEF Committed, CommittedAccount, AccountNow, Current
<1>3. CASE tx.nonce = NoNonce
  <2>1. executed' = executed /\ ~tx.authenticated
    BY <1>1, <1>3, NoNonceAssumption DEF Commit, AuthInv, Decided
  <2>2. executed # <<>> => Committed' = Committed
    BY <1>1, <1>2, <2>1 DEF TraceInv, Committed, LockInv, Guarded
  <2>3. EntriesAccountForState'
    BY <1>1, <2>1, <2>2, HistoryKept DEF TraceInv
  <2> QED BY <1>1, <2>1, <2>2, <2>3 DEF TraceInv
<1>4. CASE tx.nonce # NoNonce
  <2> DEFINE e == [nonce |-> tx.nonce, time |-> now, signers |-> tx.view,
                   proofs |-> entries[tx.nonce].proofs, trail |-> tx.trail]
  <2>0. PICK n \in Nat : n = Len(executed)
    BY DEF TypeOK
  <2>1. /\ executed' = Append(executed, e) /\ e.nonce = tx.nonce /\ e.trail = tx.trail
        /\ executed \in Seq(Execution) /\ Traced
    BY <1>1, <1>4 DEF Commit, TypeOK, TraceInv
  <2> HIDE DEF e
  <2>2. /\ DOMAIN executed' = 1 .. n + 1 /\ DOMAIN executed = 1 .. n /\ Len(executed') = n + 1
        /\ executed'[n + 1] = e /\ \A i \in 1 .. n : executed'[i] = executed[i]
        /\ executed' # <<>>
    BY <2>0, <2>1
  <2>3. /\ Asked \in Seq(Context) /\ Len(tx.trail) = Len(Asked) + 1
        /\ DOMAIN Asked = 1 .. Len(tx.trail) - 1
    <3>1. Asked \in Seq(Context) /\ tx.trail \in Seq(AccountState) /\ Len(tx.calls) = 0
      BY <1>1, <1>4, NextAsked DEF Tx
    <3>2. Len(tx.trail) \in Nat /\ Len(Asked) \in Nat /\ DOMAIN Asked = 1 .. Len(Asked)
      BY <3>1
    <3>3. Len(tx.trail) + Len(tx.calls) = Len(Asked) + 1
      BY <2>1 DEF Traced
    <3>4. Len(tx.trail) = Len(Asked) + 1 /\ Len(tx.trail) - 1 = Len(Asked)
      BY <3>1, <3>2, <3>3
    <3> QED BY <3>1, <3>2, <3>4
  <2>4. /\ CallsOf(n + 1)' = Asked /\ Run(n + 1)' = tx.trail /\ End(n + 1)' = AccountNow
        /\ \A i \in 1 .. n : CallsOf(i)' = CallsOf(i) /\ Run(i)' = Run(i) /\ End(i)' = End(i)
    <3>1. \A i : CallsOf(i)' = entries[executed'[i].nonce].calls /\ Run(i)' = executed'[i].trail
      BY <1>1 DEF CallsOf, Run
    <3>2. \A i : End(i)' = Run(i)'[Len(Run(i)')]
      BY DEF End
    <3>3. tx.trail[Len(tx.trail)] = AccountNow
      BY <2>1 DEF Traced
    <3> QED BY <2>1, <2>2, <3>1, <3>2, <3>3 DEF CallsOf, Run, End, Asked
  <2>5. ASSUME NEW i \in 1 .. n + 1
        PROVE  /\ Len(Run(i)') = Len(CallsOf(i)') + 1
               /\ \A j \in DOMAIN CallsOf(i)' : Effect(Run(i)'[j], CallsOf(i)'[j], Run(i)'[j + 1])
               /\ i > 1 => Run(i)'[1] = End(i - 1)'
    <3>1. CASE i \in 1 .. n
      <4>1. i > 1 => i - 1 \in 1 .. n
        BY <2>0, <3>1
      <4> QED BY <2>2, <2>4, <3>1, <4>1 DEF TraceInv, EntriesAccountForState
    <3>2. CASE i = n + 1
      <4>1. i > 1 => n \in 1 .. n /\ i - 1 = n /\ executed # <<>>
        BY <2>0, <2>2, <3>2
      <4>2. i > 1 => tx.trail[1] = End(n)
        <5>1. executed # <<>> => End(n) = CommittedAccount
          BY <2>0 DEF TraceInv, EntriesAccountForState, CommittedAccount
        <5> QED BY <2>1, <4>1, <5>1 DEF Traced
      <4>3. \A j \in DOMAIN Asked : Effect(tx.trail[j], Asked[j], tx.trail[j + 1])
        BY <2>1, <2>3 DEF Traced
      <4> QED BY <2>3, <2>4, <3>2, <4>1, <4>2, <4>3
    <3> QED BY <2>0, <3>1, <3>2
  <2>6. End(Len(executed))' = CommittedAccount'
    <3>1. End(Len(executed))' = End(n + 1)'
      BY <2>2 DEF End, Run
    <3> QED BY <1>2, <2>4, <3>1
  <2>7. EntriesAccountForState'
    BY <2>2, <2>5, <2>6 DEF EntriesAccountForState, CommittedAccount
  <2> QED BY <1>1, <1>2, <2>1, <2>7 DEF TraceInv, Traced
<1> QED BY <1>3, <1>4

\* No step leaves a call of an executed entry without its effect.
LEMMA TraceInductive ==
    ASSUME TypeOK, DeployInv, AuthInv, LockInv, RunInv, MigrationInv, TraceInv, [Next]_vars
    PROVE  TraceInv'
<1>1. CASE UNCHANGED vars
  <2>1. UNCHANGED <<executed, entries, tx, initialized, AccountNow, Committed, CommittedAccount>>
    BY <1>1 DEF vars, ledger, instance, AccountNow, Committed, CommittedAccount, Current
  <2>2. EntriesAccountForState'
    BY <2>1, HistoryKept DEF TraceInv
  <2> QED BY <2>1, <2>2 DEF TraceInv, Traced, Asked
<1>2. CASE Outside \/ Begun
  <2>1. /\ executed' = executed /\ Committed' = Committed /\ (tx' # NoTx => ~tx'.authenticated)
        /\ \A n \in Nonces : entries[n] # NoEntry => entries'[n].calls = entries[n].calls
    BY <1>2 DEF Outside, Begun, Committed
  <2>2. EntriesAccountForState'
    BY <2>1, HistoryKept DEF TraceInv
  <2> QED BY <2>1, <2>2 DEF TraceInv
<1>3. CASE Execute
  <2>t. tx # NoTx /\ tx \in Tx /\ Remaining
    BY <1>3, ExecuteInTx DEF MigrationInv
  <2>1. CASE Fail
    <3>1. /\ tx' = NoTx /\ Committed' = Committed /\ executed' = executed /\ entries' = entries
      BY <2>t, <2>1, FailRestores DEF Committed, Fail
    <3>2. EntriesAccountForState'
      BY <3>1, HistoryKept DEF TraceInv
    <3> QED BY <3>1, <3>2 DEF TraceInv
  <2>2. CASE Commit
    BY <2>2, CommitTraced
  <2>3. CASE ~Fail /\ ~Commit
    <3>1. Kept
      BY <1>3, <2>3, ExecuteTx DEF Execute
    <3>2. Committed' = Committed /\ EntriesAccountForState'
      <4>1. Committed' = Committed
        BY <2>t, <3>1 DEF Kept, Committed
      <4> QED BY <3>1, <4>1, HistoryKept DEF Kept, TraceInv
    <3>3. CASE ConstructorCheck \/ ConstructorAdd \/ ConstructorInitialize
      <4>1. ~tx'.authenticated
        BY <1>3, <2>t, <2>3, <3>3, ExecuteTx DEF Construct, Moves, RunInv, Constructing
      <4> QED BY <3>1, <3>2, <4>1 DEF TraceInv, Kept
    <3>4. CASE RequireAuth
      <4>1. Traced'
        BY <1>3, <2>3, <3>4, RequireAuthTraced
      <4> QED BY <3>1, <3>2, <4>1 DEF TraceInv, Kept
    <3>5. CASE AddSigner \/ UpdateSigner \/ RevokeSigner \/ Upgrade \/ Migrate \/ OtherCall
      <4>1. Called
        BY <1>3, <2>3, <3>5, ExecuteTx
      <4>2. CASE ~tx.authenticated
        BY <3>1, <3>2, <4>1, <4>2 DEF TraceInv, Kept, Called
      <4>3. CASE tx.authenticated
        <5>1. initialized' = initialized
          BY <2>3, <3>5 DEF AddSigner, UpdateSigner, RevokeSigner, Upgrade, Migrate, OtherCall,
                            ledger, instance
        <5>2. AccountNow' \in AccountState
          BY <1>3, ExecuteType DEF TypeOK, Current, LedgerState, AccountNow, AccountState
        <5>3. Effect(AccountNow, Head(tx.calls), AccountNow')
          BY <2>3, <3>5, CallEffect
        <5>4. Traced /\ initialized'
          BY <2>t, <4>3, <5>1 DEF TraceInv, Traced
        <5>5. Traced'
          BY <2>t, <3>1, <4>1, <4>3, <5>2, <5>3, <5>4, CallTraced
        <5> QED BY <3>1, <3>2, <5>5 DEF TraceInv, Kept
      <4> QED BY <4>2, <4>3
    <3> QED BY <1>3, <2>3, <3>3, <3>4, <3>5 DEF Execute
  <2> QED BY <2>1, <2>2, <2>3
<1> QED BY <1>1, <1>2, <1>3, StepKinds

\* Whatever was reverted, retried or tried without an entry: the entries that
\* were executed, each with all its calls, one from where the one before had left
\* the account, account for what the account is.
THEOREM EntriesTellState == Spec => []EntriesAccountForState
<1>1. Init => TraceInv
  BY DEF Init, TraceInv, EntriesAccountForState
<1>2. TypeOK /\ DeployInv /\ AuthInv /\ LockInv /\ RunInv /\ MigrationInv /\ TraceInv /\ [Next]_vars
          => TraceInv'
  BY TraceInductive
<1>3. TraceInv => EntriesAccountForState
  BY DEF TraceInv
<1> QED BY <1>1, <1>2, <1>3, TypeCorrect, DeployInvariant, AuthInvariant, LockInvariant, RunInvariant,
           MigrationInvariant, PTL DEF Spec
=============================================================================
