---------------------------- MODULE CheckAuthProofs ----------------------------
(***************************************************************************)
(* The loops of __check_auth decide what the declarative decision says,    *)
(* for every store, map of proofs and sequence of contexts.                *)
(***************************************************************************)
EXTENDS CheckAuth, AuthorizationProofs

\* What the loops have established: which keys the current one has visited, what
\* they were found to be, and what the passes before it have left behind.
Visited == Present(proofs) \ left

LoopInv ==
    /\ pc \in {"lookup", "verify", "authorize"} => Present(proofs) # {}
    /\ pc \in {"start", "lookup"} => Present(verified) = {}
    /\ pc \in {"start", "lookup", "verify"} => context = 1
    /\ pc = "lookup" => Visited \subseteq Present(store)
    /\ pc \in {"verify", "authorize"} \/ Present(verified) # {} => AllKnown(store, proofs)
    /\ pc = "verify" =>
        /\ Present(verified) = Visited
        /\ \A k \in Visited : Verify(store[k], Payload, proofs[k]) = "Ok"
    /\ pc = "authorize" =>
        /\ Present(verified) = Present(proofs)
        /\ AllVerify(store, Payload, proofs)
        /\ \A i \in 1 .. context - 1 : ContextAuthorized(store, time, proofs, contexts[i])
        /\ context \in DOMAIN contexts =>
            \A k \in Visited : ~IsAuthorized(store[k].role, time, contexts[context])
    /\ \A k \in Present(verified) : verified[k] = store[k]
    /\ LoopsDecide

InputsOK ==
    /\ store \in SignerMap
    /\ proofs \in ProofMap(Payloads)
    /\ contexts \in Seq(Context)

\* Caching the signer of a key of the store.
LEMMA CacheEffect ==
    ASSUME NEW map \in SignerMap, NEW cache \in SignerMap, NEW k \in Present(map)
    PROVE  /\ SetEntry(cache, k, map[k]) \in SignerMap
           /\ Present(SetEntry(cache, k, map[k])) = Present(cache) \cup {k}
           /\ SetEntry(cache, k, map[k])[k] = map[k]
           /\ \A j \in SignerKeys \ {k} : SetEntry(cache, k, map[k])[j] = cache[j]
<1> DEFINE new == SetEntry(cache, k, map[k])
<1>1. k \in SignerKeys /\ map[k] \in Signer /\ map[k].key = k /\ map[k] # Missing
  BY MissingAssumption DEF Present, SignerMap
<1>2. new \in [SignerKeys -> Signer \cup {Missing}] /\ new[k] = map[k]
      /\ \A j \in SignerKeys \ {k} : new[j] = cache[j]
  BY <1>1 DEF SetEntry, SignerMap
<1>3. Present(new) = Present(cache) \cup {k}
  BY <1>1, <1>2 DEF Present
<1>4. \A j \in Present(new) : new[j].key = j
  BY <1>1, <1>2, <1>3 DEF SignerMap, Present
<1> QED BY <1>2, <1>3, <1>4 DEF SignerMap

\* Verification is one of three results (SignerVerification::verify).
LEMMA VerifyResults ==
    ASSUME NEW signer, NEW payload, NEW proof
    PROVE  Verify(signer, payload, proof) \in Results
BY DEF Verify, Ed25519Verify, Secp256r1Verify, Results

\* No signer is cached before the first is looked up.
LEMMA EmptyMap == Empty \in SignerMap /\ Present(Empty) = {}
BY DEF Empty, SignerMap, Present

-----------------------------------------------------------------------------
\* The inputs are the ones the host passed.
LEMMA InputsInit == Init => InputsOK
BY StoresAssumption, ProofMapsAssumption, ContextsAssumption DEF Init, InputsOK

\* Nothing changes the arguments of __check_auth.
LEMMA InputsNext == InputsOK /\ [Next]_vars => InputsOK'
BY DEF InputsOK, Next, Start, LookUp, VerifyProof, Authorize, Return, Goto, NextKey, NextContext,
       inputs, vars

\* The loops start from well-formed states.
LEMMA TypeInit == Init => TypeOK
<1> SUFFICES ASSUME Init PROVE TypeOK
  OBVIOUS
<1>1. contexts \in Seq(Context)
  BY ContextsAssumption DEF Init
<1>2. context \in 1 .. Len(contexts) + 1
  BY <1>1 DEF Init
<1> QED BY <1>2, EmptyMap DEF Init, TypeOK

\* One case per loop; caching is the only step that touches verified.
LEMMA TypeNext == InputsOK /\ LoopInv /\ TypeOK /\ [Next]_vars => TypeOK'
<1> SUFFICES ASSUME InputsOK, LoopInv, TypeOK, [Next]_vars PROVE TypeOK'
  OBVIOUS
<1> USE DEF TypeOK
<1>1. CASE Start
  BY <1>1 DEF Start, Return, Goto, inputs, Results
<1>2. CASE LookUp
  BY <1>2 DEF LookUp, Return, Goto, NextKey, inputs, Results
<1>3. CASE VerifyProof
  <2>1. CASE left = {} /\ Goto("authorize")
    BY <2>1, <1>3 DEF Goto, inputs, VerifyProof
  <2>2. ASSUME NEW k \in left, Return(Verify(store[k], Payload, proofs[k]))
        PROVE  TypeOK'
    BY <2>2, VerifyResults, <1>3 DEF Return, inputs, VerifyProof, Results
  <2>3. ASSUME NEW k \in left, pc = "verify", Cache(k), NextKey(k), UNCHANGED result
        PROVE  TypeOK'
    <3>1. k \in Present(store)
      BY <2>3 DEF LoopInv, AllKnown, Has
    <3>2. verified' \in SignerMap /\ Present(verified') = Present(verified) \cup {k}
      BY <2>3, <3>1, CacheEffect DEF Cache, InputsOK
    <3> QED BY <2>3, <3>2 DEF NextKey, inputs
  <2> QED BY <1>3, <2>1, <2>2, <2>3 DEF VerifyProof
<1>4. CASE Authorize
  <2>1. CASE NextContext /\ context \in DOMAIN contexts /\ UNCHANGED <<verified, result>>
    <3>1. context' \in 1 .. Len(contexts') + 1
      BY <2>1 DEF NextContext, inputs, InputsOK
    <3> QED BY <2>1, <3>1 DEF NextContext, inputs
  <2>2. ASSUME NEW k \in left, NextKey(k), UNCHANGED <<verified, result>>
        PROVE  TypeOK'
    BY <2>2 DEF NextKey, inputs
  <2>3. CASE Return("Ok") \/ Return("InsufficientPermissions")
    BY <1>4, <2>3 DEF Return, inputs, Results
  <2> QED BY <1>4, <2>1, <2>2, <2>3 DEF Authorize
<1>5. CASE UNCHANGED vars
  BY <1>5 DEF vars
<1> QED BY <1>1, <1>2, <1>3, <1>4, <1>5 DEF Next

-----------------------------------------------------------------------------
LEMMA LoopInit == Init => LoopInv
BY EmptyMap DEF Init, LoopInv, LoopsDecide

\* The pass that looks the keys up: it reaches its end when the store has all.
LEMMA LookUpNext == InputsOK /\ TypeOK /\ LoopInv /\ LookUp => LoopInv'
<1> SUFFICES ASSUME InputsOK, TypeOK, LoopInv, LookUp PROVE LoopInv'
  OBVIOUS
<1> USE DEF LoopInv, Visited
<1>1. CASE left = {} /\ Goto("verify")
  <2>1. AllKnown(store, proofs)
    BY <1>1 DEF LookUp, AllKnown, Has
  <2> QED BY <1>1, <2>1 DEF Goto, inputs, LookUp, LoopsDecide
<1>2. ASSUME NEW k \in left, ~Has(store, k), Return("SignerNotFound")
      PROVE  LoopInv'
  <2>1. ~CheckAuthOk(store, time, Payload, proofs, contexts)
    BY <1>2 DEF TypeOK, CheckAuthOk, AllKnown
  <2> QED BY <1>2, <2>1 DEF Return, inputs, LookUp, LoopsDecide
<1>3. ASSUME NEW k \in left, Has(store, k), NextKey(k), UNCHANGED <<verified, result>>
      PROVE  LoopInv'
  BY <1>3 DEF NextKey, inputs, Has, LookUp, LoopsDecide
<1> QED BY <1>1, <1>2, <1>3 DEF LookUp

\* The pass that verifies: a proof that does not verify ends it, and the cache
\* has the signers of the keys it has visited.
LEMMA VerifyNext == InputsOK /\ TypeOK /\ LoopInv /\ VerifyProof => LoopInv'
<1> SUFFICES ASSUME InputsOK, TypeOK, LoopInv, VerifyProof PROVE LoopInv'
  OBVIOUS
<1>0. pc = "verify" /\ AllKnown(store, proofs) /\ Present(proofs) # {}
  BY DEF VerifyProof, LoopInv
<1>1. CASE left = {} /\ Goto("authorize")
  <2>1. AllVerify(store, Payload, proofs)
    BY <1>0, <1>1 DEF LoopInv, Visited, AllVerify
  <2>2. \A i \in 1 .. context - 1 : ContextAuthorized(store, time, proofs, contexts[i])
    BY <1>0 DEF LoopInv
  <2> QED BY <1>0, <1>1, <2>1, <2>2 DEF Goto, inputs, LoopInv, Visited, LoopsDecide
<1>2. ASSUME NEW k \in left, Verify(store[k], Payload, proofs[k]) # "Ok",
             Return(Verify(store[k], Payload, proofs[k]))
      PROVE  LoopInv'
  <2>1. ~CheckAuthOk(store, time, Payload, proofs, contexts)
    BY <1>2 DEF TypeOK, CheckAuthOk, AllVerify
  <2> QED BY <1>0, <1>2, <2>1 DEF Return, inputs, LoopInv, LoopsDecide
<1>3. ASSUME NEW k \in left, Verify(store[k], Payload, proofs[k]) = "Ok", Cache(k), NextKey(k),
             UNCHANGED result
      PROVE  LoopInv'
  <2>1. k \in Present(store) /\ k \in Present(proofs)
    BY <1>0, <1>3 DEF TypeOK, AllKnown, Has
  <2>2. /\ Present(verified') = Present(verified) \cup {k}
        /\ verified'[k] = store[k]
        /\ \A j \in SignerKeys \ {k} : verified'[j] = verified[j]
    BY <1>3, <2>1, CacheEffect DEF Cache, InputsOK, TypeOK
  <2>3. \A j \in Present(verified') : verified'[j] = store[j]
    BY <2>2 DEF LoopInv, Present
  <2>4. Visited' = Visited \cup {k}
    BY <1>3, <2>1 DEF Visited, NextKey, inputs
  <2> QED BY <1>0, <1>3, <2>2, <2>3, <2>4 DEF NextKey, inputs, LoopInv, LoopsDecide
<1> QED BY <1>1, <1>2, <1>3 DEF VerifyProof

\* The loops that look for a signer of each context: one ends with its break or
\* when no key is left, the outer one when no context is.
LEMMA AuthorizeNext == InputsOK /\ TypeOK /\ LoopInv /\ Authorize => LoopInv'
<1> SUFFICES ASSUME InputsOK, TypeOK, LoopInv, Authorize PROVE LoopInv'
  OBVIOUS
<1>0. /\ pc = "authorize" /\ Present(proofs) # {}
      /\ AllKnown(store, proofs) /\ AllVerify(store, Payload, proofs)
      /\ \A k \in Present(proofs) : verified[k] = store[k]
      /\ \A i \in 1 .. context - 1 : ContextAuthorized(store, time, proofs, contexts[i])
      /\ context \in 1 .. Len(contexts) + 1 /\ DOMAIN contexts = 1 .. Len(contexts)
      /\ Len(contexts) \in Nat
  BY DEF Authorize, LoopInv, TypeOK, InputsOK
<1>1. CASE context \notin DOMAIN contexts /\ Return("Ok")
  <2>1. CheckAuthOk(store, time, Payload, proofs, contexts)
    BY <1>0, <1>1 DEF CheckAuthOk
  <2> QED BY <1>0, <1>1, <2>1 DEF Return, inputs, LoopInv, LoopsDecide
<1>2. ASSUME context \in DOMAIN contexts, NEW k \in left,
             IsAuthorized(verified[k].role, time, contexts[context]),
             NextContext, UNCHANGED <<verified, result>>
      PROVE  LoopInv'
  <2>1. ContextAuthorized(store, time, proofs, contexts[context])
    BY <1>0, <1>2 DEF TypeOK, ContextAuthorized
  <2>2. \A i \in 1 .. context' - 1 : ContextAuthorized(store, time, proofs, contexts[i])
    BY <1>0, <1>2, <2>1 DEF NextContext
  <2> QED BY <1>0, <1>2, <2>2 DEF NextContext, inputs, LoopInv, Visited, LoopsDecide
<1>3. ASSUME context \in DOMAIN contexts, NEW k \in left,
             ~IsAuthorized(verified[k].role, time, contexts[context]),
             NextKey(k), UNCHANGED <<verified, result>>
      PROVE  LoopInv'
  <2>1. ~IsAuthorized(store[k].role, time, contexts[context])
    BY <1>0, <1>3 DEF TypeOK
  <2> QED BY <1>0, <1>3, <2>1 DEF NextKey, inputs, LoopInv, Visited, LoopsDecide
<1>4. CASE context \in DOMAIN contexts /\ left = {} /\ Return("InsufficientPermissions")
  <2>1. ~ContextAuthorized(store, time, proofs, contexts[context])
    BY <1>0, <1>4 DEF LoopInv, Visited, ContextAuthorized
  <2>2. ~CheckAuthOk(store, time, Payload, proofs, contexts)
    BY <1>4, <2>1 DEF CheckAuthOk
  <2> QED BY <1>0, <1>4, <2>2 DEF Return, inputs, LoopInv, LoopsDecide
<1> QED BY <1>1, <1>2, <1>3, <1>4 DEF Authorize

\* An iteration of any of the three loops keeps the invariant.
LEMMA LoopNext == InputsOK /\ TypeOK /\ LoopInv /\ [Next]_vars => LoopInv'
<1> SUFFICES ASSUME InputsOK, TypeOK, LoopInv, [Next]_vars PROVE LoopInv'
  OBVIOUS
<1>1. CASE Start
  <2>1. Present(proofs) = {} => ~CheckAuthOk(store, time, Payload, proofs, contexts)
    BY DEF CheckAuthOk
  <2> QED BY <1>1, <2>1 DEF Start, Return, Goto, inputs, LoopInv, Visited, LoopsDecide
<1>2. CASE UNCHANGED vars
  BY <1>2 DEF vars, LoopInv, Visited, LoopsDecide
<1> QED BY <1>1, <1>2, LookUpNext, VerifyNext, AuthorizeNext DEF Next

-----------------------------------------------------------------------------
LEMMA LoopsInvariant == Spec => [](InputsOK /\ TypeOK /\ LoopInv)
BY InputsInit, InputsNext, TypeInit, TypeNext, LoopInit, LoopNext, PTL DEF Spec

\* The loops stay within the proof map and the contexts, and the cache holds
\* signers under their own keys.
THEOREM LoopsTypeCorrect == Spec => []TypeOK
BY LoopsInvariant, PTL

\* __check_auth returns Ok for exactly the inputs the declarative decision accepts.
THEOREM DecidesAsStated == Spec => []LoopsDecide
<1>1. LoopInv => LoopsDecide
  BY DEF LoopInv
<1> QED BY <1>1, LoopsInvariant, PTL

\* No signature is verified for an entry with an unknown key.
THEOREM KnownBeforeVerified == Spec => []LookUpBeforeVerify
<1>1. LoopInv => LookUpBeforeVerify
  BY DEF LoopInv, LookUpBeforeVerify
<1> QED BY <1>1, LoopsInvariant, PTL

\* An accepted entry that calls the account has a proof by an Admin, made with
\* the key pair stored for it and, for an Ed25519 key, over this payload.
THEOREM AcceptedCallHasAdmin == Spec => []AdminCallNeedsAdmin
<1>1. InputsOK /\ TypeOK /\ LoopInv => AdminCallNeedsAdmin
  <2> SUFFICES ASSUME InputsOK, TypeOK, LoopInv, result = "Ok",
                      NEW i \in DOMAIN contexts, IsAdminOperation(contexts[i])
               PROVE  \E k \in Present(proofs) \cap Admins(store) :
                          /\ proofs[k].pub = store[k].pub
                          /\ k \in Ed25519Keys => proofs[k].payload = Payload
    BY DEF AdminCallNeedsAdmin
  <2>1. CheckAuthOk(store, time, Payload, proofs, contexts)
    BY DEF TypeOK, LoopInv, LoopsDecide
  <2> QED BY <2>1, AdminCallNeedsAdminProof DEF InputsOK
<1> QED BY <1>1, LoopsInvariant, PTL

\* A further co-signer never turns an accepted entry into a rejected one.
THEOREM FurtherSignerAccepted == Spec => []MoreSignersStillOk
<1>1. InputsOK /\ TypeOK /\ LoopInv => MoreSignersStillOk
  <2> SUFFICES ASSUME InputsOK, TypeOK, LoopInv, result = "Ok",
                      NEW k \in Present(store) \ Present(proofs)
               PROVE  CheckAuthOk(store, time, Payload, SetEntry(proofs, k, GoodProof(store[k])), contexts)
    BY DEF MoreSignersStillOk
  <2> DEFINE proof == GoodProof(store[k])
  <2>1. CheckAuthOk(store, time, Payload, proofs, contexts)
    BY DEF TypeOK, LoopInv, LoopsDecide
  <2>2. store[k] \in Signer /\ store[k].key = k
    BY DEF InputsOK, SignerMap, Present
  <2>3. Verify(store[k], Payload, proof) = "Ok"
    BY <2>2, KeysAssumption DEF GoodProof, Verify, Ed25519Verify, Secp256r1Verify, Scheme
  <2>4. proof # Missing
    BY <2>2, ProofMapsAssumption DEF GoodProof, Proof, Scheme, Schemes, Signer
  <2> HIDE DEF proof
  <2>5. CheckAuthOk(store, time, Payload, SetEntry(proofs, k, proof), contexts)
    <3>1. store \in SignerMap /\ proofs \in ProofMap(Payloads)
      BY DEF InputsOK
    <3> QED BY <2>1, <2>3, <2>4, <3>1, MoreProofsStillOk, Zenon
  <2> QED BY <2>5 DEF proof
<1> QED BY <1>1, LoopsInvariant, PTL
=============================================================================
