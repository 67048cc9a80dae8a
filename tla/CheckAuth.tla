------------------------------ MODULE CheckAuth ------------------------------
(***************************************************************************)
(* One run of __check_auth (contracts/smart-account/src/account.rs), one   *)
(* loop iteration per step: the pass that looks every key up, the pass     *)
(* that verifies every proof and caches its signer, and the nested loops   *)
(* that look for an authorized signer of each context.                     *)
(***************************************************************************)
EXTENDS Authorization

CONSTANTS
    KeyOrder,   \* the signer keys in the order of Soroban's maps
    Payload,    \* the payload the host passes
    Payloads,   \* the payloads proofs are made over
    Stores,     \* the signer maps the account may hold
    Times,      \* the ledger timestamps of the run
    ProofMaps,  \* the maps from keys to proofs the entry may carry
    Contexts    \* the sequences of contexts it may authorize

ASSUME KeyOrderAssumption ==
    /\ KeyOrder \in Seq(SignerKeys)
    /\ \A i, j \in DOMAIN KeyOrder : KeyOrder[i] = KeyOrder[j] => i = j
    /\ SignerKeys = {KeyOrder[i] : i \in DOMAIN KeyOrder}
ASSUME StoresAssumption == Stores \subseteq SignerMap
ASSUME ProofMapsAssumption ==
    /\ Payload \in Payloads /\ Missing \notin Proof(Payloads)
    /\ ProofMaps \subseteq ProofMap(Payloads)
ASSUME ContextsAssumption == Contexts \subseteq Seq(Context)

VARIABLES
    store,      \* the signers in instance storage
    time,       \* env.ledger().timestamp()
    proofs,     \* proof_map
    contexts,   \* auth_contexts
    pc,         \* the loop being run
    left,       \* the keys proof_map.iter() has yet to visit in the current loop
    context,    \* position in auth_contexts of the outer loop of step 2
    verified,   \* verified_signers
    result      \* what the function returned, or "none" before it does

inputs == <<store, time, proofs, contexts>>
vars == <<store, time, proofs, contexts, pc, left, context, verified, result>>

Results == {"Ok", "NoProofsInAuthEntry", "SignerNotFound", "InvalidProofType",
            "Trap", "InsufficientPermissions"}

\* proof_map.iter() visits the keys in the order of the map.
Earlier(k, j) ==
    \E m, n \in DOMAIN KeyOrder : m < n /\ KeyOrder[m] = k /\ KeyOrder[n] = j

IsNext(k) == k \in left /\ \A j \in left \ {k} : Earlier(k, j)

Init ==
    /\ store \in Stores
    /\ time \in Times
    /\ proofs \in ProofMaps
    /\ contexts \in Contexts
    /\ pc = "start"
    /\ left = {}
    /\ context = 1
    /\ verified = Empty
    /\ result = "none"

Return(value) ==
    /\ result' = value
    /\ pc' = "done"
    /\ UNCHANGED <<inputs, left, context, verified>>

Goto(loop) ==
    /\ pc' = loop
    /\ left' = Present(proofs)
    /\ UNCHANGED <<inputs, context, verified, result>>

NextKey(k) == left' = left \ {k} /\ UNCHANGED <<inputs, pc, context>>

Start ==
    /\ pc = "start"
    /\ \/ Present(proofs) = {} /\ Return("NoProofsInAuthEntry")
       \/ Present(proofs) # {} /\ Goto("lookup")

\* if !storage.has(signer_key) { return Err(SignerNotFound) }
LookUp_FirstOnly ==
    /\ pc = "lookup"
    /\ \E k \in left :
        /\ IsNext(k)
        /\ \/ ~Has(store, k) /\ Return("SignerNotFound")
           \/ Has(store, k) /\ Goto("verify")

LookUp ==
    /\ pc = "lookup"
    /\ \/ \E k \in left :
            /\ IsNext(k)
            /\ \/ ~Has(store, k) /\ Return("SignerNotFound")
               \/ Has(store, k) /\ NextKey(k) /\ UNCHANGED <<verified, result>>
       \/ left = {} /\ Goto("verify")

Cache_OneKey(k) == verified' = SetEntry(verified, KeyOrder[1], store[k])
Cache(k) == verified' = SetEntry(verified, k, store[k])

\* signer.verify(payload, proof)?; verified_signers.set(signer_key, signer)
VerifyProof ==
    /\ pc = "verify"
    /\ \/ \E k \in left :
            /\ IsNext(k)
            /\ LET outcome == Verify(store[k], Payload, proofs[k])
               IN  \/ outcome # "Ok" /\ Return(outcome)
                   \/ outcome = "Ok" /\ Cache(k) /\ NextKey(k) /\ UNCHANGED result
       \/ left = {} /\ Goto("authorize")

\* context_authorized = true; break
NextContext_NoReset == context' = context + 1 /\ UNCHANGED <<inputs, pc, left>>
NextContext == context' = context + 1 /\ left' = Present(proofs) /\ UNCHANGED <<inputs, pc>>

Authorize ==
    /\ pc = "authorize"
    /\ \/ context \notin DOMAIN contexts /\ Return("Ok")
       \/ /\ context \in DOMAIN contexts
          /\ \E k \in left :
                /\ IsNext(k)
                /\ \/ /\ IsAuthorized(verified[k].role, time, contexts[context])
                      /\ NextContext
                   \/ /\ ~IsAuthorized(verified[k].role, time, contexts[context])
                      /\ NextKey(k)
          /\ UNCHANGED <<verified, result>>
       \/ /\ context \in DOMAIN contexts
          /\ left = {}
          /\ Return("InsufficientPermissions")

Next == Start \/ LookUp \/ VerifyProof \/ Authorize

Spec == Init /\ [][Next]_vars

-----------------------------------------------------------------------------
\* The loops stay within the proof map and the contexts, and the cache holds
\* signers of the store under keys of the proof map.
TypeOK ==
    /\ pc \in {"start", "lookup", "verify", "authorize", "done"}
    /\ left \subseteq Present(proofs)
    /\ context \in 1 .. Len(contexts) + 1
    /\ verified \in SignerMap /\ Present(verified) \subseteq Present(proofs)
    /\ result \in Results \cup {"none"}
    /\ result = "none" <=> pc # "done"

\* The loops, with their early returns and their break, return Ok for exactly
\* the inputs the declarative decision accepts (account.rs: __check_auth).
LoopsDecide ==
    pc = "done" => (result = "Ok" <=> CheckAuthOk(store, time, Payload, proofs, contexts))

\* No signature is verified, and so none is paid for, when some key of the entry
\* is unknown: the look-up is a pass of its own, before the first verification.
LookUpBeforeVerify == Present(verified) # {} => AllKnown(store, proofs)

\* An authorization that includes a call to the account itself needs a proof by
\* an Admin, made with the key pair stored for it and, if it is an Ed25519 one,
\* over the payload of this call; whatever the roles of the other signers and
\* however many other contexts they may authorize.
AdminCallNeedsAdmin ==
    result = "Ok" /\ (\E i \in DOMAIN contexts : IsAdminOperation(contexts[i])) =>
        \E k \in Present(proofs) \cap Admins(store) :
            /\ proofs[k].pub = store[k].pub
            /\ k \in Ed25519Keys => proofs[k].payload = Payload

\* A proof more, by a signer of the account over this payload, never turns an
\* accepted authorization into a rejected one.
GoodProof(signer) == [scheme |-> Scheme(signer.key), pub |-> signer.pub, payload |-> Payload]

MoreSignersStillOk ==
    result = "Ok" => \A k \in Present(store) \ Present(proofs) :
        CheckAuthOk(store, time, Payload, SetEntry(proofs, k, GoodProof(store[k])), contexts)

\* Every accepted proof is a signature over the payload the host passed.
AcceptedProofsSignPayload ==
    result = "Ok" => \A k \in Present(proofs) : proofs[k].payload = Payload
=============================================================================
