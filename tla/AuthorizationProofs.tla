------------------------- MODULE AuthorizationProofs -------------------------
(***************************************************************************)
(* Lemmas about the decision of __check_auth, for every signer map, every  *)
(* map of proofs and every sequence of contexts.                           *)
(***************************************************************************)
EXTENDS Authorization, TLAPS

\* A signer whose proof is accepted has the key pair that made it; an Ed25519
\* signer has made it over the payload.
LEMMA VerifyMeans ==
    ASSUME NEW signer \in Signer, NEW payload, NEW proof, Verify(signer, payload, proof) = "Ok"
    PROVE  /\ proof.pub = signer.pub
           /\ signer.key \in Ed25519Keys => proof.payload = payload
BY DEF Verify, Ed25519Verify, Secp256r1Verify

\* A role may not authorize more than a stronger one: what a restricted signer
\* may do a standard one may do, and an admin may do anything.
THEOREM RolesAreOrdered ==
    ASSUME NEW role \in SignerRole, NEW time \in Nat, NEW context \in Context,
           IsAuthorized(role, time, context)
    PROVE  /\ role.kind # "Admin" => IsAuthorized(Standard, time, context)
           /\ IsAuthorized(Admin, time, context)
BY DEF IsAuthorized, Standard, Admin, SignerRole

\* An authorization that includes a call to the account itself has a proof by
\* an Admin among its proofs, made by the key pair stored for it, and over the
\* payload if its key is an Ed25519 one.
THEOREM AdminCallNeedsAdminProof ==
    ASSUME NEW signers \in SignerMap, NEW time, NEW payload, NEW proofs, NEW contexts,
           CheckAuthOk(signers, time, payload, proofs, contexts),
           NEW i \in DOMAIN contexts, IsAdminOperation(contexts[i])
    PROVE  \E k \in Present(proofs) \cap Admins(signers) :
               /\ proofs[k].pub = signers[k].pub
               /\ k \in Ed25519Keys => proofs[k].payload = payload
<1>1. PICK k \in Present(proofs) : IsAuthorized(signers[k].role, time, contexts[i])
  BY DEF CheckAuthOk, ContextAuthorized
<1>2. k \in SignerKeys /\ k \in Present(signers) /\ Verify(signers[k], payload, proofs[k]) = "Ok"
  BY DEF CheckAuthOk, AllKnown, AllVerify, Has, Present
<1>3. signers[k] \in Signer /\ signers[k].key = k
  BY <1>2 DEF SignerMap, Present
<1>4. signers[k].role.kind = "Admin"
  BY <1>1 DEF IsAuthorized
<1>5. /\ proofs[k].pub = signers[k].pub
      /\ k \in Ed25519Keys => proofs[k].payload = payload
  BY <1>2, <1>3, VerifyMeans
<1> QED BY <1>1, <1>2, <1>4, <1>5 DEF Admins

\* A policy the constructor accepts can be met: a window that passes its check
\* is open in this ledger or in a later one.
THEOREM CheckedWindowOpens ==
    ASSUME NEW policy \in TimeBasedPolicy, NEW time \in Nat, PolicyCheck(policy, time)
    PROVE  \E later \in Nat : later >= time /\ TimeBasedAuthorizes(policy, later)
<1>1. time <= policy.not_after /\ policy.not_before <= policy.not_after /\ policy.not_after \in Nat
  BY DEF TimeBasedPolicy, PolicyCheck, TimeBasedCheck
<1>2. policy.not_after >= time /\ TimeBasedAuthorizes(policy, policy.not_after)
  BY <1>1 DEF TimeBasedPolicy, TimeBasedAuthorizes
<1> QED BY <1>1, <1>2

\* A proof more, by a signer of the account that verifies over this payload,
\* never turns an accepted authorization into a rejected one.
THEOREM MoreProofsStillOk ==
    ASSUME NEW signers \in SignerMap, NEW time, NEW payload, NEW contexts,
           NEW P, NEW proofs \in ProofMap(P),
           CheckAuthOk(signers, time, payload, proofs, contexts),
           NEW k \in Present(signers) \ Present(proofs), NEW proof, proof # Missing,
           Verify(signers[k], payload, proof) = "Ok"
    PROVE  CheckAuthOk(signers, time, payload, SetEntry(proofs, k, proof), contexts)
<1> DEFINE more == SetEntry(proofs, k, proof)
<1>1. k \in SignerKeys
  BY DEF Present
<1>2. more[k] = proof /\ \A j \in SignerKeys \ {k} : more[j] = proofs[j]
  BY <1>1 DEF SetEntry, ProofMap
<1>3. Present(more) = Present(proofs) \cup {k}
  BY <1>1, <1>2 DEF Present
<1>4. AllKnown(signers, more) /\ AllVerify(signers, payload, more)
  <2>1. \A j \in Present(proofs) : j \in SignerKeys \ {k}
    BY DEF Present
  <2> QED BY <1>2, <1>3, <2>1 DEF CheckAuthOk, AllKnown, AllVerify, Has
<1>5. \A i \in DOMAIN contexts : ContextAuthorized(signers, time, more, contexts[i])
  BY <1>3 DEF CheckAuthOk, ContextAuthorized
<1>6. Present(more) # {}
  BY <1>3
<1> QED BY <1>4, <1>5, <1>6 DEF CheckAuthOk
=============================================================================
