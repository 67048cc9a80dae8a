---------------------------- MODULE Authorization ----------------------------
(***************************************************************************)
(* Signers, roles, policies, proofs and contexts of the smart account, and *)
(* the decision __check_auth takes on them (contracts/smart-account/src/   *)
(* auth and account.rs).  There is no state here: the operators are used   *)
(* by CheckAuth, which runs the loops of __check_auth one iteration at a   *)
(* time, and by SmartAccount, which calls the decision in a transaction.   *)
(*                                                                         *)
(* In this module and the others, Name_Variant is a wrong version of the   *)
(* definition Name that follows it: a bug the properties must detect.      *)
(*                                                                         *)
(* A key pair is its public key.  A payload is the hash the host computes  *)
(* over one authorization entry, so it is any identifier of that entry.    *)
(* Ledger timestamps are u64 in the code; they are only ever compared, so  *)
(* they are natural numbers here.                                          *)
(***************************************************************************)
EXTENDS Naturals, Sequences

CONSTANTS
    Account,        \* the address of the smart account
    Contracts,      \* all contract addresses, the account's included
    Ed25519Keys,    \* Ed25519 public keys: each is the key of its own signer
    Secp256r1Keys,  \* key_id of the Secp256r1 signers (WebAuthn credentials)
    PublicKeys,     \* Secp256r1 public keys a key_id may be registered with
    Wasms,          \* hashes of the uploaded contract builds
    Missing         \* what a map holds for a key it has no entry for

ASSUME AccountAssumption == Account \in Contracts
ASSUME KeysAssumption == Ed25519Keys \cap Secp256r1Keys = {}

-----------------------------------------------------------------------------
(* Contexts: one per invocation of the authorization entry.                *)

\* The arguments of a call only matter for the account's own functions.
Calls(fns, args) == [kind : {"Contract"}, contract : {Account}, fn : fns, arg : args]

\* Creating a contract is a context of its own kind, with no contract in it.
CreateContractContext == [kind |-> "CreateContract"]

ContractCallContext(c) == [kind |-> "Contract", contract |-> c]

-----------------------------------------------------------------------------
(* Policies of a restricted signer.                                        *)

TimeBasedPolicy == [kind : {"TimeBased"}, not_before : Nat, not_after : Nat]
ContractDenyListPolicy == [kind : {"ContractDenyList"}, denied_contracts : SUBSET Contracts]
ContractAllowListPolicy == [kind : {"ContractAllowList"}, allowed_contracts : SUBSET Contracts]

SignerPolicy == TimeBasedPolicy \cup ContractDenyListPolicy \cup ContractAllowListPolicy

TimeBasedAuthorizes_NoEnd(policy, time) == policy.not_before <= time

TimeBasedAuthorizes(policy, time) ==
    policy.not_before <= time /\ time <= policy.not_after

DenyListAuthorizes(policy, context) ==
    context.kind = "Contract" => context.contract \notin policy.denied_contracts

AllowListAuthorizes(policy, context) ==
    context.kind = "Contract" /\ context.contract \in policy.allowed_contracts

PolicyAuthorizes(policy, time, context) ==
    CASE policy.kind = "TimeBased" -> TimeBasedAuthorizes(policy, time)
      [] policy.kind = "ContractDenyList" -> DenyListAuthorizes(policy, context)
      [] policy.kind = "ContractAllowList" -> AllowListAuthorizes(policy, context)

\* PolicyValidator::check is Ok: the window is not over and not reversed, and
\* the allow list does not hold the account.  A deny list is never rejected.
TimeBasedCheck_NoEnd(policy, time) == policy.not_before <= policy.not_after

TimeBasedCheck(policy, time) ==
    time <= policy.not_after /\ policy.not_before <= policy.not_after

AllowListCheck(policy) == Account \notin policy.allowed_contracts

PolicyCheck(policy, time) ==
    CASE policy.kind = "TimeBased" -> TimeBasedCheck(policy, time)
      [] policy.kind = "ContractDenyList" -> TRUE
      [] policy.kind = "ContractAllowList" -> AllowListCheck(policy)

-----------------------------------------------------------------------------
(* Roles.                                                                  *)

Admin == [kind |-> "Admin"]
Standard == [kind |-> "Standard"]
Restricted(policies) == [kind |-> "Restricted", policies |-> policies]

SignerRole == [kind : {"Admin", "Standard"}]
              \cup [kind : {"Restricted"}, policies : Seq(SignerPolicy)]

\* Any call whose target is the account itself; creating a contract is not one.
IsAdminOperation(context) ==
    context.kind = "Contract" /\ context.contract = Account

AllPoliciesAuthorize(policies, time, context) ==
    \A i \in DOMAIN policies : PolicyAuthorizes(policies[i], time, context)

IsAuthorized_StandardIsAdmin(role, time, context) ==
    \/ role.kind \in {"Admin", "Standard"}
    \/ /\ role.kind = "Restricted"
       /\ ~IsAdminOperation(context)
       /\ AllPoliciesAuthorize(role.policies, time, context)

IsAuthorized(role, time, context) ==
    \/ role.kind = "Admin"
    \/ role.kind = "Standard" /\ ~IsAdminOperation(context)
    \/ /\ role.kind = "Restricted"
       /\ ~IsAdminOperation(context)
       /\ AllPoliciesAuthorize(role.policies, time, context)

\* The constructor runs the checks of every policy of a restricted signer.
PoliciesValid(role, time) ==
    role.kind = "Restricted" =>
        \A i \in DOMAIN role.policies : PolicyCheck(role.policies[i], time)

-----------------------------------------------------------------------------
(* Signers and the map from their keys, kept in instance storage.          *)

SignerKeys == Ed25519Keys \cup Secp256r1Keys

\* The public keys a signer stored under k can have: an Ed25519 signer is
\* keyed by its public key, a Secp256r1 signer by key_id.
Credentials(k) == IF k \in Ed25519Keys THEN {k} ELSE PublicKeys

Signer == {s \in [key : SignerKeys, pub : Ed25519Keys \cup PublicKeys, role : SignerRole] :
              s.pub \in Credentials(s.key)}

ASSUME MissingAssumption == Missing \notin Signer

\* Contexts the model distinguishes; the data a build migrates stand as the build.
Context ==
    Calls({"add_signer", "update_signer"}, Signer)
    \cup Calls({"revoke_signer"}, SignerKeys)
    \cup Calls({"upgrade", "migrate"}, Wasms)
    \cup {ContractCallContext(c) : c \in Contracts \ {Account}}
    \cup {CreateContractContext}

\* A map of the contract, in storage or in a proof: total functions on the keys,
\* Missing where the map has no entry (Storage::has, set and remove).
Empty == [k \in SignerKeys |-> Missing]
Present(map) == {k \in SignerKeys : map[k] # Missing}
Has(map, k) == k \in Present(map)
SetEntry(map, k, v) == [map EXCEPT ![k] = v]
RemoveEntry(map, k) == [map EXCEPT ![k] = Missing]

\* Every signer is stored under its own key.
SignerMap ==
    {store \in [SignerKeys -> Signer \cup {Missing}] :
        \A k \in Present(store) : store[k].key = k}

Admins(store) == {k \in Present(store) : store[k].role.kind = "Admin"}

-----------------------------------------------------------------------------
(* Proofs and the decision of __check_auth.                                *)

Schemes == {"Ed25519", "Secp256r1"}
Scheme(k) == IF k \in Ed25519Keys THEN "Ed25519" ELSE "Secp256r1"

\* A signature made with the key pair of pub over payload.
Proof(Payloads) == [scheme : Schemes, pub : Ed25519Keys \cup PublicKeys, payload : Payloads]

\* ed25519_verify of the payload; the host traps on a bad signature.
Ed25519Verify(signer, payload, proof) ==
    IF proof.scheme # "Ed25519" THEN "InvalidProofType"
    ELSE IF proof.pub = signer.pub /\ proof.payload = payload THEN "Ok" ELSE "Trap"

\* The message checked is authenticator_data and client_data_json, both taken
\* from the proof; the payload argument is not used.
Secp256r1Verify_AnyKey(signer, proof) ==
    IF proof.scheme # "Secp256r1" THEN "InvalidProofType" ELSE "Ok"

Secp256r1Verify(signer, proof) ==
    IF proof.scheme # "Secp256r1" THEN "InvalidProofType"
    ELSE IF proof.pub = signer.pub THEN "Ok" ELSE "Trap"

Verify(signer, payload, proof) ==
    IF signer.key \in Ed25519Keys THEN Ed25519Verify(signer, payload, proof)
    ELSE Secp256r1Verify(signer, proof)

\* SignatureProofs: at most one proof for each key.
ProofMap(Payloads) == [SignerKeys -> Proof(Payloads) \cup {Missing}]

\* proofs is the map of the SignatureProofs, contexts the sequence of the
\* operations the entry authorizes.
AllKnown(signers, proofs) == \A k \in Present(proofs) : Has(signers, k)

AllVerify(signers, payload, proofs) ==
    \A k \in Present(proofs) : Verify(signers[k], payload, proofs[k]) = "Ok"

ContextAuthorized_ByAll(signers, time, proofs, context) ==
    \A k \in Present(proofs) : IsAuthorized(signers[k].role, time, context)

ContextAuthorized(signers, time, proofs, context) ==
    \E k \in Present(proofs) : IsAuthorized(signers[k].role, time, context)

\* __check_auth returns Ok.
CheckAuthOk(signers, time, payload, proofs, contexts) ==
    /\ Present(proofs) # {}
    /\ AllKnown(signers, proofs)
    /\ AllVerify(signers, payload, proofs)
    /\ \A i \in DOMAIN contexts : ContextAuthorized(signers, time, proofs, contexts[i])
=============================================================================
