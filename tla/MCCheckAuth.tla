----------------------------- MODULE MCCheckAuth -----------------------------
(* An Ed25519 and a Secp256r1 signer with every combination of roles, every
   kind of proof for each of them, and up to two contexts of each kind. *)
EXTENDS CheckAuth

CONSTANTS k1, p1, q1, q2, account, dapp, other, w2, payload, stale

MCContracts == {account, dapp, other}
MCEd25519Keys == {k1}
MCSecp256r1Keys == {p1}
MCPublicKeys == {q1, q2}
MCKeyOrder == <<k1, p1>>
MCWasms == {w2}

Window(from, to) == [kind |-> "TimeBased", not_before |-> from, not_after |-> to]
Deny(cs) == [kind |-> "ContractDenyList", denied_contracts |-> cs]
Allow(cs) == [kind |-> "ContractAllowList", allowed_contracts |-> cs]

Roles == {Admin, Standard, Restricted(<<>>), Restricted(<<Window(1, 2)>>),
          Restricted(<<Deny({dapp})>>), Restricted(<<Allow({dapp}), Window(2, 3)>>)}

SignersOf(k, pub) == [key : {k}, pub : {pub}, role : Roles]
Pairs(S, T) == {SetEntry(SetEntry(Empty, s.key, s), t.key, t) : s \in S, t \in T}
Singles(S) == {SetEntry(Empty, s.key, s) : s \in S}

MCStores == {Empty} \cup Singles(SignersOf(k1, k1)) \cup Singles(SignersOf(p1, q1))
            \cup Pairs(SignersOf(k1, k1), SignersOf(p1, q1))

\* Over this payload or another one, of the right key pair or not, and of the
\* scheme of the other kind of signer.
ProofsOf(k, right, wrong) ==
    {[scheme |-> Scheme(k), pub |-> pub, payload |-> p] : pub \in {right, wrong}, p \in {payload, stale}}
    \cup {[scheme |-> CHOOSE s \in Schemes : s # Scheme(k), pub |-> right, payload |-> payload]}

MCProofMaps ==
    {Empty}
    \cup {SetEntry(Empty, k1, p) : p \in ProofsOf(k1, k1, q1)}
    \cup {SetEntry(Empty, p1, p) : p \in ProofsOf(p1, q1, q2)}
    \cup {SetEntry(SetEntry(Empty, k1, p), p1, q) : p \in ProofsOf(k1, k1, q1), q \in ProofsOf(p1, q1, q2)}

Kinds == {[kind |-> "Contract", contract |-> account, fn |-> "revoke_signer", arg |-> k1],
          ContractCallContext(dapp), ContractCallContext(other), CreateContractContext}
MCContexts == {<<>>} \cup {<<c>> : c \in Kinds} \cup {<<c, d>> : c \in Kinds, d \in Kinds}
MCPayloads == {payload, stale}
MCTimes == {0, 2, 3}
=============================================================================
