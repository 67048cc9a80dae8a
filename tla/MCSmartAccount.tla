--------------------------- MODULE MCSmartAccount ---------------------------
(* The instances of SmartAccount that TLC checks: two Ed25519 keys, a passkey
   with two key pairs, and the requests in which signers, roles, policies and
   the order of transactions matter. *)
EXTENDS SmartAccountProperties, TLC

CONSTANTS k1, k2, p1, q1, q2, account, dapp, factory, w1, w2, n1, n2, n3

Perms == Permutations(Nonces)

MCContracts == {account, dapp, factory}

Window(from, to) == [kind |-> "TimeBased", not_before |-> from, not_after |-> to]
Allow(cs) == [kind |-> "ContractAllowList", allowed_contracts |-> cs]
Deny(cs) == [kind |-> "ContractDenyList", denied_contracts |-> cs]

S(k, pub, role) == [key |-> k, pub |-> pub, role |-> role]
Add(s) == [kind |-> "Contract", contract |-> account, fn |-> "add_signer", arg |-> s]
Update(s) == [kind |-> "Contract", contract |-> account, fn |-> "update_signer", arg |-> s]
Revoke(k) == [kind |-> "Contract", contract |-> account, fn |-> "revoke_signer", arg |-> k]
UpgradeTo(w) == [kind |-> "Contract", contract |-> account, fn |-> "upgrade", arg |-> w]
MigrateTo(w) == [kind |-> "Contract", contract |-> account, fn |-> "migrate", arg |-> w]
Dapp == ContractCallContext(dapp)
ByDeployer == ContractCallContext(factory)

K1 == S(k1, k1, Admin)
Session == S(k2, k2, Restricted(<<Window(1, 1), Allow({dapp})>>))
Passkey == S(p1, q1, Admin)
Invalid == S(k2, k2, Restricted(<<Allow({account})>>))

\* Two Ed25519 signers: a session key with a window, demotion and promotion,
\* single calls and batches, one of which fails half-way.
EdInvocations ==
    {<<Dapp>>, <<Add(Session)>>, <<Revoke(k2)>>, <<Revoke(k1)>>, <<UpgradeTo(w2)>>,
     <<Update(S(k1, k1, Standard))>>,
     <<Dapp, Update(S(k1, k1, Standard)), Add(S(k2, k2, Admin))>>,
     <<ByDeployer, Add(Session)>>}
EdConstructorArgs ==
    {<<K1>>, <<K1, Session>>, <<Session>>, <<K1, S(k1, k1, Standard)>>, <<K1, Invalid>>}

\* A passkey beside an Ed25519 signer: its key pair is rotated under the same
\* key_id, by update_signer and by a batch that revokes it and adds it again.  It
\* is upgraded to a build that migrates, and back to one that does not.
PasskeyInvocations ==
    {<<CreateContractContext>>, <<Update(S(p1, q2, Admin))>>, <<Update(S(p1, q2, Standard))>>,
     <<Dapp, Revoke(p1), Add(S(p1, q2, Admin))>>, <<Update(S(k1, k1, Restricted(<<Deny({dapp})>>)))>>,
     <<ByDeployer, Update(S(p1, q2, Admin))>>,
     <<UpgradeTo(w2), MigrateTo(w2)>>, <<MigrateTo(w2)>>, <<UpgradeTo(w2), UpgradeTo(w1)>>}
PasskeyConstructorArgs == {<<K1, S(p1, q1, Standard)>>, <<Passkey, S(k1, k1, Standard)>>}

\* Admins come and go over three transactions, signed at any time before.  There
\* are calls and constructors that fail, early and late.
AdminInvocations ==
    {<<Update(S(k1, k1, Standard))>>, <<Revoke(k1)>>, <<Dapp, Add(K1), Revoke(k2)>>,
     <<ByDeployer, Add(S(k2, k2, Admin))>>, <<Add(S(k2, k2, Admin))>>}
AdminConstructorArgs == {<<K1>>, <<K1, Invalid>>}
=============================================================================
