----------------------------- MODULE MCFactory -----------------------------
(***************************************************************************)
(* Instances of Factory for TLC: a root, a keeper who administers the role *)
(* deployer, and a deployer.                                               *)
(***************************************************************************)
EXTENDS FactoryProperties, TLC

CONSTANTS root, keeper, worker, deployer, dep_admin, s1, s2, mine, yours, bad, me, you,
          outside, factory

Perms == Permutations(Nonces)

Owner == (mine :> me) @@ (yours :> you) @@ (bad :> me)

Deploying(fn, caller, salt, build, calls) ==
    [fn |-> fn, caller |-> caller, salt |-> salt, build |-> build, calls |-> calls]
Changing(fn, caller, account, role) ==
    [fn |-> fn, caller |-> caller, account |-> account, role |-> role]

\* Who may deploy: roles given, taken and renounced, and the administration.
RoleRequests == {
    [fn |-> "set_role_admin", caller |-> root, role |-> deployer, adminRole |-> dep_admin],
    Changing("grant_role", root, keeper, dep_admin),
    Changing("revoke_role", root, keeper, dep_admin),
    Changing("grant_role", keeper, worker, deployer),
    Changing("grant_role", root, worker, deployer),
    Changing("revoke_role", root, worker, deployer),
    [fn |-> "renounce_role", caller |-> root, role |-> deployer],
    [fn |-> "renounce_admin", caller |-> root],
    [fn |-> "transfer_admin_role", caller |-> root, account |-> keeper, live |-> TRUE],
    [fn |-> "transfer_admin_role", caller |-> root, account |-> keeper, live |-> FALSE],
    [fn |-> "accept_admin_transfer", caller |-> keeper],
    Deploying("deploy", root, s1, mine, <<>>),
    Deploying("upload_and_deploy", worker, s1, yours, <<>>)}

\* What is deployed and called: two deployments for one salt, a build that
\* fails, calls of what was deployed, of another salt and of the factory.
CallRequests == {
    Deploying("deploy_account_and_invoke", root, s1, mine, <<s1, outside>>),
    Deploying("deploy_account_and_invoke", root, s1, yours, <<outside>>),
    Deploying("deploy_account_and_invoke", worker, s2, yours, <<s2, s1>>),
    Deploying("deploy_account_and_invoke", root, s2, mine, <<outside, factory>>),
    Deploying("deploy", root, s1, yours, <<>>),
    Deploying("deploy", root, s2, bad, <<>>),
    Changing("grant_role", root, worker, deployer)}
=============================================================================
