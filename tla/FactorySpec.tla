----------------------------- MODULE FactorySpec -----------------------------
(***************************************************************************)
(* What the contract factory promises: an order is carried out at most     *)
(* once, as a whole, in one step; only a deployer of that moment deploys;  *)
(* the address of a salt is given once; and the calls that come with a     *)
(* deployment are those its owner endorsed, each made once, in order.      *)
(***************************************************************************)
EXTENDS Naturals, Sequences

CONSTANTS Root, Deployer, Salts, Owners, OwnerOf, Nonces, Requests, NoContract, NoOrder

VARIABLES
    orders,      \* the order signed with each nonce
    endorsed,    \* the owners who have endorsed it
    settled,     \* the nonces of the orders carried out
    deployers,   \* the addresses that may deploy
    contracts,   \* what was deployed at the address of each salt
    called       \* the calls made after deployments

vars == <<orders, endorsed, settled, deployers, contracts, called>>

Init ==
    /\ orders = [n \in Nonces |-> NoOrder]
    /\ endorsed = [n \in Nonces |-> {}]
    /\ settled = {}
    /\ deployers = {Root}
    /\ contracts = [s \in Salts |-> NoContract]
    /\ called = <<>>

Sign(n, order) ==
    /\ orders[n] = NoOrder
    /\ orders' = [orders EXCEPT ![n] = order]
    /\ UNCHANGED <<endorsed, settled, deployers, contracts, called>>

Endorse(n, owner) ==
    /\ n \notin settled
    /\ endorsed' = [endorsed EXCEPT ![n] = @ \cup {owner}]
    /\ UNCHANGED <<orders, settled, deployers, contracts, called>>

Settle(n) ==
    /\ orders[n] # NoOrder
    /\ n \notin settled
    /\ settled' = settled \cup {n}
    /\ UNCHANGED <<orders, endorsed>>

Calls(n) ==
    [i \in DOMAIN orders[n].calls |->
        [what |-> "called", nonce |-> n, target |-> orders[n].calls[i]]]

Deploy(n) ==
    /\ Settle(n)
    /\ orders[n].fn \in {"deploy", "upload_and_deploy", "deploy_account_and_invoke"}
    /\ orders[n].caller \in deployers
    /\ contracts[orders[n].salt] = NoContract
    /\ orders[n].fn = "deploy_account_and_invoke" => OwnerOf[orders[n].build] \in endorsed[n]
    /\ contracts' = [contracts EXCEPT ![orders[n].salt] = orders[n].build]
    /\ called' = called \o Calls(n)
    /\ UNCHANGED deployers

Appoint(n) ==
    /\ Settle(n)
    /\ orders[n].fn = "grant_role"
    /\ orders[n].role = Deployer
    /\ deployers' = deployers \cup {orders[n].account}
    /\ UNCHANGED <<contracts, called>>

Dismiss(n) ==
    /\ Settle(n)
    /\ \/ /\ orders[n].fn = "revoke_role"
          /\ deployers' = deployers \ {orders[n].account}
       \/ /\ orders[n].fn = "renounce_role"
          /\ deployers' = deployers \ {orders[n].caller}
    /\ orders[n].role = Deployer
    /\ UNCHANGED <<contracts, called>>

\* An order about other roles, or about who administers them.
Administer(n) ==
    /\ Settle(n)
    /\ orders[n].fn \in {"grant_role", "revoke_role", "renounce_role",
                         "set_role_admin", "renounce_admin",
                         "transfer_admin_role", "accept_admin_transfer"}
    /\ UNCHANGED <<deployers, contracts, called>>

Next ==
    \E n \in Nonces :
        \/ \E order \in Requests : Sign(n, order)
        \/ \E owner \in Owners : Endorse(n, owner)
        \/ Deploy(n) \/ Appoint(n) \/ Dismiss(n) \/ Administer(n)

Spec == Init /\ [][Next]_vars
=============================================================================
