--------------------------- MODULE AccessControl ---------------------------
(***************************************************************************)
(* Access control as the contract factory uses it: the state and the       *)
(* operations of the stellar_access_control crate, which is not part of    *)
(* this repository (contracts/contract-factory implements its trait with   *)
(* the default bodies; packages/factory lists its functions and errors).   *)
(*                                                                         *)
(* One admin, and roles held by addresses.  A role may have another role   *)
(* as its admin, whose holders grant and revoke it as the admin does.      *)
(* The admin hands over in two transactions, its own and the acceptance of *)
(* the other, between which any others may be executed.                    *)
(***************************************************************************)
CONSTANTS
    Addresses,   \* those who may hold roles
    Roles,       \* the roles, symbols in the code
    NoAddress,   \* admin, after it was renounced; pendingAdmin, when there is none
    NoRole       \* the admin role of a role that has none

ASSUME NoAddressAssumption == NoAddress \notin Addresses
ASSUME NoRoleAssumption == NoRole \notin Roles

VARIABLES
    admin,         \* Admin
    pendingAdmin,  \* PendingAdmin: who may accept the transfer of the admin
    holders,       \* HasRole: who holds each role
    roleAdmin      \* RoleAdmin: the role that administers each role

access == <<admin, pendingAdmin, holders, roleAdmin>>

AccessTypeOK ==
    /\ admin \in Addresses \cup {NoAddress}
    /\ pendingAdmin \in Addresses \cup {NoAddress}
    /\ holders \in [Roles -> SUBSET Addresses]
    /\ roleAdmin \in [Roles -> Roles \cup {NoRole}]

HasRole(address, role) == address \in holders[role]

\* ensure_if_admin_or_admin_role
MayAdminister_AnyHolder(caller, role) ==
    caller = admin \/ \E r \in Roles : HasRole(caller, r)

MayAdminister(caller, role) ==
    \/ caller = admin
    \/ roleAdmin[role] # NoRole /\ HasRole(caller, roleAdmin[role])

\* set_admin, then grant_role_no_auth
AccessInit(root, role) ==
    /\ admin = root
    /\ pendingAdmin = NoAddress
    /\ holders = [r \in Roles |-> IF r = role THEN {root} ELSE {}]
    /\ roleAdmin = [r \in Roles |-> NoRole]

\* An address that already holds the role is granted it again without effect.
Grant(address, role) ==
    /\ holders' = [holders EXCEPT ![role] = @ \cup {address}]
    /\ UNCHANGED <<admin, pendingAdmin, roleAdmin>>

Revoke(address, role) ==
    /\ holders' = [holders EXCEPT ![role] = @ \ {address}]
    /\ UNCHANGED <<admin, pendingAdmin, roleAdmin>>

SetRoleAdmin(role, by) ==
    /\ roleAdmin' = [roleAdmin EXCEPT ![role] = by]
    /\ UNCHANGED <<admin, pendingAdmin, holders>>

RenounceAdmin ==
    /\ admin' = NoAddress
    /\ UNCHANGED <<pendingAdmin, holders, roleAdmin>>

TransferAdmin(to) ==
    /\ pendingAdmin' = to
    /\ UNCHANGED <<admin, holders, roleAdmin>>

AcceptAdmin ==
    /\ admin' = pendingAdmin
    /\ pendingAdmin' = NoAddress
    /\ UNCHANGED <<holders, roleAdmin>>
=============================================================================
