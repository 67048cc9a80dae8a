----------------------------- MODULE AccountSpec -----------------------------
(***************************************************************************)
(* What a smart account promises to its owners, with no transactions and   *)
(* no entries: the account comes into being whole, with an Admin among its *)
(* signers; after that its configuration (the signers and the code) only   *)
(* changes at once, and only with an approval nobody has used before, made *)
(* by a key that is an Admin's at that moment over exactly that change.    *)
(***************************************************************************)
CONSTANTS
    Approvals,       \* identifiers of what may be approved
    Pubs,            \* public keys
    InitialSigners,  \* sets of signers an account may be created with
    InitialCode,     \* code an account is created with
    NoConfig

VARIABLES
    config,   \* NoConfig, or the code and the set of signers of the account
    signed,   \* <<pub, a>>: the holder of pub has approved a
    used      \* approvals that have taken effect

specVars == <<config, signed, used>>

SpecInit == config = NoConfig /\ signed = {} /\ used = {}

AdminsOf(set) == {s \in set : s.role.kind = "Admin"}

SignedBy(set, a) == \E s \in set : <<s.pub, a>> \in signed

Sign(pub, a) == signed' = signed \cup {<<pub, a>>} /\ UNCHANGED <<config, used>>

Use(a) == a \notin used /\ used' = used \cup {a} /\ UNCHANGED signed

Create ==
    /\ config = NoConfig
    /\ \E set \in InitialSigners :
          /\ AdminsOf(set) # {}
          /\ config' = [code |-> InitialCode, signers |-> set]
    /\ UNCHANGED <<signed, used>>

\* One transaction creates the account and makes the first changes, approved by
\* the signers it is created with.
CreateAndUse(a) ==
    /\ config = NoConfig
    /\ Use(a)
    /\ \E set \in InitialSigners :
          /\ AdminsOf(set) # {}
          /\ SignedBy(set, a)
          /\ \/ config' = [code |-> InitialCode, signers |-> set]
             \/ config' # NoConfig /\ SignedBy(AdminsOf(set), a)

\* The account acts on other contracts, for any of its signers.
Act(a) ==
    /\ config # NoConfig
    /\ SignedBy(config.signers, a)
    /\ Use(a)
    /\ UNCHANGED config

Change(a) ==
    /\ config # NoConfig
    /\ SignedBy(AdminsOf(config.signers), a)
    /\ Use(a)
    /\ config' # NoConfig

SpecNext ==
    \/ Create
    \/ \E a \in Approvals :
          (\E pub \in Pubs : Sign(pub, a)) \/ CreateAndUse(a) \/ Act(a) \/ Change(a)

AccountPromise == SpecInit /\ [][SpecNext]_specVars
=============================================================================
