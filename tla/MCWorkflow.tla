----------------------------- MODULE MCWorkflow -----------------------------
(* An instance of Workflow for TLC: entries outlive one ledger, and a node may
   be one ledger behind. *)
EXTENDS Workflow

CONSTANTS deployer

MCAddresses == {ROOT, DEPLOYER}
MCRoles == {deployer}
=============================================================================
