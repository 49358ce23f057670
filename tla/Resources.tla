----------------------------- MODULE Resources -----------------------------
(***************************************************************************)
(* What a custom resource and the Azure resource it stands for have in     *)
(* common: contents, and a provisioning state.                             *)
(***************************************************************************)
EXTENDS Naturals, FiniteSets

CONSTANT Items      \* what a spec may ask for: an address, a rule, a SKU ...

Contents == SUBSET Items

\* Status.ProvisioningState; "None" is the nil pointer.
ProvisioningState == {"None", "Working", "Succeeded", "Failed", "Deleting"}
=============================================================================
