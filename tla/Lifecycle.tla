----------------------------- MODULE Lifecycle -----------------------------
(***************************************************************************)
(* What the controllers promise of a custom resource and the Azure         *)
(* resource it stands for, with no cache, queue, worker or failed call:    *)
(* the resource is made only while the object holds the finalizer and      *)
(* before its teardown has begun, and the object is released only when     *)
(* nothing of it is left in Azure.                                         *)
(***************************************************************************)
EXTENDS Naturals

VARIABLES
    phase,      \* of the object
    inc,        \* which object of that name it is (or was)
    made        \* whose resource is in Azure, 0 if none of the controller's

lifecycleVars == <<phase, inc, made>>

Phases == {"none", "new", "held", "dying", "tearing"}

LifecycleInit == phase = "none" /\ inc = 0 /\ made = 0

Create == phase = "none" /\ phase' = "new" /\ inc' = inc + 1 /\ UNCHANGED made

\* The finalizer is added; the user may also delete the object before that.
Hold == phase = "new" /\ phase' = "held" /\ UNCHANGED <<inc, made>>
Drop == phase = "new" /\ phase' = "none" /\ UNCHANGED <<inc, made>>

\* A PUT takes effect, possibly after the user has asked for deletion.
Make == phase \in {"held", "dying"} /\ made' = inc /\ UNCHANGED <<phase, inc>>

Die == phase = "held" /\ phase' = "dying" /\ UNCHANGED <<inc, made>>

\* A DELETE is sent; the resource may go with it, or later, or on its own.
Tear ==
    /\ phase \in {"dying", "tearing"}
    /\ phase' = "tearing"
    /\ made' \in {made, 0}
    /\ UNCHANGED inc

Vanish == made' = 0 /\ UNCHANGED <<phase, inc>>

Release ==
    /\ phase = "tearing"
    /\ made = 0
    /\ phase' = "none"
    /\ UNCHANGED <<inc, made>>

LifecycleNext ==
    Create \/ Hold \/ Drop \/ Make \/ Die \/ Tear \/ Vanish \/ Release

LifecycleSpec == LifecycleInit /\ [][LifecycleNext]_lifecycleVars
=============================================================================
