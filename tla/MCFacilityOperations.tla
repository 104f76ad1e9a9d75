-------------------------- MODULE MCFacilityOperations --------------------------
(***************************************************************************)
(* Instances for the run of FacilityOperations, and for the runs of its    *)
(* components alone.                                                       *)
(***************************************************************************)
EXTENDS FacilityOperations, TLC

CONSTANTS u1, u2, am, noon, l1, l2

\* A slot overlaps itself and not the other.
MCOverlapping == {<<x, x>> : x \in {am, noon}}

\* One lesson that must be passed, and one that is yet to be added.
MCCurriculum == (l1 :> "required") @@ (l2 :> "absent")

\* Every certification type falls back on the facility's window.
MCTypeWindow == [k \in CertTypes |-> 0]

\* The same two users work in every component, and are alike; so are two work
\* orders.
MCSymmetry == Permutations({u1, u2}) \cup Permutations(Orders)
=============================================================================
