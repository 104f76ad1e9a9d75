-------------------------- MODULE MCReportLifecycle --------------------------
(***************************************************************************)
(* Small instances of ReportLifecycle.  A payload is a pair: the answer    *)
(* to a visible field, which only "ok" makes valid, and the answer to a    *)
(* field that is hidden, which stripHiddenFields takes out.                *)
(***************************************************************************)
EXTENDS ReportLifecycle, TLC

CONSTANTS r1, r2, r3, s1, s2, clean, hidden, wrong, lead

MCStrip == (clean :> clean) @@ (hidden :> clean) @@ (wrong :> wrong)
MCValid == {clean, hidden}

\* With no hidden field.
MCPlainStrip == (clean :> clean) @@ (wrong :> wrong)
MCPlainValid == {clean}

Symmetry == Permutations(Reports) \cup Permutations(Sessions)
=============================================================================
