------------------------- MODULE MCReportDistribution -------------------------
(***************************************************************************)
(* Small instances of ReportDistribution.                                  *)
(***************************************************************************)
EXTENDS ReportDistribution

CONSTANTS app, digest, mail, r1, r2

MCChannel == [b \in Bindings |-> CASE b = app    -> "app"
                                   [] b = digest -> "digest"
                                   [] b = mail   -> "email"]
=============================================================================
