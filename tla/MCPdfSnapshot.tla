----------------------------- MODULE MCPdfSnapshot -----------------------------
(***************************************************************************)
(* Small instances of PdfSnapshot.                                         *)
(***************************************************************************)
EXTENDS PdfSnapshot

CONSTANTS s1, d1, d2
=============================================================================
