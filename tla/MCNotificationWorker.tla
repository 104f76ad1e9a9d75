------------------------- MODULE MCNotificationWorker -------------------------
(***************************************************************************)
(* Small instances of NotificationWorker.                                  *)
(***************************************************************************)
EXTENDS NotificationWorker

CONSTANTS e1, j1, p1, d1, d2
=============================================================================
