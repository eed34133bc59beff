-------------------------- MODULE MCPendingReports --------------------------
(***************************************************************************)
(* Small instances of PendingReports: the threads are model values.        *)
(***************************************************************************)
EXTENDS PendingReports

CONSTANTS p1, p2
=============================================================================
