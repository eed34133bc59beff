---------------------------- MODULE MCSharedHeap ----------------------------
(***************************************************************************)
(* SharedHeap on a plugin whose heap starts just before the end of a page: *)
(* the first bridge result crosses it, a large result ends so near the     *)
(* limit of memory that a small list literal passes it, and a large        *)
(* literal passes the memory of the start, which can still grow.  Two      *)
(* large results exhaust first the memory and then the addresses.          *)
(***************************************************************************)
EXTENDS SharedHeap

SmallHostSizes  == {5, 131072}
SmallRequests   == {8}
SmallCapacities == {1, 16400}
=============================================================================
