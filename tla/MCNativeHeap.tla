---------------------------- MODULE MCNativeHeap ----------------------------
(***************************************************************************)
(* NativeHeap on a small program: static data that ends 5536 bytes before  *)
(* a page boundary, two pages of memory and a tier of three.  One request  *)
(* fills the page exactly, one needs a page of its own, lists leave the    *)
(* bump pointer unaligned or run past the end of memory, and two strings   *)
(* fill the pool.                                                          *)
(***************************************************************************)
EXTENDS NativeHeap

SmallRequests   == {5, 5536, 65536}
SmallCapacities == {1, 3000}
SmallKeepers    == {3, 1000}
=============================================================================
