--------------------------- MODULE MCModuleGraph ----------------------------
(***************************************************************************)
(* Small instances of ModuleGraph.  Files other than the entry differ in   *)
(* name only, so one choice of shared files per number of them is enough.  *)
(***************************************************************************)
EXTENDS ModuleGraph

CONSTANTS main, a, b, c, none

MCFiles == {main, a, b, c}
MCSharedFolders == {{}, {c}, {b, c}}
=============================================================================
