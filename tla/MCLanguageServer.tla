-------------------------- MODULE MCLanguageServer --------------------------
(***************************************************************************)
(* Two documents, in one shard or in two, with texts of a few characters   *)
(* and two lines.  A character is plain, wide, or ends a line: for both,   *)
(* or for the server alone.                                                *)
(***************************************************************************)
EXTENDS LanguageServer, TLC

CONSTANTS main, library, x, wide, newline, formfeed

MCPlacements == {[u \in Uris |-> 1], (main :> 1 @@ library :> 2)}
MCOpened == {<<wide, newline>>, <<formfeed, x>>}
MCOneLine == {<<x>>}    \* in which every position means the same to both
MCFurtherBreaks == {formfeed}
MCWide == {wide}
MCInserted == {<<x>>}
=============================================================================
