----------------------------- MODULE MCEmitArena -----------------------------
(***************************************************************************)
(* Two plugins for TLC.  Each calls a few of the bridges with whatever     *)
(* handles it likes: one builds nodes of both tables, files and classes,   *)
(* one batches of helper functions.  Between them the rows have every way  *)
(* to fail and every kind of operand list.                                 *)
(***************************************************************************)
EXTENDS EmitArena

CONSTANT page              \* a file of the project

\* A plugin that builds expressions, a state block and source files, lists statements by
\* handle, and hands over classes.
Nodewise ==
  {"_expr_int_lit", "_emit_state_block", "batch.arrayNew", "batch.arrayPush",
   "batch.stmtSeq", "batch.stmtBlock", "batch.method", "batch.class", "_emit_class_full"}

\* A plugin that hands over single statements, and batches of functions whose bodies it wrote
\* down by handle.
Helpers ==
  {"_emit_stmt_from_source", "_emit_statement_inline", "batch.arrayNew", "batch.arrayPush",
   "batch.func2", "batch.spec", "_emit_helpers_batch"}
=============================================================================
