----------------------------- MODULE BridgeTable -----------------------------
(***************************************************************************)
(* The bridges a plugin calls while it emits typed code, one row each:     *)
(* what a bridge takes, what it makes, and how it fails.  A row abstracts  *)
(* from names, operators and literals; what a text argument may do is      *)
(* fail to be read.  EmitArena gives the rows their meaning.               *)
(*                                                                         *)
(*   takes   the operand lists the bridge accepts                          *)
(*   node    the kind of node it allocates, or ""                          *)
(*   decls   the parts of the expansion it adds to                         *)
(*   gate    where it refuses the assemble_typed slot: first, late (after  *)
(*           the context check), or not at all                             *)
(*   text    what an unreadable argument does: nothing is said ("silent"), *)
(*           a diagnostic is left ("report"), or the sticky error is set   *)
(*           as well ("trip"); "none" when there is no such argument       *)
(*   ctx     what a wrong or tripped context does before any operand is    *)
(*           looked at; "operand" when only the operands check it          *)
(*   value   whether an argument may be readable and still be refused with *)
(*           a diagnostic, before any operand is taken                     *)
(*   fails   what a bad operand does; "reuse" leaves a diagnostic for a    *)
(*           consumed handle and says nothing of any other fault           *)
(*   late    what a conversion that fails after the operands are taken     *)
(*           does, "none" when there is no conversion                      *)
(***************************************************************************)
EXTENDS Naturals, Sequences

CONSTANT MaxItems          \* bound: the operands of a list

Want(kind, table, array, null) ==
  [kind |-> kind, table |-> table, array |-> array, null |-> null]

\* take_stmt, take_expr, take_type, take_pending_function, and their _opt forms.
Ast(kind)      == Want(kind, "ast", FALSE, FALSE)
AstOpt(kind)   == Want(kind, "ast", FALSE, TRUE)
\* take_batch_stmt, take_batch_spec, take_batch_class_spec.
Batch(kind)    == Want(kind, "batch", FALSE, FALSE)
\* take_batch_expr takes an expression of either table.
Operand        == Want("BExpr", "either", FALSE, FALSE)
OperandOpt     == Want("BExpr", "either", FALSE, TRUE)
\* take_batch_array and one of the drains; 0 is an empty list, or is refused.
Items(kind)    == Want(kind, "batch", TRUE, TRUE)
ItemsOnly(kind) == Want(kind, "batch", TRUE, FALSE)
\* A statement handle that is written down, to be taken when the function is emitted.
Source         == Want("Stmt", "source", FALSE, FALSE)

Many(want) == UNION {[1..n -> {want}] : n \in 0..MaxItems}

\* Fields and parameters: a type each, and a default that may be left out.
Fields == UNION {{[i \in 1..(2 * n) |-> IF i % 2 = 1 THEN Ast("Type") ELSE AstOpt("Expr")]}
                 : n \in 0..MaxItems}

Then(left, right) == {l \o r : l \in left, r \in right}

\* The parts of an expansion.
Parts == {"functions", "classes", "externals", "state", "start", "statements", "capabilities"}

Row(name, takes, node, decls, gate, text, ctx, value, fails, late) ==
  [name |-> name, takes |-> takes, node |-> node, decls |-> decls, gate |-> gate,
   text |-> text, ctx |-> ctx, value |-> value, fails |-> fails, late |-> late]

\* A constructor that checks the context itself, and one that leaves it to its operands.
Leaf(name, node, text) ==
  Row(name, {<<>>}, node, <<>>, "none", text, "silent", FALSE, "trip", "none")
Listed(name, takes, node) ==
  Row(name, takes, node, <<>>, "none", "silent", "silent", FALSE, "trip", "none")
Built(name, takes, node, text, value) ==
  Row(name, takes, node, <<>>, "none", text, "operand", value, "trip", "none")

-----------------------------------------------------------------------------
TypeRows ==
  {Leaf("_type_string", "Type", "none"), Leaf("_type_integer", "Type", "none"),
   Leaf("_type_number", "Type", "none"), Leaf("_type_boolean", "Type", "none"),
   Leaf("_type_void", "Type", "none"), Leaf("_type_class_ref", "Type", "silent"),
   Built("_type_array", {<<Ast("Type")>>}, "Type", "none", FALSE)}

LiteralRows ==
  {Leaf("_expr_string_lit", "Expr", "silent"), Leaf("_expr_int_lit", "Expr", "none"),
   Leaf("_expr_number_lit", "Expr", "none"), Leaf("_expr_bool_lit", "Expr", "none"),
   Leaf("_expr_ident", "Expr", "silent"),
   Built("_expr_field", {<<Ast("Expr")>>}, "Expr", "silent", FALSE)}

CallRows ==
  {Listed("_expr_call", Many(Ast("Expr")), "Expr"),
   Listed("_expr_method_call", Then({<<Ast("Expr")>>}, Many(Ast("Expr"))), "Expr"),
   Listed("_expr_array_lit", Many(Ast("Expr")), "Expr"),
   Listed("_expr_object_lit", Many(Ast("Expr")), "Expr")}

OperatorRows ==
  {Built("_expr_binop", {<<Ast("Expr"), Ast("Expr")>>}, "Expr", "silent", TRUE),
   Built("_expr_unop", {<<Ast("Expr")>>}, "Expr", "silent", TRUE),
   Built("_expr_binop_op", {<<Ast("Expr"), Ast("Expr")>>}, "Expr", "none", TRUE),
   Built("_expr_unop_op", {<<Ast("Expr")>>}, "Expr", "none", TRUE),
   Built("_expr_index", {<<Ast("Expr"), Ast("Expr")>>}, "Expr", "none", FALSE)}

StatementRows ==
  {Listed("_stmt_call", Many(Ast("Expr")), "Stmt"),
   Built("_stmt_assign", {<<Ast("Expr")>>}, "Stmt", "silent", FALSE),
   Built("_stmt_var_decl", {<<AstOpt("Expr")>>}, "Stmt", "silent", FALSE)}

ControlRows ==
  {Built("_stmt_if", {<<Ast("Expr"), Ast("Stmt"), AstOpt("Stmt")>>}, "Stmt", "none", FALSE),
   Built("_stmt_while", {<<Ast("Expr"), Ast("Stmt")>>}, "Stmt", "none", FALSE),
   Built("_stmt_for", {<<Ast("Expr"), Ast("Stmt")>>}, "Stmt", "silent", FALSE),
   Built("_stmt_return", {<<AstOpt("Expr")>>}, "Stmt", "none", FALSE)}

SourceRows ==
  {Row("_emit_stmt_from_source", {<<>>}, "Stmt", <<>>, "first", "silent", "silent", TRUE,
       "trip", "none"),
   Row("_emit_expr_from_source", {<<>>}, "Expr", <<>>, "first", "silent", "silent", TRUE,
       "trip", "none")}

BlockRows == {Listed("_stmt_block", Many(Ast("Stmt")), "Stmt")}

FunctionRows ==
  LET takes == Then(Then({<<AstOpt("Type")>>}, Fields), {<<Ast("Stmt")>>}) IN
  {Row("_emit_function", takes, "", <<"functions">>, "first", "report", "report", FALSE,
       "report", "none"),
   Row("_define_function", takes, "PendingFunction", <<>>, "first", "silent", "silent",
       FALSE, "reuse", "none")}

ClassRows ==
  {Row("_emit_class", Then(Fields, Many(Ast("PendingFunction"))), "", <<"classes">>,
       "first", "silent", "silent", FALSE, "reuse", "none"),
   Row("_emit_external", Then({<<AstOpt("Type")>>}, Many(Ast("Type"))), "",
       <<"externals">>, "first", "silent", "silent", TRUE, "reuse", "none")}

StateRows ==
  {Row("_emit_state_block", Fields, "", <<"state">>, "first", "silent", "silent", FALSE,
       "reuse", "none")}

\* A statement of either table, told apart by the tag; one built in the batch is converted.
StartRows ==
  {Row("_emit_statement_into_start", {<<Ast("Stmt")>>}, "", <<"start">>, "first", "none",
       "silent", FALSE, "trip", "none"),
   Row("_emit_statement_into_start", {<<Batch("BStmt")>>}, "", <<"start">>, "first", "none",
       "silent", FALSE, "trip", "trip"),
   Row("_emit_statement_inline", {<<Ast("Stmt")>>}, "", <<"statements">>, "first", "none",
       "silent", FALSE, "trip", "none"),
   Row("_emit_statement_inline", {<<Batch("BStmt")>>}, "", <<"statements">>, "first", "none",
       "silent", FALSE, "trip", "trip")}

RouteRows ==
  {Row("_emit_route", {<<Ast("PendingFunction")>>}, "", <<"functions", "start">>, "first",
       "silent", "silent", FALSE, "reuse", "none"),
   Row("_emit_artifact_directive", {<<>>}, "", <<"statements">>, "first", "silent",
       "silent", FALSE, "report", "none")}

CapabilityRows ==
  {Row("_emit_capability", {<<>>}, "", <<"capabilities">>, "first", "report", "report",
       TRUE, "report", "none")}

\* The specification of functions, or of a class, as text: handed over as such, or
\* wrapped in a string literal node.
HelpersTextRows ==
  {Row("_emit_helpers_batch text", {<<>>, <<Batch("BExpr")>>, <<Ast("Stmt")>>}, "",
       <<"functions">>, "first", "report", "report", TRUE, "report", "report")}

ClassTextRows ==
  {Row("_emit_class_full text", {<<>>, <<Batch("BExpr")>>, <<Ast("Stmt")>>, <<Batch("BStmt")>>},
       "", <<"classes">>, "first", "report", "report", TRUE, "report", "report")}

-----------------------------------------------------------------------------
\* The builders of a batch: a bad operand leaves a diagnostic and trips nothing.
Builder(name, takes, node, text, value) ==
  Row(name, takes, node, <<>>, "late", text, "silent", value, "report", "none")

BatchLeafRows ==
  {Builder("batch.arrayNew", {<<>>}, "BArray", "none", FALSE),
   Builder("batch.stringLit", {<<>>}, "BExpr", "silent", FALSE),
   Builder("batch.intLit", {<<>>}, "BExpr", "none", FALSE),
   Builder("batch.numberLit", {<<>>}, "BExpr", "none", FALSE),
   Builder("batch.boolLit", {<<>>}, "BExpr", "none", FALSE),
   Builder("batch.ident", {<<>>}, "BExpr", "silent", FALSE),
   Builder("batch.field", {<<Operand>>}, "BExpr", "silent", FALSE)}

BatchCallRows ==
  {Builder("batch.call", {<<Items("BExpr")>>}, "BExpr", "silent", FALSE),
   Builder("batch.methodCall", {<<Operand, Items("BExpr")>>}, "BExpr", "silent", FALSE)}

BatchOperatorRows ==
  {Builder("batch.binop", {<<Operand, Operand>>}, "BExpr", "silent", TRUE),
   Builder("batch.unop", {<<Operand>>}, "BExpr", "silent", TRUE),
   Builder("batch.index", {<<Operand, Operand>>}, "BExpr", "none", FALSE),
   Builder("batch.arrayLit", {<<Items("BExpr")>>}, "BExpr", "none", FALSE),
   Builder("batch.objectLit", {<<Items("BObjectField")>>}, "BExpr", "none", FALSE)}

BatchStatementRows ==
  {Builder("batch.stmtCall", {<<Items("BExpr")>>}, "BStmt", "silent", FALSE),
   Builder("batch.stmtMethodCall", {<<Operand, Items("BExpr")>>}, "BStmt", "silent", FALSE),
   Builder("batch.stmtAssign", {<<Operand>>}, "BStmt", "silent", FALSE),
   Builder("batch.stmtVarDecl", {<<OperandOpt>>}, "BStmt", "silent", FALSE)}

BatchControlRows ==
  {Builder("batch.stmtIf", {<<Operand, Items("BStmt"), Items("BStmt")>>}, "BStmt", "none", FALSE),
   Builder("batch.stmtWhile", {<<Operand, Items("BStmt")>>}, "BStmt", "none", FALSE),
   Builder("batch.stmtFor", {<<Operand, Items("BStmt")>>}, "BStmt", "silent", FALSE),
   Builder("batch.stmtReturn", {<<OperandOpt>>}, "BStmt", "none", FALSE),
   Builder("batch.stmtBlock", {<<Items("BStmt")>>}, "BStmt", "none", FALSE)}

BatchMemberRows ==
  {Builder("batch.param", {<<>>}, "BParam", "silent", TRUE),
   Builder("batch.objectField", {<<Operand>>}, "BObjectField", "silent", FALSE),
   Builder("batch.classField", {<<>>}, "BField", "silent", TRUE)}

\* func2 and method take their body from the batch or write down where it will come from.
BatchFunctionRows ==
  {Builder("batch.func", {<<Items("BParam"), Items("BStmt")>>}, "BFunction", "silent", TRUE),
   Builder("batch.func2", {<<Items("BParam"), ItemsOnly("BStmt")>>, <<Items("BParam"), Source>>},
           "BFunction", "silent", TRUE)}

BatchMethodRows ==
  {Builder("batch.method", {<<Items("BParam"), Batch("BStmt")>>, <<Items("BParam"), Source>>},
           "BMethod", "silent", TRUE)}

BatchSpecRows ==
  {Builder("batch.class", {<<Items("BField"), Items("BMethod")>>}, "BClass", "silent", FALSE),
   Builder("batch.spec", {<<Items("BFunction")>>}, "BSpec", "none", FALSE)}

\* Batches of functions and classes handed over by handle, and the ways of filling a list
\* of a batch: EmitArena has what these do when nothing is refused.
MemberRows ==
  {Row("_emit_helpers_batch", {<<Batch("BSpec")>>}, "", <<>>, "first", "none", "report",
       FALSE, "report", "none"),
   Row("_emit_class_full", {<<Batch("BClass")>>}, "", <<>>, "first", "none", "report",
       FALSE, "report", "none")}

ListRows ==
  {Row("batch.arrayPush", {}, "", <<>>, "late", "none", "silent", FALSE, "report", "none"),
   Row("batch.stmtSeq", {}, "", <<>>, "late", "trip", "silent", FALSE, "trip", "none"),
   Row("batch.args", {}, "", <<>>, "late", "trip", "silent", FALSE, "trip", "none")}

-----------------------------------------------------------------------------
AllRows ==
  UNION {TypeRows, LiteralRows, CallRows, OperatorRows, StatementRows, ControlRows, SourceRows,
         BlockRows, FunctionRows, ClassRows, StateRows, StartRows, RouteRows, CapabilityRows,
         HelpersTextRows, ClassTextRows, BatchLeafRows, BatchCallRows, BatchOperatorRows,
         BatchStatementRows, BatchControlRows, BatchMemberRows, BatchFunctionRows,
         BatchMethodRows, BatchSpecRows,
         MemberRows, ListRows}
=============================================================================
