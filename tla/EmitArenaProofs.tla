--------------------------- MODULE EmitArenaProofs ---------------------------
(***************************************************************************)
(* The arena of typed emission, for any number of nodes and any choice of  *)
(* bridges: what the runs check on a few nodes.  First comes what holds of *)
(* every row of BridgeTable, whatever the length of lists.                 *)
(***************************************************************************)
EXTENDS EmitArena, SequenceTheorems, TLAPS

AstKind   == {"Type", "Expr", "Stmt", "PendingFunction"}
ItemKind  == {"BExpr", "BStmt", "BFunction", "BMethod", "BField", "BParam", "BObjectField"}
BatchKind == ItemKind \cup {"BArray", "BSpec", "BClass"}

AnyWant == [kind : AstKind \cup ItemKind \cup {"BSpec", "BClass"},
            table : {"ast", "batch", "either", "source"}, array : BOOLEAN, null : BOOLEAN]
\* The wants of a bridge that is not handed a whole batch or class.
PlainWant == {want \in AnyWant : want.kind \notin {"BSpec", "BClass"}}
\* An array is one of the batch; a note is a statement; the rest is of its own table.
AstWant == {want \in PlainWant : want.table = "ast" /\ ~want.array}

\* The fields of a row, and how its operand lists go with them.
RowShape(row) ==
  /\ row.node \in AstKind \cup BatchKind \cup {""} /\ row.decls \in Seq(Parts)
  /\ row.gate \in {"first", "late", "none"}
  /\ row.text \in {"none", "silent", "report", "trip"}
  /\ row.ctx \in {"operand", "silent", "report"}
  /\ row.fails \in {"trip", "report", "reuse"} /\ row.late \in {"none", "report", "trip"}
  /\ row.gate = "none" => row.decls = <<>> /\ row.node \in AstKind
  /\ row.decls # <<>> => row.node = ""
RowTakes(row) ==
  /\ row.takes \subseteq Seq(AnyWant)
  /\ row.node # "" \/ row.decls # <<>> => row.takes \subseteq Seq(PlainWant)
  /\ row.fails = "reuse" => row.takes \subseteq Seq(AstWant)
  /\ row.node = "BArray" => row.takes = {<<>>}
RowOK(row) == RowShape(row) /\ RowTakes(row)

LEMMA Wants ==
  /\ \A k \in AstKind : Ast(k) \in AstWant /\ AstOpt(k) \in AstWant
  /\ \A k \in ItemKind : Batch(k) \in PlainWant /\ Items(k) \in PlainWant /\ ItemsOnly(k) \in PlainWant
  /\ Operand \in PlainWant /\ OperandOpt \in PlainWant /\ Source \in PlainWant
  /\ Batch("BSpec") \in AnyWant /\ Batch("BClass") \in AnyWant
  /\ AstWant \subseteq PlainWant /\ PlainWant \subseteq AnyWant
  BY DEF Ast, AstOpt, Batch, Items, ItemsOnly, Operand, OperandOpt, Source, Want, AstWant,
         PlainWant, AnyWant, AstKind, ItemKind

LEMMA SeqMonotone ==
  ASSUME NEW S, NEW T, S \subseteq T
  PROVE  Seq(S) \subseteq Seq(T)
  OBVIOUS

LEMMA Lists ==
  ASSUME NEW want \in AstWant
  PROVE  Many(want) \subseteq Seq(AstWant)
<1>1. ASSUME NEW n \in 0..MaxItems, NEW s \in [1..n -> {want}]
      PROVE  s \in Seq(AstWant)
  OBVIOUS
<1> QED
  BY <1>1 DEF Many

LEMMA FieldLists == Fields \subseteq Seq(AstWant)
<1>1. ASSUME NEW n \in 0..MaxItems
      PROVE  [i \in 1..(2 * n) |-> IF i % 2 = 1 THEN Ast("Type") ELSE AstOpt("Expr")]
               \in Seq(AstWant)
  <2>1. Ast("Type") \in AstWant /\ AstOpt("Expr") \in AstWant
    BY Wants DEF AstKind
  <2>2. 2 * n \in Nat
    OBVIOUS
  <2> QED
    BY <2>1, <2>2
<1> QED
  BY <1>1 DEF Fields

LEMMA Joined ==
  ASSUME NEW left, left \subseteq Seq(AstWant), NEW right, right \subseteq Seq(AstWant)
  PROVE  Then(left, right) \subseteq Seq(AstWant)
<1> SUFFICES ASSUME NEW takes \in Then(left, right)
             PROVE  takes \in Seq(AstWant)
  OBVIOUS
<1>1. \E l \in left : \E r \in right : takes = l \o r
  BY DEF Then
<1> PICK l \in left, r \in right : takes = l \o r
  BY <1>1
<1>2. l \in Seq(AstWant) /\ r \in Seq(AstWant)
  OBVIOUS
<1> QED
  BY <1>2, ConcatProperties

LEMMA Singles ==
  /\ \A w \in AstWant : <<w>> \in Seq(AstWant)
  /\ \A w \in PlainWant : <<w>> \in Seq(PlainWant)
  /\ \A w \in AnyWant : <<w>> \in Seq(AnyWant)
  OBVIOUS
LEMMA Pairs ==
  /\ \A v, w \in AstWant : <<v, w>> \in Seq(AstWant)
  /\ \A v, w \in PlainWant : <<v, w>> \in Seq(PlainWant)
  OBVIOUS
LEMMA Triples ==
  /\ \A u, v, w \in AstWant : <<u, v, w>> \in Seq(AstWant)
  /\ \A u, v, w \in PlainWant : <<u, v, w>> \in Seq(PlainWant)
  OBVIOUS
LEMMA Nothing ==
  /\ <<>> \in Seq(AstWant) /\ <<>> \in Seq(PlainWant) /\ <<>> \in Seq(AnyWant)
  OBVIOUS

-----------------------------------------------------------------------------
\* What the operand lists of the rows are made of.

LEMMA EmptyTakes == {<<>>} \subseteq Seq(AstWant)
  BY Nothing

LEMMA InPlain ==
  ASSUME NEW takes, takes \subseteq Seq(AstWant)
  PROVE  takes \subseteq Seq(PlainWant)
  BY SeqMonotone, Wants

LEMMA InAny ==
  ASSUME NEW takes, takes \subseteq Seq(PlainWant)
  PROVE  takes \subseteq Seq(AnyWant)
  BY SeqMonotone, Wants

LEMMA Declared ==
  /\ <<>> \in Seq(Parts)
  /\ \A s \in Parts : <<s>> \in Seq(Parts)
  /\ \A s, u \in Parts : <<s, u>> \in Seq(Parts)
  OBVIOUS

\* A row whose operands are of the first table, of whatever bridge.
LEMMA AstRow ==
  ASSUME NEW name, NEW takes, takes \subseteq Seq(AstWant),
         NEW node, NEW sections \in Seq(Parts), NEW gate, NEW text, NEW ctx,
         NEW value, NEW fails, NEW late,
         node \in AstKind \cup {""}, gate \in {"first", "none"},
         text \in {"none", "silent", "report", "trip"}, ctx \in {"operand", "silent", "report"},
         fails \in {"trip", "report", "reuse"}, late \in {"none", "report", "trip"},
         gate = "none" => sections = <<>> /\ node \in AstKind,
         sections # <<>> => node = ""
  PROVE  RowOK(Row(name, takes, node, sections, gate, text, ctx, value, fails, late))
<1>1. takes \subseteq Seq(PlainWant) /\ takes \subseteq Seq(AnyWant)
  BY InPlain, InAny
<1> DEFINE row == Row(name, takes, node, sections, gate, text, ctx, value, fails, late)
<1>2. /\ row.node = node /\ row.decls = sections /\ row.gate = gate /\ row.text = text
      /\ row.ctx = ctx /\ row.fails = fails /\ row.late = late
      /\ row.takes = takes
  BY DEF Row
<1>3. "BArray" \notin AstKind /\ "BArray" # ""
  BY DEF AstKind
<1> HIDE DEF row
<1>4. RowShape(row)
  BY <1>2 DEF RowShape
<1>5. RowTakes(row)
  BY <1>1, <1>2, <1>3 DEF RowTakes
<1> QED
  BY <1>4, <1>5 DEF RowOK, row

\* A row of the batch builders.
LEMMA BatchRow ==
  ASSUME NEW name, NEW takes, takes \subseteq Seq(PlainWant),
         NEW node \in ItemKind \cup {"BSpec", "BClass"},
         NEW text \in {"none", "silent"}, NEW value
  PROVE  RowOK(Builder(name, takes, node, text, value))
<1>1. takes \subseteq Seq(AnyWant)
  BY InAny
<1> DEFINE row == Builder(name, takes, node, text, value)
<1>2. /\ row.node = node /\ row.decls = <<>> /\ row.gate = "late" /\ row.text = text
      /\ row.ctx = "silent" /\ row.fails = "report"
      /\ row.late = "none" /\ row.takes = takes
  BY DEF Builder, Row
<1> HIDE DEF row
<1>3. <<>> \in Seq(Parts)
  OBVIOUS
<1>4. RowShape(row)
  BY <1>2, <1>3 DEF RowShape, BatchKind
<1>5. RowTakes(row)
  BY <1>1, <1>2 DEF RowTakes, ItemKind
<1> QED
  BY <1>4, <1>5 DEF RowOK, row

-----------------------------------------------------------------------------
\* The rows, group by group.

LEMMA EmptyRow ==
  ASSUME NEW name, NEW node \in AstKind \cup {""}, NEW sections \in Seq(Parts), NEW text, NEW ctx,
         NEW value, NEW fails, text \in {"none", "silent", "report", "trip"},
         ctx \in {"operand", "silent", "report"}, fails \in {"trip", "report", "reuse"},
         sections # <<>> => node = ""
  PROVE  RowOK(Row(name, {<<>>}, node, sections, "first", text, ctx, value, fails, "none"))
  BY AstRow, EmptyTakes

LEMMA LeafRow ==
  ASSUME NEW name, NEW node \in AstKind, NEW text \in {"none", "silent"}
  PROVE  RowOK(Leaf(name, node, text))
<1>1. <<>> \in Seq(Parts)
  OBVIOUS
<1> QED
  BY <1>1, AstRow, EmptyTakes DEF Leaf

LEMMA ListedRow ==
  ASSUME NEW name, NEW takes, takes \subseteq Seq(AstWant), NEW node \in AstKind
  PROVE  RowOK(Listed(name, takes, node))
<1>1. <<>> \in Seq(Parts)
  OBVIOUS
<1> QED
  BY <1>1, AstRow DEF Listed

LEMMA BuiltRow ==
  ASSUME NEW name, NEW takes, takes \subseteq Seq(AstWant), NEW node \in AstKind,
         NEW text \in {"none", "silent"}, NEW value
  PROVE  RowOK(Built(name, takes, node, text, value))
<1>1. <<>> \in Seq(Parts)
  OBVIOUS
<1> QED
  BY <1>1, AstRow DEF Built

LEMMA TypesOK == \A row \in TypeRows : RowOK(row)
<1>1. {<<Ast("Type")>>} \subseteq Seq(AstWant)
  BY Wants, Singles DEF AstKind
<1>2. "Type" \in AstKind
  BY DEF AstKind
<1> QED
  BY <1>1, <1>2, LeafRow, BuiltRow DEF TypeRows

LEMMA LiteralsOK == \A row \in LiteralRows : RowOK(row)
<1>1. {<<Ast("Expr")>>} \subseteq Seq(AstWant)
  BY Wants, Singles DEF AstKind
<1>2. "Expr" \in AstKind
  BY DEF AstKind
<1> QED
  BY <1>1, <1>2, LeafRow, BuiltRow DEF LiteralRows

LEMMA CallsOK == \A row \in CallRows : RowOK(row)
<1>1. Many(Ast("Expr")) \subseteq Seq(AstWant) /\ {<<Ast("Expr")>>} \subseteq Seq(AstWant)
  BY Wants, Singles, Lists DEF AstKind
<1>2. Then({<<Ast("Expr")>>}, Many(Ast("Expr"))) \subseteq Seq(AstWant)
  BY <1>1, Joined
<1>3. "Expr" \in AstKind
  BY DEF AstKind
<1> QED
  BY <1>1, <1>2, <1>3, ListedRow DEF CallRows

LEMMA OperatorsOK == \A row \in OperatorRows : RowOK(row)
<1>1. {<<Ast("Expr")>>} \subseteq Seq(AstWant) /\ {<<Ast("Expr"), Ast("Expr")>>} \subseteq Seq(AstWant)
  BY Wants, Singles, Pairs DEF AstKind
<1>2. "Expr" \in AstKind
  BY DEF AstKind
<1> QED
  BY <1>1, <1>2, BuiltRow DEF OperatorRows

LEMMA StatementsOK == \A row \in StatementRows : RowOK(row)
<1>1. /\ {<<Ast("Expr")>>} \subseteq Seq(AstWant) /\ {<<AstOpt("Expr")>>} \subseteq Seq(AstWant)
      /\ Many(Ast("Expr")) \subseteq Seq(AstWant)
  BY Wants, Singles, Lists DEF AstKind
<1>2. "Stmt" \in AstKind
  BY DEF AstKind
<1> QED
  BY <1>1, <1>2, BuiltRow, ListedRow DEF StatementRows

LEMMA ControlsOK == \A row \in ControlRows : RowOK(row)
<1>1. /\ {<<Ast("Expr"), Ast("Stmt"), AstOpt("Stmt")>>} \subseteq Seq(AstWant)
      /\ {<<Ast("Expr"), Ast("Stmt")>>} \subseteq Seq(AstWant)
      /\ {<<AstOpt("Expr")>>} \subseteq Seq(AstWant)
  BY Wants, Singles, Pairs, Triples DEF AstKind
<1>2. "Stmt" \in AstKind
  BY DEF AstKind
<1> QED
  BY <1>1, <1>2, BuiltRow DEF ControlRows

LEMMA SourcesOK == \A row \in SourceRows : RowOK(row)
<1>1. "Stmt" \in AstKind /\ "Expr" \in AstKind
  BY DEF AstKind
<1>2. <<>> \in Seq(Parts)
  OBVIOUS
<1> QED
  BY <1>1, <1>2, EmptyRow DEF SourceRows

LEMMA BlocksOK == \A row \in BlockRows : RowOK(row)
<1>1. "Stmt" \in AstKind /\ Many(Ast("Stmt")) \subseteq Seq(AstWant)
  BY Wants, Lists DEF AstKind
<1> QED
  BY <1>1, ListedRow DEF BlockRows

LEMMA FunctionsOK == \A row \in FunctionRows : RowOK(row)
<1> DEFINE takes == Then(Then({<<AstOpt("Type")>>}, Fields), {<<Ast("Stmt")>>})
<1>1. {<<AstOpt("Type")>>} \subseteq Seq(AstWant) /\ {<<Ast("Stmt")>>} \subseteq Seq(AstWant)
  BY Wants, Singles DEF AstKind
<1>2. Then({<<AstOpt("Type")>>}, Fields) \subseteq Seq(AstWant)
  BY <1>1, FieldLists, Joined
<1>3. takes \subseteq Seq(AstWant)
  BY <1>1, <1>2, Joined
<1>4. "PendingFunction" \in AstKind /\ <<>> \in Seq(Parts) /\ <<"functions">> \in Seq(Parts)
  BY Declared DEF AstKind, Parts
<1>5. FunctionRows =
        {Row("_emit_function", takes, "", <<"functions">>, "first", "report", "report", FALSE,
             "report", "none"),
         Row("_define_function", takes, "PendingFunction", <<>>, "first", "silent", "silent",
             FALSE, "reuse", "none")}
  BY DEF FunctionRows
<1> HIDE DEF takes
<1> QED
  BY <1>3, <1>4, <1>5, AstRow

LEMMA ClassesOK == \A row \in ClassRows : RowOK(row)
<1>1. /\ {<<AstOpt("Type")>>} \subseteq Seq(AstWant) /\ Many(Ast("Type")) \subseteq Seq(AstWant)
      /\ Many(Ast("PendingFunction")) \subseteq Seq(AstWant)
  BY Wants, Singles, Lists DEF AstKind
<1>2. /\ Then(Fields, Many(Ast("PendingFunction"))) \subseteq Seq(AstWant)
      /\ Then({<<AstOpt("Type")>>}, Many(Ast("Type"))) \subseteq Seq(AstWant)
  BY <1>1, FieldLists, Joined
<1>3. <<"classes">> \in Seq(Parts) /\ <<"externals">> \in Seq(Parts)
  BY Declared DEF Parts
<1> QED
  BY <1>2, <1>3, AstRow DEF ClassRows

LEMMA StatesOK == \A row \in StateRows : RowOK(row)
<1>1. <<"state">> \in Seq(Parts)
  BY Declared DEF Parts
<1> QED
  BY <1>1, FieldLists, AstRow DEF StateRows

LEMMA RoutesOK == \A row \in RouteRows : RowOK(row)
<1>1. {<<Ast("PendingFunction")>>} \subseteq Seq(AstWant)
  BY Wants, Singles DEF AstKind
<1>2. <<"functions", "start">> \in Seq(Parts) /\ <<"statements">> \in Seq(Parts)
  BY Declared DEF Parts
<1> DEFINE route == Row("_emit_route", {<<Ast("PendingFunction")>>}, "", <<"functions", "start">>,
                        "first", "silent", "silent", FALSE, "reuse", "none")
           artifact == Row("_emit_artifact_directive", {<<>>}, "", <<"statements">>, "first",
                           "silent", "silent", FALSE, "report", "none")
<1>3. RowOK(route)
  BY <1>1, <1>2, AstRow
<1>4. RowOK(artifact)
  BY <1>2, EmptyRow
<1>5. RouteRows = {route, artifact}
  BY DEF RouteRows
<1> HIDE DEF route, artifact
<1> QED
  BY <1>3, <1>4, <1>5

LEMMA CapabilitiesOK == \A row \in CapabilityRows : RowOK(row)
<1>1. <<"capabilities">> \in Seq(Parts)
  BY Declared DEF Parts
<1> QED
  BY <1>1, EmptyRow DEF CapabilityRows

\* A row that declares something, and takes operands of both tables.
LEMMA PlainRow ==
  ASSUME NEW name, NEW takes, takes \subseteq Seq(PlainWant), NEW sections \in Seq(Parts),
         NEW text, NEW ctx, NEW value, NEW fails, NEW late,
         text \in {"none", "silent", "report", "trip"}, ctx \in {"operand", "silent", "report"},
         fails \in {"trip", "report"}, late \in {"none", "report", "trip"}
  PROVE  RowOK(Row(name, takes, "", sections, "first", text, ctx, value, fails, late))
<1> DEFINE row == Row(name, takes, "", sections, "first", text, ctx, value, fails, late)
<1>1. takes \subseteq Seq(AnyWant)
  BY InAny
<1>2. /\ row.node = "" /\ row.decls = sections /\ row.gate = "first" /\ row.text = text
      /\ row.ctx = ctx /\ row.fails = fails /\ row.late = late /\ row.takes = takes
  BY DEF Row
<1> HIDE DEF row
<1>4. RowShape(row)
  BY <1>2 DEF RowShape
<1>5. RowTakes(row)
  BY <1>1, <1>2 DEF RowTakes
<1> QED
  BY <1>4, <1>5 DEF RowOK, row

LEMMA StartsOK == \A row \in StartRows : RowOK(row)
<1> DEFINE start(want, late) == Row("_emit_statement_into_start", {<<want>>}, "", <<"start">>,
                                    "first", "none", "silent", FALSE, "trip", late)
           inline(want, late) == Row("_emit_statement_inline", {<<want>>}, "", <<"statements">>,
                                     "first", "none", "silent", FALSE, "trip", late)
<1>1. {<<Ast("Stmt")>>} \subseteq Seq(PlainWant) /\ {<<Batch("BStmt")>>} \subseteq Seq(PlainWant)
  BY Wants, Singles DEF AstKind, ItemKind
<1>2. <<"start">> \in Seq(Parts) /\ <<"statements">> \in Seq(Parts)
  BY Declared DEF Parts
<1>3. RowOK(start(Ast("Stmt"), "none")) /\ RowOK(inline(Ast("Stmt"), "none"))
  BY <1>1, <1>2, PlainRow
<1>4. RowOK(start(Batch("BStmt"), "trip")) /\ RowOK(inline(Batch("BStmt"), "trip"))
  BY <1>1, <1>2, PlainRow
<1>5. StartRows = {start(Ast("Stmt"), "none"), start(Batch("BStmt"), "trip"),
                   inline(Ast("Stmt"), "none"), inline(Batch("BStmt"), "trip")}
  BY DEF StartRows
<1> HIDE DEF start, inline
<1> QED
  BY <1>3, <1>4, <1>5

LEMMA TextsOK == \A row \in HelpersTextRows \cup ClassTextRows : RowOK(row)
<1> DEFINE helper == {<<>>, <<Batch("BExpr")>>, <<Ast("Stmt")>>}
           class == {<<>>, <<Batch("BExpr")>>, <<Ast("Stmt")>>, <<Batch("BStmt")>>}
<1>1. helper \subseteq Seq(PlainWant) /\ class \subseteq Seq(PlainWant)
  BY Wants, Singles, Nothing DEF AstKind, ItemKind
<1>2. <<"functions">> \in Seq(Parts) /\ <<"classes">> \in Seq(Parts)
  BY Declared DEF Parts
<1>3. /\ HelpersTextRows = {Row("_emit_helpers_batch text", helper, "", <<"functions">>, "first",
                                "report", "report", TRUE, "report", "report")}
      /\ ClassTextRows = {Row("_emit_class_full text", class, "", <<"classes">>, "first",
                              "report", "report", TRUE, "report", "report")}
  BY DEF HelpersTextRows, ClassTextRows
<1> HIDE DEF helper, class
<1> QED
  BY <1>1, <1>2, <1>3, PlainRow

LEMMA ItemKinds ==
  /\ "BExpr" \in ItemKind /\ "BStmt" \in ItemKind /\ "BParam" \in ItemKind
  /\ "BObjectField" \in ItemKind /\ "BField" \in ItemKind /\ "BFunction" \in ItemKind
  /\ "BMethod" \in ItemKind
  BY DEF ItemKind

LEMMA ArrayRow == RowOK(Builder("batch.arrayNew", {<<>>}, "BArray", "none", FALSE))
<1> DEFINE row == Builder("batch.arrayNew", {<<>>}, "BArray", "none", FALSE)
<1>1. /\ {<<>>} \subseteq Seq(PlainWant) /\ {<<>>} \subseteq Seq(AnyWant) /\ <<>> \in Seq(Parts)
      /\ "BArray" \in BatchKind
  BY DEF BatchKind
<1>2. /\ row.node = "BArray" /\ row.decls = <<>> /\ row.gate = "late" /\ row.text = "none"
      /\ row.ctx = "silent" /\ row.fails = "report" /\ row.late = "none" /\ row.takes = {<<>>}
  BY DEF Builder, Row
<1> HIDE DEF row
<1>3. RowShape(row)
  BY <1>1, <1>2 DEF RowShape
<1>4. RowTakes(row)
  BY <1>1, <1>2 DEF RowTakes
<1> QED
  BY <1>3, <1>4 DEF RowOK, row

LEMMA BatchLeavesOK == \A row \in BatchLeafRows : RowOK(row)
<1>1. {<<>>} \subseteq Seq(PlainWant) /\ {<<Operand>>} \subseteq Seq(PlainWant)
  BY Wants, Singles, Nothing
<1> QED
  BY <1>1, ItemKinds, BatchRow, ArrayRow DEF BatchLeafRows

LEMMA BatchCallsOK == \A row \in BatchCallRows : RowOK(row)
<1>1. /\ {<<Items("BExpr")>>} \subseteq Seq(PlainWant)
      /\ {<<Operand, Items("BExpr")>>} \subseteq Seq(PlainWant)
  BY Wants, Singles, Pairs DEF ItemKind
<1> QED
  BY <1>1, ItemKinds, BatchRow DEF BatchCallRows

LEMMA BatchOperatorsOK == \A row \in BatchOperatorRows : RowOK(row)
<1>1. /\ {<<Operand>>} \subseteq Seq(PlainWant) /\ {<<Operand, Operand>>} \subseteq Seq(PlainWant)
      /\ {<<Items("BExpr")>>} \subseteq Seq(PlainWant)
      /\ {<<Items("BObjectField")>>} \subseteq Seq(PlainWant)
  BY Wants, Singles, Pairs DEF ItemKind
<1> QED
  BY <1>1, ItemKinds, BatchRow DEF BatchOperatorRows

LEMMA BatchStatementsOK == \A row \in BatchStatementRows : RowOK(row)
<1>1. /\ {<<Operand>>} \subseteq Seq(PlainWant) /\ {<<OperandOpt>>} \subseteq Seq(PlainWant)
      /\ {<<Items("BExpr")>>} \subseteq Seq(PlainWant)
      /\ {<<Operand, Items("BExpr")>>} \subseteq Seq(PlainWant)
  BY Wants, Singles, Pairs DEF ItemKind
<1> QED
  BY <1>1, ItemKinds, BatchRow DEF BatchStatementRows

LEMMA BatchControlsOK == \A row \in BatchControlRows : RowOK(row)
<1>1. /\ {<<Operand, Items("BStmt"), Items("BStmt")>>} \subseteq Seq(PlainWant)
      /\ {<<Operand, Items("BStmt")>>} \subseteq Seq(PlainWant)
      /\ {<<OperandOpt>>} \subseteq Seq(PlainWant) /\ {<<Items("BStmt")>>} \subseteq Seq(PlainWant)
  BY Wants, Singles, Pairs, Triples DEF ItemKind
<1> QED
  BY <1>1, ItemKinds, BatchRow DEF BatchControlRows

LEMMA BatchMembersOK == \A row \in BatchMemberRows : RowOK(row)
<1>1. {<<>>} \subseteq Seq(PlainWant) /\ {<<Operand>>} \subseteq Seq(PlainWant)
  BY Wants, Singles, Nothing
<1> QED
  BY <1>1, ItemKinds, BatchRow DEF BatchMemberRows

LEMMA BatchFunctionsOK == \A row \in BatchFunctionRows \cup BatchMethodRows : RowOK(row)
<1>1. /\ {<<Items("BParam"), Items("BStmt")>>} \subseteq Seq(PlainWant)
      /\ {<<Items("BParam"), ItemsOnly("BStmt")>>, <<Items("BParam"), Source>>} \subseteq Seq(PlainWant)
      /\ {<<Items("BParam"), Batch("BStmt")>>, <<Items("BParam"), Source>>} \subseteq Seq(PlainWant)
  BY Wants, Pairs DEF ItemKind
<1>2. \A row \in BatchFunctionRows : RowOK(row)
  BY <1>1, ItemKinds, BatchRow DEF BatchFunctionRows
<1>3. \A row \in BatchMethodRows : RowOK(row)
  BY <1>1, ItemKinds, BatchRow DEF BatchMethodRows
<1> QED
  BY <1>2, <1>3

LEMMA BatchSpecsOK == \A row \in BatchSpecRows : RowOK(row)
<1>1. /\ {<<Items("BField"), Items("BMethod")>>} \subseteq Seq(PlainWant)
      /\ {<<Items("BFunction")>>} \subseteq Seq(PlainWant)
  BY Wants, Singles, Pairs DEF ItemKind
<1> QED
  BY <1>1, ItemKinds, BatchRow DEF BatchSpecRows

\* A row that neither makes nor declares anything by itself.
LEMMA BareRow ==
  ASSUME NEW name, NEW takes, takes \subseteq Seq(AnyWant), NEW gate \in {"first", "late"},
         NEW text \in {"none", "trip"}, NEW ctx \in {"report", "silent"},
         NEW fails \in {"report", "trip"}
  PROVE  RowOK(Row(name, takes, "", <<>>, gate, text, ctx, FALSE, fails, "none"))
<1> DEFINE row == Row(name, takes, "", <<>>, gate, text, ctx, FALSE, fails, "none")
<1>2. /\ row.node = "" /\ row.decls = <<>> /\ row.gate = gate /\ row.text = text
      /\ row.ctx = ctx /\ row.fails = fails /\ row.late = "none" /\ row.takes = takes
  BY DEF Row
<1> HIDE DEF row
<1>3. <<>> \in Seq(Parts)
  OBVIOUS
<1>4. RowShape(row)
  BY <1>2, <1>3 DEF RowShape
<1>5. RowTakes(row)
  BY <1>2 DEF RowTakes
<1> QED
  BY <1>4, <1>5 DEF RowOK, row

LEMMA MembersOK == \A row \in MemberRows \cup ListRows : RowOK(row)
<1>1. /\ {<<Batch("BSpec")>>} \subseteq Seq(AnyWant) /\ {<<Batch("BClass")>>} \subseteq Seq(AnyWant)
      /\ {} \subseteq Seq(AnyWant)
  BY Wants, Singles
<1>2. \A row \in MemberRows : RowOK(row)
  BY <1>1, BareRow DEF MemberRows
<1>3. \A row \in ListRows : RowOK(row)
  BY <1>1, BareRow DEF ListRows
<1> QED
  BY <1>2, <1>3

\* Every row is of the form the arena's invariants rest on: a bridge that makes or declares
\* something takes no whole batch, one that reuses a faulty operand's diagnostic takes nodes of
\* the first table alone, and only an operation that makes a node of that table has no gate.
LEMMA RowsTyped == \A row \in AllRows : RowOK(row)
<1> USE DEF AllRows
<1> SUFFICES ASSUME NEW row \in AllRows
             PROVE  RowOK(row)
  OBVIOUS
<1>1. CASE row \in TypeRows \cup LiteralRows \cup CallRows \cup OperatorRows \cup StatementRows
                   \cup ControlRows \cup SourceRows \cup BlockRows
  BY <1>1, TypesOK, LiteralsOK, CallsOK, OperatorsOK, StatementsOK, ControlsOK, SourcesOK, BlocksOK
<1>2. CASE row \in FunctionRows \cup ClassRows \cup StateRows \cup StartRows \cup RouteRows
                   \cup CapabilityRows \cup HelpersTextRows \cup ClassTextRows
  BY <1>2, FunctionsOK, ClassesOK, StatesOK, StartsOK, RoutesOK, CapabilitiesOK, TextsOK
<1>3. CASE row \in BatchLeafRows \cup BatchCallRows \cup BatchOperatorRows \cup BatchStatementRows
                   \cup BatchControlRows \cup BatchMemberRows
  BY <1>3, BatchLeavesOK, BatchCallsOK, BatchOperatorsOK, BatchStatementsOK, BatchControlsOK,
     BatchMembersOK
<1>4. CASE row \in BatchFunctionRows \cup BatchMethodRows \cup BatchSpecRows \cup MemberRows
                   \cup ListRows
  BY <1>4, BatchFunctionsOK, BatchSpecsOK, MembersOK
<1> QED
  BY <1>1, <1>2, <1>3, <1>4

-----------------------------------------------------------------------------

\* The types, with what an array or batch lists being nodes that exist.
Sized == asts \in 0..MaxNodes /\ batches \in 0..MaxBatch
Typed ==
  /\ Sized
  /\ kind \in [Handles -> AstKinds \cup BatchKinds \cup {""}]
  /\ consumed \subseteq Nodes /\ slots \subseteq Nodes
  /\ held \in [Handles -> Nat]
  /\ items \in [Handles -> Seq(BatchNodes)]
  /\ holds \in [Handles -> Pushable \cup {"Unset"}]
  /\ body \in [Handles -> 0..(MaxNodes + 1)]
  /\ emitted \subseteq BatchNodes /\ decls \in Seq(Parts)
  /\ sources \in [{"inject", "transform"} -> SUBSET Paths]
  /\ slot \in {"expand", "assemble"} /\ result \in {"running", "accepted", "refused"}
\* Boolean variables.
Flags == sawError \in BOOLEAN /\ sticky \in BOOLEAN /\ silently \in BOOLEAN

Kinds ==
  /\ \A h \in AstNodes : kind[h] \in AstKinds
  /\ \A h \in BatchNodes : kind[h] \in BatchKinds
Unused == Nodes \ consumed \subseteq slots
OnePlace ==
  \A h \in Handles :
    /\ held[h] \in {0, 1}
    /\ h \in slots \/ h \notin Nodes => held[h] = 0
Whole ==
  \A h \in Nodes \ slots :
    kind[h] \in {"BSpec", "BClass"} => sawError \/ ToSet(items[h]) \subseteq emitted
Ended == result = "accepted" => ~sawError
Assembled == slot = "assemble" => decls = <<>>

IInv ==
  /\ Typed /\ Flags /\ Kinds /\ Unused /\ OnePlace /\ ArraysHold /\ NothingLostUnseen
  /\ BodiesResolved /\ Whole /\ Ended /\ Assembled

-----------------------------------------------------------------------------
\* What stays of the table when a bridge succeeds or fails.

\* The handles in gone are used up, and the values in out, theirs and those their arrays
\* list, leave the table.
Taken(gone, out) ==
  /\ gone \subseteq Nodes \ consumed /\ gone \subseteq out /\ out \subseteq slots
  /\ \A h \in out : h \in gone \/ \E a \in gone \cap Arrays : h \in ToSet(items[a])

\* The nodes there were stay what they were, and fresh has the nodes that are new.
Grown(fresh) ==
  /\ AstNodes \subseteq AstNodes' /\ BatchNodes \subseteq BatchNodes'
  /\ Nodes' = Nodes \cup fresh /\ fresh \cap Nodes = {}
  /\ \A h \in Nodes : /\ kind'[h] = kind[h] /\ items'[h] = items[h]
                      /\ holds'[h] = holds[h] /\ body'[h] = body[h]

LEMMA Tables ==
  ASSUME Typed
  PROVE  /\ AstNodes \subseteq AstHandles /\ BatchNodes \subseteq BatchHandles
         /\ Nodes \subseteq Handles /\ AstHandles \cap BatchHandles = {}
         /\ 0 \notin Handles
<1> Sized
  BY DEF Typed
<1>1. /\ asts \in Nat /\ asts <= MaxNodes /\ batches \in Nat /\ batches <= MaxBatch
      /\ MaxNodes \in Nat /\ MaxBatch \in Nat /\ BatchTag \in Nat /\ MaxNodes < BatchTag
  BY TablesAssumption DEF Sized
<1>2. AstNodes \subseteq AstHandles
  BY <1>1 DEF AstNodes, AstHandles
<1>3. BatchNodes \subseteq BatchHandles
  BY <1>1 DEF BatchNodes, BatchHandles
<1>4. AstHandles \cap BatchHandles = {}
  BY <1>1 DEF AstHandles, BatchHandles
<1>5. 0 \notin Handles
  BY <1>1 DEF AstHandles, BatchHandles, Handles
<1> QED
  BY <1>2, <1>3, <1>4, <1>5 DEF Nodes, Handles

LEMMA Listings ==
  ASSUME Typed, NEW h \in Handles
  PROVE  /\ Len(items[h]) \in Nat /\ DOMAIN items[h] = 1..Len(items[h])
         /\ \A n \in 1..Len(items[h]) : items[h][n] \in ToSet(items[h])
         /\ \A i \in ToSet(items[h]) : \E n \in 1..Len(items[h]) : i = items[h][n]
         /\ ToSet(items[h]) \subseteq BatchNodes
<1>1. items[h] \in Seq(BatchNodes)
  BY DEF Typed
<1> QED
  BY <1>1 DEF ToSet

LEMMA Growth ==
  ASSUME Typed, NEW k \in AstKinds \cup BatchKinds, Room(k), Count(k)
  PROVE  /\ New(k) \in Handles \ Nodes /\ Nodes' = Nodes \cup {New(k)}
         /\ AstNodes \subseteq AstNodes' /\ BatchNodes \subseteq BatchNodes'
         /\ asts' \in 0..MaxNodes /\ batches' \in 0..MaxBatch
         /\ k \in AstKinds => AstNodes' = AstNodes \cup {New(k)} /\ BatchNodes' = BatchNodes
         /\ k \notin AstKinds => BatchNodes' = BatchNodes \cup {New(k)} /\ AstNodes' = AstNodes
<1> Sized
  BY DEF Typed
<1>1. /\ asts \in Nat /\ asts <= MaxNodes /\ batches \in Nat /\ batches <= MaxBatch
      /\ MaxNodes \in Nat /\ MaxBatch \in Nat /\ BatchTag \in Nat /\ MaxNodes < BatchTag
  BY TablesAssumption DEF Sized
<1>2. CASE k \in AstKinds
  <2>1. New(k) = asts + 1 /\ asts < MaxNodes /\ asts' = asts + 1 /\ batches' = batches
    BY <1>2 DEF New, Room, Count
  <2>2. AstNodes' = AstNodes \cup {New(k)} /\ BatchNodes' = BatchNodes
    BY <1>1, <2>1 DEF AstNodes, BatchNodes
  <2>3. New(k) \in AstHandles /\ New(k) \notin AstNodes /\ New(k) \notin BatchNodes
    BY <1>1, <2>1 DEF AstHandles, AstNodes, BatchNodes
  <2>4. asts' \in 0..MaxNodes /\ batches' \in 0..MaxBatch
    BY <1>1, <2>1
  <2> QED
    BY <1>2, <2>2, <2>3, <2>4 DEF Nodes, Handles
<1>3. CASE k \notin AstKinds
  <2>1. /\ New(k) = BatchTag + batches + 1 /\ batches < MaxBatch
        /\ asts' = asts /\ batches' = batches + 1
    BY <1>3 DEF New, Room, Count
  <2>2. BatchNodes' = BatchNodes \cup {New(k)} /\ AstNodes' = AstNodes
    BY <1>1, <2>1 DEF AstNodes, BatchNodes
  <2>3. New(k) \in BatchHandles /\ New(k) \notin AstNodes /\ New(k) \notin BatchNodes
    BY <1>1, <2>1 DEF BatchHandles, AstNodes, BatchNodes
  <2>4. asts' \in 0..MaxNodes /\ batches' \in 0..MaxBatch
    BY <1>1, <2>1
  <2> QED
    BY <1>3, <2>2, <2>3, <2>4 DEF Nodes, Handles
<1> QED
  BY <1>2, <1>3

LEMMA ArraysKept ==
  ASSUME IInv, NEW gone, NEW out, NEW fresh, Taken(gone, out), Grown(fresh),
         consumed' = consumed \cup gone, slots' = (slots \ out) \cup fresh,
         \A x \in fresh : kind'[x] = "BArray" => items'[x] = <<>>
  PROVE  ArraysHold'
<1> SUFFICES ASSUME NEW a \in LiveArrays', NEW h \in ToSet(items'[a])
             PROVE  /\ h \in consumed' \cap slots' /\ kind'[h] = holds'[a]
                    /\ \A b \in LiveArrays' \ {a} : h \notin ToSet(items'[b])
  BY DEF ArraysHold
<1>1. \A b \in LiveArrays' : b \in LiveArrays \/ (b \in fresh /\ items'[b] = <<>>)
  BY DEF LiveArrays, Arrays, Grown, Nodes, IInv, Kinds, AstKinds
<1>2. \A b \in LiveArrays' : b \in LiveArrays \/ ToSet(items'[b]) = {}
  BY <1>1 DEF ToSet
<1>3. a \in LiveArrays
  BY <1>2
<1>4. a \in Nodes /\ a \in Handles /\ items'[a] = items[a] /\ holds'[a] = holds[a] /\ a \notin gone
  BY <1>3, Tables DEF LiveArrays, Arrays, Nodes, Grown, IInv
<1>5. /\ h \in consumed \cap slots /\ kind[h] = holds[a] /\ h \in Nodes
      /\ \A b \in LiveArrays \ {a} : h \notin ToSet(items[b])
  BY <1>3, <1>4, Listings DEF IInv, ArraysHold, Nodes
<1>6. h \notin out
  BY <1>4, <1>5 DEF Taken, LiveArrays
<1>7. ASSUME NEW b \in LiveArrays' \ {a}, b \in LiveArrays
      PROVE  h \notin ToSet(items'[b])
  <2>1. items'[b] = items[b]
    BY <1>7 DEF LiveArrays, Arrays, Nodes, Grown
  <2> QED
    BY <1>5, <1>7, <2>1
<1> QED
  BY <1>2, <1>4, <1>5, <1>6, <1>7 DEF Grown

-----------------------------------------------------------------------------
\* The operands of a bridge.

\* What a sound operand is: a live node in its slot, and an array that can be drained or
\* one value.
LEMMA Sound ==
  ASSUME IInv, NEW want \in AnyWant, NEW h, NEW gone, Fault(want, h, gone) = "none",
         Uses(want, h) # {}
  PROVE  /\ h \in Nodes \ consumed /\ h \in slots /\ h \notin gone /\ Uses(want, h) = {h}
         /\ want.array => h \in LiveArrays /\ \A n \in 1..Len(items[h]) : Extracts(h, want.kind, n)
         /\ ~want.array => h \notin Arrays
         /\ ~want.array /\ want \in PlainWant => kind[h] \notin {"BSpec", "BClass"}
<1>1. want.table # "source" /\ h # 0 /\ Uses(want, h) = {h}
  BY DEF Uses
<1>2. InTable(want, h) /\ h \notin consumed /\ h \notin gone /\ Suits(want, h)
  BY <1>1 DEF Fault
<1>3. h \in Nodes
  BY <1>2 DEF InTable, Nodes
<1>4. h \in slots
  BY <1>2, <1>3 DEF IInv, Unused
<1>5. want.array => h \in LiveArrays /\ \A n \in 1..Len(items[h]) : Extracts(h, want.kind, n)
  <2> SUFFICES ASSUME want.array
               PROVE  h \in LiveArrays /\ \A n \in 1..Len(items[h]) : Extracts(h, want.kind, n)
    OBVIOUS
  <2>1. kind[h] = "BArray"
    BY <1>2 DEF Suits
  <2>2. h \in LiveArrays
    BY <1>2, <1>3, <2>1 DEF LiveArrays, Arrays, Nodes, IInv, Kinds, AstKinds
  <2>3. \A n \in 1..Len(items[h]) : Extracts(h, want.kind, n)
    BY <1>1, <1>2 DEF Fault
  <2> QED
    BY <2>2, <2>3
<1>6. ~want.array => h \notin Arrays
  <2>1. want.kind # "BArray"
    BY DEF AnyWant, AstKind, ItemKind
  <2> QED
    BY <1>2, <2>1 DEF Suits, Arrays
<1>7. ~want.array /\ want \in PlainWant => kind[h] \notin {"BSpec", "BClass"}
  BY <1>2 DEF Suits, PlainWant
<1> QED
  BY <1>1, <1>2, <1>3, <1>4, <1>5, <1>6, <1>7

\* The values an operand moves are in their slots, and are the operand or what it lists.
LEMMA Moving ==
  ASSUME IInv, NEW want \in AnyWant, NEW h, NEW gone, Fault(want, h, gone) = "none"
  PROVE  /\ Moves(want, h) \subseteq slots
         /\ Moves(want, h) # {} => Uses(want, h) = {h}
         /\ Moves(want, h) \subseteq BatchNodes \/ ~want.array
         /\ \A v \in Moves(want, h) :
              IF want.array THEN h \in LiveArrays /\ v \in ToSet(items[h]) /\ kind[v] = want.kind
              ELSE v = h
         /\ \A v \in Uses(want, h) :
              IF want.array THEN ToSet(items[v]) = Moves(want, h) ELSE v \in Moves(want, h)
<1>1. CASE Uses(want, h) = {}
  BY <1>1 DEF Moves
<1>2. CASE Uses(want, h) # {} /\ ~want.array
  BY <1>2, Sound DEF Moves
<1>3. CASE Uses(want, h) # {} /\ want.array
  <2>1. /\ h \in LiveArrays /\ \A n \in 1..Len(items[h]) : Extracts(h, want.kind, n)
        /\ Uses(want, h) = {h} /\ Moves(want, h) = ToSet(items[h])
    BY <1>3, Sound DEF Moves
  <2>2. h \in Handles
    BY <2>1, Tables DEF LiveArrays, Arrays, Nodes, IInv
  <2>3. \A v \in ToSet(items[h]) : v \in slots /\ kind[v] = want.kind
    BY <2>1, <2>2, Listings DEF Extracts, IInv
  <2> QED
    BY <1>3, <2>1, <2>2, <2>3, Listings DEF IInv
<1> QED
  BY <1>1, <1>2, <1>3

\* What the first n operands take: they are used up, and leave with what they list; arrays
\* aside, what is used up is moved.
Sorted(takes, args, n) ==
  LET gone == UsedBefore(takes, args, n + 1)
      moved == Moved(takes, args, n)
  IN  /\ Taken(gone, moved \cup gone) /\ gone \ moved \subseteq LiveArrays
      /\ \A a \in gone \cap Arrays : ToSet(items[a]) \subseteq moved
      /\ takes \in Seq(PlainWant) => \A h \in moved \cup gone : kind[h] \notin {"BSpec", "BClass"}

LEMMA OperandsTaken ==
  ASSUME IInv, NEW takes \in Seq(AnyWant), NEW n \in 0..Len(takes), NEW args,
         Resolves(takes, args, n)
  PROVE  Sorted(takes, args, n)
<1> DEFINE gone == UsedBefore(takes, args, n + 1)
           moved == Moved(takes, args, n)
           F(m) == Fault(takes[m], args[m], UsedBefore(takes, args, m))
<1>1. \A m \in 1..n : takes[m] \in AnyWant /\ F(m) = "none"
  BY DEF Resolves
<1>2. gone = UNION {Uses(takes[m], args[m]) : m \in 1..n}
  BY DEF UsedBefore
<1>3. \A h \in gone : \E m \in 1..n : Uses(takes[m], args[m]) # {} /\ h \in Uses(takes[m], args[m])
  BY <1>2
<1>4. \A h \in moved : \E m \in 1..n : h \in Moves(takes[m], args[m])
  BY DEF Moved
<1>5. ASSUME NEW h \in gone
      PROVE  /\ h \in Nodes \ consumed /\ h \in slots
             /\ h \in Arrays => ToSet(items[h]) \subseteq moved
             /\ h \notin moved => h \in LiveArrays
             /\ takes \in Seq(PlainWant) => kind[h] \notin {"BSpec", "BClass"}
  <2>1. PICK m \in 1..n : Uses(takes[m], args[m]) # {} /\ h \in Uses(takes[m], args[m])
    BY <1>3
  <2>2. /\ args[m] = h /\ h \in Nodes \ consumed /\ h \in slots
        /\ takes[m].array => h \in LiveArrays
        /\ ~takes[m].array => h \notin Arrays
        /\ ~takes[m].array /\ takes[m] \in PlainWant => kind[h] \notin {"BSpec", "BClass"}
    BY <1>1, <2>1, Sound
  <2>3. IF takes[m].array THEN ToSet(items[h]) = Moves(takes[m], args[m])
        ELSE h \in Moves(takes[m], args[m])
    BY <1>1, <2>1, Moving
  <2>4. Moves(takes[m], args[m]) \subseteq moved
    BY DEF Moved
  <2>5. takes[m].array => kind[h] = "BArray"
    BY <2>2 DEF LiveArrays, Arrays
  <2>6. takes \in Seq(PlainWant) => takes[m] \in PlainWant
    OBVIOUS
  <2> QED
    BY <2>2, <2>3, <2>4, <2>5, <2>6
<1>6. ASSUME NEW h \in moved
      PROVE  /\ h \in slots
             /\ h \in gone \/ \E a \in gone \cap Arrays : h \in ToSet(items[a])
             /\ takes \in Seq(PlainWant) => kind[h] \notin {"BSpec", "BClass"}
  <2>1. PICK m \in 1..n : h \in Moves(takes[m], args[m])
    BY <1>4
  <2>2. /\ h \in slots /\ Uses(takes[m], args[m]) = {args[m]}
        /\ IF takes[m].array THEN /\ args[m] \in LiveArrays /\ h \in ToSet(items[args[m]])
                                 /\ kind[h] = takes[m].kind
           ELSE h = args[m]
    BY <1>1, <2>1, Moving
  <2>3. args[m] \in gone
    BY <1>2, <2>2
  <2>4. CASE takes[m].array
    <3>1. takes \in Seq(PlainWant) => takes[m].kind \notin {"BSpec", "BClass"}
      BY DEF PlainWant
    <3> QED
      BY <2>2, <2>3, <2>4, <3>1 DEF LiveArrays
  <2>5. CASE ~takes[m].array
    BY <1>5, <2>2, <2>3, <2>5
  <2> QED
    BY <2>4, <2>5
<1> QED
  BY <1>5, <1>6 DEF Taken, Sorted

\* No value is moved by two operands, nor twice by one array: a handle is used up before the
\* next operand is looked at, and an array holds its items alone.
LEMMA MovedOnceOnly ==
  ASSUME IInv, NEW takes \in Seq(AnyWant), NEW args, Resolves(takes, args, Len(takes)), NEW h
  PROVE  ~MovedTwice(takes, args, h)
<1> DEFINE F(m) == Fault(takes[m], args[m], UsedBefore(takes, args, m))
<1>1. \A m \in 1..Len(takes) : takes[m] \in AnyWant /\ F(m) = "none"
  BY DEF Resolves
<1>2. ASSUME NEW n \in 1..Len(takes), NEW m \in 1..(n - 1),
             h \in Moves(takes[m], args[m]), h \in Moves(takes[n], args[n])
      PROVE  FALSE
  <2>1. m \in 1..Len(takes)
    OBVIOUS
  <2>2. Uses(takes[m], args[m]) = {args[m]} /\ Uses(takes[n], args[n]) = {args[n]}
    BY <1>1, <1>2, <2>1, Moving
  <2>3. args[m] \in UsedBefore(takes, args, n)
    BY <2>2 DEF UsedBefore
  <2>4. args[m] # args[n] /\ args[n] \notin consumed /\ args[m] \notin consumed
    BY <1>1, <2>1, <2>2, <2>3, Sound
  <2>5. IF takes[m].array THEN args[m] \in LiveArrays /\ h \in ToSet(items[args[m]])
        ELSE h = args[m]
    BY <1>1, <1>2, <2>1, Moving
  <2>6. IF takes[n].array THEN args[n] \in LiveArrays /\ h \in ToSet(items[args[n]])
        ELSE h = args[n]
    BY <1>1, <1>2, Moving
  <2>7. \A a, b \in LiveArrays : h \in ToSet(items[a]) =>
           h \in consumed /\ (a # b => h \notin ToSet(items[b]))
    BY DEF IInv, ArraysHold
  <2> QED
    BY <2>4, <2>5, <2>6, <2>7
<1>3. ASSUME NEW n \in 1..Len(takes), takes[n].array, args[n] \in BatchNodes,
             NEW i \in 1..Len(items[args[n]]), NEW j \in 1..(i - 1),
             items[args[n]][i] = h, items[args[n]][j] = h
      PROVE  FALSE
  <2>1. args[n] # 0
    BY <1>3, Tables DEF IInv, Nodes
  <2>2. takes[n].table # "source"
    BY <1>1, <1>3 DEF Fault
  <2>3. Uses(takes[n], args[n]) # {}
    BY <2>1, <2>2 DEF Uses
  <2>4. Extracts(args[n], takes[n].kind, i)
    BY <1>1, <1>3, <2>3, Sound
  <2> QED
    BY <1>3, <2>4 DEF Extracts
<1> QED
  BY <1>2, <1>3 DEF MovedTwice

-----------------------------------------------------------------------------
\* Steps that touch no table.

\* What leaves the table was used up, before or now.
LEMMA UsedUp ==
  ASSUME IInv, NEW gone, NEW out, Taken(gone, out)
  PROVE  out \subseteq consumed \cup gone
<1> SUFFICES ASSUME NEW h \in out, h \notin gone
             PROVE  h \in consumed
  OBVIOUS
<1>1. PICK a \in gone \cap Arrays : h \in ToSet(items[a])
  BY DEF Taken
<1>2. a \in LiveArrays
  BY DEF Taken, LiveArrays
<1> QED
  BY <1>1, <1>2 DEF IInv, ArraysHold

LEMMA Idle ==
  ASSUME IInv, UNCHANGED <<tables, consumed, output, slot>>, Flags',
         sawError => sawError', silently => silently' \/ sawError',
         result' \in {"running", "accepted", "refused"}, Ended'
  PROVE  IInv'
<1>1. UNCHANGED <<asts, batches, kind, slots, held, items, holds, body, emitted, decls, sources>>
  BY DEF tables, output
<1> USE DEF Nodes, AstNodes, BatchNodes, Arrays, LiveArrays
<1>2. Typed'
  BY <1>1 DEF IInv, Typed, Sized
<1>3. Kinds' /\ Unused' /\ OnePlace'
  BY <1>1 DEF IInv, Kinds, Unused, OnePlace
<1>4. ArraysHold' /\ BodiesResolved'
  BY <1>1 DEF IInv, ArraysHold, BodiesResolved
<1>5. NothingLostUnseen'
  BY <1>1 DEF IInv, NothingLostUnseen, Lost, Stranded
<1>6. Whole' /\ Assembled'
  BY <1>1 DEF IInv, Whole, Assembled
<1> QED
  BY <1>2, <1>3, <1>4, <1>5, <1>6 DEF IInv

\* Operands are lost: a bad one came after them, and an error says so, or they are nodes of
\* the first table before a fault that goes unsaid.
LEMMA Lose ==
  ASSUME IInv, NEW gone, NEW out, Taken(gone, out), consumed' = consumed \cup gone, Leave(out),
         UNCHANGED <<held, output, slot, result>>, Running, Flags',
         sawError => sawError', silently => silently' \/ sawError',
         sawError' \/ (silently' /\ gone \cup out \subseteq AstNodes)
  PROVE  IInv'
<1>1. UNCHANGED <<asts, batches, kind, held, items, holds, body, emitted, decls, sources>>
  BY DEF output, Leave
<1>2. slots' = (slots \ out) \cup {} /\ slots' = slots \ out
  BY DEF Leave
<1>3. UNCHANGED <<AstNodes, BatchNodes, Nodes, Arrays>> /\ Grown({})
  BY <1>1 DEF Nodes, AstNodes, BatchNodes, Arrays, Grown
<1>4. Typed'
  BY <1>1, <1>2, <1>3 DEF IInv, Typed, Sized, Taken
<1>5. ArraysHold'
  <2>1. \A x \in {} : kind'[x] = "BArray" => items'[x] = <<>>
    OBVIOUS
  <2> QED
    BY <1>2, <1>3, <2>1, ArraysKept
<1>6. Kinds' /\ Unused' /\ OnePlace' /\ BodiesResolved' /\ Ended' /\ Assembled'
  <2>1. Kinds' /\ BodiesResolved' /\ Assembled'
    BY <1>1, <1>3 DEF IInv, Kinds, BodiesResolved, Assembled
  <2>2. Unused'
    BY <1>1, <1>2, <1>3, UsedUp DEF IInv, Unused
  <2>3. OnePlace'
    BY <1>1, <1>2, <1>3 DEF IInv, OnePlace
  <2>4. Ended'
    BY DEF Ended, Running
  <2> QED
    BY <2>1, <2>2, <2>3, <2>4
<1>7. NothingLostUnseen'
  <2> SUFFICES ASSUME NEW h \in Nodes, ~sawError', (Lost(h) \/ Stranded(h))'
               PROVE  silently' /\ h \in AstNodes
    BY <1>3 DEF NothingLostUnseen
  <2>1. silently' /\ gone \cup out \subseteq AstNodes
    OBVIOUS
  <2>2. CASE h \in gone \cup out
    BY <2>1, <2>2
  <2>3. CASE h \notin gone \cup out
    <3>1. gone \cap Arrays = {}
      BY <2>1 DEF Arrays, IInv, Kinds, AstKinds
    <3>2. LiveArrays' = LiveArrays
      BY <1>3, <3>1 DEF LiveArrays
    <3>3. Lost(h) \/ Stranded(h)
      BY <1>1, <1>2, <1>3, <2>3, <3>2 DEF Lost, Stranded
    <3> QED
      BY <3>3 DEF IInv, NothingLostUnseen
  <2> QED
    BY <2>2, <2>3
<1>8. Whole'
  <2> SUFFICES ASSUME NEW h \in Nodes \ slots', kind[h] \in {"BSpec", "BClass"}, ~sawError'
               PROVE  ToSet(items[h]) \subseteq emitted
    BY <1>1, <1>3 DEF Whole
  <2>1. h \notin out
    BY DEF IInv, Kinds, AstKinds
  <2> QED
    BY <1>2, <2>1 DEF IInv, Whole
<1> QED
  BY <1>4, <1>5, <1>6, <1>7, <1>8 DEF IInv

\* Operands find their place: those in moved are in one more, and what else leaves the table
\* is the arrays they were listed in, unless an error was recorded.
LEMMA Settle ==
  ASSUME IInv, NEW gone, NEW out, NEW fresh, NEW moved, Taken(gone, out), Grown(fresh),
         fresh \subseteq Handles, moved \subseteq out,
         consumed' = consumed \cup gone, slots' = (slots \ out) \cup fresh,
         \A h \in Handles : held'[h] = held[h] + (IF h \in moved THEN 1 ELSE 0),
         \A x \in fresh : kind'[x] = "BArray" => items'[x] = <<>>,
         sawError => sawError', silently => silently' \/ sawError',
         sawError' \/ /\ out \ moved \subseteq LiveArrays
                      /\ \A a \in gone \cap Arrays : ToSet(items[a]) \subseteq out
  PROVE  /\ Unused' /\ OnePlace' /\ ArraysHold' /\ NothingLostUnseen'
         /\ \A h \in Handles : held[h] = 1 => held'[h] = 1
<1>1. Nodes' = Nodes \cup fresh /\ fresh \cap Nodes = {} /\ Nodes \subseteq Handles
  BY Tables DEF Grown, IInv
<1>2. consumed \subseteq Nodes /\ slots \subseteq Nodes
  BY DEF IInv, Typed
<1>3. Unused'
  BY <1>1, <1>2, UsedUp DEF IInv, Unused
<1>4. \A h \in Handles : held[h] \in {0, 1} /\ (h \in slots \/ h \notin Nodes => held[h] = 0)
  BY DEF IInv, OnePlace
<1>5. moved \subseteq slots
  BY DEF Taken
<1>6. OnePlace'
  BY <1>1, <1>2, <1>4, <1>5 DEF OnePlace
<1>7. ArraysHold'
  BY ArraysKept
<1>8. ASSUME NEW h \in Nodes', ~sawError', (Lost(h) \/ Stranded(h))'
      PROVE  silently' /\ h \in AstNodes'
  <2>1. ~sawError /\ out \ moved \subseteq LiveArrays
        /\ \A a \in gone \cap Arrays : ToSet(items[a]) \subseteq out
    BY <1>8
  <2>2. h \notin fresh
    BY <1>1, <1>2, <1>8 DEF Lost, Stranded, Taken
  <2>3. h \in Nodes
    BY <1>1, <2>2
  <2>4. h \in Arrays' <=> h \in Arrays
    BY <2>3 DEF Arrays, Grown, IInv, Kinds, AstKinds, Nodes
  <2>5. CASE Lost(h)'
    <3>1. h \notin Arrays /\ h \notin slots' /\ held'[h] = 0
      BY <2>4, <2>5 DEF Lost
    <3>2. h \notin moved /\ held[h] = 0
      BY <1>1, <1>4, <2>3, <3>1
    <3>3. h \notin out
      BY <2>1, <3>1, <3>2 DEF LiveArrays
    <3>4. Lost(h)
      BY <2>3, <3>1, <3>2, <3>3 DEF Lost
    <3> QED
      BY <1>8, <2>1, <2>3, <3>4 DEF IInv, NothingLostUnseen, Grown
  <2>6. CASE Stranded(h)'
    <3>1. h \in consumed' \cap slots' /\ \A a \in LiveArrays' : h \notin ToSet(items'[a])
      BY <2>6 DEF Stranded
    <3>2. h \in consumed \cap slots /\ h \notin out
      BY <2>2, <3>1 DEF Taken
    <3>3. \A a \in LiveArrays : h \notin ToSet(items[a])
      <4> SUFFICES ASSUME NEW a \in LiveArrays, h \in ToSet(items[a])
                   PROVE  FALSE
        OBVIOUS
      <4>1. a \notin gone
        BY <2>1, <3>2 DEF LiveArrays
      <4>2. a \in LiveArrays' /\ items'[a] = items[a]
        BY <4>1 DEF LiveArrays, Arrays, Nodes, Grown
      <4> QED
        BY <3>1, <4>2
    <3>4. Stranded(h)
      BY <3>2, <3>3 DEF Stranded
    <3> QED
      BY <1>8, <2>1, <2>3, <3>4 DEF IInv, NothingLostUnseen, Grown
  <2> QED
    BY <1>8, <2>5, <2>6
<1>9. NothingLostUnseen'
  BY <1>8 DEF NothingLostUnseen
<1>10. \A h \in Handles : held[h] = 1 => held'[h] = 1
  BY <1>4, <1>5
<1> QED
  BY <1>3, <1>6, <1>7, <1>9, <1>10

-----------------------------------------------------------------------------
\* What a bridge says never takes an error back.

LEMMA Told ==
  ASSUME Flags
  PROVE  /\ Reported \/ Tripped => Flags' /\ sawError' /\ (silently => silently')
         /\ Silent => /\ Flags' /\ (sawError => sawError') /\ (silently => silently')
                      /\ (sawError' \/ silently')
         /\ Quiet => Flags' /\ (sawError => sawError') /\ (silently => silently')
<1>1. /\ sawError = TRUE \/ sawError = FALSE
      /\ sticky = TRUE \/ sticky = FALSE
      /\ silently = TRUE \/ silently = FALSE
  BY DEF Flags
<1>2. ASSUME Reported \/ Tripped
      PROVE  Flags' /\ sawError' /\ (silently => silently')
  <2>1. sawError' = TRUE /\ silently' = silently /\ (sticky' = sticky \/ sticky' = TRUE)
    BY <1>2 DEF Reported, Tripped
  <2>2. sawError' \in BOOLEAN /\ silently' \in BOOLEAN /\ sticky' \in BOOLEAN
    BY <1>1, <2>1, Zenon
  <2>3. sawError' /\ (silently => silently')
    BY <2>1, Zenon
  <2> QED
    BY <2>2, <2>3 DEF Flags
<1>3. ASSUME Silent
      PROVE  /\ Flags' /\ (sawError => sawError') /\ (silently => silently')
             /\ (sawError' \/ silently')
  <2>1. silently' = (silently \/ ~sawError) /\ sawError' = sawError /\ sticky' = sticky
    BY <1>3 DEF Silent
  <2>2. sawError' \in BOOLEAN /\ sticky' \in BOOLEAN
    BY <1>1, <2>1, Zenon
  <2>3. silently' \in BOOLEAN
    BY <1>1, <2>1, Zenon
  <2>4. (sawError => sawError') /\ (silently => silently') /\ (sawError' \/ silently')
    BY <2>1, Zenon
  <2> QED
    BY <2>2, <2>3, <2>4 DEF Flags
<1>4. Quiet => Flags' /\ (sawError => sawError') /\ (silently => silently')
  BY DEF Flags, Quiet
<1> QED
  BY <1>2, <1>3, <1>4

LEMMA SaysOne ==
  ASSUME NEW how, Says(how), how \in {"silent", "report", "trip"}
  PROVE  /\ Reported \/ Tripped \/ Silent
         /\ how # "silent" => Reported \/ Tripped
  BY DEF Says

\* Whatever a running call says without doing anything.
LEMMA Saying ==
  ASSUME IInv, UNCHANGED <<tables, consumed, output, slot, result>>, Running,
         Reported \/ Tripped \/ Silent \/ Quiet
  PROVE  IInv'
<1>1. Flags' /\ (sawError => sawError') /\ (silently => silently' \/ sawError')
  BY Told DEF IInv
<1>2. result' \in {"running", "accepted", "refused"} /\ Ended'
  BY DEF Running, Ended
<1> QED
  BY <1>1, <1>2, Idle

\* A bad operand: those before it are lost, and so is it when its table does not put it back.
LEMMA Spoiling ==
  ASSUME IInv, NEW takes \in Seq(AnyWant), NEW n \in 1..Len(takes), NEW args,
         Resolves(takes, args, n - 1), NEW h,
         NEW gone, gone = UsedBefore(takes, args, n),
         NEW fault, fault = Fault(takes[n], h, gone),
         NEW also, also = IF h \in BatchNodes /\ fault \in {"kind", "drain"} THEN {h} ELSE {},
         NEW moved, moved = Moved(takes, args, n - 1)
  PROVE  Taken(gone \cup also, moved \cup gone \cup Spoiled(takes[n], h, fault))
<1>1. n - 1 \in 0..Len(takes) /\ gone = UsedBefore(takes, args, (n - 1) + 1)
  OBVIOUS
<1>2. Taken(gone, moved \cup gone)
  <2>1. Sorted(takes, args, n - 1)
    BY <1>1, OperandsTaken
  <2> QED
    BY <1>1, <2>1 DEF Sorted
<1>3. CASE also = {}
  <2>1. Spoiled(takes[n], h, fault) = {}
    BY <1>3 DEF Spoiled
  <2> QED
    BY <1>2, <1>3, <2>1
<1>4. CASE also # {}
  <2>1. h \in BatchNodes /\ fault \in {"kind", "drain"} /\ also = {h}
    BY <1>4
  <2>2. h \notin consumed /\ h \notin gone
    BY <2>1 DEF Fault
  <2>3. h \in Nodes \ consumed /\ h \in slots
    BY <2>1, <2>2 DEF Nodes, IInv, Unused
  <2>4. CASE fault = "kind"
    <3>1. Spoiled(takes[n], h, fault) = {h}
      BY <2>1, <2>4 DEF Spoiled
    <3> QED
      BY <1>2, <2>1, <2>3, <3>1 DEF Taken
  <2>5. CASE fault = "drain"
    <3>1. takes[n].array /\ Suits(takes[n], h)
      BY <2>5 DEF Fault
    <3>2. h \in Arrays /\ h \in LiveArrays
      BY <2>1, <2>2, <3>1 DEF Suits, Arrays, LiveArrays
    <3>3. ToSet(items[h]) \subseteq slots
      BY <3>2 DEF IInv, ArraysHold
    <3>4. Drained(h, takes[n].kind) \subseteq ToSet(items[h])
      <4>1. h \in Handles
        BY <2>3, Tables DEF IInv
      <4> QED
        BY <4>1, Listings DEF Drained, IInv
    <3>5. Spoiled(takes[n], h, fault) = {h} \cup Drained(h, takes[n].kind)
      BY <2>1, <2>5 DEF Spoiled
    <3> QED
      BY <1>2, <2>1, <2>3, <3>2, <3>3, <3>4, <3>5 DEF Taken
  <2> QED
    BY <2>1, <2>4, <2>5
<1> QED
  BY <1>3, <1>4

LEMMA AstOperands ==
  ASSUME IInv, NEW takes \in Seq(AstWant), NEW n \in 0..Len(takes), NEW args,
         Resolves(takes, args, n)
  PROVE  UsedBefore(takes, args, n + 1) \cup Moved(takes, args, n) \subseteq AstNodes
<1>1. \A m \in 1..n : takes[m] \in AstWant /\ takes[m] \in AnyWant
  BY DEF AstWant, PlainWant
<1>2. ASSUME NEW m \in 1..n
      PROVE  Uses(takes[m], args[m]) \cup Moves(takes[m], args[m]) \subseteq AstNodes
  <2>1. Fault(takes[m], args[m], UsedBefore(takes, args, m)) = "none"
    BY DEF Resolves
  <2>2. CASE Uses(takes[m], args[m]) = {}
    BY <2>2 DEF Moves
  <2>3. CASE Uses(takes[m], args[m]) # {}
    <3>1. args[m] # 0 /\ takes[m].table = "ast" /\ ~takes[m].array
      BY <1>1, <2>3 DEF Uses, AstWant
    <3>2. args[m] \in AstNodes
      BY <2>1, <3>1 DEF Fault, InTable
    <3> QED
      BY <3>1, <3>2 DEF Uses, Moves
  <2> QED
    BY <2>2, <2>3
<1> QED
  BY <1>2 DEF UsedBefore, Moved

LEMMA BadOperandKeeps ==
  ASSUME IInv, NEW row, RowOK(row), BadOperand(row)
  PROVE  IInv'
<1> PICK takes \in row.takes :
      \E n \in 1..Len(takes) : \E args \in [1..(n - 1) -> Offers(takes)] :
      \E h \in Nodes \cup {0, asts + 1} : Spoil(row, takes, n, args, h)
  BY DEF BadOperand
<1> PICK n \in 1..Len(takes) :
      \E args \in [1..(n - 1) -> Offers(takes)] :
      \E h \in Nodes \cup {0, asts + 1} : Spoil(row, takes, n, args, h)
  OBVIOUS
<1> PICK args \in [1..(n - 1) -> Offers(takes)], h \in Nodes \cup {0, asts + 1} :
      Spoil(row, takes, n, args, h)
  OBVIOUS
<1> DEFINE gone == UsedBefore(takes, args, n)
           fault == Fault(takes[n], h, gone)
           moved == Moved(takes, args, n - 1)
           also == IF h \in BatchNodes /\ fault \in {"kind", "drain"} THEN {h} ELSE {}
           out == moved \cup gone \cup Spoiled(takes[n], h, fault)
<1>1. /\ Resolves(takes, args, n - 1) /\ consumed' = consumed \cup (gone \cup also)
      /\ Leave(out) /\ UNCHANGED <<held, output, slot, result>> /\ Complains(row, fault)
  BY DEF Spoil
<1>2. takes \in Seq(AnyWant) /\ Running
  BY DEF RowOK, RowTakes, BadOperand, Callable
<1>3. Taken(gone \cup also, out)
  BY <1>1, <1>2, Spoiling
<1>4. CASE row.fails # "reuse"
  <2>1. Says(row.fails)
    BY <1>1, <1>4 DEF Complains
  <2>2. Reported \/ Tripped
    BY <1>4, <2>1, SaysOne DEF RowOK, RowShape
  <2> HIDE DEF gone, fault, moved, also, out
  <2> QED
    BY <1>1, <1>2, <1>3, <2>2, Told, Lose DEF IInv
<1>5. CASE row.fails = "reuse"
  <2>1. takes \in Seq(AstWant)
    BY <1>5 DEF RowOK, RowTakes
  <2>2. takes[n] \in AstWant /\ n - 1 \in 0..Len(takes)
    BY <2>1
  <2>3. gone = UsedBefore(takes, args, (n - 1) + 1)
    BY <2>1
  <2>4. gone \cup moved \subseteq AstNodes
    BY <1>1, <2>1, <2>2, <2>3, AstOperands
  <2>5. also = {}
    <3> SUFFICES ASSUME h \in BatchNodes, fault \in {"kind", "drain"}
                 PROVE  FALSE
      OBVIOUS
    <3>1. InTable(takes[n], h) /\ takes[n].table = "ast"
      BY <2>2 DEF Fault, AstWant
    <3>2. h \in AstNodes /\ h \in BatchNodes
      BY <3>1 DEF InTable
    <3> QED
      BY <3>2, Tables DEF IInv
  <2>6. Spoiled(takes[n], h, fault) = {}
    BY <2>5 DEF Spoiled
  <2>7. Reported \/ Silent
    BY <1>1, <1>5 DEF Complains
  <2>8. Flags' /\ (sawError => sawError') /\ (silently => silently') /\ (sawError' \/ silently')
    BY <2>7, Told DEF IInv
  <2>9. (gone \cup also) \cup out \subseteq AstNodes
    BY <2>4, <2>5, <2>6
  <2> HIDE DEF gone, fault, moved, also, out
  <2> QED
    BY <1>1, <1>2, <1>3, <2>8, <2>9, Lose
<1> QED
  BY <1>4, <1>5

-----------------------------------------------------------------------------
\* A node is made, or declarations are added, of operands that were all taken.

LEMMA Allocated ==
  ASSUME IInv, NEW k \in AstKinds \cup BatchKinds, NEW out, NEW list \in Seq(BatchNodes),
         NEW for \in Pushable \cup {"Unset"}, NEW source \in 0..(MaxNodes + 1),
         Allocate(k, out, list, for, source)
  PROVE  /\ Grown({New(k)}) /\ New(k) \in Handles \ Nodes /\ Sized'
         /\ slots' = (slots \ out) \cup {New(k)} /\ kind'[New(k)] = k /\ items'[New(k)] = list
         /\ kind' \in [Handles -> AstKinds \cup BatchKinds \cup {""}]
         /\ items' \in [Handles -> Seq(BatchNodes')]
         /\ holds' \in [Handles -> Pushable \cup {"Unset"}] /\ holds'[New(k)] = for
         /\ body' \in [Handles -> 0..(MaxNodes + 1)] /\ Kinds'
<1>1. /\ New(k) \in Handles \ Nodes /\ Nodes' = Nodes \cup {New(k)} /\ Sized'
      /\ AstNodes \subseteq AstNodes' /\ BatchNodes \subseteq BatchNodes'
      /\ k \in AstKinds => AstNodes' = AstNodes \cup {New(k)} /\ BatchNodes' = BatchNodes
      /\ k \notin AstKinds => BatchNodes' = BatchNodes \cup {New(k)} /\ AstNodes' = AstNodes
  BY Growth DEF Allocate, IInv, Sized
<1>2. /\ kind' = [kind EXCEPT ![New(k)] = k] /\ items' = [items EXCEPT ![New(k)] = list]
      /\ holds' = [holds EXCEPT ![New(k)] = for] /\ body' = [body EXCEPT ![New(k)] = source]
      /\ slots' = (slots \ out) \cup {New(k)}
  BY DEF Allocate
<1>3. /\ kind \in [Handles -> AstKinds \cup BatchKinds \cup {""}]
      /\ items \in [Handles -> Seq(BatchNodes)]
      /\ holds \in [Handles -> Pushable \cup {"Unset"}] /\ body \in [Handles -> 0..(MaxNodes + 1)]
  BY DEF IInv, Typed
<1>4. Nodes \subseteq Handles
  BY Tables DEF IInv
<1>5. Grown({New(k)})
  BY <1>1, <1>2, <1>3, <1>4 DEF Grown
<1>6. kind' \in [Handles -> AstKinds \cup BatchKinds \cup {""}] /\ kind'[New(k)] = k
  BY <1>1, <1>2, <1>3
<1>7. items' \in [Handles -> Seq(BatchNodes')] /\ items'[New(k)] = list
  <2>1. Seq(BatchNodes) \subseteq Seq(BatchNodes')
    BY <1>1, SeqMonotone
  <2> QED
    BY <1>1, <1>2, <1>3, <2>1
<1>8. /\ holds' \in [Handles -> Pushable \cup {"Unset"}] /\ holds'[New(k)] = for
      /\ body' \in [Handles -> 0..(MaxNodes + 1)]
  BY <1>1, <1>2, <1>3
<1>9. Kinds'
  BY <1>1, <1>4, <1>5, <1>6 DEF Kinds, IInv, Grown, Nodes
<1> QED
  BY <1>1, <1>2, <1>5, <1>6, <1>7, <1>8, <1>9

LEMMA Placed ==
  ASSUME IInv, NEW out, NEW fresh, Grown(fresh), slots' = (slots \ out) \cup fresh,
         \A h \in Handles : held[h] = 1 => held'[h] = 1, sawError => sawError', emitted' = emitted,
         \A h \in out : kind[h] \notin {"BSpec", "BClass"} \/ sawError'
  PROVE  BodiesResolved' /\ Whole'
<1>1. Nodes \subseteq Handles /\ emitted \subseteq BatchNodes
  BY Tables DEF IInv, Typed
<1>2. BodiesResolved'
  <2>1. \A f \in emitted : body'[f] = body[f]
    BY <1>1 DEF Grown, Nodes
  <2>2. \A h \in AstNodes : /\ h \in AstNodes' /\ kind'[h] = kind[h]
                           /\ (held[h] = 1 => held'[h] = 1)
    BY <1>1 DEF Grown, Nodes
  <2> QED
    BY <2>1, <2>2 DEF IInv, BodiesResolved
<1>3. Whole'
  <2> SUFFICES ASSUME NEW h \in Nodes' \ slots', kind'[h] \in {"BSpec", "BClass"}, ~sawError'
               PROVE  ToSet(items'[h]) \subseteq emitted
    BY DEF Whole
  <2>1. h \in Nodes /\ kind'[h] = kind[h] /\ items'[h] = items[h]
    BY DEF Grown
  <2>2. h \notin slots
    BY <2>1
  <2> QED
    BY <2>1, <2>2 DEF IInv, Whole
<1> QED
  BY <1>2, <1>3

LEMMA Noted ==
  ASSUME IInv, NEW takes \in Seq(PlainWant), NEW args \in [1..Len(takes) -> Offers(takes)],
         Resolves(takes, args, Len(takes))
  PROVE  /\ Members(takes, args) \in Seq(BatchNodes)
         /\ takes = <<>> => Members(takes, args) = <<>>
         /\ SourceOf(takes, args) \in 0..(MaxNodes + 1)
<1>1. asts \in 0..MaxNodes /\ MaxNodes \in Nat
  BY TablesAssumption DEF IInv, Typed, Sized
<1>2. Members(takes, args) \in Seq(BatchNodes)
  <2> DEFINE lists == {n \in 1..Len(takes) :
                         takes[n].kind \in {"BFunction", "BMethod"} /\ args[n] \in BatchNodes}
             n == CHOOSE n \in lists : TRUE
  <2>1. CASE lists = {}
    BY <2>1 DEF Members
  <2>2. CASE lists # {}
    <3>1. n \in lists
      BY <2>2
    <3>2. Members(takes, args) = items[args[n]]
      BY <2>2 DEF Members
    <3>3. args[n] \in BatchNodes
      BY <3>1
    <3>4. args[n] \in Handles
      BY <3>3, Tables DEF IInv, Nodes
    <3>5. items \in [Handles -> Seq(BatchNodes)]
      BY DEF IInv, Typed
    <3> HIDE DEF n
    <3> QED
      BY <3>2, <3>4, <3>5
  <2> QED
    BY <2>1, <2>2
<1>3. takes = <<>> => Members(takes, args) = <<>>
  BY DEF Members
<1>4. SourceOf(takes, args) \in 0..(MaxNodes + 1)
  <2> DEFINE notes == {n \in 1..Len(takes) : takes[n].table = "source"}
             n == CHOOSE n \in notes : TRUE
  <2>1. CASE notes = {}
    BY <1>1, <2>1 DEF SourceOf
  <2>2. CASE notes # {}
    <3>1. n \in 1..Len(takes) /\ takes[n].table = "source"
      BY <2>2
    <3>2. SourceOf(takes, args) = args[n]
      BY <2>2 DEF SourceOf
    <3>3. args[n] \notin BatchNodes
      BY <3>1 DEF Resolves, Fault
    <3>4. args[n] \in {0} \cup Nodes \cup 1..(asts + 1)
      BY <3>1 DEF Offers
    <3>5. args[n] \in 0..(asts + 1)
      BY <1>1, <3>3, <3>4 DEF Nodes, AstNodes
    <3> QED
      BY <1>1, <3>2, <3>5
  <2> QED
    BY <2>1, <2>2
<1> QED
  BY <1>2, <1>3, <1>4

\* What Fill takes of the tables, whichever way it goes on.
Gone(takes, args) == UsedBefore(takes, args, Len(takes) + 1)
Out(takes, args) == Moved(takes, args, Len(takes)) \cup Gone(takes, args)

LEMMA Filling ==
  ASSUME IInv, NEW takes \in Seq(PlainWant), NEW args, Resolves(takes, args, Len(takes))
  PROVE  /\ Taken(Gone(takes, args), Out(takes, args))
         /\ Out(takes, args) \ Moved(takes, args, Len(takes)) \subseteq LiveArrays
         /\ Moved(takes, args, Len(takes)) \subseteq Out(takes, args)
         /\ \A a \in Gone(takes, args) \cap Arrays : ToSet(items[a]) \subseteq Out(takes, args)
         /\ \A h \in Out(takes, args) : kind[h] \notin {"BSpec", "BClass"}
         /\ {h \in Moved(takes, args, Len(takes)) : MovedTwice(takes, args, h)} = {}
         /\ Gone(takes, args) \subseteq Nodes /\ slots \subseteq Nodes /\ consumed \subseteq Nodes
<1>1. takes \in Seq(AnyWant) /\ Len(takes) \in 0..Len(takes)
  BY SeqMonotone, Wants
<1>2. {h \in Moved(takes, args, Len(takes)) : MovedTwice(takes, args, h)} = {}
  BY <1>1, MovedOnceOnly
<1>3. Sorted(takes, args, Len(takes))
  BY <1>1, OperandsTaken
<1>4. slots \subseteq Nodes /\ consumed \subseteq Nodes
  BY DEF IInv, Typed
<1> QED
  BY <1>2, <1>3, <1>4 DEF Taken, Sorted, Gone, Out

LEMMA HeldOnce ==
  ASSUME IInv, NEW moved, Hold(moved, {})
  PROVE  /\ held' \in [Handles -> Nat]
         /\ \A h \in Handles : held'[h] = held[h] + (IF h \in moved THEN 1 ELSE 0)
<1>1. held \in [Handles -> Nat]
  BY DEF IInv, Typed
<1> QED
  BY <1>1 DEF Hold

LEMMA FillNode ==
  ASSUME IInv, NEW takes \in Seq(PlainWant), NEW args \in [1..Len(takes) -> Offers(takes)],
         Resolves(takes, args, Len(takes)), Running,
         NEW k \in AstKinds \cup BatchKinds, k = "BArray" => takes = <<>>,
         consumed' = consumed \cup Gone(takes, args),
         Allocate(k, Out(takes, args), Members(takes, args), "Unset", SourceOf(takes, args)),
         Hold(Moved(takes, args, Len(takes)), {}), Quiet, UNCHANGED <<output, slot, result>>
  PROVE  IInv'
<1> DEFINE gone == Gone(takes, args)
           moved == Moved(takes, args, Len(takes))
           out == Out(takes, args)
           fresh == {New(k)}
<1>1. /\ Taken(gone, out) /\ out \ moved \subseteq LiveArrays
      /\ \A a \in gone \cap Arrays : ToSet(items[a]) \subseteq out
      /\ \A h \in out : kind[h] \notin {"BSpec", "BClass"}
      /\ moved \subseteq out /\ gone \subseteq Nodes /\ slots \subseteq Nodes /\ consumed \subseteq Nodes
  BY Filling
<1>2. /\ Grown(fresh) /\ New(k) \in Handles \ Nodes /\ Sized'
      /\ slots' = (slots \ out) \cup fresh /\ kind'[New(k)] = k
      /\ items'[New(k)] = Members(takes, args)
      /\ kind' \in [Handles -> AstKinds \cup BatchKinds \cup {""}]
      /\ items' \in [Handles -> Seq(BatchNodes')]
      /\ holds' \in [Handles -> Pushable \cup {"Unset"}]
      /\ body' \in [Handles -> 0..(MaxNodes + 1)] /\ Kinds'
  <2>1. /\ Members(takes, args) \in Seq(BatchNodes) /\ SourceOf(takes, args) \in 0..(MaxNodes + 1)
        /\ "Unset" \in Pushable \cup {"Unset"}
    BY Noted
  <2>2. Allocate(k, out, Members(takes, args), "Unset", SourceOf(takes, args))
    OBVIOUS
  <2> HIDE DEF out
  <2> QED
    BY <2>1, <2>2, Allocated
<1>3. \A x \in fresh : kind'[x] = "BArray" => items'[x] = <<>>
  BY <1>2, Noted
<1>4. /\ held' \in [Handles -> Nat]
      /\ \A h \in Handles : held'[h] = held[h] + (IF h \in moved THEN 1 ELSE 0)
  BY HeldOnce
<1>5. Flags' /\ (sawError => sawError') /\ (silently => silently') /\ emitted' = emitted
  BY Told DEF IInv, output
<1> HIDE DEF gone, moved, out, fresh
<1>6. /\ Unused' /\ OnePlace' /\ ArraysHold' /\ NothingLostUnseen'
      /\ \A h \in Handles : held[h] = 1 => held'[h] = 1
  <2>1. fresh \subseteq Handles /\ consumed' = consumed \cup gone
    BY <1>2 DEF gone, fresh
  <2> QED
    BY <1>1, <1>2, <1>3, <1>4, <1>5, <2>1, Settle
<1>7. BodiesResolved' /\ Whole'
  BY <1>1, <1>2, <1>5, <1>6, Placed
<1>8. Typed'
  <2>1. consumed' \subseteq Nodes' /\ slots' \subseteq Nodes' /\ BatchNodes \subseteq BatchNodes'
    BY <1>1, <1>2 DEF Grown, gone
  <2>2. emitted' \subseteq BatchNodes' /\ decls' \in Seq(Parts)
        /\ sources' \in [{"inject", "transform"} -> SUBSET Paths]
        /\ slot' \in {"expand", "assemble"} /\ result' \in {"running", "accepted", "refused"}
    BY <2>1 DEF IInv, Typed, output
  <2> QED
    BY <1>2, <1>4, <2>1, <2>2 DEF Typed
<1>9. Ended' /\ Assembled'
  BY DEF Running, Ended, Assembled, IInv, output
<1> QED
  BY <1>2, <1>5, <1>6, <1>7, <1>8, <1>9 DEF IInv

LEMMA FillDecls ==
  ASSUME IInv, NEW takes \in Seq(PlainWant), NEW args, Resolves(takes, args, Len(takes)), Running,
         NEW parts \in Seq(Parts), slot = "assemble" => parts = <<>>,
         consumed' = consumed \cup Gone(takes, args), Leave(Out(takes, args)),
         Hold(Moved(takes, args, Len(takes)), {}), Quiet, decls' = decls \o parts,
         UNCHANGED <<emitted, sources, slot, result>>
  PROVE  IInv'
<1> DEFINE gone == Gone(takes, args)
           moved == Moved(takes, args, Len(takes))
           out == Out(takes, args)
<1>1. /\ Taken(gone, out) /\ out \ moved \subseteq LiveArrays
      /\ \A a \in gone \cap Arrays : ToSet(items[a]) \subseteq out
      /\ \A h \in out : kind[h] \notin {"BSpec", "BClass"}
      /\ moved \subseteq out /\ gone \subseteq Nodes /\ slots \subseteq Nodes /\ consumed \subseteq Nodes
  BY Filling
<1>2. UNCHANGED <<asts, batches, kind, items, holds, body>> /\ slots' = (slots \ out) \cup {}
  BY DEF Leave
<1>3. UNCHANGED <<AstNodes, BatchNodes, Nodes>> /\ Grown({})
  BY <1>2 DEF Nodes, AstNodes, BatchNodes, Grown
<1>4. /\ held' \in [Handles -> Nat]
      /\ \A h \in Handles : held'[h] = held[h] + (IF h \in moved THEN 1 ELSE 0)
  BY HeldOnce
<1>5. Flags' /\ (sawError => sawError') /\ (silently => silently')
  BY Told DEF IInv
<1> HIDE DEF gone, moved, out
<1>6. /\ Unused' /\ OnePlace' /\ ArraysHold' /\ NothingLostUnseen'
      /\ \A h \in Handles : held[h] = 1 => held'[h] = 1
  BY <1>1, <1>2, <1>3, <1>4, <1>5, Settle DEF gone
<1>7. BodiesResolved' /\ Whole'
  BY <1>1, <1>2, <1>3, <1>5, <1>6, Placed
<1>8. Typed' /\ Kinds'
  <2>1. consumed' \subseteq Nodes' /\ slots' \subseteq Nodes'
    BY <1>1, <1>2, <1>3 DEF gone
  <2>2. decls' \in Seq(Parts)
    BY ConcatProperties DEF IInv, Typed
  <2>3. Sized' /\ Kinds'
    BY <1>2, <1>3 DEF IInv, Typed, Sized, Kinds
  <2> QED
    BY <1>2, <1>3, <1>4, <2>1, <2>2, <2>3 DEF IInv, Typed
<1>9. Ended' /\ Assembled'
  <2>1. parts = <<>> /\ decls = <<>> => decls' = <<>>
    OBVIOUS
  <2> QED
    BY <2>1 DEF Running, Ended, Assembled, IInv
<1> QED
  BY <1>5, <1>6, <1>7, <1>8, <1>9 DEF IInv

LEMMA SucceedKeeps ==
  ASSUME IInv, NEW row, RowOK(row), Succeed(row)
  PROVE  IInv'
<1> PICK takes \in row.takes :
      \E args \in [1..Len(takes) -> Offers(takes)] : Fill(row, takes, args)
  BY DEF Succeed
<1> PICK args \in [1..Len(takes) -> Offers(takes)] : Fill(row, takes, args)
  OBVIOUS
<1> DEFINE gone == Gone(takes, args)
           moved == Moved(takes, args, Len(takes))
           out == Out(takes, args)
           again == {h \in moved : MovedTwice(takes, args, h)}
<1>1. /\ takes \in Seq(PlainWant) /\ Running /\ row.decls \in Seq(Parts)
      /\ row.node \in AstKinds \cup BatchKinds \cup {""} /\ row.late \in {"none", "report", "trip"}
      /\ row.node = "BArray" => takes = <<>>
      /\ slot = "assemble" => row.decls = <<>>
  <2>1. takes \in Seq(PlainWant) /\ (row.node = "BArray" => takes = <<>>)
    BY DEF RowOK, RowTakes, Succeed
  <2>2. /\ row.decls \in Seq(Parts) /\ row.late \in {"none", "report", "trip"}
        /\ row.node \in AstKinds \cup BatchKinds \cup {""}
    BY DEF RowOK, RowShape, AstKind, BatchKind, ItemKind, AstKinds, BatchKinds, Pushable
  <2>3. slot = "assemble" => row.decls = <<>>
    BY DEF RowOK, RowShape, Succeed, Callable
  <2> QED
    BY <2>1, <2>2, <2>3 DEF Succeed, Callable
<1>2. /\ Resolves(takes, args, Len(takes)) /\ consumed' = consumed \cup gone
      /\ UNCHANGED <<slot, result>>
      /\ \/ /\ row.node # ""
            /\ Allocate(row.node, out, Members(takes, args), "Unset", SourceOf(takes, args))
            /\ Hold(moved, again) /\ Quiet /\ UNCHANGED output
         \/ /\ row.node = "" /\ Leave(out) /\ Hold(moved, again) /\ Quiet
            /\ decls' = decls \o row.decls /\ UNCHANGED <<emitted, sources>>
         \/ /\ row.late # "none" /\ Leave(out) /\ UNCHANGED held
            /\ Says(row.late) /\ UNCHANGED output
  BY DEF Fill, Gone, Out
<1>3. again = {} /\ Taken(gone, out)
  BY <1>1, <1>2, Filling
<1>4. CASE /\ row.node # ""
           /\ Allocate(row.node, out, Members(takes, args), "Unset", SourceOf(takes, args))
           /\ Hold(moved, again) /\ Quiet /\ UNCHANGED output
  <2>1. Hold(moved, {}) /\ row.node \in AstKinds \cup BatchKinds
    BY <1>1, <1>3, <1>4
  <2> QED
    BY <1>1, <1>2, <1>4, <2>1, FillNode
<1>5. CASE /\ row.node = "" /\ Leave(out) /\ Hold(moved, again) /\ Quiet
           /\ decls' = decls \o row.decls /\ UNCHANGED <<emitted, sources>>
  <2>1. Hold(moved, {})
    BY <1>3, <1>5
  <2> QED
    BY <1>1, <1>2, <1>5, <2>1, FillDecls
<1>6. CASE /\ row.late # "none" /\ Leave(out) /\ UNCHANGED held
           /\ Says(row.late) /\ UNCHANGED output
  <2>1. Reported \/ Tripped
    BY <1>1, <1>6, SaysOne
  <2> HIDE DEF gone, moved, out, again
  <2> QED
    BY <1>1, <1>2, <1>3, <1>6, <2>1, Told, Lose DEF IInv
<1> QED
  BY <1>2, <1>4, <1>5, <1>6

\* The ways a bridge fails before it takes an operand.
LEMMA FailsKeep ==
  ASSUME IInv, NEW row, RowOK(row),
         \/ RefusedSlot(row) \/ Unreadable(row) \/ WrongContext(row) \/ Declined(row)
         \/ DuplicateState(row)
  PROVE  IInv'
<1>1. UNCHANGED <<tables, consumed, output, slot, result>> /\ Running
  BY DEF RefusedSlot, Unreadable, WrongContext, Declined, DuplicateState, Callable
<1>2. CASE RefusedSlot(row) \/ Declined(row) \/ DuplicateState(row)
  BY <1>1, <1>2, Saying DEF RefusedSlot, Declined, DuplicateState
<1>3. CASE Unreadable(row)
  <2>1. Says(row.text) /\ row.text \in {"silent", "report", "trip"}
    BY <1>3 DEF Unreadable, RowOK, RowShape
  <2> QED
    BY <1>1, <2>1, SaysOne, Saying
<1>4. CASE WrongContext(row)
  <2>1. CASE row.ctx = "operand"
    BY <1>1, <1>4, <2>1, Saying DEF WrongContext
  <2>2. CASE row.ctx # "operand"
    <3>1. Says(row.ctx) /\ row.ctx \in {"silent", "report"}
      BY <1>4, <2>2 DEF WrongContext, RowOK, RowShape
    <3> QED
      BY <1>1, <3>1, SaysOne, Saying
  <2> QED
    BY <2>1, <2>2
<1> QED
  BY <1>2, <1>3, <1>4

-----------------------------------------------------------------------------
\* Lists of the batch.

LEMMA Appended ==
  ASSUME NEW S, NEW s \in Seq(S), NEW e
  PROVE  ToSet(Append(s, e)) = ToSet(s) \cup {e}
<1>1. /\ Len(Append(s, e)) = Len(s) + 1 /\ Append(s, e)[Len(s) + 1] = e
      /\ \A n \in 1..Len(s) : Append(s, e)[n] = s[n]
      /\ DOMAIN Append(s, e) = 1..(Len(s) + 1) /\ DOMAIN s = 1..Len(s) /\ Len(s) \in Nat
  OBVIOUS
<1> QED
  BY <1>1 DEF ToSet

LEMMA PushItemKeeps ==
  ASSUME IInv, NEW array, NEW item, PushItem(array, item)
  PROVE  IInv'
<1>1. /\ array \in LiveArrays /\ item \in BatchNodes \ consumed /\ kind[item] \in Pushable
      /\ holds[array] \in {"Unset", kind[item]} /\ Running
      /\ items' = [items EXCEPT ![array] = Append(items[array], item)]
      /\ holds' = [holds EXCEPT ![array] = kind[item]] /\ consumed' = consumed \cup {item} /\ Quiet
      /\ UNCHANGED <<asts, batches, kind, slots, held, body, output, slot, result>>
  BY DEF PushItem, Ready
<1>2. UNCHANGED <<AstNodes, BatchNodes, Nodes, Arrays, emitted, decls, sources>>
  BY <1>1 DEF AstNodes, BatchNodes, Nodes, Arrays, output
<1>3. /\ array \in BatchNodes /\ array \in Nodes /\ array \in Handles /\ kind[array] = "BArray"
      /\ array \notin consumed /\ item \in Nodes /\ item \notin Arrays /\ item # array
  BY <1>1, Tables DEF LiveArrays, Arrays, Nodes, Pushable, IInv
<1>4. /\ items \in [Handles -> Seq(BatchNodes)] /\ holds \in [Handles -> Pushable \cup {"Unset"}]
      /\ \A h \in Nodes : h \in Handles
  BY Tables DEF IInv, Typed
<1>5. /\ items'[array] = Append(items[array], item) /\ holds'[array] = kind[item]
      /\ \A h \in Nodes \ {array} : items'[h] = items[h] /\ holds'[h] = holds[h]
  BY <1>1, <1>3, <1>4
<1>6. ToSet(items'[array]) = ToSet(items[array]) \cup {item}
  BY <1>3, <1>4, <1>5, Appended
<1>7. LiveArrays' = LiveArrays
  BY <1>1, <1>2, <1>3 DEF LiveArrays
<1>8. ArraysHold'
  <2> SUFFICES ASSUME NEW a \in LiveArrays, NEW h \in ToSet(items'[a])
               PROVE  /\ h \in consumed' \cap slots /\ kind[h] = holds'[a]
                      /\ \A b \in LiveArrays \ {a} : h \notin ToSet(items'[b])
    BY <1>1, <1>7 DEF ArraysHold
  <2>1. \A b \in LiveArrays : /\ b \in Nodes
                             /\ b # array => items'[b] = items[b] /\ holds'[b] = holds[b]
    BY <1>5 DEF LiveArrays, Arrays, Nodes
  <2>2. \A b \in LiveArrays : \A i \in ToSet(items[b]) :
          /\ i \in consumed \cap slots /\ kind[i] = holds[b]
          /\ \A c \in LiveArrays \ {b} : i \notin ToSet(items[c])
    BY DEF IInv, ArraysHold
  <2>5. a # array => items'[a] = items[a] /\ holds'[a] = holds[a]
    BY <1>5 DEF LiveArrays, Arrays, Nodes
  <2>3. CASE h = item
    <3>1. item \in slots /\ \A b \in LiveArrays : item \notin ToSet(items[b])
      BY <1>1, <1>3, <2>2 DEF IInv, Unused
    <3>2. a = array
      BY <2>3, <2>5, <3>1
    <3> QED
      BY <1>1, <1>5, <2>1, <2>3, <3>1, <3>2
  <2>4. CASE h # item
    <3>1. h \in ToSet(items[a])
      BY <1>6, <2>4, <2>5
    <3>2. kind[h] = holds'[a]
      <4>1. CASE a = array
        <5>1. h \in BatchNodes
          BY <1>3, <3>1, <4>1, Listings DEF IInv
        <5>2. holds[array] # "Unset"
          BY <2>2, <3>1, <4>1, <5>1 DEF IInv, Kinds, BatchKinds, Pushable
        <5> QED
          BY <1>1, <1>5, <2>2, <3>1, <4>1, <5>2
      <4>2. CASE a # array
        BY <2>2, <2>5, <3>1, <4>2
      <4> QED
        BY <4>1, <4>2
    <3> QED
      BY <1>1, <1>6, <2>1, <2>2, <2>4, <3>1, <3>2
  <2> QED
    BY <2>3, <2>4
<1>9. NothingLostUnseen'
  <2>1. sawError' = sawError /\ silently' = silently
    BY <1>1 DEF Quiet
  <2> SUFFICES ASSUME NEW h \in Nodes, (Lost(h) \/ Stranded(h))'
               PROVE  Lost(h) \/ Stranded(h)
    BY <1>2, <2>1 DEF IInv, NothingLostUnseen
  <2>2. CASE Lost(h)'
    BY <1>1, <1>2, <2>2 DEF Lost
  <2>3. CASE Stranded(h)'
    <3>1. h \in consumed' \cap slots /\ \A a \in LiveArrays : h \notin ToSet(items'[a])
      BY <1>1, <1>7, <2>3 DEF Stranded
    <3>2. h # item /\ h \in consumed
      BY <1>1, <1>6, <3>1
    <3>3. \A a \in LiveArrays : h \notin ToSet(items[a])
      BY <1>5, <1>6, <3>1 DEF LiveArrays, Arrays, Nodes
    <3> QED
      BY <3>1, <3>2, <3>3 DEF Stranded
  <2> QED
    BY <2>2, <2>3
<1>10. Typed'
  <2>1. Append(items[array], item) \in Seq(BatchNodes)
    BY <1>1, <1>3, <1>4
  <2>2. items' \in [Handles -> Seq(BatchNodes')] /\ holds' \in [Handles -> Pushable \cup {"Unset"}]
    BY <1>1, <1>2, <1>4, <2>1
  <2>3. consumed' \subseteq Nodes'
    BY <1>1, <1>2, <1>3 DEF IInv, Typed
  <2> QED
    BY <1>1, <1>2, <2>2, <2>3 DEF IInv, Typed, Sized
<1>11. Kinds' /\ Unused' /\ OnePlace' /\ BodiesResolved'
  BY <1>1, <1>2 DEF IInv, Kinds, Unused, OnePlace, BodiesResolved
<1>12. Whole'
  <2>1. \A h \in Nodes : kind[h] \in {"BSpec", "BClass"} => items'[h] = items[h]
    BY <1>3, <1>5
  <2> QED
    BY <1>1, <1>2, <2>1 DEF IInv, Whole, Quiet
<1>13. Flags' /\ Ended' /\ Assembled'
  BY <1>1, <1>2, Told DEF IInv, Running, Ended, Assembled
<1> QED
  BY <1>8, <1>9, <1>10, <1>11, <1>12, <1>13 DEF IInv

LEMMA PushNowhereKeeps ==
  ASSUME IInv, NEW array, NEW item, PushNowhere(array, item)
  PROVE  IInv'
<1> DEFINE k == Wrapped(item)
           fresh == {New(k)}
           gone == {item}
<1>1. /\ item \in AstNodes \ consumed /\ kind[item] \in {"Stmt", "Expr"} /\ Running
      /\ Allocate(k, gone, <<>>, "Unset", 0) /\ Hold(gone, {})
      /\ consumed' = consumed \cup gone /\ Reported /\ UNCHANGED <<output, slot, result>>
  BY DEF PushNowhere, Ready, Wrappable
<1>2. k \in AstKinds \cup BatchKinds /\ k # "BArray" /\ <<>> \in Seq(BatchNodes)
      /\ "Unset" \in Pushable \cup {"Unset"} /\ 0 \in 0..(MaxNodes + 1)
  BY TablesAssumption DEF Wrapped, BatchKinds, Pushable
<1> HIDE DEF k
<1>3. /\ Grown(fresh) /\ New(k) \in Handles \ Nodes /\ Sized'
      /\ slots' = (slots \ gone) \cup fresh /\ kind'[New(k)] = k
      /\ kind' \in [Handles -> AstKinds \cup BatchKinds \cup {""}]
      /\ items' \in [Handles -> Seq(BatchNodes')]
      /\ holds' \in [Handles -> Pushable \cup {"Unset"}]
      /\ body' \in [Handles -> 0..(MaxNodes + 1)] /\ Kinds'
  BY <1>1, <1>2, Allocated
<1>4. Taken(gone, gone) /\ gone \subseteq Nodes
  BY <1>1 DEF Taken, Nodes, IInv, Unused
<1>5. /\ held' \in [Handles -> Nat]
      /\ \A h \in Handles : held'[h] = held[h] + (IF h \in gone THEN 1 ELSE 0)
  BY <1>1, HeldOnce
<1>6. Flags' /\ sawError' /\ (silently => silently') /\ emitted' = emitted
  BY <1>1, Told DEF IInv, output
<1>7. /\ \A x \in fresh : kind'[x] = "BArray" => items'[x] = <<>>
      /\ fresh \subseteq Handles
  BY <1>2, <1>3
<1> HIDE DEF fresh, gone
<1>8. /\ Unused' /\ OnePlace' /\ ArraysHold' /\ NothingLostUnseen'
      /\ \A h \in Handles : held[h] = 1 => held'[h] = 1
  BY <1>1, <1>3, <1>4, <1>5, <1>6, <1>7, Settle
<1>9. BodiesResolved' /\ Whole'
  BY <1>3, <1>6, <1>8, Placed
<1>10. Typed'
  <2>1. consumed' \subseteq Nodes' /\ slots' \subseteq Nodes' /\ BatchNodes \subseteq BatchNodes'
    BY <1>1, <1>3, <1>4 DEF Grown, IInv, Typed
  <2>2. emitted' \subseteq BatchNodes' /\ decls' \in Seq(Parts)
        /\ sources' \in [{"inject", "transform"} -> SUBSET Paths]
        /\ slot' \in {"expand", "assemble"} /\ result' \in {"running", "accepted", "refused"}
    BY <1>1, <2>1 DEF IInv, Typed, output
  <2> QED
    BY <1>3, <1>5, <2>1, <2>2 DEF Typed
<1>11. Ended' /\ Assembled'
  BY <1>1 DEF Running, Ended, Assembled, IInv, output
<1> QED
  BY <1>3, <1>6, <1>8, <1>9, <1>10, <1>11 DEF IInv

LEMMA PushWrappedKeeps ==
  ASSUME IInv, NEW array, NEW item, PushWrapped(array, item)
  PROVE  IInv'
<1> DEFINE k == Wrapped(item)
           new == New(k)
<1>1. /\ array \in LiveArrays /\ item \in AstNodes \ consumed /\ kind[item] \in {"Stmt", "Expr"}
      /\ Running /\ Room(k) /\ holds[array] \in {"Unset", k} /\ Count(k)
      /\ kind' = [kind EXCEPT ![new] = k] /\ slots' = (slots \ {item}) \cup {new}
      /\ Hold({item}, {}) /\ items' = [items EXCEPT ![array] = Append(items[array], new)]
      /\ holds' = [holds EXCEPT ![array] = k] /\ consumed' = consumed \cup {item, new} /\ Quiet
      /\ UNCHANGED <<body, output, slot, result>>
  BY DEF PushWrapped, Ready, Wrappable
<1>2. k \in Pushable /\ k \in AstKinds \cup BatchKinds /\ k \notin AstKinds /\ k # "BArray"
      /\ k \notin {"BSpec", "BClass"}
  BY DEF Wrapped, BatchKinds, Pushable, AstKinds
<1> HIDE DEF k
<1>3. /\ new \in Handles \ Nodes /\ Nodes' = Nodes \cup {new} /\ Sized' /\ AstNodes' = AstNodes
      /\ BatchNodes' = BatchNodes \cup {new}
  BY <1>1, <1>2, Growth DEF IInv, Sized
<1> HIDE DEF new
<1>4. /\ kind \in [Handles -> AstKinds \cup BatchKinds \cup {""}]
      /\ items \in [Handles -> Seq(BatchNodes)] /\ holds \in [Handles -> Pushable \cup {"Unset"}]
      /\ consumed \subseteq Nodes /\ slots \subseteq Nodes /\ Nodes \subseteq Handles
      /\ AstNodes \cap BatchNodes = {}
  BY Tables DEF IInv, Typed
<1>5. /\ array \in BatchNodes /\ array \in Nodes /\ array \in Handles /\ kind[array] = "BArray"
      /\ array \notin consumed /\ item \in Nodes /\ item \in slots /\ item \notin BatchNodes
  BY <1>1, <1>4 DEF LiveArrays, Arrays, Nodes, IInv, Unused
<1>6. /\ kind' \in [Handles -> AstKinds \cup BatchKinds \cup {""}] /\ kind'[new] = k
      /\ \A h \in Nodes : kind'[h] = kind[h]
  BY <1>1, <1>2, <1>3, <1>4
<1>7. /\ items'[array] = Append(items[array], new) /\ holds'[array] = k
      /\ \A h \in Handles \ {array} : items'[h] = items[h] /\ holds'[h] = holds[h]
  BY <1>1, <1>4, <1>5
<1>8. ToSet(items'[array]) = ToSet(items[array]) \cup {new}
  <2>1. items[array] \in Seq(BatchNodes)
    BY <1>4, <1>5
  <2> QED
    BY <1>7, <2>1, Appended
<1>9. Arrays' = Arrays /\ LiveArrays' = LiveArrays
  <2>1. new \notin BatchNodes /\ kind'[new] # "BArray" /\ \A h \in BatchNodes : kind'[h] = kind[h]
    BY <1>2, <1>3, <1>6 DEF Nodes
  <2>2. Arrays' = Arrays /\ Arrays \subseteq BatchNodes
    BY <1>3, <2>1 DEF Arrays
  <2>3. item \notin Arrays /\ new \notin Arrays
    BY <1>5, <2>1, <2>2
  <2> QED
    BY <1>1, <2>2, <2>3 DEF LiveArrays
<1>10. /\ held' \in [Handles -> Nat]
       /\ \A h \in Handles : held'[h] = held[h] + (IF h \in {item} THEN 1 ELSE 0)
  BY <1>1, HeldOnce
<1>11. /\ \A h \in Handles : held[h] \in {0, 1} /\ (h \in slots \/ h \notin Nodes => held[h] = 0)
       /\ \A h \in Handles : held[h] = 1 => held'[h] = 1
  BY <1>5, <1>10 DEF IInv, OnePlace
<1>12. ArraysHold'
  <2> SUFFICES ASSUME NEW a \in LiveArrays, NEW h \in ToSet(items'[a])
               PROVE  /\ h \in consumed' \cap slots' /\ kind'[h] = holds'[a]
                      /\ \A b \in LiveArrays \ {a} : h \notin ToSet(items'[b])
    BY <1>9 DEF ArraysHold
  <2>1. \A b \in LiveArrays : b \in Handles /\ ToSet(items[b]) \subseteq BatchNodes
    BY <1>4, Listings DEF LiveArrays, Arrays, Nodes, IInv
  <2>2. \A b \in LiveArrays : \A i \in ToSet(items[b]) :
          /\ i \in consumed \cap slots /\ kind[i] = holds[b]
          /\ \A c \in LiveArrays \ {b} : i \notin ToSet(items[c])
    BY DEF IInv, ArraysHold
  <2>3. \A b \in LiveArrays : new \notin ToSet(items[b])
    BY <1>3, <2>1 DEF Nodes
  <2>4. \A b \in LiveArrays \ {array} : items'[b] = items[b] /\ holds'[b] = holds[b]
    BY <1>7, <2>1
  <2>5. CASE h = new
    <3>1. a = array
      BY <2>3, <2>4, <2>5
    <3> QED
      BY <1>1, <1>6, <1>7, <2>3, <2>4, <2>5, <3>1
  <2>6. CASE h # new
    <3>1. h \in ToSet(items[a])
      BY <1>8, <2>4, <2>6
    <3>2. h \in BatchNodes /\ h \in Nodes /\ h # item /\ kind'[h] = kind[h]
      BY <1>5, <1>6, <2>1, <3>1 DEF Nodes
    <3>3. holds'[a] = holds[a]
      <4>1. holds[a] # "Unset"
        BY <2>2, <3>1, <3>2 DEF IInv, Kinds, BatchKinds, Pushable
      <4> QED
        BY <1>1, <1>7, <2>4, <4>1
    <3> QED
      BY <1>1, <1>8, <2>2, <2>4, <2>6, <3>1, <3>2, <3>3
  <2> QED
    BY <2>5, <2>6
<1>13. NothingLostUnseen'
  <2>1. sawError' = sawError /\ silently' = silently
    BY <1>1 DEF Quiet
  <2> SUFFICES ASSUME NEW h \in Nodes', (Lost(h) \/ Stranded(h))'
               PROVE  h \in Nodes /\ (Lost(h) \/ Stranded(h))
    BY <1>3, <2>1 DEF IInv, NothingLostUnseen
  <2>2. CASE Lost(h)'
    <3>1. h \notin Arrays /\ h \notin slots' /\ held'[h] = 0
      BY <1>9, <2>2 DEF Lost
    <3>2. h # new /\ h \in Nodes /\ h \in Handles
      BY <1>1, <1>3, <1>4, <3>1
    <3>3. h # item /\ held[h] = 0
      BY <1>10, <1>11, <3>1, <3>2
    <3> QED
      BY <1>1, <3>1, <3>2, <3>3 DEF Lost
  <2>3. CASE Stranded(h)'
    <3>1. h \in consumed' \cap slots' /\ \A a \in LiveArrays : h \notin ToSet(items'[a])
      BY <1>9, <2>3 DEF Stranded
    <3>2. h # new /\ h # item /\ h \in consumed \cap slots /\ h \in Nodes
      BY <1>1, <1>3, <1>4, <1>5, <1>8, <3>1
    <3>3. \A a \in LiveArrays : h \notin ToSet(items[a])
      BY <1>4, <1>7, <1>8, <3>1 DEF LiveArrays, Arrays, Nodes
    <3> QED
      BY <3>2, <3>3 DEF Stranded
  <2> QED
    BY <2>2, <2>3
<1>14. Typed'
  <2>1. Seq(BatchNodes) \subseteq Seq(BatchNodes') /\ BatchNodes \subseteq BatchNodes'
    BY <1>3, SeqMonotone
  <2>2. items[array] \in Seq(BatchNodes') /\ new \in BatchNodes'
    BY <1>3, <1>4, <1>5, <2>1
  <2>3. Append(items[array], new) \in Seq(BatchNodes')
    BY <2>2
  <2>4. items' \in [Handles -> Seq(BatchNodes')] /\ holds' \in [Handles -> Pushable \cup {"Unset"}]
    BY <1>1, <1>2, <1>4, <2>1, <2>3
  <2>5. consumed' \subseteq Nodes' /\ slots' \subseteq Nodes'
    BY <1>1, <1>3, <1>4, <1>5
  <2>6. /\ emitted' \subseteq BatchNodes' /\ decls' \in Seq(Parts)
        /\ sources' \in [{"inject", "transform"} -> SUBSET Paths]
        /\ slot' \in {"expand", "assemble"} /\ result' \in {"running", "accepted", "refused"}
        /\ body' \in [Handles -> 0..(MaxNodes + 1)]
    BY <1>1, <2>1 DEF IInv, Typed, output
  <2> QED
    BY <1>3, <1>6, <1>10, <2>4, <2>5, <2>6 DEF Typed
<1>15. Kinds' /\ Unused' /\ OnePlace'
  <2>1. Kinds'
    BY <1>2, <1>3, <1>6 DEF IInv, Kinds, Nodes
  <2>2. Unused'
    BY <1>1, <1>3 DEF IInv, Unused
  <2>3. OnePlace'
    <3>4. held \in [Handles -> Nat]
      BY DEF IInv, Typed
    <3>1. \A h \in Handles : h # item => held'[h] = held[h]
      BY <1>10, <3>4
    <3>5. item \in Handles /\ item # new /\ held[item] = 0
      BY <1>3, <1>4, <1>5, <1>11
    <3>6. held'[item] = 1
      BY <1>10, <3>5
    <3>2. held'[item] = 1 /\ item \notin slots' /\ item \in Nodes'
      BY <1>1, <1>3, <1>5, <3>5, <3>6
    <3>3. held[new] = 0
      BY <1>3, <1>11
    <3> QED
      BY <1>1, <1>3, <1>11, <3>1, <3>2, <3>3 DEF OnePlace
  <2> QED
    BY <2>1, <2>2, <2>3
<1>16. BodiesResolved'
  <2>1. emitted' = emitted /\ body' = body
    BY <1>1 DEF output
  <2>2. \A h \in AstNodes : kind'[h] = kind[h] /\ (held[h] = 1 => held'[h] = 1)
    BY <1>4, <1>6, <1>11 DEF Nodes
  <2> QED
    BY <1>3, <2>1, <2>2 DEF IInv, BodiesResolved
<1>17. Whole'
  <2> SUFFICES ASSUME NEW h \in Nodes' \ slots', kind'[h] \in {"BSpec", "BClass"}
               PROVE  sawError' \/ ToSet(items'[h]) \subseteq emitted'
    BY DEF Whole
  <2>1. h \in Nodes /\ kind[h] \in {"BSpec", "BClass"}
    BY <1>1, <1>3, <1>6
  <2>2. h \notin slots /\ h # array /\ h \in Handles
    BY <1>1, <1>4, <1>5, <2>1
  <2>3. items'[h] = items[h]
    BY <1>7, <2>2
  <2> QED
    BY <1>1, <2>1, <2>2, <2>3 DEF IInv, Whole, Quiet, output
<1>18. Flags' /\ Ended' /\ Assembled'
  BY <1>1, Told DEF IInv, Running, Ended, Assembled, output
<1> QED
  BY <1>12, <1>13, <1>14, <1>15, <1>16, <1>17, <1>18 DEF IInv

LEMMA PushRejectedKeeps ==
  ASSUME IInv, NEW array, NEW item, PushRejected(array, item)
  PROVE  IInv'
<1>1. UNCHANGED <<tables, consumed, output, slot, result>> /\ Running /\ Reported
  BY DEF PushRejected, Ready
<1> QED
  BY <1>1, Saying

LEMMA ListItemsKeeps ==
  ASSUME IInv, NEW k \in {"BStmt", "BExpr"}, NEW handles \in Seq(BatchNodes), ListItems(k, handles)
  PROVE  IInv'
<1> DEFINE new == New("BArray")
           listed == ToSet(handles)
<1>1. /\ Running /\ Allocate("BArray", {}, handles, k, 0) /\ UNCHANGED held
      /\ consumed' = consumed \cup listed /\ Quiet /\ UNCHANGED <<output, slot, result>>
  BY DEF ListItems, Ready
<1>2. \A h \in listed : h \in BatchNodes \ consumed /\ kind[h] = k
  BY DEF ListItems, Listable, ToSet
<1>3. /\ k \in Pushable \cup {"Unset"} /\ k # "BArray" /\ "BArray" \in AstKinds \cup BatchKinds
      /\ "BArray" \notin AstKinds
      /\ 0 \in 0..(MaxNodes + 1)
  BY TablesAssumption DEF Pushable, BatchKinds, AstKinds
<1> HIDE DEF listed
<1>4. /\ Grown({new}) /\ new \in Handles \ Nodes /\ Sized'
      /\ slots' = (slots \ {}) \cup {new} /\ kind'[new] = "BArray" /\ items'[new] = handles
      /\ kind' \in [Handles -> AstKinds \cup BatchKinds \cup {""}]
      /\ items' \in [Handles -> Seq(BatchNodes')]
      /\ holds' \in [Handles -> Pushable \cup {"Unset"}] /\ holds'[new] = k
      /\ body' \in [Handles -> 0..(MaxNodes + 1)] /\ Kinds'
  BY <1>1, <1>3, Allocated
<1> HIDE DEF new
<1>5. /\ consumed \subseteq Nodes /\ slots \subseteq Nodes /\ Nodes \subseteq Handles
      /\ listed \subseteq Nodes /\ listed \subseteq slots /\ BatchNodes \subseteq Nodes
  BY <1>2, Tables DEF IInv, Typed, Unused, Nodes
<1>6. /\ BatchNodes' \subseteq Nodes \cup {new} /\ new \in Nodes' /\ new \notin Nodes
      /\ BatchNodes \subseteq BatchNodes' /\ Nodes' = Nodes \cup {new}
  BY <1>4 DEF Grown, Nodes
<1>7. new \in BatchNodes'
  <2>1. new \in AstNodes' \/ new \in BatchNodes'
    BY <1>6 DEF Nodes
  <2>2. new \in AstNodes' => kind'[new] \in AstKinds
    BY <1>4 DEF Kinds
  <2> QED
    BY <1>3, <1>4, <2>1, <2>2
<1>8. /\ \A a \in LiveArrays : a \in LiveArrays' /\ a \in Nodes /\ a # new
      /\ \A a \in LiveArrays' : a = new \/ a \in LiveArrays
      /\ new \in LiveArrays'
  <2>1. \A h \in listed : h \notin Arrays
    BY <1>2, <1>3 DEF Arrays
  <2>2. \A h \in Nodes : h \in Arrays' <=> h \in Arrays
    BY <1>4 DEF Arrays, Grown, IInv, Kinds, AstKinds, Nodes
  <2>3. new \in Arrays' /\ new \notin consumed' /\ Arrays' \subseteq Nodes'
    BY <1>1, <1>4, <1>5, <1>6, <1>7 DEF Arrays, Nodes
  <2>4. Arrays \subseteq Nodes
    BY DEF Arrays, Nodes
  <2> QED
    BY <1>1, <1>6, <2>1, <2>2, <2>3, <2>4 DEF LiveArrays
<1>9. \A a \in LiveArrays : \A h \in ToSet(items[a]) :
        /\ h \in consumed \cap slots /\ kind[h] = holds[a]
        /\ \A b \in LiveArrays \ {a} : h \notin ToSet(items[b])
  BY DEF IInv, ArraysHold
<1>10. ArraysHold'
  <2> SUFFICES ASSUME NEW a \in LiveArrays', NEW h \in ToSet(items'[a])
               PROVE  /\ h \in consumed' \cap slots' /\ kind'[h] = holds'[a]
                      /\ \A b \in LiveArrays' \ {a} : h \notin ToSet(items'[b])
    BY DEF ArraysHold
  <2>1. \A b \in LiveArrays : items'[b] = items[b] /\ holds'[b] = holds[b]
    BY <1>4, <1>8 DEF Grown
  <2>2. \A h1 \in Nodes : kind'[h1] = kind[h1]
    BY <1>4 DEF Grown
  <2>3. ToSet(items'[new]) = listed
    BY <1>4 DEF listed
  <2>4. CASE a = new
    BY <1>1, <1>2, <1>4, <1>5, <1>8, <1>9, <2>1, <2>2, <2>3, <2>4
  <2>5. CASE a \in LiveArrays
    <3>1. /\ h \in ToSet(items[a]) /\ h \in consumed \cap slots /\ kind[h] = holds[a]
          /\ \A b \in LiveArrays \ {a} : h \notin ToSet(items[b])
      BY <1>9, <2>1, <2>5
    <3>2. h \notin listed
      BY <1>2, <3>1
    <3> QED
      BY <1>1, <1>4, <1>5, <1>8, <2>1, <2>2, <2>3, <2>5, <3>1, <3>2
  <2> QED
    BY <1>8, <2>4, <2>5
<1>11. NothingLostUnseen'
  <2>1. sawError' = sawError /\ silently' = silently
    BY <1>1 DEF Quiet
  <2> SUFFICES ASSUME NEW h \in Nodes', (Lost(h) \/ Stranded(h))'
               PROVE  h \in Nodes /\ (Lost(h) \/ Stranded(h))
    BY <1>4, <2>1 DEF IInv, NothingLostUnseen, Grown
  <2>2. CASE Lost(h)'
    <3>1. h \notin Arrays' /\ h \notin slots' /\ held[h] = 0
      BY <1>1, <2>2 DEF Lost
    <3>2. h \in Nodes /\ h \notin slots
      BY <1>4, <1>6, <3>1
    <3>3. h \notin Arrays
      BY <1>4, <3>1, <3>2 DEF Arrays, Grown
    <3> QED
      BY <3>1, <3>2, <3>3 DEF Lost
  <2>3. CASE Stranded(h)'
    <3>1. h \in consumed' \cap slots' /\ \A a \in LiveArrays' : h \notin ToSet(items'[a])
      BY <2>3 DEF Stranded
    <3>2. h \notin listed
      BY <1>4, <1>8, <3>1 DEF listed
    <3>3. h \in consumed \cap slots /\ h \in Nodes
      BY <1>1, <1>4, <1>5, <1>6, <3>1, <3>2
    <3>4. \A a \in LiveArrays : h \notin ToSet(items[a])
      BY <1>4, <1>8, <3>1 DEF Grown
    <3> QED
      BY <3>3, <3>4 DEF Stranded
  <2> QED
    BY <2>2, <2>3
<1>12. Unused' /\ OnePlace'
  <2>1. held[new] = 0
    BY <1>4 DEF IInv, OnePlace
  <2> QED
    BY <1>1, <1>4, <1>6, <2>1 DEF IInv, Unused, OnePlace
<1>13. BodiesResolved' /\ Whole'
  <2>1. emitted' = emitted /\ (sawError => sawError') /\ \A h \in Handles : held[h] = 1 => held'[h] = 1
    BY <1>1 DEF output, Quiet
  <2> QED
    BY <1>4, <2>1, Placed
<1>14. Typed'
  <2>1. consumed' \subseteq Nodes' /\ slots' \subseteq Nodes' /\ held' \in [Handles -> Nat]
    BY <1>1, <1>4, <1>5, <1>6 DEF IInv, Typed
  <2>2. /\ emitted' \subseteq BatchNodes' /\ decls' \in Seq(Parts)
        /\ sources' \in [{"inject", "transform"} -> SUBSET Paths]
        /\ slot' \in {"expand", "assemble"} /\ result' \in {"running", "accepted", "refused"}
    BY <1>1, <1>6 DEF IInv, Typed, output
  <2> QED
    BY <1>4, <2>1, <2>2 DEF Typed
<1>15. Flags' /\ Ended' /\ Assembled'
  BY <1>1, Told DEF IInv, Running, Ended, Assembled, output
<1> QED
  BY <1>4, <1>10, <1>11, <1>12, <1>13, <1>14, <1>15 DEF IInv

-----------------------------------------------------------------------------
\* What is handed over to the expansion.

\* The functions handed over with a batch or class.
Handed(h, n) == {items[h][m] : m \in 1..n}

\* They come with bodies of their own; a batch or class without all of them is an error.
HandedOver(moved, dropped, functions) ==
  /\ moved \cup dropped \subseteq Nodes \ (consumed \cup Arrays)
  /\ functions \subseteq BatchNodes /\ emitted' = emitted \cup functions
  /\ (Quiet /\ dropped = {}) \/ Reported
  /\ \A f \in functions : body[f] # 0 =>
       /\ body[f] \in moved \cap AstNodes /\ kind[body[f]] = "Stmt"
       /\ \A g \in functions \ {f} : body[g] # body[f]
  /\ \A h \in moved \cup dropped :
       kind[h] \in {"BSpec", "BClass"} => sawError' \/ ToSet(items[h]) \subseteq emitted'

LEMMA Emitting ==
  ASSUME IInv, NEW moved, NEW dropped, NEW functions, HandedOver(moved, dropped, functions),
         TakeBodies(moved, dropped), Running, slot = "expand",
         decls' \in Seq(Parts), UNCHANGED <<sources, slot, result>>
  PROVE  IInv'
<1>0. /\ moved \cup dropped \subseteq Nodes \ (consumed \cup Arrays)
      /\ functions \subseteq BatchNodes /\ emitted' = emitted \cup functions
      /\ (Quiet /\ dropped = {}) \/ Reported
      /\ \A f \in functions : body[f] # 0 =>
           /\ body[f] \in moved \cap AstNodes /\ kind[body[f]] = "Stmt"
           /\ \A g \in functions \ {f} : body[g] # body[f]
      /\ \A h \in moved \cup dropped :
           kind[h] \in {"BSpec", "BClass"} => sawError' \/ ToSet(items[h]) \subseteq emitted'
  BY DEF HandedOver
<1> DEFINE gone == moved \cup dropped
<1>1. /\ consumed' = consumed \cup gone /\ Leave(gone) /\ Hold(moved, {})
  BY DEF TakeBodies
<1>2. UNCHANGED <<asts, batches, kind, items, holds, body>> /\ slots' = (slots \ gone) \cup {}
  BY <1>1 DEF Leave
<1>3. UNCHANGED <<AstNodes, BatchNodes, Nodes>> /\ Grown({})
  BY <1>2 DEF Nodes, AstNodes, BatchNodes, Grown
<1>4. /\ held' \in [Handles -> Nat]
      /\ \A h \in Handles : held'[h] = held[h] + (IF h \in moved THEN 1 ELSE 0)
  BY <1>1, HeldOnce
<1>5. Flags' /\ (sawError => sawError') /\ (silently => silently' \/ sawError')
  BY <1>0, Told DEF IInv
<1>6. Taken(gone, gone) /\ gone \cap Arrays = {}
  BY <1>0 DEF Taken, IInv, Unused
<1>7. sawError' \/ gone \ moved \subseteq LiveArrays
  BY <1>0, Told DEF IInv
<1> HIDE DEF gone
<1>8. /\ Unused' /\ OnePlace' /\ ArraysHold' /\ NothingLostUnseen'
      /\ \A h \in Handles : held[h] = 1 => held'[h] = 1
  <2>1. {} \subseteq Handles /\ moved \subseteq gone
    BY DEF gone
  <2> QED
    BY <1>1, <1>2, <1>3, <1>4, <1>5, <1>6, <1>7, <2>1, Settle
<1>9. BodiesResolved'
  <2> SUFFICES ASSUME NEW f \in emitted \cup functions, body[f] # 0
               PROVE  /\ body[f] \in AstNodes /\ kind[body[f]] = "Stmt" /\ held'[body[f]] = 1
                      /\ \A g \in (emitted \cup functions) \ {f} : body[g] # body[f]
    BY <1>0, <1>2, <1>3 DEF BodiesResolved
  <2>1. \A g \in emitted : body[g] # 0 =>
          /\ body[g] \in AstNodes /\ kind[body[g]] = "Stmt" /\ held[body[g]] = 1
          /\ \A e \in emitted \ {g} : body[e] # body[g]
    BY DEF IInv, BodiesResolved
  <2>2. \A b \in moved : b \in Handles /\ held[b] = 0 /\ held'[b] = 1
    <3> SUFFICES ASSUME NEW b \in moved
                 PROVE  b \in Handles /\ held[b] = 0 /\ held'[b] = 1
      OBVIOUS
    <3>1. b \in Handles /\ b \in slots
      BY <1>0, Tables DEF IInv, Unused
    <3>2. held[b] = 0
      BY <3>1 DEF IInv, OnePlace
    <3> QED
      BY <1>4, <3>1, <3>2
  <2>3. \A h \in AstNodes : h \in Handles
    BY Tables DEF IInv, Nodes
  <2>4. CASE f \in functions \ emitted
    <3>1. /\ body[f] \in moved /\ body[f] \in AstNodes /\ kind[body[f]] = "Stmt"
          /\ \A g \in functions \ {f} : body[g] # body[f]
      BY <1>0, <2>4
    <3>2. \A g \in emitted : body[g] # body[f]
      BY <2>1, <2>2, <3>1
    <3> QED
      BY <2>2, <3>1, <3>2
  <2>5. CASE f \in emitted
    <3>1. held'[body[f]] = 1
      BY <1>8, <2>1, <2>3, <2>5
    <3>2. \A g \in functions : body[g] # body[f]  \/ g = f
      <4> SUFFICES ASSUME NEW g \in functions, body[g] = body[f], g # f
                   PROVE  FALSE
        OBVIOUS
      <4>1. body[g] \in moved
        BY <1>0, <2>1, <2>5
      <4> QED
        BY <2>1, <2>2, <2>5, <4>1
    <3> QED
      BY <2>1, <2>5, <3>1, <3>2
  <2> QED
    BY <2>4, <2>5
<1>10. Whole'
  <2> SUFFICES ASSUME NEW h \in Nodes \ slots', kind[h] \in {"BSpec", "BClass"}
               PROVE  sawError' \/ ToSet(items[h]) \subseteq emitted'
    BY <1>2, <1>3 DEF Whole
  <2>1. CASE h \in gone
    BY <1>0, <2>1 DEF gone
  <2>2. CASE h \notin slots
    BY <1>0, <1>5, <2>2 DEF IInv, Whole
  <2> QED
    BY <1>2, <2>1, <2>2
<1>11. Typed' /\ Kinds'
  <2>1. consumed' \subseteq Nodes /\ slots' \subseteq Nodes
    BY <1>0, <1>1, <1>2 DEF gone, IInv, Typed
  <2>2. Sized' /\ Kinds' /\ emitted' \subseteq BatchNodes
    BY <1>0, <1>2, <1>3 DEF IInv, Typed, Sized, Kinds
  <2> QED
    BY <1>2, <1>3, <1>4, <2>1, <2>2 DEF IInv, Typed
<1>12. Ended' /\ Assembled'
  BY DEF Running, Ended, Assembled
<1> QED
  BY <1>5, <1>8, <1>9, <1>10, <1>11, <1>12 DEF IInv

LEMMA Found ==
  ASSUME IInv, NEW h \in BatchNodes \ consumed, kind[h] \in {"BSpec", "BClass"},
         NEW n \in 0..Len(items[h]), BodiesFound(h, n)
  PROVE  /\ Handed(h, n) \subseteq BatchNodes /\ {h} \cup Bodies(h, n) \subseteq Nodes \ (consumed \cup Arrays)
         /\ \A b \in Bodies(h, n) : b \in AstNodes /\ kind[b] = "Stmt"
         /\ \A f \in Handed(h, n) : body[f] # 0 =>
              /\ body[f] \in Bodies(h, n) /\ \A g \in Handed(h, n) \ {f} : body[g] # body[f]
         /\ n = Len(items[h]) => Handed(h, n) = ToSet(items[h])
<1>1. /\ h \in Handles /\ h \in Nodes /\ AstNodes \cap Arrays = {} /\ h \notin Arrays
  BY Tables DEF IInv, Nodes, Arrays
<1>2. /\ Len(items[h]) \in Nat /\ DOMAIN items[h] = 1..Len(items[h])
      /\ \A m \in 1..Len(items[h]) : items[h][m] \in ToSet(items[h])
      /\ \A i \in ToSet(items[h]) : \E m \in 1..Len(items[h]) : i = items[h][m]
      /\ ToSet(items[h]) \subseteq BatchNodes
  BY <1>1, Listings DEF IInv
<1>3. \A m \in 1..n : BodyFound(h, m)
  BY DEF BodiesFound
<1>4. \A m \in 1..n : body[items[h][m]] # 0 =>
        /\ body[items[h][m]] \in AstNodes \ consumed /\ kind[body[items[h][m]]] = "Stmt"
        /\ \A l \in 1..(m - 1) : body[items[h][l]] # body[items[h][m]]
  BY <1>3 DEF BodyFound
<1>5. \A b \in Bodies(h, n) : b \in AstNodes \ consumed /\ kind[b] = "Stmt"
  BY <1>4 DEF Bodies
<1>6. ASSUME NEW f \in Handed(h, n), body[f] # 0
      PROVE  body[f] \in Bodies(h, n) /\ \A g \in Handed(h, n) \ {f} : body[g] # body[f]
  <2>1. PICK m \in 1..n : f = items[h][m]
    BY DEF Handed
  <2>2. body[f] \in Bodies(h, n)
    BY <1>6, <2>1 DEF Bodies
  <2> SUFFICES ASSUME NEW g \in Handed(h, n) \ {f}, body[g] = body[f]
               PROVE  FALSE
    BY <2>2
  <2>3. PICK l \in 1..n : g = items[h][l]
    BY DEF Handed
  <2>4. l # m
    BY <2>1, <2>3
  <2>5. l \in 1..(m - 1) \/ m \in 1..(l - 1)
    BY <2>4
  <2>6. CASE l \in 1..(m - 1)
    BY <1>4, <1>6, <2>1, <2>3, <2>6
  <2>7. CASE m \in 1..(l - 1)
    BY <1>4, <1>6, <2>1, <2>3, <2>7
  <2> QED
    BY <2>5, <2>6, <2>7
<1>7. Handed(h, n) \subseteq BatchNodes
  <2>1. \A m \in 1..n : items[h][m] \in BatchNodes
    <3> TAKE m \in 1..n
    <3>1. m \in 1..Len(items[h])
      BY <1>2
    <3>2. items[h][m] \in ToSet(items[h])
      BY <1>2, <3>1
    <3> QED
      BY <1>2, <3>2
  <2> QED
    BY <2>1 DEF Handed
<1>8. n = Len(items[h]) => Handed(h, n) = ToSet(items[h])
  BY <1>2 DEF Handed
<1> QED
  BY <1>1, <1>5, <1>6, <1>7, <1>8 DEF Nodes

LEMMA EmitHelpersKeeps ==
  ASSUME IInv, NEW h, EmitHelpers(h)
  PROVE  IInv'
<1>1. /\ Running /\ slot = "expand" /\ h \in BatchNodes \ consumed /\ kind[h] = "BSpec"
      /\ UNCHANGED <<sources, slot, result>>
  BY DEF EmitHelpers, Ready
<1>2. PICK n \in 0..Len(items[h]) :
        /\ BodiesFound(h, n) /\ emitted' = emitted \cup Handed(h, n)
        /\ decls' = decls \o [m \in 1..n |-> "functions"]
        /\ \/ /\ n = Len(items[h])
              /\ TakeBodies({h} \cup Bodies(h, n), {}) /\ Quiet
           \/ /\ n < Len(items[h]) /\ BodyFound(h, n + 1)
              /\ TakeBodies(Bodies(h, n), {h} \cup Bodies(h, n + 1)) /\ Reported
           \/ TakeBodies(Bodies(h, n), {h}) /\ Reported
  BY DEF EmitHelpers, Handed
<1>3. /\ Handed(h, n) \subseteq BatchNodes
      /\ {h} \cup Bodies(h, n) \subseteq Nodes \ (consumed \cup Arrays)
      /\ \A b \in Bodies(h, n) : b \in AstNodes /\ kind[b] = "Stmt"
      /\ \A f \in Handed(h, n) : body[f] # 0 =>
           /\ body[f] \in Bodies(h, n) /\ \A g \in Handed(h, n) \ {f} : body[g] # body[f]
      /\ n = Len(items[h]) => Handed(h, n) = ToSet(items[h])
  BY <1>1, <1>2, Found
<1>4. decls' \in Seq(Parts)
  <2>1. [m \in 1..n |-> "functions"] \in Seq(Parts)
    <3>1. n \in Nat /\ "functions" \in Parts
      BY <1>1, Listings, Tables DEF IInv, Nodes, Parts
    <3> QED
      BY <3>1
  <2> QED
    BY <1>2, <2>1, ConcatProperties DEF IInv, Typed
<1>5. \A b \in Bodies(h, n) : kind[b] \notin {"BSpec", "BClass"}
  BY <1>3
<1>6. CASE n = Len(items[h]) /\ TakeBodies({h} \cup Bodies(h, n), {}) /\ Quiet
  <2>1. HandedOver({h} \cup Bodies(h, n), {}, Handed(h, n))
    BY <1>2, <1>3, <1>5, <1>6 DEF HandedOver
  <2> QED
    BY <1>1, <1>4, <1>6, <2>1, Emitting
<1>7. CASE /\ n < Len(items[h]) /\ BodyFound(h, n + 1)
           /\ TakeBodies(Bodies(h, n), {h} \cup Bodies(h, n + 1)) /\ Reported
  <2>1. n + 1 \in 0..Len(items[h]) /\ BodiesFound(h, n + 1)
    <3>1. Len(items[h]) \in Nat
      BY <1>1, Listings, Tables DEF IInv, Nodes
    <3>2. \A m \in 1..(n + 1) : m \in 1..n \/ m = n + 1
      BY <3>1
    <3> QED
      BY <1>2, <1>7, <3>1, <3>2 DEF BodiesFound
  <2>2. {h} \cup Bodies(h, n + 1) \subseteq Nodes \ (consumed \cup Arrays)
    BY <1>1, <2>1, Found
  <2>3. sawError' = TRUE
    BY <1>7 DEF Reported
  <2>4. HandedOver(Bodies(h, n), {h} \cup Bodies(h, n + 1), Handed(h, n))
    BY <1>2, <1>3, <1>7, <2>2, <2>3 DEF HandedOver
  <2> QED
    BY <1>1, <1>4, <1>7, <2>4, Emitting
<1>8. CASE TakeBodies(Bodies(h, n), {h}) /\ Reported
  <2>1. sawError' = TRUE
    BY <1>8 DEF Reported
  <2>2. HandedOver(Bodies(h, n), {h}, Handed(h, n))
    BY <1>2, <1>3, <1>8, <2>1 DEF HandedOver
  <2> QED
    BY <1>1, <1>4, <1>8, <2>2, Emitting
<1> QED
  BY <1>2, <1>6, <1>7, <1>8

LEMMA EmitClassKeeps ==
  ASSUME IInv, NEW h, EmitClass(h)
  PROVE  IInv'
<1>1. /\ Running /\ slot = "expand" /\ h \in BatchNodes \ consumed /\ kind[h] = "BClass"
      /\ UNCHANGED <<sources, slot, result>>
  BY DEF EmitClass, Ready
<1>2. PICK n \in 0..Len(items[h]) :
        /\ BodiesFound(h, n)
        /\ \/ /\ n = Len(items[h])
              /\ TakeBodies({h} \cup Bodies(h, n), {})
              /\ emitted' = emitted \cup ToSet(items[h])
              /\ decls' = Append(decls, "classes") /\ Quiet
           \/ /\ TakeBodies({}, {h} \cup Bodies(h, n))
              /\ UNCHANGED <<emitted, decls>> /\ Reported
  BY DEF EmitClass
<1>3. /\ Handed(h, n) \subseteq BatchNodes
      /\ {h} \cup Bodies(h, n) \subseteq Nodes \ (consumed \cup Arrays)
      /\ \A b \in Bodies(h, n) : b \in AstNodes /\ kind[b] = "Stmt"
      /\ \A f \in Handed(h, n) : body[f] # 0 =>
           /\ body[f] \in Bodies(h, n) /\ \A g \in Handed(h, n) \ {f} : body[g] # body[f]
      /\ n = Len(items[h]) => Handed(h, n) = ToSet(items[h])
  BY <1>1, <1>2, Found
<1>4. CASE /\ n = Len(items[h])
           /\ TakeBodies({h} \cup Bodies(h, n), {})
           /\ emitted' = emitted \cup ToSet(items[h])
           /\ decls' = Append(decls, "classes") /\ Quiet
  <2>1. decls' \in Seq(Parts)
    <3>1. decls \in Seq(Parts) /\ "classes" \in Parts
      BY DEF IInv, Typed, Parts
    <3> QED
      BY <1>4, <3>1
  <2>2. \A b \in Bodies(h, n) : kind[b] \notin {"BSpec", "BClass"}
    BY <1>3
  <2>3. HandedOver({h} \cup Bodies(h, n), {}, Handed(h, n))
    BY <1>3, <1>4, <2>2 DEF HandedOver
  <2> QED
    BY <1>1, <1>4, <2>1, <2>3, Emitting
<1>5. CASE /\ TakeBodies({}, {h} \cup Bodies(h, n))
           /\ UNCHANGED <<emitted, decls>> /\ Reported
  <2>1. sawError' = TRUE /\ emitted' = emitted \cup {} /\ decls' \in Seq(Parts)
    BY <1>5 DEF Reported, IInv, Typed
  <2>2. HandedOver({}, {h} \cup Bodies(h, n), {})
    BY <1>3, <1>5, <2>1 DEF HandedOver
  <2> QED
    BY <1>1, <1>5, <2>1, <2>2, Emitting
<1> QED
  BY <1>2, <1>4, <1>5

-----------------------------------------------------------------------------
\* The rest of what the plugin may call, and its return.

LEMMA AddSourceKeeps ==
  ASSUME IInv, NEW how \in {"inject", "transform"}, NEW path \in Paths, AddSource(how, path)
  PROVE  IInv'
<1>1. /\ Running /\ UNCHANGED <<tables, consumed, emitted, decls, slot, result>>
      /\ sources' \in [{"inject", "transform"} -> SUBSET Paths]
      /\ Quiet \/ Tripped
  <2>1. sources \in [{"inject", "transform"} -> SUBSET Paths]
    BY DEF IInv, Typed
  <2>2. sources[how] \cup {path} \in SUBSET Paths
    BY <2>1
  <2>3. sources' \in [{"inject", "transform"} -> SUBSET Paths]
    BY <2>1, <2>2 DEF AddSource
  <2> QED
    BY <2>3 DEF AddSource
<1>2. UNCHANGED <<asts, batches, kind, slots, held, items, holds, body, emitted, decls>>
  BY <1>1 DEF tables
<1>3. Flags' /\ (sawError => sawError') /\ (silently => silently')
  BY <1>1, Told DEF IInv
<1> USE DEF Nodes, AstNodes, BatchNodes, Arrays, LiveArrays
<1>4. Typed'
  BY <1>1, <1>2 DEF IInv, Typed, Sized
<1>5. Kinds' /\ Unused' /\ OnePlace'
  BY <1>1, <1>2 DEF IInv, Kinds, Unused, OnePlace
<1>6. ArraysHold' /\ BodiesResolved'
  BY <1>1, <1>2 DEF IInv, ArraysHold, BodiesResolved
<1>7. NothingLostUnseen' /\ Whole'
  BY <1>1, <1>2, <1>3 DEF IInv, NothingLostUnseen, Lost, Stranded, Whole
<1>8. Ended' /\ Assembled'
  BY <1>1 DEF IInv, Running, Ended, Assembled
<1> QED
  BY <1>3, <1>4, <1>5, <1>6, <1>7, <1>8 DEF IInv

LEMMA ReturnKeeps ==
  ASSUME IInv, Return
  PROVE  IInv'
<1>1. /\ UNCHANGED <<tables, consumed, output, slot, sawError, sticky, silently>>
      /\ result' \in {"accepted", "refused"} /\ (result' = "accepted" => ~sawError)
  BY DEF Return
<1>2. Flags' /\ Ended'
  BY <1>1 DEF IInv, Flags, Ended
<1> QED
  BY <1>1, <1>2, Idle

LEMMA RestKeeps ==
  ASSUME IInv, SourceRefused \/ EmitError \/ ClearError
  PROVE  IInv'
<1>1. CASE SourceRefused \/ EmitError
  BY <1>1, Saying DEF SourceRefused, EmitError
<1>2. CASE ClearError
  <2>1. /\ UNCHANGED <<tables, consumed, output, sawError, silently, slot, result>>
        /\ sticky' = FALSE /\ Running
    BY <1>2 DEF ClearError
  <2>2. Flags' /\ Ended' /\ result' \in {"running", "accepted", "refused"}
    BY <2>1 DEF IInv, Flags, Ended, Typed
  <2> QED
    BY <2>1, <2>2, Idle
<1> QED
  BY <1>1, <1>2

LEMMA InitIInv ==
  ASSUME Init
  PROVE  IInv
<1>1. /\ asts = 0 /\ batches = 0 /\ consumed = {} /\ slots = {} /\ emitted = {} /\ decls = <<>>
      /\ kind = [h \in Handles |-> ""] /\ held = [h \in Handles |-> 0]
      /\ items = [h \in Handles |-> <<>>] /\ holds = [h \in Handles |-> "Unset"]
      /\ body = [h \in Handles |-> 0] /\ sources = [how \in {"inject", "transform"} |-> {}]
      /\ sawError = FALSE /\ sticky = FALSE /\ silently = FALSE
      /\ slot \in {"expand", "assemble"} /\ result = "running"
  BY DEF Init
<1>2. AstNodes = {} /\ BatchNodes = {} /\ Nodes = {} /\ Arrays = {} /\ LiveArrays = {}
  <2>3. asts = 0 /\ batches = 0
    BY <1>1, Zenon
  <2>1. AstNodes = {}
    BY <2>3 DEF AstNodes
  <2>2. BatchNodes = {}
    BY <2>3, TablesAssumption DEF BatchNodes
  <2> QED
    BY <2>1, <2>2 DEF Nodes, Arrays, LiveArrays
<1>3. Typed
  <2>4. asts = 0 /\ batches = 0 /\ items = [h \in Handles |-> <<>>] /\ decls = <<>>
    BY <1>1, Zenon
  <2>1. Sized /\ 0 \in 0..(MaxNodes + 1)
    BY <2>4, TablesAssumption DEF Sized
  <2>2. items \in [Handles -> Seq(BatchNodes)] /\ decls \in Seq(Parts)
    BY <2>4
  <2>3. sources \in [{"inject", "transform"} -> SUBSET Paths]
    BY <1>1
  <2> QED
    BY <1>1, <1>2, <2>1, <2>2, <2>3 DEF Typed
<1>4. Flags
  BY <1>1 DEF Flags
<1>5. Kinds /\ Unused /\ OnePlace
  BY <1>1, <1>2 DEF Kinds, Unused, OnePlace
<1>6. ArraysHold /\ NothingLostUnseen /\ BodiesResolved /\ Whole /\ Ended /\ Assembled
  BY <1>1, <1>2 DEF ArraysHold, NothingLostUnseen, BodiesResolved, Whole, Ended, Assembled
<1> QED
  BY <1>3, <1>4, <1>5, <1>6 DEF IInv

LEMMA NextKeeps ==
  ASSUME IInv, [Next]_vars
  PROVE  IInv'
<1>1. CASE UNCHANGED vars
  <2>1. UNCHANGED <<tables, consumed, output, slot, sawError, sticky, silently, result>>
    BY <1>1 DEF vars
  <2>2. Flags' /\ Ended' /\ result' \in {"running", "accepted", "refused"}
    BY <2>1 DEF IInv, Flags, Ended, Typed
  <2> QED
    BY <2>1, <2>2, Idle
<1>2. ASSUME NEW row \in Rows, Bridge(row)
      PROVE  IInv'
  <2>1. RowOK(row)
    BY <1>2, RowsTyped DEF Rows
  <2> QED
    BY <1>2, <2>1, FailsKeep, BadOperandKeeps DEF Bridge
<1>3. ASSUME NEW row \in Rows, Succeed(row)
      PROVE  IInv'
  BY <1>3, RowsTyped, SucceedKeeps DEF Rows
<1>4. CASE Push
  BY <1>4, PushItemKeeps, PushWrappedKeeps, PushNowhereKeeps, PushRejectedKeeps DEF Push
<1>5. CASE List
  <2>1. PICK k \in {"BStmt", "BExpr"} :
          ListRefused(k) \/ \E handles \in SeqOf(BatchNodes, MaxItems) : ListItems(k, handles)
    BY <1>5 DEF List
  <2>2. CASE ListRefused(k)
    BY <2>2, Saying DEF ListRefused, Ready
  <2>3. ASSUME NEW handles \in SeqOf(BatchNodes, MaxItems), ListItems(k, handles)
        PROVE  IInv'
    <3>1. handles \in Seq(BatchNodes)
      BY BoundsAssumption DEF SeqOf
    <3> QED
      BY <2>3, <3>1, ListItemsKeeps
  <2> QED
    BY <2>1, <2>2, <2>3
<1>6. CASE EmitMembers
  BY <1>6, EmitHelpersKeeps, EmitClassKeeps DEF EmitMembers
<1>7. ASSUME NEW how \in {"inject", "transform"}, NEW path \in Paths, AddSource(how, path)
      PROVE  IInv'
  BY <1>7, AddSourceKeeps
<1>8. CASE SourceRefused \/ EmitError \/ ClearError \/ Return
  BY <1>8, RestKeeps, ReturnKeeps
<1> QED
  BY <1>1, <1>2, <1>3, <1>4, <1>5, <1>6, <1>7, <1>8 DEF Next

LEMMA Inductive == Spec => []IInv
<1>1. Init => IInv
  BY InitIInv
<1>2. IInv /\ [Next]_vars => IInv'
  BY NextKeeps
<1> QED
  BY <1>1, <1>2, PTL DEF Spec

-----------------------------------------------------------------------------
\* Every variable keeps to its set.
THEOREM Types == Spec => []TypeOK
<1>1. ASSUME IInv
      PROVE  TypeOK
  <2>1. BatchNodes \subseteq BatchHandles /\ Seq(BatchNodes) \subseteq Seq(BatchHandles)
    BY <1>1, Tables, SeqMonotone DEF IInv
  <2>2. items \in [Handles -> Seq(BatchHandles)]
    BY <1>1, <2>1 DEF IInv, Typed
  <2>3. {sawError, sticky, silently} \subseteq BOOLEAN
    BY <1>1 DEF IInv, Flags
  <2> QED
    BY <1>1, <2>2, <2>3 DEF IInv, Typed, Sized, TypeOK
<1> QED
  BY <1>1, Inductive, PTL

\* Whatever a plugin calls, with whatever handles, the value of a node is in one place: its
\* slot of the table, or the one node or declaration it was folded into.
THEOREM MovedOnceHolds == Spec => []MovedOnce
<1>1. ASSUME IInv
      PROVE  MovedOnce
  BY <1>1 DEF IInv, OnePlace, MovedOnce
<1> QED
  BY <1>1, Inductive, PTL

\* An array of the batch that can be used holds items nobody else can use, all of its kind.
THEOREM ArraysHoldAlways == Spec => []ArraysHold
<1>1. IInv => ArraysHold
  BY DEF IInv
<1> QED
  BY <1>1, Inductive, PTL

\* Code that a plugin built gets lost only with an error on record, or by a failure of a
\* bridge that says nothing, which can only cost nodes of the first table.
THEOREM NothingLost == Spec => []NothingLostUnseen
<1>1. IInv => NothingLostUnseen
  BY DEF IInv
<1> QED
  BY <1>1, Inductive, PTL

\* A function in the expansion has the body it wrote down, and has it alone.
THEOREM BodiesAlwaysResolved == Spec => []BodiesResolved
<1>1. IInv => BodiesResolved
  BY DEF IInv
<1> QED
  BY <1>1, Inductive, PTL

\* An accepted expansion has every function of a batch that was handed over, and a call of
\* the assemble slot declares nothing.
THEOREM Accepted == Spec => []AcceptedWhole
<1>1. ASSUME IInv
      PROVE  AcceptedWhole
  BY <1>1 DEF IInv, Whole, Ended, Assembled, AcceptedWhole
<1> QED
  BY <1>1, Inductive, PTL

\* While the sticky error is set, no bridge builds, uses up or declares anything.
THEOREM StickyAlwaysStops == Spec => StickyStops
<1>1. ASSUME IInv, [Next]_vars, sticky, sticky'
      PROVE  UNCHANGED <<tables, consumed, output>>
  <2>1. CASE UNCHANGED vars
    BY <2>1 DEF vars
  <2>2. ASSUME NEW row \in Rows, Bridge(row)
        PROVE  UNCHANGED <<tables, consumed, output>>
    BY <1>1, <2>2 DEF Bridge, RefusedSlot, Unreadable, WrongContext, Declined, DuplicateState,
                      BadOperand, Callable
  <2>3. ASSUME NEW row \in Rows, Succeed(row)
        PROVE  FALSE
    BY <1>1, <2>3 DEF Succeed, Callable
  <2>4. CASE Push
    BY <1>1, <2>4 DEF Push, PushItem, PushWrapped, PushNowhere, PushRejected, Ready
  <2>5. CASE List
    BY <1>1, <2>5 DEF List, ListItems, ListRefused, Ready
  <2>6. CASE EmitMembers
    BY <1>1, <2>6 DEF EmitMembers, EmitHelpers, EmitClass, Ready
  <2>7. ASSUME NEW how \in {"inject", "transform"}, NEW path \in Paths, AddSource(how, path)
        PROVE  FALSE
    BY <1>1, <2>7 DEF AddSource
  <2>8. CASE SourceRefused \/ EmitError \/ ClearError \/ Return
    BY <1>1, <2>8 DEF SourceRefused, EmitError, ClearError, Return
  <2> QED
    BY <1>1, <2>1, <2>2, <2>3, <2>4, <2>5, <2>6, <2>7, <2>8 DEF Next
<1> QED
  BY <1>1, Inductive, PTL DEF Spec, StickyStops
=============================================================================
