---------------------------- MODULE HirFunction ----------------------------
(***************************************************************************)
(* Functions as the lowering to MIR gets them: typed statements and        *)
(* expressions.                                                            *)
(***************************************************************************)
EXTENDS MirFunction

CONSTANTS
  Programs,    \* functions: body, void, params, and the conditions around the body
  MaxDepth     \* bound: how deep statements of a program are nested

\* Programs.  An expression is a variable or literal, an operation on one or two of these, a
\* call, a condition on data the model leaves out, or the taking of a pending error.
Atom(name, const) == [name |-> name, const |-> const]
Named(atom) == atom.name # ""
Var(name) == Atom(name, Undefined)
Lit(n)    == Atom("", Integer(n))
Truth(b)  == Atom("", Boolean(b))
Expr(kind, sym, left, right) == [kind |-> kind, sym |-> sym, left |-> left, right |-> right]
Plain(atom)         == Expr("atom", "", atom, atom)
Unary(op, a)        == Expr("unary", op, a, a)
Binary(op, l, r)    == Expr("binary", op, l, r)
Calling(f)          == Expr("call", f, Lit(0), Lit(0))
Condition(c)        == Expr("opaque", c, Lit(0), Lit(0))
TakeError           == Expr("take", "__err_take", Lit(0), Lit(0))
NoExpr              == Expr("none", "", Lit(0), Lit(0))

Stmt(kind, name, expr, upto, body, other) ==
  [kind |-> kind, name |-> name, expr |-> expr, upto |-> upto, body |-> body, other |-> other]

Declare(x, e)       == Stmt("declare", x, e, NoExpr, <<>>, <<>>)
Assign(x, e)        == Stmt("assign", x, e, NoExpr, <<>>, <<>>)
Printing(e)         == Stmt("print", "", e, NoExpr, <<>>, <<>>)
Perform(e)          == Stmt("perform", "", e, NoExpr, <<>>, <<>>)
ReturnOf(e)         == Stmt("return", "", e, NoExpr, <<>>, <<>>)
Break               == Stmt("break", "", NoExpr, NoExpr, <<>>, <<>>)
Continue            == Stmt("continue", "", NoExpr, NoExpr, <<>>, <<>>)
Require(e)          == Stmt("require", "", e, NoExpr, <<>>, <<>>)
Ensure(e)           == Stmt("ensure", "", e, NoExpr, <<>>, <<>>)
If(e, body)         == Stmt("if", "", e, NoExpr, body, <<>>)
IfElse(e, body, other) == Stmt("if", "", e, NoExpr, body, other)
While(e, body)      == Stmt("while", "", e, NoExpr, body, <<>>)
For(x, list, body)  == Stmt("for", x, list, NoExpr, body, <<>>)
Counting(x, from, to, body) == Stmt("range", x, from, to, body, <<>>)
OnError(body, other) == Stmt("onError", "", NoExpr, NoExpr, body, other)

\* A function: its level of optimisation, what it returns, its parameters, the `always`
\* conditions of its class, and the state rules that are tested at its end.
Function(level, void, params, invariants, rules, body) ==
  [level |-> level, void |-> void, params |-> params, invariants |-> invariants,
   rules |-> rules, body |-> body]

-----------------------------------------------------------------------------
\* The statements of a body and of the bodies inside it.
Inside(body) ==
  LET down[n \in Nat] ==
        IF n = 0 THEN Range(body)
        ELSE down[n - 1] \cup UNION {Range(s.body) \cup Range(s.other) : s \in down[n - 1]}
  IN down[MaxDepth]

Statements == UNION {Inside(p.body) : p \in Programs}

\* What the type checker hands over: every statement and expression has its parts, and no
\* statement is nested deeper than MaxDepth.
Atoms       == [name : STRING, const : Constants]
Expressions == [kind : {"atom", "unary", "binary", "call", "opaque", "take", "none"},
                sym : STRING, left : Atoms, right : Atoms]
Kinds       == {"declare", "assign", "print", "perform", "return", "break", "continue", "require",
                "ensure", "if", "while", "for", "range", "onError"}

ASSUME StatementsAssumption ==
  Statements \subseteq [kind : Kinds, name : STRING, expr : Expressions, upto : Expressions,
                       body : Seq(Statements), other : Seq(Statements)]
ASSUME ProgramsAssumption ==
  Programs \subseteq [level : 0..3, void : BOOLEAN, params : Seq(STRING),
                     invariants : Seq(Expressions), rules : Seq(Expressions),
                     body : Seq(Statements)]
ASSUME NestingAssumption ==
  \A p \in Programs :
    /\ Range(p.body) \subseteq Inside(p.body)
    /\ \A s \in Inside(p.body) : Range(s.body) \cup Range(s.other) \subseteq Inside(p.body)

=============================================================================
