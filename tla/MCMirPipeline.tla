--------------------------- MODULE MCMirPipeline ---------------------------
(***************************************************************************)
(* Small functions for MirPipeline: statements nested up to three deep, on *)
(* an integer x, a list parameter, and conditions and calls of any         *)
(* outcome.  Left out are the shapes that the README lists as lowered into *)
(* something else: a statement behind a jump, a jump that ends the body of *)
(* a loop, an early return of a function with state rules, a contract of a *)
(* function that returns no value; and a division nothing reads.           *)
(***************************************************************************)
EXTENDS MirPipeline

X       == Plain(Var("x"))
Grow    == Assign("x", Binary("add", Var("x"), Lit(3)))
Leaves  == {Printing(X), Grow, Assign("x", Calling("f"))}
Jumps   == {Break, Continue, ReturnOf(X)}

Bodies(leaves, jumps) == {<<s>> : s \in leaves \cup jumps} \cup {<<Printing(X), j>> : j \in jumps}
Ifs(leaves, jumps) ==
  {If(Condition("c"), b) : b \in Bodies(leaves, jumps)}
  \cup {IfElse(Condition("c"), <<s>>, <<t>>) :
          s \in {Grow} \cup jumps, t \in {Assign("x", Calling("f"))} \cup jumps}

Over(v, body) ==
  {While(Condition("w"), body),
   For(v, Plain(Var("xs")), <<Printing(Plain(Var(v)))>> \o body),
   Counting(v, Plain(Lit(0)), Plain(Var("p")), body \o <<Printing(Plain(Var(v)))>>)}
Iterated(body) == Over("i", body)
Guarded(body) == {OnError(body, h) : h \in {<<Printing(Plain(Lit(2)))>>, <<ReturnOf(X)>>}}

Loops ==
  UNION {Iterated(<<s>>) : s \in Ifs(Leaves, Jumps)}
  \cup UNION {Iterated(<<If(Condition("d"), b), s>>) : b \in Bodies({}, Jumps), s \in Ifs(Leaves, Jumps)}
  \cup UNION {Iterated(b) : b \in {<<Perform(Calling("g"))>>,
                                   <<Declare("y", Calling("f")), Assign("s", Plain(Var("y")))>>}}
Nested ==
  UNION {Iterated(<<l, s>>) :
           l \in Over("j", <<If(Condition("d"), <<Break>>), Printing(X)>>)
                   \cup UNION {Guarded(<<If(Condition("d"), <<j>>), Perform(Calling("g"))>>) :
                                 j \in Jumps},
           s \in {Printing(X), If(Condition("c"), <<Continue>>)}}
Guards ==
  UNION {Guarded(<<l, Perform(Calling("g"))>>) : l \in Loops \cup Ifs(Leaves, {ReturnOf(X)})}
  \cup UNION {Guarded(<<o, Perform(Calling("h"))>>) : o \in Guarded(<<Perform(Calling("g"))>>)}
Around ==
  {IfElse(Condition("c"), <<l, Printing(X)>>, <<Grow>>) : l \in Iterated(<<Grow>>)}
  \cup {Require(Condition("c")), Require(Calling("f"))}

\* Ifs, tests and regions inside the arms of an if: their merges lie inside its own.
Inner(jumps) ==
  {Require(Condition("q")), IfElse(Condition("d"), <<Require(Condition("q"))>>, <<Grow>>)}
  \cup UNION {{If(Condition("d"), <<j>>), IfElse(Condition("d"), <<j>>, <<Grow>>),
              IfElse(Condition("d"), <<Grow>>, <<Require(Condition("q")), j>>)} : j \in jumps}
Enclosing(i) ==
  {If(Condition("c"), <<i>>), If(Condition("c"), <<i, Grow>>),
   IfElse(Condition("c"), <<i, Grow>>, <<Printing(X)>>),
   IfElse(Condition("c"), <<Grow>>, <<i>>), IfElse(Condition("c"), <<Grow>>, <<i, Printing(X)>>)}
Enclosed ==
  UNION {Enclosing(i) : i \in Inner({ReturnOf(X)}) \cup Iterated(<<If(Condition("d"), <<Break>>), Grow>>)}
  \cup UNION {Iterated(<<s>>) \cup Iterated(<<s, Printing(X)>>) :
                s \in UNION {Enclosing(i) : i \in Inner(Jumps)}}
  \cup UNION {Iterated(<<IfElse(Condition("c"), <<o>>, <<Grow>>), Printing(X)>>) :
                o \in UNION {Guarded(<<s, Perform(Calling("g"))>>) : s \in Inner(Jumps)}}

-----------------------------------------------------------------------------
Opening == <<Declare("x", Plain(Lit(1))), Declare("s", NoExpr)>>
Valued(n, opening, statements) ==
  {Function(n, FALSE, <<"xs", "p">>, <<>>, <<>>, opening \o <<s, Printing(X), ReturnOf(X)>>) :
     s \in statements}

\* Postconditions, `always` conditions, and a last expression that is returned.
Contracts ==
  {Function(0, FALSE, <<"xs", "p">>, a, <<>>,
            <<Declare("x", Plain(Lit(1))), Ensure(Condition("e")), s, ReturnOf(X)>>) :
     a \in {<<>>, <<Condition("a")>>},
     s \in Ifs(Leaves, {ReturnOf(X)}) \cup Guarded(<<Perform(Calling("g"))>>)}
  \cup {Function(0, FALSE, <<"xs", "p">>, <<>>, <<>>, Opening \o <<s, Perform(Calling("f"))>>) :
          s \in {Printing(X)} \cup Iterated(<<Grow>>)}
Rules ==
  {Function(0, TRUE, <<"xs", "p">>, <<>>, <<Condition("r"), Condition("q")>>, Opening \o <<s>>) :
     s \in Ifs(Leaves, {}) \cup Iterated(<<Perform(Calling("g"))>>)}

\* Functions the optimiser has something to do in.
Ints == {-8, -1, 0, 3}
Folds ==
  {Function(1, FALSE, <<>>, <<>>, <<>>, <<Declare("x", e), Printing(X)>>) :
     e \in {Binary(op, Lit(a), Lit(b)) : a \in Ints, b \in Ints,
              op \in {"add", "sub", "mul", "div", "rem", "lt", "le", "gt", "ge", "eq", "ne"}}
           \cup {Unary("neg", Lit(a)) : a \in Ints} \cup {Unary("not", Truth(b)) : b \in BOOLEAN}
           \cup {Binary(op, Truth(a), Truth(b)) : a \in BOOLEAN, b \in BOOLEAN, op \in {"eq", "ne"}}}

Y == Assign("y", Binary("mul", Var("x"), Lit(2)))
Optimised ==
  {Function(n, FALSE, <<"xs", "p">>, <<>>, <<>>,
            <<Declare("x", Plain(Lit(1))), Declare("y", Plain(Lit(3))), s,
              Declare("z", Binary("lt", Var("x"), Var("y"))), Printing(Plain(Var("y"))),
              ReturnOf(Plain(Var("z")))>>) :
     n \in {2, 3},
     s \in {Y, If(Condition("c"), <<Y>>), IfElse(Condition("c"), <<Y, ReturnOf(X)>>, <<Grow>>),
            IfElse(Condition("c"), <<ReturnOf(X)>>, <<ReturnOf(Plain(Lit(0)))>>),
            Require(Plain(Truth(TRUE))), Assign("y", Calling("f"))}
           \cup Iterated(<<Y, Grow>>) \cup Guarded(<<Assign("y", Calling("f")), Y>>)}

MCPrograms ==
  Valued(0, Opening, Ifs(Leaves, {ReturnOf(X)}) \cup Loops \cup Nested \cup Guards \cup Around \cup Enclosed)
  \cup Contracts \cup Rules \cup Folds \cup Optimised

\* A method that returns no value, of a class with an `always` condition.
VoidMethods ==
  {Function(0, TRUE, <<"xs", "p">>, <<Condition("a")>>, <<>>, Opening \o <<s>>) : s \in Ifs(Leaves, {})}
=============================================================================
