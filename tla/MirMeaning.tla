----------------------------- MODULE MirMeaning -----------------------------
(***************************************************************************)
(* What a function does as it is written, statement by statement, in the   *)
(* terms of MirRuns.                                                       *)
(***************************************************************************)
EXTENDS HirFunction, MirRuns

\* `work` is what is left to do: statements, the next turn of a loop,
\* the end of what an onError guards, and the end of the function.
Todo(do, s, at) == [do |-> do, s |-> s, at |-> at]
Do(body)   == [i \in DOMAIN body |-> Todo("stmt", body[i], <<>>)]
Check(conds) == [i \in DOMAIN conds |-> Todo("stmt", Require(conds[i]), <<>>)]

AsWritten(f, inputs) ==
  LET body == IF ~f.void /\ f.body # <<>> /\ Last(f.body).kind = "perform"
              THEN Append(Front(f.body), ReturnOf(Last(f.body).expr)) ELSE f.body
  IN [work |-> Do(body) \o Check(f.rules) \o Do(<<ReturnOf(NoExpr)>>),
      env |-> [x \in Range(f.params) |-> inputs[CHOOSE i \in DOMAIN f.params : f.params[i] = x]],
      ensures |-> f.invariants, events |-> <<>>, ended |-> FALSE]

AtomValue(a, env) == IF a.name = "" THEN a.const.val ELSE env[a.name]

\* How the evaluation of an expression can go: its value, or the event it ends in.
Outcome(how, val, events) == [how |-> how, val |-> val, events |-> events]
Evaluated(e, env) ==
  LET l == AtomValue(e.left, env)
      r == AtomValue(e.right, env)
  IN CASE e.kind = "binary" ->
            {IF Traps(e.sym, l, r) THEN Outcome("trap", 0, <<>>)
             ELSE Outcome("value", Wasm(e.sym, l, r), <<>>)}
       [] e.kind = "unary" -> {Outcome("value", WasmUnary(e.sym, l), <<>>)}
       [] e.kind = "call" -> {Outcome("value", 1, <<Event("call", e.sym, 1)>>),
                              Outcome("raise", 0, <<Event("raise", e.sym, 0)>>)}
       [] e.kind = "opaque" -> {Outcome("value", a, <<Event("cond", e.sym, a)>>) : a \in {0, 1}}
       [] OTHER -> {Outcome("value", l, <<>>)}

\* What is left from the first item of these kinds on.
From(work, dos) == LET at == {i \in DOMAIN work : work[i].do \in dos}
                   IN IF at = {} THEN <<>> ELSE SubSeq(work, Min(at), Len(work))

\* An error leaves for the handler of the onError that guards it, or the function.
Raised(s) ==
  LET guard == From(s.work, {"guarded"})
  IN IF guard = <<>> THEN Ends(s, "unwound", 0)
     ELSE [s EXCEPT !.work = Do(Head(guard).s.other) \o Tail(guard)]

\* The statement goes on with the value of its expression.
WithValue(s, t, val, rest) ==
  LET Goes(work) == [s EXCEPT !.work = work \o rest]
  IN CASE t.kind \in {"declare", "assign"} -> [Goes(<<>>) EXCEPT !.env = (t.name :> val) @@ @]
       [] t.kind = "print" -> Shows(Goes(<<>>), Event("print", "", val))
       [] t.kind = "return" -> Goes(Check(s.ensures) \o <<Todo("leave", t, <<val>>)>>)
       [] t.kind = "require" -> IF val = 1 THEN Goes(<<>>) ELSE Ends(s, "trap", 0)
       [] t.kind = "if" -> Goes(Do(IF val = 1 THEN t.body ELSE t.other))
       [] t.kind = "while" ->
            Goes(IF val = 1 THEN Do(t.body) \o <<Todo("turn", t, <<>>)>> ELSE <<>>)
       [] t.kind = "for" -> Goes(<<Todo("turn", t, <<0, val - 1>>)>>)
       [] t.kind = "range" ->
            Goes(<<Todo("turn", t, <<val, AtomValue(t.upto.left, s.env)>>)>>)
       [] OTHER -> Goes(<<>>)

Statement(s, t, rest) ==
  CASE t.kind = "break" -> {[s EXCEPT !.work = Tail(From(rest, {"turn"}))]}
    [] t.kind = "continue" -> {[s EXCEPT !.work = From(rest, {"turn"})]}
    [] t.kind = "ensure" -> {[s EXCEPT !.work = rest, !.ensures = Append(@, t.expr)]}
    [] t.kind = "onError" -> {[s EXCEPT !.work = Do(t.body) \o <<Todo("guarded", t, <<>>)>> \o rest]}
    [] OTHER ->
         {LET heard == [s EXCEPT !.events = @ \o o.events, !.work = rest]
          IN CASE o.how = "trap" -> Ends(heard, "trap", 0)
               [] o.how = "raise" -> Raised(heard)
               [] OTHER -> WithValue(heard, t, o.val, rest) : o \in Evaluated(t.expr, s.env)}

StepWritten(s) ==
  LET item == Head(s.work)
      rest == Tail(s.work)
      t == item.s
  IN CASE item.do = "stmt" -> Statement(s, t, rest)
       [] item.do = "guarded" -> {[s EXCEPT !.work = rest]}
       [] item.do = "leave" -> {Ends(s, "return", item.at[1])}
       [] item.do = "turn" /\ t.kind = "while" -> Statement(s, t, rest)
       [] OTHER -> IF item.at[1] > item.at[2] THEN {[s EXCEPT !.work = rest]}
                   ELSE {[s EXCEPT !.env = (t.name :> item.at[1]) @@ @,
                                   !.work = Do(t.body)
                                     \o <<Todo("turn", t, <<item.at[1] + 1, item.at[2]>>)>> \o rest]}

RECURSIVE RunWritten(_, _)
RunWritten(states, steps) ==
  IF steps = 0 \/ \A s \in states : Quiet(s) THEN states
  ELSE RunWritten(UNION {IF Quiet(s) THEN {s} ELSE StepWritten(s) : s \in states}, steps - 1)

\* The runs of a function as it is written from each of its arguments.
Written(f)   == [i \in Arguments(f) |-> Shown(RunWritten({AsWritten(f, i)}, MaxSteps))]
=============================================================================
