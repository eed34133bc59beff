---------------------------- MODULE LoopProgram ----------------------------
(***************************************************************************)
(* The programs that the string-accumulator passes rewrite, and what they  *)
(* mean.  A program declares the strings A, B and C and runs one loop.     *)
(* A string expression is a left-folded chain of `+`, written as the       *)
(* sequence of its atoms: a variable, a literal, a method call such as     *)
(* i.toString(), or the call of a function.  Conditions are inputs: `if`   *)
(* tests either the iteration's input or whether a string is empty.        *)
(*                                                                         *)
(* A text is the sequence of the tokens it was put together from; a call   *)
(* yields a different token in each iteration.                             *)
(***************************************************************************)
EXTENDS Integers, Sequences, SequencesExt, TLC

Var(v)    == [kind |-> "var", name |-> v]
Lit(t)    == [kind |-> "lit", name |-> t]
Method(m) == [kind |-> "method", name |-> m]
Call(f)   == [kind |-> "call", name |-> f]

Assign(v, chain) == [op |-> "assign", var |-> v, chain |-> chain, transient |-> FALSE]
Decl(v, chain)   == [op |-> "decl", var |-> v, chain |-> chain, transient |-> FALSE]

\* guard = <<>> tests the input of the iteration, guard = <<v>> whether the
\* string v is non-empty.
If(guard, then, else) == [op |-> "if", guard |-> guard, then |-> then, else |-> else]

\* A nested loop of two iterations; it holds no jump.
Repeat(body) == [op |-> "repeat", body |-> body]
Continue     == [op |-> "continue"]
Break        == [op |-> "break"]

\* s = s + e1 + ... + en
SelfAppend(v, fragments) == Assign(v, <<Var(v)>> \o fragments)

\* The statements of a block that hold no others, nested ones included.
RECURSIVE Leaves(_)
Leaves(stmts) ==
    FlattenSeq([i \in DOMAIN stmts |->
        CASE stmts[i].op = "if"     -> Leaves(stmts[i].then) \o Leaves(stmts[i].else)
          [] stmts[i].op = "repeat" -> Leaves(stmts[i].body)
          [] OTHER                  -> <<stmts[i]>>])

\* The strings that the conditions of a block test.
RECURSIVE Tested(_)
Tested(stmts) ==
    UNION {CASE s.op = "if"     -> Range(s.guard) \cup Tested(s.then) \cup Tested(s.else)
             [] s.op = "repeat" -> Tested(s.body)
             [] OTHER           -> {} : s \in Range(stmts)}

-----------------------------------------------------------------------------
(* Meaning.                                                                *)

Outer   == {"A", "B", "C"}
Initial == [v \in Outer |-> <<<<v, 0>>>>]

Token(atom, n) == <<atom.name, IF atom.kind = "lit" THEN 0 ELSE n>>

TextOf(chain, text, n) ==
    FlattenSeq([i \in DOMAIN chain |->
        IF chain[i].kind = "var" THEN text[chain[i].name]
                                 ELSE <<Token(chain[i], n)>>])

Holds(guard, text, input) ==
    IF guard = <<>> THEN input ELSE text[guard[1]] # <<>>

\* The texts after stmts have run in iteration n, and the jump they took.
RECURSIVE Run(_, _, _, _)
Run(state, stmts, input, n) ==
    IF stmts = <<>> \/ state.jump # "none" THEN state
    ELSE LET s    == Head(stmts)
             next ==
                CASE s.op \in {"assign", "decl"} ->
                        [state EXCEPT !.text = (s.var :> TextOf(s.chain, @, n)) @@ @]
                  [] s.op = "if" ->
                        Run(state, IF Holds(s.guard, state.text, input)
                                   THEN s.then ELSE s.else, input, n)
                  [] s.op = "repeat" ->
                        Run(state, s.body \o s.body, input, n)
                  [] OTHER -> [state EXCEPT !.jump = s.op]
         IN Run(next, Tail(stmts), input, n)

Iteration(body, text, input, n) ==
    Run([text |-> text, jump |-> "none"], body, input, n)
=============================================================================
