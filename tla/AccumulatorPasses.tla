------------------------- MODULE AccumulatorPasses -------------------------
(***************************************************************************)
(* The accumulator passes of HirBuilder::build_block: the dual pass, then  *)
(* the single pass, over `string A = ...`, `string B = ...` and the loop.  *)
(*                                                                         *)
(* The dual pass brackets each iteration with an arena scope: an append    *)
(* becomes a chunk, and the chunks are appended once the scope is popped.  *)
(* The single pass replaces an accumulator by a string builder.  Both      *)
(* route concatenations held by body-local strings to the transient pool.  *)
(*                                                                         *)
(* The operators named Fault... are wrong versions of the definition after *)
(* them; each shows that a property notices the fault.                     *)
(***************************************************************************)
EXTENDS LoopProgram, FiniteSets

-----------------------------------------------------------------------------
(* Analysis.                                                               *)

Mentions(chain, v) == Var(v) \in Range(chain)

\* is_chained_self_append: the leftmost atom is v.  The code asks this of the
\* value alone, so `C = A` and `C = A + x` count as self-appends of A.
IsSelfAppend(s, v) == s.op = "assign" /\ Head(s.chain) = Var(v)

Indices(stmts, Test(_)) == {i \in DOMAIN stmts : Test(stmts[i])}

Appends(block, v) == LET Test(s) == IsSelfAppend(s, v) IN Cardinality(Indices(Leaves(block), Test))

\* A read of v outside a self-append, in an expression or in a condition.
Reads(block, v) ==
    \/ v \in Tested(block)
    \/ \E s \in Range(Leaves(block)) :
          /\ s.op \in {"assign", "decl"}
          /\ ~IsSelfAppend(s, v)
          /\ Mentions(s.chain, v)

\* An append that reads v again, or any other write to v.
Disqualified(block, v) ==
    \E s \in Range(Leaves(block)) :
       /\ s.op = "assign"
       /\ IF IsSelfAppend(s, v) THEN Mentions(Tail(s.chain), v) ELSE s.var = v

\* A third string appends to itself: its right spine has a literal or a method
\* call.  A function call is no evidence of a string.
ThirdAccumulator(block) ==
    \E s \in Range(Leaves(block)) :
       /\ s.op = "assign" /\ s.var \notin {"A", "B"}
       /\ IsSelfAppend(s, s.var)
       /\ \E atom \in Range(Tail(s.chain)) : atom.kind \in {"lit", "method"}

IsDualLoop(block) ==
    /\ \A v \in {"A", "B"} :
          Appends(block, v) > 0 /\ ~Reads(block, v) /\ ~Disqualified(block, v)
    /\ ~ThirdAccumulator(block)

\* AccumulatorAnalysis::is_rewritable; a break disqualifies, a continue not.
IsSingleLoop(block, v) ==
    /\ Appends(block, v) = 1
    /\ ~Reads(block, v) /\ ~Disqualified(block, v)
    /\ Break \notin Range(Leaves(block))

-----------------------------------------------------------------------------
(* What the passes emit besides the statements of LoopProgram.             *)

ArenaPush(mark)      == [op |-> "arena_push", mark |-> mark]
ArenaPop(mark)       == [op |-> "arena_pop", mark |-> mark]
TransientEnter(mark) == [op |-> "enter", mark |-> mark]
TransientExit(mark)  == [op |-> "exit", mark |-> mark]
ScopePush(mark)      == [op |-> "push", mark |-> mark]
PopKeeping(mark, v)  == [op |-> "keep", mark |-> mark, var |-> v]
BuilderNew           == [op |-> "new"]
BuilderAppend(atom)  == [op |-> "append", chain |-> <<atom>>]
Finalize(v)          == [op |-> "finalize", var |-> v]

\* The strings declared in a block.
Locals(block) == {s.var : s \in {l \in Range(Leaves(block)) : l.op = "decl"}}

FaultTransient(block, locals) == block

\* rewrite_body_local_helpers_to_transient: only a chain is routed; a call or
\* a copy of a pointer stays what it is.
RECURSIVE Transient(_, _)
Transient(block, locals) ==
    [i \in DOMAIN block |->
        LET s == block[i]
        IN CASE s.op \in {"assign", "decl"} ->
                    [s EXCEPT !.transient = @ \/ (s.var \in locals /\ Len(s.chain) > 1)]
             [] s.op = "if" ->
                    [s EXCEPT !.then = Transient(@, locals), !.else = Transient(@, locals)]
             [] s.op = "repeat" -> [s EXCEPT !.body = Transient(@, locals)]
             [] OTHER -> s]

FaultPooled(block, mark) == <<TransientEnter(mark)>> \o Transient(block, Locals(block))

Pooled(block, mark) ==
    <<TransientEnter(mark)>> \o Transient(block, Locals(block)) \o <<TransientExit(mark)>>

-----------------------------------------------------------------------------
(* The dual pass.                                                          *)

IsDualAppend(s) == s.op = "assign" /\ s.var \in {"A", "B"} /\ IsSelfAppend(s, s.var)

HasAppends(block) == Appends(block, "A") > 0 \/ Appends(block, "B") > 0

ChunkName(path, i) == "chunk" \o path \o ToString(i)

\* v = v + chunk_0 + chunk_1 + ..., or nothing when there is no chunk.
Accumulate(block, v, path) ==
    LET Test(s) == IsDualAppend(s) /\ s.var = v
        where   == SetToSortSeq(Indices(block, Test), <)
    IN IF where = <<>> THEN <<>>
       ELSE <<SelfAppend(v, [k \in DOMAIN where |-> Var(ChunkName(path, where[k]))])>>

FaultClosed(block, path, body) ==
    IF \E s \in Range(block) : IsDualAppend(s)
    THEN <<ArenaPush("atmark" \o path)>> \o body
            \o Accumulate(block, "A", path) \o Accumulate(block, "B", path)
            \o <<ArenaPop("atmark" \o path)>>
    ELSE body

\* The chunks of a block are appended after the arena scope is popped.
Closed(block, path, body) ==
    IF \E s \in Range(block) : IsDualAppend(s)
    THEN <<ArenaPush("atmark" \o path)>> \o body \o <<ArenaPop("atmark" \o path)>>
            \o Accumulate(block, "A", path) \o Accumulate(block, "B", path)
    ELSE body

\* apply_dual_scope_rewrite and rewrite_branch_with_scope: appends become
\* chunks, and each branch with appends gets a scope of its own.
RECURSIVE Scoped(_, _)
Scoped(block, path) ==
    LET Arm(arm, at) == IF HasAppends(arm) THEN Scoped(arm, at) ELSE arm
    IN Closed(block, path,
          [i \in DOMAIN block |->
              LET s  == block[i]
                  at == path \o ToString(i)
              IN CASE IsDualAppend(s) -> Decl(ChunkName(path, i), Tail(s.chain))
                   [] s.op = "if" ->
                        [s EXCEPT !.then = Arm(@, at \o "t"), !.else = Arm(@, at \o "e")]
                   [] OTHER -> s])

Dual(block) == IF IsDualLoop(block) THEN Pooled(Scoped(block, "_"), "dual_tmark") ELSE block

-----------------------------------------------------------------------------
(* The single pass.                                                        *)

FaultAppendFragment(atom, name) ==
    <<ScopePush("pp" \o name), Decl(name, <<atom>>), BuilderAppend(Var(name)),
      PopKeeping("pp" \o name, name)>>

\* emit_append_maybe_wrapped: the heap a call used is given back, but for the
\* string it returned, before the builder may move.
AppendFragment(atom, name) ==
    IF atom.kind \in {"method", "call"}
    THEN <<ScopePush("pp" \o name), Decl(name, <<atom>>), PopKeeping("pp" \o name, name),
           BuilderAppend(Var(name))>>
    ELSE <<BuilderAppend(atom)>>

RECURSIVE Built(_, _, _)
Built(block, v, path) ==
    FlattenSeq([i \in DOMAIN block |->
        LET s  == block[i]
            at == path \o ToString(i)
        IN CASE IsSelfAppend(s, v) /\ s.var = v ->
                    FlattenSeq([k \in 1..(Len(s.chain) - 1) |->
                        AppendFragment(s.chain[k + 1], "ptmp" \o at \o "." \o ToString(k))])
             [] s.op = "if" ->
                    <<[s EXCEPT !.then = Built(@, v, at \o "t"), !.else = Built(@, v, at \o "e")]>>
             [] s.op = "repeat" -> <<[s EXCEPT !.body = Built(@, v, at)]>>
             [] OTHER -> <<s>>])

FaultMemScopeSafe(block) == TRUE

\* is_body_mem_scope_safe: the body writes no string declared outside it.
MemScopeSafe(block) ==
    \A s \in Range(Leaves(block)) : s.op = "assign" => s.var \in Locals(block)

\* The declaration becomes a builder that holds the literal; after the loop the
\* builder is turned into the string, and with a safe body everything that was
\* allocated since the declaration is given back but for that string.
Single(code, v) ==
    LET body == Pooled(Built(code.body, v, "_"), "tmark")
        wrap == MemScopeSafe(body)
        Replace(s) ==
            IF s = Decl(v, <<Lit(v)>>)
            THEN (IF wrap THEN <<ScopePush("mmark")>> ELSE <<>>)
                    \o <<BuilderNew, BuilderAppend(Lit(v))>>
            ELSE <<s>>
    IN [prologue |-> FlattenSeq([i \in DOMAIN code.prologue |-> Replace(code.prologue[i])]),
        body     |-> body,
        epilogue |-> <<Finalize(v)>> \o (IF wrap THEN <<PopKeeping("mmark", v)>> ELSE <<>>)]

-----------------------------------------------------------------------------
\* The program's declarations; C comes from a function, before the accumulators
\* or between them and the loop.
Prologue(early) ==
    LET c  == <<Decl("C", <<Call("C")>>)>>
        ab == <<Decl("A", <<Lit("A")>>), Decl("B", <<Lit("B")>>)>>
    IN IF early THEN c \o ab ELSE ab \o c

\* build_block: dual before single.  Once the single pass has rewritten the loop
\* for A it goes on behind the loop, so B keeps its appends.
Compile(p) ==
    LET code == [prologue |-> Prologue(p.early), body |-> Dual(p.body), epilogue |-> <<>>]
    IN CASE IsSingleLoop(code.body, "A") -> Single(code, "A")
         [] ~IsSingleLoop(code.body, "A") /\ IsSingleLoop(code.body, "B") -> Single(code, "B")
         [] OTHER -> code
=============================================================================
