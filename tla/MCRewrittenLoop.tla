-------------------------- MODULE MCRewrittenLoop --------------------------
(***************************************************************************)
(* Small programs for RewrittenLoop: loops of at most three statements, of *)
(* which one may be an `if`, that a pass rewrites.                         *)
(***************************************************************************)
EXTENDS RewrittenLoop, FiniteSetsExt

Fragments == {<<Lit("x")>>, <<Lit("x"), Method("m")>>, <<Call("f")>>, <<Var("h")>>}

AppendsA == {SelfAppend("A", f) : f \in Fragments}
AppendsB == {SelfAppend("B", <<Lit("y"), Method("m")>>), SelfAppend("B", <<Var("h")>>)}
DeclsH   == {Decl("h", <<Lit("x"), Method("m")>>), Decl("h", <<Call("f")>>)}
AssignsC == {Assign("C", <<Call("f")>>), Assign("C", <<Var("C"), Lit("z")>>),
             Assign("C", <<Var("C"), Call("f")>>), Assign("C", <<Var("h")>>),
             Assign("C", <<Var("A"), Lit("z")>>), Assign("C", <<Var("A")>>)}

Plain == AppendsA \cup AppendsB \cup DeclsH \cup AssignsC

Arms == {<<>>, <<Continue>>, <<Break>>,
         <<SelfAppend("A", <<Lit("x"), Method("m")>>)>>,
         <<SelfAppend("B", <<Lit("y"), Method("m")>>)>>,
         <<Assign("C", <<Call("f")>>)>>}
Ifs  == {If(<<>>, then, else) : then \in Arms,
                 else \in {<<>>, <<SelfAppend("A", <<Lit("x"), Method("m")>>)>>}}
          \cup {If(<<v>>, then, <<>>) : v \in {"A", "C"},
                 then \in {<<Continue>>, <<Assign("C", <<Call("f")>>)>>}}
Loops == {Repeat(<<SelfAppend(v, <<Lit("x"), Method("m")>>)>>) : v \in {"A", "B"}}

Blocks(n) == [1..n -> Plain]
              \cup {InsertAt(b, i, s) : b \in [1..(n - 1) -> Plain], i \in 1..n, s \in Ifs \cup Loops}

\* h is declared once, before it is read.
WellFormed(block) ==
    \A i \in DOMAIN block :
       /\ (\E s \in Range(Leaves(<<block[i]>>)) : s.op \in {"assign", "decl"} /\ Mentions(s.chain, "h"))
             => \E k \in 1..(i - 1) : block[k] \in DeclsH
       /\ block[i] \in DeclsH => \A k \in 1..(i - 1) : block[k] \notin DeclsH

IsRewritten(block) ==
    IsDualLoop(block) \/ IsSingleLoop(block, "A") \/ IsSingleLoop(block, "B")

Bodies == {b \in Blocks(1) \cup Blocks(2) \cup Blocks(3) : WellFormed(b) /\ IsRewritten(b)}

-----------------------------------------------------------------------------
(* The shapes that a pass rewrites into something else than the source; the *)
(* README lists them, each with what goes wrong.                            *)

Writes(block, v) == \E s \in Range(Leaves(block)) : s.op = "assign" /\ s.var = v

\* `C = A` is taken for a self-append of A.
ForeignSelfAppend(block) ==
    \E s \in Range(Leaves(block)) : s.op = "assign" /\ s.var = "C" /\ Head(s.chain) = Var("A")

\* C becomes a copy of a pooled local.
CopiesPooledLocal(block) ==
    /\ Assign("C", <<Var("h")>>) \in Range(block)
    /\ Decl("h", <<Lit("x"), Method("m")>>) \in Range(block)

JumpsIn(block) == \E s \in Range(Leaves(block)) : s \in {Continue, Break}

DirectAppends(block) == {i \in DOMAIN block : IsDualAppend(block[i])}

\* A chunk that is no concatenation is the string of a call: it is on the heap,
\* where the arena scope frees it before it is appended.
HeapChunk(block) ==
    \E i \in DirectAppends(block) :
       \/ Tail(block[i].chain) = <<Call("f")>>
       \/ Tail(block[i].chain) = <<Var("h")>> /\ Decl("h", <<Call("f")>>) \in Range(block)

\* The direct appends move behind those of a nested block; those in a nested
\* loop stay inside the arena scope.
NestedAppend(block) ==
    /\ DirectAppends(block) # {}
    /\ \E s \in Range(block) : s.op \in {"if", "repeat"} /\ HasAppends(<<s>>)

\* The jump skips the accumulation of the chunks before it.
JumpBehindAppend(block) ==
    \E i \in DirectAppends(block) : \E k \in (i + 1)..Len(block) : JumpsIn(<<block[k]>>)

\* C is a heap string of the arena scope.
WritesOuterInScope(block) == DirectAppends(block) # {} /\ Writes(block, "C")

DualUnsound(block) ==
    /\ IsDualLoop(block)
    /\ \/ HeapChunk(block) \/ NestedAppend(block)
       \/ JumpBehindAppend(block) \/ WritesOuterInScope(block)

\* C is declared behind the mark that the heap goes back to after the loop.
DeclaredBehindMark(p) ==
    /\ ~p.early /\ ~IsDualLoop(p.body)
    /\ \E v \in {"A", "B"} : IsSingleLoop(p.body, v)
    /\ \A s \in Range(Leaves(p.body)) :
          s.op = "assign" => s.var = "h" \/ (IsSingleLoop(p.body, s.var) /\ IsSelfAppend(s, s.var))

Unsound(p) ==
    \/ ForeignSelfAppend(p.body) \/ CopiesPooledLocal(p.body)
    \/ DualUnsound(p.body) \/ DeclaredBehindMark(p)

AllPrograms   == [body : Bodies, early : BOOLEAN]
SoundPrograms == {p \in AllPrograms : ~Unsound(p)}

\* One shape, for the run that shows what goes wrong.
LateDeclarations ==
    {p \in AllPrograms : DeclaredBehindMark(p) /\ ~ForeignSelfAppend(p.body) /\ ~CopiesPooledLocal(p.body)}
=============================================================================
