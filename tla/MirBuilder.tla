----------------------------- MODULE MirBuilder -----------------------------
(***************************************************************************)
(* The lowering of a function body to MIR.  The builder walks the          *)
(* statements and keeps a current block: a statement appends instructions  *)
(* to it, sets its terminator, or reserves blocks and moves on to another  *)
(* one.  After a statement no path leaves there is no current block.  What *)
(* is left to do is `agenda`: statements, and what the builder does when   *)
(* it comes back from the blocks of a compound statement.                  *)
(***************************************************************************)
EXTENDS HirFunction, MirBlocks

CONSTANT HeapNames   \* the names whose values live in the arena: strings, lists, objects

VARIABLES
  program,     \* the function that is built
  agenda,      \* what is left to build
  current,     \* self.current_block
  nextBlock, nextValue,
  scope,       \* context.scope_stack: the value of a name
  loops,       \* context.loop_stack
  regions,     \* context.error_regions
  ensures,     \* context.ensure_conditions
  merges,      \* context.function.if_merges
  labels       \* what kind of block it is: the labels code generation looks at

layout == <<merges, labels>>   \* what code generation is told of the blocks
lowerVars == <<program, agenda, current, nextBlock, nextValue, scope, loops, regions, ensures,
               layout>>

-----------------------------------------------------------------------------
\* Markers the HIR builder puts around what an onError block guards.
RegionBegin         == Stmt("region_begin", "", NoExpr, NoExpr, <<>>, <<>>)
RegionEnd           == Stmt("region_end", "", NoExpr, NoExpr, <<>>, <<>>)

FaultIterScopeSafe(body) == \A s \in Inside(body) : s.kind # "onError"

\* The memory an iteration allocates is released after it, when nothing can keep a pointer.
IterScopeSafe(body) ==
  LET inner == {s.name : s \in {t \in Inside(body) : t.kind \in {"declare", "for", "range"}}}
  IN \A s \in Inside(body) :
       /\ s.kind \notin {"return", "onError"}
       /\ s.kind = "perform" => s.expr.kind # "call"
       /\ s.kind = "assign" => s.name \notin HeapNames \ inner

-----------------------------------------------------------------------------
Point(do, s, at) == [do |-> do, s |-> s, at |-> at]
Points(body)     == [i \in DOMAIN body |-> Point("stmt", body[i], <<>>)]
Tests(conds)     == [i \in DOMAIN conds |-> Point("test", Require(conds[i]), <<>>)]

\* The last expression of a function that returns a value is what it returns.
BodyItems(p) ==
  IF ~p.void /\ p.body # <<>> /\ Last(p.body).kind = "perform"
  THEN Points(Front(p.body)) \o <<Point("auto", Last(p.body), <<>>)>>
  ELSE Points(p.body)

Fresh == [code |-> <<>>, term |-> Unreachable]

LowerInit ==
  /\ program \in Programs
  /\ agenda = BodyItems(program) \o Tests(program.rules) \o <<Point("finish", Break, <<>>)>>
  /\ current = Entry
  /\ blocks = [b \in {Entry} |-> Fresh]
  /\ nextBlock = 1
  /\ nextValue = Len(program.params) + 1
  /\ scope = [x \in Range(program.params) |-> CHOOSE v \in DOMAIN program.params :
                                                program.params[v] = x]
  /\ loops = <<>> /\ regions = <<>>
  /\ ensures = program.invariants
  /\ merges = <<>> /\ labels = <<>>

\* The map f, with these keys standing for v.
Bound(f, keys, v) == [k \in DOMAIN f \cup keys |-> IF k \in keys THEN v ELSE f[k]]

Reserve(bs, ids)  == Bound(bs, ids, Fresh)
Emit(bs, b, code) == IF b = NoBlock THEN bs ELSE [bs EXCEPT ![b].code = @ \o code]
End(bs, b, term)  == IF b = NoBlock THEN bs ELSE [bs EXCEPT ![b].term = term]
Close(bs, b, code, term) == End(Emit(bs, b, code), b, term)
Open(bs, b)       == b # NoBlock /\ bs[b].term = Unreachable

\* A call that may raise is followed by a check that leaves for the innermost region.
FaultInnerExit == IF regions = <<>> THEN NoBlock ELSE Head(regions).exit
InnerExit == IF regions = <<>> THEN NoBlock ELSE Last(regions).exit

Calls(f, dest, args)  == <<Call(f, dest, args), ErrorCheck(InnerExit)>>
Runtime(f, dest)  == <<Call(f, dest, <<>>)>>
ScopePush(scoped) == IF scoped THEN Runtime("mem_scope_push", NoValue) ELSE <<>>
ScopePop(scoped)  == IF scoped THEN Runtime("mem_scope_pop", NoValue) ELSE <<>>

\* What an atom or an expression comes to: instructions, its value, the next free one.
Comes(code, value, next) == [code |-> code, value |-> value, next |-> next]
AtomFrom(a, next) ==
  IF Named(a) THEN Comes(<<>>, scope[a.name], next)
  ELSE Comes(<<Copy(next, Constant(a.const))>>, next, next + 1)
LowerFrom(e, next) ==
  LET l == AtomFrom(e.left, next)
      r == AtomFrom(e.right, l.next)
  IN CASE e.kind = "atom" -> l
       [] e.kind = "binary" ->
            Comes(l.code \o r.code
                    \o <<BinaryOp(e.sym, r.next, Value(l.value), Value(r.value))>>,
                  r.next, r.next + 1)
       [] e.kind = "unary" ->
            Comes(l.code \o <<Instr("unary", l.next, <<Value(l.value)>>, e.sym, NoBlock)>>,
                  l.next, l.next + 1)
       [] e.kind = "call" -> Comes(Calls(e.sym, next, <<>>), next, next + 1)
       [] e.kind = "take" -> Comes(Runtime(e.sym, next), next, next + 1)
       [] e.kind = "opaque" ->
            Comes(<<Instr("opaque", next, <<>>, e.sym, NoBlock)>>, next, next + 1)
       [] OTHER -> Comes(<<>>, NoValue, next)
Lower(e) == LowerFrom(e, nextValue)

-----------------------------------------------------------------------------
\* The next point of the agenda, or the statement of this kind that is next.  A function
\* that uses a name without a value is refused: it is built no further.
Then(points) == agenda' = points \o Tail(agenda)
The         == Head(agenda).s
At          == Head(agenda).at
Resolved(e) == \A a \in {e.left, e.right} : Named(a) => a.name \in DOMAIN scope
Doing(do)   == agenda # <<>> /\ Head(agenda).do = do /\ Resolved(The.expr) /\ Resolved(The.upto)
On(kind)    == Doing("stmt") /\ The.kind = kind

BuildDeclaration ==
  /\ On("declare")
  /\ LET e == IF The.expr.kind = "none"
              THEN Comes(<<Copy(nextValue, Constant(Undefined))>>, nextValue, nextValue + 1)
              ELSE LET i == Lower(The.expr)
                   IN Comes(i.code \o <<Copy(i.next, Value(i.value))>>, i.next, i.next + 1)
     IN /\ blocks' = Emit(blocks, current, e.code)
        /\ scope' = Bound(scope, {The.name}, e.value)
        /\ nextValue' = e.next
  /\ Then(<<>>)
  /\ UNCHANGED <<program, layout, current, nextBlock, loops, regions, ensures>>

\* The variable keeps its value number: the new value is copied to it.
BuildAssignment ==
  /\ On("assign")
  /\ LET e == Lower(The.expr)
         copy == IF The.name \notin DOMAIN scope \/ e.value = scope[The.name] THEN <<>>
                 ELSE <<Copy(scope[The.name], Value(e.value))>>
     IN /\ blocks' = Emit(blocks, current, e.code \o copy)
        /\ nextValue' = e.next
  /\ Then(<<>>)
  /\ UNCHANGED <<program, layout, current, nextBlock, scope, loops, regions, ensures>>

BuildPrint ==
  /\ On("print")
  /\ LET e == Lower(The.expr)
     IN /\ blocks' = Emit(blocks, current, e.code \o Calls("print", NoValue, <<Value(e.value)>>))
        /\ nextValue' = e.next
  /\ Then(<<>>)
  /\ UNCHANGED <<program, layout, current, nextBlock, scope, loops, regions, ensures>>

BuildExpression ==
  /\ On("perform")
  /\ LET e == Lower(The.expr)
     IN blocks' = Emit(blocks, current, e.code) /\ nextValue' = e.next
  /\ Then(<<>>)
  /\ UNCHANGED <<program, layout, current, nextBlock, scope, loops, regions, ensures>>

\* build_function_body: the last expression is returned, without the rest of a return.
AutoReturn ==
  /\ Doing("auto")
  /\ LET e == Lower(The.expr)
     IN /\ blocks' = Close(blocks, current, e.code, Return(Value(e.value)))
        /\ nextValue' = e.next
  /\ Then(<<>>)
  /\ UNCHANGED <<program, layout, current, nextBlock, scope, loops, regions, ensures>>

-----------------------------------------------------------------------------
\* leave_error_regions.
Leave(n) == [i \in 1..n |-> Call("__err_leave", NoValue, <<>>)]

\* return: leave every region, test the conditions when there is a value, and end.
BuildReturn ==
  /\ On("return")
  /\ LET e == Lower(The.expr)
         valued == e.value # NoValue
     IN /\ blocks' = Emit(blocks, current, e.code \o Leave(Len(regions)))
        /\ nextValue' = e.next
        /\ Then((IF valued THEN Tests(ensures) ELSE <<>>)
                  \o <<Point("return_end", The, <<e.value>>)>>)
  /\ UNCHANGED <<program, layout, current, nextBlock, scope, loops, regions, ensures>>

EndReturn ==
  /\ Doing("return_end")
  /\ blocks' = End(blocks, current, Return(Value(At[1])))
  /\ Then(<<>>)
  /\ UNCHANGED <<program, layout, current, nextBlock, nextValue, scope, loops, regions, ensures>>

FaultLeft == Cardinality({i \in DOMAIN regions : regions[i].depth > Len(loops)})

\* How many regions break and continue leave: those that were entered inside the loop.
Left == Cardinality({i \in DOMAIN regions : regions[i].depth >= Len(loops)})

BuildJump ==
  /\ On("break") \/ On("continue")
  /\ loops # <<>>
  /\ LET loop == Last(loops)
         term == Jump(IF The.kind = "break" THEN loop.brk ELSE loop.cont)
     IN blocks' = Close(blocks, current, Leave(Left) \o ScopePop(loop.scoped), term)
  /\ Then(<<>>)
  /\ UNCHANGED <<program, layout, current, nextBlock, nextValue, scope, loops, regions, ensures>>

BuildEnsure ==
  /\ On("ensure")
  /\ ensures' = Append(ensures, The.expr)
  /\ Then(<<>>)
  /\ UNCHANGED <<program, layout, current, blocks, nextBlock, nextValue, scope, loops, regions>>

\* require, a postcondition, or a state rule: go on when it holds, trap when not.
BuildTest ==
  /\ On("require") \/ Doing("test")
  /\ LET e == Lower(The.expr)
         trap == nextBlock
         cont == nextBlock + 1
     IN /\ blocks' = End(Close(Reserve(blocks, {trap, cont}), current, e.code,
                              Branch(Value(e.value), cont, trap)), trap, Trap)
        /\ nextValue' = e.next
        /\ current' = cont
  /\ nextBlock' = nextBlock + 2
  /\ Then(<<>>)
  /\ UNCHANGED <<program, layout, scope, loops, regions, ensures>>

-----------------------------------------------------------------------------
\* if: the block for what follows is reserved first; the branch goes to it when there is
\* no else.
BuildIf ==
  /\ On("if")
  /\ LET e == Lower(The.expr)
         then == nextBlock
         els  == IF The.other = <<>> THEN NoBlock ELSE nextBlock + 1
         cont == IF The.other = <<>> THEN nextBlock + 1 ELSE nextBlock + 2
     IN /\ blocks' = Close(Reserve(blocks, {then, cont}), current, e.code,
                           Branch(Value(e.value), then, IF els = NoBlock THEN cont ELSE els))
        /\ merges' = IF current = NoBlock THEN merges ELSE Bound(merges, {current}, cont)
        /\ labels' = Bound(labels, {cont}, "continue")
        /\ current' = then
        /\ nextBlock' = cont + 1
        /\ nextValue' = e.next
        /\ Then(Points(The.body) \o <<Point("then_end", The, <<then, els, cont>>)>>)
  /\ UNCHANGED <<program, scope, loops, regions, ensures>>

\* The blocks that return or trap, or branch to two such blocks.
Returning ==
  LET grow[n \in Nat] ==
        IF n = 0 THEN {}
        ELSE LET fewer == grow[n - 1]
             IN {b \in DOMAIN blocks :
                   \/ blocks[b].term.kind \in {"return", "trap"}
                   \/ /\ blocks[b].term.kind = "branch"
                      /\ Targets(blocks[b].term) \subseteq fewer}
  IN grow[Cardinality(DOMAIN blocks)]

Ended(bs, b) == bs[b].term.kind \in {"return", "branch", "jump"}
Joined(bs, b, cont) == IF b = NoBlock \/ Ended(bs, b) THEN bs ELSE End(bs, b, Jump(cont))

\* The then block, and the block its statements ended in, go on behind the if.
EndThen ==
  /\ Doing("then_end")
  /\ LET then == At[1]
         els  == At[2]
         cont == At[3]
         joined == IF then \in Returning THEN blocks
                   ELSE Joined(Joined(blocks, then, cont), current, cont)
     IN IF els = NoBlock
        THEN blocks' = joined /\ current' = cont /\ labels' = labels /\ Then(<<>>)
        ELSE /\ blocks' = Reserve(joined, {els})
             /\ current' = els
             /\ labels' = Bound(labels, {els}, "else")
             /\ Then(Points(The.other) \o <<Point("else_end", The, At)>>)
  /\ UNCHANGED <<program, merges, nextBlock, nextValue, scope, loops, regions, ensures>>

\* There is no current block behind an if whose arms both return.
EndElse ==
  /\ Doing("else_end")
  /\ LET then == At[1]
         cont == At[3]
         elseReturns == current = NoBlock \/ blocks[current].term.kind = "return"
     IN /\ blocks' = IF elseReturns THEN blocks ELSE Joined(blocks, current, cont)
        /\ current' = IF elseReturns /\ blocks[then].term.kind = "return" THEN NoBlock ELSE cont
  /\ Then(<<>>)
  /\ UNCHANGED <<program, layout, nextBlock, nextValue, scope, loops, regions, ensures>>

-----------------------------------------------------------------------------
Loop(cont, brk, scoped) == [cont |-> cont, brk |-> brk, scoped |-> scoped]

\* while: the condition is in a block of its own, which the body goes back to.
BuildWhile ==
  /\ On("while")
  /\ LET e == Lower(The.expr)
         header == nextBlock
         body == nextBlock + 1
         exit == nextBlock + 2
         scoped == IterScopeSafe(The.body)
         reserved == End(Reserve(blocks, {header, body, exit}), current, Jump(header))
     IN /\ blocks' = Emit(Close(reserved, header, e.code, Branch(Value(e.value), body, exit)),
                          body, ScopePush(scoped))
        /\ loops' = Append(loops, Loop(header, exit, scoped))
        /\ current' = body
        /\ nextValue' = e.next
        /\ Then(Points(The.body) \o <<Point("while_end", The, <<header, exit>>)>>)
  /\ nextBlock' = nextBlock + 3
  /\ UNCHANGED <<program, layout, scope, regions, ensures>>

EndWhile ==
  /\ Doing("while_end")
  /\ LET popped == Emit(blocks, current, ScopePop(IterScopeSafe(The.body)))
     IN blocks' = IF Open(blocks, current) THEN End(popped, current, Jump(At[1])) ELSE popped
  /\ loops' = Front(loops)
  /\ current' = At[2]
  /\ Then(<<>>)
  /\ UNCHANGED <<program, layout, nextBlock, nextValue, scope, regions, ensures>>

\* iterate over a list: an index, compared with the length on each round.  The builder
\* expects a current block.
BuildFor ==
  /\ On("for")
  /\ current # NoBlock
  /\ LET e == Lower(The.expr)
         V(i) == e.next + i     \* index, current index, element, length, condition, address
         header == nextBlock
         body == nextBlock + 1
         inc == nextBlock + 2
         exit == nextBlock + 3
         scoped == IterScopeSafe(The.body)
         started == Close(Reserve(blocks, {header, body, inc, exit}), current,
                          e.code \o <<Copy(V(0), Constant(Integer(0))), Copy(V(1), Value(V(0)))>>,
                          Jump(header))
         headed == Close(started, header,
                         <<Phi(V(1), <<Value(V(0))>>), Load(V(3), Value(e.value), "length"),
                           BinaryOp("lt", V(4), Value(V(1)), Value(V(3)))>>,
                         Branch(Value(V(4)), body, exit))
     IN /\ blocks' = Emit(headed, body,
                          ScopePush(scoped)
                            \o <<Instr("address", V(5), <<Value(e.value), Value(V(1))>>, "", NoBlock),
                                 Load(V(2), Value(V(5)), "element")>>)
        /\ loops' = Append(loops, Loop(inc, exit, scoped))
        /\ scope' = Bound(scope, {The.name}, V(2))
        /\ labels' = Bound(labels, {inc}, "increment")
        /\ current' = body
        /\ nextValue' = e.next + 6
        /\ Then(Points(The.body) \o <<Point("for_end", The, <<header, body, inc, exit, V(1)>>)>>)
  /\ nextBlock' = nextBlock + 4
  /\ UNCHANGED <<program, merges, regions, ensures>>

\* The block the body ended in goes on to the increment, whatever it ended in before, once
\* the first block of the body has a terminator.
EndFor ==
  /\ Doing("for_end")
  /\ LET header == At[1]
         body == At[2]
         inc == At[3]
         index == At[5]
         popped == Emit(blocks, current, ScopePop(IterScopeSafe(The.body)))
         joined == End(popped, IF Open(blocks, body) THEN body ELSE current, Jump(inc))
     IN /\ blocks' = [Close(joined, inc,
                            <<BinaryOp("add", nextValue, Value(index), Constant(Integer(1))),
                              Copy(index, Value(nextValue))>>, Jump(header))
                      EXCEPT ![header].code[1].args = Append(@, Value(nextValue))]
        /\ current' = At[4]
  /\ nextValue' = nextValue + 1
  /\ loops' = Front(loops)
  /\ Then(<<>>)
  /\ UNCHANGED <<program, layout, nextBlock, scope, regions, ensures>>

\* iterate over a range: the counter is compared with the end both ways, and the sign of
\* the step selects; build_range_for_loop ends the header when the body is built.
BuildRange ==
  /\ On("range")
  /\ current # NoBlock
  /\ LET from == Lower(The.expr)
         to == LowerFrom(The.upto, from.next)
         V(i) == to.next + i
         step == V(0)
         zero == V(1)
         down == V(2)
         counter == V(4)
         header == nextBlock
         body == nextBlock + 1
         inc == nextBlock + 2
         exit == nextBlock + 3
         scoped == IterScopeSafe(The.body)
         init == <<Copy(step, Constant(Integer(1))), Copy(zero, Constant(Integer(0))),
                   BinaryOp("lt", down, Value(step), Value(zero)),
                   Copy(V(3), Value(from.value)), Copy(counter, Value(V(3)))>>
         started == Close(Reserve(blocks, {header, body, inc, exit}), current,
                          from.code \o to.code \o init, Jump(header))
         headed == Emit(started, header,
                        <<Phi(counter, <<Value(V(3))>>),
                          BinaryOp("le", V(5), Value(counter), Value(to.value)),
                          BinaryOp("ge", V(6), Value(counter), Value(to.value)),
                          Select(V(7), Value(down), Value(V(6)), Value(V(5)))>>)
     IN /\ blocks' = Emit(headed, body, ScopePush(scoped))
        /\ loops' = Append(loops, Loop(inc, exit, scoped))
        /\ scope' = Bound(scope, {The.name}, counter)
        /\ labels' = Bound(labels, {inc}, "increment")
        /\ current' = body
        /\ nextValue' = to.next + 8
        /\ Then(Points(The.body)
                  \o <<Point("range_end", The, <<header, body, inc, exit, V(7), counter, step, V(3)>>)>>)
  /\ nextBlock' = nextBlock + 4
  /\ UNCHANGED <<program, merges, regions, ensures>>

\* The scope of the body is left: the name stands for the first value again.
EndRange ==
  /\ Doing("range_end")
  /\ LET header == At[1]
         inc == At[3]
         counter == At[6]
         popped == Emit(blocks, current, ScopePop(IterScopeSafe(The.body)))
         headed == End(popped, header, Branch(Value(At[5]), At[2], At[4]))
         joined == IF Open(headed, current) THEN End(headed, current, Jump(inc)) ELSE headed
     IN blocks' = [Close(joined, inc,
                         <<BinaryOp("add", counter, Value(counter), Value(At[7]))>>, Jump(header))
                   EXCEPT ![header].code[1].args = Append(@, Value(counter))]
  /\ current' = At[4]
  /\ scope' = [scope EXCEPT ![The.name] = At[8]]
  /\ loops' = Front(loops)
  /\ Then(<<>>)
  /\ UNCHANGED <<program, layout, nextBlock, nextValue, regions, ensures>>

-----------------------------------------------------------------------------
\* onError: the HIR builder marks what is guarded, and runs the handler when an error was
\* taken.
BuildOnError ==
  /\ On("onError")
  /\ Then(Points(<<RegionBegin>> \o The.body \o <<RegionEnd, If(TakeError, The.other)>>))
  /\ UNCHANGED <<program, layout, current, blocks, nextBlock, nextValue, scope, loops, regions,
                 ensures>>

\* A region is a loop that runs once, so that its exit can be branched to.
BeginRegion ==
  /\ On("region_begin")
  /\ LET first == nextValue
         once == nextValue + 1
         header == nextBlock
         pre == nextBlock + 1
         back == nextBlock + 2
         body == nextBlock + 3
         exit == nextBlock + 4
         entered == Close(Reserve(blocks, header..exit), current,
                          Runtime("__err_enter", NoValue)
                            \o <<Copy(first, Constant(Integer(1)))>>, Jump(header))
         headed == End(entered, header, Branch(Value(first), pre, exit))
         guarded == Close(headed, pre,
                          <<Copy(once, Value(first)), Copy(first, Constant(Integer(0)))>>,
                          Branch(Value(once), body, back))
     IN /\ blocks' = End(guarded, back, Jump(header))
        /\ regions' = Append(regions, [exit |-> exit, depth |-> Len(loops)])
        /\ labels' = Bound(labels, {back}, "else")
        /\ current' = body
  /\ nextBlock' = nextBlock + 5
  /\ nextValue' = nextValue + 2
  /\ Then(<<>>)
  /\ UNCHANGED <<program, merges, scope, loops, ensures>>

EndRegion ==
  /\ On("region_end")
  /\ regions # <<>>
  /\ LET exit == Last(regions).exit
         left == IF Open(blocks, current) THEN End(blocks, current, Jump(exit)) ELSE blocks
     IN blocks' = Emit(left, exit, Runtime("__err_leave", NoValue)) /\ current' = exit
  /\ regions' = Front(regions)
  /\ Then(<<>>)
  /\ UNCHANGED <<program, layout, nextBlock, nextValue, scope, loops, ensures>>

\* ensure_function_termination.
Finish ==
  /\ Doing("finish")
  /\ blocks' = IF Open(blocks, current)
               THEN End(blocks, current, Return(Constant(Undefined))) ELSE blocks
  /\ Then(<<>>)
  /\ UNCHANGED <<program, layout, current, nextBlock, nextValue, scope, loops, regions, ensures>>

Built == agenda = <<>>

LowerNext ==
  \/ BuildDeclaration \/ BuildAssignment \/ BuildPrint \/ BuildExpression \/ AutoReturn
  \/ BuildReturn \/ EndReturn \/ BuildJump \/ BuildEnsure \/ BuildTest
  \/ BuildIf \/ EndThen \/ EndElse
  \/ BuildWhile \/ EndWhile \/ BuildFor \/ EndFor \/ BuildRange \/ EndRange
  \/ BuildOnError \/ BeginRegion \/ EndRegion \/ Finish
=============================================================================
