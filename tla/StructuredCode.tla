--------------------------- MODULE StructuredCode ---------------------------
(***************************************************************************)
(* From the blocks of a function to WebAssembly, which has no jumps, only  *)
(* blocks, loops and ifs that one branches out of.  The generator walks    *)
(* the flow graph once, emits each block at most once, and counts how deep *)
(* it is; a break, a continue or a raised error becomes a branch by so     *)
(* many levels.                                                            *)
(***************************************************************************)
EXTENDS ControlFlow

\* An instruction of WebAssembly: an instruction of MIR, the beginning of a construct or its
\* end, or a branch by n levels.
Item(is, n, on, instr) == [is |-> is, n |-> n, on |-> on, instr |-> instr]
NoInstr        == Instr("none", NoValue, <<>>, "", NoBlock)
Word(is)       == Item(is, 0, Constant(Undefined), NoInstr)
Straight(instr) == Item("do", 0, Constant(Undefined), instr)
IfTrue(on)     == Item("if", 0, on, NoInstr)
IfPending      == Word("ifPending")
Br(n)          == Item("br", n, Constant(Undefined), NoInstr)
BrUnless(on)   == Item("brUnless", 1, on, NoInstr)
ReturnItem(on) == Item("return", 0, on, NoInstr)

\* The generator is a recursive descent: what it has emitted, the blocks it is done with, how
\* deep it is, the loops and the merges of ifs that are open, whether it has given up, and
\* what its pending calls still have to do, the innermost first.
Task(do, block, with) == [do |-> do, block |-> block, with |-> with]
Structured(b) == Task("structured", b, {})
Within(b)     == Task("within", b, {})
Started == [items |-> <<>>, done |-> {}, depth |-> 0, loops |-> <<>>, outer |-> <<>>,
            failed |-> FALSE, todo |-> <<Structured(Entry)>>]

Before(g, tasks) == [g EXCEPT !.todo = tasks \o @]

Put(g, item)   == [g EXCEPT !.items = Append(@, item)]
Deeper(g, item) == [Put(g, item) EXCEPT !.depth = @ + 1]
Closed(g)      == [Put(g, Word("end")) EXCEPT !.depth = @ - 1]

\* The innermost loop that satisfies a condition.
Innermost(loops, Is(_)) == LET at == {i \in DOMAIN loops : Is(loops[i])}
                           IN IF at = {} THEN <<>> ELSE <<loops[Max(at)]>>

\* Inside the if that tests for a pending error.
CheckDepth(depth, loop) == depth + 1 - loop.depth

\* An error that is pending leaves for the end of the innermost region, or the function.
EmitInstruction(g, instr) ==
  LET region == Innermost(g.loops, LAMBDA l : l.exit = instr.exit)
      leave == IF instr.exit = NoBlock THEN Word("unwind") ELSE Br(CheckDepth(g.depth, region[1]))
  IN IF instr.op # "check" THEN Put(g, Straight(instr))
     ELSE IF instr.exit # NoBlock /\ region = <<>> THEN [g EXCEPT !.failed = TRUE]
     ELSE [g EXCEPT !.items = @ \o <<IfPending, leave, Word("end")>>]
EmitBlock(g, code) == FoldLeft(EmitInstruction, g, code)

-----------------------------------------------------------------------------
\* Whether the if a branch becomes has an else.
HasElse(f, g, b, merge) ==
  LET t == f.blocks[b].term
  IN IF merge # NoBlock THEN merge # t.no ELSE ~FollowsIf(f, g.loops, t.yes, t.no)

\* What follows the if, which nothing inside may take for its own.
PendingMerge(f, g, b, merge, else) ==
  LET t == f.blocks[b].term
      Meets(c) == EventualContinuation(f, g.loops, c)
  IN IF merge # NoBlock THEN merge ELSE IF ~else THEN t.no
     ELSE IfMerge(f, g.loops, Meets(t.yes), Meets(t.no))

ChoiceWith(f, g, b, merge, else) ==
  [merge |-> merge, else |-> else, pending |-> PendingMerge(f, g, b, merge, else),
   yesReturns |-> DirectlyReturns(f, f.blocks[b].term.yes),
   noReturns |-> else /\ DirectlyReturns(f, f.blocks[b].term.no)]
Choice(f, g, b) == LET merge == RecordedMerge(f, b)
                   IN ChoiceWith(f, g, b, merge, HasElse(f, g, b, merge))

\* The if is open, and what is to come behind it is reserved.
OpenIf(f, g, b, choice) ==
  [Deeper(g, IfTrue(f.blocks[b].term.on)) EXCEPT
     !.outer = IF choice.pending \in g.done \cup {NoBlock} THEN @ ELSE Append(@, choice.pending)]
\* The arms of the if that ends block b, and then what is behind it.
EmitArms(f, g, b, choice, withElse, behind) ==
  LET t == f.blocks[b].term
  IN Before(OpenIf(f, g, b, choice),
            <<Within(t.yes)>>
              \o (IF withElse THEN <<Task("else", b, {}), Within(t.no)>> ELSE <<>>)
              \o <<Task("endIf", b, g.outer), Task(behind, b, choice)>>)

\* Where an arm goes on, unless it returns or ends an iteration.
ArmEnd(f, g, arm) == IF Ending(f, arm) = "jump" THEN f.blocks[arm].term.yes
                     ELSE IF Ending(f, arm) = "branch" THEN EventualContinuation(f, g.loops, arm)
                     ELSE NoBlock
Onward(g, next) == IF EndsIteration(g.loops, next) THEN NoBlock ELSE next

\* The block behind both arms: the one the other leads to.
Behind(f, g, yes, no) ==
  LET merge == IfMerge(f, g.loops, yes, no)
  IN IF NoBlock \in {yes, no} \/ yes = no THEN Max({yes, no})
     ELSE IF FlowsTo(f, g.loops, IF merge = yes THEN no ELSE yes, merge) THEN merge
     ELSE NoBlock

\* What comes behind an if inside a construct, unless an if around it has it as its merge.
InlinedBehind(f, g, b, choice) ==
  LET t == f.blocks[b].term
      End(arm, returns) == IF returns THEN NoBlock ELSE Onward(g, ArmEnd(f, g, arm))
  IN IF choice.merge # NoBlock THEN choice.merge
     ELSE IF ~choice.else THEN (IF IsLoopExit(f, t.no) THEN NoBlock ELSE t.no)
     ELSE Behind(f, g, End(t.yes, choice.yesReturns), End(t.no, choice.noReturns))

\* What comes behind an if that is not inside a construct.
EmittedBehind(f, g, b, choice) ==
  LET t == f.blocks[b].term
      Meets(c, returns) == IF returns THEN NoBlock ELSE EventualContinuation(f, g.loops, c)
  IN IF choice.merge # NoBlock THEN choice.merge ELSE IF ~choice.else THEN t.no
     ELSE IfMerge(f, g.loops, Meets(t.yes, choice.yesReturns), Meets(t.no, choice.noReturns))

\* Nothing is behind an if whose arms return; a merge nobody goes to is not emitted.
Sealed(f, choice) ==
  /\ choice.yesReturns /\ choice.noReturns
  /\ choice.merge # NoBlock => ~HasIncoming(f, choice.merge)
Entered(f, choice, b) == b # NoBlock /\ (choice.merge # NoBlock => HasIncoming(f, b))

-----------------------------------------------------------------------------
\* A jump in a construct is a branch out of it: to behind a loop, to its beginning, or to
\* behind its body; or the way into a loop.  Where else it goes, what is around emits.
EmitJump(f, g, target) ==
  LET exits == Innermost(g.loops, LAMBDA l : l.exit = target)
      turns == Innermost(g.loops, LAMBDA l : target \in {l.header, l.cont})
  IN IF exits # <<>> THEN Put(g, Br(g.depth - exits[1].depth))
     ELSE IF turns # <<>>
     THEN Put(g, Br(g.depth - (IF target = turns[1].header THEN turns[1].depth + 1
                               ELSE turns[1].bodyDepth)))
     ELSE IF target \in f.headers THEN Before(g, <<Structured(target)>>)
     ELSE g

EmitNestedIf(f, g, b, choice) ==
  LET loopExit == choice.merge = NoBlock /\ IsLoopExit(f, f.blocks[b].term.no)
  IN EmitArms(f, g, b, choice, choice.else /\ ~loopExit, "behind nested if")

BehindNestedIf(f, g, b, choice) ==
  LET next == InlinedBehind(f, g, b, choice)
  IN IF Sealed(f, choice) THEN Put(g, Word("unreachable"))
     ELSE IF Entered(f, choice, next) /\ next \notin Range(g.outer)
     THEN Before(g, <<Within(next)>>)
     ELSE g

\* generate_branch_block: a block in a construct.
EmitBranchEnd(f, g, b) ==
  CASE Ending(f, b) = "return" -> Put(g, ReturnItem(f.blocks[b].term.on))
    [] Ending(f, b) = "trap" -> Put(g, Word("unreachable"))
    [] Ending(f, b) = "jump" -> EmitJump(f, g, f.blocks[b].term.yes)
    [] Ending(f, b) = "branch" -> EmitNestedIf(f, g, b, Choice(f, g, b))
    [] OTHER -> g
BranchBlock(f, g, b) ==
  IF b \in g.done THEN g
  ELSE EmitBranchEnd(f, EmitBlock([g EXCEPT !.done = @ \cup {b}], f.blocks[b].code), b)

FaultBodyDepth(depth) == depth + 1

\* How deep the body is that a loop with an increment has in a block of its own.
BodyDepth(depth) == depth + 2

\* A loop in a block: the header is inside and leaves the block when the condition is over.
OpenLoop(f, g, b, continue) ==
  LET t == f.blocks[b].term
      loop == [exit |-> t.no, depth |-> g.depth + 1, header |-> b, cont |-> continue,
               bodyDepth |-> BodyDepth(g.depth + 1)]
      opened == [Deeper(Deeper(g, Word("block")), Word("loop")) EXCEPT !.loops = Append(@, loop)]
  IN Put(EmitBlock(opened, f.blocks[b].code), BrUnless(t.on))

\* A continue of an iteration leaves the body, and the increment runs.
LoopBody(g, body, continue) ==
  IF continue = NoBlock THEN Before(g, <<Within(body)>>)
  ELSE Before([Deeper(g, Word("block")) EXCEPT !.done = @ \cup {continue}],
              <<Within(body), Task("endBody", continue, g.done)>>)
LoopStep(f, g, inc) ==
  IF inc \in g.done \cup {NoBlock} THEN g
  ELSE [EmitBlock(g, f.blocks[inc].code) EXCEPT !.done = @ \cup {inc}]
LoopTurn(f, g, b, inc) ==
  LET body == f.blocks[b].term.yes
  IN IF inc # NoBlock \/ (Ending(f, body) = "jump" /\ f.blocks[body].term.yes = b)
     THEN Put(g, Br(0)) ELSE g
EndLoop(g, loops) == [Closed(Closed(g)) EXCEPT !.loops = loops]

EmitLoop(f, g, b) ==
  LET t == f.blocks[b].term
      inc == IncrementBlock(f, t.yes, b)
      continue == IF inc # NoBlock /\ Label(f, inc) = "increment" THEN inc ELSE NoBlock
      ends == <<Task("turn", b, inc), Task("endLoop", b, g.loops), Within(t.no)>>
  IN LoopBody(OpenLoop(f, Before(g, ends), b, continue), t.yes, continue)

EmitIf(f, g, b, choice) == EmitArms(f, g, b, choice, choice.else, "behind if")

BehindIf(f, g, b, choice) ==
  LET next == EmittedBehind(f, g, b, choice)
  IN IF Sealed(f, choice) THEN Put(g, Word("unreachable"))
     ELSE IF Entered(f, choice, next) THEN Before(g, <<Structured(next)>>)
     ELSE g

\* generate_structured_blocks: a block that is in no construct but loops.
EmitEnd(f, g, b) ==
  CASE Ending(f, b) = "return" -> Put(g, ReturnItem(f.blocks[b].term.on))
    [] Ending(f, b) = "trap" -> Put(g, Word("unreachable"))
    [] Ending(f, b) = "jump" -> Before(g, <<Structured(f.blocks[b].term.yes)>>)
    [] Ending(f, b) = "branch" /\ b \in f.headers -> EmitLoop(f, g, b)
    [] Ending(f, b) = "branch" /\ b \notin f.headers -> EmitIf(f, g, b, Choice(f, g, b))
    [] OTHER -> g
StructuredBlocks(f, g, b) ==
  IF b \in g.done THEN g
  ELSE LET entered == [g EXCEPT !.done = @ \cup {b}]
       IN EmitEnd(f, IF b \in f.headers THEN entered ELSE EmitBlock(entered, f.blocks[b].code), b)

-----------------------------------------------------------------------------
EmitNext(f, g, task) ==
  LET b == task.block
  IN CASE task.do = "structured"       -> StructuredBlocks(f, g, b)
       [] task.do = "within"           -> BranchBlock(f, g, b)
       [] task.do = "else"             -> Put(g, Word("else"))
       [] task.do = "endIf"            -> [Closed(g) EXCEPT !.outer = task.with]
       [] task.do = "behind if"        -> BehindIf(f, g, b, task.with)
       [] task.do = "behind nested if" -> BehindNestedIf(f, g, b, task.with)
       [] task.do = "endBody"          -> [Closed(g) EXCEPT !.done = IF b \in task.with THEN @
                                                                     ELSE @ \ {b}]
       [] task.do = "turn"             -> LoopTurn(f, LoopStep(f, g, task.with), b, task.with)
       [] task.do = "endLoop"          -> EndLoop(g, task.with)

RECURSIVE EmitAll(_, _)
EmitAll(f, g) ==
  IF g.todo = <<>> THEN g
  ELSE EmitAll(f, EmitNext(f, [g EXCEPT !.todo = Tail(@)], Head(g.todo)))

\* generate_function: a function that returns a value never runs off its end.
Generated(f, void) ==
  LET g == EmitAll(f, Started)
      seals == ~void /\ (g.items = <<>> \/ Last(g.items).is \notin {"return", "unreachable"})
  IN IF seals THEN Put(g, Word("unreachable")) ELSE g

=============================================================================
