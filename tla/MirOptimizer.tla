---------------------------- MODULE MirOptimizer ----------------------------
(***************************************************************************)
(* The optimiser of MIR functions.  Up to a number of rounds it folds      *)
(* operations on constants, removes instructions nothing needs, and        *)
(* removes blocks no jump reaches, until a round changes nothing.  Blocks  *)
(* are kept in a hash map, so folding visits them in any order.  An        *)
(* instruction that is removed leaves a gap, so that places stay the same. *)
(***************************************************************************)
EXTENDS MirBlocks

VARIABLES
  level,       \* config.opt_level
  source,      \* history: the blocks as they were built
  pass, round, changed,
  known,       \* ConstantFoldingPass.constant_values
  multi,       \* ConstantFoldingPass.multi_def_values
  todo,        \* folding: the blocks it has not visited
  place,       \* folding: the block and position it is at
  live,        \* DeadCodeEliminationPass.live_values
  frontier,    \* values that have to be marked live
  reached, stack   \* reachable_blocks: visited, stack

foldVars  == <<known, multi, todo, place>>
markVars  == <<live, frontier>>
reachVars == <<reached, stack>>
vars == <<blocks, level, source, pass, round, changed, foldVars, markVars, reachVars>>

Gone == Instr("gone", NoValue, <<>>, "", NoBlock)

\* opt_level 0 does not optimise at all.
Rounds(n) == CASE n = 0 -> 0 [] n = 1 -> 1 [] n = 3 -> 5 [] OTHER -> 3

Idle ==
  /\ source = <<>> /\ pass = "idle" /\ round = 0 /\ changed = TRUE
  /\ known = <<>> /\ multi = {} /\ todo = {} /\ place = <<NoBlock, 1>>
  /\ live = {} /\ frontier = {} /\ reached = {} /\ stack = <<>>

-----------------------------------------------------------------------------
\* Folding has the result of the operation at run time, and leaves one that traps.
NotFolded == [type |-> "none", val |-> 0]

Magnitude(n) == IF n < 0 THEN -n ELSE n
Quotient(a, b) ==
  LET q == Magnitude(a) \div Magnitude(b) IN IF (a < 0) = (b < 0) THEN q ELSE -q

FoldIntegers(op, a, b) ==
  CASE op = "add" -> Integer(a + b)
    [] op = "sub" -> Integer(a - b)
    [] op = "mul" -> Integer(a * b)
    [] op = "div" /\ b # 0 /\ ~(a = -Half /\ b = -1) -> Integer(Quotient(a, b))
    [] op = "rem" /\ b # 0 -> Integer(a - b * Quotient(a, b))
    [] op = "eq" -> Boolean(a = b)
    [] op = "ne" -> Boolean(a # b)
    [] op = "lt" -> Boolean(a < b)
    [] op = "le" -> Boolean(a <= b)
    [] op = "gt" -> Boolean(a > b)
    [] op = "ge" -> Boolean(a >= b)
    [] OTHER -> NotFolded

FoldBooleans(op, a, b) ==
  CASE op = "and" -> Boolean(a = 1 /\ b = 1)
    [] op = "or" -> Boolean(a = 1 \/ b = 1)
    [] op = "eq" -> Boolean(a = b)
    [] op = "ne" -> Boolean(a # b)
    [] OTHER -> NotFolded

FoldBinary(op, l, r) ==
  IF l.type = "int" /\ r.type = "int" THEN FoldIntegers(op, l.val, r.val)
  ELSE IF l.type = "bool" /\ r.type = "bool" THEN FoldBooleans(op, l.val, r.val)
  ELSE NotFolded

FoldUnary(op, o) ==
  IF op = "neg" /\ o.type = "int" THEN Integer(-o.val)
  ELSE IF op = "not" /\ o.type = "bool" THEN Boolean(o.val = 0)
  ELSE NotFolded

Code(bs)        == UNION {Range(bs[b].code) : b \in DOMAIN bs}
ReadByTerms(bs) == UNION {ReadByTerm(bs[b].term) : b \in DOMAIN bs}

\* A value that more than one instruction defines is never a constant.
MultiDefined(bs) ==
  {v \in {i.dest : i \in Code(bs)} \ {NoValue} :
     \E b, c \in DOMAIN bs : \E i \in DOMAIN bs[b].code, j \in DOMAIN bs[c].code :
       <<b, i>> # <<c, j>> /\ bs[b].code[i].dest = v /\ bs[c].code[j].dest = v}

ConstantOf(operand) ==
  IF operand.value = NoValue THEN operand.const
  ELSE IF operand.value \in DOMAIN known \ multi THEN known[operand.value]
  ELSE NotFolded

Folded(instr) ==
  CASE instr.op = "binary" ->
         FoldBinary(instr.sym, ConstantOf(instr.args[1]), ConstantOf(instr.args[2]))
    [] instr.op = "unary" -> FoldUnary(instr.sym, ConstantOf(instr.args[1]))
    [] OTHER -> NotFolded

Learnt(v, const) ==
  IF v = NoValue \/ v \in multi THEN known
  ELSE [w \in DOMAIN known \cup {v} |-> IF w = v THEN const ELSE known[w]]

\* Folding can learn what the instruction defines.
Learns(i) == \/ i.op \in {"unary", "binary"}
             \/ i.op = "copy" /\ i.args[1].value = NoValue

\* optimize: the next round.
StartRound ==
  /\ pass \in {"idle", "end"}
  /\ changed /\ round < Rounds(level)
  /\ source' = IF pass = "idle" THEN blocks ELSE source
  /\ round' = round + 1 /\ changed' = FALSE
  /\ pass' = "fold"
  /\ known' = <<>> /\ multi' = MultiDefined(blocks)
  /\ todo' = DOMAIN blocks /\ place' = <<NoBlock, 1>>
  /\ UNCHANGED <<blocks, level, markVars, reachVars>>

InBlock == place[1] # NoBlock /\ place[2] <= Len(blocks[place[1]].code)

FoldBlock(b) ==
  /\ pass = "fold" /\ ~InBlock
  /\ b \in todo
  /\ todo' = todo \ {b}
  /\ place' = <<b, 1>>
  /\ UNCHANGED <<blocks, level, source, pass, round, changed, known, multi, markVars, reachVars>>

FoldInstruction ==
  /\ pass = "fold" /\ InBlock
  /\ LET b == place[1]
         instr == blocks[b].code[place[2]]
         result == Folded(instr)
     IN \/ /\ result # NotFolded
           /\ blocks' = [blocks EXCEPT ![b].code[place[2]] = Copy(instr.dest, Constant(result))]
           /\ known' = Learnt(instr.dest, result)
           /\ changed' = TRUE
        \/ /\ result = NotFolded
           /\ known' = IF instr.op = "copy" /\ instr.args[1].value = NoValue
                       THEN Learnt(instr.dest, instr.args[1].const) ELSE known
           /\ UNCHANGED <<blocks, changed>>
  /\ place' = <<place[1], place[2] + 1>>
  /\ UNCHANGED <<level, source, pass, round, multi, todo, markVars, reachVars>>

-----------------------------------------------------------------------------
\* What the terminators and the instructions with side effects need, themselves included.
Roots(bs) ==
  ReadByTerms(bs)
  \cup UNION {Reads(i) \cup ({i.dest} \ {NoValue}) : i \in {j \in Code(bs) : HasSideEffects(j)}}

FaultNeeds(bs, v) ==
  LET defs == {i \in Code(bs) : i.dest = v}
  IN IF defs = {} THEN {} ELSE Reads(CHOOSE i \in defs : TRUE)

\* What the definitions of a value read: of every one of them.
Needs(bs, v) == UNION {Reads(i) : i \in {j \in Code(bs) : j.dest = v}}

StartMarking ==
  /\ pass = "fold" /\ ~InBlock /\ todo = {}
  /\ pass' = "mark"
  /\ live' = {} /\ frontier' = Roots(blocks)
  /\ place' = <<NoBlock, 1>>
  /\ UNCHANGED <<blocks, level, source, round, changed, known, multi, todo, reachVars>>

\* mark_live, a breadth at a time.
MarkLive ==
  /\ pass = "mark" /\ frontier # {}
  /\ live' = live \cup frontier
  /\ frontier' = (UNION {Needs(blocks, v) : v \in frontier}) \ live'
  /\ UNCHANGED <<blocks, level, source, pass, round, changed, foldVars, reachVars>>

Dead(instr) == instr.dest # NoValue /\ instr.dest \notin live

RemoveDead ==
  /\ pass = "mark" /\ frontier = {}
  /\ blocks' = [b \in DOMAIN blocks |->
                  [blocks[b] EXCEPT !.code =
                     [i \in DOMAIN @ |-> IF Dead(@[i]) THEN Gone ELSE @[i]]]]
  /\ changed' = (changed \/ \E i \in Code(blocks) : Dead(i))
  /\ pass' = "reach"
  /\ reached' = {} /\ stack' = <<Entry>>
  /\ UNCHANGED <<level, source, round, foldVars, markVars>>

-----------------------------------------------------------------------------
\* The blocks a terminator leads to and that were not visited, as they are pushed.
Pushed(term, visited) ==
  LET To(b) == IF b \in visited THEN <<>> ELSE <<b>>
  IN CASE term.kind = "jump" -> To(term.yes)
       [] term.kind = "branch" -> To(term.yes) \o To(term.no)
       [] OTHER -> <<>>

ReachBlock ==
  /\ pass = "reach" /\ stack # <<>>
  /\ LET b == Last(stack)
     IN /\ reached' = reached \cup {b}
        /\ stack' = IF b \in reached \/ b \notin DOMAIN blocks THEN Front(stack)
                    ELSE Front(stack) \o Pushed(blocks[b].term, reached')
  /\ UNCHANGED <<blocks, level, source, pass, round, changed, foldVars, markVars>>

RemoveUnreachable ==
  /\ pass = "reach" /\ stack = <<>>
  /\ blocks' = [b \in DOMAIN blocks \cap reached |-> blocks[b]]
  /\ changed' = (changed \/ DOMAIN blocks # DOMAIN blocks')
  /\ pass' = "end"
  /\ UNCHANGED <<level, source, round, foldVars, markVars, reachVars>>

Next ==
  \/ StartRound
  \/ \E b \in todo : FoldBlock(b)
  \/ FoldInstruction
  \/ StartMarking \/ MarkLive \/ RemoveDead
  \/ ReachBlock \/ RemoveUnreachable

\* The function is as it goes to code generation.
Optimized == pass \in {"idle", "end"} /\ ~(changed /\ round < Rounds(level))

-----------------------------------------------------------------------------
Init == WellFormed(blocks) /\ level \in 0..3 /\ Idle
Spec == Init /\ [][Next]_vars

TypeOK ==
  /\ level \in 0..3 /\ round \in 0..5 /\ changed \in BOOLEAN
  /\ pass \in {"idle", "fold", "mark", "reach", "end"}
  /\ known \in [DOMAIN known -> Constants] /\ DOMAIN known \subseteq Nat
  /\ multi \subseteq Nat /\ todo \subseteq DOMAIN blocks
  /\ place \in (DOMAIN blocks \cup {NoBlock}) \X (Nat \ {0})
  /\ live \subseteq Nat /\ frontier \subseteq Nat
  /\ reached \subseteq Nat /\ stack \in Seq(Nat)
  /\ blocks \in [DOMAIN blocks -> Block]

\* No pass leaves a jump to a block that is not there, or removes the entry: code generation
\* finds every target of a terminator (optimization.rs, reachable_blocks).
JumpsLand ==
  pass # "idle" => /\ Entry \in DOMAIN blocks
                   /\ \A b \in DOMAIN blocks : Targets(blocks[b].term) \subseteq DOMAIN blocks

\* The values the function still reads.
Read(bs) == ReadByTerms(bs) \cup UNION {Reads(i) : i \in Code(bs)}

\* An instruction with a side effect is never touched; and of a value that is still read no
\* definition is gone, however many there are: a variable that is assigned in a loop would
\* keep an old value, or have none (optimization.rs, mark_live).
NeededKept ==
  pass # "idle" =>
    \A b \in DOMAIN blocks : \A i \in DOMAIN source[b].code :
      LET was == source[b].code[i]
          is  == blocks[b].code[i]
      IN /\ HasSideEffects(was) => is = was
         /\ was.dest \in Read(blocks) => is.dest = was.dest
=============================================================================
