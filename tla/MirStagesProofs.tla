-------------------------- MODULE MirStagesProofs --------------------------
(***************************************************************************)
(* The two stages of the MIR pipeline.  The optimiser keeps a function     *)
(* well formed: its jumps land, whatever blocks a round removes, and every *)
(* definition of a value that is still read stays.  What makes it so is    *)
(* that marking follows every definition of a live value (Marked), and     *)
(* that the search for reachable blocks follows both targets of a branch   *)
(* (Searched).  And what it makes of a function shows what the function    *)
(* showed: each instruction is what was built, or gone and not missed, or  *)
(* the constant it comes to (Justified), and the runs of both go on in     *)
(* step.  What the lowering builds is a function the optimiser can work    *)
(* on.  The builder leaves jumps to blocks that it has only numbered, and  *)
(* adds to the first instruction of a block it left long before; its       *)
(* invariant (LowerInv) says which points of the agenda will make that     *)
(* good.  The levels of blocks and the plan of the agenda, which           *)
(* MirRegionsProofs is about, are defined here, with what holds of them    *)
(* whatever a step does.                                                   *)
(***************************************************************************)
EXTENDS MirStages, SequenceTheorems, WellFoundedInduction, FiniteSetTheorems, TLAPS

-----------------------------------------------------------------------------
\* The inductive invariant.  Between folding and the next round no block is being folded.
Still == pass # "fold" => todo = {} /\ place = <<NoBlock, 1>>

\* Every block was built, and has the same number of places as when it was.
SameShape ==
  pass # "idle" =>
    /\ DOMAIN blocks \subseteq DOMAIN source
    /\ \A b \in DOMAIN blocks : DOMAIN blocks[b].code = DOMAIN source[b].code

\* What a live value needs is live or about to be.
Marked ==
  pass = "mark" =>
    /\ Roots(blocks) \subseteq live \cup frontier
    /\ \A v \in live : Needs(blocks, v) \subseteq live \cup frontier

\* Where a reached block leads is reached or on the stack.
Searched ==
  pass = "reach" =>
    /\ Entry \in reached \cup Range(stack)
    /\ \A b \in reached \cap DOMAIN blocks : Targets(blocks[b].term) \subseteq reached \cup Range(stack)

IInv == TypeOK /\ WellFormed(blocks) /\ Still /\ SameShape /\ NeededKept /\ Marked /\ Searched

-----------------------------------------------------------------------------
\* What folding comes to is a constant.
LEMMA Wraps == ASSUME NEW n \in Int PROVE Integer(n) \in Constants
<1>1. Half \in Nat \ {0}
  BY HalfAssumption DEF HalfAssumption
<1>2. (n + Half) % (2 * Half) \in 0..(2 * Half - 1)
  BY <1>1
<1>3. Wrap(n) \in -Half..(Half - 1)
  BY <1>1, <1>2 DEF Wrap
<1> QED
  BY <1>3 DEF Integer, Constants

LEMMA Booleans == \A b \in BOOLEAN : Boolean(b) \in Constants
  BY DEF Boolean, Constants

LEMMA Quotients ==
  ASSUME NEW a \in Int, NEW b \in Int, b # 0
  PROVE  Quotient(a, b) \in Int
<1>1. Magnitude(a) \in Nat /\ Magnitude(b) \in Nat \ {0}
  BY DEF Magnitude
<1>2. Magnitude(a) \div Magnitude(b) \in Int
  BY <1>1
<1> QED
  BY <1>2 DEF Quotient

Foldable == Constants \cup {NotFolded}

LEMMA IntegersFold ==
  ASSUME NEW op, NEW a \in Int, NEW b \in Int
  PROVE  FoldIntegers(op, a, b) \in Foldable
<1>1. \A n \in Int : Integer(n) \in Foldable
  BY Wraps DEF Foldable
<1>2. NotFolded \in Foldable
  BY DEF Foldable
<1>3. Integer(a + b) \in Foldable /\ Integer(a - b) \in Foldable /\ Integer(a * b) \in Foldable
  BY <1>1
<1>4. ASSUME b # 0
      PROVE  Integer(Quotient(a, b)) \in Foldable /\ Integer(a - b * Quotient(a, b)) \in Foldable
  <2>1. Quotient(a, b) \in Int
    BY <1>4, Quotients
  <2>2. b * Quotient(a, b) \in Int
    BY <2>1
  <2> QED
    BY <1>1, <2>1, <2>2
<1>5. /\ Boolean(a = b) \in Foldable /\ Boolean(a # b) \in Foldable
      /\ Boolean(a < b) \in Foldable /\ Boolean(a <= b) \in Foldable
      /\ Boolean(a > b) \in Foldable /\ Boolean(a >= b) \in Foldable
  BY DEF Boolean, Foldable, Constants
<1> QED
  BY <1>2, <1>3, <1>4, <1>5 DEF FoldIntegers

LEMMA BooleansFold ==
  ASSUME NEW op, NEW a, NEW b
  PROVE  FoldBooleans(op, a, b) \in Foldable
<1>1. \A c \in BOOLEAN : Boolean(c) \in Foldable
  BY Booleans DEF Foldable
<1>2. NotFolded \in Foldable
  BY DEF Foldable
<1>3. /\ Boolean(a = 1 /\ b = 1) \in Foldable /\ Boolean(a = 1 \/ b = 1) \in Foldable
      /\ Boolean(a = b) \in Foldable /\ Boolean(a # b) \in Foldable
  BY <1>1
<1> QED
  BY <1>2, <1>3 DEF FoldBooleans

LEMMA BinaryFolds ==
  ASSUME NEW op, NEW l \in Foldable, NEW r \in Foldable
  PROVE  FoldBinary(op, l, r) \in Foldable
<1>1. HalfAssumption
  BY HalfAssumption
<1>2. \A c \in Foldable : c.type = "int" => c.val \in Int
  BY <1>1 DEF Foldable, Constants, NotFolded, HalfAssumption
<1>3. CASE l.type = "int" /\ r.type = "int"
  BY <1>2, <1>3, IntegersFold DEF FoldBinary
<1>4. CASE ~(l.type = "int" /\ r.type = "int") /\ l.type = "bool" /\ r.type = "bool"
  BY <1>4, BooleansFold DEF FoldBinary
<1>5. CASE ~(l.type = "int" /\ r.type = "int") /\ ~(l.type = "bool" /\ r.type = "bool")
  BY <1>5 DEF FoldBinary, Foldable
<1> QED
  BY <1>3, <1>4, <1>5

LEMMA UnaryFolds ==
  ASSUME NEW op, NEW o \in Foldable
  PROVE  FoldUnary(op, o) \in Foldable
<1>1. HalfAssumption
  BY HalfAssumption
<1>2. o.type = "int" => -o.val \in Int
  BY <1>1 DEF Foldable, Constants, NotFolded, HalfAssumption
<1>3. o.type = "int" => Integer(-o.val) \in Foldable
  BY <1>2, Wraps DEF Foldable
<1>4. Boolean(o.val = 0) \in Foldable
  BY Booleans DEF Foldable
<1>5. NotFolded \in Foldable
  BY DEF Foldable
<1> QED
  BY <1>3, <1>4, <1>5 DEF FoldUnary

LEMMA InstructionFolds ==
  ASSUME NEW instr \in Instruction,
         instr.op = "unary" => Len(instr.args) = 1, instr.op = "binary" => Len(instr.args) = 2,
         known \in [DOMAIN known -> Constants]
  PROVE  Folded(instr) \in Foldable
<1>1. \A o \in Operand : ConstantOf(o) \in Foldable
  BY DEF ConstantOf, Operand, Foldable
<1>2. \A i \in 1..Len(instr.args) : instr.args[i] \in Operand
  BY DEF Instruction
<1>3. CASE instr.op = "binary"
  <2>1. ConstantOf(instr.args[1]) \in Foldable /\ ConstantOf(instr.args[2]) \in Foldable
    BY <1>1, <1>2, <1>3
  <2> QED
    BY <1>3, <2>1, BinaryFolds DEF Folded
<1>4. CASE instr.op = "unary"
  <2>1. ConstantOf(instr.args[1]) \in Foldable
    BY <1>1, <1>2, <1>4
  <2> QED
    BY <1>4, <2>1, UnaryFolds DEF Folded
<1>5. CASE instr.op \notin {"binary", "unary"}
  BY <1>5 DEF Folded, Foldable
<1> QED
  BY <1>3, <1>4, <1>5

-----------------------------------------------------------------------------
\* What it is to be read, a root, or needed.
LEMMA InCode ==
  ASSUME NEW bs, NEW instr
  PROVE  instr \in Code(bs) <=> \E b \in DOMAIN bs : \E i \in DOMAIN bs[b].code : instr = bs[b].code[i]
  BY DEF Code, Range

LEMMA InReadByTerms ==
  ASSUME NEW bs, NEW v
  PROVE  v \in ReadByTerms(bs) <=> \E b \in DOMAIN bs : v \in ReadByTerm(bs[b].term)
  BY DEF ReadByTerms

LEMMA InRead ==
  ASSUME NEW bs, NEW v
  PROVE  v \in Read(bs) <=> \E b \in DOMAIN bs : \/ v \in ReadByTerm(bs[b].term)
                                                \/ \E i \in DOMAIN bs[b].code : v \in Reads(bs[b].code[i])
  BY InCode, InReadByTerms DEF Read

LEMMA InRoots ==
  ASSUME NEW bs, NEW v
  PROVE  v \in Roots(bs) <=>
           \E b \in DOMAIN bs :
             \/ v \in ReadByTerm(bs[b].term)
             \/ \E i \in DOMAIN bs[b].code :
                  /\ HasSideEffects(bs[b].code[i])
                  /\ v \in Reads(bs[b].code[i]) \cup ({bs[b].code[i].dest} \ {NoValue})
  BY InCode, InReadByTerms DEF Roots

LEMMA InNeeds ==
  ASSUME NEW bs, NEW d, NEW v
  PROVE  v \in Needs(bs, d) <=>
           \E b \in DOMAIN bs : \E i \in DOMAIN bs[b].code :
             bs[b].code[i].dest = d /\ v \in Reads(bs[b].code[i])
  BY InCode DEF Needs

LEMMA ReadsAreValues ==
  ASSUME NEW bs, bs \in [DOMAIN bs -> Block]
  PROVE  /\ \A b \in DOMAIN bs : /\ ReadByTerm(bs[b].term) \subseteq Nat
                                 /\ \A i \in DOMAIN bs[b].code : /\ bs[b].code[i] \in Instruction
                                                                 /\ Reads(bs[b].code[i]) \subseteq Nat
         /\ Roots(bs) \subseteq Nat
         /\ \A d : Needs(bs, d) \subseteq Nat
<1>1. ASSUME NEW b \in DOMAIN bs
      PROVE  /\ ReadByTerm(bs[b].term) \subseteq Nat
             /\ \A i \in DOMAIN bs[b].code : /\ bs[b].code[i] \in Instruction
                                             /\ Reads(bs[b].code[i]) \subseteq Nat
  <2>1. bs[b] \in Block
    BY <1>1
  <2>2. ReadByTerm(bs[b].term) \subseteq Nat
    BY <2>1 DEF Block, Terminator, Operand, ReadByTerm
  <2>3. \A i \in DOMAIN bs[b].code : bs[b].code[i] \in Instruction
    BY <2>1 DEF Block
  <2>4. ASSUME NEW instr \in Instruction
        PROVE  Reads(instr) \subseteq Nat
    <3>1. \A i \in DOMAIN instr.args : instr.args[i] \in Operand
      BY DEF Instruction
    <3> QED
      BY <3>1 DEF Operand, Reads
  <2> QED
    BY <2>2, <2>3, <2>4
<1>2. ASSUME NEW v \in Roots(bs)
      PROVE  v \in Nat
  <2>1. PICK b \in DOMAIN bs :
             \/ v \in ReadByTerm(bs[b].term)
             \/ \E i \in DOMAIN bs[b].code :
                  /\ HasSideEffects(bs[b].code[i])
                  /\ v \in Reads(bs[b].code[i]) \cup ({bs[b].code[i].dest} \ {NoValue})
    BY <1>2, InRoots
  <2> QED
    BY <1>1, <2>1 DEF Instruction
<1>3. ASSUME NEW d, NEW v \in Needs(bs, d)
      PROVE  v \in Nat
  BY <1>1, <1>3, InNeeds
<1> QED
  BY <1>1, <1>2, <1>3

\* What a step leaves of each instruction.
Shrunk ==
  /\ DOMAIN blocks' \subseteq DOMAIN blocks
  /\ \A b \in DOMAIN blocks' :
       /\ blocks'[b].term = blocks[b].term
       /\ DOMAIN blocks'[b].code = DOMAIN blocks[b].code
       /\ \A i \in DOMAIN blocks[b].code :
            \/ blocks'[b].code[i] = blocks[b].code[i]
            \/ /\ ~HasSideEffects(blocks[b].code[i])
               /\ blocks'[b].code[i].dest = blocks[b].code[i].dest
               /\ blocks'[b].code[i].op = "copy" /\ Len(blocks'[b].code[i].args) = 1
               /\ Reads(blocks'[b].code[i]) = {}
            \/ /\ ~HasSideEffects(blocks[b].code[i])
               /\ blocks'[b].code[i] = Gone
               /\ blocks[b].code[i].dest \notin Read(blocks')

LEMMA GoneReadsNothing == Reads(Gone) = {}
  BY DEF Gone, Instr, Reads

LEMMA ShrinkReadsLess ==
  ASSUME Shrunk
  PROVE  Read(blocks') \subseteq Read(blocks)
<1> SUFFICES ASSUME NEW v \in Read(blocks')
             PROVE  v \in Read(blocks)
  OBVIOUS
<1>1. PICK b \in DOMAIN blocks' : \/ v \in ReadByTerm(blocks'[b].term)
                                  \/ \E i \in DOMAIN blocks'[b].code : v \in Reads(blocks'[b].code[i])
  BY InRead
<1>2. CASE v \in ReadByTerm(blocks'[b].term)
  BY <1>1, <1>2, InRead DEF Shrunk
<1>3. ASSUME NEW i \in DOMAIN blocks'[b].code, v \in Reads(blocks'[b].code[i])
      PROVE  v \in Read(blocks)
  <2>1. i \in DOMAIN blocks[b].code /\ b \in DOMAIN blocks
    BY <1>1, <1>3 DEF Shrunk
  <2>2. Reads(blocks'[b].code[i]) # {}
    BY <1>3
  <2>3. blocks'[b].code[i] = blocks[b].code[i]
    BY <1>1, <2>1, <2>2, GoneReadsNothing DEF Shrunk
  <2> QED
    BY <1>3, <2>1, <2>3, InRead
<1> QED
  BY <1>1, <1>2, <1>3

LEMMA ShrinkKeeps ==
  ASSUME WellFormed(blocks), SameShape, NeededKept, Shrunk,
         pass # "idle", source' = source,
         blocks' \in [DOMAIN blocks' -> Block], Entry \in DOMAIN blocks',
         \A b \in DOMAIN blocks' : Targets(blocks[b].term) \subseteq DOMAIN blocks'
  PROVE  WellFormed(blocks)' /\ SameShape' /\ NeededKept'
<1>1. WellFormed(blocks)'
  <2>1. DOMAIN blocks' \subseteq Nat
    BY DEF WellFormed, Shrunk
  <2>2. \A b \in DOMAIN blocks' : Targets(blocks'[b].term) \subseteq DOMAIN blocks'
    BY DEF Shrunk
  <2>3. ASSUME NEW b \in DOMAIN blocks', NEW i \in DOMAIN blocks'[b].code
        PROVE  LET new == blocks'[b].code[i]
               IN /\ new.op \in {"copy", "unary", "load"} => Len(new.args) = 1
                  /\ new.op \in {"binary", "address"} => Len(new.args) = 2
                  /\ new.op = "select" => Len(new.args) = 3
                  /\ new.dest = NoValue => HasSideEffects(new) \/ Reads(new) = {}
    <3>1. i \in DOMAIN blocks[b].code /\ b \in DOMAIN blocks
      BY <2>3 DEF Shrunk
    <3>2. /\ blocks[b].code[i].op \in {"copy", "unary", "load"} => Len(blocks[b].code[i].args) = 1
          /\ blocks[b].code[i].op \in {"binary", "address"} => Len(blocks[b].code[i].args) = 2
          /\ blocks[b].code[i].op = "select" => Len(blocks[b].code[i].args) = 3
          /\ blocks[b].code[i].dest = NoValue =>
               HasSideEffects(blocks[b].code[i]) \/ Reads(blocks[b].code[i]) = {}
      BY <3>1 DEF WellFormed, Range
    <3>3. CASE blocks'[b].code[i] = blocks[b].code[i]
      BY <3>2, <3>3
    <3>4. CASE blocks'[b].code[i] = Gone
      <4>1. Gone.op = "gone"
        BY DEF Gone, Instr
      <4> QED
        BY <3>4, <4>1, GoneReadsNothing
    <3>5. CASE blocks'[b].code[i].op = "copy" /\ Len(blocks'[b].code[i].args) = 1
                 /\ Reads(blocks'[b].code[i]) = {}
      BY <3>5
    <3> QED
      BY <2>3, <3>1, <3>3, <3>4, <3>5 DEF Shrunk
  <2>4. \A b \in DOMAIN blocks' : \A new \in Range(blocks'[b].code) :
          /\ new.op \in {"copy", "unary", "load"} => Len(new.args) = 1
          /\ new.op \in {"binary", "address"} => Len(new.args) = 2
          /\ new.op = "select" => Len(new.args) = 3
          /\ new.dest = NoValue => HasSideEffects(new) \/ Reads(new) = {}
    <3> SUFFICES ASSUME NEW b \in DOMAIN blocks', NEW new \in Range(blocks'[b].code)
                 PROVE  /\ new.op \in {"copy", "unary", "load"} => Len(new.args) = 1
                        /\ new.op \in {"binary", "address"} => Len(new.args) = 2
                        /\ new.op = "select" => Len(new.args) = 3
                        /\ new.dest = NoValue => HasSideEffects(new) \/ Reads(new) = {}
      OBVIOUS
    <3>1. PICK i \in DOMAIN blocks'[b].code : new = blocks'[b].code[i]
      BY Zenon DEF Range
    <3> QED
      BY <2>3, <3>1
  <2> QED
    BY <2>1, <2>2, <2>4 DEF WellFormed
<1>2. SameShape'
  BY DEF SameShape, Shrunk
<1>3. NeededKept'
  <2> SUFFICES ASSUME NEW b \in DOMAIN blocks', NEW i \in DOMAIN source[b].code
               PROVE  /\ HasSideEffects(source[b].code[i]) =>
                           blocks'[b].code[i] = source[b].code[i]
                      /\ source[b].code[i].dest \in Read(blocks') =>
                           blocks'[b].code[i].dest = source[b].code[i].dest
    BY DEF NeededKept
  <2>1. b \in DOMAIN blocks /\ i \in DOMAIN blocks[b].code
    BY DEF Shrunk, SameShape
  <2>2. /\ HasSideEffects(source[b].code[i]) => blocks[b].code[i] = source[b].code[i]
        /\ source[b].code[i].dest \in Read(blocks) => blocks[b].code[i].dest = source[b].code[i].dest
    BY <2>1 DEF NeededKept
  <2>3. ASSUME HasSideEffects(source[b].code[i])
        PROVE  blocks'[b].code[i] = source[b].code[i]
    BY <2>1, <2>2, <2>3 DEF Shrunk
  <2>4. ASSUME source[b].code[i].dest \in Read(blocks')
        PROVE  blocks'[b].code[i].dest = source[b].code[i].dest
    <3>1. blocks[b].code[i].dest = source[b].code[i].dest
      BY <2>2, <2>4, ShrinkReadsLess
    <3> QED
      BY <2>1, <2>4, <3>1 DEF Shrunk
  <2> QED
    BY <2>3, <2>4
<1> QED
  BY <1>1, <1>2, <1>3

-----------------------------------------------------------------------------
LEMMA RoundBound == \A n \in 0..3 : Rounds(n) \in 0..5
  BY DEF Rounds

LEMMA BlocksStand ==
  ASSUME IInv, UNCHANGED <<blocks, source>>, pass # "idle", pass' # "idle"
  PROVE  WellFormed(blocks)' /\ SameShape' /\ NeededKept'
<1>1. WellFormed(blocks)'
  BY DEF IInv, WellFormed
<1>2. SameShape'
  BY DEF IInv, SameShape
<1>3. NeededKept'
  BY DEF IInv, NeededKept
<1> QED
  BY <1>1, <1>2, <1>3

LEMMA StartRoundKeeps == ASSUME IInv, StartRound PROVE IInv'
<1>1. WellFormed(blocks)'
  BY DEF IInv, StartRound, WellFormed
<1>2. TypeOK'
  <2>1. round' \in 0..5
    BY RoundBound DEF IInv, TypeOK, StartRound
  <2>2. multi' \subseteq Nat
    <3>1. \A i \in Code(blocks) : i.dest \in Nat
      BY InCode, ReadsAreValues DEF IInv, WellFormed, Instruction
    <3> QED
      BY <3>1 DEF StartRound, MultiDefined
  <2>3. known' \in [DOMAIN known' -> Constants] /\ DOMAIN known' \subseteq Nat
    BY DEF StartRound
  <2>4. place' \in (DOMAIN blocks' \cup {NoBlock}) \X (Nat \ {0})
    BY DEF StartRound
  <2>5. /\ level' \in 0..3 /\ changed' \in BOOLEAN
        /\ pass' \in {"idle", "fold", "mark", "reach", "end"}
        /\ todo' \subseteq DOMAIN blocks'
        /\ live' \subseteq Nat /\ frontier' \subseteq Nat
        /\ reached' \subseteq Nat /\ stack' \in Seq(Nat)
        /\ blocks' \in [DOMAIN blocks' -> Block]
    BY DEF IInv, TypeOK, StartRound, markVars, reachVars
  <2> QED
    BY <2>1, <2>2, <2>3, <2>4, <2>5 DEF TypeOK
<1>3. CASE pass = "idle"
  <2>1. source' = blocks /\ blocks' = blocks
    BY <1>3 DEF StartRound
  <2>2. SameShape' /\ NeededKept'
    BY <2>1 DEF SameShape, NeededKept
  <2> QED
    BY <1>1, <1>2, <2>2 DEF StartRound, IInv, Still, Marked, Searched
<1>4. CASE pass = "end"
  <2>1. SameShape' /\ NeededKept'
    BY <1>4, BlocksStand DEF StartRound
  <2> QED
    BY <1>1, <1>2, <2>1 DEF StartRound, IInv, Still, Marked, Searched
<1> QED
  BY <1>3, <1>4 DEF StartRound

LEMMA FoldBlockKeeps == ASSUME IInv, NEW b \in todo, FoldBlock(b) PROVE IInv'
<1>1. TypeOK'
  BY DEF IInv, TypeOK, FoldBlock, markVars, reachVars
<1>2. WellFormed(blocks)' /\ SameShape' /\ NeededKept'
  BY BlocksStand DEF FoldBlock
<1> QED
  BY <1>1, <1>2 DEF IInv, FoldBlock, Still, Marked, Searched

LEMMA Learning ==
  ASSUME known \in [DOMAIN known -> Constants], DOMAIN known \subseteq Nat,
         NEW v \in Nat, NEW c \in Constants
  PROVE  Learnt(v, c) \in [DOMAIN Learnt(v, c) -> Constants] /\ DOMAIN Learnt(v, c) \subseteq Nat
  BY DEF Learnt

LEMMA CopiesAreInstructions ==
  ASSUME NEW d \in Nat, NEW operands \in Seq(Operand)
  PROVE  LET made == Instr("copy", d, operands, "", NoBlock)
         IN made \in Instruction /\ made.args = operands /\ made.dest = d /\ made.op = "copy"
  BY NamesAssumption DEF Instr, Instruction, Operations

LEMMA CopiesOfConstants ==
  ASSUME NEW d \in Nat, NEW c \in Constants
  PROVE  LET made == Copy(d, Constant(c))
         IN /\ made \in Instruction
            /\ made.dest = d /\ made.op = "copy" /\ Len(made.args) = 1
            /\ Reads(made) = {}
<1> DEFINE operands == <<Constant(c)>>
           made == Copy(d, Constant(c))
<1>1. operands \in Seq(Operand) /\ Len(operands) = 1
  <2>1. Constant(c) \in Operand
    BY DEF Constant, Operand, NoValue
  <2> QED
    BY <2>1
<1>2. \A i \in DOMAIN operands : operands[i].value = NoValue
  BY DEF Constant
<1>3. made = Instr("copy", d, operands, "", NoBlock)
  BY DEF Copy
<1> HIDE DEF operands, made
<1>4. made \in Instruction /\ made.args = operands /\ made.dest = d /\ made.op = "copy"
  BY <1>1, <1>3, CopiesAreInstructions
<1>5. Reads(made) = {}
  BY <1>2, <1>4 DEF Reads
<1> QED
  BY <1>1, <1>4, <1>5 DEF made

LEMMA FoldInstructionKeeps == ASSUME IInv, FoldInstruction PROVE IInv'
<1> DEFINE b == place[1]
           p == place[2]
           instr == blocks[b].code[p]
           result == Folded(instr)
           folded == Copy(instr.dest, Constant(result))
<1>1. b \in DOMAIN blocks /\ p \in DOMAIN blocks[b].code
  <2>1. b \in DOMAIN blocks /\ p \in Nat \ {0} /\ p <= Len(blocks[b].code)
    BY DEF IInv, TypeOK, FoldInstruction, InBlock
  <2>2. blocks[b].code \in Seq(Instruction)
    BY <2>1 DEF IInv, TypeOK, Block
  <2> QED
    BY <2>1, <2>2
<1>2. instr \in Instruction
  BY <1>1, ReadsAreValues DEF IInv, WellFormed
<1>3. result \in Foldable
  <2>1. /\ instr.op = "unary" => Len(instr.args) = 1
        /\ instr.op = "binary" => Len(instr.args) = 2
    BY <1>1 DEF IInv, WellFormed, Range
  <2> QED
    BY <1>2, <2>1, InstructionFolds DEF IInv, TypeOK
<1>4. /\ pass = "fold" /\ pass' = "fold" /\ place' = <<b, p + 1>>
      /\ UNCHANGED <<level, source, round, multi, todo, live, frontier, reached, stack>>
  BY DEF FoldInstruction, markVars, reachVars
<1>5. \/ /\ result # NotFolded /\ blocks' = [blocks EXCEPT ![b].code[p] = folded]
         /\ known' = Learnt(instr.dest, result) /\ changed' = TRUE
      \/ /\ blocks' = blocks /\ changed' = changed
         /\ known' = known \/ /\ instr.op = "copy" /\ instr.args[1].value = NoValue
                              /\ known' = Learnt(instr.dest, instr.args[1].const)
  BY DEF FoldInstruction
<1>6. known' \in [DOMAIN known' -> Constants] /\ DOMAIN known' \subseteq Nat
  <2>1. instr.dest \in Nat
    BY <1>2 DEF Instruction
  <2>2. instr.op = "copy" => instr.args[1].const \in Constants
    <3>1. ASSUME instr.op = "copy" PROVE instr.args[1] \in Operand
      <4>1. Len(instr.args) = 1
        BY <1>1, <3>1 DEF IInv, WellFormed, Range
      <4>2. instr.args \in Seq(Operand)
        BY <1>2 DEF Instruction
      <4> QED
        BY <4>1, <4>2
    <3> QED
      BY <3>1 DEF Operand
  <2>3. result # NotFolded => result \in Constants
    BY <1>3 DEF Foldable
  <2>4. known \in [DOMAIN known -> Constants] /\ DOMAIN known \subseteq Nat
    BY DEF IInv, TypeOK
  <2> QED
    BY <1>5, <2>1, <2>2, <2>3, <2>4, Learning
<1>7. ASSUME result # NotFolded, blocks' = [blocks EXCEPT ![b].code[p] = folded]
      PROVE  blocks' \in [DOMAIN blocks -> Block] /\ Shrunk
  <2>1. result \in Constants
    BY <1>3, <1>7 DEF Foldable
  <2>2. /\ folded \in Instruction
        /\ folded.dest = instr.dest /\ folded.op = "copy" /\ Len(folded.args) = 1
        /\ Reads(folded) = {}
    <3>1. instr.dest \in Nat
      BY <1>2 DEF Instruction
    <3> QED
      BY <2>1, <3>1, CopiesOfConstants
  <2>3. ~HasSideEffects(instr)
    BY <1>7 DEF Folded, HasSideEffects
  <2>4. blocks[b] \in Block /\ blocks \in [DOMAIN blocks -> Block]
    BY <1>1 DEF IInv, TypeOK
  <2>5. blocks[b].code \in Seq(Instruction)
    BY <2>4 DEF Block
  <2>6. [blocks[b].code EXCEPT ![p] = folded] \in Seq(Instruction)
    BY <1>1, <2>2, <2>5
  <2>7. blocks' = [blocks EXCEPT ![b] = [blocks[b] EXCEPT !.code = [blocks[b].code EXCEPT ![p] = folded]]]
    BY <1>7
  <2>8. blocks' \in [DOMAIN blocks -> Block]
    BY <2>4, <2>6, <2>7 DEF Block
  <2>9. Shrunk
    <3>1. \A c \in DOMAIN blocks : blocks[c] \in Block
      BY <2>4
    <3>2. ASSUME NEW c \in DOMAIN blocks, c # b
          PROVE  blocks'[c] = blocks[c]
      BY <2>7, <3>2
    <3>3. /\ blocks'[b].term = blocks[b].term
          /\ blocks'[b].code = [blocks[b].code EXCEPT ![p] = folded]
      BY <1>1, <2>4, <2>7 DEF Block
    <3>4. /\ DOMAIN blocks'[b].code = DOMAIN blocks[b].code
          /\ \A i \in DOMAIN blocks[b].code :
               blocks'[b].code[i] = IF i = p THEN folded ELSE blocks[b].code[i]
      BY <3>3
    <3> QED
      BY <2>2, <2>3, <2>8, <3>2, <3>3, <3>4 DEF Shrunk
  <2> QED
    BY <2>8, <2>9
<1>8. ASSUME blocks' = blocks
      PROVE  WellFormed(blocks)' /\ SameShape' /\ NeededKept' /\ blocks' \in [DOMAIN blocks' -> Block]
  BY <1>4, <1>8, BlocksStand DEF IInv, TypeOK
<1>9. WellFormed(blocks)' /\ SameShape' /\ NeededKept' /\ blocks' \in [DOMAIN blocks' -> Block]
  <2>1. ASSUME result # NotFolded, blocks' = [blocks EXCEPT ![b].code[p] = folded]
        PROVE  WellFormed(blocks)' /\ SameShape' /\ NeededKept' /\ blocks' \in [DOMAIN blocks' -> Block]
    <3>1. blocks' \in [DOMAIN blocks' -> Block] /\ Shrunk /\ DOMAIN blocks' = DOMAIN blocks
      BY <1>7, <2>1
    <3> QED
      BY <1>4, <3>1, ShrinkKeeps DEF IInv, WellFormed
  <2> QED
    BY <1>5, <1>8, <2>1
<1>10. DOMAIN blocks' = DOMAIN blocks
  BY <1>5
<1>11. changed' \in BOOLEAN
  BY <1>5 DEF IInv, TypeOK
<1>12. place' \in (DOMAIN blocks' \cup {NoBlock}) \X (Nat \ {0})
  BY <1>1, <1>4, <1>10 DEF IInv, TypeOK
<1>13. TypeOK'
  BY <1>4, <1>6, <1>9, <1>10, <1>11, <1>12 DEF IInv, TypeOK
<1> QED
  BY <1>4, <1>9, <1>13 DEF IInv, Still, Marked, Searched

-----------------------------------------------------------------------------
LEMMA StartMarkingKeeps == ASSUME IInv, StartMarking PROVE IInv'
<1>1. frontier' \subseteq Nat
  BY ReadsAreValues DEF StartMarking, IInv, WellFormed
<1>2. TypeOK'
  BY <1>1 DEF IInv, TypeOK, StartMarking, reachVars
<1>3. WellFormed(blocks)' /\ SameShape' /\ NeededKept'
  BY BlocksStand DEF StartMarking
<1> QED
  BY <1>2, <1>3 DEF IInv, StartMarking, Still, Marked, Searched

LEMMA MarkLiveKeeps == ASSUME IInv, MarkLive PROVE IInv'
<1> DEFINE needed == UNION {Needs(blocks, v) : v \in frontier}
<1>1. /\ pass = "mark" /\ pass' = "mark" /\ blocks' = blocks
      /\ live' = live \cup frontier
      /\ frontier' = needed \ live'
      /\ UNCHANGED <<level, source, round, changed, known, multi, todo, place, reached, stack>>
  BY DEF MarkLive, foldVars, reachVars
<1>2. /\ \A v \in frontier : Needs(blocks, v) \subseteq needed
      /\ needed \subseteq Nat
  <2>1. \A v : Needs(blocks, v) \subseteq Nat
    BY ReadsAreValues DEF IInv, WellFormed
  <2> QED
    BY <2>1
<1> HIDE DEF needed
<1>3. TypeOK'
  <2>1. live' \subseteq Nat /\ frontier' \subseteq Nat
    BY <1>1, <1>2 DEF IInv, TypeOK
  <2> QED
    BY <1>1, <2>1 DEF IInv, TypeOK
<1>4. WellFormed(blocks)' /\ SameShape' /\ NeededKept'
  BY <1>1, BlocksStand
<1>5. Marked'
  <2>1. Roots(blocks) \subseteq live'
    BY <1>1 DEF IInv, Marked
  <2>2. ASSUME NEW v \in live'
        PROVE  Needs(blocks, v) \subseteq live' \cup frontier'
    <3>1. CASE v \in live
      BY <1>1, <3>1 DEF IInv, Marked
    <3>2. CASE v \in frontier
      BY <1>1, <1>2, <3>2
    <3> QED
      BY <1>1, <2>2, <3>1, <3>2
  <2> QED
    BY <1>1, <2>1, <2>2 DEF Marked
<1> QED
  BY <1>1, <1>3, <1>4, <1>5 DEF IInv, Still, Searched

LEMMA RemoveDeadKeeps == ASSUME IInv, RemoveDead PROVE IInv'
<1>1. /\ pass = "mark" /\ pass' = "reach" /\ frontier = {}
      /\ reached' = {} /\ stack' = <<Entry>>
      /\ UNCHANGED <<level, source, round, known, multi, todo, place, live, frontier>>
      /\ changed' \in BOOLEAN
  BY DEF RemoveDead, foldVars, markVars, IInv, TypeOK
<1>2. blocks \in [DOMAIN blocks -> Block]
  BY DEF IInv, TypeOK
<1>3. /\ DOMAIN blocks' = DOMAIN blocks
      /\ \A b \in DOMAIN blocks :
           /\ blocks'[b].term = blocks[b].term
           /\ blocks'[b].code = [i \in DOMAIN blocks[b].code |->
                                   IF Dead(blocks[b].code[i]) THEN Gone ELSE blocks[b].code[i]]
           /\ blocks'[b] = [blocks[b] EXCEPT !.code = blocks'[b].code]
  BY <1>2 DEF RemoveDead, Block
<1>4. blocks' \in [DOMAIN blocks' -> Block]
  <2>1. Gone \in Instruction
    <3>1. <<>> \in Seq(Operand)
      OBVIOUS
    <3> QED
      BY <3>1, NamesAssumption DEF Gone, Instr, Instruction, Operations, NoValue
  <2>2. ASSUME NEW b \in DOMAIN blocks
        PROVE  blocks'[b] \in Block
    <3>1. blocks[b] \in Block /\ blocks[b].code \in Seq(Instruction)
      BY <1>2 DEF Block
    <3>2. blocks'[b].code \in Seq(Instruction)
      <4>1. /\ DOMAIN blocks[b].code = 1..Len(blocks[b].code) /\ Len(blocks[b].code) \in Nat
            /\ \A i \in DOMAIN blocks[b].code : blocks[b].code[i] \in Instruction
        BY <3>1
      <4>2. blocks'[b].code = [i \in DOMAIN blocks[b].code |->
                                IF Dead(blocks[b].code[i]) THEN Gone ELSE blocks[b].code[i]]
        BY <1>3
      <4>3. \A i \in DOMAIN blocks[b].code :
              (IF Dead(blocks[b].code[i]) THEN Gone ELSE blocks[b].code[i]) \in Instruction
        BY <2>1, <4>1
      <4>4. blocks'[b].code \in [1..Len(blocks[b].code) -> Instruction]
        BY <4>1, <4>2, <4>3
      <4> QED
        BY <4>1, <4>4
    <3> QED
      BY <1>3, <3>1, <3>2 DEF Block
  <2>3. blocks' = [b \in DOMAIN blocks' |-> blocks'[b]]
    BY DEF RemoveDead
  <2> QED
    BY <1>3, <2>2, <2>3
<1>5. Roots(blocks) \subseteq live /\ \A v \in live : Needs(blocks, v) \subseteq live
  BY <1>1 DEF IInv, Marked
<1>6. ASSUME NEW b \in DOMAIN blocks, NEW i \in DOMAIN blocks[b].code,
             ~Dead(blocks[b].code[i])
      PROVE  Reads(blocks[b].code[i]) \subseteq live
  <2> DEFINE instr == blocks[b].code[i]
  <2>1. CASE instr.dest = NoValue
    <3>1. HasSideEffects(instr) \/ Reads(instr) = {}
      BY <1>6, <2>1 DEF IInv, WellFormed, Range
    <3>2. HasSideEffects(instr) => Reads(instr) \subseteq Roots(blocks)
      BY <1>6, InRoots
    <3> QED
      BY <1>5, <3>1, <3>2
  <2>2. CASE instr.dest \in live
    <3>1. Reads(instr) \subseteq Needs(blocks, instr.dest)
      BY <1>6, InNeeds
    <3> QED
      BY <1>5, <2>2, <3>1
  <2> QED
    BY <1>6, <2>1, <2>2 DEF Dead
<1>7. Read(blocks') \subseteq live
  <2> SUFFICES ASSUME NEW v \in Read(blocks')
               PROVE  v \in live
    OBVIOUS
  <2>1. PICK b \in DOMAIN blocks' : \/ v \in ReadByTerm(blocks'[b].term)
                                    \/ \E i \in DOMAIN blocks'[b].code : v \in Reads(blocks'[b].code[i])
    BY InRead
  <2>2. CASE v \in ReadByTerm(blocks'[b].term)
    BY <1>3, <1>5, <2>1, <2>2, InRoots
  <2>3. ASSUME NEW i \in DOMAIN blocks'[b].code, v \in Reads(blocks'[b].code[i])
        PROVE  v \in live
    <3>1. b \in DOMAIN blocks /\ i \in DOMAIN blocks[b].code
      BY <1>3, <2>1, <2>3
    <3>2. blocks'[b].code[i] = IF Dead(blocks[b].code[i]) THEN Gone ELSE blocks[b].code[i]
      BY <1>3, <3>1
    <3>3. ~Dead(blocks[b].code[i])
      BY <2>3, <3>2, GoneReadsNothing
    <3> QED
      BY <1>6, <2>3, <3>1, <3>2, <3>3
  <2> QED
    BY <2>1, <2>2, <2>3
<1>8. Shrunk
  <2> SUFFICES ASSUME NEW b \in DOMAIN blocks, NEW i \in DOMAIN blocks[b].code,
                      Dead(blocks[b].code[i])
               PROVE  /\ ~HasSideEffects(blocks[b].code[i])
                      /\ blocks'[b].code[i] = Gone
                      /\ blocks[b].code[i].dest \notin Read(blocks')
    <3>1. ASSUME NEW b \in DOMAIN blocks
          PROVE  /\ DOMAIN blocks'[b].code = DOMAIN blocks[b].code
                 /\ \A i \in DOMAIN blocks[b].code :
                      ~Dead(blocks[b].code[i]) => blocks'[b].code[i] = blocks[b].code[i]
      BY <1>3
    <3> QED
      BY <1>3, <3>1 DEF Shrunk
  <2>1. blocks[b].code[i].dest # NoValue /\ blocks[b].code[i].dest \notin live
    BY DEF Dead
  <2>2. HasSideEffects(blocks[b].code[i]) => blocks[b].code[i].dest \in Roots(blocks)
    BY <2>1, InRoots
  <2> QED
    BY <1>3, <1>5, <1>7, <2>1, <2>2
<1>9. WellFormed(blocks)' /\ SameShape' /\ NeededKept'
  BY <1>1, <1>3, <1>4, <1>8, ShrinkKeeps DEF IInv, WellFormed
<1>10. TypeOK'
  <2>1. stack' \in Seq(Nat) /\ reached' \subseteq Nat
    BY <1>1 DEF Entry
  <2> QED
    BY <1>1, <1>3, <1>4, <2>1 DEF IInv, TypeOK
<1>11. Searched'
  <2>1. Entry \in Range(stack')
    BY <1>1 DEF Range
  <2> QED
    BY <1>1, <2>1 DEF Searched
<1> QED
  BY <1>1, <1>9, <1>10, <1>11 DEF IInv, Still, Marked

-----------------------------------------------------------------------------
LEMMA RangeOfConcat ==
  ASSUME NEW S, NEW s \in Seq(S), NEW t \in Seq(S)
  PROVE  Range(s \o t) = Range(s) \cup Range(t)
<1>1. ASSUME NEW i \in DOMAIN (s \o t)
      PROVE  (s \o t)[i] \in Range(s) \cup Range(t)
  BY DEF Range
<1>2. ASSUME NEW i \in DOMAIN s
      PROVE  s[i] \in Range(s \o t)
  <2>1. i \in DOMAIN (s \o t) /\ (s \o t)[i] = s[i]
    OBVIOUS
  <2> QED
    BY <2>1 DEF Range
<1>3. ASSUME NEW i \in DOMAIN t
      PROVE  t[i] \in Range(s \o t)
  <2>1. Len(s) + i \in DOMAIN (s \o t) /\ (s \o t)[Len(s) + i] = t[i]
    OBVIOUS
  <2> QED
    BY <2>1 DEF Range
<1> QED
  BY <1>1, <1>2, <1>3 DEF Range

LEMMA Pushes ==
  ASSUME NEW term, Targets(term) \subseteq Nat, NEW visited
  PROVE  /\ Pushed(term, visited) \in Seq(Nat)
         /\ Targets(term) \subseteq visited \cup Range(Pushed(term, visited))
<1> DEFINE To(b) == IF b \in visited THEN <<>> ELSE <<b>>
<1>1. ASSUME NEW b \in Nat
      PROVE  To(b) \in Seq(Nat) /\ b \in visited \cup Range(To(b))
  BY DEF Range
<1>2. CASE term.kind = "jump"
  <2>1. term.yes \in Nat /\ Targets(term) = {term.yes} /\ Pushed(term, visited) = To(term.yes)
    BY <1>2 DEF Targets, Pushed
  <2> QED
    BY <1>1, <2>1
<1>3. CASE term.kind = "branch"
  <2>1. /\ term.yes \in Nat /\ term.no \in Nat /\ Targets(term) = {term.yes, term.no}
        /\ Pushed(term, visited) = To(term.yes) \o To(term.no)
    BY <1>3 DEF Targets, Pushed
  <2>2. /\ To(term.yes) \in Seq(Nat) /\ term.yes \in visited \cup Range(To(term.yes))
        /\ To(term.no) \in Seq(Nat) /\ term.no \in visited \cup Range(To(term.no))
    BY <1>1, <2>1
  <2> HIDE DEF To
  <2>3. Range(To(term.yes) \o To(term.no)) = Range(To(term.yes)) \cup Range(To(term.no))
    BY <2>2, RangeOfConcat
  <2> QED
    BY <2>1, <2>2, <2>3
<1>4. CASE term.kind \notin {"jump", "branch"}
  BY <1>4 DEF Targets, Pushed
<1> QED
  BY <1>2, <1>3, <1>4

LEMMA FrontOfSeq ==
  ASSUME NEW s \in Seq(Nat), s # <<>>
  PROVE  /\ Front(s) \in Seq(Nat) /\ Last(s) \in Nat
         /\ Range(s) = Range(Front(s)) \cup {Last(s)}
<1> DEFINE front == SubSeq(s, 1, Len(s) - 1)
<1>1. Len(s) \in Nat \ {0} /\ (\A i \in 1..Len(s) : s[i] \in Nat) /\ DOMAIN s = 1..Len(s)
  BY EmptySeq
<1>2. /\ front \in Seq(Nat)
      /\ Len(front) = IF 1 <= Len(s) - 1 THEN (Len(s) - 1) - 1 + 1 ELSE 0
      /\ \A i \in 1..((Len(s) - 1) - 1 + 1) : front[i] = s[1 + i - 1]
  BY <1>1, SubSeqProperties
<1>3. front = Front(s)
  BY Zenon DEF Front
<1> HIDE DEF front
<1>4. Len(front) = Len(s) - 1
  <2>1. \A n \in Nat : n # 0 => (IF 1 <= n - 1 THEN (n - 1) - 1 + 1 ELSE 0) = n - 1
    OBVIOUS
  <2> QED
    BY <1>1, <1>2, <2>1
<1>5. /\ DOMAIN front = 1..(Len(s) - 1)
      /\ \A i \in DOMAIN front : front[i] = s[i] /\ i \in DOMAIN s
  <2>1. DOMAIN front = 1..(Len(s) - 1)
    BY <1>2, <1>4
  <2>2. \A i \in 1..(Len(s) - 1) :
          i \in 1..((Len(s) - 1) - 1 + 1) /\ 1 + i - 1 = i /\ i \in 1..Len(s)
    BY <1>1
  <2> QED
    BY <1>1, <1>2, <2>1, <2>2
<1>6. \A i \in DOMAIN s : i \in DOMAIN front \/ i = Len(s)
  BY <1>1, <1>5
<1>7. Last(s) = s[Len(s)] /\ Len(s) \in DOMAIN s
  BY <1>1 DEF Last
<1> QED
  BY <1>1, <1>2, <1>3, <1>5, <1>6, <1>7 DEF Range

LEMMA ReachBlockKeeps == ASSUME IInv, ReachBlock PROVE IInv'
<1> DEFINE b == Last(stack)
           rest == Front(stack)
<1>1. /\ pass = "reach" /\ pass' = "reach" /\ blocks' = blocks
      /\ reached' = reached \cup {b}
      /\ stack' = IF b \in reached \/ b \notin DOMAIN blocks THEN rest
                  ELSE rest \o Pushed(blocks[b].term, reached')
      /\ UNCHANGED <<level, source, round, changed, known, multi, todo, place, live, frontier>>
  BY DEF ReachBlock, foldVars, markVars
<1>2. b \in Nat /\ rest \in Seq(Nat) /\ Range(stack) = Range(rest) \cup {b}
  <2>1. stack \in Seq(Nat) /\ stack # <<>>
    BY DEF IInv, TypeOK, ReachBlock
  <2> QED
    BY <2>1, FrontOfSeq
<1> HIDE DEF b, rest
<1>3. WellFormed(blocks)' /\ SameShape' /\ NeededKept'
  BY <1>1, BlocksStand
<1>4. CASE b \in reached \/ b \notin DOMAIN blocks
  <2>1. stack' = rest
    BY <1>1, <1>4
  <2>2. TypeOK'
    BY <1>1, <1>2, <2>1 DEF IInv, TypeOK
  <2>3. Searched'
    BY <1>1, <1>2, <1>4, <2>1 DEF IInv, Searched
  <2> QED
    BY <1>1, <1>3, <2>2, <2>3 DEF IInv, Still, Marked
<1>5. CASE b \notin reached /\ b \in DOMAIN blocks
  <2> DEFINE pushed == Pushed(blocks[b].term, reached')
  <2>1. stack' = rest \o pushed
    BY <1>1, <1>5
  <2>2. pushed \in Seq(Nat) /\ Targets(blocks[b].term) \subseteq reached' \cup Range(pushed)
    BY <1>5, Pushes DEF IInv, WellFormed
  <2> HIDE DEF pushed
  <2>3. Range(stack') = Range(rest) \cup Range(pushed)
    BY <1>2, <2>1, <2>2, RangeOfConcat
  <2>4. TypeOK'
    <3>1. stack' \in Seq(Nat)
      BY <1>2, <2>1, <2>2
    <3> QED
      BY <1>1, <1>2, <3>1 DEF IInv, TypeOK
  <2>5. Searched'
    BY <1>1, <1>2, <2>2, <2>3 DEF IInv, Searched
  <2> QED
    BY <1>1, <1>3, <2>4, <2>5 DEF IInv, Still, Marked
<1> QED
  BY <1>4, <1>5

LEMMA RemoveUnreachableKeeps == ASSUME IInv, RemoveUnreachable PROVE IInv'
<1>1. /\ pass = "reach" /\ pass' = "end" /\ stack = <<>>
      /\ blocks' = [b \in DOMAIN blocks \cap reached |-> blocks[b]]
      /\ UNCHANGED <<level, source, round, known, multi, todo, place, live, frontier, reached, stack>>
      /\ changed' \in BOOLEAN
  BY DEF RemoveUnreachable, foldVars, markVars, reachVars, IInv, TypeOK
<1>2. /\ DOMAIN blocks' = DOMAIN blocks \cap reached
      /\ \A b \in DOMAIN blocks' : blocks'[b] = blocks[b]
      /\ blocks' \in [DOMAIN blocks' -> Block]
  BY <1>1 DEF IInv, TypeOK
<1>3. Shrunk
  BY <1>2 DEF Shrunk
<1>4. Entry \in reached /\ \A b \in reached \cap DOMAIN blocks : Targets(blocks[b].term) \subseteq reached
  <2>1. Range(stack) = {}
    BY <1>1 DEF Range
  <2> QED
    BY <1>1, <2>1 DEF IInv, Searched
<1>5. Entry \in DOMAIN blocks' /\ \A b \in DOMAIN blocks' : Targets(blocks[b].term) \subseteq DOMAIN blocks'
  BY <1>2, <1>4 DEF IInv, WellFormed
<1>6. WellFormed(blocks)' /\ SameShape' /\ NeededKept'
  BY <1>1, <1>2, <1>3, <1>5, ShrinkKeeps DEF IInv
<1>7. todo' = {} /\ place' = <<NoBlock, 1>>
  BY <1>1 DEF IInv, Still
<1>8. TypeOK'
  BY <1>1, <1>2, <1>7 DEF IInv, TypeOK
<1> QED
  BY <1>1, <1>6, <1>7, <1>8 DEF IInv, Still, Marked, Searched

LEMMA InitIInv == Init => IInv
<1> SUFFICES ASSUME Init PROVE IInv
  OBVIOUS
<1>1. TypeOK
  BY DEF Init, Idle, WellFormed, TypeOK
<1> QED
  BY <1>1 DEF Init, Idle, IInv, Still, SameShape, NeededKept, Marked, Searched

-----------------------------------------------------------------------------
LEMMA StepIInv == IInv /\ [Next]_vars => IInv'
<1> SUFFICES ASSUME IInv, [Next]_vars PROVE IInv'
  OBVIOUS
<1>1. CASE StartRound
  BY <1>1, StartRoundKeeps
<1>2. ASSUME NEW b \in todo, FoldBlock(b) PROVE IInv'
  BY <1>2, FoldBlockKeeps
<1>3. CASE FoldInstruction
  BY <1>3, FoldInstructionKeeps
<1>4. CASE StartMarking
  BY <1>4, StartMarkingKeeps
<1>5. CASE MarkLive
  BY <1>5, MarkLiveKeeps
<1>6. CASE RemoveDead
  BY <1>6, RemoveDeadKeeps
<1>7. CASE ReachBlock
  BY <1>7, ReachBlockKeeps
<1>8. CASE RemoveUnreachable
  BY <1>8, RemoveUnreachableKeeps
<1>9. CASE UNCHANGED vars
  BY <1>9 DEF vars, foldVars, markVars, reachVars, IInv, TypeOK, WellFormed, Still, SameShape,
              NeededKept, Marked, Searched
<1> QED
  BY <1>1, <1>2, <1>3, <1>4, <1>5, <1>6, <1>7, <1>8, <1>9 DEF Next

THEOREM Inductive == Spec => []IInv
  BY InitIInv, StepIInv, PTL DEF Spec

\* The passes keep the types of what they work on, for any function and any order of the
\* blocks (optimization.rs).
THEOREM Typed == Spec => []TypeOK
<1>1. IInv => TypeOK
  BY DEF IInv
<1> QED
  BY <1>1, Inductive, PTL

\* No round of the optimiser leaves a jump to a block it removed, or removes the entry,
\* whatever the shape of the function and however the blocks are ordered.
THEOREM JumpsAlwaysLand == Spec => []JumpsLand
<1>1. IInv => JumpsLand
  BY DEF IInv, WellFormed, JumpsLand
<1> QED
  BY <1>1, Inductive, PTL

\* No pass touches an instruction with a side effect, or removes one of the definitions of
\* a value that is still read, however many there are and however many rounds run.
THEOREM NeededStays == Spec => []NeededKept
<1>1. IInv => NeededKept
  BY DEF IInv
<1> QED
  BY <1>1, Inductive, PTL

-----------------------------------------------------------------------------
\* The remainder by a positive number is the only one in its range.
LEMMA Remainder ==
  ASSUME NEW n \in Int, NEW m \in Nat \ {0}
  PROVE  \E q \in Int : n = m * q + (n % m) /\ n % m \in 0..(m - 1)
<1>1. n % m \in 0..(m - 1)
  OBVIOUS
<1>2. n \div m \in Int /\ n = m * (n \div m) + (n % m)
  OBVIOUS
<1> QED
  BY <1>1, <1>2

LEMMA OneTurn ==
  ASSUME NEW h \in Nat \ {0}, NEW k \in Int, NEW d \in Int,
         d = h - (2 * h) * k, -(2 * h) < d, d < 2 * h
  PROVE  k \in {0, 1}
<1>1. CASE k >= 2
  <2>1. h * k >= h * 2
    BY <1>1
  <2>2. (2 * h) * k = h * k + h * k
    OBVIOUS
  <2> QED
    BY <2>1, <2>2
<1>2. CASE k <= -1
  <2>1. h * k <= h * (-1)
    BY <1>2
  <2>2. (2 * h) * k = h * k + h * k
    OBVIOUS
  <2> QED
    BY <2>1, <2>2
<1> QED
  BY <1>1, <1>2

\* The arithmetic of folding is that of WebAssembly.
LEMMA SignedWraps == ASSUME NEW n \in Int PROVE Signed(n) = Wrap(n)
<1>1. Half \in Nat \ {0}
  BY HalfAssumption DEF HalfAssumption
<1> DEFINE u == n % (2 * Half)
           w == (n + Half) % (2 * Half)
<1>2. 2 * Half \in Nat \ {0} /\ n + Half \in Int
  BY <1>1
<1>3. PICK p \in Int : n = (2 * Half) * p + u /\ u \in 0..(2 * Half - 1)
  BY <1>2, Remainder
<1>4. PICK q \in Int : n + Half = (2 * Half) * q + w /\ w \in 0..(2 * Half - 1)
  BY <1>2, Remainder
<1>5. Signed(n) = (IF u >= Half THEN u - 2 * Half ELSE u) /\ Wrap(n) = w - Half
  BY DEF Signed, Wrap
<1> HIDE DEF u, w
<1>6. w - u = Half - (2 * Half) * (q - p)
  BY <1>1, <1>3, <1>4
<1>7. q - p \in {0, 1}
  <2>1. w - u \in Int /\ -(2 * Half) < w - u /\ w - u < 2 * Half
    BY <1>1, <1>3, <1>4
  <2> QED
    BY <1>1, <1>6, <2>1, OneTurn
<1>8. CASE q - p = 0
  <2>1. w - u = Half
    BY <1>1, <1>6, <1>8
  <2> QED
    BY <1>1, <1>3, <1>4, <1>5, <2>1
<1>9. CASE q - p = 1
  <2>1. w - u = -Half
    BY <1>1, <1>6, <1>9
  <2> QED
    BY <1>1, <1>3, <1>4, <1>5, <2>1
<1> QED
  BY <1>7, <1>8, <1>9

LEMMA WrapStays == ASSUME NEW n \in -Half..(Half - 1) PROVE Wrap(n) = n
<1>1. Half \in Nat \ {0}
  BY HalfAssumption DEF HalfAssumption
<1> DEFINE w == (n + Half) % (2 * Half)
<1>2. 2 * Half \in Nat \ {0} /\ n + Half \in Int
  BY <1>1
<1>3. PICK q \in Int : n + Half = (2 * Half) * q + w /\ w \in 0..(2 * Half - 1)
  BY <1>2, Remainder
<1>4. Wrap(n) = w - Half
  BY DEF Wrap
<1> HIDE DEF w
<1>5. n - w = (2 * Half) * q - Half
  BY <1>1, <1>3
<1>6. q \in {0, 1}
  <2>1. w - n = Half - (2 * Half) * q
    BY <1>1, <1>3
  <2>2. w - n \in Int /\ -(2 * Half) < w - n /\ w - n < 2 * Half + Half
    BY <1>1, <1>3
  <2>3. n + Half \in 0..(2 * Half - 1)
    BY <1>1
  <2>4. (2 * Half) * q = (n + Half) - w
    BY <1>1, <1>3
  <2>5. CASE q >= 1
    <3>1. Half * q >= Half * 1
      BY <1>1, <2>5
    <3>2. (2 * Half) * q = Half * q + Half * q
      BY <1>1
    <3> QED
      BY <1>1, <1>3, <2>3, <2>4, <3>1, <3>2
  <2>6. CASE q <= -1
    <3>1. Half * q <= Half * (-1)
      BY <1>1, <2>6
    <3>2. (2 * Half) * q = Half * q + Half * q
      BY <1>1
    <3> QED
      BY <1>1, <1>3, <2>3, <2>4, <3>1, <3>2
  <2> QED
    BY <2>5, <2>6
<1>7. CASE q = 0
  BY <1>1, <1>3, <1>4, <1>7
<1>8. CASE q = 1
  BY <1>1, <1>3, <1>4, <1>8
<1> QED
  BY <1>6, <1>7, <1>8

LEMMA NoMultiple ==
  ASSUME NEW k \in Int, NEW b \in Int, k * b < Magnitude(b), -(k * b) < Magnitude(b)
  PROVE  k = 0
<1>1. Magnitude(b) = IF b < 0 THEN -b ELSE b
  BY DEF Magnitude
<1>2. CASE b >= 0
  <2>1. CASE k >= 1
    <3>1. k * b >= 1 * b
      BY <1>2, <2>1
    <3> QED
      BY <1>1, <1>2, <3>1
  <2>2. CASE k <= -1
    <3>1. k * b <= (-1) * b
      BY <1>2, <2>2
    <3> QED
      BY <1>1, <1>2, <3>1
  <2> QED
    BY <2>1, <2>2
<1>3. CASE b < 0
  <2>1. CASE k >= 1
    <3>1. k * b <= 1 * b
      BY <1>3, <2>1
    <3> QED
      BY <1>1, <1>3, <3>1
  <2>2. CASE k <= -1
    <3>1. k * b >= (-1) * b
      BY <1>3, <2>2
    <3> QED
      BY <1>1, <1>3, <3>1
  <2> QED
    BY <2>1, <2>2
<1> QED
  BY <1>2, <1>3

\* What the quotient leaves has the sign of the dividend and is smaller than the divisor.
LEMMA QuotientLeaves ==
  ASSUME NEW a \in -Half..(Half - 1), NEW b \in Int, b # 0
  PROVE  LET q == Quotient(a, b)
             r == a - q * b
         IN /\ q \in -Half..Half /\ r \in -Half..Half
            /\ r < Magnitude(b) /\ -r < Magnitude(b)
            /\ IF a < 0 THEN r <= 0 ELSE r >= 0
<1>1. Half \in Nat \ {0}
  BY HalfAssumption DEF HalfAssumption
<1> DEFINE x == Magnitude(a)
           y == Magnitude(b)
           d == x \div y
           e == x % y
<1>2. x \in 0..Half /\ y \in Nat \ {0}
  BY <1>1 DEF Magnitude
<1>3. x = y * d + e /\ e \in 0..(y - 1) /\ d \in Int
  BY <1>2
<1>4. d \in 0..Half /\ y * d \in 0..Half /\ e \in 0..Half
  <2> HIDE DEF x, y, d, e
  <2>1. d >= 0
    <3>1. CASE d <= -1
      <4>1. y * d <= y * (-1)
        BY <1>2, <1>3, <3>1
      <4> QED
        BY <1>2, <1>3, <4>1
    <3> QED
      BY <1>3, <3>1
  <2>2. y * d >= 1 * d
    BY <1>2, <1>3, <2>1
  <2>3. 1 * d = d /\ y * d \in Int
    BY <1>2, <1>3
  <2> QED
    BY <1>1, <1>2, <1>3, <2>1, <2>2, <2>3
<1>5. Quotient(a, b) = IF (a < 0) = (b < 0) THEN d ELSE -d
  BY DEF Quotient
<1>6. /\ a < 0 => a = -x
      /\ ~(a < 0) => a = x
      /\ b < 0 => b = -y
      /\ ~(b < 0) => b = y
  BY <1>1 DEF Magnitude
<1> DEFINE q == Quotient(a, b)
           r == a - q * b
<1>7. r = IF a < 0 THEN -e ELSE e
  <2> HIDE DEF x, y, d, e
  <2>1. /\ (-d) * y = -(y * d) /\ d * (-y) = -(y * d) /\ (-d) * (-y) = y * d /\ d * y = y * d
        /\ y * d \in Int
    BY <1>2, <1>3
  <2>2. CASE a < 0 /\ b < 0
    BY <1>2, <1>3, <1>5, <1>6, <2>1, <2>2
  <2>3. CASE a < 0 /\ ~(b < 0)
    BY <1>2, <1>3, <1>5, <1>6, <2>1, <2>3
  <2>4. CASE ~(a < 0) /\ b < 0
    BY <1>2, <1>3, <1>5, <1>6, <2>1, <2>4
  <2>5. CASE ~(a < 0) /\ ~(b < 0)
    BY <1>2, <1>3, <1>5, <1>6, <2>1, <2>5
  <2> QED
    BY <2>2, <2>3, <2>4, <2>5
<1>8. q \in -Half..Half
  <2> HIDE DEF d
  <2> QED
    BY <1>1, <1>4, <1>5
<1> HIDE DEF x, d, e, q, r
<1>9. r \in -Half..Half /\ r < y /\ -r < y /\ IF a < 0 THEN r <= 0 ELSE r >= 0
  BY <1>1, <1>2, <1>3, <1>4, <1>7
<1> QED
  BY <1>8, <1>9 DEF q, r

\* There is one way to divide.
LEMMA QuotientDivides ==
  ASSUME NEW a \in -Half..(Half - 1), NEW b \in Int, b # 0
  PROVE  Divide(a, b) = <<Quotient(a, b), a - Quotient(a, b) * b>>
<1>1. Half \in Nat \ {0}
  BY HalfAssumption DEF HalfAssumption
<1> DEFINE Divides(x, y) ==
             a = x * b + y /\ y \in {0} \cup (IF a < 0 THEN -Half..-1 ELSE 1..Half)
               /\ y < (IF b < 0 THEN -b ELSE b) /\ -y < (IF b < 0 THEN -b ELSE b)
           q == Quotient(a, b)
           r == a - q * b
           both == <<q, r>>
           Pairs == (-Half..Half) \X (-Half..Half)
<1>2. q \in -Half..Half /\ r \in -Half..Half /\ r < Magnitude(b) /\ -r < Magnitude(b)
      /\ IF a < 0 THEN r <= 0 ELSE r >= 0
  BY QuotientLeaves
<1>3. Divides(q, r)
  <2> HIDE DEF q
  <2>1. q * b \in Int
    BY <1>1, <1>2
  <2>2. a = q * b + r
    BY <1>1, <2>1
  <2>3. r \in {0} \cup (IF a < 0 THEN -Half..-1 ELSE 1..Half)
    <3> HIDE DEF r
    <3> QED
      BY <1>1, <1>2
  <2> QED
    BY <1>2, <2>2, <2>3 DEF Magnitude
<1>4. ASSUME NEW x \in -Half..Half, NEW y \in -Half..Half, Divides(x, y)
      PROVE  x = q /\ y = r
  <2> HIDE DEF q, r
  <2>1. a = x * b + y /\ a = q * b + r
    BY <1>3, <1>4
  <2>2. /\ y < Magnitude(b) /\ -y < Magnitude(b)
        /\ IF a < 0 THEN y <= 0 ELSE y >= 0
    BY <1>1, <1>4 DEF Magnitude
  <2>3. /\ x * b \in Int /\ q * b \in Int /\ (x - q) * b = x * b - q * b /\ x - q \in Int
        /\ x \in Int /\ y \in Int /\ q \in Int /\ r \in Int
    BY <1>1, <1>2
  <2>4. (x - q) * b = r - y
    BY <2>1, <2>3
  <2>5. Magnitude(b) \in Int
    BY DEF Magnitude
  <2>6. r - y < Magnitude(b) /\ -(r - y) < Magnitude(b)
    BY <1>2, <2>2, <2>3, <2>5
  <2>7. x - q = 0
    BY <2>3, <2>4, <2>6, NoMultiple
  <2> QED
    BY <2>1, <2>3, <2>7
<1>5. Divide(a, b) = CHOOSE qr \in Pairs : Divides(qr[1], qr[2])
  BY DEF Divide
<1> HIDE DEF Divides, q, r
<1>6. both \in Pairs /\ Divides(both[1], both[2])
  BY <1>2, <1>3
<1>7. \A qr \in Pairs : Divides(qr[1], qr[2]) => qr = both
  BY <1>4
<1> QED
  BY <1>5, <1>6, <1>7 DEF q, r

LEMMA BitsAreBooleans == \A x \in BOOLEAN : Boolean(x).val = Bit(x)
  BY DEF Boolean, Bit

\* Folding two integers comes to what running the operator does.
LEMMA IntegersRun ==
  ASSUME NEW op, NEW a \in -Half..(Half - 1), NEW b \in -Half..(Half - 1),
         FoldIntegers(op, a, b) # NotFolded
  PROVE  ~Traps(op, a, b) /\ Wasm(op, a, b) = FoldIntegers(op, a, b).val
<1>1. Half \in Nat \ {0}
  BY HalfAssumption DEF HalfAssumption
<1>2. \A n \in Int : Integer(n).val = Signed(n)
  BY SignedWraps DEF Integer
<1>3. \A n \in -Half..(Half - 1) : Integer(n).val = n
  BY WrapStays DEF Integer
<1>4. CASE op = "add"
  <2>1. a + b \in Int
    BY <1>1
  <2> QED
    BY <1>2, <1>4, <2>1 DEF FoldIntegers, Wasm, Traps
<1>5. CASE op = "sub"
  <2>1. a - b \in Int
    BY <1>1
  <2> QED
    BY <1>2, <1>5, <2>1 DEF FoldIntegers, Wasm, Traps
<1>6. CASE op = "mul"
  <2>1. a * b \in Int
    BY <1>1
  <2> QED
    BY <1>2, <1>6, <2>1 DEF FoldIntegers, Wasm, Traps
<1>7. CASE op = "div"
  <2>1. b # 0 /\ ~(a = -Half /\ b = -1) /\ FoldIntegers(op, a, b) = Integer(Quotient(a, b))
    BY <1>7 DEF FoldIntegers
  <2>2. ~Traps(op, a, b) /\ Wasm(op, a, b) = Divide(a, b)[1]
    BY <1>7, <2>1 DEF Traps, Wasm
  <2>3. Divide(a, b)[1] = Quotient(a, b)
    <3>1. a \in -Half..(Half - 1) /\ b \in Int
      BY <1>1
    <3> QED
      BY <2>1, <3>1, QuotientDivides
  <2>4. Quotient(a, b) \in -Half..(Half - 1)
    <3> DEFINE q == Quotient(a, b)
    <3>1. q \in -Half..Half
      BY <1>1, <2>1, QuotientLeaves
    <3>2. ASSUME q = Half PROVE FALSE
      <4> HIDE DEF q
      <4>1. a - q * b \in -Half..Half /\ a - q * b < Magnitude(b) /\ -(a - q * b) < Magnitude(b)
            /\ IF a < 0 THEN a - q * b <= 0 ELSE a - q * b >= 0
        BY <1>1, <2>1, QuotientLeaves DEF q
      <4>2. q * b = Half * b
        BY <3>2
      <4>3. CASE b >= 2
        <5>1. Half * b >= Half * 2
          BY <1>1, <4>3
        <5> QED
          BY <1>1, <4>1, <4>2, <5>1
      <4>4. CASE b <= -2
        <5>1. Half * b <= Half * (-2)
          BY <1>1, <4>4
        <5> QED
          BY <1>1, <4>1, <4>2, <5>1
      <4>5. CASE b = 1
        BY <1>1, <4>1, <4>2, <4>5 DEF Magnitude
      <4>6. CASE b = -1
        <5>1. Half * b = -Half
          BY <1>1, <4>6
        <5>2. a + Half < 1
          BY <1>1, <4>1, <4>2, <4>6, <5>1 DEF Magnitude
        <5> QED
          BY <1>1, <2>1, <4>6, <5>2
      <4> QED
        BY <1>1, <2>1, <4>3, <4>4, <4>5, <4>6
    <3> HIDE DEF q
    <3>3. q \in -Half..(Half - 1)
      BY <1>1, <3>1, <3>2
    <3> QED
      BY <3>3 DEF q
  <2> QED
    BY <1>3, <2>1, <2>2, <2>3, <2>4
<1>8. CASE op = "rem"
  <2>1. b # 0 /\ FoldIntegers(op, a, b) = Integer(a - b * Quotient(a, b))
    BY <1>8 DEF FoldIntegers
  <2>2. ~Traps(op, a, b) /\ Wasm(op, a, b) = Divide(a, b)[2]
    BY <1>8, <2>1 DEF Traps, Wasm
  <2>3. Divide(a, b)[2] = a - Quotient(a, b) * b
    BY <1>1, <2>1, QuotientDivides
  <2> DEFINE q == Quotient(a, b)
  <2>4. /\ q \in -Half..Half /\ a - q * b \in -Half..Half
        /\ a - q * b < Magnitude(b) /\ -(a - q * b) < Magnitude(b)
    BY <1>1, <2>1, QuotientLeaves
  <2>5. a - b * q = a - q * b /\ a - q * b \in -Half..(Half - 1)
    <3> HIDE DEF q
    <3>1. q * b = b * q /\ q * b \in Int
      BY <1>1, <2>4
    <3>2. Magnitude(b) <= Half
      BY <1>1 DEF Magnitude
    <3> QED
      BY <1>1, <2>4, <3>1, <3>2 DEF Magnitude
  <2> QED
    BY <1>3, <2>1, <2>2, <2>3, <2>5
<1>9. CASE op \in {"eq", "ne", "lt", "le", "gt", "ge"}
  <2>1. ~Traps(op, a, b)
    BY <1>9 DEF Traps
  <2>2. /\ op = "eq" => FoldIntegers(op, a, b) = Boolean(a = b) /\ Wasm(op, a, b) = Bit(a = b)
        /\ op = "ne" => FoldIntegers(op, a, b) = Boolean(a # b) /\ Wasm(op, a, b) = Bit(a # b)
        /\ op = "lt" => FoldIntegers(op, a, b) = Boolean(a < b) /\ Wasm(op, a, b) = Bit(a < b)
        /\ op = "le" => FoldIntegers(op, a, b) = Boolean(a <= b) /\ Wasm(op, a, b) = Bit(a <= b)
        /\ op = "gt" => FoldIntegers(op, a, b) = Boolean(a > b) /\ Wasm(op, a, b) = Bit(a > b)
        /\ op = "ge" => FoldIntegers(op, a, b) = Boolean(a >= b) /\ Wasm(op, a, b) = Bit(a >= b)
    BY DEF FoldIntegers, Wasm
  <2>3. /\ Boolean(a = b).val = Bit(a = b) /\ Boolean(a # b).val = Bit(a # b)
        /\ Boolean(a < b).val = Bit(a < b) /\ Boolean(a <= b).val = Bit(a <= b)
        /\ Boolean(a > b).val = Bit(a > b) /\ Boolean(a >= b).val = Bit(a >= b)
    BY DEF Boolean, Bit
  <2> HIDE DEF Boolean
  <2> QED
    BY <1>9, <2>1, <2>2, <2>3
<1> QED
  BY <1>4, <1>5, <1>6, <1>7, <1>8, <1>9 DEF FoldIntegers

LEMMA BooleansRun ==
  ASSUME NEW op, NEW a, NEW b, FoldBooleans(op, a, b) # NotFolded
  PROVE  ~Traps(op, a, b) /\ Wasm(op, a, b) = FoldBooleans(op, a, b).val
<1>1. op \in {"and", "or", "eq", "ne"}
  BY DEF FoldBooleans
<1>2. ~Traps(op, a, b)
  BY <1>1 DEF Traps
<1>3. /\ op = "and" => /\ FoldBooleans(op, a, b) = Boolean(a = 1 /\ b = 1)
                       /\ Wasm(op, a, b) = Bit(a = 1 /\ b = 1)
      /\ op = "or" => /\ FoldBooleans(op, a, b) = Boolean(a = 1 \/ b = 1)
                      /\ Wasm(op, a, b) = Bit(a = 1 \/ b = 1)
      /\ op = "eq" => FoldBooleans(op, a, b) = Boolean(a = b) /\ Wasm(op, a, b) = Bit(a = b)
      /\ op = "ne" => FoldBooleans(op, a, b) = Boolean(a # b) /\ Wasm(op, a, b) = Bit(a # b)
  BY DEF FoldBooleans, Wasm
<1>4. /\ Boolean(a = 1 /\ b = 1).val = Bit(a = 1 /\ b = 1)
      /\ Boolean(a = 1 \/ b = 1).val = Bit(a = 1 \/ b = 1)
      /\ Boolean(a = b).val = Bit(a = b) /\ Boolean(a # b).val = Bit(a # b)
  BY DEF Boolean, Bit
<1> QED
  BY <1>1, <1>2, <1>3, <1>4

LEMMA BinaryRuns ==
  ASSUME NEW op, NEW l \in Constants, NEW r \in Constants, FoldBinary(op, l, r) # NotFolded
  PROVE  ~Traps(op, l.val, r.val) /\ Wasm(op, l.val, r.val) = FoldBinary(op, l, r).val
<1>1. \A c \in Constants : c.type = "int" => c.val \in -Half..(Half - 1)
  BY DEF Constants
<1>2. CASE l.type = "int" /\ r.type = "int"
  BY <1>1, <1>2, IntegersRun DEF FoldBinary
<1>3. CASE ~(l.type = "int" /\ r.type = "int") /\ l.type = "bool" /\ r.type = "bool"
  BY <1>3, BooleansRun DEF FoldBinary
<1>4. CASE ~(l.type = "int" /\ r.type = "int") /\ ~(l.type = "bool" /\ r.type = "bool")
  BY <1>4 DEF FoldBinary
<1> QED
  BY <1>2, <1>3, <1>4

LEMMA UnaryRuns ==
  ASSUME NEW op, NEW o \in Constants, FoldUnary(op, o) # NotFolded
  PROVE  WasmUnary(op, o.val) = FoldUnary(op, o).val
<1>1. Half \in Nat \ {0}
  BY HalfAssumption DEF HalfAssumption
<1>2. CASE op = "neg" /\ o.type = "int"
  <2>1. o.val \in Int /\ -o.val \in Int
    BY <1>1, <1>2 DEF Constants
  <2>2. Integer(-o.val).val = Signed(-o.val)
    BY <2>1, SignedWraps DEF Integer
  <2> QED
    BY <1>2, <2>2 DEF FoldUnary, WasmUnary
<1>3. CASE ~(op = "neg" /\ o.type = "int")
  <2>1. op = "not" /\ o.type = "bool" /\ FoldUnary(op, o) = Boolean(o.val = 0)
    BY <1>3 DEF FoldUnary
  <2> QED
    BY <2>1, BitsAreBooleans DEF WasmUnary
<1> QED
  BY <1>2, <1>3

-----------------------------------------------------------------------------
\* What an operand comes to when the values of K are constants, and what an instruction does.
ConstIn(K, o) ==
  IF o.value = NoValue THEN o.const ELSE IF o.value \in DOMAIN K THEN K[o.value] ELSE NotFolded
Result(K, i) ==
  CASE i.op = "binary" -> FoldBinary(i.sym, ConstIn(K, i.args[1]), ConstIn(K, i.args[2]))
    [] i.op = "unary" -> FoldUnary(i.sym, ConstIn(K, i.args[1]))
    [] OTHER -> NotFolded
Yields(K, i, c) ==
  \/ i.op = "copy" /\ i.args[1].value = NoValue /\ i.args[1].const = c
  \/ Result(K, i) = c /\ c # NotFolded

Constancy(K) == K \in [DOMAIN K -> Constants]

\* An instruction has the operands its operation takes.
Whole(i) ==
  /\ i \in Instruction
  /\ i.op \in {"copy", "unary", "load"} => Len(i.args) = 1
  /\ i.op \in {"binary", "address"} => Len(i.args) = 2
  /\ i.op = "select" => Len(i.args) = 3

LEMMA ArgsOf ==
  ASSUME NEW i, Whole(i)
  PROVE  /\ \A k \in DOMAIN i.args : i.args[k] \in Operand
         /\ \A k \in DOMAIN i.args : i.args[k].value \in Reads(i) \cup {NoValue}
         /\ DOMAIN i.args = 1..Len(i.args) /\ Len(i.args) \in Nat
         /\ i.op \in {"copy", "unary", "load"} => 1 \in DOMAIN i.args
         /\ i.op \in {"binary", "address"} => 1 \in DOMAIN i.args /\ 2 \in DOMAIN i.args
         /\ i.op = "select" => 1 \in DOMAIN i.args /\ 2 \in DOMAIN i.args /\ 3 \in DOMAIN i.args
<1>1. i.args \in Seq(Operand)
  BY DEF Whole, Instruction
<1>2. DOMAIN i.args = 1..Len(i.args) /\ Len(i.args) \in Nat
  BY <1>1
<1>3. \A k \in DOMAIN i.args : i.args[k] \in Operand
  <2>1. \A k \in 1..Len(i.args) : i.args[k] \in Operand
    BY <1>1
  <2> QED
    BY <1>2, <2>1
<1>4. \A k \in DOMAIN i.args : i.args[k].value \in Reads(i) \cup {NoValue}
  <2> DEFINE S == {i.args[k].value : k \in DOMAIN i.args}
  <2>1. Reads(i) = S \ {NoValue}
    BY DEF Reads
  <2>2. \A k \in DOMAIN i.args : i.args[k].value \in S
    OBVIOUS
  <2> HIDE DEF S
  <2> QED
    BY <2>1, <2>2
<1>5. /\ Len(i.args) = 1 => 1 \in DOMAIN i.args
      /\ Len(i.args) = 2 => 1 \in DOMAIN i.args /\ 2 \in DOMAIN i.args
      /\ Len(i.args) = 3 => 1 \in DOMAIN i.args /\ 2 \in DOMAIN i.args /\ 3 \in DOMAIN i.args
  BY <1>2
<1> QED
  BY <1>2, <1>3, <1>4, <1>5 DEF Whole

\* What is folded has constant operands.
LEMMA FoldedOperands ==
  ASSUME NEW K, Constancy(K), NEW i, Whole(i), Result(K, i) # NotFolded
  PROVE  /\ i.op \in {"unary", "binary"}
         /\ ConstIn(K, i.args[1]) \in Constants
         /\ i.op = "binary" => ConstIn(K, i.args[2]) \in Constants
<1>1. i.op \in {"unary", "binary"}
  BY DEF Result
<1>2. \A o \in Operand : ConstIn(K, o) \in Constants \/ ConstIn(K, o) = NotFolded
  BY DEF ConstIn, Operand, Constancy
<1>3. NotFolded.type = "none"
  BY DEF NotFolded
<1>4. CASE i.op = "unary"
  <2>1. ConstIn(K, i.args[1]) # NotFolded
    BY <1>3, <1>4 DEF Result, FoldUnary
  <2> QED
    BY <1>2, <1>4, <2>1, ArgsOf
<1>5. CASE i.op = "binary"
  <2>1. ConstIn(K, i.args[1]) # NotFolded /\ ConstIn(K, i.args[2]) # NotFolded
    BY <1>3, <1>5 DEF Result, FoldBinary
  <2> QED
    BY <1>2, <1>5, <2>1, ArgsOf
<1> QED
  BY <1>1, <1>4, <1>5

-----------------------------------------------------------------------------
\* States of runs.
Fields == {"at", "pc", "env", "pending", "scopes", "regions", "low", "unset", "events", "ended"}
IsState(s) == DOMAIN s = Fields

\* All of a state but these fields stays.
Stays(s, t, fields) ==
  /\ "at" \notin fields => t.at = s.at
  /\ "pc" \notin fields => t.pc = s.pc
  /\ "env" \notin fields => t.env = s.env
  /\ "pending" \notin fields => t.pending = s.pending
  /\ "scopes" \notin fields => t.scopes = s.scopes
  /\ "regions" \notin fields => t.regions = s.regions
  /\ "low" \notin fields => t.low = s.low
  /\ "unset" \notin fields => t.unset = s.unset
  /\ "events" \notin fields => t.events = s.events
  /\ "ended" \notin fields => t.ended = s.ended
  /\ IsState(t)

LEMMA StatesDefine ==
  ASSUME NEW s, IsState(s), NEW i, NEW val
  PROVE  LET t == Defines(s, i, val)
         IN t.pc = s.pc + 1 /\ t.env = Holding(s.env, i.dest, val) /\ Stays(s, t, {"pc", "env"})
<1> DEFINE t == Defines(s, i, val)
<1>1. t = [s EXCEPT !.pc = s.pc + 1, !.env = Holding(s.env, i.dest, val)]
  BY DEF Defines
<1>2. t.pc = s.pc + 1 /\ t.env = Holding(s.env, i.dest, val) /\ IsState(t)
  BY <1>1 DEF IsState, Fields
<1> QED
  BY <1>1, <1>2 DEF IsState, Fields, Stays

LEMMA StatesShow ==
  ASSUME NEW s, IsState(s), NEW event
  PROVE  LET t == Shows(s, event)
         IN t.events = Append(s.events, event) /\ Stays(s, t, {"events"})
  BY DEF Shows, IsState, Fields, Stays

LEMMA StatesEnd ==
  ASSUME NEW s, IsState(s), NEW how, NEW val
  PROVE  LET t == Ends(s, how, val)
         IN /\ t.events = Append(s.events, Event(how, "", val)) /\ t.ended = TRUE
            /\ Stays(s, t, {"events", "ended"})
<1> DEFINE r == Shows(s, Event(how, "", val))
<1>1. r.events = Append(s.events, Event(how, "", val)) /\ Stays(s, r, {"events"})
  BY StatesShow
<1>2. Ends(s, how, val) = [r EXCEPT !.ended = TRUE]
  BY DEF Ends
<1> HIDE DEF r
<1> QED
  BY <1>1, <1>2 DEF IsState, Fields, Stays

LEMMA StatesCount ==
  ASSUME NEW s, IsState(s), NEW m, NEW n
  PROVE  LET t == Counts(s, m, n)
         IN /\ t.pc = s.pc + 1 /\ t.scopes = s.scopes + m /\ t.regions = s.regions + n
            /\ t.low = Lesser(s.low, Lesser(s.scopes + m, s.regions + n))
            /\ Stays(s, t, {"pc", "scopes", "regions", "low"})
<1> DEFINE low == Lesser(s.low, Lesser(s.scopes + m, s.regions + n))
           t == [s EXCEPT !.pc = s.pc + 1, !.scopes = s.scopes + m, !.regions = s.regions + n,
                          !.low = low]
<1>1. Counts(s, m, n) = t
  BY DEF Counts
<1> HIDE DEF low
<1>2. /\ t.pc = s.pc + 1 /\ t.scopes = s.scopes + m /\ t.regions = s.regions + n /\ t.low = low
      /\ Stays(s, t, {"pc", "scopes", "regions", "low"})
  BY DEF IsState, Fields, Stays
<1> QED
  BY <1>1, <1>2 DEF low

Goes(s, b)  == [s EXCEPT !.at = b, !.pc = 1]
Skips(s)    == [s EXCEPT !.pc = @ + 1]
Pends(s, x) == [s EXCEPT !.pending = x]

LEMMA StatesGo ==
  ASSUME NEW s, IsState(s), NEW b
  PROVE  Goes(s, b).at = b /\ Goes(s, b).pc = 1 /\ Stays(s, Goes(s, b), {"at", "pc"})
  BY DEF IsState, Fields, Stays, Goes

LEMMA StatesSkip ==
  ASSUME NEW s, IsState(s)
  PROVE  Skips(s).pc = s.pc + 1 /\ Stays(s, Skips(s), {"pc"})
  BY DEF IsState, Fields, Stays, Skips

LEMMA StatesPend ==
  ASSUME NEW s, IsState(s), NEW x
  PROVE  Pends(s, x).pending = x /\ Stays(s, Pends(s, x), {"pending"})
  BY DEF IsState, Fields, Stays, Pends

-----------------------------------------------------------------------------
\* Two runs that show the same, and agree on the values that are still read.
Agree(R, e, f) ==
  \A v \in R : /\ v \in DOMAIN e <=> v \in DOMAIN f
               /\ v \in DOMAIN e => e[v] = f[v]
Alike(R, s, t) ==
  /\ IsState(s) /\ IsState(t) /\ Agree(R, s.env, t.env)
  /\ s.at = t.at /\ s.pc = t.pc /\ s.pending = t.pending /\ s.scopes = t.scopes
  /\ s.regions = t.regions /\ s.low = t.low /\ s.events = t.events /\ s.ended = t.ended

\* The values of K are what K says.
Holds(K, s) == \A v \in DOMAIN K \cap DOMAIN s.env : s.env[v] = K[v].val

\* The run of the blocks follows the run of the source, as long as that reads no value that
\* is not set.
Standing(bs, s) == s.at \in DOMAIN bs /\ s.pc \in Nat \ {0}
Follows(bs, K, s, t) ==
  /\ IsState(s) /\ IsState(t)
  /\ s.unset \/ (Alike(Read(bs), s, t) /\ Holds(K, s) /\ Standing(bs, s))

\* Each of the next states of one run is followed by, or follows, one of the other.
Matched(bs, K, S, T) ==
  /\ \A s \in S : \E t \in T : Follows(bs, K, s, t)
  /\ \A t \in T : \E s \in S : Follows(bs, K, s, t)

LEMMA BothGrow ==
  ASSUME NEW R, NEW e, NEW f, Agree(R, e, f), NEW d, NEW val
  PROVE  Agree(R, Holding(e, d, val), Holding(f, d, val))
<1> DEFINE g == Holding(e, d, val)
           h == Holding(f, d, val)
<1>1. /\ DOMAIN g = {d} \cup DOMAIN e /\ g[d] = val
      /\ \A v \in DOMAIN e : v # d => g[v] = e[v]
      /\ DOMAIN h = {d} \cup DOMAIN f /\ h[d] = val
      /\ \A v \in DOMAIN f : v # d => h[v] = f[v]
  BY DEF Holding
<1> HIDE DEF g, h
<1>2. ASSUME NEW v \in R
      PROVE  (v \in DOMAIN g <=> v \in DOMAIN h) /\ (v \in DOMAIN g => g[v] = h[v])
  <2>1. (v \in DOMAIN e <=> v \in DOMAIN f) /\ (v \in DOMAIN e => e[v] = f[v])
    BY <1>2 DEF Agree
  <2>2. CASE v = d
    BY <1>1, <2>2
  <2>3. CASE v # d
    BY <1>1, <2>1, <2>3
  <2> QED
    BY <2>2, <2>3
<1> QED
  BY <1>2 DEF Agree, g, h

LEMMA OneGrows ==
  ASSUME NEW R, NEW e, NEW f, Agree(R, e, f), NEW d, d \notin R, NEW val
  PROVE  Agree(R, Holding(e, d, val), f)
<1> DEFINE g == Holding(e, d, val)
<1>1. DOMAIN g = {d} \cup DOMAIN e /\ \A v \in DOMAIN e : v # d => g[v] = e[v]
  BY DEF Holding
<1> HIDE DEF g
<1>2. ASSUME NEW v \in R
      PROVE  (v \in DOMAIN g <=> v \in DOMAIN f) /\ (v \in DOMAIN g => g[v] = f[v])
  <2>1. (v \in DOMAIN e <=> v \in DOMAIN f) /\ (v \in DOMAIN e => e[v] = f[v])
    BY <1>2 DEF Agree
  <2>2. v # d
    BY <1>2
  <2> QED
    BY <1>1, <2>1, <2>2
<1> QED
  BY <1>2 DEF Agree, g

LEMMA StillHolds ==
  ASSUME NEW K, NEW s, NEW u, Holds(K, s), NEW d, NEW val, u.env = Holding(s.env, d, val),
         d \in DOMAIN K => val = K[d].val
  PROVE  Holds(K, u)
<1>1. /\ DOMAIN u.env = {d} \cup DOMAIN s.env /\ u.env[d] = val
      /\ \A v \in DOMAIN s.env : v # d => u.env[v] = s.env[v]
  BY DEF Holding
<1>2. ASSUME NEW v \in DOMAIN K, v \in DOMAIN u.env
      PROVE  u.env[v] = K[v].val
  <2>1. CASE v = d
    BY <1>1, <1>2, <2>1
  <2>2. CASE v # d
    BY <1>1, <1>2, <2>2 DEF Holds
  <2> QED
    BY <2>1, <2>2
<1> QED
  BY <1>2 DEF Holds

\* Both define a value, to the same.
LEMMA BothDefine ==
  ASSUME NEW bs, NEW K, NEW s, NEW t, NEW i, NEW j, NEW val,
         Alike(Read(bs), s, t), Holds(K, s), Standing(bs, s),
         j.dest = i.dest, i.dest \in DOMAIN K => val = K[i.dest].val
  PROVE  /\ Alike(Read(bs), Defines(s, i, val), Defines(t, j, val))
         /\ Holds(K, Defines(s, i, val)) /\ Standing(bs, Defines(s, i, val))
<1>1. IsState(s) /\ IsState(t)
  BY DEF Alike
<1> DEFINE u == Defines(s, i, val)
           w == Defines(t, j, val)
<1>2. /\ u.pc = s.pc + 1 /\ u.env = Holding(s.env, i.dest, val) /\ Stays(s, u, {"pc", "env"})
      /\ w.pc = t.pc + 1 /\ w.env = Holding(t.env, i.dest, val) /\ Stays(t, w, {"pc", "env"})
  BY <1>1, StatesDefine
<1> HIDE DEF u, w
<1>3. Agree(Read(bs), u.env, w.env)
  <2>1. Agree(Read(bs), s.env, t.env)
    BY DEF Alike
  <2> QED
    BY <1>2, <2>1, BothGrow
<1>4. Alike(Read(bs), u, w)
  BY <1>2, <1>3 DEF Alike, Stays
<1>5. Holds(K, u)
  BY <1>2, StillHolds
<1>6. Standing(bs, u)
  BY <1>2 DEF Standing, Stays
<1> QED
  BY <1>4, <1>5, <1>6 DEF u, w

\* Only the source defines a value, which is not read.
LEMMA OneDefines ==
  ASSUME NEW bs, NEW K, NEW s, NEW t, NEW i, NEW val,
         Alike(Read(bs), s, t), Holds(K, s), Standing(bs, s),
         i.dest \notin Read(bs), i.dest \in DOMAIN K => val = K[i.dest].val
  PROVE  /\ Alike(Read(bs), Defines(s, i, val), Skips(t))
         /\ Holds(K, Defines(s, i, val)) /\ Standing(bs, Defines(s, i, val))
<1>1. IsState(s) /\ IsState(t)
  BY DEF Alike
<1> DEFINE u == Defines(s, i, val)
           w == Skips(t)
<1>2. u.pc = s.pc + 1 /\ u.env = Holding(s.env, i.dest, val) /\ Stays(s, u, {"pc", "env"})
  BY <1>1, StatesDefine
<1>3. w.pc = t.pc + 1 /\ Stays(t, w, {"pc"})
  BY <1>1, StatesSkip
<1> HIDE DEF u, w
<1>4. Agree(Read(bs), u.env, w.env)
  <2>1. Agree(Read(bs), s.env, t.env) /\ w.env = t.env
    BY <1>3 DEF Alike, Stays
  <2> QED
    BY <1>2, <2>1, OneGrows
<1>5. Alike(Read(bs), u, w)
  BY <1>2, <1>3, <1>4 DEF Alike, Stays
<1>6. Holds(K, u)
  BY <1>2, StillHolds
<1>7. Standing(bs, u)
  BY <1>2 DEF Standing, Stays
<1> QED
  BY <1>5, <1>6, <1>7 DEF u, w

\* Both change in the same way.
LEMMA BothChange ==
  ASSUME NEW bs, NEW K, NEW s, NEW t, NEW u, NEW w,
         Alike(Read(bs), s, t), Holds(K, s), Standing(bs, s), IsState(u), IsState(w),
         u.env = s.env, w.env = t.env, u.at \in DOMAIN bs, u.pc \in Nat \ {0},
         u.at = w.at, u.pc = w.pc, u.pending = w.pending, u.scopes = w.scopes,
         u.regions = w.regions, u.low = w.low, u.events = w.events, u.ended = w.ended
  PROVE  Alike(Read(bs), u, w) /\ Holds(K, u) /\ Standing(bs, u)
  BY DEF Alike, Holds, Standing

-----------------------------------------------------------------------------
\* Operands.
LEMMA OperandsAgree ==
  ASSUME NEW R, NEW s, NEW t, Agree(R, s.env, t.env), NEW o, o.value \in R \cup {NoValue}
  PROVE  Operated(s, o) = Operated(t, o)
  BY DEF Agree, Operated

LEMMA OperandsHold ==
  ASSUME NEW K, NEW s, Holds(K, s), NEW o, ConstIn(K, o) # NotFolded,
         o.value \in DOMAIN s.env \cup {NoValue}
  PROVE  Operated(s, o) = ConstIn(K, o).val
  BY DEF Holds, Operated, ConstIn

LEMMA NotedStays ==
  ASSUME NEW s, IsState(s), NEW i
  PROVE  /\ (Noted(s, i).unset <=> s.unset \/ Unset(s, i))
         /\ Stays(s, Noted(s, i), {"unset"})
         /\ \A o : Operated(Noted(s, i), o) = Operated(s, o)
<1> DEFINE n == Noted(s, i)
           x == s.unset \/ Unset(s, i)
<1>1. n = [s EXCEPT !.unset = x]
  BY DEF Noted
<1>2. n.unset = x /\ Stays(s, n, {"unset"})
  <2> HIDE DEF x
  <2> QED
    BY <1>1 DEF IsState, Fields, Stays
<1> HIDE DEF n
<1>3. \A o : Operated(n, o) = Operated(s, o)
  BY <1>2 DEF Stays, Operated
<1> QED
  BY <1>2, <1>3 DEF n

\* What an instruction that only defines a value gives it.
Valued(i) == i.op \in {"copy", "load", "address", "unary", "binary", "select"}
Gives(s, i) ==
  LET Arg(k) == Operated(s, i.args[k])
  IN CASE i.op \in {"copy", "load"} -> Arg(1)
       [] i.op = "address" -> Arg(2)
       [] i.op = "unary" -> WasmUnary(i.sym, Arg(1))
       [] i.op = "binary" -> Wasm(i.sym, Arg(1), Arg(2))
       [] OTHER -> IF Arg(1) = 1 THEN Arg(2) ELSE Arg(3)
Trapping(s, i) == i.op = "binary" /\ Traps(i.sym, Operated(s, i.args[1]), Operated(s, i.args[2]))

LEMMA ValuedRuns ==
  ASSUME NEW s, NEW i, Valued(i)
  PROVE  Executed(s, i) = IF Trapping(s, i) THEN {Ends(s, "trap", 0)} ELSE {Defines(s, i, Gives(s, i))}
<1>1. CASE i.op \in {"copy", "load"}
  BY <1>1 DEF Executed, Trapping, Gives
<1>2. CASE i.op = "address"
  BY <1>2 DEF Executed, Trapping, Gives
<1>3. CASE i.op = "unary"
  BY <1>3 DEF Executed, Trapping, Gives
<1>4. CASE i.op = "binary"
  BY <1>4 DEF Executed, Trapping, Gives
<1>5. CASE i.op = "select"
  BY <1>5 DEF Executed, Trapping, Gives
<1> QED
  BY <1>1, <1>2, <1>3, <1>4, <1>5 DEF Valued

\* What K says of a value is what an instruction that defines it gives it.
LEMMA YieldedComes ==
  ASSUME NEW K, Constancy(K), NEW s, Holds(K, s), NEW i, Whole(i), ~Unset(s, i),
         NEW c, Yields(K, i, c)
  PROVE  Valued(i) /\ ~Trapping(s, i) /\ Gives(s, i) = c.val
<1>1. CASE i.op = "copy" /\ i.args[1].value = NoValue /\ i.args[1].const = c
  BY <1>1 DEF Valued, Trapping, Gives, Operated
<1>2. CASE Result(K, i) = c /\ c # NotFolded
  <2>1. /\ i.op \in {"unary", "binary"}
        /\ ConstIn(K, i.args[1]) \in Constants
        /\ i.op = "binary" => ConstIn(K, i.args[2]) \in Constants
    BY <1>2, FoldedOperands
  <2>2. NotFolded \notin Constants
    BY DEF NotFolded, Constants
  <2>3. \A k \in DOMAIN i.args : i.args[k].value \in DOMAIN s.env \cup {NoValue}
    BY <2>1, ArgsOf DEF Unset
  <2>4. Operated(s, i.args[1]) = ConstIn(K, i.args[1]).val
    <3>1. 1 \in DOMAIN i.args
      BY <2>1, ArgsOf
    <3> QED
      BY <2>1, <2>2, <2>3, <3>1, OperandsHold
  <2>5. i.op = "binary" => Operated(s, i.args[2]) = ConstIn(K, i.args[2]).val
    <3>1. i.op = "binary" => 2 \in DOMAIN i.args
      BY ArgsOf
    <3> QED
      BY <2>1, <2>2, <2>3, <3>1, OperandsHold
  <2>6. CASE i.op = "unary"
    <3>1. FoldUnary(i.sym, ConstIn(K, i.args[1])) = c
      BY <1>2, <2>6 DEF Result
    <3>2. WasmUnary(i.sym, ConstIn(K, i.args[1]).val) = c.val
      BY <1>2, <2>1, <3>1, UnaryRuns
    <3> QED
      BY <2>4, <2>6, <3>2 DEF Valued, Trapping, Gives
  <2>7. CASE i.op = "binary"
    <3>1. FoldBinary(i.sym, ConstIn(K, i.args[1]), ConstIn(K, i.args[2])) = c
      BY <1>2, <2>7 DEF Result
    <3>2. /\ ~Traps(i.sym, ConstIn(K, i.args[1]).val, ConstIn(K, i.args[2]).val)
          /\ Wasm(i.sym, ConstIn(K, i.args[1]).val, ConstIn(K, i.args[2]).val) = c.val
      BY <1>2, <2>1, <2>7, <3>1, BinaryRuns
    <3> QED
      BY <2>4, <2>5, <2>7, <3>2 DEF Valued, Trapping, Gives
  <2> QED
    BY <2>1, <2>6, <2>7
<1> QED
  BY <1>1, <1>2 DEF Yields

-----------------------------------------------------------------------------
\* The steps of an instruction lead to states, and forget nothing that was noted.
LEMMA CalledGoesOn ==
  ASSUME NEW s, IsState(s), NEW i
  PROVE  Called(s, i) # {} /\ \A u \in Called(s, i) : IsState(u) /\ u.unset = s.unset
<1> DEFINE Fine(u) == IsState(u) /\ u.unset = s.unset
<1>1. \A val : Fine(Defines(s, i, val))
  BY StatesDefine DEF Stays
<1>2. \A m, n : Fine(Counts(s, m, n))
  BY StatesCount DEF Stays
<1>3. ASSUME NEW r, Fine(r), NEW event
      PROVE  Fine(Shows(r, event))
  BY <1>3, StatesShow DEF Stays
<1>4. ASSUME NEW r, Fine(r), NEW x
      PROVE  Fine(Pends(r, x))
  BY <1>4, StatesPend DEF Stays
<1> HIDE DEF Fine
<1>5. \A val, event : Fine(Shows(Defines(s, i, val), event))
  BY <1>1, <1>3
<1> DEFINE raised == Pends(Shows(Defines(s, i, 0), Event("raise", i.sym, 0)), TRUE)
           returned == Shows(Defines(s, i, 1), Event("call", i.sym, 1))
           taken == Pends(Defines(s, i, Bit(s.pending)), FALSE)
           printed == Shows(Defines(s, i, 0), Event("print", "", Operated(s, i.args[1])))
<1>6. Fine(raised) /\ Fine(returned) /\ Fine(taken) /\ Fine(printed)
  BY <1>1, <1>4, <1>5
<1>7. \/ Called(s, i) = {printed} \/ (\E m, n : Called(s, i) = {Counts(s, m, n)})
      \/ Called(s, i) = {taken} \/ Called(s, i) = {returned, raised}
  BY DEF Called, Pends
<1> HIDE DEF printed, taken, returned, raised
<1>8. Called(s, i) # {} /\ \A u \in Called(s, i) : Fine(u)
  BY <1>2, <1>6, <1>7
<1> QED
  BY <1>8 DEF Fine

LEMMA ExecutedGoesOn ==
  ASSUME NEW s, IsState(s), NEW i
  PROVE  Executed(s, i) # {} /\ \A u \in Executed(s, i) : IsState(u) /\ u.unset = s.unset
<1> DEFINE Fine(u) == IsState(u) /\ u.unset = s.unset
<1>1. \A val : Fine(Defines(s, i, val))
  BY StatesDefine DEF Stays
<1>2. \A how, val : Fine(Ends(s, how, val))
  <2> SUFFICES ASSUME NEW how, NEW val PROVE Fine(Ends(s, how, val))
    OBVIOUS
  <2>1. Stays(s, Ends(s, how, val), {"events", "ended"})
    BY StatesEnd
  <2> QED
    BY <2>1 DEF Stays
<1>3. \A val, event : Fine(Shows(Defines(s, i, val), event))
  BY <1>1, StatesShow DEF Stays
<1>4. \A b : Fine(Goes(s, b))
  BY StatesGo DEF Stays
<1>5. Fine(Skips(s))
  BY StatesSkip DEF Stays
<1> HIDE DEF Fine
<1>6. Executed(s, i) # {} /\ \A u \in Executed(s, i) : Fine(u)
  <2>1. CASE Valued(i)
    BY <1>1, <1>2, <2>1, ValuedRuns
  <2>2. CASE i.op = "opaque"
    <3>1. Executed(s, i) = {Shows(Defines(s, i, a), Event("cond", i.sym, a)) : a \in {0, 1}}
      BY <2>2 DEF Executed
    <3> QED
      BY <1>3, <3>1
  <2>3. CASE i.op = "call"
    <3>1. Executed(s, i) = Called(s, i)
      BY <2>3 DEF Executed
    <3> QED
      BY <3>1, CalledGoesOn DEF Fine
  <2>4. CASE i.op = "check" /\ s.pending
    <3>1. Executed(s, i) = {Ends(s, "unwound", 0)} \/ Executed(s, i) = {Goes(s, i.exit)}
      BY <2>4 DEF Executed, Goes
    <3> QED
      BY <1>2, <1>4, <3>1
  <2>5. CASE ~Valued(i) /\ i.op \notin {"opaque", "call"} /\ ~(i.op = "check" /\ s.pending)
    <3>1. Executed(s, i) = {Skips(s)}
      BY <2>5 DEF Executed, Valued, Skips
    <3> QED
      BY <1>5, <3>1
  <2> QED
    BY <2>1, <2>2, <2>3, <2>4, <2>5
<1> QED
  BY <1>6 DEF Fine

\* Once the source has read a value that is not set, it no longer matters what happens.
LEMMA UnsetMatches ==
  ASSUME NEW bs, NEW K, NEW S, NEW T, S # {}, T # {},
         \A u \in S : IsState(u) /\ u.unset, \A w \in T : IsState(w)
  PROVE  Matched(bs, K, S, T)
<1>1. \A u \in S : \A w \in T : Follows(bs, K, u, w)
  BY DEF Follows
<1> QED
  BY <1>1 DEF Matched

-----------------------------------------------------------------------------
\* An instruction that both still have.
LEMMA CallMatches ==
  ASSUME NEW bs, NEW K, NEW s, NEW t, NEW i,
         Alike(Read(bs), s, t), Holds(K, s), Standing(bs, s), Whole(i),
         Reads(i) \subseteq Read(bs), i.dest \notin DOMAIN K
  PROVE  Matched(bs, K, Called(s, i), Called(t, i))
<1>1. IsState(s) /\ IsState(t) /\ s.pending = t.pending /\ s.scopes = t.scopes
      /\ s.regions = t.regions /\ s.low = t.low /\ s.pc \in Nat \ {0}
  BY DEF Alike, Standing
<1>2. ASSUME NEW val
      PROVE  /\ IsState(Defines(s, i, val)) /\ IsState(Defines(t, i, val))
             /\ Alike(Read(bs), Defines(s, i, val), Defines(t, i, val))
             /\ Holds(K, Defines(s, i, val)) /\ Standing(bs, Defines(s, i, val))
  BY BothDefine DEF Alike
<1>3. ASSUME NEW u, NEW w, Alike(Read(bs), u, w), Holds(K, u), Standing(bs, u), NEW event
      PROVE  /\ Alike(Read(bs), Shows(u, event), Shows(w, event))
             /\ Holds(K, Shows(u, event)) /\ Standing(bs, Shows(u, event))
  <2> DEFINE v == Shows(u, event)
             x == Shows(w, event)
  <2>1. /\ v.events = Append(u.events, event) /\ Stays(u, v, {"events"})
        /\ x.events = Append(w.events, event) /\ Stays(w, x, {"events"})
    BY <1>3, StatesShow DEF Alike
  <2> HIDE DEF v, x
  <2>2. Alike(Read(bs), v, x) /\ Holds(K, v) /\ Standing(bs, v)
    <3>1. /\ IsState(v) /\ IsState(x) /\ v.env = u.env /\ x.env = w.env
          /\ v.at = x.at /\ v.pc = x.pc /\ v.pending = x.pending /\ v.scopes = x.scopes
          /\ v.regions = x.regions /\ v.low = x.low /\ v.events = x.events /\ v.ended = x.ended
          /\ v.at \in DOMAIN bs /\ v.pc \in Nat \ {0}
      BY <1>3, <2>1 DEF Stays, Alike, Standing
    <3> QED
      BY <1>3, <3>1, BothChange
  <2> QED
    BY <2>2 DEF v, x
<1>4. ASSUME NEW u, NEW w, Alike(Read(bs), u, w), Holds(K, u), Standing(bs, u), NEW p
      PROVE  /\ Alike(Read(bs), Pends(u, p), Pends(w, p))
             /\ Holds(K, Pends(u, p)) /\ Standing(bs, Pends(u, p))
  <2> DEFINE v == Pends(u, p)
             x == Pends(w, p)
  <2>1. /\ v.pending = p /\ Stays(u, v, {"pending"})
        /\ x.pending = p /\ Stays(w, x, {"pending"})
    BY <1>4, StatesPend DEF Alike
  <2> HIDE DEF v, x
  <2>2. Alike(Read(bs), v, x) /\ Holds(K, v) /\ Standing(bs, v)
    <3>1. /\ IsState(v) /\ IsState(x) /\ v.env = u.env /\ x.env = w.env
          /\ v.at = x.at /\ v.pc = x.pc /\ v.pending = x.pending /\ v.scopes = x.scopes
          /\ v.regions = x.regions /\ v.low = x.low /\ v.events = x.events /\ v.ended = x.ended
          /\ v.at \in DOMAIN bs /\ v.pc \in Nat \ {0}
      BY <1>4, <2>1 DEF Stays, Alike, Standing
    <3> QED
      BY <1>4, <3>1, BothChange
  <2> QED
    BY <2>2 DEF v, x
<1>5. ASSUME NEW m, NEW n
      PROVE  /\ Alike(Read(bs), Counts(s, m, n), Counts(t, m, n))
             /\ Holds(K, Counts(s, m, n)) /\ Standing(bs, Counts(s, m, n))
  <2> DEFINE v == Counts(s, m, n)
             x == Counts(t, m, n)
  <2>1. /\ v.pc = s.pc + 1 /\ v.scopes = s.scopes + m /\ v.regions = s.regions + n
        /\ v.low = Lesser(s.low, Lesser(s.scopes + m, s.regions + n))
        /\ Stays(s, v, {"pc", "scopes", "regions", "low"})
    BY <1>1, StatesCount
  <2>2. /\ x.pc = t.pc + 1 /\ x.scopes = t.scopes + m /\ x.regions = t.regions + n
        /\ x.low = Lesser(t.low, Lesser(t.scopes + m, t.regions + n))
        /\ Stays(t, x, {"pc", "scopes", "regions", "low"})
    BY <1>1, StatesCount
  <2> HIDE DEF v, x
  <2>3. Alike(Read(bs), v, x) /\ Holds(K, v) /\ Standing(bs, v)
    <3>1. /\ IsState(v) /\ IsState(x) /\ v.env = s.env /\ x.env = t.env
          /\ v.at = x.at /\ v.pc = x.pc /\ v.pending = x.pending /\ v.scopes = x.scopes
          /\ v.regions = x.regions /\ v.low = x.low /\ v.events = x.events /\ v.ended = x.ended
          /\ v.at \in DOMAIN bs /\ v.pc \in Nat \ {0}
      BY <2>1, <2>2 DEF Stays, Alike, Standing
    <3> QED
      BY <3>1, BothChange
  <2> QED
    BY <2>3 DEF v, x
<1>6. ASSUME NEW u, NEW w, Alike(Read(bs), u, w), Holds(K, u), Standing(bs, u)
      PROVE  Follows(bs, K, u, w)
  BY <1>6 DEF Follows, Alike
<1>7. CASE i.sym = "print" /\ Len(i.args) = 1
  <2>1. Operated(s, i.args[1]) = Operated(t, i.args[1])
    <3>1. 1 \in DOMAIN i.args /\ i.args[1].value \in Read(bs) \cup {NoValue}
      BY <1>7, ArgsOf
    <3> QED
      BY <3>1, OperandsAgree DEF Alike
  <2> DEFINE event == Event("print", "", Operated(s, i.args[1]))
  <2>2. /\ Called(s, i) = {Shows(Defines(s, i, 0), event)}
        /\ Called(t, i) = {Shows(Defines(t, i, 0), event)}
    BY <1>7, <2>1 DEF Called
  <2> HIDE DEF event
  <2> QED
    BY <1>2, <1>3, <1>6, <2>2 DEF Matched
<1>8. CASE i.sym \in {"mem_scope_push", "mem_scope_pop", "__err_enter", "__err_leave"}
  <2>1. PICK m, n : Called(s, i) = {Counts(s, m, n)} /\ Called(t, i) = {Counts(t, m, n)}
    BY <1>8 DEF Called
  <2> QED
    BY <1>5, <1>6, <2>1 DEF Matched
<1>9. CASE i.sym = "__err_take"
  <2>1. /\ Called(s, i) = {Pends(Defines(s, i, Bit(s.pending)), FALSE)}
        /\ Called(t, i) = {Pends(Defines(t, i, Bit(s.pending)), FALSE)}
    BY <1>1, <1>9 DEF Called, Pends
  <2> DEFINE u == Defines(s, i, Bit(s.pending))
             w == Defines(t, i, Bit(s.pending))
  <2>2. Alike(Read(bs), u, w) /\ Holds(K, u) /\ Standing(bs, u)
    BY <1>2
  <2> HIDE DEF u, w
  <2>3. Follows(bs, K, Pends(u, FALSE), Pends(w, FALSE))
    BY <1>4, <1>6, <2>2, Zenon
  <2> QED
    BY <2>1, <2>3 DEF Matched, u, w
<1>10. CASE ~(i.sym = "print" /\ Len(i.args) = 1)
            /\ i.sym \notin {"mem_scope_push", "mem_scope_pop", "__err_enter", "__err_leave", "__err_take"}
  <2> DEFINE returns(r) == Shows(Defines(r, i, 1), Event("call", i.sym, 1))
             raises(r) == Shows(Defines(r, i, 0), Event("raise", i.sym, 0))
  <2>1. /\ Called(s, i) = {returns(s), Pends(raises(s), TRUE)}
        /\ Called(t, i) = {returns(t), Pends(raises(t), TRUE)}
    BY <1>10 DEF Called, Pends
  <2>2. /\ Alike(Read(bs), returns(s), returns(t)) /\ Holds(K, returns(s)) /\ Standing(bs, returns(s))
        /\ Alike(Read(bs), raises(s), raises(t)) /\ Holds(K, raises(s)) /\ Standing(bs, raises(s))
    BY <1>2, <1>3
  <2> HIDE DEF returns, raises
  <2>3. Follows(bs, K, Pends(raises(s), TRUE), Pends(raises(t), TRUE))
    BY <1>4, <1>6, <2>2, Zenon
  <2>4. Follows(bs, K, returns(s), returns(t))
    BY <1>6, <2>2
  <2> QED
    BY <2>1, <2>3, <2>4 DEF Matched
<1> QED
  BY <1>7, <1>8, <1>9, <1>10

-----------------------------------------------------------------------------
\* What the optimiser may make of an instruction, if K is right.
Rewritten(K, was, is) ==
  \/ is = was
  \/ Result(K, was) # NotFolded /\ is = Copy(was.dest, Constant(Result(K, was)))
  \/ is = Gone /\ ~HasSideEffects(was)

\* One state of each run, of which one follows the other, and no more.
LEMMA OnesMatch ==
  ASSUME NEW bs, NEW K, NEW u, NEW w, Alike(Read(bs), u, w), Holds(K, u), Standing(bs, u)
  PROVE  Matched(bs, K, {u}, {w})
<1>1. Follows(bs, K, u, w)
  BY DEF Follows, Alike
<1> QED
  BY <1>1 DEF Matched

LEMMA EndsMatch ==
  ASSUME NEW bs, NEW K, NEW s, NEW t, NEW how, NEW val,
         Alike(Read(bs), s, t), Holds(K, s), Standing(bs, s)
  PROVE  Matched(bs, K, {Ends(s, how, val)}, {Ends(t, how, val)})
<1> DEFINE u == Ends(s, how, val)
           w == Ends(t, how, val)
<1>1. IsState(s) /\ IsState(t)
  BY DEF Alike
<1>2. /\ u.events = Append(s.events, Event(how, "", val)) /\ u.ended = TRUE
      /\ Stays(s, u, {"events", "ended"})
  BY <1>1, StatesEnd
<1>3. /\ w.events = Append(t.events, Event(how, "", val)) /\ w.ended = TRUE
      /\ Stays(t, w, {"events", "ended"})
  BY <1>1, StatesEnd
<1> HIDE DEF u, w
<1>4. /\ IsState(u) /\ IsState(w) /\ u.env = s.env /\ w.env = t.env
      /\ u.at = w.at /\ u.pc = w.pc /\ u.pending = w.pending /\ u.scopes = w.scopes
      /\ u.regions = w.regions /\ u.low = w.low /\ u.events = w.events /\ u.ended = w.ended
      /\ u.at \in DOMAIN bs /\ u.pc \in Nat \ {0}
  BY <1>2, <1>3 DEF Stays, Alike, Standing
<1>5. Alike(Read(bs), u, w) /\ Holds(K, u) /\ Standing(bs, u)
  BY <1>4, BothChange
<1>6. Matched(bs, K, {u}, {w})
  BY <1>5, OnesMatch
<1> QED
  BY <1>6 DEF u, w

LEMMA GoesMatch ==
  ASSUME NEW bs, NEW K, NEW s, NEW t, NEW b \in DOMAIN bs,
         Alike(Read(bs), s, t), Holds(K, s), Standing(bs, s)
  PROVE  Matched(bs, K, {Goes(s, b)}, {Goes(t, b)})
<1> DEFINE u == Goes(s, b)
           w == Goes(t, b)
<1>1. u.at = b /\ u.pc = 1 /\ Stays(s, u, {"at", "pc"})
  BY StatesGo DEF Alike
<1>2. w.at = b /\ w.pc = 1 /\ Stays(t, w, {"at", "pc"})
  BY StatesGo DEF Alike
<1> HIDE DEF u, w
<1>3. /\ IsState(u) /\ IsState(w) /\ u.env = s.env /\ w.env = t.env
      /\ u.at = w.at /\ u.pc = w.pc /\ u.pending = w.pending /\ u.scopes = w.scopes
      /\ u.regions = w.regions /\ u.low = w.low /\ u.events = w.events /\ u.ended = w.ended
      /\ u.at \in DOMAIN bs /\ u.pc \in Nat \ {0}
  BY <1>1, <1>2 DEF Stays, Alike, Standing
<1>4. Alike(Read(bs), u, w) /\ Holds(K, u) /\ Standing(bs, u)
  BY <1>3, BothChange
<1>5. Matched(bs, K, {u}, {w})
  BY <1>4, OnesMatch
<1> QED
  BY <1>5 DEF u, w

LEMMA SkipsMatch ==
  ASSUME NEW bs, NEW K, NEW s, NEW t, Alike(Read(bs), s, t), Holds(K, s), Standing(bs, s)
  PROVE  Matched(bs, K, {Skips(s)}, {Skips(t)})
<1> DEFINE u == Skips(s)
           w == Skips(t)
<1>1. u.pc = s.pc + 1 /\ Stays(s, u, {"pc"})
  BY StatesSkip DEF Alike
<1>2. w.pc = t.pc + 1 /\ Stays(t, w, {"pc"})
  BY StatesSkip DEF Alike
<1> HIDE DEF u, w
<1>3. /\ IsState(u) /\ IsState(w) /\ u.env = s.env /\ w.env = t.env
      /\ u.at = w.at /\ u.pc = w.pc /\ u.pending = w.pending /\ u.scopes = w.scopes
      /\ u.regions = w.regions /\ u.low = w.low /\ u.events = w.events /\ u.ended = w.ended
      /\ u.at \in DOMAIN bs /\ u.pc \in Nat \ {0}
  BY <1>1, <1>2 DEF Stays, Alike, Standing
<1>4. Alike(Read(bs), u, w) /\ Holds(K, u) /\ Standing(bs, u)
  BY <1>3, BothChange
<1>5. Matched(bs, K, {u}, {w})
  BY <1>4, OnesMatch
<1> QED
  BY <1>5 DEF u, w

-----------------------------------------------------------------------------
\* An instruction both have: its operands are still read, and so are the same.
LEMMA SameComes ==
  ASSUME NEW R, NEW s, NEW t, Agree(R, s.env, t.env), NEW i, Whole(i), Reads(i) \subseteq R,
         Valued(i)
  PROVE  Gives(t, i) = Gives(s, i) /\ (Trapping(t, i) <=> Trapping(s, i))
<1>1. \A k \in DOMAIN i.args : Operated(t, i.args[k]) = Operated(s, i.args[k])
  <2> SUFFICES ASSUME NEW k \in DOMAIN i.args
               PROVE  Operated(t, i.args[k]) = Operated(s, i.args[k])
    OBVIOUS
  <2>1. i.args[k].value \in R \cup {NoValue}
    BY ArgsOf
  <2> QED
    BY <2>1, OperandsAgree
<1>2. CASE i.op \in {"copy", "load", "unary"}
  <2>1. Operated(t, i.args[1]) = Operated(s, i.args[1])
    BY <1>1, <1>2, ArgsOf
  <2> QED
    BY <1>2, <2>1 DEF Gives, Trapping
<1>3. CASE i.op \in {"address", "binary"}
  <2>1. /\ Operated(t, i.args[1]) = Operated(s, i.args[1])
        /\ Operated(t, i.args[2]) = Operated(s, i.args[2])
    BY <1>1, <1>3, ArgsOf
  <2> QED
    BY <1>3, <2>1 DEF Gives, Trapping
<1>4. CASE i.op = "select"
  <2>1. /\ Operated(t, i.args[1]) = Operated(s, i.args[1])
        /\ Operated(t, i.args[2]) = Operated(s, i.args[2])
        /\ Operated(t, i.args[3]) = Operated(s, i.args[3])
    BY <1>1, <1>4, ArgsOf
  <2> QED
    BY <1>4, <2>1 DEF Gives, Trapping
<1> QED
  BY <1>2, <1>3, <1>4 DEF Valued

LEMMA SameMatches ==
  ASSUME NEW bs, NEW K, Constancy(K), NEW s, NEW t, NEW i,
         Alike(Read(bs), s, t), Holds(K, s), Standing(bs, s), Whole(i), ~Unset(s, i),
         Reads(i) \subseteq Read(bs), i.dest \in DOMAIN K => Yields(K, i, K[i.dest]),
         i.exit \in DOMAIN bs \cup {NoBlock}
  PROVE  Matched(bs, K, Executed(s, i), Executed(t, i))
<1>1. ASSUME i.dest \in DOMAIN K
      PROVE  Valued(i) /\ ~Trapping(s, i) /\ Gives(s, i) = K[i.dest].val
  BY <1>1, YieldedComes
<1>2. CASE Valued(i)
  <2>1. Gives(t, i) = Gives(s, i) /\ (Trapping(t, i) <=> Trapping(s, i))
    BY <1>2, SameComes DEF Alike
  <2>2. CASE Trapping(s, i)
    <3>1. Executed(s, i) = {Ends(s, "trap", 0)} /\ Executed(t, i) = {Ends(t, "trap", 0)}
      BY <1>2, <2>1, <2>2, ValuedRuns
    <3> QED
      BY <3>1, EndsMatch
  <2>3. CASE ~Trapping(s, i)
    <3>1. /\ Executed(s, i) = {Defines(s, i, Gives(s, i))}
          /\ Executed(t, i) = {Defines(t, i, Gives(s, i))}
      BY <1>2, <2>1, <2>3, ValuedRuns
    <3>2. /\ Alike(Read(bs), Defines(s, i, Gives(s, i)), Defines(t, i, Gives(s, i)))
          /\ Holds(K, Defines(s, i, Gives(s, i))) /\ Standing(bs, Defines(s, i, Gives(s, i)))
      BY <1>1, BothDefine
    <3> QED
      BY <3>1, <3>2, OnesMatch
  <2> QED
    BY <2>2, <2>3
<1>3. CASE i.op = "opaque"
  <2> DEFINE reads(r, a) == Shows(Defines(r, i, a), Event("cond", i.sym, a))
  <2>1. i.dest \notin DOMAIN K
    BY <1>1, <1>3 DEF Valued
  <2>2. ASSUME NEW a
        PROVE  Follows(bs, K, reads(s, a), reads(t, a))
    <3> DEFINE event == Event("cond", i.sym, a)
               v == Defines(s, i, a)
               x == Defines(t, i, a)
               u == Shows(v, event)
               w == Shows(x, event)
    <3>1. Alike(Read(bs), v, x) /\ Holds(K, v) /\ Standing(bs, v)
      BY <2>1, BothDefine
    <3> HIDE DEF v, x, event
    <3>2. u.events = Append(v.events, event) /\ Stays(v, u, {"events"})
      BY <3>1, StatesShow DEF Alike
    <3>3. w.events = Append(x.events, event) /\ Stays(x, w, {"events"})
      BY <3>1, StatesShow DEF Alike
    <3> HIDE DEF u, w
    <3>4. /\ IsState(u) /\ IsState(w) /\ u.env = v.env /\ w.env = x.env
          /\ u.at = w.at /\ u.pc = w.pc /\ u.pending = w.pending /\ u.scopes = w.scopes
          /\ u.regions = w.regions /\ u.low = w.low /\ u.events = w.events /\ u.ended = w.ended
          /\ u.at \in DOMAIN bs /\ u.pc \in Nat \ {0}
      BY <3>1, <3>2, <3>3 DEF Stays, Alike, Standing
    <3>5. Alike(Read(bs), u, w) /\ Holds(K, u) /\ Standing(bs, u)
      BY <3>1, <3>4, BothChange
    <3>6. Follows(bs, K, u, w)
      BY <3>5 DEF Follows, Alike
    <3> QED
      BY <3>6 DEF u, w, v, x, event
  <2>3. /\ Executed(s, i) = {reads(s, a) : a \in {0, 1}}
        /\ Executed(t, i) = {reads(t, a) : a \in {0, 1}}
    BY <1>3 DEF Executed
  <2> HIDE DEF reads
  <2> QED
    BY <2>2, <2>3 DEF Matched
<1>4. CASE i.op = "call"
  <2>1. i.dest \notin DOMAIN K
    BY <1>1, <1>4 DEF Valued
  <2>2. Executed(s, i) = Called(s, i) /\ Executed(t, i) = Called(t, i)
    BY <1>4 DEF Executed
  <2> QED
    BY <2>1, <2>2, CallMatches
<1>5. CASE i.op = "check" /\ s.pending
  <2>1. t.pending
    BY <1>5 DEF Alike
  <2>2. CASE i.exit = NoBlock
    <3>1. Executed(s, i) = {Ends(s, "unwound", 0)} /\ Executed(t, i) = {Ends(t, "unwound", 0)}
      BY <1>5, <2>1, <2>2 DEF Executed
    <3> QED
      BY <3>1, EndsMatch
  <2>3. CASE i.exit # NoBlock
    <3>1. Executed(s, i) = {Goes(s, i.exit)} /\ Executed(t, i) = {Goes(t, i.exit)}
      BY <1>5, <2>1, <2>3 DEF Executed, Goes
    <3> QED
      BY <2>3, <3>1, GoesMatch
  <2> QED
    BY <2>2, <2>3
<1>6. CASE ~Valued(i) /\ i.op \notin {"opaque", "call"} /\ ~(i.op = "check" /\ s.pending)
  <2>1. s.pending = t.pending
    BY DEF Alike
  <2>2. Executed(s, i) = {Skips(s)} /\ Executed(t, i) = {Skips(t)}
    BY <1>6, <2>1 DEF Executed, Valued, Skips
  <2> QED
    BY <2>2, SkipsMatch
<1> QED
  BY <1>2, <1>3, <1>4, <1>5, <1>6

\* An instruction that was folded: the constant is what it defined.
LEMMA FoldedMatches ==
  ASSUME NEW bs, NEW K, Constancy(K), NEW s, NEW t, NEW i,
         Alike(Read(bs), s, t), Holds(K, s), Standing(bs, s), Whole(i), ~Unset(s, i),
         i.dest \in DOMAIN K => Yields(K, i, K[i.dest]), Result(K, i) # NotFolded
  PROVE  Matched(bs, K, Executed(s, i), Executed(t, Copy(i.dest, Constant(Result(K, i)))))
<1> DEFINE j == Copy(i.dest, Constant(Result(K, i)))
           val == Result(K, i).val
<1>1. Valued(i) /\ ~Trapping(s, i) /\ Gives(s, i) = val
  BY YieldedComes DEF Yields
<1>2. Executed(s, i) = {Defines(s, i, val)}
  BY <1>1, ValuedRuns
<1>3. /\ j.op = "copy" /\ j.dest = i.dest
      /\ j.args = <<Constant(Result(K, i))>>
  BY DEF Copy, Instr
<1>4. Executed(t, j) = {Defines(t, j, val)}
  <2>1. Operated(t, j.args[1]) = val
    BY <1>3 DEF Constant, Operated
  <2>2. Valued(j) /\ ~Trapping(t, j) /\ Gives(t, j) = val
    BY <1>3, <2>1 DEF Valued, Trapping, Gives
  <2> QED
    BY <2>2, ValuedRuns
<1>5. i.dest \in DOMAIN K => val = K[i.dest].val
  BY <1>1, YieldedComes
<1> HIDE DEF j, val
<1>6. /\ Alike(Read(bs), Defines(s, i, val), Defines(t, j, val))
      /\ Holds(K, Defines(s, i, val)) /\ Standing(bs, Defines(s, i, val))
  BY <1>3, <1>5, BothDefine
<1>7. Matched(bs, K, Executed(s, i), Executed(t, j))
  BY <1>2, <1>4, <1>6, OnesMatch
<1> QED
  BY <1>7 DEF j

\* An instruction that was removed: what it defined is not read.
LEMMA GoneMatches ==
  ASSUME NEW bs, NEW K, Constancy(K), NEW s, NEW t, NEW i,
         Alike(Read(bs), s, t), Holds(K, s), Standing(bs, s), Whole(i), ~Unset(s, i),
         i.dest \in DOMAIN K => Yields(K, i, K[i.dest]), i.dest \notin Read(bs),
         ~HasSideEffects(i), i.op # "opaque", i.sym \notin {"div", "rem"}
  PROVE  Matched(bs, K, Executed(s, i), Executed(t, Gone))
<1>1. Executed(t, Gone) = {Skips(t)}
  BY DEF Executed, Gone, Instr, Skips
<1>2. CASE Valued(i)
  <2> DEFINE val == Gives(s, i)
  <2>1. ~Trapping(s, i)
    BY DEF Trapping, Traps
  <2>2. Executed(s, i) = {Defines(s, i, val)}
    BY <1>2, <2>1, ValuedRuns
  <2>3. i.dest \in DOMAIN K => val = K[i.dest].val
    BY YieldedComes
  <2> HIDE DEF val
  <2>4. /\ Alike(Read(bs), Defines(s, i, val), Skips(t))
        /\ Holds(K, Defines(s, i, val)) /\ Standing(bs, Defines(s, i, val))
    BY <2>3, OneDefines
  <2> QED
    BY <1>1, <2>2, <2>4, OnesMatch
<1>3. CASE ~Valued(i)
  <2>1. Executed(s, i) = {Skips(s)}
    BY <1>3 DEF Executed, Valued, Skips, HasSideEffects
  <2> QED
    BY <1>1, <2>1, SkipsMatch
<1> QED
  BY <1>2, <1>3

-----------------------------------------------------------------------------
\* The blocks do what the source does, if the values of K are constants: each place still has
\* what it had, or a constant that K lets it have, or nothing if it was not needed.
Became(src, bs, K, b, i) ==
  LET was == src[b].code[i]
      is  == bs[b].code[i]
  IN /\ Whole(was)
     /\ Rewritten(K, was, is)
     /\ was.dest \in DOMAIN K => Yields(K, was, K[was.dest])
     /\ was.dest \in Read(bs) => is.dest = was.dest
Certified(src, bs, K) ==
  /\ Constancy(K) /\ DOMAIN bs \subseteq DOMAIN src
  /\ \A b \in DOMAIN bs :
       /\ bs[b].term = src[b].term
       /\ Len(bs[b].code) = Len(src[b].code) /\ Len(src[b].code) \in Nat
       /\ DOMAIN bs[b].code = 1..Len(src[b].code)
       /\ \A i \in DOMAIN bs[b].code : Became(src, bs, K, b, i)

\* No step of a run leaves the blocks, and what was removed from them shows nothing.
Enclosed(src, bs) ==
  \A b \in DOMAIN bs :
    /\ Targets(bs[b].term) \subseteq DOMAIN bs
    /\ bs[b].term.kind \in {"jump", "branch", "return", "unreachable", "trap"}
    /\ \A i \in DOMAIN bs[b].code :
         /\ bs[b].code[i].exit \in DOMAIN bs \cup {NoBlock}
         /\ bs[b].code[i] = Gone =>
              src[b].code[i].op # "opaque" /\ src[b].code[i].sym \notin {"div", "rem"}

LEMMA TerminatorsMatch ==
  ASSUME NEW bs, NEW K, NEW s, NEW t, Alike(Read(bs), s, t), Holds(K, s), Standing(bs, s),
         NEW term, Targets(term) \subseteq DOMAIN bs, ReadByTerm(term) \subseteq Read(bs),
         term.kind \in {"jump", "branch", "return", "unreachable", "trap"}
  PROVE  Matched(bs, K, {Terminated(s, term)}, {Terminated(t, term)})
<1>1. term.kind \in {"branch", "return"} => Operated(t, term.on) = Operated(s, term.on)
  <2>1. term.kind \in {"branch", "return"} => term.on.value \in Read(bs) \cup {NoValue}
    BY DEF ReadByTerm
  <2> QED
    BY <2>1, OperandsAgree DEF Alike
<1>2. CASE term.kind = "jump"
  <2>1. Terminated(s, term) = Goes(s, term.yes) /\ Terminated(t, term) = Goes(t, term.yes)
    BY <1>2 DEF Terminated, Goes
  <2>2. term.yes \in DOMAIN bs
    BY <1>2 DEF Targets
  <2> QED
    BY <2>1, <2>2, GoesMatch
<1>3. CASE term.kind = "branch"
  <2> DEFINE b == IF Operated(s, term.on) = 1 THEN term.yes ELSE term.no
  <2>1. Terminated(s, term) = Goes(s, b) /\ Terminated(t, term) = Goes(t, b)
    BY <1>1, <1>3 DEF Terminated, Goes
  <2>2. b \in DOMAIN bs
    BY <1>3 DEF Targets
  <2> HIDE DEF b
  <2> QED
    BY <2>1, <2>2, GoesMatch
<1>4. CASE term.kind = "return"
  <2> DEFINE val == Operated(s, term.on)
  <2>1. Terminated(s, term) = Ends(s, "return", val) /\ Terminated(t, term) = Ends(t, "return", val)
    BY <1>1, <1>4 DEF Terminated
  <2> HIDE DEF val
  <2> QED
    BY <2>1, EndsMatch
<1>5. CASE term.kind \in {"unreachable", "trap"}
  <2>1. Terminated(s, term) = Ends(s, "trap", 0) /\ Terminated(t, term) = Ends(t, "trap", 0)
    BY <1>5 DEF Terminated
  <2> QED
    BY <2>1, EndsMatch
<1> QED
  BY <1>2, <1>3, <1>4, <1>5

\* What an instruction reads is read.
LEMMA PlaceIsRead ==
  ASSUME NEW bs, NEW b \in DOMAIN bs
  PROVE  /\ ReadByTerm(bs[b].term) \subseteq Read(bs)
         /\ \A i \in DOMAIN bs[b].code : Reads(bs[b].code[i]) \subseteq Read(bs)
  BY InRead

LEMMA NotedAlike ==
  ASSUME NEW bs, NEW K, NEW s, NEW t, Alike(Read(bs), s, t), Holds(K, s), Standing(bs, s),
         NEW i, NEW j
  PROVE  Alike(Read(bs), Noted(s, i), Noted(t, j)) /\ Holds(K, Noted(s, i)) /\ Standing(bs, Noted(s, i))
<1> DEFINE u == Noted(s, i)
           w == Noted(t, j)
<1>1. Stays(s, u, {"unset"}) /\ Stays(t, w, {"unset"})
  BY NotedStays DEF Alike
<1> HIDE DEF u, w
<1>2. /\ IsState(u) /\ IsState(w) /\ u.env = s.env /\ w.env = t.env
      /\ u.at = w.at /\ u.pc = w.pc /\ u.pending = w.pending /\ u.scopes = w.scopes
      /\ u.regions = w.regions /\ u.low = w.low /\ u.events = w.events /\ u.ended = w.ended
      /\ u.at \in DOMAIN bs /\ u.pc \in Nat \ {0}
  BY <1>1 DEF Stays, Alike, Standing
<1>3. Alike(Read(bs), u, w) /\ Holds(K, u) /\ Standing(bs, u)
  BY <1>2, BothChange
<1> QED
  BY <1>3 DEF u, w

LEMMA PlacesMatch ==
  ASSUME NEW src, NEW bs, NEW K, Certified(src, bs, K), Enclosed(src, bs),
         NEW s, NEW t, ~s.unset, Alike(Read(bs), s, t), Holds(K, s), Standing(bs, s),
         NEW b \in DOMAIN bs, NEW i \in DOMAIN bs[b].code
  PROVE  Matched(bs, K, Executed(Noted(s, src[b].code[i]), src[b].code[i]),
                        Executed(Noted(t, bs[b].code[i]), bs[b].code[i]))
<1> DEFINE was == src[b].code[i]
           is  == bs[b].code[i]
           n == Noted(s, was)
           m == Noted(t, is)
<1>1. /\ Constancy(K) /\ Whole(was) /\ Rewritten(K, was, is)
      /\ was.dest \in DOMAIN K => Yields(K, was, K[was.dest])
      /\ was.dest \in Read(bs) => is.dest = was.dest
  BY DEF Certified, Became
<1>2. /\ is.exit \in DOMAIN bs \cup {NoBlock}
      /\ is = Gone => was.op # "opaque" /\ was.sym \notin {"div", "rem"}
  BY DEF Enclosed
<1>3. Reads(is) \subseteq Read(bs)
  BY PlaceIsRead
<1>4. IsState(s) /\ IsState(t)
  BY DEF Alike
<1>5. /\ n.unset <=> Unset(s, was)
      /\ Stays(s, n, {"unset"}) /\ Stays(t, m, {"unset"})
  BY <1>4, NotedStays
<1>6. Alike(Read(bs), n, m) /\ Holds(K, n) /\ Standing(bs, n)
  BY NotedAlike
<1>7. Unset(n, was) <=> Unset(s, was)
  BY <1>5 DEF Unset, Stays
<1> HIDE DEF was, is, n, m
<1>8. CASE Unset(s, was)
  <2>1. Executed(n, was) # {} /\ \A u \in Executed(n, was) : IsState(u) /\ u.unset
    BY <1>5, <1>8, ExecutedGoesOn DEF Stays
  <2>2. Executed(m, is) # {} /\ \A u \in Executed(m, is) : IsState(u)
    BY <1>5, ExecutedGoesOn DEF Stays
  <2>3. Matched(bs, K, Executed(n, was), Executed(m, is))
    BY <2>1, <2>2, UnsetMatches
  <2> QED
    BY <2>3 DEF n, m, was, is
<1>9. CASE ~Unset(s, was)
  <2>1. CASE is = was
    <3>1. Matched(bs, K, Executed(n, was), Executed(m, was))
      BY <1>1, <1>2, <1>3, <1>6, <1>7, <1>9, <2>1, SameMatches
    <3> QED
      BY <2>1, <3>1 DEF n, m, was, is
  <2>2. CASE Result(K, was) # NotFolded /\ is = Copy(was.dest, Constant(Result(K, was)))
    <3>1. Matched(bs, K, Executed(n, was), Executed(m, Copy(was.dest, Constant(Result(K, was)))))
      BY <1>1, <1>6, <1>7, <1>9, <2>2, FoldedMatches
    <3> QED
      BY <2>2, <3>1 DEF n, m, was, is
  <2>3. CASE is = Gone /\ ~HasSideEffects(was)
    <3>1. was.dest \notin Read(bs)
      <4>1. Gone.dest = NoValue
        BY DEF Gone, Instr
      <4>2. NoValue \notin Read(bs)
        BY InRead DEF ReadByTerm, Reads
      <4> QED
        BY <1>1, <2>3, <4>1, <4>2
    <3>2. Matched(bs, K, Executed(n, was), Executed(m, Gone))
      BY <1>1, <1>2, <1>6, <1>7, <1>9, <2>3, <3>1, GoneMatches
    <3> QED
      BY <2>3, <3>2 DEF n, m, was, is
  <2> QED
    BY <1>1, <2>1, <2>2, <2>3 DEF Rewritten
<1> QED
  BY <1>8, <1>9

-----------------------------------------------------------------------------
\* A step of each.
Stepping(bs, s) == IF Quiet(s) THEN {s} ELSE StepMir(bs, s)

LEMMA SteppingGoesOn ==
  ASSUME NEW bs, NEW s, IsState(s)
  PROVE  /\ Stepping(bs, s) # {}
         /\ \A u \in Stepping(bs, s) : IsState(u) /\ (s.unset => u.unset)
<1> DEFINE Fine(u) == IsState(u) /\ (s.unset => u.unset)
<1>1. \A how, val : Fine(Ends(s, how, val))
  <2> SUFFICES ASSUME NEW how, NEW val PROVE Fine(Ends(s, how, val))
    OBVIOUS
  <2>1. Stays(s, Ends(s, how, val), {"events", "ended"})
    BY StatesEnd
  <2> QED
    BY <2>1 DEF Stays
<1>2. \A b : Fine(Goes(s, b))
  BY StatesGo DEF Stays
<1>3. ASSUME NEW term PROVE Fine(Terminated(s, term))
  <2>1. \/ \E b : Terminated(s, term) = Goes(s, b)
        \/ \E how, val : Terminated(s, term) = Ends(s, how, val)
    BY DEF Terminated, Goes
  <2> HIDE DEF Fine
  <2> QED
    BY <1>1, <1>2, <2>1
<1>4. ASSUME NEW i
      PROVE  /\ Executed(Noted(s, i), i) # {}
             /\ \A u \in Executed(Noted(s, i), i) : Fine(u)
  <2>1. (Noted(s, i).unset <=> s.unset \/ Unset(s, i)) /\ IsState(Noted(s, i))
    BY NotedStays DEF Stays
  <2> QED
    BY <2>1, ExecutedGoesOn
<1>5. Fine(s)
  OBVIOUS
<1> HIDE DEF Fine
<1>6. \/ Stepping(bs, s) = {s} \/ (\E how, val : Stepping(bs, s) = {Ends(s, how, val)})
      \/ (\E term : Stepping(bs, s) = {Terminated(s, term)})
      \/ (\E i : Stepping(bs, s) = Executed(Noted(s, i), i))
  BY DEF Stepping, StepMir
<1>7. Stepping(bs, s) # {} /\ \A u \in Stepping(bs, s) : Fine(u)
  BY <1>1, <1>3, <1>4, <1>5, <1>6
<1> QED
  BY <1>7 DEF Fine

LEMMA StepsMatch ==
  ASSUME NEW src, NEW bs, NEW K, Certified(src, bs, K), Enclosed(src, bs),
         NEW s, NEW t, Follows(bs, K, s, t)
  PROVE  Matched(bs, K, Stepping(src, s), Stepping(bs, t))
<1>1. CASE s.unset
  <2>1. IsState(s) /\ IsState(t)
    BY DEF Follows
  <2>2. Stepping(src, s) # {} /\ \A u \in Stepping(src, s) : IsState(u) /\ u.unset
    BY <1>1, <2>1, SteppingGoesOn
  <2>3. Stepping(bs, t) # {} /\ \A u \in Stepping(bs, t) : IsState(u)
    BY <2>1, SteppingGoesOn
  <2> QED
    BY <2>2, <2>3, UnsetMatches
<1>2. CASE ~s.unset
  <2>1. Alike(Read(bs), s, t) /\ Holds(K, s) /\ Standing(bs, s)
    BY <1>2 DEF Follows
  <2>2. s.at = t.at /\ s.pc = t.pc /\ s.at \in DOMAIN bs /\ s.pc \in Nat \ {0}
    BY <2>1 DEF Alike, Standing
  <2>3. Quiet(s) <=> Quiet(t)
    BY <2>1 DEF Alike, Quiet
  <2> DEFINE b == s.at
  <2>4. /\ DOMAIN bs \subseteq DOMAIN src /\ bs[b].term = src[b].term
        /\ Len(bs[b].code) = Len(src[b].code) /\ Len(src[b].code) \in Nat
        /\ DOMAIN bs[b].code = 1..Len(src[b].code)
    BY <2>2 DEF Certified
  <2>5. CASE Quiet(s)
    <3>1. Stepping(src, s) = {s} /\ Stepping(bs, t) = {t}
      BY <2>3, <2>5 DEF Stepping
    <3> QED
      BY <2>1, <3>1, OnesMatch
  <2>6. CASE ~Quiet(s) /\ s.pc > Len(src[b].code)
    <3>1. /\ Stepping(src, s) = {Terminated(s, bs[b].term)}
          /\ Stepping(bs, t) = {Terminated(t, bs[b].term)}
      BY <2>2, <2>3, <2>4, <2>6 DEF Stepping, StepMir
    <3>2. /\ Targets(bs[b].term) \subseteq DOMAIN bs /\ ReadByTerm(bs[b].term) \subseteq Read(bs)
          /\ bs[b].term.kind \in {"jump", "branch", "return", "unreachable", "trap"}
      BY <2>2, PlaceIsRead DEF Enclosed
    <3> QED
      BY <2>1, <3>1, <3>2, TerminatorsMatch
  <2>7. CASE ~Quiet(s) /\ ~(s.pc > Len(src[b].code))
    <3>1. s.pc \in DOMAIN bs[b].code
      BY <2>2, <2>4, <2>7
    <3>2. /\ Stepping(src, s) = Executed(Noted(s, src[b].code[s.pc]), src[b].code[s.pc])
          /\ Stepping(bs, t) = Executed(Noted(t, bs[b].code[s.pc]), bs[b].code[s.pc])
      BY <2>2, <2>3, <2>4, <2>7 DEF Stepping, StepMir
    <3> QED
      BY <1>2, <2>1, <2>2, <3>1, <3>2, PlacesMatch
  <2> QED
    BY <2>5, <2>6, <2>7
<1> QED
  BY <1>1, <1>2

LEMMA StepsOfSetsMatch ==
  ASSUME NEW src, NEW bs, NEW K, Certified(src, bs, K), Enclosed(src, bs),
         NEW S, NEW T, Matched(bs, K, S, T)
  PROVE  Matched(bs, K, Stepped(src, S), Stepped(bs, T))
<1>1. /\ \A u : u \in Stepped(src, S) <=> \E s \in S : u \in Stepping(src, s)
      /\ \A w : w \in Stepped(bs, T) <=> \E t \in T : w \in Stepping(bs, t)
  BY DEF Stepped, Stepping
<1>2. ASSUME NEW u \in Stepped(src, S)
      PROVE  \E w \in Stepped(bs, T) : Follows(bs, K, u, w)
  <2>1. PICK s \in S : u \in Stepping(src, s)
    BY <1>1
  <2>2. PICK t \in T : Follows(bs, K, s, t)
    BY DEF Matched
  <2>3. Matched(bs, K, Stepping(src, s), Stepping(bs, t))
    BY <2>2, StepsMatch
  <2>4. PICK w \in Stepping(bs, t) : Follows(bs, K, u, w)
    BY <2>1, <2>3 DEF Matched
  <2> QED
    BY <1>1, <2>4
<1>3. ASSUME NEW w \in Stepped(bs, T)
      PROVE  \E u \in Stepped(src, S) : Follows(bs, K, u, w)
  <2>1. PICK t \in T : w \in Stepping(bs, t)
    BY <1>1
  <2>2. PICK s \in S : Follows(bs, K, s, t)
    BY DEF Matched
  <2>3. Matched(bs, K, Stepping(src, s), Stepping(bs, t))
    BY <2>2, StepsMatch
  <2>4. PICK u \in Stepping(src, s) : Follows(bs, K, u, w)
    BY <2>1, <2>3 DEF Matched
  <2> QED
    BY <1>1, <2>4
<1> QED
  BY <1>2, <1>3 DEF Matched

-----------------------------------------------------------------------------
\* A set of natural numbers without zero, that has with a number the one before it, is empty.
LEMMA NoneIsFirst ==
  ASSUME NEW B, B \subseteq Nat, 0 \notin B, \A n \in Nat : n + 1 \in B => n \in B
  PROVE  B = {}
<1> SUFFICES ASSUME B # {} PROVE FALSE
  OBVIOUS
<1> DEFINE R == {ss \in Nat \X Nat : ss[1] < ss[2]}
<1>1. IsWellFoundedOn(R, Nat)
  BY NatLessThanWellFounded DEF OpToRel
<1>2. PICK m \in B : \A k \in B : <<k, m>> \notin R
  <2> HIDE DEF R
  <2>1. PICK N : N = Nat
    OBVIOUS
  <2>2. IsWellFoundedOn(R, N) /\ B \subseteq N
    BY <1>1, <2>1
  <2> QED
    BY <2>2, WFMin
<1>3. m \in Nat /\ m # 0
  OBVIOUS
<1>4. m - 1 \in Nat /\ (m - 1) + 1 = m
  BY <1>3
<1>5. m - 1 \in B
  BY <1>4
<1>6. <<m - 1, m>> \in R
  BY <1>3, <1>4
<1> QED
  BY <1>2, <1>5, <1>6

\* The sets of states of a run, up to a number of steps.
Traces(bs, S, n, f) ==
  /\ DOMAIN f = 0..n /\ f[0] = S
  /\ \A k \in Nat : k < n => f[k + 1] = Stepped(bs, f[k])

LEMMA TracesExist == ASSUME NEW bs, NEW S PROVE \A n \in Nat : \E f : Traces(bs, S, n, f)
<1> DEFINE B == {n \in Nat : ~ \E f : Traces(bs, S, n, f)}
<1>1. 0 \notin B
  <2> DEFINE f == [k \in 0..0 |-> S]
  <2>1. Traces(bs, S, 0, f)
    BY DEF Traces
  <2> QED
    BY <2>1
<1>2. ASSUME NEW n \in Nat, n \notin B
      PROVE  n + 1 \notin B
  <2>1. PICK f : Traces(bs, S, n, f)
    BY <1>2
  <2> DEFINE last == Stepped(bs, f[n])
             g == [k \in 0..(n + 1) |-> IF k = n + 1 THEN last ELSE f[k]]
  <2> HIDE DEF last
  <2>2. DOMAIN g = 0..(n + 1) /\ g[n + 1] = last /\ \A k \in Nat : k < n + 1 => g[k] = f[k]
    OBVIOUS
  <2> HIDE DEF g
  <2>3. g[0] = S
    BY <2>1, <2>2 DEF Traces
  <2>4. ASSUME NEW k \in Nat, k < n + 1 PROVE g[k + 1] = Stepped(bs, g[k])
    <3>1. CASE k = n
      BY <2>2, <3>1 DEF last
    <3>2. CASE k < n
      <4>1. g[k + 1] = f[k + 1] /\ g[k] = f[k]
        BY <2>2, <3>2
      <4> QED
        BY <2>1, <3>2, <4>1 DEF Traces
    <3> QED
      BY <2>4, <3>1, <3>2
  <2>5. Traces(bs, S, n + 1, g)
    BY <2>2, <2>3, <2>4 DEF Traces
  <2> QED
    BY <2>5
<1> HIDE DEF B
<1>3. B = {}
  <2>1. B \subseteq Nat
    BY DEF B
  <2> QED
    BY <1>1, <1>2, <2>1, NoneIsFirst
<1> QED
  BY <1>3 DEF B

LEMMA TracesAgree ==
  ASSUME NEW bs, NEW S, NEW m \in Nat, NEW n \in Nat, m <= n,
         NEW f, Traces(bs, S, m, f), NEW g, Traces(bs, S, n, g)
  PROVE  f[m] = g[m]
<1> DEFINE B == {k \in Nat : k <= m /\ f[k] # g[k]}
<1>1. 0 \notin B
  BY DEF Traces
<1>2. ASSUME NEW k \in Nat, k + 1 \in B
      PROVE  k \in B
  <2>1. k < m /\ k < n /\ f[k + 1] # g[k + 1]
    BY <1>2
  <2>2. f[k + 1] = Stepped(bs, f[k]) /\ g[k + 1] = Stepped(bs, g[k])
    BY <2>1 DEF Traces
  <2>3. f[k] # g[k]
    BY <2>1, <2>2
  <2> QED
    BY <2>1, <2>3
<1> HIDE DEF B
<1>3. B = {}
  <2>1. B \subseteq Nat
    BY DEF B
  <2> QED
    BY <1>1, <1>2, <2>1, NoneIsFirst
<1> QED
  BY <1>3 DEF B

\* A run of no steps is where it starts; a run of one more is a step further.
LEMMA RunsStep ==
  ASSUME NEW bs, NEW S
  PROVE  /\ RunMir(bs, S, 0) = S
         /\ \A n \in Nat : RunMir(bs, S, n + 1) = Stepped(bs, RunMir(bs, S, n))
<1> DEFINE T(n) == CHOOSE f : Traces(bs, S, n, f)
           g == [n \in Nat |-> T(n)[n]]
           run[n \in Nat] == IF n = 0 THEN S ELSE Stepped(bs, run[n - 1])
<1>1. \A n \in Nat : Traces(bs, S, n, T(n))
  BY TracesExist
<1> HIDE DEF T
<1>2. T(0)[0] = S
  BY <1>1 DEF Traces
<1>3. ASSUME NEW n \in Nat
      PROVE  T(n + 1)[n + 1] = Stepped(bs, T(n)[n])
  <2>1. Traces(bs, S, n, T(n)) /\ n + 1 \in Nat /\ Traces(bs, S, n + 1, T(n + 1))
    BY <1>1
  <2>2. T(n)[n] = T(n + 1)[n]
    BY <2>1, TracesAgree
  <2> QED
    BY <2>1, <2>2 DEF Traces
<1>4. \A n \in Nat : g[n] = IF n = 0 THEN S ELSE Stepped(bs, g[n - 1])
  <2> SUFFICES ASSUME NEW n \in Nat
               PROVE  g[n] = IF n = 0 THEN S ELSE Stepped(bs, g[n - 1])
    OBVIOUS
  <2>1. CASE n = 0
    BY <1>2, <2>1
  <2>2. CASE n # 0
    <3>1. n - 1 \in Nat /\ (n - 1) + 1 = n
      BY <2>2
    <3>2. T(n)[n] = Stepped(bs, T(n - 1)[n - 1])
      BY <1>3, <3>1
    <3> QED
      BY <2>2, <3>1, <3>2
  <2> QED
    BY <2>1, <2>2
<1>5. g = [n \in Nat |-> IF n = 0 THEN S ELSE Stepped(bs, g[n - 1])]
  BY <1>4
<1> HIDE DEF g
<1>6. run = [n \in Nat |-> IF n = 0 THEN S ELSE Stepped(bs, run[n - 1])]
  BY <1>5
<1>7. \A n : RunMir(bs, S, n) = run[n]
  BY DEF RunMir
<1> HIDE DEF run
<1>8. run[0] = S
  BY <1>6
<1>9. \A n \in Nat : run[n + 1] = Stepped(bs, run[n])
  <2> SUFFICES ASSUME NEW n \in Nat PROVE run[n + 1] = Stepped(bs, run[n])
    OBVIOUS
  <2>1. n + 1 \in Nat /\ n + 1 # 0 /\ (n + 1) - 1 = n
    OBVIOUS
  <2> QED
    BY <1>6, <2>1
<1> QED
  BY <1>7, <1>8, <1>9

-----------------------------------------------------------------------------
\* However long they run, the runs of the blocks follow those of the source.
LEMMA RunsMatch ==
  ASSUME NEW src, NEW bs, NEW K, Certified(src, bs, K), Enclosed(src, bs),
         NEW S, NEW T, Matched(bs, K, S, T), NEW n \in Nat
  PROVE  Matched(bs, K, RunMir(src, S, n), RunMir(bs, T, n))
<1> DEFINE B == {k \in Nat : ~Matched(bs, K, RunMir(src, S, k), RunMir(bs, T, k))}
<1>1. 0 \notin B
  BY RunsStep
<1>2. ASSUME NEW k \in Nat, k \notin B
      PROVE  k + 1 \notin B
  <2>1. Matched(bs, K, RunMir(src, S, k), RunMir(bs, T, k))
    BY <1>2
  <2>2. Matched(bs, K, Stepped(src, RunMir(src, S, k)), Stepped(bs, RunMir(bs, T, k)))
    BY <2>1, StepsOfSetsMatch
  <2>3. Matched(bs, K, RunMir(src, S, k + 1), RunMir(bs, T, k + 1))
    <3>1. RunMir(src, S, k + 1) = Stepped(src, RunMir(src, S, k))
      BY RunsStep, Zenon
    <3>2. RunMir(bs, T, k + 1) = Stepped(bs, RunMir(bs, T, k))
      BY RunsStep, Zenon
    <3> QED
      BY <2>2, <3>1, <3>2
  <2> QED
    BY <2>3
<1> HIDE DEF B
<1>3. B = {}
  <2>1. B \subseteq Nat
    BY DEF B
  <2> QED
    BY <1>1, <1>2, <2>1, NoneIsFirst
<1> QED
  BY <1>3 DEF B

\* What a run of a function shows, from each of its arguments.
LEMMA RunsShowTheSame ==
  ASSUME NEW src, NEW bs, NEW K, Certified(src, bs, K), Enclosed(src, bs), Entry \in DOMAIN bs,
         NEW f, DOMAIN K \cap DOMAIN f.params = {}, \A s \in Ran(f, src) : ~s.unset
  PROVE  AsRun(f, bs) = AsRun(f, src)
<1>1. ASSUME NEW inputs \in Arguments(f)
      PROVE  Shown(RunMir(bs, {AsMir(f, inputs)}, MaxSteps)) =
             Shown(RunMir(src, {AsMir(f, inputs)}, MaxSteps))
  <2> DEFINE s0 == AsMir(f, inputs)
             S == RunMir(src, {s0}, MaxSteps)
             T == RunMir(bs, {s0}, MaxSteps)
             shown(s) == SubSeq(s.events, 1, Lesser(MaxEvents, Len(s.events)))
  <2>1. /\ IsState(s0) /\ s0.at = Entry /\ s0.pc = 1
        /\ s0.env = [v \in DOMAIN f.params |-> inputs[v]]
    BY DEF AsMir, IsState, Fields
  <2> HIDE DEF s0
  <2>2. Alike(Read(bs), s0, s0) /\ Standing(bs, s0)
    BY <2>1 DEF Alike, Agree, Standing
  <2>3. Holds(K, s0)
    BY <2>1 DEF Holds
  <2>4. Matched(bs, K, {s0}, {s0})
    BY <2>2, <2>3, OnesMatch
  <2>5. Matched(bs, K, S, T)
    BY <2>4, RunsMatch, MaxStepsAssumption
  <2>6. \A s \in S : ~s.unset
    BY <1>1 DEF Ran, s0
  <2> HIDE DEF S, T
  <2>7. \A s \in S, t \in T : Follows(bs, K, s, t) => shown(s) = shown(t)
    BY <2>6 DEF Follows, Alike
  <2> HIDE DEF shown
  <2>8. {shown(s) : s \in T} = {shown(s) : s \in S}
    BY <2>5, <2>7 DEF Matched
  <2> QED
    BY <2>8 DEF Shown, S, T, s0, shown
<1> QED
  BY <1>1 DEF AsRun

-----------------------------------------------------------------------------
\* What folding relies on.  The definitions of one value are kept or removed together, so that
\* a value whose other definitions were removed is not taken for a constant.
Uniform ==
  pass # "idle" =>
    \A b, c \in DOMAIN blocks :
      \A i \in DOMAIN blocks[b].code, j \in DOMAIN blocks[c].code :
        source[b].code[i].dest = source[c].code[j].dest =>
          (blocks[b].code[i].dest = source[b].code[i].dest
             <=> blocks[c].code[j].dest = source[c].code[j].dest)

\* A value that two places define is known to be.
Counted ==
  pass = "fold" =>
    \A b, c \in DOMAIN blocks :
      \A i \in DOMAIN blocks[b].code, j \in DOMAIN blocks[c].code :
        /\ <<b, i>> # <<c, j>>
        /\ blocks[b].code[i].dest = blocks[c].code[j].dest
        /\ blocks[b].code[i].dest # NoValue
        => blocks[b].code[i].dest \in multi

\* Every constant of K is one that folding learnt in some round, and those of this round are
\* among them.
Learnable(K) == \A v \in DOMAIN K : \E i \in Code(source) : Learns(i) /\ i.dest = v
Learned(K) ==
  /\ Learnable(K)
  /\ \A v \in DOMAIN known : v \in DOMAIN K /\ K[v] = known[v]

\* The rounds so far are justified by one assignment of constants to values.
Justified == pass # "idle" => \E K : Certified(source, blocks, K) /\ Learned(K)

KnownOnce == DOMAIN known \cap multi = {}

Sure == IInv /\ Uniform /\ Counted /\ KnownOnce /\ Justified

-----------------------------------------------------------------------------
\* K with more constants, each of which what defines it yields.
Grown(K, L) ==
  /\ Constancy(L) /\ \A v \in DOMAIN K : v \in DOMAIN L /\ L[v] = K[v]
  /\ \A b \in DOMAIN blocks : \A i \in DOMAIN blocks[b].code :
       source[b].code[i].dest \in DOMAIN L =>
         Yields(L, source[b].code[i], L[source[b].code[i].dest])

\* What is known of more values is no different.
LEMMA ResultsStay ==
  ASSUME NEW K, NEW L, \A v \in DOMAIN K : v \in DOMAIN L /\ L[v] = K[v],
         NEW i, Result(K, i) # NotFolded
  PROVE  Result(L, i) = Result(K, i)
<1>1. \A o : ConstIn(K, o) # NotFolded => ConstIn(L, o) = ConstIn(K, o)
  BY DEF ConstIn
<1>2. NotFolded.type = "none"
  BY DEF NotFolded
<1>3. CASE i.op = "unary"
  <2>1. ConstIn(K, i.args[1]) # NotFolded
    BY <1>2, <1>3 DEF Result, FoldUnary
  <2> QED
    BY <1>1, <1>3, <2>1 DEF Result
<1>4. CASE i.op = "binary"
  <2>1. ConstIn(K, i.args[1]) # NotFolded /\ ConstIn(K, i.args[2]) # NotFolded
    BY <1>2, <1>4 DEF Result, FoldBinary
  <2> QED
    BY <1>1, <1>4, <2>1 DEF Result
<1> QED
  BY <1>3, <1>4 DEF Result

LEMMA YieldsStay ==
  ASSUME NEW K, NEW L, \A v \in DOMAIN K : v \in DOMAIN L /\ L[v] = K[v],
         NEW i, NEW c, Yields(K, i, c)
  PROVE  Yields(L, i, c)
  BY ResultsStay DEF Yields

LEMMA YieldsOne ==
  ASSUME NEW K, NEW i, NEW c, Yields(K, i, c), NEW d, Yields(K, i, d)
  PROVE  c = d
<1>1. i.op = "copy" => Result(K, i) = NotFolded
  BY DEF Result
<1> QED
  BY <1>1 DEF Yields

LEMMA StillRewritten ==
  ASSUME NEW K, NEW L, \A v \in DOMAIN K : v \in DOMAIN L /\ L[v] = K[v],
         NEW was, NEW is, Rewritten(K, was, is)
  PROVE  Rewritten(L, was, is)
  BY ResultsStay DEF Rewritten

LEMMA RewrittenTo ==
  ASSUME NEW K, NEW was, NEW is, Rewritten(K, was, is)
  PROVE  is.dest = was.dest \/ is.dest = NoValue
<1>1. Gone.dest = NoValue /\ \A c : Copy(was.dest, c).dest = was.dest
  BY DEF Gone, Copy, Instr
<1> QED
  BY <1>1 DEF Rewritten

LEMMA SameLength ==
  ASSUME NEW m \in Nat, NEW n \in Nat, 1..m = 1..n
  PROVE  m = n
<1>1. m > n => m \in 1..m /\ m \notin 1..n
  OBVIOUS
<1>2. n > m => n \in 1..n /\ n \notin 1..m
  OBVIOUS
<1> QED
  BY <1>1, <1>2

\* What shrinks is justified as before, if each place is.
LEMMA ShrinkCertified ==
  ASSUME IInv, IInv', pass # "idle", pass' # "idle", source' = source,
         DOMAIN blocks' \subseteq DOMAIN blocks,
         \A b \in DOMAIN blocks' : /\ blocks'[b].term = blocks[b].term
                                   /\ DOMAIN blocks'[b].code = DOMAIN blocks[b].code,
         NEW K, Certified(source, blocks, K),
         NEW L, Constancy(L), \A v \in DOMAIN K : v \in DOMAIN L /\ L[v] = K[v],
         \A b \in DOMAIN blocks' : \A i \in DOMAIN blocks[b].code :
           /\ source[b].code[i].dest \in DOMAIN L =>
                Yields(L, source[b].code[i], L[source[b].code[i].dest])
           /\ blocks'[b].code[i] # blocks[b].code[i] =>
                Rewritten(L, source[b].code[i], blocks'[b].code[i])
  PROVE  Certified(source, blocks', L)
<1>1. DOMAIN blocks' \subseteq DOMAIN source
  BY DEF Certified
<1>2. ASSUME NEW b \in DOMAIN blocks'
      PROVE  /\ blocks'[b].term = source[b].term
             /\ Len(blocks'[b].code) = Len(source[b].code) /\ Len(source[b].code) \in Nat
             /\ DOMAIN blocks'[b].code = 1..Len(source[b].code)
  <2>1. /\ blocks[b].term = source[b].term /\ Len(source[b].code) \in Nat
        /\ DOMAIN blocks[b].code = 1..Len(source[b].code)
    BY <1>2 DEF Certified
  <2>2. blocks'[b] \in Block
    BY <1>2 DEF IInv, TypeOK
  <2>3. DOMAIN blocks'[b].code = 1..Len(blocks'[b].code) /\ Len(blocks'[b].code) \in Nat
    BY <2>2 DEF Block
  <2>4. 1..Len(blocks'[b].code) = 1..Len(source[b].code)
    BY <1>2, <2>1, <2>3
  <2>5. Len(blocks'[b].code) = Len(source[b].code)
    BY <2>1, <2>3, <2>4, SameLength
  <2> QED
    BY <1>2, <2>1, <2>5
<1>3. ASSUME NEW b \in DOMAIN blocks', NEW i \in DOMAIN blocks'[b].code
      PROVE  Became(source, blocks', L, b, i)
  <2>1. b \in DOMAIN blocks /\ i \in DOMAIN blocks[b].code
    BY <1>3
  <2>2. Whole(source[b].code[i]) /\ Rewritten(K, source[b].code[i], blocks[b].code[i])
    BY <2>1 DEF Certified, Became
  <2>3. Rewritten(L, source[b].code[i], blocks'[b].code[i])
    BY <1>3, <2>1, <2>2, StillRewritten
  <2>4. source[b].code[i].dest \in Read(blocks') => blocks'[b].code[i].dest = source[b].code[i].dest
    BY <1>3 DEF IInv, SameShape, NeededKept
  <2> QED
    BY <1>3, <2>1, <2>2, <2>3, <2>4 DEF Became
<1> QED
  BY <1>1, <1>2, <1>3 DEF Certified

LEMMA SureStands ==
  ASSUME Sure, IInv', UNCHANGED <<blocks, source, known, multi>>, pass # "idle", pass' # "idle",
         pass' = "fold" => pass = "fold"
  PROVE  Sure'
<1>1. PICK K : Certified(source, blocks, K) /\ Learned(K)
  BY DEF Sure, Justified
<1>2. Certified(source, blocks, K)' /\ Learned(K)'
  BY <1>1 DEF Learned, Learnable
<1>3. Justified'
  BY <1>2 DEF Justified
<1> QED
  BY <1>3 DEF Sure, Uniform, Counted, KnownOnce

LEMMA BlockCode ==
  ASSUME NEW bs, WellFormed(bs), NEW b \in DOMAIN bs
  PROVE  /\ DOMAIN bs[b].code = 1..Len(bs[b].code) /\ Len(bs[b].code) \in Nat
         /\ \A i \in DOMAIN bs[b].code : bs[b].code[i] \in Instruction /\ Whole(bs[b].code[i])
<1>1. bs[b] \in Block
  BY DEF WellFormed
<1>2. bs[b].code \in Seq(Instruction)
  BY <1>1 DEF Block
<1>3. DOMAIN bs[b].code = 1..Len(bs[b].code) /\ Len(bs[b].code) \in Nat
  BY <1>2
<1>4. ASSUME NEW i \in DOMAIN bs[b].code
      PROVE  bs[b].code[i] \in Instruction /\ Whole(bs[b].code[i])
  <2>1. bs[b].code[i] \in Instruction
    BY <1>2, <1>3, <1>4
  <2>2. bs[b].code[i] \in Range(bs[b].code)
    BY <1>4 DEF Range
  <2> QED
    BY <2>1, <2>2 DEF WellFormed, Whole
<1> QED
  BY <1>3, <1>4

LEMMA StartRoundSure == ASSUME Sure, StartRound, IInv' PROVE Sure'
<1>1. /\ pass \in {"idle", "end"} /\ pass' = "fold" /\ blocks' = blocks
      /\ source' = IF pass = "idle" THEN blocks ELSE source
      /\ known' = <<>> /\ multi' = MultiDefined(blocks)
  BY DEF StartRound
<1>2. KnownOnce'
  BY <1>1 DEF KnownOnce
<1>3. Counted'
  <2> SUFFICES ASSUME NEW b \in DOMAIN blocks, NEW c \in DOMAIN blocks,
                      NEW i \in DOMAIN blocks[b].code, NEW j \in DOMAIN blocks[c].code,
                      <<b, i>> # <<c, j>>,
                      blocks[b].code[i].dest = blocks[c].code[j].dest,
                      blocks[b].code[i].dest # NoValue
               PROVE  blocks[b].code[i].dest \in multi'
    BY <1>1 DEF Counted
  <2>1. blocks[b].code[i] \in Code(blocks)
    BY InCode
  <2>2. blocks[b].code[i].dest \in {k.dest : k \in Code(blocks)} \ {NoValue}
    BY <2>1
  <2> QED
    BY <1>1, <2>2 DEF MultiDefined
<1>4. Uniform'
  BY <1>1 DEF Sure, Uniform
<1>5. Justified'
  <2>1. CASE pass = "idle"
    <3> DEFINE K == <<>>
    <3>1. DOMAIN K = {} /\ Constancy(K)
      BY DEF Constancy
    <3> HIDE DEF K
    <3>2. Certified(blocks, blocks, K)
      <4>1. ASSUME NEW b \in DOMAIN blocks, NEW i \in DOMAIN blocks[b].code
            PROVE  Became(blocks, blocks, K, b, i)
        <5>1. Whole(blocks[b].code[i])
          BY <4>1, BlockCode DEF Sure, IInv
        <5> QED
          BY <3>1, <5>1 DEF Became, Rewritten
      <4>2. ASSUME NEW b \in DOMAIN blocks
            PROVE  Len(blocks[b].code) \in Nat /\ DOMAIN blocks[b].code = 1..Len(blocks[b].code)
        BY <4>2, BlockCode DEF Sure, IInv
      <4> QED
        BY <3>1, <4>1, <4>2 DEF Certified
    <3>3. Certified(source', blocks', K)
      BY <1>1, <2>1, <3>2
    <3>4. Learned(K)'
      BY <1>1, <3>1 DEF Learned, Learnable
    <3> QED
      BY <3>3, <3>4 DEF Justified
  <2>2. CASE pass = "end"
    <3>1. PICK K : Certified(source, blocks, K) /\ Learned(K)
      BY <2>2 DEF Sure, Justified
    <3>2. Certified(source', blocks', K)
      BY <1>1, <2>2, <3>1
    <3>3. Learned(K)'
      BY <1>1, <2>2, <3>1 DEF Learned, Learnable
    <3> QED
      BY <3>2, <3>3 DEF Justified
  <2> QED
    BY <1>1, <2>1, <2>2
<1> QED
  BY <1>2, <1>3, <1>4, <1>5 DEF Sure

LEMMA RemoveDeadSure == ASSUME Sure, RemoveDead, IInv' PROVE Sure'
<1>1. /\ pass = "mark" /\ pass' = "reach" /\ source' = source /\ known' = known /\ multi' = multi
      /\ DOMAIN blocks' = DOMAIN blocks
  BY DEF RemoveDead, foldVars
<1>2. ASSUME NEW b \in DOMAIN blocks
      PROVE  /\ blocks'[b].term = blocks[b].term
             /\ DOMAIN blocks'[b].code = DOMAIN blocks[b].code
             /\ \A i \in DOMAIN blocks[b].code :
                  blocks'[b].code[i] = IF Dead(blocks[b].code[i]) THEN Gone ELSE blocks[b].code[i]
  <2>1. blocks[b] \in Block
    BY <1>2 DEF Sure, IInv, TypeOK
  <2> QED
    BY <1>2, <2>1 DEF RemoveDead, Block
<1>3. PICK K : Certified(source, blocks, K) /\ Learned(K)
  BY <1>1 DEF Sure, Justified
<1>4. \A b \in DOMAIN blocks : \A i \in DOMAIN blocks[b].code :
        Became(source, blocks, K, b, i)
  BY <1>3 DEF Certified
<1>5. Certified(source, blocks', K)
  <2>1. ASSUME NEW b \in DOMAIN blocks', NEW i \in DOMAIN blocks[b].code,
               blocks'[b].code[i] # blocks[b].code[i]
        PROVE  Rewritten(K, source[b].code[i], blocks'[b].code[i])
    <3>1. blocks'[b].code[i] = Gone
      BY <1>1, <1>2, <2>1
    <3>2. i \in DOMAIN source[b].code
      BY <1>1, <2>1 DEF Sure, IInv, SameShape
    <3>3. HasSideEffects(source[b].code[i]) => Gone = source[b].code[i]
      BY <1>1, <2>1, <3>1, <3>2 DEF IInv, NeededKept
    <3>4. ~HasSideEffects(source[b].code[i])
      <4>1. ~HasSideEffects(Gone)
        BY DEF HasSideEffects, Gone, Instr
      <4> HIDE DEF Gone
      <4> QED
        BY <3>3, <4>1
    <3> QED
      BY <3>1, <3>4 DEF Rewritten
  <2>2. \A b \in DOMAIN blocks' : \A i \in DOMAIN blocks[b].code :
          source[b].code[i].dest \in DOMAIN K => Yields(K, source[b].code[i], K[source[b].code[i].dest])
    BY <1>1, <1>4 DEF Became
  <2>3. Constancy(K)
    BY <1>3 DEF Certified
  <2> QED
    BY <1>1, <1>2, <1>3, <2>1, <2>2, <2>3, ShrinkCertified DEF Sure
<1>6. Learned(K)'
  BY <1>1, <1>3 DEF Learned, Learnable
<1>7. Justified'
  BY <1>1, <1>5, <1>6 DEF Justified
<1>8. Uniform'
  <2>1. Gone.dest = NoValue
    BY DEF Gone, Instr
  <2>2. ASSUME NEW b \in DOMAIN blocks, NEW i \in DOMAIN blocks[b].code
        PROVE  /\ blocks[b].code[i].dest \in {source[b].code[i].dest, NoValue}
               /\ blocks'[b].code[i].dest =
                    IF blocks[b].code[i].dest # NoValue /\ blocks[b].code[i].dest \notin live
                    THEN NoValue ELSE blocks[b].code[i].dest
    <3>1. blocks[b].code[i].dest \in {source[b].code[i].dest, NoValue}
      BY <1>4, <2>2, RewrittenTo DEF Became
    <3>2. blocks'[b].code[i] = IF Dead(blocks[b].code[i]) THEN Gone ELSE blocks[b].code[i]
      BY <1>2, <2>2
    <3> QED
      BY <2>1, <3>1, <3>2 DEF Dead
  <2> SUFFICES ASSUME NEW b \in DOMAIN blocks, NEW c \in DOMAIN blocks,
                      NEW i \in DOMAIN blocks[b].code, NEW j \in DOMAIN blocks[c].code,
                      source[b].code[i].dest = source[c].code[j].dest
               PROVE  blocks'[b].code[i].dest = source[b].code[i].dest
                        <=> blocks'[c].code[j].dest = source[c].code[j].dest
    BY <1>1, <1>2 DEF Uniform
  <2>3. blocks[b].code[i].dest = source[b].code[i].dest <=> blocks[c].code[j].dest = source[c].code[j].dest
    BY <1>1 DEF Sure, Uniform
  <2> QED
    BY <2>2, <2>3
<1> QED
  BY <1>1, <1>7, <1>8 DEF Sure, Counted, KnownOnce

LEMMA RemoveUnreachableSure == ASSUME Sure, RemoveUnreachable, IInv' PROVE Sure'
<1>1. /\ pass = "reach" /\ pass' = "end" /\ source' = source /\ known' = known /\ multi' = multi
      /\ DOMAIN blocks' = DOMAIN blocks \cap reached
      /\ \A b \in DOMAIN blocks' : blocks'[b] = blocks[b]
  BY DEF RemoveUnreachable, foldVars
<1>2. PICK K : Certified(source, blocks, K) /\ Learned(K)
  BY <1>1 DEF Sure, Justified
<1>3. Certified(source, blocks', K)
  <2>1. \A b \in DOMAIN blocks' : \A i \in DOMAIN blocks[b].code :
          source[b].code[i].dest \in DOMAIN K => Yields(K, source[b].code[i], K[source[b].code[i].dest])
    BY <1>1, <1>2 DEF Certified, Became
  <2>2. Constancy(K)
    BY <1>2 DEF Certified
  <2> QED
    BY <1>1, <1>2, <2>1, <2>2, ShrinkCertified DEF Sure
<1>4. Learned(K)'
  BY <1>1, <1>2 DEF Learned, Learnable
<1>5. Justified'
  BY <1>1, <1>3, <1>4 DEF Justified
<1>6. Uniform'
  BY <1>1 DEF Sure, Uniform
<1> QED
  BY <1>1, <1>5, <1>6 DEF Sure, Counted, KnownOnce

\* Learning a constant, of a value that one place defines.
LEMMA LearningCertified ==
  ASSUME Sure, pass = "fold", NEW K, Certified(source, blocks, K), Learned(K),
         NEW b \in DOMAIN blocks, NEW p \in DOMAIN blocks[b].code,
         NEW c \in Constants, Yields(K, source[b].code[p], c), Learns(source[b].code[p]),
         blocks[b].code[p].dest = source[b].code[p].dest, source[b].code[p].dest # NoValue,
         source[b].code[p].dest \notin multi
  PROVE  \E L : /\ Grown(K, L) /\ Learnable(L)
                /\ source[b].code[p].dest \in DOMAIN L /\ L[source[b].code[p].dest] = c
<1> DEFINE d == source[b].code[p].dest
<1>1. \A e \in DOMAIN blocks : \A i \in DOMAIN blocks[e].code :
        source[e].code[i].dest \in DOMAIN K =>
          Yields(K, source[e].code[i], K[source[e].code[i].dest])
  BY DEF Certified, Became
<1>2. Constancy(K)
  BY DEF Certified
<1>3. Learnable(K)
  BY DEF Learned
<1>4. CASE d \in DOMAIN K
  <2>1. Yields(K, source[b].code[p], K[d])
    BY <1>1, <1>4
  <2>2. K[d] = c
    BY <2>1, YieldsOne
  <2>3. Grown(K, K)
    BY <1>1, <1>2 DEF Grown
  <2> QED
    BY <1>3, <1>4, <2>2, <2>3
<1>5. CASE d \notin DOMAIN K
  <2> DEFINE L == [v \in DOMAIN K \cup {d} |-> IF v = d THEN c ELSE K[v]]
  <2> HIDE DEF d
  <2>1. /\ DOMAIN L = DOMAIN K \cup {d} /\ L[d] = c
        /\ \A v \in DOMAIN K : v \in DOMAIN L /\ L[v] = K[v]
    BY <1>5
  <2>2. Constancy(L)
    BY <1>2 DEF Constancy
  <2> HIDE DEF L
  <2>3. ASSUME NEW e \in DOMAIN blocks, NEW i \in DOMAIN blocks[e].code,
               source[e].code[i].dest \in DOMAIN L
        PROVE  Yields(L, source[e].code[i], L[source[e].code[i].dest])
    <3>1. CASE source[e].code[i].dest \in DOMAIN K
      BY <1>1, <2>1, <2>3, <3>1, YieldsStay
    <3>2. CASE source[e].code[i].dest = d
      <4>1. blocks[e].code[i].dest = d
        BY <2>3, <3>2 DEF Sure, Uniform, d
      <4>2. <<e, i>> = <<b, p>>
        BY <2>3, <4>1 DEF Sure, Counted, d
      <4>3. Yields(L, source[b].code[p], c)
        BY <2>1, YieldsStay
      <4> QED
        BY <2>1, <4>2, <4>3 DEF d
    <3> QED
      BY <2>1, <2>3, <3>1, <3>2
  <2>4. \E i \in Code(source) : Learns(i) /\ i.dest = d
    <3>1. b \in DOMAIN source /\ p \in DOMAIN source[b].code
      BY DEF Sure, IInv, SameShape
    <3>2. source[b].code[p] \in Code(source)
      BY <3>1, InCode
    <3> QED
      BY <3>2 DEF d
  <2>5. Learnable(L)
    BY <1>3, <2>1, <2>4 DEF Learnable
  <2>6. Grown(K, L)
    BY <2>1, <2>2, <2>3 DEF Grown
  <2> QED
    BY <2>1, <2>5, <2>6 DEF d
<1> QED
  BY <1>4, <1>5

LEMMA FoldedIsResult ==
  ASSUME KnownOnce, NEW i
  PROVE  Folded(i) = Result(known, i)
<1>1. \A o : ConstantOf(o) = ConstIn(known, o)
  BY DEF KnownOnce, ConstantOf, ConstIn
<1> QED
  BY <1>1 DEF Folded, Result

\* What is folded is as it was built; what is a constant already is what K yields.
LEMMA FoldedYields ==
  ASSUME NEW K, Learned(K), NEW was, NEW is, Rewritten(K, was, is), Result(known, is) # NotFolded
  PROVE  /\ is = was /\ Result(K, was) = Result(known, is)
         /\ Learns(was) /\ Yields(K, was, Result(known, is))
<1>1. is.op \in {"unary", "binary"}
  BY DEF Result
<1>2. Gone.op = "gone" /\ \A c : Copy(was.dest, c).op = "copy"
  BY DEF Gone, Copy, Instr
<1>3. is = was
  BY <1>1, <1>2 DEF Rewritten
<1>4. Result(K, was) = Result(known, is)
  BY <1>3, ResultsStay DEF Learned
<1> QED
  BY <1>1, <1>3, <1>4 DEF Learns, Yields

LEMMA CopiedYields ==
  ASSUME NEW K, NEW was, NEW is, Rewritten(K, was, is), is.op = "copy", is.args[1].value = NoValue
  PROVE  is.dest = was.dest /\ Learns(was) /\ Yields(K, was, is.args[1].const)
<1>1. Gone.op = "gone"
  BY DEF Gone, Instr
<1>2. CASE is = was
  BY <1>2 DEF Learns, Yields
<1>3. CASE Result(K, was) # NotFolded /\ is = Copy(was.dest, Constant(Result(K, was)))
  <2>1. is.args[1].const = Result(K, was) /\ is.dest = was.dest
    <3>1. is.args = <<Constant(Result(K, was))>> /\ is.dest = was.dest
      BY <1>3 DEF Copy, Instr
    <3> QED
      BY <3>1 DEF Constant
  <2>2. was.op \in {"unary", "binary"}
    BY <1>3 DEF Result
  <2> QED
    BY <1>3, <2>1, <2>2 DEF Learns, Yields
<1> QED
  BY <1>1, <1>2, <1>3 DEF Rewritten

LEMMA FoldInstructionSure == ASSUME Sure, FoldInstruction, IInv' PROVE Sure'
<1> DEFINE b == place[1]
           p == place[2]
           was == source[b].code[p]
           is == blocks[b].code[p]
           result == Folded(is)
           folded == Copy(is.dest, Constant(result))
<1>1. b \in DOMAIN blocks /\ p \in DOMAIN blocks[b].code
  <2>1. b \in DOMAIN blocks /\ p \in Nat \ {0} /\ p <= Len(blocks[b].code)
    BY DEF Sure, IInv, TypeOK, FoldInstruction, InBlock
  <2>2. DOMAIN blocks[b].code = 1..Len(blocks[b].code) /\ Len(blocks[b].code) \in Nat
    BY <2>1, BlockCode DEF Sure, IInv
  <2> QED
    BY <2>1, <2>2
<1>2. pass = "fold" /\ pass' = "fold" /\ source' = source /\ multi' = multi
  BY DEF FoldInstruction
<1>3. PICK K : Certified(source, blocks, K) /\ Learned(K)
  BY <1>2 DEF Sure, Justified
<1>4. Rewritten(K, was, is)
  BY <1>1, <1>3 DEF Certified, Became
<1>5. is \in Instruction /\ Whole(is) /\ is.dest \in Nat
  BY <1>1, BlockCode DEF Sure, IInv, Instruction
<1>6. result = Result(known, is)
  BY FoldedIsResult DEF Sure
<1>7. result \in Foldable
  <2>1. /\ is.op = "unary" => Len(is.args) = 1
        /\ is.op = "binary" => Len(is.args) = 2
    BY <1>5 DEF Whole
  <2> QED
    BY <1>5, <2>1, InstructionFolds DEF Sure, IInv, TypeOK
<1>8. ASSUME NEW c \in Constants, Yields(K, was, c), Learns(was), is.dest = was.dest,
             known' = Learnt(is.dest, c)
      PROVE  /\ KnownOnce'
             /\ \E L : Grown(K, L) /\ Learned(L)'
  <2>1. CASE is.dest = NoValue \/ is.dest \in multi
    <3>1. known' = known
      BY <1>8, <2>1 DEF Learnt
    <3>2. Learned(K)'
      BY <1>2, <1>3, <3>1 DEF Learned, Learnable
    <3>3. KnownOnce'
      BY <1>2, <3>1 DEF Sure, KnownOnce
    <3> QED
      BY <1>3, <3>2, <3>3 DEF Certified, Became, Grown
  <2>2. CASE is.dest # NoValue /\ is.dest \notin multi
    <3>1. /\ DOMAIN known' = DOMAIN known \cup {is.dest}
          /\ \A v \in DOMAIN known' : known'[v] = IF v = is.dest THEN c ELSE known[v]
      BY <1>8, <2>2 DEF Learnt
    <3>2. KnownOnce'
      BY <1>2, <2>2, <3>1 DEF Sure, KnownOnce
    <3>3. PICK L : /\ Grown(K, L) /\ Learnable(L)
                   /\ was.dest \in DOMAIN L /\ L[was.dest] = c
      <4>1. /\ b \in DOMAIN blocks /\ p \in DOMAIN blocks[b].code
            /\ Yields(K, source[b].code[p], c) /\ Learns(source[b].code[p])
            /\ blocks[b].code[p].dest = source[b].code[p].dest
            /\ source[b].code[p].dest # NoValue /\ source[b].code[p].dest \notin multi
        BY <1>1, <1>8, <2>2
      <4> HIDE DEF b, p
      <4> QED
        BY <1>2, <1>3, <1>8, <4>1, LearningCertified
    <3>4. Learned(L)'
      <4>1. is.dest = was.dest
        BY <1>8
      <4>2. \A v \in DOMAIN known : v \in DOMAIN K /\ K[v] = known[v]
        BY <1>3 DEF Learned
      <4> HIDE DEF was, is
      <4>3. \A v \in DOMAIN known' : v \in DOMAIN L /\ L[v] = known'[v]
        BY <3>1, <3>3, <4>1, <4>2 DEF Grown
      <4> QED
        BY <1>2, <3>3, <4>3 DEF Learned, Learnable
    <3> QED
      BY <3>2, <3>3, <3>4
  <2> QED
    BY <2>1, <2>2
<1>9. CASE result = NotFolded
  <2>1. blocks' = blocks
    BY <1>9 DEF FoldInstruction
  <2>2. CASE is.op = "copy" /\ is.args[1].value = NoValue
    <3> DEFINE c == is.args[1].const
    <3>1. known' = Learnt(is.dest, c)
      BY <1>9, <2>2 DEF FoldInstruction
    <3>2. is.dest = was.dest /\ Learns(was) /\ Yields(K, was, c)
      BY <1>4, <2>2, CopiedYields
    <3>3. c \in Constants
      <4>1. is.args[1] \in Operand
        BY <1>5, <2>2, ArgsOf
      <4> QED
        BY <4>1 DEF Operand
    <3> HIDE DEF c
    <3>4. PICK L : Grown(K, L) /\ Learned(L)'
      BY <1>8, <3>1, <3>2, <3>3
    <3>5. Certified(source, blocks', L)
      BY <1>2, <1>3, <2>1, <3>4, ShrinkCertified DEF Sure, Grown
    <3>6. Justified'
      BY <1>2, <3>4, <3>5 DEF Justified
    <3>7. KnownOnce'
      BY <1>8, <3>1, <3>2, <3>3
    <3> QED
      BY <1>2, <2>1, <3>6, <3>7 DEF Sure, Uniform, Counted
  <2>3. CASE ~(is.op = "copy" /\ is.args[1].value = NoValue)
    <3>1. known' = known
      BY <1>9, <2>3 DEF FoldInstruction
    <3> QED
      BY <1>2, <2>1, <3>1, SureStands
  <2> QED
    BY <2>2, <2>3
<1>10. CASE result # NotFolded
  <2>1. result \in Constants
    BY <1>7, <1>10 DEF Foldable
  <2>2. /\ is = was /\ Result(K, was) = result /\ Learns(was) /\ Yields(K, was, result)
    BY <1>3, <1>4, <1>6, <1>10, FoldedYields
  <2>3. blocks' = [blocks EXCEPT ![b].code[p] = folded] /\ known' = Learnt(is.dest, result)
    BY <1>10 DEF FoldInstruction
  <2>4. folded.dest = is.dest
    BY DEF Copy, Instr
  <2>5. PICK L : Grown(K, L) /\ Learned(L)'
    <3>1. is.dest = was.dest
      BY <2>2
    <3> HIDE DEF result, was, is
    <3> QED
      BY <1>8, <2>1, <2>2, <2>3, <3>1
  <2>6. KnownOnce'
    <3>1. is.dest = was.dest
      BY <2>2
    <3> HIDE DEF result, was, is
    <3> QED
      BY <1>8, <2>1, <2>2, <2>3, <3>1
  <2>7. Result(L, was) = result
    BY <1>10, <2>2, <2>5, ResultsStay DEF Grown
  <2>8. Rewritten(L, was, folded)
    BY <1>10, <2>2, <2>7 DEF Rewritten
  <2> HIDE DEF folded
  <2>9. /\ DOMAIN blocks' = DOMAIN blocks
        /\ \A e \in DOMAIN blocks : /\ blocks'[e].term = blocks[e].term
                                    /\ DOMAIN blocks'[e].code = DOMAIN blocks[e].code
        /\ \A e \in DOMAIN blocks : \A i \in DOMAIN blocks[e].code :
             blocks'[e].code[i] = IF e = b /\ i = p THEN folded ELSE blocks[e].code[i]
    <3>1. /\ \A e \in DOMAIN blocks : blocks[e] \in Block
          /\ blocks \in [DOMAIN blocks -> Block]
      BY DEF Sure, IInv, TypeOK
    <3>2. ASSUME NEW e \in DOMAIN blocks, e # b PROVE blocks'[e] = blocks[e]
      BY <2>3, <3>2
    <3>3. /\ blocks'[b].term = blocks[b].term
          /\ blocks'[b].code = [blocks[b].code EXCEPT ![p] = folded]
      BY <1>1, <2>3, <3>1 DEF Block
    <3>4. /\ DOMAIN blocks'[b].code = DOMAIN blocks[b].code
          /\ \A i \in DOMAIN blocks[b].code :
               blocks'[b].code[i] = IF i = p THEN folded ELSE blocks[b].code[i]
      BY <3>3
    <3>5. DOMAIN blocks' = DOMAIN blocks
      BY <2>3
    <3> QED
      BY <3>2, <3>3, <3>4, <3>5
  <2>10. Certified(source, blocks', L)
    <3>1. \A e \in DOMAIN blocks' : \A i \in DOMAIN blocks[e].code :
            blocks'[e].code[i] # blocks[e].code[i] =>
              Rewritten(L, source[e].code[i], blocks'[e].code[i])
      BY <2>8, <2>9
    <3> QED
      BY <1>2, <1>3, <2>5, <2>9, <3>1, ShrinkCertified DEF Sure, Grown
  <2>11. Justified'
    BY <1>2, <2>5, <2>10 DEF Justified
  <2>12. \A e \in DOMAIN blocks : \A i \in DOMAIN blocks[e].code :
           blocks'[e].code[i].dest = blocks[e].code[i].dest
    BY <2>4, <2>9
  <2>13. Uniform' /\ Counted'
    <3>1. Uniform'
      BY <1>2, <2>9, <2>12 DEF Sure, Uniform
    <3>2. Counted'
      BY <1>2, <2>9, <2>12 DEF Sure, Counted
    <3> QED
      BY <3>1, <3>2
  <2> QED
    BY <2>6, <2>11, <2>13 DEF Sure
<1> QED
  BY <1>9, <1>10

-----------------------------------------------------------------------------
LEMMA StepSure == Sure /\ [Next]_vars => Sure'
<1> SUFFICES ASSUME Sure, [Next]_vars PROVE Sure'
  OBVIOUS
<1>1. IInv'
  BY StepIInv DEF Sure
<1>2. CASE StartRound
  BY <1>1, <1>2, StartRoundSure
<1>3. ASSUME NEW b \in todo, FoldBlock(b) PROVE Sure'
  <2>1. pass = "fold" /\ pass' = "fold" /\ UNCHANGED <<blocks, source, known, multi>>
    BY <1>3 DEF FoldBlock
  <2> QED
    BY <1>1, <2>1, SureStands
<1>4. CASE FoldInstruction
  BY <1>1, <1>4, FoldInstructionSure
<1>5. CASE StartMarking
  <2>1. pass = "fold" /\ pass' = "mark" /\ UNCHANGED <<blocks, source, known, multi>>
    BY <1>5 DEF StartMarking
  <2> QED
    BY <1>1, <2>1, SureStands
<1>6. CASE MarkLive
  <2>1. pass = "mark" /\ pass' = "mark" /\ UNCHANGED <<blocks, source, known, multi>>
    BY <1>6 DEF MarkLive, foldVars
  <2> QED
    BY <1>1, <2>1, SureStands
<1>7. CASE RemoveDead
  BY <1>1, <1>7, RemoveDeadSure
<1>8. CASE ReachBlock
  <2>1. pass = "reach" /\ pass' = "reach" /\ UNCHANGED <<blocks, source, known, multi>>
    BY <1>8 DEF ReachBlock, foldVars
  <2> QED
    BY <1>1, <2>1, SureStands
<1>9. CASE RemoveUnreachable
  BY <1>1, <1>9, RemoveUnreachableSure
<1>10. CASE UNCHANGED vars
  <2>1. UNCHANGED <<blocks, source, known, multi, pass>>
    BY <1>10 DEF vars, foldVars
  <2>2. CASE pass = "idle"
    BY <1>1, <2>1, <2>2 DEF Sure, Uniform, Counted, KnownOnce, Justified
  <2>3. CASE pass # "idle"
    BY <1>1, <2>1, <2>3, SureStands
  <2> QED
    BY <2>2, <2>3
<1> QED
  BY <1>2, <1>3, <1>4, <1>5, <1>6, <1>7, <1>8, <1>9, <1>10 DEF Next

LEMMA InitSure == IInv /\ Idle => Sure
  BY DEF Idle, Sure, Uniform, Counted, KnownOnce, Justified

\* Every round is justified: there are values that are constants, each because what defines it
\* is one or comes to one, and every place of the function has what it was built with, or the
\* constant these values make of it, or nothing where nothing needs it.
THEOREM RoundsJustified == Spec => []Justified
<1>1. Init => Sure
  BY InitIInv, InitSure DEF Init
<1>2. Sure => Justified
  BY DEF Sure
<1> QED
  BY <1>1, <1>2, StepSure, PTL DEF Spec

-----------------------------------------------------------------------------
\* An instruction, and a block of such.
Sound == {i \in Instruction : /\ i.op \in {"copy", "unary", "load"} => Len(i.args) = 1
                              /\ i.op \in {"binary", "address"} => Len(i.args) = 2
                              /\ i.op = "select" => Len(i.args) = 3
                              /\ i.dest = NoValue => HasSideEffects(i) \/ Reads(i) = {}}
SoundBlock == [code : Seq(Sound), term : Terminator]

\* The block begins with the phi of a loop's index.
Heading(block) == block.code # <<>> /\ block.code[1].op = "phi" /\ block.code[1].dest # NoValue

\* Blocks whose jumps go to D, and of which those of H begin with a phi.
Graph(bs, D, H) ==
  /\ bs \in [DOMAIN bs -> SoundBlock]
  /\ DOMAIN bs \subseteq Nat
  /\ \A b \in DOMAIN bs : Targets(bs[b].term) \subseteq D
  /\ H \subseteq DOMAIN bs
  /\ \A h \in H : Heading(bs[h])

-----------------------------------------------------------------------------
\* Instructions.
LEMMA Numbers == NoValue = 0 /\ NoBlock = -1 /\ Entry = 0 /\ NoBlock \notin Nat
  BY DEF NoValue, NoBlock, Entry

LEMMA NextNumbers ==
  ASSUME NEW n \in Nat \ {0}
  PROVE  /\ n + 1 \in Nat \ {0} /\ n + 2 \in Nat \ {0} /\ n + 3 \in Nat \ {0}
         /\ n + 4 \in Nat \ {0} /\ n + 5 \in Nat \ {0} /\ n + 6 \in Nat \ {0}
         /\ n + 7 \in Nat \ {0} /\ n + 8 \in Nat \ {0}
  OBVIOUS

LEMMA ConstantsTyped ==
  /\ \A n \in Int : Integer(n) \in Constants
  /\ Undefined \in Constants
<1>1. Half \in Nat \ {0}
  BY HalfAssumption DEF HalfAssumption
<1>2. ASSUME NEW n \in Int PROVE Integer(n) \in Constants
  <2>1. (n + Half) % (2 * Half) \in 0..(2 * Half - 1)
    BY <1>1
  <2>2. Wrap(n) \in -Half..(Half - 1)
    BY <1>1, <2>1 DEF Wrap
  <2> QED
    BY <2>2 DEF Integer, Constants
<1> QED
  BY <1>2 DEF Undefined, Constants

LEMMA OperandsTyped ==
  /\ \A v \in Nat : Value(v) \in Operand
  /\ \A c \in Constants : Constant(c) \in Operand
  BY ConstantsTyped DEF Value, Constant, Operand, NoValue

LEMMA InstructionsSound ==
  ASSUME NEW a \in Operand, NEW b \in Operand, NEW c \in Operand,
         NEW d \in Nat \ {0}, NEW sym \in STRING
  PROVE  /\ Copy(d, a) \in Sound /\ BinaryOp(sym, d, a, b) \in Sound
         /\ Load(d, a, sym) \in Sound /\ Select(d, a, b, c) \in Sound
         /\ Phi(d, <<a>>) \in Sound /\ Phi(d, <<a>>).op = "phi" /\ Phi(d, <<a>>).dest = d
         /\ Instr("unary", d, <<a>>, sym, NoBlock) \in Sound
         /\ Instr("address", d, <<a, b>>, sym, NoBlock) \in Sound
         /\ Instr("opaque", d, <<>>, sym, NoBlock) \in Sound
<1>1. \A op \in Operations, args \in Seq(Operand), name \in STRING :
        Instr(op, d, args, name, NoBlock) \in Instruction
  BY DEF Instr, Instruction
<1>2. /\ {"copy", "binary", "load", "select", "phi", "unary", "address", "opaque"} \subseteq Operations
      /\ <<a>> \in Seq(Operand) /\ <<a, b>> \in Seq(Operand) /\ <<a, b, c>> \in Seq(Operand)
      /\ <<>> \in Seq(Operand)
  BY DEF Operations
<1>3. "" \in STRING
  BY NamesAssumption
<1>4. \A op \in Operations, args \in Seq(Operand), name \in STRING :
        \/ op \in {"copy", "unary", "load"} /\ Len(args) = 1
        \/ op \in {"binary", "address"} /\ Len(args) = 2
        \/ op = "select" /\ Len(args) = 3
        \/ op \in {"phi", "opaque"}
        => Instr(op, d, args, name, NoBlock) \in Sound
  BY <1>1, Numbers DEF Instr, Sound
<1>5. Len(<<a>>) = 1 /\ Len(<<a, b>>) = 2 /\ Len(<<a, b, c>>) = 3
  OBVIOUS
<1> QED
  BY <1>2, <1>3, <1>4, <1>5 DEF Copy, BinaryOp, Load, Select, Phi, Instr

LEMMA CallsSound ==
  ASSUME NEW sym \in STRING, NEW d \in Nat, NEW args \in Seq(Operand)
  PROVE  Call(sym, d, args) \in Sound
BY Numbers DEF Call, Instr, Instruction, Operations, Sound, HasSideEffects

LEMMA ChecksSound ==
  ASSUME NEW b \in Nat \cup {NoBlock}
  PROVE  ErrorCheck(b) \in Sound
<1>1. <<>> \in Seq(Operand)
  OBVIOUS
<1> QED
  BY <1>1, Numbers, NamesAssumption
  DEF ErrorCheck, Instr, Instruction, Operations, Sound, HasSideEffects

LEMMA TermsTyped ==
  /\ \A x \in Int : Jump(x) \in Terminator /\ Targets(Jump(x)) = {x}
  /\ \A a \in Operand : Return(a) \in Terminator /\ Targets(Return(a)) = {}
  /\ Unreachable \in Terminator /\ Targets(Unreachable) = {}
  /\ Trap \in Terminator /\ Targets(Trap) = {}
<1>1. Constant(Undefined) \in Operand /\ NoBlock \in Int
  BY OperandsTyped, ConstantsTyped, Numbers
<1> QED
  BY <1>1 DEF Jump, Return, Unreachable, Trap, Term, Terminator, Targets

LEMMA BranchTyped ==
  ASSUME NEW a \in Operand, NEW x \in Int, NEW y \in Int
  PROVE  Branch(a, x, y) \in Terminator /\ Targets(Branch(a, x, y)) = {x, y}
  BY DEF Branch, Term, Terminator, Targets

-----------------------------------------------------------------------------
\* Sequences.
LEMMA Single == ASSUME NEW S, NEW x \in S PROVE <<x>> \in Seq(S)
  OBVIOUS

LEMMA Pair == ASSUME NEW S, NEW x \in S, NEW y \in S PROVE <<x, y>> \in Seq(S)
  OBVIOUS

LEMMA Triple ==
  ASSUME NEW S, NEW x \in S, NEW y \in S, NEW z \in S
  PROVE  <<x, y, z>> \in Seq(S)
  OBVIOUS

LEMMA Four ==
  ASSUME NEW S, NEW x \in S, NEW y \in S, NEW z \in S, NEW u \in S
  PROVE  <<x, y, z, u>> \in Seq(S)
  OBVIOUS

LEMMA Five ==
  ASSUME NEW S, NEW x \in S, NEW y \in S, NEW z \in S, NEW u \in S, NEW v \in S
  PROVE  <<x, y, z, u, v>> \in Seq(S)
  OBVIOUS

LEMMA FrontIn == ASSUME NEW S, NEW s \in Seq(S) PROVE Front(s) \in Seq(S)
<1>1. Len(s) \in Nat /\ \A i \in 1..Len(s) : s[i] \in S
  OBVIOUS
<1>2. CASE Len(s) = 0
  <2>1. s = <<>>
    BY <1>2, EmptySeq
  <2>2. SubSeq(s, 1, Len(s) - 1) = <<>>
    BY <1>2, <2>1
  <2> QED
    BY <2>2 DEF Front
<1>3. CASE Len(s) # 0
  <2>1. SubSeq(s, 1, Len(s) - 1) \in Seq(S)
    BY <1>1, <1>3, SubSeqProperties
  <2> QED
    BY <2>1 DEF Front
<1> QED
  BY <1>2, <1>3

LEMMA LastIn == ASSUME NEW S, NEW s \in Seq(S), s # <<>> PROVE Last(s) \in S
  BY EmptySeq DEF Last

LEMMA HeadAndTail ==
  ASSUME NEW S, NEW s \in Seq(S), s # <<>>
  PROVE  /\ Head(s) \in S /\ Tail(s) \in Seq(S)
         /\ Range(s) = {Head(s)} \cup Range(Tail(s))
<1>1. Len(s) \in Nat \ {0} /\ (\A i \in 1..Len(s) : s[i] \in S) /\ DOMAIN s = 1..Len(s)
  BY EmptySeq
<1>2. Head(s) = s[1] /\ Tail(s) \in Seq(S) /\ DOMAIN Tail(s) = 1..(Len(s) - 1)
  BY <1>1
<1>3. \A i \in DOMAIN Tail(s) : Tail(s)[i] = s[i + 1] /\ i + 1 \in DOMAIN s
  BY <1>1, <1>2
<1>4. \A i \in DOMAIN s : i = 1 \/ (i - 1 \in DOMAIN Tail(s) /\ Tail(s)[i - 1] = s[i])
  BY <1>1, <1>2
<1>5. ASSUME NEW x \in Range(s) PROVE x \in {Head(s)} \cup Range(Tail(s))
  BY <1>2, <1>4 DEF Range
<1>6. ASSUME NEW x \in Range(Tail(s)) PROVE x \in Range(s)
  BY <1>3 DEF Range
<1>7. Head(s) \in Range(s)
  BY <1>1, <1>2 DEF Range
<1> QED
  BY <1>1, <1>2, <1>5, <1>6, <1>7

-----------------------------------------------------------------------------
\* The operations on blocks.
LEMMA Widens ==
  ASSUME NEW bs, NEW D, NEW H, Graph(bs, D, H),
         NEW E, D \subseteq E, NEW J, J \subseteq H
  PROVE  Graph(bs, E, J)
  BY DEF Graph

\* What they leave alone.
LEMMA EmitFrames ==
  ASSUME NEW bs, NEW b, NEW code
  PROVE  /\ DOMAIN Emit(bs, b, code) = DOMAIN bs
         /\ \A c \in DOMAIN bs \ {b} : Emit(bs, b, code)[c] = bs[c]
  BY DEF Emit

LEMMA EndFrames ==
  ASSUME NEW bs, NEW b, NEW term
  PROVE  /\ DOMAIN End(bs, b, term) = DOMAIN bs
         /\ \A c \in DOMAIN bs \ {b} : End(bs, b, term)[c] = bs[c]
         /\ \A c \in DOMAIN bs : End(bs, b, term)[c].code = bs[c].code
  BY DEF End

LEMMA CloseFrames ==
  ASSUME NEW bs, NEW b, NEW code, NEW term
  PROVE  /\ DOMAIN Close(bs, b, code, term) = DOMAIN bs
         /\ \A c \in DOMAIN bs \ {b} : Close(bs, b, code, term)[c] = bs[c]
  BY EmitFrames, EndFrames DEF Close

LEMMA Reserves ==
  ASSUME NEW bs, NEW D, NEW H, Graph(bs, D, H), NEW ids, ids \subseteq Nat, ids \cap H = {}
  PROVE  /\ Graph(Reserve(bs, ids), D, H)
         /\ DOMAIN Reserve(bs, ids) = DOMAIN bs \cup ids
         /\ \A b \in ids : Reserve(bs, ids)[b] = Fresh
<1>1. Fresh \in SoundBlock /\ Targets(Fresh.term) = {}
  <2>1. <<>> \in Seq(Sound)
    OBVIOUS
  <2> QED
    BY <2>1, TermsTyped, OperandsTyped, ConstantsTyped, Numbers DEF Fresh, SoundBlock
<1>2. Reserve(bs, ids) = [b \in DOMAIN bs \cup ids |-> IF b \in ids THEN Fresh ELSE bs[b]]
  BY DEF Reserve, Bound
<1> HIDE DEF Reserve
<1>3. \A b \in DOMAIN bs : bs[b] \in SoundBlock
  BY DEF Graph
<1> QED
  BY <1>1, <1>2, <1>3 DEF Graph

LEMMA Emits ==
  ASSUME NEW bs, NEW D, NEW H, Graph(bs, D, H), NEW b \in DOMAIN bs \cup {NoBlock},
         NEW code \in Seq(Sound)
  PROVE  Graph(Emit(bs, b, code), D, H)
<1>1. CASE b = NoBlock
  BY <1>1 DEF Emit
<1>2. CASE b # NoBlock
  <2>1. /\ Emit(bs, b, code) = [bs EXCEPT ![b].code = bs[b].code \o code]
        /\ b \in DOMAIN bs /\ bs[b] \in SoundBlock
    BY <1>2 DEF Emit, Graph
  <2>2. /\ DOMAIN Emit(bs, b, code) = DOMAIN bs
        /\ \A c \in DOMAIN bs \ {b} : Emit(bs, b, code)[c] = bs[c]
        /\ Emit(bs, b, code)[b].term = bs[b].term
        /\ Emit(bs, b, code)[b].code = bs[b].code \o code
        /\ Emit(bs, b, code) = [c \in DOMAIN bs |-> Emit(bs, b, code)[c]]
    BY <2>1 DEF SoundBlock
  <2>3. bs[b].code \in Seq(Sound) /\ bs[b].code \o code \in Seq(Sound)
    BY <2>1 DEF SoundBlock
  <2>4. Emit(bs, b, code)[b] \in SoundBlock
    BY <2>1, <2>3 DEF SoundBlock
  <2>5. Heading(bs[b]) => Heading(Emit(bs, b, code)[b])
    <3>1. bs[b].code \in Seq(Sound)
      BY <2>3
    <3>2. bs[b].code # <<>> => bs[b].code \o code # <<>> /\ (bs[b].code \o code)[1] = bs[b].code[1]
      BY <3>1, EmptySeq
    <3> QED
      BY <2>2, <3>2 DEF Heading
  <2> HIDE DEF Emit
  <2> QED
    BY <2>2, <2>5, <2>4 DEF Graph
<1> QED
  BY <1>1, <1>2

\* An empty block is headed by the phi it gets.
LEMMA Heads1 ==
  ASSUME NEW bs, NEW D, NEW H, Graph(bs, D, H), NEW b \in DOMAIN bs, bs[b].code = <<>>,
         NEW code \in Seq(Sound), code # <<>>, code[1].op = "phi", code[1].dest # NoValue
  PROVE  Graph(Emit(bs, b, code), D, H \cup {b})
<1>1. b # NoBlock
  BY Numbers DEF Graph
<1>2. Emit(bs, b, code)[b].code = code
  BY <1>1 DEF Emit, Graph, SoundBlock
<1>3. Heading(Emit(bs, b, code)[b])
  BY <1>2 DEF Heading
<1>4. Graph(Emit(bs, b, code), D, H) /\ DOMAIN Emit(bs, b, code) = DOMAIN bs
  BY Emits, EmitFrames
<1> HIDE DEF Emit
<1> QED
  BY <1>3, <1>4 DEF Graph

LEMMA GraphEnds ==
  ASSUME NEW bs, NEW D, NEW H, Graph(bs, D, H), NEW b \in DOMAIN bs \cup {NoBlock},
         NEW term \in Terminator, Targets(term) \subseteq D
  PROVE  Graph(End(bs, b, term), D, H)
<1>1. CASE b = NoBlock
  BY <1>1 DEF End
<1>2. CASE b # NoBlock
  <2>1. /\ End(bs, b, term) = [bs EXCEPT ![b].term = term]
        /\ b \in DOMAIN bs /\ bs[b] \in SoundBlock
    BY <1>2 DEF End, Graph
  <2>2. /\ DOMAIN End(bs, b, term) = DOMAIN bs
        /\ \A c \in DOMAIN bs \ {b} : End(bs, b, term)[c] = bs[c]
        /\ End(bs, b, term)[b].term = term
        /\ End(bs, b, term)[b].code = bs[b].code
        /\ End(bs, b, term)[b] \in SoundBlock
        /\ End(bs, b, term) = [c \in DOMAIN bs |-> End(bs, b, term)[c]]
    BY <2>1 DEF SoundBlock
  <2> HIDE DEF End
  <2> QED
    BY <2>2 DEF Graph, Heading
<1> QED
  BY <1>1, <1>2

LEMMA Closes ==
  ASSUME NEW bs, NEW D, NEW H, Graph(bs, D, H), NEW b \in DOMAIN bs \cup {NoBlock},
         NEW code \in Seq(Sound), NEW term \in Terminator, Targets(term) \subseteq D
  PROVE  Graph(Close(bs, b, code, term), D, H)
<1>1. Graph(Emit(bs, b, code), D, H) /\ DOMAIN Emit(bs, b, code) = DOMAIN bs
  BY Emits, EmitFrames
<1>2. ASSUME NEW emitted, Graph(emitted, D, H), DOMAIN emitted = DOMAIN bs
      PROVE  Graph(End(emitted, b, term), D, H)
  <2>1. b \in DOMAIN emitted \cup {NoBlock}
    BY <1>2
  <2> QED
    BY <1>2, <2>1, GraphEnds
<1> QED
  BY <1>1, <1>2 DEF Close

\* A value more comes into the phi.
LEMMA Comes1 ==
  ASSUME NEW bs, NEW D, NEW H, Graph(bs, D, H), NEW h \in H, NEW a \in Operand
  PROVE  LET grown == [bs EXCEPT ![h].code[1].args = Append(@, a)]
         IN Graph(grown, D, H) /\ DOMAIN grown = DOMAIN bs
<1> DEFINE grown == [bs EXCEPT ![h].code[1].args = Append(@, a)]
           was == bs[h].code[1]
           is  == [was EXCEPT !.args = Append(@, a)]
           code == [bs[h].code EXCEPT ![1] = is]
<1>1. /\ h \in DOMAIN bs /\ bs[h] \in SoundBlock /\ bs[h].code \in Seq(Sound)
      /\ bs[h].code # <<>> /\ was.op = "phi" /\ was.dest # NoValue
  BY DEF Graph, Heading, SoundBlock
<1>2. 1 \in DOMAIN bs[h].code /\ was \in Sound
  BY <1>1, EmptySeq
<1>3. is \in Sound /\ is.op = "phi" /\ is.dest = was.dest
  <2>1. was \in Instruction /\ was.args \in Seq(Operand)
    BY <1>2 DEF Sound, Instruction
  <2>2. Append(was.args, a) \in Seq(Operand)
    BY <2>1
  <2>3. is \in Instruction /\ is.op = "phi" /\ is.dest = was.dest
    BY <1>1, <2>1, <2>2 DEF Instruction
  <2> QED
    BY <1>1, <2>3 DEF Sound
<1>4. code \in Seq(Sound) /\ code[1] = is /\ code # <<>>
  <2>1. DOMAIN code = 1..Len(bs[h].code) /\ Len(bs[h].code) \in Nat
    BY <1>1
  <2>2. \A i \in 1..Len(bs[h].code) : code[i] \in Sound
    BY <1>1, <1>2, <1>3
  <2>3. code \in Seq(Sound)
    <3>1. code \in [1..Len(bs[h].code) -> Sound]
      BY <2>1, <2>2
    <3> HIDE DEF code
    <3> QED
      BY <2>1, <3>1
  <2> QED
    BY <1>2, <2>1, <2>3
<1>5. grown = [bs EXCEPT ![h] = [bs[h] EXCEPT !.code = code]]
  OBVIOUS
<1> HIDE DEF is, was, code, grown
<1>6. /\ DOMAIN grown = DOMAIN bs
      /\ \A c \in DOMAIN bs \ {h} : grown[c] = bs[c]
      /\ grown[h].term = bs[h].term
      /\ grown[h].code = code
      /\ grown[h] \in SoundBlock
      /\ grown = [c \in DOMAIN bs |-> grown[c]]
  BY <1>1, <1>4, <1>5 DEF SoundBlock
<1>7. Heading(grown[h])
  BY <1>1, <1>3, <1>4, <1>6 DEF Heading
<1>8. Graph(grown, D, H) /\ DOMAIN grown = DOMAIN bs
  BY <1>6, <1>7 DEF Graph
<1> QED
  BY <1>8 DEF grown

-----------------------------------------------------------------------------
\* The inductive invariant.  What is left to do is typed, and what a point of the agenda
\* will work on is there, or is an else that is only numbered.
Syntax ==
  [kind : Kinds \cup {"region_begin", "region_end"}, name : STRING, expr : Expressions,
   upto : Expressions, body : Seq(Statements), other : Seq(Statements)]
Doings ==
  {"stmt", "test", "auto", "finish", "return_end", "then_end", "else_end", "while_end", "for_end",
   "range_end"}
Tasks == [do : Doings, s : Syntax, at : Seq(Int)]

Ready(p, D, next) ==
  /\ p.do = "return_end" => Len(p.at) = 1 /\ p.at[1] \in Nat
  /\ p.do \in {"then_end", "else_end"} =>
       /\ Len(p.at) = 3 /\ p.at[1] \in D /\ p.at[3] \in D
       /\ p.at[2] \in {NoBlock} \cup 0..(next - 1)
  /\ p.do = "while_end" => Len(p.at) = 2 /\ \A i \in 1..2 : p.at[i] \in D
  /\ p.do = "for_end" => Len(p.at) = 5 /\ (\A i \in 1..4 : p.at[i] \in D) /\ p.at[5] \in Nat \ {0}
  /\ p.do = "range_end" =>
       Len(p.at) = 8 /\ (\A i \in 1..4 : p.at[i] \in D) /\ \A i \in 5..8 : p.at[i] \in Nat \ {0}

\* The else blocks that are still to come, and the blocks whose phi gets another value.
Elses(points) == {p.at[2] : p \in {q \in points : q.do = "then_end"}} \ {NoBlock}
Heads(points) == {p.at[1] : p \in {q \in points : q.do \in {"for_end", "range_end"}}}

Listed ==
  /\ agenda \in Seq(Tasks)
  /\ \A p \in Range(agenda) : Ready(p, DOMAIN blocks, nextBlock)
  /\ Heads(Range(agenda)) \cap Elses(Range(agenda)) = {}
Numbered ==
  /\ nextBlock \in Nat /\ nextValue \in Nat \ {0}
  /\ DOMAIN blocks \subseteq 0..(nextBlock - 1)
Placed == current \in DOMAIN blocks \cup {NoBlock} /\ Entry \in DOMAIN blocks
Shaped == Graph(blocks, DOMAIN blocks \cup Elses(Range(agenda)), Heads(Range(agenda)))
Scoped == \A x \in DOMAIN scope : scope[x] \in Nat \ {0}
Nested ==
  /\ loops \in Seq([cont : DOMAIN blocks, brk : DOMAIN blocks, scoped : BOOLEAN])
  /\ regions \in Seq([exit : DOMAIN blocks, depth : Nat])
Promised == ensures \in Seq(Expressions)

LowerInv == Listed /\ Numbered /\ Placed /\ Shaped /\ Scoped /\ Nested /\ Promised

-----------------------------------------------------------------------------
\* What an expression comes to.
Outcomes == [code : Seq(Sound), value : Nat, next : Nat \ {0}]

LEMMA InnerExitTyped == ASSUME Nested, Numbered PROVE InnerExit \in Nat \cup {NoBlock}
<1>1. CASE regions = <<>>
  BY <1>1 DEF InnerExit
<1>2. CASE regions # <<>>
  <2>1. Last(regions) \in [exit : DOMAIN blocks, depth : Nat]
    BY <1>2, LastIn DEF Nested
  <2> QED
    BY <1>2, <2>1 DEF InnerExit, Numbered
<1> QED
  BY <1>1, <1>2

LEMMA RuntimeSound ==
  ASSUME NEW f \in STRING, NEW d \in Nat
  PROVE  Runtime(f, d) \in Seq(Sound)
<1>1. <<>> \in Seq(Operand)
  OBVIOUS
<1>2. Call(f, d, <<>>) \in Sound
  BY <1>1, CallsSound
<1> QED
  BY <1>2, Single DEF Runtime

LEMMA CheckedSound ==
  ASSUME Nested, Numbered, NEW f \in STRING, NEW d \in Nat, NEW args \in Seq(Operand)
  PROVE  Calls(f, d, args) \in Seq(Sound)
<1>1. Call(f, d, args) \in Sound
  BY CallsSound
<1>2. ErrorCheck(InnerExit) \in Sound
  BY InnerExitTyped, ChecksSound
<1> QED
  BY <1>1, <1>2, Pair DEF Calls

LEMMA ScopesSound ==
  ASSUME NEW scoped \in BOOLEAN
  PROVE  ScopePush(scoped) \in Seq(Sound) /\ ScopePop(scoped) \in Seq(Sound)
<1>1. "mem_scope_push" \in STRING /\ "mem_scope_pop" \in STRING
  BY NamesAssumption
<1>2. NoValue \in Nat
  BY Numbers
<1>3. Runtime("mem_scope_push", NoValue) \in Seq(Sound) /\ Runtime("mem_scope_pop", NoValue) \in Seq(Sound)
  BY <1>1, <1>2, RuntimeSound
<1>4. <<>> \in Seq(Sound)
  OBVIOUS
<1> QED
  BY <1>3, <1>4 DEF ScopePush, ScopePop

LEMMA AtomComes ==
  ASSUME Scoped, NEW a \in Atoms, Named(a) => a.name \in DOMAIN scope, NEW n \in Nat \ {0}
  PROVE  AtomFrom(a, n) \in Outcomes
<1>1. CASE Named(a)
  <2>1. <<>> \in Seq(Sound) /\ scope[a.name] \in Nat
    BY <1>1 DEF Scoped
  <2> QED
    BY <1>1, <2>1 DEF AtomFrom, Comes, Outcomes
<1>2. CASE ~Named(a)
  <2>1. Constant(a.const) \in Operand
    BY OperandsTyped DEF Atoms
  <2>2. Copy(n, Constant(a.const)) \in Sound
    BY <2>1, NamesAssumption, InstructionsSound
  <2>3. <<Copy(n, Constant(a.const))>> \in Seq(Sound)
    BY <2>2, Single
  <2>4. n \in Nat /\ n + 1 \in Nat \ {0}
    OBVIOUS
  <2> QED
    BY <1>2, <2>3, <2>4 DEF AtomFrom, Comes, Outcomes
<1> QED
  BY <1>1, <1>2

LEMMA ExpressionComes ==
  ASSUME Scoped, Nested, Numbered, NEW e \in Expressions, Resolved(e), NEW n \in Nat \ {0}
  PROVE  LowerFrom(e, n) \in Outcomes
<1> DEFINE l == AtomFrom(e.left, n)
           r == AtomFrom(e.right, l.next)
<1>1. e.left \in Atoms /\ e.right \in Atoms /\ e.sym \in STRING
  BY DEF Expressions
<1>2. l \in Outcomes
  BY <1>1, AtomComes DEF Resolved
<1>3. l.next \in Nat \ {0} /\ l.value \in Nat /\ l.code \in Seq(Sound)
  BY <1>2 DEF Outcomes
<1>4. r \in Outcomes
  BY <1>1, <1>3, AtomComes DEF Resolved
<1>5. r.next \in Nat \ {0} /\ r.value \in Nat /\ r.code \in Seq(Sound)
  BY <1>4 DEF Outcomes
<1> DEFINE binary == l.code \o r.code
                       \o <<BinaryOp(e.sym, r.next, Value(l.value), Value(r.value))>>
           unary  == l.code \o <<Instr("unary", l.next, <<Value(l.value)>>, e.sym, NoBlock)>>
           opaque == <<Instr("opaque", n, <<>>, e.sym, NoBlock)>>
<1>6. /\ LowerFrom(e, n) =
           CASE e.kind = "atom" -> l
             [] e.kind = "binary" -> Comes(binary, r.next, r.next + 1)
             [] e.kind = "unary" -> Comes(unary, l.next, l.next + 1)
             [] e.kind = "call" -> Comes(Calls(e.sym, n, <<>>), n, n + 1)
             [] e.kind = "take" -> Comes(Runtime(e.sym, n), n, n + 1)
             [] e.kind = "opaque" -> Comes(opaque, n, n + 1)
             [] OTHER -> Comes(<<>>, NoValue, n)
  BY DEF LowerFrom
<1> HIDE DEF l, r
<1>7. Value(l.value) \in Operand /\ Value(r.value) \in Operand
  BY <1>3, <1>5, OperandsTyped
<1>8. /\ BinaryOp(e.sym, r.next, Value(l.value), Value(r.value)) \in Sound
      /\ Instr("unary", l.next, <<Value(l.value)>>, e.sym, NoBlock) \in Sound
      /\ Instr("opaque", n, <<>>, e.sym, NoBlock) \in Sound
  BY <1>1, <1>3, <1>5, <1>7, InstructionsSound
<1>9. binary \in Seq(Sound) /\ unary \in Seq(Sound) /\ opaque \in Seq(Sound)
  BY <1>3, <1>5, <1>8
<1>10. <<>> \in Seq(Operand) /\ <<>> \in Seq(Sound)
  OBVIOUS
<1>11. n \in Nat
  OBVIOUS
<1>12. Calls(e.sym, n, <<>>) \in Seq(Sound) /\ Runtime(e.sym, n) \in Seq(Sound)
  BY <1>1, <1>10, <1>11, CheckedSound, RuntimeSound
<1> HIDE DEF binary, unary, opaque
<1>13. ASSUME NEW code \in Seq(Sound), NEW m \in Nat \ {0}
       PROVE  Comes(code, m, m + 1) \in Outcomes
  BY DEF Comes, Outcomes
<1>14. Comes(<<>>, NoValue, n) \in Outcomes
  BY <1>10, Numbers DEF Comes, Outcomes
<1> QED
  BY <1>2, <1>3, <1>5, <1>6, <1>9, <1>12, <1>13, <1>14

-----------------------------------------------------------------------------
\* The agenda.  Rest is what is left of it behind the point that is done now.
Rest == Range(Tail(agenda))

LEMMA AgendaSplits ==
  ASSUME LowerInv, agenda # <<>>
  PROVE  /\ Head(agenda) \in Tasks /\ The \in Syntax /\ At \in Seq(Int)
         /\ Tail(agenda) \in Seq(Tasks)
         /\ Range(agenda) = {Head(agenda)} \cup Rest
         /\ Ready(Head(agenda), DOMAIN blocks, nextBlock)
<1>1. agenda \in Seq(Tasks)
  BY DEF LowerInv, Listed
<1>2. /\ Head(agenda) \in Tasks /\ Tail(agenda) \in Seq(Tasks)
      /\ Range(agenda) = {Head(agenda)} \cup Rest
  BY <1>1, HeadAndTail DEF Rest
<1>3. Ready(Head(agenda), DOMAIN blocks, nextBlock)
  BY <1>2 DEF LowerInv, Listed
<1> QED
  BY <1>2, <1>3 DEF Tasks, The, At

LEMMA Unions ==
  ASSUME NEW A, NEW B
  PROVE  Elses(A \cup B) = Elses(A) \cup Elses(B) /\ Heads(A \cup B) = Heads(A) \cup Heads(B)
  BY DEF Elses, Heads

\* Points that have no blocks to work on.
Blockless(points) == \A p \in points : p.do \in {"stmt", "test", "auto", "finish"}

LEMMA PlainPoints ==
  ASSUME NEW points, Blockless(points)
  PROVE  /\ Elses(points) = {} /\ Heads(points) = {}
         /\ \A D, next : \A p \in points : Ready(p, D, next)
  BY DEF Blockless, Elses, Heads, Ready

LEMMA PointsPlain ==
  ASSUME NEW body \in Seq(Syntax)
  PROVE  Points(body) \in Seq(Tasks) /\ Blockless(Range(Points(body)))
<1>1. Len(body) \in Nat /\ DOMAIN body = 1..Len(body) /\ \A i \in 1..Len(body) : body[i] \in Syntax
  OBVIOUS
<1>2. \A s \in Syntax : Point("stmt", s, <<>>) \in Tasks
  <2>1. <<>> \in Seq(Int)
    OBVIOUS
  <2> QED
    BY <2>1 DEF Point, Tasks, Doings
<1>3. Points(body) \in [1..Len(body) -> Tasks]
  BY <1>1, <1>2 DEF Points
<1>4. \A i \in DOMAIN Points(body) : Points(body)[i].do = "stmt"
  BY DEF Points, Point
<1> HIDE DEF Points
<1> QED
  BY <1>1, <1>3, <1>4 DEF Blockless, Range

LEMMA StatementsTyped == Statements \subseteq Syntax
<1>1. \A k \in Kinds : k \in Kinds \cup {"region_begin", "region_end"}
  OBVIOUS
<1> QED
  BY <1>1, StatementsAssumption DEF Syntax

LEMMA ConditionsTyped ==
  /\ Lit(0) \in Atoms /\ NoExpr \in Expressions /\ TakeError \in Expressions
  /\ \A e \in Expressions : Require(e) \in Syntax
<1>1. "" \in STRING /\ "__err_take" \in STRING
  BY NamesAssumption
<1>2. Lit(0) \in Atoms
  <2>1. Integer(0) \in Constants
    BY ConstantsTyped
  <2> QED
    BY <1>1, <2>1 DEF Lit, Atom, Atoms
<1>3. NoExpr \in Expressions /\ TakeError \in Expressions
  BY <1>1, <1>2 DEF NoExpr, TakeError, Expr, Expressions
<1>4. <<>> \in Seq(Statements)
  OBVIOUS
<1> QED
  BY <1>1, <1>2, <1>3, <1>4 DEF Require, Stmt, Syntax, Kinds

LEMMA TestsPlain ==
  ASSUME NEW conds \in Seq(Expressions)
  PROVE  Tests(conds) \in Seq(Tasks) /\ Blockless(Range(Tests(conds)))
<1>1. Len(conds) \in Nat /\ DOMAIN conds = 1..Len(conds)
      /\ \A i \in 1..Len(conds) : Require(conds[i]) \in Syntax
  BY ConditionsTyped
<1>2. \A s \in Syntax : Point("test", s, <<>>) \in Tasks
  <2>1. <<>> \in Seq(Int)
    OBVIOUS
  <2> QED
    BY <2>1 DEF Point, Tasks, Doings
<1>3. Tests(conds) \in [1..Len(conds) -> Tasks]
  BY <1>1, <1>2 DEF Tests
<1>4. \A i \in DOMAIN Tests(conds) : Tests(conds)[i].do = "test"
  BY DEF Tests, Point
<1> DEFINE tests == Tests(conds)
<1>5. tests \in [1..Len(conds) -> Tasks] /\ \A i \in DOMAIN tests : tests[i].do = "test"
  BY <1>3, <1>4
<1> HIDE DEF tests
<1>6. tests \in Seq(Tasks) /\ \A t \in Range(tests) : t.do = "test"
  BY <1>1, <1>5 DEF Range
<1>7. Blockless(Range(tests))
  BY <1>6 DEF Blockless
<1> QED
  BY <1>6, <1>7 DEF tests

LEMMA TasksJoin ==
  ASSUME NEW s \in Seq(Tasks), NEW t \in Seq(Tasks)
  PROVE  s \o t \in Seq(Tasks) /\ Range(s \o t) = Range(s) \cup Range(t)
<1>1. Range(s \o t) = Range(s) \cup Range(t)
  BY RangeOfConcat
<1> QED
  BY <1>1

LEMMA PlainAnd ==
  ASSUME NEW points \in Seq(Tasks), Blockless(Range(points)), NEW p \in Tasks
  PROVE  /\ points \o <<p>> \in Seq(Tasks)
         /\ Elses(Range(points \o <<p>>)) = Elses({p})
         /\ Heads(Range(points \o <<p>>)) = Heads({p})
         /\ \A D, next : Ready(p, D, next) => \A q \in Range(points \o <<p>>) : Ready(q, D, next)
<1>1. <<p>> \in Seq(Tasks) /\ Range(<<p>>) = {p}
  BY Single DEF Range
<1>2. points \o <<p>> \in Seq(Tasks) /\ Range(points \o <<p>>) = Range(points) \cup {p}
  BY <1>1, TasksJoin
<1>3. /\ Elses(Range(points)) = {} /\ Heads(Range(points)) = {}
      /\ \A D, next : \A q \in Range(points) : Ready(q, D, next)
  BY PlainPoints
<1>4. /\ Elses(Range(points) \cup {p}) = Elses(Range(points)) \cup Elses({p})
      /\ Heads(Range(points) \cup {p}) = Heads(Range(points)) \cup Heads({p})
  BY Unions
<1> QED
  BY <1>2, <1>3, <1>4

LEMMA NoPoints ==
  /\ <<>> \in Seq(Tasks) /\ Blockless(Range(<<>>))
  BY DEF Blockless, Range

LEMMA LowerNumbers == \A m, n \in Nat : m <= n => 0..(m - 1) \subseteq 0..(n - 1)
  OBVIOUS

\* The agenda goes on, and nothing the blocks had is lost.
LEMMA Onward ==
  ASSUME LowerInv, agenda # <<>>, NEW points \in Seq(Tasks), Then(points),
         DOMAIN blocks \subseteq DOMAIN blocks', nextBlock' \in Nat, nextBlock <= nextBlock',
         Head(agenda).do = "then_end" => Head(agenda).at[2] \in DOMAIN blocks' \cup {NoBlock},
         \A p \in Range(points) : Ready(p, DOMAIN blocks', nextBlock'),
         Elses(Range(points)) = {} \/ Heads(Range(points)) = {},
         (Elses(Range(points)) \cup Heads(Range(points))) \cap 0..(nextBlock - 1) = {}
  PROVE  /\ Listed'
         /\ Elses(Range(agenda')) = Elses(Range(points)) \cup Elses(Rest)
         /\ Heads(Range(agenda')) = Heads(Range(points)) \cup Heads(Rest)
         /\ Graph(blocks, DOMAIN blocks' \cup Elses(Range(agenda')), Heads(Rest))
         /\ Heads(Rest) \subseteq DOMAIN blocks
         /\ Elses(Rest) \subseteq 0..(nextBlock - 1)
<1>1. /\ Tail(agenda) \in Seq(Tasks) /\ Head(agenda) \in Tasks
      /\ Range(agenda) = {Head(agenda)} \cup Rest
  BY AgendaSplits
<1>2. agenda' \in Seq(Tasks) /\ Range(agenda') = Range(points) \cup Rest
  <2>1. agenda' = points \o Tail(agenda)
    BY DEF Then
  <2> QED
    <3>1. /\ points \o Tail(agenda) \in Seq(Tasks)
          /\ Range(points \o Tail(agenda)) = Range(points) \cup Range(Tail(agenda))
      BY <1>1, TasksJoin
    <3> QED
      BY <2>1, <3>1 DEF Rest
<1>3. /\ Elses(Range(agenda')) = Elses(Range(points)) \cup Elses(Rest)
      /\ Heads(Range(agenda')) = Heads(Range(points)) \cup Heads(Rest)
      /\ Elses(Range(agenda)) = Elses({Head(agenda)}) \cup Elses(Rest)
      /\ Heads(Range(agenda)) = Heads({Head(agenda)}) \cup Heads(Rest)
  BY <1>1, <1>2, Unions
<1>4. Heads(Rest) \subseteq DOMAIN blocks /\ DOMAIN blocks \subseteq 0..(nextBlock - 1)
  BY <1>3 DEF LowerInv, Shaped, Graph, Numbered
<1>5. Elses(Rest) \subseteq 0..(nextBlock - 1)
  <2>1. \A p \in Rest : p.do = "then_end" => p.at[2] \in {NoBlock} \cup 0..(nextBlock - 1)
    BY <1>1 DEF LowerInv, Listed, Ready
  <2> QED
    BY <2>1 DEF Elses
<1>6. Heads(Rest) \cap Elses(Rest) = {}
  BY <1>3 DEF LowerInv, Listed
<1>7. Heads(Range(agenda')) \cap Elses(Range(agenda')) = {}
  BY <1>3, <1>4, <1>5, <1>6
<1>8. \A p \in Rest : Ready(p, DOMAIN blocks', nextBlock')
  <2>1. \A p \in Rest : Ready(p, DOMAIN blocks, nextBlock)
    BY <1>1 DEF LowerInv, Listed
  <2>2. 0..(nextBlock - 1) \subseteq 0..(nextBlock' - 1)
    <3>1. nextBlock \in Nat
      BY DEF LowerInv, Numbered
    <3> QED
      BY <3>1, LowerNumbers
  <2> QED
    BY <2>1, <2>2 DEF Ready
<1>9. Elses({Head(agenda)}) \subseteq DOMAIN blocks'
  BY DEF Elses
<1>10. Graph(blocks, DOMAIN blocks' \cup Elses(Range(agenda')), Heads(Rest))
  <2>1. DOMAIN blocks \cup Elses(Range(agenda)) \subseteq DOMAIN blocks' \cup Elses(Range(agenda'))
    BY <1>3, <1>9
  <2>2. Heads(Rest) \subseteq Heads(Range(agenda))
    BY <1>3
  <2>3. Graph(blocks, DOMAIN blocks \cup Elses(Range(agenda)), Heads(Range(agenda)))
    BY DEF LowerInv, Shaped
  <2> QED
    BY <2>1, <2>2, <2>3, Widens
<1>11. Listed'
  BY <1>2, <1>7, <1>8 DEF Listed
<1> QED
  BY <1>3, <1>4, <1>5, <1>10, <1>11

\* The same when the points have no blocks to work on.
LEMMA OnwardPlain ==
  ASSUME LowerInv, agenda # <<>>, NEW points \in Seq(Tasks), Then(points), Blockless(Range(points)),
         DOMAIN blocks \subseteq DOMAIN blocks', nextBlock' \in Nat, nextBlock <= nextBlock',
         Head(agenda).do = "then_end" => Head(agenda).at[2] \in DOMAIN blocks' \cup {NoBlock}
  PROVE  /\ Listed'
         /\ Elses(Range(agenda')) = Elses(Rest) /\ Heads(Range(agenda')) = Heads(Rest)
         /\ Graph(blocks, DOMAIN blocks' \cup Elses(Range(agenda')), Heads(Rest))
         /\ Heads(Rest) \subseteq DOMAIN blocks
         /\ Elses(Rest) \subseteq 0..(nextBlock - 1)
<1>1. /\ Elses(Range(points)) = {} /\ Heads(Range(points)) = {}
      /\ \A p \in Range(points) : Ready(p, DOMAIN blocks', nextBlock')
  BY PlainPoints
<1> QED
  BY <1>1, Onward

LEMMA SeqsGrow == ASSUME NEW S, NEW T, S \subseteq T PROVE Seq(S) \subseteq Seq(T)
<1> SUFFICES ASSUME NEW s \in Seq(S) PROVE s \in Seq(T)
  OBVIOUS
<1>1. Len(s) \in Nat /\ s \in [1..Len(s) -> S]
  OBVIOUS
<1>2. s \in [1..Len(s) -> T]
  BY <1>1
<1> QED
  BY <1>1, <1>2

LEMMA NestedGrows ==
  ASSUME Nested, DOMAIN blocks \subseteq DOMAIN blocks'
  PROVE  /\ loops \in Seq([cont : DOMAIN blocks', brk : DOMAIN blocks', scoped : BOOLEAN])
         /\ regions \in Seq([exit : DOMAIN blocks', depth : Nat])
<1>1. /\ [cont : DOMAIN blocks, brk : DOMAIN blocks, scoped : BOOLEAN]
           \subseteq [cont : DOMAIN blocks', brk : DOMAIN blocks', scoped : BOOLEAN]
      /\ [exit : DOMAIN blocks, depth : Nat] \subseteq [exit : DOMAIN blocks', depth : Nat]
  OBVIOUS
<1> QED
  BY <1>1, SeqsGrow DEF Nested

-----------------------------------------------------------------------------
\* The actions that make no blocks.
AsGood(bs, cs, H) ==
  /\ DOMAIN cs = DOMAIN bs
  /\ \A D : DOMAIN bs \subseteq D /\ Graph(bs, D, H) => Graph(cs, D, H)

LEMMA StaysGood == \A bs, H : AsGood(bs, bs, H)
  BY DEF AsGood

LEMMA GoodAfter ==
  ASSUME NEW bs, NEW cs, NEW ds, NEW H, AsGood(bs, cs, H), AsGood(cs, ds, H)
  PROVE  AsGood(bs, ds, H)
  BY DEF AsGood

LEMMA EmitsGood ==
  ASSUME NEW bs, NEW H, NEW b \in DOMAIN bs \cup {NoBlock}, NEW code \in Seq(Sound)
  PROVE  AsGood(bs, Emit(bs, b, code), H)
  BY Emits, EmitFrames DEF AsGood

LEMMA EndsGood ==
  ASSUME NEW bs, NEW H, NEW b \in DOMAIN bs \cup {NoBlock}, NEW term \in Terminator,
         Targets(term) \subseteq DOMAIN bs
  PROVE  AsGood(bs, End(bs, b, term), H)
<1>1. DOMAIN End(bs, b, term) = DOMAIN bs
  BY EndFrames
<1>2. ASSUME NEW D, DOMAIN bs \subseteq D, Graph(bs, D, H) PROVE Graph(End(bs, b, term), D, H)
  <2>1. Targets(term) \subseteq D
    BY <1>2
  <2> QED
    BY <1>2, <2>1, GraphEnds
<1> QED
  BY <1>1, <1>2 DEF AsGood

LEMMA ClosesGood ==
  ASSUME NEW bs, NEW H, NEW b \in DOMAIN bs \cup {NoBlock}, NEW code \in Seq(Sound),
         NEW term \in Terminator, Targets(term) \subseteq DOMAIN bs
  PROVE  AsGood(bs, Close(bs, b, code, term), H)
<1>1. AsGood(bs, Emit(bs, b, code), H) /\ DOMAIN Emit(bs, b, code) = DOMAIN bs
  BY EmitsGood, EmitFrames
<1>2. AsGood(Emit(bs, b, code), Close(bs, b, code, term), H)
  BY <1>1, EndsGood DEF Close
<1> QED
  BY <1>1, <1>2, GoodAfter

LEMMA StaysPut ==
  ASSUME LowerInv, agenda # <<>>, Head(agenda).do # "then_end",
         NEW points \in Seq(Tasks), Then(points),
         Elses(Range(points)) = {}, Heads(Range(points)) = {},
         \A p \in Range(points) : Ready(p, DOMAIN blocks, nextBlock),
         AsGood(blocks, blocks', Heads(Range(agenda))),
         nextBlock' = nextBlock, nextValue' \in Nat \ {0},
         current' \in DOMAIN blocks \cup {NoBlock},
         Scoped', Nested', Promised'
  PROVE  LowerInv'
<1>1. DOMAIN blocks' = DOMAIN blocks
  BY DEF AsGood
<1>2. /\ Listed'
      /\ Elses(Range(agenda')) = Elses(Rest) /\ Heads(Range(agenda')) = Heads(Rest)
  <2>1. nextBlock' \in Nat /\ nextBlock <= nextBlock'
    BY DEF LowerInv, Numbered
  <2>2. \A p \in Range(points) : Ready(p, DOMAIN blocks', nextBlock')
    BY <1>1
  <2>3. (Elses(Range(points)) \cup Heads(Range(points))) \cap 0..(nextBlock - 1) = {}
    OBVIOUS
  <2> QED
    BY <1>1, <2>1, <2>2, <2>3, Onward
<1>3. Shaped'
  <2> DEFINE D == DOMAIN blocks' \cup Elses(Range(agenda'))
  <2>1. Range(agenda) = {Head(agenda)} \cup Rest
    BY AgendaSplits
  <2>2. /\ Elses(Range(agenda)) = Elses({Head(agenda)}) \cup Elses(Rest)
        /\ Heads(Range(agenda)) = Heads({Head(agenda)}) \cup Heads(Rest)
    BY <2>1, Unions
  <2>3. Elses({Head(agenda)}) = {}
    BY DEF Elses
  <2>4. D = DOMAIN blocks \cup Elses(Range(agenda))
    BY <1>1, <1>2, <2>2, <2>3
  <2> HIDE DEF D
  <2>5. Graph(blocks, D, Heads(Range(agenda))) /\ DOMAIN blocks \subseteq D
    BY <2>4 DEF LowerInv, Shaped
  <2>6. Graph(blocks', D, Heads(Range(agenda)))
    BY <2>5 DEF AsGood
  <2>7. Graph(blocks', D, Heads(Range(agenda')))
    BY <1>2, <2>2, <2>6, Widens
  <2> QED
    BY <2>7 DEF Shaped, D
<1>4. Numbered' /\ Placed'
  BY <1>1 DEF LowerInv, Numbered, Placed
<1> QED
  BY <1>2, <1>3, <1>4 DEF LowerInv

\* When the points have no blocks to work on, and what surrounds them stays.
LEMMA StaysPutPlain ==
  ASSUME LowerInv, agenda # <<>>, Head(agenda).do # "then_end",
         NEW points \in Seq(Tasks), Then(points), Blockless(Range(points)),
         AsGood(blocks, blocks', Heads(Range(agenda))),
         nextBlock' = nextBlock, nextValue' \in Nat \ {0},
         current' \in DOMAIN blocks \cup {NoBlock}, UNCHANGED <<loops, regions>>,
         Scoped', Promised'
  PROVE  LowerInv'
<1>1. /\ Elses(Range(points)) = {} /\ Heads(Range(points)) = {}
      /\ \A p \in Range(points) : Ready(p, DOMAIN blocks, nextBlock)
  BY PlainPoints
<1>2. Nested'
  <2>1. DOMAIN blocks' = DOMAIN blocks
    BY DEF AsGood
  <2> QED
    BY <2>1 DEF LowerInv, Nested
<1> QED
  BY <1>1, <1>2, StaysPut

LEMMA CurrentPlaced == ASSUME LowerInv PROVE current \in DOMAIN blocks \cup {NoBlock}
  BY DEF LowerInv, Placed

LEMMA LowersTo ==
  ASSUME LowerInv, agenda # <<>>, Resolved(The.expr)
  PROVE  LET e == Lower(The.expr)
         IN e.code \in Seq(Sound) /\ e.value \in Nat /\ e.next \in Nat \ {0}
<1>1. The.expr \in Expressions
  BY AgendaSplits DEF Syntax
<1>2. nextValue \in Nat \ {0}
  BY DEF LowerInv, Numbered
<1>3. LowerFrom(The.expr, nextValue) \in Outcomes
  BY <1>1, <1>2, ExpressionComes DEF LowerInv
<1> QED
  BY <1>3 DEF Lower, Outcomes

LEMMA BoundScoped ==
  ASSUME Scoped, NEW x, NEW v \in Nat \ {0}, scope' = Bound(scope, {x}, v)
  PROVE  Scoped'
  BY DEF Scoped, Bound

LEMMA BuildDeclarationKeeps == ASSUME LowerInv, BuildDeclaration PROVE LowerInv'
<1> DEFINE i == Lower(The.expr)
           e == IF The.expr.kind = "none"
                THEN Comes(<<Copy(nextValue, Constant(Undefined))>>, nextValue, nextValue + 1)
                ELSE Comes(i.code \o <<Copy(i.next, Value(i.value))>>, i.next, i.next + 1)
<1>1. /\ agenda # <<>> /\ Head(agenda).do = "stmt" /\ Resolved(The.expr)
      /\ blocks' = Emit(blocks, current, e.code)
      /\ scope' = Bound(scope, {The.name}, e.value)
      /\ nextValue' = e.next
      /\ Then(<<>>)
      /\ UNCHANGED <<current, nextBlock, loops, regions, ensures>>
  BY DEF BuildDeclaration, On, Doing
<1>2. nextValue \in Nat \ {0} /\ nextValue + 1 \in Nat \ {0}
  BY DEF LowerInv, Numbered
<1>3. i.code \in Seq(Sound) /\ i.value \in Nat /\ i.next \in Nat \ {0} /\ i.next + 1 \in Nat \ {0}
  <2>1. i.code \in Seq(Sound) /\ i.value \in Nat /\ i.next \in Nat \ {0}
    BY <1>1, LowersTo
  <2> QED
    BY <2>1
<1> HIDE DEF i
<1>4. /\ Copy(nextValue, Constant(Undefined)) \in Sound /\ Copy(i.next, Value(i.value)) \in Sound
  BY <1>2, <1>3, OperandsTyped, ConstantsTyped, NamesAssumption, InstructionsSound
<1>5. e.code \in Seq(Sound) /\ e.value \in Nat \ {0} /\ e.next \in Nat \ {0}
  <2>1. <<Copy(nextValue, Constant(Undefined))>> \in Seq(Sound)
    BY <1>4, Single
  <2>2. i.code \o <<Copy(i.next, Value(i.value))>> \in Seq(Sound)
    BY <1>3, <1>4, Single
  <2> QED
    BY <1>2, <1>3, <2>1, <2>2 DEF Comes
<1> HIDE DEF e
<1>6. AsGood(blocks, blocks', Heads(Range(agenda)))
  BY <1>1, <1>5, CurrentPlaced, EmitsGood
<1>7. Scoped'
  BY <1>1, <1>5, BoundScoped DEF LowerInv
<1>8. Promised' /\ current' \in DOMAIN blocks \cup {NoBlock}
  BY <1>1, CurrentPlaced DEF LowerInv, Promised
<1> QED
  BY <1>1, <1>5, <1>6, <1>7, <1>8, NoPoints, StaysPutPlain

\* A statement that only adds instructions to the current block.
LEMMA OnlyEmits ==
  ASSUME LowerInv, agenda # <<>>, Head(agenda).do # "then_end", Then(<<>>),
         NEW code \in Seq(Sound), blocks' = Emit(blocks, current, code),
         nextValue' \in Nat \ {0},
         UNCHANGED <<current, nextBlock, scope, loops, regions, ensures>>
  PROVE  LowerInv'
<1>1. AsGood(blocks, blocks', Heads(Range(agenda)))
  BY CurrentPlaced, EmitsGood
<1>2. Scoped' /\ Promised' /\ current' \in DOMAIN blocks \cup {NoBlock}
  BY CurrentPlaced DEF LowerInv, Scoped, Promised
<1> QED
  BY <1>1, <1>2, NoPoints, StaysPutPlain

LEMMA BuildAssignmentKeeps == ASSUME LowerInv, BuildAssignment PROVE LowerInv'
<1> DEFINE e == Lower(The.expr)
           copy == IF The.name \notin DOMAIN scope \/ e.value = scope[The.name] THEN <<>>
                   ELSE <<Copy(scope[The.name], Value(e.value))>>
<1>1. /\ agenda # <<>> /\ Head(agenda).do = "stmt" /\ Resolved(The.expr)
      /\ blocks' = Emit(blocks, current, e.code \o copy)
      /\ nextValue' = e.next
      /\ Then(<<>>)
      /\ UNCHANGED <<current, nextBlock, scope, loops, regions, ensures>>
  BY DEF BuildAssignment, On, Doing
<1>2. e.code \in Seq(Sound) /\ e.value \in Nat /\ e.next \in Nat \ {0}
  BY <1>1, LowersTo
<1> HIDE DEF e
<1>3. copy \in Seq(Sound)
  <2>1. ASSUME The.name \in DOMAIN scope
        PROVE  <<Copy(scope[The.name], Value(e.value))>> \in Seq(Sound)
    <3>1. scope[The.name] \in Nat \ {0}
      BY <2>1 DEF LowerInv, Scoped
    <3>2. Copy(scope[The.name], Value(e.value)) \in Sound
      BY <1>2, <3>1, OperandsTyped, NamesAssumption, InstructionsSound
    <3> QED
      BY <3>2, Single
  <2>2. <<>> \in Seq(Sound)
    OBVIOUS
  <2> QED
    BY <2>1, <2>2
<1> HIDE DEF copy
<1>4. e.code \o copy \in Seq(Sound)
  BY <1>2, <1>3
<1> QED
  BY <1>1, <1>2, <1>4, OnlyEmits

LEMMA BuildPrintKeeps == ASSUME LowerInv, BuildPrint PROVE LowerInv'
<1> DEFINE e == Lower(The.expr)
           calls == Calls("print", NoValue, <<Value(e.value)>>)
<1>1. /\ agenda # <<>> /\ Head(agenda).do = "stmt" /\ Resolved(The.expr)
      /\ blocks' = Emit(blocks, current, e.code \o calls)
      /\ nextValue' = e.next
      /\ Then(<<>>)
      /\ UNCHANGED <<current, nextBlock, scope, loops, regions, ensures>>
  BY DEF BuildPrint, On, Doing
<1>2. e.code \in Seq(Sound) /\ e.value \in Nat /\ e.next \in Nat \ {0}
  BY <1>1, LowersTo
<1> HIDE DEF e
<1>3. calls \in Seq(Sound)
  <2>1. "print" \in STRING /\ NoValue \in Nat
    BY NamesAssumption, Numbers
  <2>2. <<Value(e.value)>> \in Seq(Operand)
    BY <1>2, OperandsTyped, Single
  <2> QED
    BY <2>1, <2>2, CheckedSound DEF LowerInv
<1> HIDE DEF calls
<1>4. e.code \o calls \in Seq(Sound)
  BY <1>2, <1>3
<1> QED
  BY <1>1, <1>2, <1>4, OnlyEmits

LEMMA BuildExpressionKeeps == ASSUME LowerInv, BuildExpression PROVE LowerInv'
<1> DEFINE e == Lower(The.expr)
<1>1. /\ agenda # <<>> /\ Head(agenda).do = "stmt" /\ Resolved(The.expr)
      /\ blocks' = Emit(blocks, current, e.code)
      /\ nextValue' = e.next
      /\ Then(<<>>)
      /\ UNCHANGED <<current, nextBlock, scope, loops, regions, ensures>>
  BY DEF BuildExpression, On, Doing
<1>2. e.code \in Seq(Sound) /\ e.next \in Nat \ {0}
  BY <1>1, LowersTo
<1> HIDE DEF e
<1> QED
  BY <1>1, <1>2, OnlyEmits

LEMMA AutoReturnKeeps == ASSUME LowerInv, AutoReturn PROVE LowerInv'
<1> DEFINE e == Lower(The.expr)
<1>1. /\ agenda # <<>> /\ Head(agenda).do = "auto" /\ Resolved(The.expr)
      /\ blocks' = Close(blocks, current, e.code, Return(Value(e.value)))
      /\ nextValue' = e.next
      /\ Then(<<>>)
      /\ UNCHANGED <<current, nextBlock, scope, loops, regions, ensures>>
  BY DEF AutoReturn, Doing
<1>2. e.code \in Seq(Sound) /\ e.value \in Nat /\ e.next \in Nat \ {0}
  BY <1>1, LowersTo
<1> HIDE DEF e
<1>3. Return(Value(e.value)) \in Terminator /\ Targets(Return(Value(e.value))) = {}
  BY <1>2, OperandsTyped, TermsTyped
<1>4. AsGood(blocks, blocks', Heads(Range(agenda)))
  BY <1>1, <1>2, <1>3, CurrentPlaced, ClosesGood
<1>5. Scoped' /\ Promised' /\ current' \in DOMAIN blocks \cup {NoBlock}
  BY <1>1, CurrentPlaced DEF LowerInv, Scoped, Promised
<1> QED
  BY <1>1, <1>2, <1>4, <1>5, NoPoints, StaysPutPlain

\* Conditions are tested behind a return only when it has a value; then it ends.
LEMMA LeavesSound == ASSUME NEW n \in Nat PROVE Leave(n) \in Seq(Sound)
<1>1. Call("__err_leave", NoValue, <<>>) \in Sound
  <2>1. "__err_leave" \in STRING /\ NoValue \in Nat
    BY NamesAssumption, Numbers
  <2>2. <<>> \in Seq(Operand)
    OBVIOUS
  <2> QED
    BY <2>1, <2>2, CallsSound
<1>2. Leave(n) \in [1..n -> Sound]
  BY <1>1 DEF Leave
<1> HIDE DEF Leave
<1> QED
  BY <1>2

LEMMA BuildReturnKeeps == ASSUME LowerInv, BuildReturn PROVE LowerInv'
<1> DEFINE e == Lower(The.expr)
           tests == IF e.value # NoValue THEN Tests(ensures) ELSE <<>>
           end == Point("return_end", The, <<e.value>>)
<1>1. /\ agenda # <<>> /\ Head(agenda).do = "stmt" /\ Resolved(The.expr)
      /\ blocks' = Emit(blocks, current, e.code \o Leave(Len(regions)))
      /\ nextValue' = e.next
      /\ Then(tests \o <<end>>)
      /\ UNCHANGED <<current, nextBlock, scope, loops, regions, ensures>>
  BY DEF BuildReturn, On, Doing
<1>2. e.code \in Seq(Sound) /\ e.value \in Nat /\ e.next \in Nat \ {0}
  BY <1>1, LowersTo
<1> HIDE DEF e
<1>3. tests \in Seq(Tasks) /\ Blockless(Range(tests))
  <2>1. ensures \in Seq(Expressions)
    BY DEF LowerInv, Promised
  <2> QED
    BY <2>1, TestsPlain, NoPoints
<1> HIDE DEF tests
<1>4. /\ end \in Tasks /\ Ready(end, DOMAIN blocks, nextBlock)
      /\ Elses({end}) = {} /\ Heads({end}) = {}
  <2>1. <<e.value>> \in Seq(Int) /\ Len(<<e.value>>) = 1 /\ <<e.value>>[1] \in Nat
    BY <1>2
  <2>2. The \in Syntax
    BY <1>1, AgendaSplits
  <2> QED
    BY <2>1, <2>2 DEF Point, Tasks, Doings, Ready, Elses, Heads
<1> HIDE DEF end
<1>5. /\ tests \o <<end>> \in Seq(Tasks)
      /\ Elses(Range(tests \o <<end>>)) = {} /\ Heads(Range(tests \o <<end>>)) = {}
      /\ \A p \in Range(tests \o <<end>>) : Ready(p, DOMAIN blocks, nextBlock)
  BY <1>3, <1>4, PlainAnd
<1>6. e.code \o Leave(Len(regions)) \in Seq(Sound)
  <2>1. Len(regions) \in Nat
    BY DEF LowerInv, Nested
  <2>2. Leave(Len(regions)) \in Seq(Sound)
    BY <2>1, LeavesSound
  <2> QED
    BY <1>2, <2>2
<1>7. AsGood(blocks, blocks', Heads(Range(agenda)))
  BY <1>1, <1>6, CurrentPlaced, EmitsGood
<1>8. Scoped' /\ Promised' /\ Nested' /\ current' \in DOMAIN blocks \cup {NoBlock}
  <2>1. DOMAIN blocks' = DOMAIN blocks
    BY <1>7 DEF AsGood
  <2> QED
    BY <1>1, <2>1, CurrentPlaced DEF LowerInv, Scoped, Promised, Nested
<1> QED
  BY <1>1, <1>2, <1>5, <1>7, <1>8, StaysPut

LEMMA EndReturnKeeps == ASSUME LowerInv, EndReturn PROVE LowerInv'
<1>1. /\ agenda # <<>> /\ Head(agenda).do = "return_end"
      /\ blocks' = End(blocks, current, Return(Value(At[1])))
      /\ Then(<<>>)
      /\ UNCHANGED <<current, nextBlock, nextValue, scope, loops, regions, ensures>>
  BY DEF EndReturn, Doing
<1>2. At[1] \in Nat
  BY <1>1, AgendaSplits DEF Ready, At
<1>3. Return(Value(At[1])) \in Terminator /\ Targets(Return(Value(At[1]))) = {}
  BY <1>2, OperandsTyped, TermsTyped
<1>4. AsGood(blocks, blocks', Heads(Range(agenda)))
  BY <1>1, <1>3, CurrentPlaced, EndsGood
<1>5. /\ Scoped' /\ Promised' /\ current' \in DOMAIN blocks \cup {NoBlock}
      /\ nextValue' \in Nat \ {0}
  BY <1>1, CurrentPlaced DEF LowerInv, Scoped, Promised, Numbered
<1> QED
  BY <1>1, <1>4, <1>5, NoPoints, StaysPutPlain

LEMMA LeftTyped == ASSUME Nested PROVE Left \in Nat
<1> DEFINE inner == {i \in DOMAIN regions : regions[i].depth >= Len(loops)}
<1>1. IsFiniteSet(DOMAIN regions)
  <2>1. Len(regions) \in Nat /\ DOMAIN regions = 1..Len(regions)
    BY DEF Nested
  <2> QED
    BY <2>1, FS_Interval
<1>2. IsFiniteSet(inner)
  BY <1>1, FS_Subset
<1>3. Cardinality(inner) \in Nat
  BY <1>2, FS_CardinalityType
<1> QED
  BY <1>3 DEF Left

LEMMA BuildJumpKeeps == ASSUME LowerInv, BuildJump PROVE LowerInv'
<1> DEFINE loop == Last(loops)
           code == Leave(Left) \o ScopePop(loop.scoped)
           target == IF The.kind = "break" THEN loop.brk ELSE loop.cont
<1>1. /\ agenda # <<>> /\ Head(agenda).do = "stmt" /\ loops # <<>>
      /\ blocks' = Close(blocks, current, code, Jump(target))
      /\ Then(<<>>)
      /\ UNCHANGED <<current, nextBlock, nextValue, scope, loops, regions, ensures>>
  BY DEF BuildJump, On, Doing
<1>2. loop \in [cont : DOMAIN blocks, brk : DOMAIN blocks, scoped : BOOLEAN]
  BY <1>1, LastIn DEF LowerInv, Nested
<1>3. target \in DOMAIN blocks /\ loop.scoped \in BOOLEAN
  BY <1>2
<1> HIDE DEF loop
<1>4. code \in Seq(Sound)
  <2>1. Leave(Left) \in Seq(Sound)
    BY LeftTyped, LeavesSound DEF LowerInv
  <2>2. ScopePop(loop.scoped) \in Seq(Sound)
    BY <1>3, ScopesSound
  <2> QED
    BY <2>1, <2>2
<1> HIDE DEF target, code
<1>5. Jump(target) \in Terminator /\ Targets(Jump(target)) \subseteq DOMAIN blocks
  <2>1. target \in Int
    BY <1>3 DEF LowerInv, Numbered
  <2> QED
    BY <1>3, <2>1, TermsTyped
<1>6. AsGood(blocks, blocks', Heads(Range(agenda)))
  BY <1>1, <1>4, <1>5, CurrentPlaced, ClosesGood
<1>7. /\ Scoped' /\ Promised' /\ current' \in DOMAIN blocks \cup {NoBlock}
      /\ nextValue' \in Nat \ {0}
  BY <1>1, CurrentPlaced DEF LowerInv, Scoped, Promised, Numbered
<1> QED
  BY <1>1, <1>6, <1>7, NoPoints, StaysPutPlain

LEMMA BuildEnsureKeeps == ASSUME LowerInv, BuildEnsure PROVE LowerInv'
<1>1. /\ agenda # <<>> /\ Head(agenda).do = "stmt"
      /\ ensures' = Append(ensures, The.expr)
      /\ Then(<<>>)
      /\ UNCHANGED <<blocks, current, nextBlock, nextValue, scope, loops, regions>>
  BY DEF BuildEnsure, On, Doing
<1>2. The.expr \in Expressions
  BY <1>1, AgendaSplits DEF Syntax
<1>3. Promised'
  BY <1>1, <1>2 DEF LowerInv, Promised
<1>4. AsGood(blocks, blocks', Heads(Range(agenda)))
  BY <1>1, StaysGood
<1>5. /\ Scoped' /\ current' \in DOMAIN blocks \cup {NoBlock}
      /\ nextValue' \in Nat \ {0}
  BY <1>1, CurrentPlaced DEF LowerInv, Scoped, Numbered
<1> QED
  BY <1>1, <1>3, <1>4, <1>5, NoPoints, StaysPutPlain

LEMMA FinishKeeps == ASSUME LowerInv, Finish PROVE LowerInv'
<1> DEFINE end == Return(Constant(Undefined))
<1>1. /\ agenda # <<>> /\ Head(agenda).do = "finish"
      /\ blocks' = End(blocks, current, end) \/ blocks' = blocks
      /\ Then(<<>>)
      /\ UNCHANGED <<current, nextBlock, nextValue, scope, loops, regions, ensures>>
  BY DEF Finish, Doing
<1>2. end \in Terminator /\ Targets(end) = {}
  BY OperandsTyped, ConstantsTyped, TermsTyped
<1> HIDE DEF end
<1>3. AsGood(blocks, blocks', Heads(Range(agenda)))
  BY <1>1, <1>2, CurrentPlaced, EndsGood, StaysGood
<1>4. /\ Scoped' /\ Promised' /\ current' \in DOMAIN blocks \cup {NoBlock}
      /\ nextValue' \in Nat \ {0}
  BY <1>1, CurrentPlaced DEF LowerInv, Scoped, Promised, Numbered
<1> QED
  BY <1>1, <1>3, <1>4, NoPoints, StaysPutPlain

LEMMA BuildOnErrorKeeps == ASSUME LowerInv, BuildOnError PROVE LowerInv'
<1> DEFINE body == <<RegionBegin>> \o The.body \o <<RegionEnd, If(TakeError, The.other)>>
<1>1. /\ agenda # <<>> /\ Head(agenda).do = "stmt"
      /\ Then(Points(body))
      /\ UNCHANGED <<blocks, current, nextBlock, nextValue, scope, loops, regions, ensures>>
  BY DEF BuildOnError, On, Doing
<1>2. body \in Seq(Syntax)
  <2>1. The.body \in Seq(Statements) /\ The.other \in Seq(Statements)
    BY <1>1, AgendaSplits DEF Syntax
  <2>2. The.body \in Seq(Syntax)
    BY <2>1, StatementsTyped, SeqsGrow
  <2>3. /\ RegionBegin \in Syntax /\ RegionEnd \in Syntax
        /\ If(TakeError, The.other) \in Syntax
    <3>1. "" \in STRING
      BY NamesAssumption
    <3>2. <<>> \in Seq(Statements)
      OBVIOUS
    <3> QED
      BY <2>1, <3>1, <3>2, ConditionsTyped DEF RegionBegin, RegionEnd, If, Stmt, Syntax, Kinds
  <2>4. <<RegionBegin>> \in Seq(Syntax) /\ <<RegionEnd, If(TakeError, The.other)>> \in Seq(Syntax)
    BY <2>3, Single, Pair
  <2> QED
    BY <2>2, <2>4
<1> HIDE DEF body
<1>3. Points(body) \in Seq(Tasks) /\ Blockless(Range(Points(body)))
  BY <1>2, PointsPlain
<1>4. AsGood(blocks, blocks', Heads(Range(agenda)))
  BY <1>1, StaysGood
<1>5. /\ Scoped' /\ Promised' /\ current' \in DOMAIN blocks \cup {NoBlock}
      /\ nextValue' \in Nat \ {0}
  BY <1>1, CurrentPlaced DEF LowerInv, Scoped, Promised, Numbered
<1> QED
  BY <1>1, <1>3, <1>4, <1>5, StaysPutPlain

-----------------------------------------------------------------------------
\* Coming back from the blocks of a compound statement.
LEMMA GrowsGood ==
  ASSUME NEW bs, NEW H, NEW h \in H, NEW a \in Operand
  PROVE  AsGood(bs, [bs EXCEPT ![h].code[1].args = Append(@, a)], H)
  BY Comes1 DEF AsGood

LEMMA SafeOrNot == \A body : IterScopeSafe(body) \in BOOLEAN
  BY DEF IterScopeSafe

LEMMA JoinsGood ==
  ASSUME NEW bs, NEW H, NEW b \in DOMAIN bs \cup {NoBlock}, NEW cont \in DOMAIN bs, cont \in Int
  PROVE  AsGood(bs, Joined(bs, b, cont), H)
<1>1. Jump(cont) \in Terminator /\ Targets(Jump(cont)) \subseteq DOMAIN bs
  BY TermsTyped
<1> QED
  BY <1>1, EndsGood, StaysGood DEF Joined

\* The blocks a point of the agenda works on are there.
LEMMA ReadyBlocks ==
  ASSUME LowerInv, agenda # <<>>
  PROVE  /\ Head(agenda).do \in {"then_end", "else_end"} =>
              At[1] \in DOMAIN blocks /\ At[3] \in DOMAIN blocks
         /\ Head(agenda).do = "while_end" => At[1] \in DOMAIN blocks /\ At[2] \in DOMAIN blocks
         /\ Head(agenda).do \in {"for_end", "range_end"} =>
              /\ At[1] \in DOMAIN blocks /\ At[2] \in DOMAIN blocks
              /\ At[3] \in DOMAIN blocks /\ At[4] \in DOMAIN blocks
              /\ At[1] \in Heads(Range(agenda))
         /\ DOMAIN blocks \subseteq Int
<1>1. Ready(Head(agenda), DOMAIN blocks, nextBlock) /\ Head(agenda) \in Range(agenda)
  BY AgendaSplits
<1>2. At = Head(agenda).at
  BY DEF At
<1>3. 1 \in 1..2 /\ 2 \in 1..2 /\ 1 \in 1..4 /\ 2 \in 1..4 /\ 3 \in 1..4 /\ 4 \in 1..4
  OBVIOUS
<1>4. Head(agenda).do \in {"for_end", "range_end"} => At[1] \in Heads(Range(agenda))
  BY <1>1, <1>2 DEF Heads
<1>5. DOMAIN blocks \subseteq Int
  BY DEF LowerInv, Numbered
<1> QED
  BY <1>1, <1>2, <1>3, <1>4, <1>5 DEF Ready

LEMMA EndElseKeeps == ASSUME LowerInv, EndElse PROVE LowerInv'
<1>1. /\ agenda # <<>> /\ Head(agenda).do = "else_end"
      /\ blocks' = blocks \/ blocks' = Joined(blocks, current, At[3])
      /\ current' = NoBlock \/ current' = At[3]
      /\ Then(<<>>)
      /\ UNCHANGED <<nextBlock, nextValue, scope, loops, regions, ensures>>
  BY DEF EndElse, Doing
<1>2. At[3] \in DOMAIN blocks /\ At[3] \in Int
  BY <1>1, ReadyBlocks
<1>3. AsGood(blocks, blocks', Heads(Range(agenda)))
  BY <1>1, <1>2, CurrentPlaced, JoinsGood, StaysGood
<1>4. /\ Scoped' /\ Promised' /\ current' \in DOMAIN blocks \cup {NoBlock}
      /\ nextValue' \in Nat \ {0}
  BY <1>1, <1>2 DEF LowerInv, Scoped, Promised, Numbered
<1> QED
  BY <1>1, <1>3, <1>4, NoPoints, StaysPutPlain

\* A loop or a region is left.
LEMMA StaysPutLeaving ==
  ASSUME LowerInv, agenda # <<>>, Head(agenda).do # "then_end", Then(<<>>),
         AsGood(blocks, blocks', Heads(Range(agenda))),
         nextBlock' = nextBlock, nextValue' \in Nat \ {0},
         current' \in DOMAIN blocks,
         loops' \in {loops, Front(loops)}, regions' \in {regions, Front(regions)},
         Scoped', ensures' = ensures
  PROVE  LowerInv'
<1>1. /\ Elses(Range(<<>>)) = {} /\ Heads(Range(<<>>)) = {}
      /\ \A p \in Range(<<>>) : Ready(p, DOMAIN blocks, nextBlock)
  BY NoPoints, PlainPoints
<1>2. Nested'
  <2>1. DOMAIN blocks' = DOMAIN blocks
    BY DEF AsGood
  <2>2. /\ loops' \in Seq([cont : DOMAIN blocks, brk : DOMAIN blocks, scoped : BOOLEAN])
        /\ regions' \in Seq([exit : DOMAIN blocks, depth : Nat])
    BY FrontIn DEF LowerInv, Nested
  <2> QED
    BY <2>1, <2>2 DEF Nested
<1>3. Promised'
  BY DEF LowerInv, Promised
<1> QED
  BY <1>1, <1>2, <1>3, NoPoints, StaysPut

LEMMA EndWhileKeeps == ASSUME LowerInv, EndWhile PROVE LowerInv'
<1> DEFINE popped == Emit(blocks, current, ScopePop(IterScopeSafe(The.body)))
<1>1. /\ agenda # <<>> /\ Head(agenda).do = "while_end"
      /\ blocks' = End(popped, current, Jump(At[1])) \/ blocks' = popped
      /\ loops' = Front(loops)
      /\ current' = At[2]
      /\ Then(<<>>)
      /\ UNCHANGED <<nextBlock, nextValue, scope, regions, ensures>>
  BY DEF EndWhile, Doing
<1>2. At[1] \in DOMAIN blocks /\ At[2] \in DOMAIN blocks /\ At[1] \in Int
  BY <1>1, ReadyBlocks
<1>3. AsGood(blocks, popped, Heads(Range(agenda))) /\ DOMAIN popped = DOMAIN blocks
  <2>1. ScopePop(IterScopeSafe(The.body)) \in Seq(Sound)
    BY SafeOrNot, ScopesSound
  <2> QED
    BY <2>1, CurrentPlaced, EmitsGood DEF AsGood
<1> HIDE DEF popped
<1>4. AsGood(blocks, blocks', Heads(Range(agenda)))
  <2>1. Jump(At[1]) \in Terminator /\ Targets(Jump(At[1])) \subseteq DOMAIN popped
    BY <1>2, <1>3, TermsTyped
  <2>2. current \in DOMAIN popped \cup {NoBlock}
    BY <1>3, CurrentPlaced
  <2>3. AsGood(popped, End(popped, current, Jump(At[1])), Heads(Range(agenda)))
    BY <2>1, <2>2, EndsGood
  <2> QED
    BY <1>1, <1>3, <2>3, GoodAfter
<1>5. Scoped' /\ nextValue' \in Nat \ {0}
  BY <1>1 DEF LowerInv, Scoped, Numbered
<1> QED
  BY <1>1, <1>2, <1>4, <1>5, StaysPutLeaving

LEMMA EndForKeeps == ASSUME LowerInv, EndFor PROVE LowerInv'
<1> DEFINE header == At[1]
           inc == At[3]
           popped == Emit(blocks, current, ScopePop(IterScopeSafe(The.body)))
           from == IF Open(blocks, At[2]) THEN At[2] ELSE current
           joined == End(popped, from, Jump(inc))
           code == <<BinaryOp("add", nextValue, Value(At[5]), Constant(Integer(1))),
                     Copy(At[5], Value(nextValue))>>
           closed == Close(joined, inc, code, Jump(header))
           H == Heads(Range(agenda))
<1>1. /\ agenda # <<>> /\ Head(agenda).do = "for_end"
      /\ blocks' = [closed EXCEPT ![header].code[1].args = Append(@, Value(nextValue))]
      /\ current' = At[4]
      /\ nextValue' = nextValue + 1
      /\ loops' = Front(loops)
      /\ Then(<<>>)
      /\ UNCHANGED <<nextBlock, scope, regions, ensures>>
  BY DEF EndFor, Doing
<1>2. /\ header \in DOMAIN blocks /\ At[2] \in DOMAIN blocks /\ inc \in DOMAIN blocks
      /\ At[4] \in DOMAIN blocks /\ header \in H /\ DOMAIN blocks \subseteq Int
  BY <1>1, ReadyBlocks
<1>3. At[5] \in Nat \ {0} /\ nextValue \in Nat \ {0} /\ nextValue + 1 \in Nat \ {0}
  <2>1. Ready(Head(agenda), DOMAIN blocks, nextBlock)
    BY <1>1, AgendaSplits
  <2>2. At[5] \in Nat \ {0}
    BY <1>1, <2>1 DEF Ready, At
  <2>3. nextValue \in Nat \ {0}
    BY DEF LowerInv, Numbered
  <2> QED
    BY <2>2, <2>3
<1>4. code \in Seq(Sound)
  <2>1. /\ Value(At[5]) \in Operand /\ Value(nextValue) \in Operand
        /\ Constant(Integer(1)) \in Operand
    BY <1>3, OperandsTyped, ConstantsTyped
  <2>2. "add" \in STRING
    BY NamesAssumption
  <2>3. /\ BinaryOp("add", nextValue, Value(At[5]), Constant(Integer(1))) \in Sound
        /\ Copy(At[5], Value(nextValue)) \in Sound
    BY <1>3, <2>1, <2>2, InstructionsSound
  <2> QED
    BY <2>3, Pair
<1>5. /\ Jump(inc) \in Terminator /\ Targets(Jump(inc)) \subseteq DOMAIN blocks
      /\ Jump(header) \in Terminator /\ Targets(Jump(header)) \subseteq DOMAIN blocks
  BY <1>2, TermsTyped
<1>6. AsGood(blocks, popped, H) /\ DOMAIN popped = DOMAIN blocks
  <2>1. ScopePop(IterScopeSafe(The.body)) \in Seq(Sound)
    BY SafeOrNot, ScopesSound
  <2> QED
    BY <2>1, CurrentPlaced, EmitsGood DEF AsGood
<1>7. from \in DOMAIN blocks \cup {NoBlock}
  BY <1>2, CurrentPlaced
<1> HIDE DEF popped, from
<1>8. AsGood(popped, joined, H) /\ DOMAIN joined = DOMAIN blocks
  BY <1>5, <1>6, <1>7, EndsGood DEF AsGood
<1> HIDE DEF joined, code
<1>9. AsGood(joined, closed, H)
  BY <1>2, <1>4, <1>5, <1>8, ClosesGood
<1> HIDE DEF closed
<1>10. AsGood(closed, blocks', H)
  BY <1>1, <1>2, <1>3, OperandsTyped, GrowsGood
<1>11. AsGood(blocks, blocks', H)
  <2>1. AsGood(blocks, joined, H)
    BY <1>6, <1>8, GoodAfter
  <2>2. AsGood(blocks, closed, H)
    BY <1>9, <2>1, GoodAfter
  <2> QED
    BY <1>10, <2>2, GoodAfter
<1>12. Scoped'
  BY <1>1 DEF LowerInv, Scoped
<1> QED
  BY <1>1, <1>2, <1>3, <1>11, <1>12, StaysPutLeaving

LEMMA EndRangeKeeps == ASSUME LowerInv, EndRange PROVE LowerInv'
<1> DEFINE header == At[1]
           inc == At[3]
           counter == At[6]
           popped == Emit(blocks, current, ScopePop(IterScopeSafe(The.body)))
           headed == End(popped, header, Branch(Value(At[5]), At[2], At[4]))
           joined == IF Open(headed, current) THEN End(headed, current, Jump(inc)) ELSE headed
           code == <<BinaryOp("add", counter, Value(counter), Value(At[7]))>>
           closed == Close(joined, inc, code, Jump(header))
           H == Heads(Range(agenda))
<1>1. /\ agenda # <<>> /\ Head(agenda).do = "range_end"
      /\ blocks' = [closed EXCEPT ![header].code[1].args = Append(@, Value(counter))]
      /\ current' = At[4]
      /\ scope' = [scope EXCEPT ![The.name] = At[8]]
      /\ loops' = Front(loops)
      /\ Then(<<>>)
      /\ UNCHANGED <<nextBlock, nextValue, regions, ensures>>
  BY DEF EndRange, Doing
<1>2. /\ header \in DOMAIN blocks /\ At[2] \in DOMAIN blocks /\ inc \in DOMAIN blocks
      /\ At[4] \in DOMAIN blocks /\ header \in H /\ DOMAIN blocks \subseteq Int
  BY <1>1, ReadyBlocks
<1>3. At[5] \in Nat \ {0} /\ counter \in Nat \ {0} /\ At[7] \in Nat \ {0} /\ At[8] \in Nat \ {0}
  <2>1. Ready(Head(agenda), DOMAIN blocks, nextBlock)
    BY <1>1, AgendaSplits
  <2>2. 5 \in 5..8 /\ 6 \in 5..8 /\ 7 \in 5..8 /\ 8 \in 5..8
    OBVIOUS
  <2> QED
    BY <1>1, <2>1, <2>2 DEF Ready, At
<1>4. code \in Seq(Sound)
  <2>1. Value(counter) \in Operand /\ Value(At[7]) \in Operand /\ "add" \in STRING
    BY <1>3, OperandsTyped, NamesAssumption
  <2>2. BinaryOp("add", counter, Value(counter), Value(At[7])) \in Sound
    BY <1>3, <2>1, InstructionsSound
  <2> QED
    BY <2>2, Single
<1>5. /\ Jump(inc) \in Terminator /\ Targets(Jump(inc)) \subseteq DOMAIN blocks
      /\ Jump(header) \in Terminator /\ Targets(Jump(header)) \subseteq DOMAIN blocks
      /\ Branch(Value(At[5]), At[2], At[4]) \in Terminator
      /\ Targets(Branch(Value(At[5]), At[2], At[4])) \subseteq DOMAIN blocks
  <2>1. Value(At[5]) \in Operand
    BY <1>3, OperandsTyped
  <2> QED
    BY <1>2, <2>1, TermsTyped, BranchTyped
<1>6. AsGood(blocks, popped, H) /\ DOMAIN popped = DOMAIN blocks
  <2>1. ScopePop(IterScopeSafe(The.body)) \in Seq(Sound)
    BY SafeOrNot, ScopesSound
  <2> QED
    BY <2>1, CurrentPlaced, EmitsGood DEF AsGood
<1> HIDE DEF popped
<1>7. AsGood(popped, headed, H) /\ DOMAIN headed = DOMAIN blocks
  BY <1>2, <1>5, <1>6, EndsGood DEF AsGood
<1> HIDE DEF headed
<1>8. AsGood(headed, joined, H) /\ DOMAIN joined = DOMAIN blocks
  BY <1>5, <1>7, CurrentPlaced, EndsGood, StaysGood DEF AsGood
<1> HIDE DEF joined, code
<1>9. AsGood(joined, closed, H)
  BY <1>2, <1>4, <1>5, <1>8, ClosesGood
<1> HIDE DEF closed
<1>10. AsGood(closed, blocks', H)
  BY <1>1, <1>2, <1>3, OperandsTyped, GrowsGood
<1>11. AsGood(blocks, blocks', H)
  <2>1. AsGood(blocks, headed, H)
    BY <1>6, <1>7, GoodAfter
  <2>2. AsGood(blocks, joined, H)
    BY <1>8, <2>1, GoodAfter
  <2>3. AsGood(blocks, closed, H)
    BY <1>9, <2>2, GoodAfter
  <2> QED
    BY <1>10, <2>3, GoodAfter
<1>12. Scoped' /\ nextValue' \in Nat \ {0}
  BY <1>1, <1>3 DEF LowerInv, Scoped, Numbered
<1> QED
  BY <1>1, <1>2, <1>11, <1>12, StaysPutLeaving

LEMMA EndRegionKeeps == ASSUME LowerInv, EndRegion PROVE LowerInv'
<1> DEFINE exit == Last(regions).exit
           left == IF Open(blocks, current) THEN End(blocks, current, Jump(exit)) ELSE blocks
           H == Heads(Range(agenda))
<1>1. /\ agenda # <<>> /\ Head(agenda).do = "stmt" /\ regions # <<>>
      /\ blocks' = Emit(left, exit, Runtime("__err_leave", NoValue))
      /\ current' = exit
      /\ regions' = Front(regions)
      /\ Then(<<>>)
      /\ UNCHANGED <<nextBlock, nextValue, scope, loops, ensures>>
  BY DEF EndRegion, On, Doing
<1>2. exit \in DOMAIN blocks /\ exit \in Int
  <2>1. Last(regions) \in [exit : DOMAIN blocks, depth : Nat]
    BY <1>1, LastIn DEF LowerInv, Nested
  <2>2. exit \in DOMAIN blocks
    BY <2>1
  <2> QED
    BY <2>2 DEF LowerInv, Numbered
<1> HIDE DEF exit
<1>3. AsGood(blocks, left, H) /\ DOMAIN left = DOMAIN blocks
  <2>1. Jump(exit) \in Terminator /\ Targets(Jump(exit)) \subseteq DOMAIN blocks
    BY <1>2, TermsTyped
  <2> QED
    BY <2>1, CurrentPlaced, EndsGood, StaysGood DEF AsGood
<1> HIDE DEF left
<1>4. AsGood(blocks, blocks', H)
  <2>1. Runtime("__err_leave", NoValue) \in Seq(Sound)
    <3>1. "__err_leave" \in STRING /\ NoValue \in Nat
      BY NamesAssumption, Numbers
    <3> QED
      BY <3>1, RuntimeSound
  <2>2. AsGood(left, blocks', H)
    BY <1>1, <1>2, <1>3, <2>1, EmitsGood
  <2> QED
    BY <1>3, <2>2, GoodAfter
<1>5. Scoped' /\ nextValue' \in Nat \ {0}
  BY <1>1 DEF LowerInv, Scoped, Numbered
<1> QED
  BY <1>1, <1>2, <1>4, <1>5, StaysPutLeaving

-----------------------------------------------------------------------------
\* The actions that make blocks.
LEMMA ReserveFrames ==
  ASSUME NEW bs, NEW ids
  PROVE  /\ DOMAIN Reserve(bs, ids) = DOMAIN bs \cup ids
         /\ \A b \in ids : Reserve(bs, ids)[b] = Fresh
  BY DEF Reserve, Bound

LEMMA Intervals ==
  ASSUME NEW m \in Nat, NEW n \in Nat, m <= n
  PROVE  /\ \A i \in m..(n - 1) : i \in Nat /\ i \notin 0..(m - 1) /\ i \in 0..(n - 1)
         /\ 0..(m - 1) \subseteq 0..(n - 1)
  OBVIOUS

LEMMA Makes ==
  ASSUME LowerInv, agenda # <<>>, Head(agenda).do # "then_end",
         NEW points \in Seq(Tasks), Then(points),
         nextBlock' \in Nat, nextBlock <= nextBlock',
         NEW ids, ids \subseteq nextBlock..(nextBlock' - 1), DOMAIN blocks' = DOMAIN blocks \cup ids,
         \A p \in Range(points) : Ready(p, DOMAIN blocks', nextBlock'),
         Elses(Range(points)) = {} \/ Heads(Range(points)) = {},
         (Elses(Range(points)) \cup Heads(Range(points))) \cap 0..(nextBlock - 1) = {}
  PROVE  /\ Listed'
         /\ Elses(Range(agenda')) = Elses(Range(points)) \cup Elses(Rest)
         /\ Heads(Range(agenda')) = Heads(Range(points)) \cup Heads(Rest)
         /\ Graph(Reserve(blocks, ids), DOMAIN blocks' \cup Elses(Range(agenda')), Heads(Rest))
         /\ DOMAIN Reserve(blocks, ids) = DOMAIN blocks'
         /\ current \in DOMAIN blocks' \cup {NoBlock}
         /\ DOMAIN blocks' \subseteq 0..(nextBlock' - 1) /\ Entry \in DOMAIN blocks'
         /\ loops \in Seq([cont : DOMAIN blocks', brk : DOMAIN blocks', scoped : BOOLEAN])
         /\ regions \in Seq([exit : DOMAIN blocks', depth : Nat])
<1>1. nextBlock \in Nat /\ DOMAIN blocks \subseteq 0..(nextBlock - 1)
  BY DEF LowerInv, Numbered
<1>2. /\ Listed'
      /\ Elses(Range(agenda')) = Elses(Range(points)) \cup Elses(Rest)
      /\ Heads(Range(agenda')) = Heads(Range(points)) \cup Heads(Rest)
      /\ Graph(blocks, DOMAIN blocks' \cup Elses(Range(agenda')), Heads(Rest))
      /\ Heads(Rest) \subseteq DOMAIN blocks
  BY Onward
<1>3. /\ \A i \in nextBlock..(nextBlock' - 1) : i \in Nat /\ i \notin 0..(nextBlock - 1)
      /\ nextBlock..(nextBlock' - 1) \subseteq 0..(nextBlock' - 1)
      /\ 0..(nextBlock - 1) \subseteq 0..(nextBlock' - 1)
  BY <1>1, Intervals
<1>4. ids \subseteq Nat /\ ids \cap Heads(Rest) = {}
  BY <1>1, <1>2, <1>3
<1>5. Graph(Reserve(blocks, ids), DOMAIN blocks' \cup Elses(Range(agenda')), Heads(Rest))
  BY <1>2, <1>4, Reserves
<1>6. DOMAIN blocks' \subseteq 0..(nextBlock' - 1)
  BY <1>1, <1>3
<1>7. current \in DOMAIN blocks' \cup {NoBlock} /\ Entry \in DOMAIN blocks'
  BY DEF LowerInv, Placed
<1>8. /\ loops \in Seq([cont : DOMAIN blocks', brk : DOMAIN blocks', scoped : BOOLEAN])
      /\ regions \in Seq([exit : DOMAIN blocks', depth : Nat])
  BY NestedGrows DEF LowerInv
<1> QED
  BY <1>2, <1>5, <1>6, <1>7, <1>8, ReserveFrames

\* Without points that have blocks to work on.
LEMMA MakesPlain ==
  ASSUME LowerInv, agenda # <<>>, Head(agenda).do # "then_end", Then(<<>>),
         nextBlock' \in Nat, nextBlock <= nextBlock',
         NEW ids, ids \subseteq nextBlock..(nextBlock' - 1), DOMAIN blocks' = DOMAIN blocks \cup ids
  PROVE  /\ Listed'
         /\ Heads(Range(agenda')) = Heads(Rest)
         /\ Graph(Reserve(blocks, ids), DOMAIN blocks' \cup Elses(Range(agenda')), Heads(Rest))
         /\ DOMAIN Reserve(blocks, ids) = DOMAIN blocks'
         /\ current \in DOMAIN blocks' \cup {NoBlock}
         /\ DOMAIN blocks' \subseteq 0..(nextBlock' - 1) /\ Entry \in DOMAIN blocks'
         /\ loops \in Seq([cont : DOMAIN blocks', brk : DOMAIN blocks', scoped : BOOLEAN])
         /\ regions \in Seq([exit : DOMAIN blocks', depth : Nat])
<1> DEFINE none == <<>>
<1>1. /\ none \in Seq(Tasks) /\ Then(none)
      /\ Elses(Range(none)) = {} /\ Heads(Range(none)) = {}
      /\ \A p \in Range(none) : Ready(p, DOMAIN blocks', nextBlock')
  BY NoPoints, PlainPoints
<1> HIDE DEF none
<1>2. (Elses(Range(none)) \cup Heads(Range(none))) \cap 0..(nextBlock - 1) = {}
  BY <1>1
<1> QED
  BY <1>1, <1>2, Makes

LEMMA BuildTestKeeps == ASSUME LowerInv, BuildTest PROVE LowerInv'
<1> DEFINE e == Lower(The.expr)
           trap == nextBlock
           cont == nextBlock + 1
           branch == Branch(Value(e.value), cont, trap)
           reserved == Reserve(blocks, {trap, cont})
           closed == Close(reserved, current, e.code, branch)
           D == DOMAIN blocks' \cup Elses(Range(agenda'))
           H == Heads(Rest)
<1>1. /\ agenda # <<>> /\ Head(agenda).do \in {"stmt", "test"} /\ Resolved(The.expr)
      /\ blocks' = End(closed, trap, Trap)
      /\ nextValue' = e.next
      /\ current' = cont
      /\ nextBlock' = nextBlock + 2
      /\ Then(<<>>)
      /\ UNCHANGED <<scope, loops, regions, ensures>>
  BY DEF BuildTest, On, Doing
<1>2. e.code \in Seq(Sound) /\ e.value \in Nat /\ e.next \in Nat \ {0}
  BY <1>1, LowersTo
<1> HIDE DEF e
<1>3. /\ nextBlock \in Nat /\ nextBlock' \in Nat /\ nextBlock <= nextBlock'
      /\ {trap, cont} \subseteq nextBlock..(nextBlock' - 1) /\ trap \in Int /\ cont \in Int
  BY <1>1 DEF LowerInv, Numbered
<1> HIDE DEF trap, cont
<1>4. DOMAIN blocks' = DOMAIN blocks \cup {trap, cont}
  <2>1. DOMAIN reserved = DOMAIN blocks \cup {trap, cont}
    BY ReserveFrames
  <2> HIDE DEF reserved
  <2>2. DOMAIN closed = DOMAIN reserved
    BY CloseFrames
  <2> HIDE DEF closed
  <2> QED
    BY <1>1, <2>1, <2>2, EndFrames
<1>5. /\ Listed' /\ Heads(Range(agenda')) = H /\ Graph(reserved, D, H)
      /\ DOMAIN reserved = DOMAIN blocks' /\ current \in DOMAIN blocks' \cup {NoBlock}
      /\ DOMAIN blocks' \subseteq 0..(nextBlock' - 1) /\ Entry \in DOMAIN blocks'
      /\ loops \in Seq([cont : DOMAIN blocks', brk : DOMAIN blocks', scoped : BOOLEAN])
      /\ regions \in Seq([exit : DOMAIN blocks', depth : Nat])
  BY <1>1, <1>3, <1>4, MakesPlain
<1>6. trap \in D /\ cont \in D
  BY <1>4
<1> HIDE DEF reserved, D, H
<1>7. Graph(closed, D, H) /\ DOMAIN closed = DOMAIN blocks'
  <2>1. Value(e.value) \in Operand
    BY <1>2, OperandsTyped
  <2>2. branch \in Terminator /\ Targets(branch) \subseteq D
    BY <1>3, <1>6, <2>1, BranchTyped
  <2> HIDE DEF branch
  <2>3. Graph(closed, D, H)
    BY <1>2, <1>5, <2>2, Closes
  <2> QED
    BY <1>5, <2>3, CloseFrames
<1> HIDE DEF closed
<1>8. Graph(blocks', D, H)
  BY <1>1, <1>4, <1>7, TermsTyped, GraphEnds
<1>9. Shaped'
  BY <1>5, <1>8 DEF Shaped, D
<1>10. Numbered' /\ Placed' /\ Scoped' /\ Nested' /\ Promised'
  BY <1>1, <1>2, <1>3, <1>4, <1>5 DEF LowerInv, Numbered, Placed, Scoped, Nested, Promised
<1> QED
  BY <1>5, <1>9, <1>10 DEF LowerInv

LEMMA BodyPlain ==
  ASSUME LowerInv, agenda # <<>>
  PROVE  /\ Points(The.body) \in Seq(Tasks) /\ Blockless(Range(Points(The.body)))
         /\ Points(The.other) \in Seq(Tasks) /\ Blockless(Range(Points(The.other)))
<1>1. The.body \in Seq(Statements) /\ The.other \in Seq(Statements)
  BY AgendaSplits DEF Syntax
<1>2. Statements \subseteq Syntax
  BY StatementsAssumption DEF Syntax
<1>3. The.body \in Seq(Syntax) /\ The.other \in Seq(Syntax)
  BY <1>1, <1>2, SeqsGrow
<1> QED
  BY <1>3, PointsPlain

LEMMA BuildIfKeeps == ASSUME LowerInv, BuildIf PROVE LowerInv'
<1> DEFINE e == Lower(The.expr)
           then == nextBlock
           els  == IF The.other = <<>> THEN NoBlock ELSE nextBlock + 1
           cont == IF The.other = <<>> THEN nextBlock + 1 ELSE nextBlock + 2
           branch == Branch(Value(e.value), then, IF els = NoBlock THEN cont ELSE els)
           ids == {then, cont}
           reserved == Reserve(blocks, ids)
           end == Point("then_end", The, <<then, els, cont>>)
           points == Points(The.body) \o <<end>>
           D == DOMAIN blocks' \cup Elses(Range(agenda'))
           H == Heads(Rest)
<1>1. /\ agenda # <<>> /\ Head(agenda).do = "stmt" /\ Resolved(The.expr)
      /\ blocks' = Close(reserved, current, e.code, branch)
      /\ nextValue' = e.next
      /\ current' = then
      /\ nextBlock' = cont + 1
      /\ Then(points)
      /\ UNCHANGED <<scope, loops, regions, ensures>>
  BY DEF BuildIf, On, Doing
<1>2. e.code \in Seq(Sound) /\ e.value \in Nat /\ e.next \in Nat \ {0}
  BY <1>1, LowersTo
<1> HIDE DEF e
<1>3. nextBlock \in Nat
  BY DEF LowerInv, Numbered
<1>4. /\ nextBlock' \in Nat /\ nextBlock <= nextBlock'
      /\ ids \subseteq nextBlock..(nextBlock' - 1)
      /\ then \in ids /\ cont \in ids /\ then \in Int /\ cont \in Int /\ els \in Int
      /\ els = NoBlock \/ els \in nextBlock..(nextBlock' - 1)
      /\ nextBlock..(nextBlock' - 1) \subseteq 0..(nextBlock' - 1)
      /\ nextBlock..(nextBlock' - 1) \cap 0..(nextBlock - 1) = {}
  BY <1>1, <1>3, Numbers
<1> HIDE DEF then, els, cont, ids
<1>5. DOMAIN blocks' = DOMAIN blocks \cup ids
  <2>1. DOMAIN reserved = DOMAIN blocks \cup ids
    BY ReserveFrames
  <2> HIDE DEF reserved
  <2> QED
    BY <1>1, <2>1, CloseFrames
<1>6. /\ end \in Tasks /\ Ready(end, DOMAIN blocks', nextBlock')
      /\ Elses({end}) = {els} \ {NoBlock} /\ Heads({end}) = {}
  <2>1. The \in Syntax
    BY <1>1, AgendaSplits
  <2>2. <<then, els, cont>> \in Seq(Int) /\ Len(<<then, els, cont>>) = 3
    BY <1>4
  <2>3. end \in Tasks
    BY <2>1, <2>2 DEF Point, Tasks, Doings
  <2>4. Ready(end, DOMAIN blocks', nextBlock')
    BY <1>4, <1>5, <2>2 DEF Point, Ready
  <2> QED
    BY <2>3, <2>4 DEF Point, Elses, Heads
<1> HIDE DEF end
<1>7. /\ points \in Seq(Tasks)
      /\ Elses(Range(points)) = {els} \ {NoBlock} /\ Heads(Range(points)) = {}
      /\ \A p \in Range(points) : Ready(p, DOMAIN blocks', nextBlock')
  BY <1>1, <1>6, BodyPlain, PlainAnd
<1> HIDE DEF points
<1>8. (Elses(Range(points)) \cup Heads(Range(points))) \cap 0..(nextBlock - 1) = {}
  BY <1>4, <1>7
<1>9. /\ Listed' /\ Heads(Range(agenda')) = H /\ Graph(reserved, D, H)
      /\ Elses(Range(agenda')) = Elses(Range(points)) \cup Elses(Rest)
      /\ DOMAIN reserved = DOMAIN blocks' /\ current \in DOMAIN blocks' \cup {NoBlock}
      /\ DOMAIN blocks' \subseteq 0..(nextBlock' - 1) /\ Entry \in DOMAIN blocks'
      /\ loops \in Seq([cont : DOMAIN blocks', brk : DOMAIN blocks', scoped : BOOLEAN])
      /\ regions \in Seq([exit : DOMAIN blocks', depth : Nat])
  <2>1. Head(agenda).do # "then_end"
    BY <1>1
  <2>2. /\ Listed' /\ Heads(Range(agenda')) = Heads(Range(points)) \cup Heads(Rest)
        /\ Graph(Reserve(blocks, ids), DOMAIN blocks' \cup Elses(Range(agenda')), Heads(Rest))
        /\ Elses(Range(agenda')) = Elses(Range(points)) \cup Elses(Rest)
        /\ DOMAIN Reserve(blocks, ids) = DOMAIN blocks'
        /\ current \in DOMAIN blocks' \cup {NoBlock}
        /\ DOMAIN blocks' \subseteq 0..(nextBlock' - 1) /\ Entry \in DOMAIN blocks'
        /\ loops \in Seq([cont : DOMAIN blocks', brk : DOMAIN blocks', scoped : BOOLEAN])
        /\ regions \in Seq([exit : DOMAIN blocks', depth : Nat])
    <3> HIDE DEF D, H, end, reserved, branch
    <3> QED
      BY <1>1, <1>4, <1>5, <1>7, <1>8, <2>1, Makes
  <2> QED
    BY <1>7, <2>2
<1>10. then \in D /\ cont \in D /\ (els # NoBlock => els \in D)
  BY <1>4, <1>5, <1>7, <1>9
<1> HIDE DEF reserved, D, H
<1>11. Graph(blocks', D, H)
  <2>1. Value(e.value) \in Operand
    BY <1>2, OperandsTyped
  <2>2. branch \in Terminator /\ Targets(branch) \subseteq D
    BY <1>4, <1>10, <2>1, BranchTyped
  <2> HIDE DEF branch
  <2> QED
    BY <1>1, <1>2, <1>9, <2>2, Closes
<1>12. Shaped'
  BY <1>9, <1>11 DEF Shaped, D
<1>13. Numbered' /\ Placed' /\ Scoped' /\ Nested' /\ Promised'
  BY <1>1, <1>2, <1>4, <1>5, <1>9 DEF LowerInv, Numbered, Placed, Scoped, Nested, Promised
<1> QED
  BY <1>9, <1>12, <1>13 DEF LowerInv

LEMMA EndThenKeeps == ASSUME LowerInv, EndThen PROVE LowerInv'
<1> DEFINE then == At[1]
           els == At[2]
           cont == At[3]
           once == Joined(blocks, then, cont)
           joined == IF then \in Returning THEN blocks ELSE Joined(once, current, cont)
           end == Point("else_end", The, At)
           points == Points(The.other) \o <<end>>
           D == DOMAIN blocks' \cup Elses(Range(agenda'))
           H == Heads(Rest)
<1>1. /\ agenda # <<>> /\ Head(agenda).do = "then_end"
      /\ \/ els = NoBlock /\ blocks' = joined /\ current' = cont /\ Then(<<>>)
         \/ els # NoBlock /\ blocks' = Reserve(joined, {els}) /\ current' = els /\ Then(points)
      /\ UNCHANGED <<nextBlock, nextValue, scope, loops, regions, ensures>>
  BY DEF EndThen, Doing
<1>2. /\ then \in DOMAIN blocks /\ cont \in DOMAIN blocks /\ DOMAIN blocks \subseteq Int
      /\ Ready(Head(agenda), DOMAIN blocks, nextBlock) /\ At = Head(agenda).at
      /\ Head(agenda) \in Range(agenda) /\ Range(agenda) = {Head(agenda)} \cup Rest
  BY <1>1, ReadyBlocks, AgendaSplits DEF At
<1>3. els \in {NoBlock} \cup 0..(nextBlock - 1)
  BY <1>1, <1>2 DEF Ready
<1>4. /\ nextBlock' \in Nat /\ nextBlock <= nextBlock' /\ nextBlock' = nextBlock
      /\ DOMAIN blocks \subseteq 0..(nextBlock - 1)
  BY <1>1 DEF LowerInv, Numbered
<1>5. AsGood(blocks, joined, H)
  <2>1. AsGood(blocks, once, H) /\ DOMAIN once = DOMAIN blocks
    BY <1>2, JoinsGood DEF AsGood
  <2> HIDE DEF once
  <2>2. AsGood(once, Joined(once, current, cont), H)
    BY <1>2, <2>1, CurrentPlaced, JoinsGood
  <2> QED
    BY <2>1, <2>2, GoodAfter, StaysGood
<1>6. DOMAIN joined = DOMAIN blocks
  BY <1>5 DEF AsGood
<1> HIDE DEF then, els, cont, joined
<1>7. CASE els = NoBlock
  <2>1. blocks' = joined /\ current' = cont /\ Then(<<>>)
    BY <1>1, <1>7
  <2>2. Head(agenda).at[2] = NoBlock
    BY <1>2, <1>7 DEF els
  <2>3. /\ Listed' /\ Heads(Range(agenda')) = H /\ Graph(blocks, D, H)
    BY <1>1, <1>4, <1>6, <2>1, <2>2, NoPoints, OnwardPlain
  <2>4. Graph(blocks', D, H)
    BY <1>5, <1>6, <2>1, <2>3 DEF AsGood
  <2>5. Shaped'
    BY <2>3, <2>4 DEF Shaped
  <2>6. Numbered' /\ Placed' /\ Scoped' /\ Nested' /\ Promised'
    BY <1>1, <1>2, <1>4, <1>6, <2>1 DEF LowerInv, Numbered, Placed, Scoped, Nested, Promised
  <2> QED
    BY <2>3, <2>5, <2>6 DEF LowerInv
<1>8. CASE els # NoBlock
  <2>1. blocks' = Reserve(joined, {els}) /\ current' = els /\ Then(points)
    BY <1>1, <1>8
  <2>2. DOMAIN blocks' = DOMAIN blocks \cup {els} /\ els \in 0..(nextBlock - 1)
    BY <1>3, <1>6, <1>8, <2>1, ReserveFrames
  <2>3. /\ end \in Tasks /\ Ready(end, DOMAIN blocks', nextBlock')
        /\ Elses({end}) = {} /\ Heads({end}) = {}
    <3>1. The \in Syntax /\ At \in Seq(Int)
      BY <1>1, AgendaSplits
    <3>2. end \in Tasks
      BY <3>1 DEF Point, Tasks, Doings
    <3>3. Ready(end, DOMAIN blocks', nextBlock')
      BY <1>1, <1>2, <1>4, <2>2 DEF Point, Ready
    <3> QED
      BY <3>2, <3>3 DEF Point, Elses, Heads
  <2> HIDE DEF end
  <2>4. /\ points \in Seq(Tasks) /\ Elses(Range(points)) = {} /\ Heads(Range(points)) = {}
        /\ \A p \in Range(points) : Ready(p, DOMAIN blocks', nextBlock')
    BY <1>1, <2>3, BodyPlain, PlainAnd
  <2> HIDE DEF points
  <2>5. Head(agenda).at[2] \in DOMAIN blocks'
    BY <1>2, <2>2 DEF els
  <2>6. (Elses(Range(points)) \cup Heads(Range(points))) \cap 0..(nextBlock - 1) = {}
    BY <2>4
  <2>7. /\ Listed' /\ Graph(blocks, D, H)
        /\ Heads(Range(agenda')) = Heads(Range(points)) \cup H
    BY <1>1, <1>4, <2>1, <2>2, <2>4, <2>5, <2>6, Onward
  <2>8. els \notin H
    <3>1. els \in Elses(Range(agenda))
      BY <1>1, <1>2, <1>8 DEF els, Elses
    <3>2. H \subseteq Heads(Range(agenda))
      BY <1>2 DEF Heads
    <3> QED
      BY <3>1, <3>2 DEF LowerInv, Listed
  <2>9. Graph(blocks', D, H)
    <3>1. Graph(joined, D, H)
      BY <1>5, <2>2, <2>7 DEF AsGood
    <3>2. {els} \subseteq Nat /\ {els} \cap H = {}
      BY <1>4, <2>2, <2>8
    <3> QED
      BY <2>1, <3>1, <3>2, Reserves
  <2>10. Shaped'
    BY <2>4, <2>7, <2>9 DEF Shaped
  <2>11. Nested'
    BY <1>1, <2>2, NestedGrows DEF LowerInv, Nested
  <2>12. Numbered' /\ Placed' /\ Scoped' /\ Promised'
    BY <1>1, <1>4, <2>1, <2>2 DEF LowerInv, Numbered, Placed, Scoped, Promised
  <2> QED
    BY <2>7, <2>10, <2>11, <2>12 DEF LowerInv
<1> QED
  BY <1>7, <1>8

LEMMA BuildWhileKeeps == ASSUME LowerInv, BuildWhile PROVE LowerInv'
<1> DEFINE e == Lower(The.expr)
           header == nextBlock
           body == nextBlock + 1
           exit == nextBlock + 2
           ids == {header, body, exit}
           scoped == IterScopeSafe(The.body)
           branch == Branch(Value(e.value), body, exit)
           reserved == Reserve(blocks, ids)
           entered == End(reserved, current, Jump(header))
           headed == Close(entered, header, e.code, branch)
           end == Point("while_end", The, <<header, exit>>)
           points == Points(The.body) \o <<end>>
           D == DOMAIN blocks' \cup Elses(Range(agenda'))
           H == Heads(Rest)
<1>1. /\ agenda # <<>> /\ Head(agenda).do = "stmt" /\ Resolved(The.expr)
      /\ blocks' = Emit(headed, body, ScopePush(scoped))
      /\ loops' = Append(loops, Loop(header, exit, scoped))
      /\ current' = body
      /\ nextValue' = e.next
      /\ Then(points)
      /\ nextBlock' = nextBlock + 3
      /\ UNCHANGED <<scope, regions, ensures>>
  BY DEF BuildWhile, On, Doing
<1>2. e.code \in Seq(Sound) /\ e.value \in Nat /\ e.next \in Nat \ {0}
  BY <1>1, LowersTo
<1> HIDE DEF e
<1>3. nextBlock \in Nat
  BY DEF LowerInv, Numbered
<1>4. /\ nextBlock' \in Nat /\ nextBlock <= nextBlock' /\ ids \subseteq nextBlock..(nextBlock' - 1)
      /\ header \in ids /\ body \in ids /\ exit \in ids
      /\ header \in Int /\ body \in Int /\ exit \in Int
  BY <1>1, <1>3
<1> HIDE DEF header, body, exit, ids
<1>5. DOMAIN blocks' = DOMAIN blocks \cup ids
  <2>1. DOMAIN reserved = DOMAIN blocks \cup ids
    BY ReserveFrames
  <2> HIDE DEF reserved
  <2>2. DOMAIN entered = DOMAIN reserved
    BY EndFrames
  <2> HIDE DEF entered
  <2>3. DOMAIN headed = DOMAIN entered
    BY CloseFrames
  <2> HIDE DEF headed
  <2> QED
    BY <1>1, <2>1, <2>2, <2>3, EmitFrames
<1>6. /\ end \in Tasks /\ Ready(end, DOMAIN blocks', nextBlock')
      /\ Elses({end}) = {} /\ Heads({end}) = {}
  <2>1. The \in Syntax
    BY <1>1, AgendaSplits
  <2>2. <<header, exit>> \in Seq(Int) /\ Len(<<header, exit>>) = 2
    BY <1>4
  <2>3. end \in Tasks
    BY <2>1, <2>2 DEF Point, Tasks, Doings
  <2>4. \A i \in 1..2 : <<header, exit>>[i] \in DOMAIN blocks'
    BY <1>4, <1>5
  <2>5. Ready(end, DOMAIN blocks', nextBlock')
    BY <2>2, <2>4 DEF Point, Ready
  <2> QED
    BY <2>3, <2>5 DEF Point, Elses, Heads
<1> HIDE DEF end
<1>7. /\ points \in Seq(Tasks) /\ Elses(Range(points)) = {} /\ Heads(Range(points)) = {}
      /\ \A p \in Range(points) : Ready(p, DOMAIN blocks', nextBlock')
  BY <1>1, <1>6, BodyPlain, PlainAnd
<1> HIDE DEF points
<1>8. (Elses(Range(points)) \cup Heads(Range(points))) \cap 0..(nextBlock - 1) = {}
  BY <1>7
<1>9. /\ Listed' /\ Heads(Range(agenda')) = Heads(Range(points)) \cup H /\ Graph(reserved, D, H)
      /\ DOMAIN reserved = DOMAIN blocks' /\ current \in DOMAIN blocks' \cup {NoBlock}
      /\ DOMAIN blocks' \subseteq 0..(nextBlock' - 1) /\ Entry \in DOMAIN blocks'
      /\ loops \in Seq([cont : DOMAIN blocks', brk : DOMAIN blocks', scoped : BOOLEAN])
      /\ regions \in Seq([exit : DOMAIN blocks', depth : Nat])
  <2>1. Head(agenda).do # "then_end"
    BY <1>1
  <2> QED
    BY <1>1, <1>4, <1>5, <1>7, <1>8, <2>1, Makes
<1>10. header \in D /\ body \in D /\ exit \in D /\ header \in DOMAIN blocks' /\ body \in DOMAIN blocks'
  BY <1>4, <1>5
<1> HIDE DEF reserved, D, H
<1>11. Graph(entered, D, H) /\ DOMAIN entered = DOMAIN blocks'
  <2>1. Jump(header) \in Terminator /\ Targets(Jump(header)) \subseteq D
    BY <1>4, <1>10, TermsTyped
  <2> QED
    BY <1>9, <2>1, GraphEnds, EndFrames
<1> HIDE DEF entered
<1>12. Graph(headed, D, H) /\ DOMAIN headed = DOMAIN blocks'
  <2>1. Value(e.value) \in Operand
    BY <1>2, OperandsTyped
  <2>2. branch \in Terminator /\ Targets(branch) \subseteq D
    BY <1>4, <1>10, <2>1, BranchTyped
  <2> HIDE DEF branch
  <2>3. Graph(headed, D, H)
    BY <1>2, <1>10, <1>11, <2>2, Closes
  <2> QED
    BY <1>11, <2>3, CloseFrames
<1> HIDE DEF headed
<1>13. Graph(blocks', D, H)
  <2>1. ScopePush(scoped) \in Seq(Sound)
    BY SafeOrNot, ScopesSound
  <2> HIDE DEF scoped
  <2> QED
    BY <1>1, <1>10, <1>12, <2>1, Emits
<1>14. Shaped'
  BY <1>7, <1>9, <1>13 DEF Shaped, D
<1>15. Nested'
  <2>1. Loop(header, exit, scoped) \in [cont : DOMAIN blocks', brk : DOMAIN blocks', scoped : BOOLEAN]
    BY <1>4, <1>5, SafeOrNot DEF Loop
  <2> HIDE DEF scoped
  <2> QED
    BY <1>1, <1>9, <2>1 DEF Nested
<1>16. Numbered' /\ Placed' /\ Scoped' /\ Promised'
  BY <1>1, <1>2, <1>4, <1>9, <1>10 DEF LowerInv, Numbered, Placed, Scoped, Promised
<1> QED
  BY <1>9, <1>14, <1>15, <1>16 DEF LowerInv

\* A header gets its phi while it is empty.
LEMMA HeaderEmpty ==
  ASSUME LowerInv, NEW ids, NEW header \in ids, header \notin DOMAIN blocks \cup {NoBlock},
         NEW code, NEW term
  PROVE  LET started == Close(Reserve(blocks, ids), current, code, term)
         IN started[header].code = <<>> /\ DOMAIN started = DOMAIN blocks \cup ids
<1> DEFINE reserved == Reserve(blocks, ids)
           started == Close(reserved, current, code, term)
<1>1. DOMAIN reserved = DOMAIN blocks \cup ids /\ reserved[header] = Fresh
  BY ReserveFrames
<1>2. header # current
  BY CurrentPlaced
<1> HIDE DEF reserved
<1>3. DOMAIN started = DOMAIN reserved /\ started[header] = reserved[header]
  BY <1>1, <1>2, CloseFrames
<1> HIDE DEF started
<1>4. started[header].code = <<>> /\ DOMAIN started = DOMAIN blocks \cup ids
  BY <1>1, <1>3 DEF Fresh
<1> QED
  BY <1>4 DEF started, reserved

LEMMA BuildForKeeps == ASSUME LowerInv, BuildFor PROVE LowerInv'
<1> DEFINE e == Lower(The.expr)
           index == e.next
           now == e.next + 1
           element == e.next + 2
           length == e.next + 3
           more == e.next + 4
           address == e.next + 5
           header == nextBlock
           body == nextBlock + 1
           inc == nextBlock + 2
           exit == nextBlock + 3
           ids == {header, body, inc, exit}
           scoped == IterScopeSafe(The.body)
           init == e.code \o <<Copy(index, Constant(Integer(0))), Copy(now, Value(index))>>
           test == <<Phi(now, <<Value(index)>>), Load(length, Value(e.value), "length"),
                     BinaryOp("lt", more, Value(now), Value(length))>>
           take == ScopePush(scoped)
                     \o <<Instr("address", address, <<Value(e.value), Value(now)>>, "", NoBlock),
                          Load(element, Value(address), "element")>>
           branch == Branch(Value(more), body, exit)
           started == Close(Reserve(blocks, ids), current, init, Jump(header))
           tested == Emit(started, header, test)
           headed == End(tested, header, branch)
           end == Point("for_end", The, <<header, body, inc, exit, now>>)
           points == Points(The.body) \o <<end>>
           D == DOMAIN blocks' \cup Elses(Range(agenda'))
           H == Heads(Rest)
<1>1. /\ agenda # <<>> /\ Head(agenda).do = "stmt" /\ Resolved(The.expr)
      /\ nextValue' = e.next + 6
      /\ UNCHANGED <<regions, ensures>>
  BY DEF BuildFor, On, Doing
<1>2. /\ blocks' = Emit(headed, body, take)
      /\ loops' = Append(loops, Loop(inc, exit, scoped))
      /\ scope' = Bound(scope, {The.name}, element)
      /\ current' = body
      /\ Then(points)
      /\ nextBlock' = nextBlock + 4
  <2>1. e.next + 0 = e.next
    <3>1. e.next \in Nat
      BY <1>1, LowersTo
    <3> QED
      BY <3>1
  <2> QED
    BY <2>1 DEF BuildFor, Close
<1>3. e.code \in Seq(Sound) /\ e.value \in Nat /\ e.next \in Nat \ {0}
  BY <1>1, LowersTo
<1> HIDE DEF e
<1>4. /\ index \in Nat \ {0} /\ now \in Nat \ {0} /\ element \in Nat \ {0} /\ length \in Nat \ {0}
      /\ more \in Nat \ {0} /\ address \in Nat \ {0} /\ e.next + 6 \in Nat \ {0}
  BY <1>3, NextNumbers
<1> HIDE DEF index, now, element, length, more, address
<1>5. /\ Value(index) \in Operand /\ Value(now) \in Operand /\ Value(length) \in Operand
      /\ Value(more) \in Operand /\ Value(address) \in Operand /\ Value(e.value) \in Operand
      /\ Constant(Integer(0)) \in Operand
  BY <1>3, <1>4, OperandsTyped, ConstantsTyped
<1>6. init \in Seq(Sound)
  <2>1. Copy(index, Constant(Integer(0))) \in Sound /\ Copy(now, Value(index)) \in Sound
    BY <1>4, <1>5, NamesAssumption, InstructionsSound
  <2>2. <<Copy(index, Constant(Integer(0))), Copy(now, Value(index))>> \in Seq(Sound)
    BY <2>1, Pair
  <2> QED
    BY <1>3, <2>2
<1>7. test \in Seq(Sound) /\ test # <<>> /\ test[1].op = "phi" /\ test[1].dest # NoValue
  <2>1. "length" \in STRING /\ "lt" \in STRING
    BY NamesAssumption
  <2>2. /\ Phi(now, <<Value(index)>>) \in Sound
        /\ Phi(now, <<Value(index)>>).op = "phi" /\ Phi(now, <<Value(index)>>).dest = now
    BY <1>4, <1>5, <2>1, InstructionsSound
  <2>3. Load(length, Value(e.value), "length") \in Sound
    BY <1>4, <1>5, <2>1, InstructionsSound
  <2>4. BinaryOp("lt", more, Value(now), Value(length)) \in Sound
    BY <1>4, <1>5, <2>1, InstructionsSound
  <2>5. now # NoValue
    BY <1>4, Numbers
  <2> QED
    BY <2>2, <2>3, <2>4, <2>5, Triple
<1>8. take \in Seq(Sound)
  <2>1. "element" \in STRING /\ "" \in STRING
    BY NamesAssumption
  <2>2. /\ Instr("address", address, <<Value(e.value), Value(now)>>, "", NoBlock) \in Sound
        /\ Load(element, Value(address), "element") \in Sound
    BY <1>4, <1>5, <2>1, InstructionsSound
  <2>3. <<Instr("address", address, <<Value(e.value), Value(now)>>, "", NoBlock),
          Load(element, Value(address), "element")>> \in Seq(Sound)
    BY <2>2, Pair
  <2>4. ScopePush(scoped) \in Seq(Sound)
    BY SafeOrNot, ScopesSound
  <2> HIDE DEF scoped
  <2> DEFINE loads == <<Instr("address", address, <<Value(e.value), Value(now)>>, "", NoBlock),
                        Load(element, Value(address), "element")>>
             pushed == ScopePush(scoped)
  <2>5. take = pushed \o loads
    OBVIOUS
  <2>6. pushed \in Seq(Sound) /\ loads \in Seq(Sound)
    BY <2>3, <2>4
  <2> HIDE DEF loads, pushed, take
  <2> QED
    BY <2>5, <2>6
<1> HIDE DEF init, test, take
<1>9. nextBlock \in Nat /\ DOMAIN blocks \subseteq 0..(nextBlock - 1)
  BY DEF LowerInv, Numbered
<1>10. /\ nextBlock' \in Nat /\ nextBlock <= nextBlock' /\ ids \subseteq nextBlock..(nextBlock' - 1)
       /\ header \in ids /\ body \in ids /\ inc \in ids /\ exit \in ids
       /\ header \in Int /\ body \in Int /\ inc \in Int /\ exit \in Int
       /\ header \notin 0..(nextBlock - 1) /\ header # NoBlock
  BY <1>2, <1>9, Numbers
<1> HIDE DEF header, body, inc, exit, ids
<1>11. started[header].code = <<>> /\ DOMAIN started = DOMAIN blocks \cup ids
  BY <1>9, <1>10, HeaderEmpty
<1>12. DOMAIN blocks' = DOMAIN blocks \cup ids
  <2> HIDE DEF started
  <2>1. DOMAIN tested = DOMAIN started
    BY EmitFrames
  <2> HIDE DEF tested
  <2>2. DOMAIN headed = DOMAIN tested
    BY EndFrames
  <2> HIDE DEF headed
  <2> QED
    BY <1>2, <1>11, <2>1, <2>2, EmitFrames
<1>13. /\ end \in Tasks /\ Ready(end, DOMAIN blocks', nextBlock')
       /\ Elses({end}) = {} /\ Heads({end}) = {header}
  <2> DEFINE at == <<header, body, inc, exit, now>>
  <2>1. The \in Syntax
    BY <1>1, AgendaSplits
  <2>2. at \in Seq(Int) /\ Len(at) = 5 /\ at[1] = header /\ at[5] \in Nat \ {0}
    BY <1>4, <1>10
  <2>3. \A i \in 1..4 : at[i] \in DOMAIN blocks'
    BY <1>10, <1>12
  <2> HIDE DEF at
  <2>4. end = Point("for_end", The, at)
    BY DEF at
  <2>5. end \in Tasks
    BY <2>1, <2>2, <2>4 DEF Point, Tasks, Doings
  <2>6. Ready(end, DOMAIN blocks', nextBlock')
    BY <2>2, <2>3, <2>4 DEF Point, Ready
  <2> QED
    BY <2>2, <2>4, <2>5, <2>6 DEF Point, Elses, Heads
<1> HIDE DEF end
<1>14. /\ points \in Seq(Tasks) /\ Elses(Range(points)) = {} /\ Heads(Range(points)) = {header}
       /\ \A p \in Range(points) : Ready(p, DOMAIN blocks', nextBlock')
  BY <1>1, <1>13, BodyPlain, PlainAnd
<1> HIDE DEF points
<1>15. (Elses(Range(points)) \cup Heads(Range(points))) \cap 0..(nextBlock - 1) = {}
  BY <1>10, <1>14
<1>16. /\ Listed' /\ Heads(Range(agenda')) = Heads(Range(points)) \cup H
       /\ Graph(Reserve(blocks, ids), D, H)
       /\ DOMAIN Reserve(blocks, ids) = DOMAIN blocks' /\ current \in DOMAIN blocks' \cup {NoBlock}
       /\ DOMAIN blocks' \subseteq 0..(nextBlock' - 1) /\ Entry \in DOMAIN blocks'
       /\ loops \in Seq([cont : DOMAIN blocks', brk : DOMAIN blocks', scoped : BOOLEAN])
       /\ regions \in Seq([exit : DOMAIN blocks', depth : Nat])
  <2>1. Head(agenda).do # "then_end"
    BY <1>1
  <2> QED
    BY <1>1, <1>2, <1>10, <1>12, <1>14, <1>15, <2>1, Makes
<1>17. header \in D /\ body \in D /\ exit \in D /\ header \in DOMAIN blocks' /\ body \in DOMAIN blocks'
  BY <1>10, <1>12
<1> HIDE DEF D, H
<1>18. Graph(started, D, H)
  <2>1. Jump(header) \in Terminator /\ Targets(Jump(header)) \subseteq D
    BY <1>10, <1>17, TermsTyped
  <2> QED
    BY <1>6, <1>16, <2>1, Closes
<1> HIDE DEF started
<1>19. Graph(tested, D, H \cup {header}) /\ DOMAIN tested = DOMAIN blocks'
  <2>1. header \in DOMAIN started
    BY <1>10, <1>11
  <2>2. DOMAIN tested = DOMAIN started
    BY EmitFrames
  <2> QED
    BY <1>7, <1>11, <1>12, <1>18, <2>1, <2>2, Heads1
<1> HIDE DEF tested
<1>20. Graph(headed, D, H \cup {header}) /\ DOMAIN headed = DOMAIN blocks'
  <2>1. branch \in Terminator /\ Targets(branch) \subseteq D
    BY <1>5, <1>10, <1>17, BranchTyped
  <2> HIDE DEF branch
  <2> QED
    BY <1>17, <1>19, <2>1, GraphEnds, EndFrames
<1> HIDE DEF headed
<1>21. Graph(blocks', D, H \cup {header})
  BY <1>2, <1>8, <1>17, <1>20, Emits
<1>22. Shaped'
  <2>1. Heads(Range(agenda')) = H \cup {header}
    BY <1>14, <1>16
  <2> QED
    BY <1>21, <2>1 DEF Shaped, D
<1>23. Nested'
  <2>1. Loop(inc, exit, scoped) \in [cont : DOMAIN blocks', brk : DOMAIN blocks', scoped : BOOLEAN]
    BY <1>10, <1>12, SafeOrNot DEF Loop
  <2> HIDE DEF scoped
  <2> QED
    BY <1>1, <1>2, <1>16, <2>1 DEF Nested
<1>24. Scoped'
  BY <1>2, <1>4, BoundScoped DEF LowerInv
<1>25. Numbered' /\ Placed' /\ Promised'
  BY <1>1, <1>2, <1>4, <1>10, <1>16, <1>17 DEF LowerInv, Numbered, Placed, Promised
<1> QED
  BY <1>16, <1>22, <1>23, <1>24, <1>25 DEF LowerInv

LEMMA BuildRangeKeeps == ASSUME LowerInv, BuildRange PROVE LowerInv'
<1> DEFINE from == Lower(The.expr)
           to == LowerFrom(The.upto, from.next)
           step == to.next
           zero == to.next + 1
           down == to.next + 2
           first == to.next + 3
           counter == to.next + 4
           upward == to.next + 5
           downward == to.next + 6
           more == to.next + 7
           header == nextBlock
           body == nextBlock + 1
           inc == nextBlock + 2
           exit == nextBlock + 3
           ids == {header, body, inc, exit}
           scoped == IterScopeSafe(The.body)
           setup == <<Copy(step, Constant(Integer(1))), Copy(zero, Constant(Integer(0))),
                      BinaryOp("lt", down, Value(step), Value(zero)),
                      Copy(first, Value(from.value)), Copy(counter, Value(first))>>
           init == from.code \o to.code \o setup
           test == <<Phi(counter, <<Value(first)>>),
                     BinaryOp("le", upward, Value(counter), Value(to.value)),
                     BinaryOp("ge", downward, Value(counter), Value(to.value)),
                     Select(more, Value(down), Value(downward), Value(upward))>>
           started == Close(Reserve(blocks, ids), current, init, Jump(header))
           headed == Emit(started, header, test)
           end == Point("range_end", The, <<header, body, inc, exit, more, counter, step, first>>)
           points == Points(The.body) \o <<end>>
           D == DOMAIN blocks' \cup Elses(Range(agenda'))
           H == Heads(Rest)
<1>1. /\ agenda # <<>> /\ Head(agenda).do = "stmt" /\ Resolved(The.expr) /\ Resolved(The.upto)
      /\ nextValue' = to.next + 8
      /\ UNCHANGED <<regions, ensures>>
  BY DEF BuildRange, On, Doing
<1>2. from.code \in Seq(Sound) /\ from.value \in Nat /\ from.next \in Nat \ {0}
  BY <1>1, LowersTo
<1>3. to.code \in Seq(Sound) /\ to.value \in Nat /\ to.next \in Nat \ {0}
  <2>1. The.upto \in Expressions
    BY <1>1, AgendaSplits DEF Syntax
  <2> HIDE DEF from
  <2>2. to \in Outcomes
    BY <1>1, <1>2, <2>1, ExpressionComes DEF LowerInv
  <2> QED
    BY <2>2 DEF Outcomes
<1>4. /\ blocks' = Emit(headed, body, ScopePush(scoped))
      /\ loops' = Append(loops, Loop(inc, exit, scoped))
      /\ scope' = Bound(scope, {The.name}, counter)
      /\ current' = body
      /\ Then(points)
      /\ nextBlock' = nextBlock + 4
  <2>1. to.next + 0 = to.next
    <3> HIDE DEF to
    <3> QED
      BY <1>3
  <2> QED
    BY <2>1 DEF BuildRange
<1> HIDE DEF from, to
<1>5. /\ step \in Nat \ {0} /\ zero \in Nat \ {0} /\ down \in Nat \ {0} /\ first \in Nat \ {0}
      /\ counter \in Nat \ {0} /\ upward \in Nat \ {0} /\ downward \in Nat \ {0}
      /\ more \in Nat \ {0} /\ to.next + 8 \in Nat \ {0}
  BY <1>3, NextNumbers
<1> HIDE DEF step, zero, down, first, counter, upward, downward, more
<1>6. /\ Value(step) \in Operand /\ Value(zero) \in Operand /\ Value(down) \in Operand
      /\ Value(first) \in Operand /\ Value(counter) \in Operand /\ Value(upward) \in Operand
      /\ Value(downward) \in Operand /\ Value(from.value) \in Operand /\ Value(to.value) \in Operand
      /\ Value(more) \in Operand
      /\ Constant(Integer(0)) \in Operand /\ Constant(Integer(1)) \in Operand
  <2>1. \A v \in Nat : Value(v) \in Operand
    BY OperandsTyped
  <2>2. Constant(Integer(0)) \in Operand /\ Constant(Integer(1)) \in Operand
    BY ConstantsTyped, OperandsTyped
  <2> QED
    BY <1>2, <1>3, <1>5, <2>1, <2>2
<1>7. "lt" \in STRING /\ "le" \in STRING /\ "ge" \in STRING
  BY NamesAssumption
<1>8. init \in Seq(Sound)
  <2>1. Copy(step, Constant(Integer(1))) \in Sound /\ Copy(zero, Constant(Integer(0))) \in Sound
    BY <1>5, <1>6, <1>7, InstructionsSound
  <2>2. BinaryOp("lt", down, Value(step), Value(zero)) \in Sound
    BY <1>5, <1>6, <1>7, InstructionsSound
  <2>3. Copy(first, Value(from.value)) \in Sound /\ Copy(counter, Value(first)) \in Sound
    BY <1>5, <1>6, <1>7, InstructionsSound
  <2>4. setup \in Seq(Sound)
    BY <2>1, <2>2, <2>3, Five
  <2> HIDE DEF setup
  <2> QED
    BY <1>2, <1>3, <2>4
<1>9. test \in Seq(Sound) /\ test # <<>> /\ test[1].op = "phi" /\ test[1].dest # NoValue
  <2>1. /\ Phi(counter, <<Value(first)>>) \in Sound
        /\ Phi(counter, <<Value(first)>>).op = "phi" /\ Phi(counter, <<Value(first)>>).dest = counter
    <3>1. Value(first) \in Operand /\ "lt" \in STRING
      BY <1>6, <1>7
    <3> QED
      BY <1>5, <3>1, InstructionsSound
  <2>2. BinaryOp("le", upward, Value(counter), Value(to.value)) \in Sound
    BY <1>5, <1>6, <1>7, InstructionsSound
  <2>3. BinaryOp("ge", downward, Value(counter), Value(to.value)) \in Sound
    BY <1>5, <1>6, <1>7, InstructionsSound
  <2>4. Select(more, Value(down), Value(downward), Value(upward)) \in Sound
    BY <1>5, <1>6, <1>7, InstructionsSound
  <2>5. counter # NoValue
    BY <1>5, Numbers
  <2>6. test \in Seq(Sound)
    BY <2>1, <2>2, <2>3, <2>4, Four
  <2>7. test # <<>> /\ test[1] = Phi(counter, <<Value(first)>>)
    OBVIOUS
  <2> HIDE DEF test
  <2> QED
    BY <2>1, <2>5, <2>6, <2>7
<1> HIDE DEF init, test
<1>10. nextBlock \in Nat /\ DOMAIN blocks \subseteq 0..(nextBlock - 1)
  BY DEF LowerInv, Numbered
<1>11. /\ nextBlock' \in Nat /\ nextBlock <= nextBlock' /\ ids \subseteq nextBlock..(nextBlock' - 1)
       /\ header \in ids /\ body \in ids /\ inc \in ids /\ exit \in ids
       /\ header \in Int /\ body \in Int /\ inc \in Int /\ exit \in Int
       /\ header \notin 0..(nextBlock - 1) /\ header # NoBlock
  BY <1>4, <1>10, Numbers
<1> HIDE DEF header, body, inc, exit, ids
<1>12. started[header].code = <<>> /\ DOMAIN started = DOMAIN blocks \cup ids
  BY <1>10, <1>11, HeaderEmpty
<1>13. DOMAIN blocks' = DOMAIN blocks \cup ids
  <2> HIDE DEF started
  <2>1. DOMAIN headed = DOMAIN started
    BY EmitFrames
  <2> HIDE DEF headed
  <2> QED
    BY <1>4, <1>12, <2>1, EmitFrames
<1>14. /\ end \in Tasks /\ Ready(end, DOMAIN blocks', nextBlock')
       /\ Elses({end}) = {} /\ Heads({end}) = {header}
  <2> DEFINE at == <<header, body, inc, exit, more, counter, step, first>>
  <2>1. The \in Syntax
    BY <1>1, AgendaSplits
  <2>2. at \in Seq(Int) /\ Len(at) = 8 /\ at[1] = header
    BY <1>5, <1>11
  <2>3. \A i \in 1..4 : at[i] \in DOMAIN blocks'
    BY <1>11, <1>13
  <2>4. \A i \in 5..8 : at[i] \in Nat \ {0}
    BY <1>5
  <2> HIDE DEF at
  <2>5. end = Point("range_end", The, at)
    BY DEF at
  <2>6. end \in Tasks
    BY <2>1, <2>2, <2>5 DEF Point, Tasks, Doings
  <2>7. Ready(end, DOMAIN blocks', nextBlock')
    BY <2>2, <2>3, <2>4, <2>5 DEF Point, Ready
  <2> QED
    BY <2>2, <2>5, <2>6, <2>7 DEF Point, Elses, Heads
<1> HIDE DEF end
<1>15. /\ points \in Seq(Tasks) /\ Elses(Range(points)) = {} /\ Heads(Range(points)) = {header}
       /\ \A p \in Range(points) : Ready(p, DOMAIN blocks', nextBlock')
  BY <1>1, <1>14, BodyPlain, PlainAnd
<1> HIDE DEF points
<1>16. (Elses(Range(points)) \cup Heads(Range(points))) \cap 0..(nextBlock - 1) = {}
  BY <1>11, <1>15
<1>17. /\ Listed' /\ Heads(Range(agenda')) = Heads(Range(points)) \cup H
       /\ Graph(Reserve(blocks, ids), D, H)
       /\ DOMAIN Reserve(blocks, ids) = DOMAIN blocks' /\ current \in DOMAIN blocks' \cup {NoBlock}
       /\ DOMAIN blocks' \subseteq 0..(nextBlock' - 1) /\ Entry \in DOMAIN blocks'
       /\ loops \in Seq([cont : DOMAIN blocks', brk : DOMAIN blocks', scoped : BOOLEAN])
       /\ regions \in Seq([exit : DOMAIN blocks', depth : Nat])
  <2>1. Head(agenda).do # "then_end"
    BY <1>1
  <2> QED
    BY <1>1, <1>4, <1>11, <1>13, <1>15, <1>16, <2>1, Makes
<1>18. header \in D /\ header \in DOMAIN blocks' /\ body \in DOMAIN blocks'
  BY <1>11, <1>13
<1> HIDE DEF D, H
<1>19. Graph(started, D, H)
  <2>1. Jump(header) \in Terminator /\ Targets(Jump(header)) \subseteq D
    BY <1>11, <1>18, TermsTyped
  <2> QED
    BY <1>8, <1>17, <2>1, Closes
<1> HIDE DEF started
<1>20. Graph(headed, D, H \cup {header}) /\ DOMAIN headed = DOMAIN blocks'
  <2>1. header \in DOMAIN started
    BY <1>11, <1>12
  <2>2. DOMAIN headed = DOMAIN started
    BY EmitFrames
  <2> QED
    BY <1>9, <1>12, <1>13, <1>19, <2>1, <2>2, Heads1
<1> HIDE DEF headed
<1>21. Graph(blocks', D, H \cup {header})
  <2>1. ScopePush(scoped) \in Seq(Sound)
    BY SafeOrNot, ScopesSound
  <2> HIDE DEF scoped
  <2> QED
    BY <1>4, <1>18, <1>20, <2>1, Emits
<1>22. Shaped'
  <2>1. Heads(Range(agenda')) = H \cup {header}
    BY <1>15, <1>17
  <2> QED
    BY <1>21, <2>1 DEF Shaped, D
<1>23. Nested'
  <2>1. Loop(inc, exit, scoped) \in [cont : DOMAIN blocks', brk : DOMAIN blocks', scoped : BOOLEAN]
    BY <1>11, <1>13, SafeOrNot DEF Loop
  <2> HIDE DEF scoped
  <2> QED
    BY <1>1, <1>4, <1>17, <2>1 DEF Nested
<1>24. Scoped'
  BY <1>4, <1>5, BoundScoped DEF LowerInv
<1>25. Numbered' /\ Placed' /\ Promised'
  BY <1>1, <1>4, <1>5, <1>11, <1>17, <1>18 DEF LowerInv, Numbered, Placed, Promised
<1> QED
  BY <1>17, <1>22, <1>23, <1>24, <1>25 DEF LowerInv

LEMMA BeginRegionKeeps == ASSUME LowerInv, BeginRegion PROVE LowerInv'
<1> DEFINE first == nextValue
           once == nextValue + 1
           header == nextBlock
           pre == nextBlock + 1
           back == nextBlock + 2
           body == nextBlock + 3
           exit == nextBlock + 4
           ids == header..exit
           code == Runtime("__err_enter", NoValue) \o <<Copy(first, Constant(Integer(1)))>>
           guard == <<Copy(once, Value(first)), Copy(first, Constant(Integer(0)))>>
           reserved == Reserve(blocks, ids)
           entered == Close(reserved, current, code, Jump(header))
           headed == End(entered, header, Branch(Value(first), pre, exit))
           guarded == Close(headed, pre, guard, Branch(Value(once), body, back))
           D == DOMAIN blocks' \cup Elses(Range(agenda'))
           H == Heads(Rest)
<1>1. /\ agenda # <<>> /\ Head(agenda).do = "stmt"
      /\ blocks' = End(guarded, back, Jump(header))
      /\ regions' = Append(regions, [exit |-> exit, depth |-> Len(loops)])
      /\ current' = body
      /\ nextBlock' = nextBlock + 5
      /\ nextValue' = nextValue + 2
      /\ Then(<<>>)
      /\ UNCHANGED <<scope, loops, ensures>>
  BY DEF BeginRegion, On, Doing
<1>2. nextBlock \in Nat /\ nextValue \in Nat \ {0}
  BY DEF LowerInv, Numbered
<1>3. /\ nextBlock' \in Nat /\ nextBlock <= nextBlock' /\ ids \subseteq nextBlock..(nextBlock' - 1)
      /\ header \in ids /\ pre \in ids /\ back \in ids /\ body \in ids /\ exit \in ids
      /\ header \in Int /\ pre \in Int /\ back \in Int /\ body \in Int /\ exit \in Int
  BY <1>1, <1>2
<1>4. first \in Nat \ {0} /\ once \in Nat \ {0} /\ nextValue + 2 \in Nat \ {0}
  BY <1>2
<1> HIDE DEF first, once, header, pre, back, body, exit, ids
<1>5. DOMAIN blocks' = DOMAIN blocks \cup ids
  <2>1. DOMAIN reserved = DOMAIN blocks \cup ids
    BY ReserveFrames
  <2> HIDE DEF reserved
  <2>2. DOMAIN entered = DOMAIN reserved
    BY CloseFrames
  <2> HIDE DEF entered
  <2>3. DOMAIN headed = DOMAIN entered
    BY EndFrames
  <2> HIDE DEF headed
  <2>4. DOMAIN guarded = DOMAIN headed
    BY CloseFrames
  <2> HIDE DEF guarded
  <2> QED
    BY <1>1, <2>1, <2>2, <2>3, <2>4, EndFrames
<1>6. /\ Listed' /\ Heads(Range(agenda')) = H /\ Graph(reserved, D, H)
      /\ DOMAIN reserved = DOMAIN blocks' /\ current \in DOMAIN blocks' \cup {NoBlock}
      /\ DOMAIN blocks' \subseteq 0..(nextBlock' - 1) /\ Entry \in DOMAIN blocks'
      /\ loops \in Seq([cont : DOMAIN blocks', brk : DOMAIN blocks', scoped : BOOLEAN])
      /\ regions \in Seq([exit : DOMAIN blocks', depth : Nat])
  <2>1. Head(agenda).do # "then_end"
    BY <1>1
  <2> QED
    BY <1>1, <1>3, <1>5, <2>1, MakesPlain
<1>7. ids \subseteq D /\ ids \subseteq DOMAIN blocks'
  BY <1>5
<1> HIDE DEF reserved, D, H
<1>8. /\ Value(first) \in Operand /\ Value(once) \in Operand
      /\ Constant(Integer(0)) \in Operand /\ Constant(Integer(1)) \in Operand
  BY <1>4, OperandsTyped, ConstantsTyped
<1>9. code \in Seq(Sound) /\ guard \in Seq(Sound)
  <2>1. "__err_enter" \in STRING /\ "" \in STRING
    BY NamesAssumption
  <2>2. Runtime("__err_enter", NoValue) \in Seq(Sound)
    BY <2>1, Numbers, RuntimeSound
  <2>3. /\ Copy(first, Constant(Integer(1))) \in Sound
        /\ Copy(once, Value(first)) \in Sound /\ Copy(first, Constant(Integer(0))) \in Sound
    BY <1>4, <1>8, <2>1, InstructionsSound
  <2>4. <<Copy(first, Constant(Integer(1)))>> \in Seq(Sound) /\ guard \in Seq(Sound)
    BY <2>3, Single, Pair
  <2> QED
    BY <2>2, <2>4
<1> HIDE DEF code, guard
<1>10. /\ Jump(header) \in Terminator /\ Targets(Jump(header)) \subseteq D
       /\ Branch(Value(first), pre, exit) \in Terminator
       /\ Targets(Branch(Value(first), pre, exit)) \subseteq D
       /\ Branch(Value(once), body, back) \in Terminator
       /\ Targets(Branch(Value(once), body, back)) \subseteq D
  BY <1>3, <1>7, <1>8, TermsTyped, BranchTyped
<1>11. Graph(entered, D, H) /\ DOMAIN entered = DOMAIN blocks'
  <2>1. DOMAIN entered = DOMAIN reserved
    BY CloseFrames
  <2>2. current \in DOMAIN reserved \cup {NoBlock}
    BY <1>6
  <2>3. Graph(entered, D, H)
    BY <1>6, <1>9, <1>10, <2>2, Closes
  <2> QED
    BY <1>6, <2>1, <2>3
<1> HIDE DEF entered
<1>12. Graph(headed, D, H) /\ DOMAIN headed = DOMAIN blocks'
  <2>1. header \in DOMAIN entered
    BY <1>3, <1>7, <1>11
  <2> QED
    BY <1>10, <1>11, <2>1, GraphEnds, EndFrames
<1> HIDE DEF headed
<1>13. Graph(guarded, D, H) /\ DOMAIN guarded = DOMAIN blocks'
  <2>1. pre \in DOMAIN headed
    BY <1>3, <1>7, <1>12
  <2> QED
    BY <1>9, <1>10, <1>12, <2>1, Closes, CloseFrames
<1> HIDE DEF guarded
<1>14. Graph(blocks', D, H)
  <2>1. back \in DOMAIN guarded
    BY <1>3, <1>7, <1>13
  <2> QED
    BY <1>1, <1>10, <1>13, <2>1, GraphEnds
<1>15. Shaped'
  BY <1>6, <1>14 DEF Shaped, D
<1>16. Nested'
  <2>1. [exit |-> exit, depth |-> Len(loops)] \in [exit : DOMAIN blocks', depth : Nat]
    BY <1>3, <1>6, <1>7
  <2> QED
    BY <1>1, <1>6, <2>1 DEF Nested
<1>17. Numbered' /\ Placed' /\ Scoped' /\ Promised'
  BY <1>1, <1>3, <1>4, <1>6, <1>7 DEF LowerInv, Numbered, Placed, Scoped, Promised
<1> QED
  BY <1>6, <1>15, <1>16, <1>17 DEF LowerInv
-----------------------------------------------------------------------------
\* The points a function begins with.
LEMMA BodyBegins ==
  ASSUME NEW p \in Programs
  PROVE  BodyItems(p) \in Seq(Tasks) /\ Blockless(Range(BodyItems(p)))
<1>1. p.body \in Seq(Statements)
  BY ProgramsAssumption
<1>2. p.body \in Seq(Syntax)
  <2>1. Statements \subseteq Syntax
    BY StatementsAssumption DEF Syntax
  <2> QED
    BY <1>1, <2>1, SeqsGrow
<1> DEFINE body == p.body
<1>3. body \in Seq(Syntax)
  BY <1>2
<1> HIDE DEF body
<1>4. CASE BodyItems(p) = Points(body)
  BY <1>3, <1>4, PointsPlain
<1>5. CASE body # <<>> /\ BodyItems(p) = Points(Front(body)) \o <<Point("auto", Last(body), <<>>)>>
  <2> DEFINE front == Points(Front(body))
             auto == Point("auto", Last(body), <<>>)
  <2>1. front \in Seq(Tasks) /\ Blockless(Range(front))
    BY <1>3, FrontIn, PointsPlain
  <2>2. Last(body) \in Syntax /\ <<>> \in Seq(Int)
    BY <1>3, <1>5, LastIn
  <2>3. auto \in Tasks /\ auto.do = "auto"
    BY <2>2 DEF Point, Tasks, Doings
  <2> HIDE DEF front, auto
  <2>4. <<auto>> \in Seq(Tasks) /\ Range(<<auto>>) = {auto}
    BY <2>3, Single DEF Range
  <2>5. front \o <<auto>> \in Seq(Tasks) /\ Range(front \o <<auto>>) = Range(front) \cup {auto}
    BY <2>1, <2>4, TasksJoin
  <2>6. Blockless(Range(front \o <<auto>>))
    BY <2>1, <2>3, <2>5 DEF Blockless
  <2> QED
    BY <1>5, <2>5, <2>6 DEF front, auto
<1> QED
  BY <1>4, <1>5 DEF BodyItems, body

LEMMA AgendaBegins ==
  ASSUME NEW p \in Programs
  PROVE  LET begun == BodyItems(p) \o Tests(p.rules) \o <<Point("finish", Break, <<>>)>>
         IN begun \in Seq(Tasks) /\ begun # <<>> /\ Blockless(Range(begun))
<1> DEFINE body == BodyItems(p)
           rules == Tests(p.rules)
           finish == Point("finish", Break, <<>>)
           begun == body \o rules \o <<finish>>
<1>1. body \in Seq(Tasks) /\ Blockless(Range(body))
  BY BodyBegins
<1>2. rules \in Seq(Tasks) /\ Blockless(Range(rules))
  <2>1. p.rules \in Seq(Expressions)
    BY ProgramsAssumption
  <2> QED
    BY <2>1, TestsPlain
<1>3. finish \in Tasks /\ finish.do = "finish"
  <2>1. NoExpr \in Expressions /\ "" \in STRING
    BY ConditionsTyped, NamesAssumption
  <2>2. <<>> \in Seq(Statements)
    OBVIOUS
  <2>3. Break \in Syntax
    <3>1. "break" \in Kinds
      BY DEF Kinds
    <3> QED
      BY <2>1, <2>2, <3>1 DEF Break, Stmt, Syntax
  <2> QED
    BY <2>3 DEF Point, Tasks, Doings
<1> HIDE DEF body, rules, finish
<1>4. <<finish>> \in Seq(Tasks) /\ Range(<<finish>>) = {finish}
  BY <1>3, Single DEF Range
<1>5. body \o rules \in Seq(Tasks) /\ Range(body \o rules) = Range(body) \cup Range(rules)
  BY <1>1, <1>2, TasksJoin
<1>6. begun \in Seq(Tasks) /\ Range(begun) = Range(body) \cup Range(rules) \cup {finish}
  BY <1>4, <1>5, TasksJoin
<1>7. begun # <<>>
  <2> HIDE DEF begun
  <2>1. finish \in Range(begun)
    BY <1>6
  <2> QED
    BY <2>1 DEF Range
<1>8. Blockless(Range(begun))
  BY <1>1, <1>2, <1>3, <1>6 DEF Blockless
<1> QED
  BY <1>6, <1>7, <1>8 DEF body, rules, finish

LEMMA LowerBegins == LowerInit => LowerInv /\ ~Built /\ program \in Programs
<1> SUFFICES ASSUME LowerInit PROVE LowerInv /\ ~Built /\ program \in Programs
  OBVIOUS
<1>1. /\ program \in Programs /\ current = Entry /\ blocks = [b \in {Entry} |-> Fresh]
      /\ nextBlock = 1 /\ nextValue = Len(program.params) + 1
      /\ loops = <<>> /\ regions = <<>> /\ ensures = program.invariants
  BY DEF LowerInit
<1>2. program.params \in Seq(STRING) /\ program.invariants \in Seq(Expressions)
  BY <1>1, ProgramsAssumption
<1>3. agenda \in Seq(Tasks) /\ agenda # <<>> /\ Blockless(Range(agenda))
  BY <1>1, AgendaBegins DEF LowerInit
<1>4. /\ Elses(Range(agenda)) = {} /\ Heads(Range(agenda)) = {}
      /\ \A q \in Range(agenda) : Ready(q, DOMAIN blocks, nextBlock)
  BY <1>3, PlainPoints
<1>5. Listed
  BY <1>3, <1>4 DEF Listed
<1>6. Numbered /\ Placed
  BY <1>1, <1>2, Numbers DEF Numbered, Placed
<1>7. Shaped
  <2>1. Fresh \in SoundBlock /\ Targets(Fresh.term) = {}
    <3>1. <<>> \in Seq(Sound)
      OBVIOUS
    <3> QED
      BY <3>1, TermsTyped, OperandsTyped, ConstantsTyped, Numbers DEF Fresh, SoundBlock
  <2> QED
    BY <1>1, <1>4, <2>1, Numbers DEF Shaped, Graph
<1>8. Scoped
  <2>1. scope = [x \in Range(program.params) |->
                   CHOOSE v \in DOMAIN program.params : program.params[v] = x]
    BY DEF LowerInit
  <2>2. \A x \in Range(program.params) :
          (CHOOSE v \in DOMAIN program.params : program.params[v] = x) \in DOMAIN program.params
    BY DEF Range
  <2>3. DOMAIN program.params \subseteq Nat \ {0}
    BY <1>2
  <2> QED
    BY <2>1, <2>2, <2>3 DEF Scoped
<1>9. Nested /\ Promised
  BY <1>1, <1>2 DEF Nested, Promised
<1> QED
  BY <1>1, <1>3, <1>5, <1>6, <1>7, <1>8, <1>9 DEF LowerInv, Built

\* A step of the builder has a point to work on, and keeps the invariant.
LEMMA LowerStep == ASSUME LowerInv, LowerNext PROVE LowerInv'
<1>1. CASE BuildDeclaration
  BY <1>1, BuildDeclarationKeeps
<1>2. CASE BuildAssignment
  BY <1>2, BuildAssignmentKeeps
<1>3. CASE BuildPrint
  BY <1>3, BuildPrintKeeps
<1>4. CASE BuildExpression
  BY <1>4, BuildExpressionKeeps
<1>5. CASE AutoReturn
  BY <1>5, AutoReturnKeeps
<1>6. CASE BuildReturn
  BY <1>6, BuildReturnKeeps
<1>7. CASE EndReturn
  BY <1>7, EndReturnKeeps
<1>8. CASE BuildJump
  BY <1>8, BuildJumpKeeps
<1>9. CASE BuildEnsure
  BY <1>9, BuildEnsureKeeps
<1>10. CASE BuildTest
  BY <1>10, BuildTestKeeps
<1>11. CASE BuildIf
  BY <1>11, BuildIfKeeps
<1>12. CASE EndThen
  BY <1>12, EndThenKeeps
<1>13. CASE EndElse
  BY <1>13, EndElseKeeps
<1>14. CASE BuildWhile
  BY <1>14, BuildWhileKeeps
<1>15. CASE EndWhile
  BY <1>15, EndWhileKeeps
<1>16. CASE BuildFor
  BY <1>16, BuildForKeeps
<1>17. CASE EndFor
  BY <1>17, EndForKeeps
<1>18. CASE BuildRange
  BY <1>18, BuildRangeKeeps
<1>19. CASE EndRange
  BY <1>19, EndRangeKeeps
<1>20. CASE BuildOnError
  BY <1>20, BuildOnErrorKeeps
<1>21. CASE BeginRegion
  BY <1>21, BeginRegionKeeps
<1>22. CASE EndRegion
  BY <1>22, EndRegionKeeps
<1>23. CASE Finish
  BY <1>23, FinishKeeps
<1> QED
  BY <1>1, <1>2, <1>3, <1>4, <1>5, <1>6, <1>7, <1>8, <1>9, <1>10, <1>11, <1>12, <1>13, <1>14,
     <1>15, <1>16, <1>17, <1>18, <1>19, <1>20, <1>21, <1>22, <1>23 DEF LowerNext

LEMMA NotBuilt == LowerNext => ~Built
  BY DEF LowerNext, Built, BuildDeclaration, BuildAssignment, BuildPrint, BuildExpression,
         AutoReturn, BuildReturn, EndReturn, BuildJump, BuildEnsure, BuildTest, BuildIf, EndThen,
         EndElse, BuildWhile, EndWhile, BuildFor, EndFor, BuildRange, EndRange, BuildOnError,
         BeginRegion, EndRegion, Finish, On, Doing

\* When nothing is left to do, no jump goes to a block that is only numbered.
LEMMA Complete == LowerInv /\ Built => WellFormed(blocks)
<1> SUFFICES ASSUME LowerInv, Built PROVE WellFormed(blocks)
  OBVIOUS
<1>1. Range(agenda) = {}
  BY DEF Built, Range
<1>2. Elses(Range(agenda)) = {}
  BY <1>1 DEF Elses
<1>3. Graph(blocks, DOMAIN blocks, Heads(Range(agenda)))
  BY <1>2 DEF LowerInv, Shaped
<1>4. Entry \in DOMAIN blocks
  BY DEF LowerInv, Placed
<1>5. SoundBlock \subseteq Block
  <2>1. Sound \subseteq Instruction
    BY DEF Sound
  <2>2. Seq(Sound) \subseteq Seq(Instruction)
    BY <2>1, SeqsGrow
  <2> QED
    BY <2>2 DEF SoundBlock, Block
<1>6. \A b \in DOMAIN blocks : \A i \in Range(blocks[b].code) : i \in Sound
  BY <1>3 DEF Graph, SoundBlock, Range
<1> QED
  BY <1>3, <1>4, <1>5, <1>6 DEF WellFormed, Graph, Sound

-----------------------------------------------------------------------------
\* What an instruction makes of the number of regions, and the number along some code, from
\* n before it to m behind it: D is the number with which blocks are entered, the handlers
\* that checks leave for included.
Effect(i) ==
  IF i.op # "call" THEN 0
  ELSE IF i.sym = "__err_enter" THEN 1 ELSE IF i.sym = "__err_leave" THEN -1 ELSE 0
Hands(i, D, n) == i.exit # NoBlock => i.exit \in DOMAIN D /\ D[i.exit] = n

Paces(code, D, w) ==
  \A k \in 1..Len(code) : w[k] = w[k - 1] + Effect(code[k]) /\ Hands(code[k], D, w[k])
Walk(code, D, n, m) ==
  \E w \in [0..Len(code) -> Int] : w[0] = n /\ w[Len(code)] = m /\ Paces(code, D, w)

\* Instructions that leave the number as it is.
Even(D, n) == {i \in Sound : Effect(i) = 0 /\ Hands(i, D, n)}
Extends(E, D) == DOMAIN D \subseteq DOMAIN E /\ \A b \in DOMAIN D : E[b] = D[b]

LEMMA WalkNowhere == \A D, n : n \in Int => Walk(<<>>, D, n, n)
<1> SUFFICES ASSUME NEW D, NEW n \in Int PROVE Walk(<<>>, D, n, n)
  OBVIOUS
<1> DEFINE w == [k \in 0..Len(<<>>) |-> n]
<1>1. w \in [0..Len(<<>>) -> Int] /\ w[0] = n /\ w[Len(<<>>)] = n /\ Paces(<<>>, D, w)
  BY DEF Paces
<1> QED
  BY <1>1 DEF Walk

LEMMA WalkEven ==
  ASSUME NEW D, NEW n \in Int, NEW code \in Seq(Even(D, n))
  PROVE  Walk(code, D, n, n)
<1> DEFINE w == [k \in 0..Len(code) |-> n]
<1>1. Len(code) \in Nat /\ \A k \in 1..Len(code) : code[k] \in Even(D, n)
  OBVIOUS
<1>2. w \in [0..Len(code) -> Int] /\ w[0] = n /\ w[Len(code)] = n
  BY <1>1
<1>3. Paces(code, D, w)
  <2> SUFFICES ASSUME NEW k \in 1..Len(code)
               PROVE  w[k] = w[k - 1] + Effect(code[k]) /\ Hands(code[k], D, w[k])
    BY DEF Paces
  <2>1. w[k] = n /\ w[k - 1] = n
    BY <1>1
  <2>2. Effect(code[k]) = 0 /\ Hands(code[k], D, n)
    BY <1>1 DEF Even
  <2> HIDE DEF w
  <2> QED
    BY <2>1, <2>2
<1> HIDE DEF w
<1> QED
  BY <1>2, <1>3 DEF Walk

LEMMA WalkOn ==
  ASSUME NEW S, NEW c \in Seq(S), NEW d \in Seq(S), NEW D, NEW n, NEW m, NEW p,
         Walk(c, D, n, m), Walk(d, D, m, p)
  PROVE  Walk(c \o d, D, n, p)
<1>1. PICK v \in [0..Len(c) -> Int] : v[0] = n /\ v[Len(c)] = m /\ Paces(c, D, v)
  BY DEF Walk
<1>2. PICK u \in [0..Len(d) -> Int] : u[0] = m /\ u[Len(d)] = p /\ Paces(d, D, u)
  BY DEF Walk
<1> DEFINE w == [k \in 0..(Len(c) + Len(d)) |-> IF k <= Len(c) THEN v[k] ELSE u[k - Len(c)]]
<1>3. /\ Len(c) \in Nat /\ Len(d) \in Nat /\ Len(c \o d) = Len(c) + Len(d)
      /\ \A k \in 1..Len(c) : (c \o d)[k] = c[k]
      /\ \A k \in (Len(c) + 1)..(Len(c) + Len(d)) : (c \o d)[k] = d[k - Len(c)]
  OBVIOUS
<1>4. \A k \in 0..(Len(c) + Len(d)) : w[k] = IF k <= Len(c) THEN v[k] ELSE u[k - Len(c)]
  OBVIOUS
<1>5. w \in [0..Len(c \o d) -> Int]
  <2>1. ASSUME NEW k \in 0..(Len(c) + Len(d))
        PROVE  (IF k <= Len(c) THEN v[k] ELSE u[k - Len(c)]) \in Int
    <3>1. CASE k <= Len(c)
      <4>1. k \in 0..Len(c)
        BY <1>3, <3>1
      <4> QED
        BY <1>1, <3>1, <4>1
    <3>2. CASE ~(k <= Len(c))
      <4>1. k - Len(c) \in 0..Len(d)
        BY <1>3, <3>2
      <4> QED
        BY <1>2, <3>2, <4>1
    <3> QED
      BY <3>1, <3>2
  <2> QED
    BY <1>3, <2>1
<1> HIDE DEF w
<1>8. \A k \in 0..Len(d) : w[Len(c) + k] = u[k]
  <2> SUFFICES ASSUME NEW k \in 0..Len(d) PROVE w[Len(c) + k] = u[k]
    OBVIOUS
  <2>1. CASE k = 0
    <3>1. Len(c) \in 0..(Len(c) + Len(d)) /\ Len(c) <= Len(c)
      BY <1>3
    <3>2. w[Len(c)] = v[Len(c)]
      BY <1>4, <3>1
    <3> QED
      BY <1>1, <1>2, <1>3, <2>1, <3>2
  <2>2. CASE k # 0
    BY <1>3, <1>4, <2>2
  <2> QED
    BY <2>1, <2>2
<1>6. w[0] = n /\ w[Len(c \o d)] = p
  <2>1. w[0] = n
    <3>1. 0 \in 0..(Len(c) + Len(d)) /\ 0 <= Len(c)
      BY <1>3
    <3>2. w[0] = v[0]
      BY <1>4, <3>1
    <3> QED
      BY <1>1, <3>2
  <2> QED
    BY <1>2, <1>3, <1>8, <2>1
<1>7. Paces(c \o d, D, w)
  <2> SUFFICES ASSUME NEW k \in 1..Len(c \o d)
               PROVE  w[k] = w[k - 1] + Effect((c \o d)[k]) /\ Hands((c \o d)[k], D, w[k])
    BY DEF Paces
  <2>1. CASE k <= Len(c)
    <3>1. k \in 1..Len(c) /\ w[k] = v[k] /\ w[k - 1] = v[k - 1] /\ (c \o d)[k] = c[k]
      <4>1. /\ k \in 1..Len(c) /\ k \in 0..(Len(c) + Len(d)) /\ k - 1 \in 0..(Len(c) + Len(d))
            /\ k - 1 <= Len(c)
        BY <1>3, <2>1
      <4>2. w[k] = v[k] /\ w[k - 1] = v[k - 1]
        BY <1>4, <2>1, <4>1
      <4> QED
        BY <1>3, <4>1, <4>2
    <3> QED
      BY <1>1, <3>1 DEF Paces
  <2>2. CASE k > Len(c)
    <3> DEFINE j == k - Len(c)
    <3>1. j \in 1..Len(d) /\ j - 1 \in 0..Len(d) /\ k = Len(c) + j /\ k - 1 = Len(c) + (j - 1)
      BY <1>3, <2>2
    <3> HIDE DEF j
    <3>2. w[k] = u[j] /\ w[k - 1] = u[j - 1]
      BY <1>8, <3>1
    <3>3. (c \o d)[k] = d[j]
      BY <1>3, <3>1
    <3> QED
      BY <1>2, <3>1, <3>2, <3>3 DEF Paces
  <2> QED
    BY <1>3, <2>1, <2>2
<1> QED
  BY <1>5, <1>6, <1>7 DEF Walk

LEMMA WalkStays ==
  ASSUME NEW code, NEW D, NEW E, Extends(E, D), NEW n, NEW m, Walk(code, D, n, m)
  PROVE  Walk(code, E, n, m)
<1>1. PICK w \in [0..Len(code) -> Int] : w[0] = n /\ w[Len(code)] = m /\ Paces(code, D, w)
  BY DEF Walk
<1>2. Paces(code, E, w)
  BY <1>1 DEF Paces, Hands, Extends
<1> QED
  BY <1>1, <1>2 DEF Walk

LEMMA EvenStays ==
  ASSUME NEW D, NEW E, Extends(E, D), NEW n
  PROVE  Even(D, n) \subseteq Even(E, n)
  BY DEF Even, Hands, Extends

\* Entering a region, and leaving some.
LEMMA WalkIn ==
  ASSUME NEW D, NEW n \in Int
  PROVE  Walk(Runtime("__err_enter", NoValue), D, n, n + 1)
<1> DEFINE code == Runtime("__err_enter", NoValue)
           w == [k \in 0..1 |-> IF k = 0 THEN n ELSE n + 1]
<1>1. Len(code) = 1 /\ Effect(code[1]) = 1 /\ code[1].exit = NoBlock
  BY DEF Runtime, Call, Instr, Effect
<1>2. w \in [0..1 -> Int] /\ w[0] = n /\ w[1] = n + 1
  OBVIOUS
<1> HIDE DEF code, w
<1>3. Paces(code, D, w)
  BY <1>1, <1>2 DEF Paces, Hands
<1>4. Walk(code, D, n, n + 1)
  BY <1>1, <1>2, <1>3 DEF Walk
<1> QED
  BY <1>4 DEF code

LEMMA WalkOut ==
  ASSUME NEW D, NEW n \in Int, NEW k \in Nat
  PROVE  Walk(Leave(k), D, n, n - k)
<1> DEFINE code == Leave(k)
           w == [j \in 0..k |-> n - j]
<1>1. /\ Len(code) = k
      /\ \A j \in 1..k : Effect(code[j]) = -1 /\ code[j].exit = NoBlock
  BY DEF Leave, Call, Instr, Effect
<1>2. w \in [0..k -> Int] /\ w[0] = n /\ w[k] = n - k /\ \A j \in 1..k : w[j] = w[j - 1] + (-1)
  OBVIOUS
<1> HIDE DEF code, w
<1>3. Paces(code, D, w)
  BY <1>1, <1>2 DEF Paces, Hands
<1>4. Walk(code, D, n, n - k)
  BY <1>1, <1>2, <1>3 DEF Walk
<1> QED
  BY <1>4 DEF code

LEMMA WalkOutOne ==
  ASSUME NEW D, NEW n \in Int
  PROVE  Walk(Runtime("__err_leave", NoValue), D, n, n - 1)
<1>1. Runtime("__err_leave", NoValue) = Leave(1)
  BY DEF Runtime, Leave
<1> QED
  BY <1>1, WalkOut

\* What an expression comes to is even, where its checks leave for the innermost region.
LEMMA EvenInstructions ==
  ASSUME NEW D, NEW n, NEW i \in Sound, i.op # "call", i.exit = NoBlock
  PROVE  i \in Even(D, n)
  BY DEF Even, Effect, Hands

LEMMA EvenCalls ==
  ASSUME NEW D, NEW n, NEW f \in STRING, f \notin {"__err_enter", "__err_leave"}, NEW d \in Nat
  PROVE  Runtime(f, d) \in Seq(Even(D, n))
<1>1. <<>> \in Seq(Operand)
  OBVIOUS
<1>2. Call(f, d, <<>>) \in Sound
  BY <1>1, CallsSound
<1>3. Call(f, d, <<>>) \in Even(D, n)
  BY <1>2 DEF Even, Effect, Hands, Call, Instr
<1> QED
  BY <1>3, Single DEF Runtime

LEMMA EvenScopes ==
  ASSUME NEW D, NEW n, NEW scoped \in BOOLEAN
  PROVE  ScopePush(scoped) \in Seq(Even(D, n)) /\ ScopePop(scoped) \in Seq(Even(D, n))
<1>1. "mem_scope_push" \in STRING /\ "mem_scope_pop" \in STRING
  BY NamesAssumption
<1>2. NoValue \in Nat
  BY Numbers
<1>3. /\ Runtime("mem_scope_push", NoValue) \in Seq(Even(D, n))
      /\ Runtime("mem_scope_pop", NoValue) \in Seq(Even(D, n))
  BY <1>1, <1>2, EvenCalls
<1>4. <<>> \in Seq(Even(D, n))
  OBVIOUS
<1> QED
  BY <1>3, <1>4 DEF ScopePush, ScopePop

LEMMA EvenChecked ==
  ASSUME Nested, Numbered, NEW D, NEW n, InnerExit # NoBlock => InnerExit \in DOMAIN D /\ D[InnerExit] = n,
         NEW f \in STRING, f \notin {"__err_enter", "__err_leave"}, NEW d \in Nat,
         NEW args \in Seq(Operand)
  PROVE  Calls(f, d, args) \in Seq(Even(D, n))
<1>1. Call(f, d, args) \in Sound
  BY CallsSound
<1>2. ErrorCheck(InnerExit) \in Sound
  BY InnerExitTyped, ChecksSound
<1>3. Call(f, d, args) \in Even(D, n)
  BY <1>1 DEF Even, Effect, Hands, Call, Instr
<1>4. ErrorCheck(InnerExit) \in Even(D, n)
  BY <1>2 DEF Even, Effect, Hands, ErrorCheck, Instr
<1> QED
  BY <1>3, <1>4, Pair DEF Calls

LEMMA EvenAtoms ==
  ASSUME Scoped, NEW a \in Atoms, Named(a) => a.name \in DOMAIN scope, NEW k \in Nat \ {0},
         NEW D, NEW n
  PROVE  AtomFrom(a, k).code \in Seq(Even(D, n))
<1>1. CASE Named(a)
  <2>1. <<>> \in Seq(Even(D, n))
    OBVIOUS
  <2> QED
    BY <1>1, <2>1 DEF AtomFrom, Comes
<1>2. CASE ~Named(a)
  <2>1. Constant(a.const) \in Operand
    BY OperandsTyped DEF Atoms
  <2>2. Copy(k, Constant(a.const)) \in Sound
    BY <2>1, NamesAssumption, InstructionsSound
  <2>3. Copy(k, Constant(a.const)) \in Even(D, n)
    BY <2>2, EvenInstructions DEF Copy, Instr
  <2> QED
    BY <1>2, <2>3, Single DEF AtomFrom, Comes
<1> QED
  BY <1>1, <1>2

LEMMA EvenExpressions ==
  ASSUME Scoped, Nested, Numbered, NEW e \in Expressions, Resolved(e), Fair(e), NEW k \in Nat \ {0},
         NEW D, NEW n,
         e.kind = "call" /\ InnerExit # NoBlock => InnerExit \in DOMAIN D /\ D[InnerExit] = n
  PROVE  LowerFrom(e, k).code \in Seq(Even(D, n))
<1> DEFINE l == AtomFrom(e.left, k)
           r == AtomFrom(e.right, l.next)
           S == Even(D, n)
<1>1. e.left \in Atoms /\ e.right \in Atoms /\ e.sym \in STRING
  BY DEF Expressions
<1>2. l \in Outcomes
  BY <1>1, AtomComes DEF Resolved
<1>3. l.next \in Nat \ {0} /\ l.value \in Nat
  BY <1>2 DEF Outcomes
<1>4. r \in Outcomes
  BY <1>1, <1>3, AtomComes DEF Resolved
<1>5. r.next \in Nat \ {0} /\ r.value \in Nat
  BY <1>4 DEF Outcomes
<1>6. l.code \in Seq(S) /\ r.code \in Seq(S)
  BY <1>1, <1>3, EvenAtoms DEF Resolved
<1> DEFINE binary == l.code \o r.code
                       \o <<BinaryOp(e.sym, r.next, Value(l.value), Value(r.value))>>
           unary  == l.code \o <<Instr("unary", l.next, <<Value(l.value)>>, e.sym, NoBlock)>>
           opaque == <<Instr("opaque", k, <<>>, e.sym, NoBlock)>>
<1>7. /\ LowerFrom(e, k) =
           CASE e.kind = "atom" -> l
             [] e.kind = "binary" -> Comes(binary, r.next, r.next + 1)
             [] e.kind = "unary" -> Comes(unary, l.next, l.next + 1)
             [] e.kind = "call" -> Comes(Calls(e.sym, k, <<>>), k, k + 1)
             [] e.kind = "take" -> Comes(Runtime(e.sym, k), k, k + 1)
             [] e.kind = "opaque" -> Comes(opaque, k, k + 1)
             [] OTHER -> Comes(<<>>, NoValue, k)
  BY DEF LowerFrom
<1> HIDE DEF l, r, S
<1>8. Value(l.value) \in Operand /\ Value(r.value) \in Operand
  BY <1>3, <1>5, OperandsTyped
<1>9. /\ BinaryOp(e.sym, r.next, Value(l.value), Value(r.value)) \in Sound
      /\ Instr("unary", l.next, <<Value(l.value)>>, e.sym, NoBlock) \in Sound
      /\ Instr("opaque", k, <<>>, e.sym, NoBlock) \in Sound
  BY <1>1, <1>3, <1>5, <1>8, InstructionsSound
<1>10. /\ BinaryOp(e.sym, r.next, Value(l.value), Value(r.value)) \in S
       /\ Instr("unary", l.next, <<Value(l.value)>>, e.sym, NoBlock) \in S
       /\ Instr("opaque", k, <<>>, e.sym, NoBlock) \in S
  BY <1>9, EvenInstructions DEF BinaryOp, Instr, S
<1>11. binary \in Seq(S) /\ unary \in Seq(S) /\ opaque \in Seq(S)
  BY <1>6, <1>10
<1>12. <<>> \in Seq(Operand) /\ <<>> \in Seq(S)
  OBVIOUS
<1>13. k \in Nat /\ e.sym \notin {"__err_enter", "__err_leave"}
  BY DEF Fair
<1>14. Runtime(e.sym, k) \in Seq(S)
  BY <1>1, <1>13, EvenCalls DEF S
<1>15. e.kind = "call" => Calls(e.sym, k, <<>>) \in Seq(S)
  BY <1>1, <1>12, <1>13, EvenChecked DEF S
<1> HIDE DEF binary, unary, opaque
<1>16. \A code, v, m : Comes(code, v, m).code = code
  BY DEF Comes
<1>17. LowerFrom(e, k).code \in Seq(S)
  <2>1. CASE e.kind = "call"
    BY <1>7, <1>15, <1>16, <2>1
  <2>2. CASE e.kind # "call"
    <3>1. \/ LowerFrom(e, k) = l
          \/ \E c \in {binary, unary, Runtime(e.sym, k), opaque, <<>>} : \E v, m :
               LowerFrom(e, k) = Comes(c, v, m)
      BY <1>7, <2>2
    <3>2. CASE LowerFrom(e, k) = l
      BY <1>6, <3>2
    <3>3. ASSUME NEW c \in {binary, unary, Runtime(e.sym, k), opaque, <<>>}, NEW v, NEW m,
                 LowerFrom(e, k) = Comes(c, v, m)
          PROVE  LowerFrom(e, k).code \in Seq(S)
      <4>1. LowerFrom(e, k).code = c
        BY <1>16, <3>3
      <4> QED
        BY <1>11, <1>12, <1>14, <3>3, <4>1
    <3> QED
      BY <3>1, <3>2, <3>3
  <2> QED
    BY <2>1, <2>2
<1> QED
  BY <1>17 DEF S

-----------------------------------------------------------------------------
\* The levels of the blocks.  Block b is entered in D[b] regions and left in M[b].
Leads(term, D, m) ==
  /\ \A t \in Targets(term) : t \in DOMAIN D /\ D[t] = m
  /\ term.kind = "return" => m = 0
Levels(bs, D, M) ==
  /\ bs \in [DOMAIN bs -> SoundBlock]
  /\ D \in [DOMAIN D -> Int] /\ M \in [DOMAIN D -> Int]
  /\ Entry \in DOMAIN bs /\ DOMAIN bs \subseteq DOMAIN D /\ D[Entry] = 0 /\ NoBlock \notin DOMAIN D
  /\ \A b \in DOMAIN bs : Walk(bs[b].code, D, D[b], M[b]) /\ Leads(bs[b].term, D, M[b])

\* What a step of the builder makes of the blocks: those outside T end as they did, and none
\* that ended is open again.
Frames(bs, D, M, T, cs, N) ==
  /\ \A x \in DOMAIN D \ T : /\ x \in DOMAIN cs <=> x \in DOMAIN bs
                             /\ x \in DOMAIN bs => cs[x].term = bs[x].term
                             /\ N[x] = M[x]
  /\ \A x \in DOMAIN bs : x \in DOMAIN cs /\ (Ended(bs, x) => Ended(cs, x))
Becomes(bs, D, M, T, cs, E, N) ==
  Levels(cs, E, N) /\ Extends(E, D) /\ Frames(bs, D, M, T, cs, N)

LEMMA BecomesItself ==
  ASSUME NEW bs, NEW D, NEW M, NEW T, Levels(bs, D, M)
  PROVE  Becomes(bs, D, M, T, bs, D, M)
  BY DEF Becomes, Extends, Frames

\* One block gets other code or another terminator.
LEMMA LevelsPut ==
  ASSUME NEW bs, NEW D, NEW M, Levels(bs, D, M), NEW b \in DOMAIN bs, NEW m \in Int, NEW cs,
         cs \in [DOMAIN bs -> SoundBlock], \A c \in DOMAIN bs \ {b} : cs[c] = bs[c],
         Walk(cs[b].code, D, D[b], m), Leads(cs[b].term, D, m)
  PROVE  Levels(cs, D, [M EXCEPT ![b] = m])
<1> DEFINE N == [M EXCEPT ![b] = m]
<1>1. N \in [DOMAIN D -> Int] /\ N[b] = m /\ \A c \in DOMAIN bs \ {b} : N[c] = M[c]
  BY DEF Levels
<1> HIDE DEF N
<1>2. DOMAIN cs = DOMAIN bs
  OBVIOUS
<1>3. \A c \in DOMAIN cs : Walk(cs[c].code, D, D[c], N[c]) /\ Leads(cs[c].term, D, N[c])
  BY <1>1, <1>2 DEF Levels
<1>4. Levels(cs, D, N)
  BY <1>1, <1>2, <1>3 DEF Levels
<1> QED
  BY <1>4 DEF N

LEMMA BecomesPut ==
  ASSUME NEW bs, NEW D, NEW M, NEW T, NEW cs, NEW E, NEW N, Becomes(bs, D, M, T, cs, E, N),
         NEW b \in DOMAIN cs, b \in T \/ b \notin DOMAIN D, NEW m \in Int, NEW ds,
         ds \in [DOMAIN cs -> SoundBlock], \A c \in DOMAIN cs \ {b} : ds[c] = cs[c],
         Walk(ds[b].code, E, E[b], m), Leads(ds[b].term, E, m), Ended(cs, b) => Ended(ds, b)
  PROVE  Becomes(bs, D, M, T, ds, E, [N EXCEPT ![b] = m])
<1>1. Levels(ds, E, [N EXCEPT ![b] = m])
  BY LevelsPut DEF Becomes
<1>2. DOMAIN ds = DOMAIN cs /\ Extends(E, D) /\ N \in [DOMAIN E -> Int]
  BY DEF Becomes, Levels
<1>3. \A x \in DOMAIN D \ T : x # b /\ [N EXCEPT ![b] = m][x] = N[x]
  BY <1>2 DEF Extends
<1>4. \A x \in DOMAIN cs : Ended(cs, x) => Ended(ds, x)
  BY <1>2 DEF Ended
<1>5. Frames(bs, D, M, T, ds, [N EXCEPT ![b] = m])
  BY <1>2, <1>3, <1>4 DEF Becomes, Frames
<1> QED
  BY <1>1, <1>2, <1>5 DEF Becomes

\* Code is added to a block that has no end yet, or gets a new one.
LEMMA BecomesEmitted ==
  ASSUME NEW bs, NEW D, NEW M, NEW T, NEW cs, NEW E, NEW N, Becomes(bs, D, M, T, cs, E, N),
         NEW b \in DOMAIN cs, b \in T \/ b \notin DOMAIN D,
         NEW code \in Seq(Sound), NEW m \in Int, Walk(code, E, N[b], m),
         m = N[b] \/ Leads(cs[b].term, E, m)
  PROVE  Becomes(bs, D, M, T, Emit(cs, b, code), E, [N EXCEPT ![b] = m])
<1> DEFINE ds == Emit(cs, b, code)
<1>1. /\ Levels(cs, E, N) /\ cs[b] \in SoundBlock /\ b # NoBlock
      /\ cs[b].code \in Seq(Sound) /\ cs[b].code \o code \in Seq(Sound)
  <2>1. Levels(cs, E, N) /\ cs[b] \in SoundBlock /\ b # NoBlock
    BY DEF Becomes, Levels
  <2>2. cs[b].code \in Seq(Sound)
    BY <2>1 DEF SoundBlock
  <2> QED
    BY <2>1, <2>2
<1> DEFINE joined == cs[b].code \o code
<1>2. /\ ds = [cs EXCEPT ![b].code = joined]
      /\ cs \in [DOMAIN cs -> SoundBlock]
  BY <1>1 DEF Emit, Levels
<1> HIDE DEF joined
<1>3. /\ ds \in [DOMAIN cs -> SoundBlock] /\ (\A c \in DOMAIN cs \ {b} : ds[c] = cs[c])
      /\ ds[b].code = joined /\ ds[b].term = cs[b].term
  <2>1. joined \in Seq(Sound)
    BY <1>1 DEF joined
  <2> QED
    BY <1>1, <1>2, <2>1 DEF SoundBlock
<1> HIDE DEF ds
<1>4. Walk(ds[b].code, E, E[b], m)
  <2>1. Walk(cs[b].code, E, E[b], N[b])
    BY <1>1 DEF Levels
  <2> QED
    BY <1>1, <1>3, <2>1, WalkOn DEF joined
<1>5. Leads(ds[b].term, E, m)
  BY <1>1, <1>3 DEF Levels
<1>6. Ended(cs, b) => Ended(ds, b)
  BY <1>3 DEF Ended
<1>7. Becomes(bs, D, M, T, ds, E, [N EXCEPT ![b] = m])
  BY <1>3, <1>4, <1>5, <1>6, BecomesPut
<1> QED
  BY <1>7 DEF ds

LEMMA BecomesClosed ==
  ASSUME NEW bs, NEW D, NEW M, NEW T, NEW cs, NEW E, NEW N, Becomes(bs, D, M, T, cs, E, N),
         NEW b \in DOMAIN cs, b \in T \/ b \notin DOMAIN D,
         NEW code \in Seq(Sound), NEW m \in Int, Walk(code, E, N[b], m),
         NEW term \in Terminator, Leads(term, E, m),
         term.kind \in {"return", "branch", "jump"} \/ ~Ended(cs, b)
  PROVE  Becomes(bs, D, M, T, Close(cs, b, code, term), E, [N EXCEPT ![b] = m])
<1> DEFINE ds == Close(cs, b, code, term)
<1>1. /\ Levels(cs, E, N) /\ cs[b] \in SoundBlock /\ b # NoBlock
      /\ cs[b].code \in Seq(Sound) /\ cs[b].code \o code \in Seq(Sound)
  <2>1. Levels(cs, E, N) /\ cs[b] \in SoundBlock /\ b # NoBlock
    BY DEF Becomes, Levels
  <2>2. cs[b].code \in Seq(Sound)
    BY <2>1 DEF SoundBlock
  <2> QED
    BY <2>1, <2>2
<1> DEFINE joined == cs[b].code \o code
<1>2. /\ ds = [[cs EXCEPT ![b].code = joined] EXCEPT ![b].term = term]
      /\ cs \in [DOMAIN cs -> SoundBlock]
  BY <1>1 DEF Close, End, Emit, Levels
<1> HIDE DEF joined
<1>3. /\ ds \in [DOMAIN cs -> SoundBlock] /\ (\A c \in DOMAIN cs \ {b} : ds[c] = cs[c])
      /\ ds[b].code = joined /\ ds[b].term = term
  <2>1. joined \in Seq(Sound)
    BY <1>1 DEF joined
  <2> DEFINE mid == [cs EXCEPT ![b].code = joined]
  <2>2. /\ mid \in [DOMAIN cs -> SoundBlock] /\ (\A c \in DOMAIN cs \ {b} : mid[c] = cs[c])
        /\ mid[b].code = joined
    BY <1>1, <1>2, <2>1 DEF SoundBlock
  <2>3. ds = [mid EXCEPT ![b].term = term]
    BY <1>2
  <2> HIDE DEF mid
  <2> QED
    BY <2>2, <2>3 DEF SoundBlock
<1> HIDE DEF ds
<1>4. Walk(ds[b].code, E, E[b], m)
  <2>1. Walk(cs[b].code, E, E[b], N[b])
    BY <1>1 DEF Levels
  <2> QED
    BY <1>1, <1>3, <2>1, WalkOn DEF joined
<1>5. Ended(cs, b) => Ended(ds, b)
  BY <1>3 DEF Ended
<1>6. Becomes(bs, D, M, T, ds, E, [N EXCEPT ![b] = m])
  BY <1>3, <1>4, <1>5, BecomesPut
<1> QED
  BY <1>6 DEF ds

\* The same with code that leaves the number of regions as it is, in a block or in none.
LEMMA SoundEven == \A D, n : Seq(Even(D, n)) \subseteq Seq(Sound)
<1> SUFFICES ASSUME NEW D, NEW n PROVE Seq(Even(D, n)) \subseteq Seq(Sound)
  OBVIOUS
<1>1. Even(D, n) \subseteq Sound
  BY DEF Even
<1> QED
  BY <1>1, SeqsGrow

LEMMA BecomesEven ==
  ASSUME NEW bs, NEW D, NEW M, NEW T, NEW cs, NEW E, NEW N, Becomes(bs, D, M, T, cs, E, N),
         NEW b \in DOMAIN cs \cup {NoBlock}, b \in T \/ b \notin DOMAIN D,
         NEW code, b # NoBlock => code \in Seq(Even(E, N[b]))
  PROVE  Becomes(bs, D, M, T, Emit(cs, b, code), E, N)
<1>1. CASE b = NoBlock
  BY <1>1 DEF Emit
<1>2. CASE b # NoBlock
  <2>1. /\ b \in DOMAIN cs /\ code \in Seq(Sound) /\ N[b] \in Int /\ N = [N EXCEPT ![b] = N[b]]
    BY <1>2, SoundEven DEF Becomes, Levels
  <2>2. Walk(code, E, N[b], N[b])
    BY <1>2, <2>1, WalkEven
  <2>3. Becomes(bs, D, M, T, Emit(cs, b, code), E, [N EXCEPT ![b] = N[b]])
    BY <2>1, <2>2, BecomesEmitted
  <2> QED
    BY <2>1, <2>3
<1> QED
  BY <1>1, <1>2

LEMMA BecomesEvenClosed ==
  ASSUME NEW bs, NEW D, NEW M, NEW T, NEW cs, NEW E, NEW N, Becomes(bs, D, M, T, cs, E, N),
         NEW b \in DOMAIN cs \cup {NoBlock}, b \in T \/ b \notin DOMAIN D,
         NEW code, b # NoBlock => code \in Seq(Even(E, N[b])),
         NEW term \in Terminator, b # NoBlock => Leads(term, E, N[b]),
         term.kind \in {"return", "branch", "jump"} \/ ~Ended(cs, b)
  PROVE  Becomes(bs, D, M, T, Close(cs, b, code, term), E, N)
<1>1. CASE b = NoBlock
  BY <1>1 DEF Close, End, Emit
<1>2. CASE b # NoBlock
  <2>1. /\ b \in DOMAIN cs /\ code \in Seq(Sound) /\ N[b] \in Int /\ N = [N EXCEPT ![b] = N[b]]
    BY <1>2, SoundEven DEF Becomes, Levels
  <2>2. Walk(code, E, N[b], N[b])
    BY <1>2, <2>1, WalkEven
  <2>3. Becomes(bs, D, M, T, Close(cs, b, code, term), E, [N EXCEPT ![b] = N[b]])
    BY <1>2, <2>1, <2>2, BecomesClosed
  <2> QED
    BY <2>1, <2>3
<1> QED
  BY <1>1, <1>2

LEMMA BecomesEnded ==
  ASSUME NEW bs, NEW D, NEW M, NEW T, NEW cs, NEW E, NEW N, Becomes(bs, D, M, T, cs, E, N),
         NEW b \in DOMAIN cs \cup {NoBlock}, b \in T \/ b \notin DOMAIN D,
         NEW term \in Terminator, b # NoBlock => Leads(term, E, N[b]),
         term.kind \in {"return", "branch", "jump"} \/ ~Ended(cs, b)
  PROVE  Becomes(bs, D, M, T, End(cs, b, term), E, N)
<1>1. CASE b = NoBlock
  BY <1>1 DEF End
<1>2. CASE b # NoBlock
  <2> DEFINE ds == End(cs, b, term)
  <2>1. /\ b \in DOMAIN cs /\ N[b] \in Int /\ N = [N EXCEPT ![b] = N[b]] /\ cs[b] \in SoundBlock
        /\ cs \in [DOMAIN cs -> SoundBlock] /\ Walk(cs[b].code, E, E[b], N[b])
    BY <1>2 DEF Becomes, Levels
  <2>2. ds = [cs EXCEPT ![b].term = term]
    BY <1>2 DEF End
  <2>3. /\ ds \in [DOMAIN cs -> SoundBlock] /\ (\A c \in DOMAIN cs \ {b} : ds[c] = cs[c])
        /\ ds[b].code = cs[b].code /\ ds[b].term = term
    BY <2>1, <2>2 DEF SoundBlock
  <2> HIDE DEF ds
  <2>4. Ended(cs, b) => Ended(ds, b)
    BY <2>3, <1>2 DEF Ended
  <2>5. Becomes(bs, D, M, T, ds, E, [N EXCEPT ![b] = N[b]])
    BY <1>2, <2>1, <2>3, <2>4, BecomesPut
  <2> QED
    BY <2>1, <2>5 DEF ds
<1> QED
  BY <1>1, <1>2

\* Blocks are reserved: new ones, or one that was only numbered.
LEMMA BecomesReserved ==
  ASSUME NEW bs, NEW D, NEW M, NEW T, Levels(bs, D, M), NEW E, Extends(E, D), E \in [DOMAIN E -> Int],
         NoBlock \notin DOMAIN E,
         NEW N \in [DOMAIN E -> Int], NEW ids, ids \subseteq DOMAIN E,
         \A x \in DOMAIN D \ ids : N[x] = M[x],
         \A x \in ids : N[x] = E[x] /\ x \notin DOMAIN bs /\ (x \in T \/ x \notin DOMAIN D)
  PROVE  Becomes(bs, D, M, T, Reserve(bs, ids), E, N)
<1> DEFINE cs == Reserve(bs, ids)
<1>1. /\ cs = [b \in DOMAIN bs \cup ids |-> IF b \in ids THEN Fresh ELSE bs[b]]
      /\ Fresh \in SoundBlock /\ Fresh.code = <<>> /\ Targets(Fresh.term) = {}
      /\ Fresh.term.kind = "unreachable"
  <2>1. <<>> \in Seq(Sound)
    OBVIOUS
  <2> QED
    BY <2>1, TermsTyped, OperandsTyped, ConstantsTyped, Numbers
       DEF Reserve, Bound, Fresh, SoundBlock, Targets, Unreachable, Term
<1>2. /\ cs \in [DOMAIN bs \cup ids -> SoundBlock] /\ DOMAIN cs = DOMAIN bs \cup ids
      /\ \A b \in DOMAIN bs : b \notin ids /\ cs[b] = bs[b]
      /\ \A b \in ids : cs[b] = Fresh
  BY <1>1 DEF Levels
<1> HIDE DEF cs
<1>3. ASSUME NEW b \in DOMAIN cs PROVE Walk(cs[b].code, E, E[b], N[b]) /\ Leads(cs[b].term, E, N[b])
  <2>1. CASE b \in ids
    <3>1. cs[b].code = <<>> /\ N[b] = E[b] /\ E[b] \in Int
      BY <1>1, <1>2, <2>1
    <3>2. Leads(cs[b].term, E, N[b])
      BY <1>1, <1>2, <2>1 DEF Leads
    <3> QED
      BY <3>1, <3>2, WalkNowhere
  <2>2. CASE b \notin ids
    <3>1. /\ b \in DOMAIN bs /\ cs[b] = bs[b] /\ b \in DOMAIN D /\ N[b] = M[b] /\ E[b] = D[b]
          /\ Walk(bs[b].code, D, D[b], M[b]) /\ Leads(bs[b].term, D, M[b])
      BY <1>2, <2>2 DEF Levels, Extends
    <3>2. Walk(bs[b].code, E, D[b], M[b])
      BY <3>1, WalkStays
    <3>3. Leads(bs[b].term, E, M[b])
      BY <3>1 DEF Leads, Extends
    <3> QED
      BY <3>1, <3>2, <3>3
  <2> QED
    BY <2>1, <2>2
<1>4. Levels(cs, E, N)
  BY <1>2, <1>3 DEF Levels, Extends
<1>5. Frames(bs, D, M, T, cs, N)
  BY <1>2 DEF Frames, Ended
<1>6. Becomes(bs, D, M, T, cs, E, N)
  BY <1>4, <1>5 DEF Becomes
<1> QED
  BY <1>6 DEF cs

-----------------------------------------------------------------------------
\* The agenda, seen from its end: what is below a point is done later.
Below(ag, r) == ag[Len(ag) + 1 - r]

LoopEnds == {"while_end", "for_end", "range_end"}
Joins    == {"then_end", "else_end"} \cup LoopEnds

\* What a point does to the number of regions.
Delta(p) == IF p.do # "stmt" THEN 0
            ELSE IF p.s.kind = "region_begin" THEN 1
            ELSE IF p.s.kind = "region_end" THEN -1 ELSE 0

\* The blocks that wait for a point; those that will be entered from it; those whose code was
\* begun before it; and the else that is still to be reserved.
Waiting(p) ==
  CASE p.do \in {"then_end", "else_end"} -> {p.at[3]}
    [] p.do = "while_end" -> {p.at[2]}
    [] p.do = "for_end" -> {p.at[3], p.at[4]}
    [] p.do = "range_end" -> {p.at[1], p.at[3], p.at[4]}
    [] OTHER -> {}
Later(p)   == IF p.do = "then_end" THEN {p.at[2]} \ {NoBlock} ELSE {}
Owned(p)   == Waiting(p) \cup Later(p)
Entries(p) ==
  Owned(p) \cup (CASE p.do \in {"while_end", "for_end"} -> {p.at[1]}
                   [] p.do = "range_end" -> {p.at[2]}
                   [] OTHER -> {})
Begun(p) == CASE p.do = "then_end" -> {p.at[1]} [] p.do = "for_end" -> {p.at[2]} [] OTHER -> {}

\* A point that does nothing but end an open block, and what must be followed by one.
Resumes(p) == \/ p.do \in {"then_end", "else_end", "while_end", "range_end", "finish"}
              \/ p.do = "stmt" /\ p.s.kind = "region_end"
Leaves(p)  == p.do = "return_end" \/ (p.do = "stmt" /\ p.s.kind \in Quits)
Closing    == {"test", "return_end"}

\* The plan: dep[r] regions are open when the point at height r is done.
PlannedAt(ag, r, dep) ==
  LET p == Below(ag, r)
  IN /\ p.do \in {"auto", "finish"} => dep[r] = 0
     /\ p.do = "finish" => r = 1
     /\ p.do = "test" => r > 1 /\ Below(ag, r - 1).do \in Closing \cup {"finish"}
     /\ p.do = "test" /\ p.s.expr.kind = "call" => dep[r] = 0
     /\ p.do \in Joins => \A q \in r..Len(ag) : dep[q] >= dep[r]
     /\ Leaves(p) => r > 1 /\ Resumes(Below(ag, r - 1))
     /\ p.do \in Closing /\ r < Len(ag) /\ Below(ag, r + 1).do # "test" => dep[r] = 0
Planned(ag, d, dep) ==
  /\ dep \in [Nat -> Nat]
  /\ ag # <<>> => dep[Len(ag)] = d
  /\ \A r \in 2..Len(ag) : dep[r - 1] = dep[r] + Delta(Below(ag, r))
  /\ \A r \in 1..Len(ag) : PlannedAt(ag, r, dep)

\* What the points hold: no two wait for a block, and none for the one that is built.
HeldAt(ag, r, cur, bs, D, M, dep) ==
  LET p == Below(ag, r)
  IN /\ \A x \in Entries(p) : x \in DOMAIN D /\ D[x] = dep[r]
     /\ \A x \in Owned(p) : x # cur
     /\ \A x \in Waiting(p) : x \in DOMAIN bs /\ ~Ended(bs, x) /\ M[x] = dep[r]
     /\ \A x \in Later(p) : x \notin DOMAIN bs
     /\ \A x \in Begun(p) :
          /\ x \in DOMAIN bs
          /\ Ended(bs, x) \/ /\ x = cur /\ bs[x].term = Unreachable
                             /\ \A q \in (r + 1)..Len(ag) : Below(ag, q).do \notin Joins
Held(ag, cur, bs, D, M, dep) ==
  /\ \A r \in 1..Len(ag) : HeldAt(ag, r, cur, bs, D, M, dep)
  /\ \A r, q \in 1..Len(ag) : r # q => Owned(Below(ag, r)) \cap Owned(Below(ag, q)) = {}

\* The exits of the regions are open.
KeptAt(ag, j, x, cur, bs, D, M) ==
  /\ x \in DOMAIN bs /\ ~Ended(bs, x) /\ x \in DOMAIN D /\ D[x] = j /\ M[x] = j /\ x # cur
  /\ \A r \in 1..Len(ag) : x \notin Owned(Below(ag, r))
Kept(ag, cur, bs, rg, D, M) == \A j \in 1..Len(rg) : KeptAt(ag, j, rg[j].exit, cur, bs, D, M)

\* The loops, L[i] the height of the end of loop i, and the regions entered inside each.
Looped(ag, lp, rg, D, dep, L) ==
  /\ L \in [1..Len(lp) -> 1..Len(ag)]
  /\ \A i, k \in 1..Len(lp) : i < k => L[i] < L[k]
  /\ \A r \in 1..Len(ag) : Below(ag, r).do \in LoopEnds => \E i \in 1..Len(lp) : L[i] = r
  /\ \A i \in 1..Len(lp) :
       /\ Below(ag, L[i]).do \in LoopEnds
       /\ \A x \in {lp[i].brk, lp[i].cont} : x \in DOMAIN D /\ D[x] = dep[L[i]]
  /\ \A j \in 1..Len(rg) :
       /\ rg[j].depth \in 0..Len(lp)
       /\ \A i \in 1..Len(lp) : rg[j].depth >= i <=> j > dep[L[i]]

\* The current block is at the level of the point that is next, or has left; and a statement
\* inside a region finds it open.
Level(ag, d) == IF ag[1].do \in Closing THEN 0 ELSE d
Poised(ag, cur, bs, d, M) ==
  ag # <<>> /\ cur # NoBlock =>
    /\ M[cur] = Level(ag, d) \/ (Ended(bs, cur) /\ Resumes(ag[1]))
    /\ ag[1].do = "stmt" /\ d # 0 /\ Ended(bs, cur) => Resumes(ag[1])

\* The agenda when points take the place of the first one.
After(ag, pts) == pts \o Tail(ag)

\* How an agenda goes on: what is below its first point stays, and of what takes the place of
\* that point only the last may be a join.
Onwards(ag, ag2) ==
  /\ Len(ag) \in Nat \ {0} /\ Len(ag2) \in Nat /\ Len(ag2) >= Len(ag) - 1
  /\ \A r \in 1..(Len(ag) - 1) : Below(ag2, r) = Below(ag, r)
  /\ \A r \in (Len(ag) + 1)..Len(ag2) : Below(ag2, r).do \notin Joins

LEMMA BelowFirst ==
  ASSUME NEW ag, Len(ag) \in Nat \ {0} PROVE Below(ag, Len(ag)) = ag[1]
<1>1. Len(ag) + 1 - Len(ag) = 1
  OBVIOUS
<1> QED
  BY <1>1 DEF Below

LEMMA BelowThen ==
  ASSUME NEW S, NEW ag \in Seq(S), ag # <<>>, NEW pts \in Seq(S)
  PROVE  /\ Len(ag) \in Nat \ {0} /\ Len(pts) \in Nat /\ After(ag, pts) \in Seq(S)
         /\ Len(After(ag, pts)) = Len(pts) + Len(ag) - 1
         /\ \A r \in 1..(Len(ag) - 1) : Below(After(ag, pts), r) = Below(ag, r)
         /\ \A k \in 1..Len(pts) :
              Below(After(ag, pts), Len(pts) + Len(ag) - k) = pts[k] /\ After(ag, pts)[k] = pts[k]
<1> DEFINE ag2 == pts \o Tail(ag)
           n == Len(ag)
<1>1. n \in Nat \ {0} /\ Len(pts) \in Nat
  BY EmptySeq
<1>2. Tail(ag) \in Seq(S) /\ Len(Tail(ag)) = n - 1 /\ \A i \in 1..(n - 1) : Tail(ag)[i] = ag[i + 1]
  OBVIOUS
<1>3. /\ Len(ag2) = Len(pts) + (n - 1)
      /\ \A i \in 1..Len(pts) : ag2[i] = pts[i]
      /\ \A i \in 1..(n - 1) : ag2[Len(pts) + i] = Tail(ag)[i]
  BY <1>1, <1>2
<1> HIDE DEF ag2, n
<1>4. ASSUME NEW r \in 1..(n - 1) PROVE Below(ag2, r) = Below(ag, r)
  <2>1. /\ n - r \in 1..(n - 1) /\ Len(ag2) + 1 - r = Len(pts) + (n - r)
        /\ (n - r) + 1 = n + 1 - r
    BY <1>1, <1>3
  <2>2. ag2[Len(pts) + (n - r)] = ag[(n - r) + 1]
    BY <1>2, <1>3, <2>1
  <2> QED
    BY <2>1, <2>2 DEF Below, n
<1>5. ASSUME NEW k \in 1..Len(pts) PROVE Below(ag2, Len(pts) + n - k) = pts[k]
  <2>1. Len(ag2) + 1 - (Len(pts) + n - k) = k
    BY <1>1, <1>3
  <2> QED
    BY <1>3, <2>1 DEF Below
<1>6. Len(ag2) = Len(pts) + n - 1
  BY <1>1, <1>3
<1>7. ag2 = After(ag, pts) /\ ag2 \in Seq(S)
  BY <1>2 DEF ag2, After
<1> QED
  BY <1>1, <1>3, <1>4, <1>5, <1>6, <1>7 DEF n

LEMMA BelowPop ==
  ASSUME NEW S, NEW ag \in Seq(S), ag # <<>>
  PROVE  /\ Len(ag) \in Nat \ {0} /\ After(ag, <<>>) \in Seq(S)
         /\ Len(After(ag, <<>>)) = Len(ag) - 1
         /\ \A r \in 1..(Len(ag) - 1) : Below(After(ag, <<>>), r) = Below(ag, r)
<1> DEFINE none == <<>>
<1>1. none \in Seq(S) /\ Len(none) = 0
  OBVIOUS
<1> HIDE DEF none
<1>2. /\ Len(ag) \in Nat \ {0} /\ After(ag, none) \in Seq(S)
      /\ Len(After(ag, none)) = Len(none) + Len(ag) - 1
      /\ \A r \in 1..(Len(ag) - 1) : Below(After(ag, none), r) = Below(ag, r)
  BY <1>1, BelowThen
<1>3. Len(After(ag, none)) = Len(ag) - 1
  BY <1>1, <1>2
<1> QED
  BY <1>2, <1>3 DEF none

\* Points that follow one another as the builder puts them.
Settled(ag, pts) ==
  \A k \in 1..Len(pts) :
    /\ pts[k].do \notin {"auto", "finish"} /\ Delta(pts[k]) = 0
    /\ pts[k].do = "test" =>
         pts[k].s.expr.kind # "call" /\ k < Len(pts) /\ pts[k + 1].do \in Closing
    /\ Leaves(pts[k]) => IF k < Len(pts) THEN Resumes(pts[k + 1])
                         ELSE Len(ag) > 1 /\ Resumes(Below(ag, Len(ag) - 1))
    /\ pts[k].do \in Closing => k = 1 \/ pts[k - 1].do = "test"
    /\ pts[k].do \in Joins => k = Len(pts)

\* The plan when the first point is done and nothing takes its place.
LEMMA PlannedPop ==
  ASSUME NEW S, NEW ag \in Seq(S), ag # <<>>, NEW d \in Int, NEW dep, Planned(ag, d, dep),
         NEW d2, d2 = d + Delta(ag[1])
  PROVE  Planned(After(ag, <<>>), d2, dep) /\ Onwards(ag, After(ag, <<>>))
<1> DEFINE n == Len(ag)
           ag2 == After(ag, <<>>)
<1>0. n \in Nat \ {0}
  BY BelowPop
<1>1. Len(ag2) = n - 1
  BY BelowPop
<1>2. \A r \in 1..(n - 1) : Below(ag2, r) = Below(ag, r)
  BY BelowPop
<1>3. Below(ag, n) = ag[1]
  BY <1>0, BelowFirst
<1>4. ag2 # <<>> => Len(ag2) # 0
  <2>1. ag2 \in Seq(S)
    BY BelowPop
  <2> HIDE DEF ag2
  <2> QED
    BY <2>1, EmptySeq
<1>5. dep \in [Nat -> Nat] /\ dep[n] = d
  BY DEF Planned
<1>6. /\ \A r \in 2..n : dep[r - 1] = dep[r] + Delta(Below(ag, r))
      /\ \A r \in 1..n : PlannedAt(ag, r, dep)
  BY DEF Planned
<1> HIDE DEF n, ag2
<1>7. ag2 # <<>> => dep[n - 1] = d2
  <2>1. ag2 # <<>> => n \in 2..n
    BY <1>0, <1>1, <1>4
  <2> QED
    BY <1>3, <1>5, <1>6, <2>1
<1>8. ASSUME NEW r \in 2..(n - 1) PROVE dep[r - 1] = dep[r] + Delta(Below(ag2, r))
  <2>1. r \in 2..n /\ r \in 1..(n - 1)
    BY <1>0
  <2> QED
    BY <1>2, <1>6, <2>1
<1>9. ASSUME NEW r \in 1..(n - 1) PROVE PlannedAt(ag2, r, dep)
  <2>1. /\ r \in 1..n
        /\ r > 1 => r - 1 \in 1..(n - 1)
        /\ r < n - 1 => r + 1 \in 1..(n - 1) /\ r < n
        /\ r..(n - 1) \subseteq r..n
    BY <1>0
  <2>2. /\ Below(ag2, r) = Below(ag, r)
        /\ r > 1 => Below(ag2, r - 1) = Below(ag, r - 1)
        /\ r < n - 1 => Below(ag2, r + 1) = Below(ag, r + 1)
    BY <1>2, <2>1
  <2>3. PlannedAt(ag, r, dep)
    BY <1>6, <2>1
  <2> QED
    BY <1>1, <2>1, <2>2, <2>3 DEF PlannedAt, n
<1>10. Planned(ag2, d2, dep)
  BY <1>1, <1>5, <1>7, <1>8, <1>9 DEF Planned
<1>11. Onwards(ag, ag2)
  <2>1. n - 1 \in Nat /\ n - 1 >= n - 1 /\ (n + 1)..(n - 1) = {}
    BY <1>0
  <2> QED
    BY <1>0, <1>1, <1>2, <2>1 DEF Onwards, n
<1> QED
  BY <1>10, <1>11 DEF ag2

\* The plan when points take its place that leave the number of regions as it is.
Filled(dep, n, d) == [r \in Nat |-> IF r < n THEN dep[r] ELSE d]

LEMMA FilledTyped ==
  ASSUME NEW n \in Nat, NEW d \in Nat, NEW dep \in [Nat -> Nat]
  PROVE  /\ Filled(dep, n, d) \in [Nat -> Nat]
         /\ \A r \in Nat : r < n => Filled(dep, n, d)[r] = dep[r]
         /\ \A r \in Nat : r >= n => Filled(dep, n, d)[r] = d
  BY DEF Filled

LEMMA PlannedPush ==
  ASSUME NEW S, NEW ag \in Seq(S), ag # <<>>, NEW d \in Nat, NEW dep, Planned(ag, d, dep),
         Delta(ag[1]) = 0, ag[1].do # "test",
         NEW pts \in Seq(S), Settled(ag, pts)
  PROVE  /\ Planned(After(ag, pts), d, Filled(dep, Len(ag), d))
         /\ Onwards(ag, After(ag, pts))
<1> DEFINE n == Len(ag)
           m == Len(pts)
           ag2 == After(ag, pts)
           dep2 == Filled(dep, n, d)
<1>0. n \in Nat \ {0} /\ m \in Nat
  BY BelowThen
<1>1. Len(ag2) = m + n - 1
  BY BelowThen
<1>2. \A r \in 1..(n - 1) : Below(ag2, r) = Below(ag, r)
  BY BelowThen
<1>3. \A k \in 1..m : Below(ag2, m + n - k) = pts[k]
  BY BelowThen
<1>4. Below(ag, n) = ag[1]
  BY <1>0, BelowFirst
<1>5. ag2 # <<>> => Len(ag2) # 0
  <2>1. ag2 \in Seq(S)
    BY BelowThen
  <2> HIDE DEF ag2
  <2> QED
    BY <2>1, EmptySeq
<1>6. dep \in [Nat -> Nat] /\ dep[n] = d
  BY DEF Planned
<1>7. /\ \A r \in 2..n : dep[r - 1] = dep[r] + Delta(Below(ag, r))
      /\ \A r \in 1..n : PlannedAt(ag, r, dep)
  BY DEF Planned
<1>8. dep2 \in [Nat -> Nat]
  BY <1>0, <1>6, FilledTyped
<1>9. (\A r \in Nat : r < n => dep2[r] = dep[r]) /\ (\A r \in Nat : r >= n => dep2[r] = d)
  <2>1. n \in Nat /\ dep \in [Nat -> Nat]
    BY <1>0, <1>6
  <2> HIDE DEF n
  <2>2. ASSUME NEW r \in Nat, r < n PROVE dep2[r] = dep[r]
    BY <2>1, <2>2 DEF Filled
  <2>3. ASSUME NEW r \in Nat, r >= n PROVE dep2[r] = d
    BY <2>1, <2>3 DEF Filled
  <2> QED
    BY <2>2, <2>3
<1> HIDE DEF n, m, ag2, dep2
<1>10. n > 1 => dep2[n - 1] = d
  <2>1. n > 1 => n \in 2..n /\ n - 1 \in Nat /\ n - 1 < n
    BY <1>0
  <2>2. n > 1 => dep[n - 1] = dep[n] + Delta(Below(ag, n))
    BY <1>7, <2>1
  <2>3. dep[n] + Delta(Below(ag, n)) = d
    BY <1>4, <1>6
  <2> QED
    BY <1>9, <2>1, <2>2, <2>3
<1>11. ASSUME NEW r \in n..Len(ag2)
       PROVE  m + n - r \in 1..m /\ Below(ag2, r) = pts[m + n - r] /\ r \in Nat /\ dep2[r] = d
  <2>1. m + n - r \in 1..m /\ m + n - (m + n - r) = r /\ r \in Nat /\ r >= n
    BY <1>0, <1>1
  <2> QED
    BY <1>3, <1>9, <2>1
<1>12. ASSUME NEW r \in 2..Len(ag2) PROVE dep2[r - 1] = dep2[r] + Delta(Below(ag2, r))
  <2>1. r \in Nat /\ r - 1 \in Nat /\ (r < n \/ r = n \/ r > n)
    BY <1>0, <1>1
  <2>2. CASE r < n
    <3>1. r \in 2..n /\ r \in 1..(n - 1) /\ r - 1 < n
      BY <1>0, <2>2
    <3> QED
      BY <1>2, <1>7, <1>9, <2>1, <2>2, <3>1
  <2>3. CASE r = n \/ r > n
    <3>1. r \in n..Len(ag2)
      BY <1>0, <1>1, <2>3
    <3>2. Delta(Below(ag2, r)) = 0 /\ dep2[r] = d
      BY <1>11, <3>1 DEF Settled, m
    <3>3. dep2[r - 1] = d
      <4>1. CASE r = n
        <5>1. n > 1
          BY <4>1
        <5> QED
          BY <1>10, <4>1, <5>1
      <4>2. CASE r > n
        <5>1. r - 1 >= n
          BY <1>0, <4>2
        <5> QED
          BY <1>9, <2>1, <5>1
      <4> QED
        BY <2>3, <4>1, <4>2
    <3> QED
      BY <3>2, <3>3
  <2> QED
    BY <2>1, <2>2, <2>3
<1>13. ag2 # <<>> => dep2[Len(ag2)] = d
  <2>1. CASE m = 0
    <3>1. Len(ag2) = n - 1 /\ (Len(ag2) # 0 => n > 1)
      BY <1>0, <1>1, <2>1
    <3> QED
      BY <1>5, <1>10, <3>1
  <2>2. CASE m # 0
    <3>1. Len(ag2) \in n..Len(ag2)
      BY <1>0, <1>1, <2>2
    <3> QED
      BY <1>11, <3>1
  <2> QED
    BY <2>1, <2>2
<1>14. ASSUME NEW r \in 1..Len(ag2), r < n PROVE PlannedAt(ag2, r, dep2)
  <2>1. /\ r \in 1..n /\ r \in 1..(n - 1) /\ r \in Nat
        /\ r > 1 => r - 1 \in 1..(n - 1)
    BY <1>0, <1>14
  <2>2. /\ Below(ag2, r) = Below(ag, r) /\ dep2[r] = dep[r]
        /\ r > 1 => Below(ag2, r - 1) = Below(ag, r - 1)
    BY <1>2, <1>9, <1>14, <2>1
  <2>3. PlannedAt(ag, r, dep)
    BY <1>7, <2>1
  <2>4. ASSUME Below(ag2, r).do \in Joins, NEW q \in r..Len(ag2) PROVE dep2[q] >= dep2[r]
    <3>1. \A k \in r..n : dep[k] >= dep[r]
      BY <2>2, <2>3, <2>4 DEF PlannedAt, n
    <3>2. q \in Nat /\ (q < n => q \in r..n) /\ n \in r..n /\ (q < n \/ q >= n)
      BY <1>0, <1>14, <2>1
    <3>3. CASE q < n
      BY <1>9, <2>2, <3>1, <3>2, <3>3
    <3>4. CASE q >= n
      BY <1>6, <1>9, <2>2, <3>1, <3>2, <3>4
    <3> QED
      BY <3>2, <3>3, <3>4
  <2>5. ASSUME Below(ag2, r).do \in Closing, r < Len(ag2), Below(ag2, r + 1).do # "test"
        PROVE  dep2[r] = 0
    <3>1. r + 1 \in 1..(n - 1) \/ r + 1 = n
      BY <1>0, <1>14
    <3>2. CASE r + 1 \in 1..(n - 1)
      <4>1. Below(ag2, r + 1) = Below(ag, r + 1)
        BY <1>2, <3>2
      <4> QED
        BY <1>14, <2>2, <2>3, <2>5, <4>1 DEF PlannedAt, n
    <3>3. CASE r + 1 = n
      <4>1. Below(ag, r + 1).do # "test"
        BY <1>4, <3>3
      <4> QED
        BY <1>14, <2>2, <2>3, <2>5, <4>1 DEF PlannedAt, n
    <3> QED
      BY <3>1, <3>2, <3>3
  <2> QED
    BY <2>2, <2>3, <2>4, <2>5 DEF PlannedAt
<1>15. ASSUME NEW r \in n..Len(ag2) PROVE PlannedAt(ag2, r, dep2)
  <2> DEFINE k == m + n - r
  <2>1. k \in 1..m /\ Below(ag2, r) = pts[k] /\ dep2[r] = d
    BY <1>11
  <2>10. r \in Nat /\ r >= n /\ r <= m + n - 1
    BY <1>0, <1>1
  <2>2. k < m => r > 1 /\ Below(ag2, r - 1) = pts[k + 1]
    <3>1. k < m => k + 1 \in 1..m /\ m + n - (k + 1) = r - 1 /\ r > 1
      BY <1>0, <2>10
    <3> QED
      BY <1>3, <3>1
  <2>3. r < Len(ag2) => k # 1 /\ Below(ag2, r + 1) = pts[k - 1]
    <3>1. r < m + n - 1 => k - 1 \in 1..m /\ m + n - (k - 1) = r + 1 /\ k # 1
      BY <1>0, <2>10
    <3> QED
      BY <1>1, <1>3, <3>1
  <2>4. k < m \/ (k = m /\ ~(k < m) /\ r = n /\ (n > 1 => n - 1 \in 1..(n - 1)))
    <3>1. r > n => k < m
      BY <1>0, <2>10
    <3>2. r = n => k = m /\ ~(k < m) /\ (n > 1 => n - 1 \in 1..(n - 1))
      BY <1>0
    <3>3. r > n \/ r = n
      BY <1>0, <2>10
    <3> QED
      BY <3>1, <3>2, <3>3
  <2> HIDE DEF k
  <2>5. /\ pts[k].do \notin {"auto", "finish"}
        /\ pts[k].do = "test" =>
             pts[k].s.expr.kind # "call" /\ k < m /\ pts[k + 1].do \in Closing
        /\ Leaves(pts[k]) => IF k < m THEN Resumes(pts[k + 1])
                             ELSE n > 1 /\ Resumes(Below(ag, n - 1))
        /\ pts[k].do \in Closing => k = 1 \/ pts[k - 1].do = "test"
    BY <2>1 DEF Settled, m, n
  <2>6. Leaves(pts[k]) => r > 1 /\ Resumes(Below(ag2, r - 1))
    <3>1. CASE k < m
      BY <2>2, <2>5, <3>1
    <3>2. CASE k = m /\ ~(k < m) /\ r = n /\ (n > 1 => n - 1 \in 1..(n - 1))
      BY <1>2, <2>5, <3>2
    <3> QED
      BY <2>4, <3>1, <3>2
  <2>7. \A q \in r..Len(ag2) : dep2[q] >= dep2[r]
    <3>1. \A q \in r..Len(ag2) : q \in n..Len(ag2)
      BY <1>0, <1>1
    <3>2. d >= d
      OBVIOUS
    <3> QED
      BY <1>11, <2>1, <3>1, <3>2
  <2>8. r < Len(ag2) /\ pts[k].do \in Closing => Below(ag2, r + 1).do = "test"
    BY <2>3, <2>5
  <2>9. pts[k].do = "test" => r > 1 /\ Below(ag2, r - 1).do \in Closing \cup {"finish"}
    BY <2>2, <2>5
  <2> QED
    BY <2>1, <2>5, <2>6, <2>7, <2>8, <2>9 DEF PlannedAt
<1>16. Planned(ag2, d, dep2)
  <2>1. ASSUME NEW r \in 1..Len(ag2) PROVE PlannedAt(ag2, r, dep2)
    <3>1. r < n \/ r \in n..Len(ag2)
      BY <1>0, <1>1
    <3> QED
      BY <1>14, <1>15, <3>1
  <2> QED
    BY <1>8, <1>12, <1>13, <2>1 DEF Planned
<1>17. Onwards(ag, ag2)
  <2>1. ASSUME NEW r \in (n + 1)..Len(ag2) PROVE Below(ag2, r).do \notin Joins
    <3>1. r \in n..Len(ag2) /\ m + n - r # m
      BY <1>0, <1>1
    <3> QED
      BY <1>11, <3>1 DEF Settled, m
  <2>2. Len(ag2) \in Nat /\ Len(ag2) >= n - 1
    BY <1>0, <1>1
  <2> QED
    BY <1>0, <1>2, <2>1, <2>2 DEF Onwards, n
<1> QED
  BY <1>16, <1>17 DEF ag2, n, dep2

-----------------------------------------------------------------------------
\* What a step leaves as it was.
Touched(ag, cur) == {cur} \cup Owned(ag[1])

LEMMA PlainHolds ==
  ASSUME NEW p, p.do \notin Joins
  PROVE  Owned(p) = {} /\ Entries(p) = {} /\ Begun(p) = {} /\ Waiting(p) = {} /\ Later(p) = {}
  BY DEF Owned, Entries, Begun, Waiting, Later, Joins, LoopEnds

LEMMA PlainHeld ==
  ASSUME NEW ag, NEW r, Below(ag, r).do \notin Joins, NEW cur, NEW bs, NEW D, NEW M, NEW dep
  PROVE  HeldAt(ag, r, cur, bs, D, M, dep) /\ Owned(Below(ag, r)) = {}
  BY PlainHolds DEF HeldAt

LEMMA OwnedEntered ==
  ASSUME NEW p PROVE Waiting(p) \subseteq Owned(p) /\ Later(p) \subseteq Owned(p)
                     /\ Owned(p) \subseteq Entries(p)
  BY DEF Owned, Entries

LEMMA Untouched ==
  ASSUME NEW ag, Len(ag) \in Nat \ {0}, NEW cur, NEW bs, NEW D, NEW M, NEW dep,
         Held(ag, cur, bs, D, M, dep)
  PROVE  \A r \in 1..(Len(ag) - 1) : /\ Owned(Below(ag, r)) \cap Touched(ag, cur) = {}
                                     /\ Owned(Below(ag, r)) \subseteq DOMAIN D
<1> SUFFICES ASSUME NEW r \in 1..(Len(ag) - 1)
             PROVE  /\ Owned(Below(ag, r)) \cap Touched(ag, cur) = {}
                    /\ Owned(Below(ag, r)) \subseteq DOMAIN D
  OBVIOUS
<1>1. r \in 1..Len(ag) /\ Len(ag) \in 1..Len(ag) /\ r # Len(ag)
  OBVIOUS
<1>2. Owned(Below(ag, r)) \cap Owned(Below(ag, Len(ag))) = {}
  BY <1>1 DEF Held
<1>3. HeldAt(ag, r, cur, bs, D, M, dep)
  BY <1>1 DEF Held
<1>4. cur \notin Owned(Below(ag, r)) /\ Owned(Below(ag, r)) \subseteq DOMAIN D
  BY <1>3, OwnedEntered DEF HeldAt
<1>5. Below(ag, Len(ag)) = ag[1]
  BY BelowFirst
<1> QED
  BY <1>2, <1>4, <1>5 DEF Touched

LEMMA UntouchedExits ==
  ASSUME NEW ag, Len(ag) \in Nat \ {0}, NEW cur, NEW bs, NEW rg, NEW D, NEW M,
         Kept(ag, cur, bs, rg, D, M)
  PROVE  \A j \in 1..Len(rg) : rg[j].exit \notin Touched(ag, cur)
<1>1. Len(ag) \in 1..Len(ag) /\ Below(ag, Len(ag)) = ag[1]
  BY BelowFirst
<1> QED
  BY <1>1 DEF Kept, KeptAt, Touched

\* The points that stay hold what they held.
LEMMA HoldsOn ==
  ASSUME NEW ag, NEW ag2, Onwards(ag, ag2),
         NEW cur, NEW bs, NEW D, NEW M, NEW dep, Held(ag, cur, bs, D, M, dep),
         NEW T, NEW cs, NEW E, NEW N, Becomes(bs, D, M, T, cs, E, N),
         \A r \in 1..(Len(ag) - 1) : Owned(Below(ag, r)) \cap T = {},
         NEW cur2, cur2 \in T \/ cur2 \notin DOMAIN D,
         NEW dep2, \A r \in 1..(Len(ag) - 1) : dep2[r] = dep[r],
         \/ cur \notin DOMAIN bs \/ Ended(cs, cur) \/ ag[1].do \in Joins
         \/ bs[cur].term # Unreachable
         \/ /\ cur2 = cur /\ cs[cur].term = bs[cur].term
            /\ \A r \in Len(ag)..Len(ag2) : Below(ag2, r).do \notin Joins,
         Len(ag2) >= Len(ag) =>
           /\ HeldAt(ag2, Len(ag), cur2, cs, E, N, dep2)
           /\ \A x \in Owned(Below(ag2, Len(ag))) : x \in T \/ x \notin DOMAIN D
  PROVE  Held(ag2, cur2, cs, E, N, dep2)
<1> DEFINE n == Len(ag)
<1>1. n \in Nat \ {0} /\ Len(ag2) \in Nat
  BY DEF Onwards
<1>2. \A r \in 1..(n - 1) : Below(ag2, r) = Below(ag, r)
  BY DEF Onwards
<1>3. \A r \in (n + 1)..Len(ag2) : Below(ag2, r).do \notin Joins
  BY DEF Onwards
<1>4. Below(ag, n) = ag[1]
  BY <1>1, BelowFirst
<1>5. /\ Extends(E, D)
      /\ \A x \in DOMAIN D \ T : /\ x \in DOMAIN cs <=> x \in DOMAIN bs
                                 /\ x \in DOMAIN bs => cs[x].term = bs[x].term
                                 /\ N[x] = M[x]
      /\ \A x \in DOMAIN bs : x \in DOMAIN cs /\ (Ended(bs, x) => Ended(cs, x))
  BY DEF Becomes, Frames
<1> HIDE DEF n
<1>6. ASSUME NEW r \in 1..(n - 1)
      PROVE  /\ r \in 1..n /\ Below(ag2, r) = Below(ag, r) /\ HeldAt(ag, r, cur, bs, D, M, dep)
             /\ dep2[r] = dep[r]
             /\ Owned(Below(ag, r)) \subseteq DOMAIN D \ T
  <2>1. r \in 1..n
    BY <1>1
  <2>2. HeldAt(ag, r, cur, bs, D, M, dep)
    BY <2>1 DEF Held, n
  <2>3. Owned(Below(ag, r)) \subseteq DOMAIN D
    BY <2>2, OwnedEntered DEF HeldAt
  <2> QED
    BY <1>2, <2>1, <2>2, <2>3 DEF n
<1>7. ASSUME NEW r \in 1..(n - 1) PROVE HeldAt(ag2, r, cur2, cs, E, N, dep2)
  <2> DEFINE p == Below(ag, r)
  <2>1. /\ Below(ag2, r) = p /\ dep2[r] = dep[r] /\ Owned(p) \subseteq DOMAIN D \ T
        /\ HeldAt(ag, r, cur, bs, D, M, dep)
    BY <1>6
  <2>2. /\ \A x \in Entries(p) : x \in DOMAIN D /\ D[x] = dep[r]
        /\ \A x \in Waiting(p) : x \in DOMAIN bs /\ ~Ended(bs, x) /\ M[x] = dep[r]
        /\ \A x \in Later(p) : x \notin DOMAIN bs
        /\ \A x \in Begun(p) :
             /\ x \in DOMAIN bs
             /\ Ended(bs, x) \/ /\ x = cur /\ bs[x].term = Unreachable
                                /\ \A q \in (r + 1)..Len(ag) : Below(ag, q).do \notin Joins
    BY <2>1 DEF HeldAt
  <2> HIDE DEF p
  <2>3. \A x \in Entries(p) : x \in DOMAIN E /\ E[x] = dep2[r]
    BY <1>5, <2>1, <2>2 DEF Extends
  <2>4. \A x \in Owned(p) : x # cur2
    BY <2>1
  <2>5. \A x \in Waiting(p) : x \in DOMAIN cs /\ ~Ended(cs, x) /\ N[x] = dep2[r]
    BY <1>5, <2>1, <2>2, OwnedEntered DEF Ended
  <2>6. \A x \in Later(p) : x \notin DOMAIN cs
    BY <1>5, <2>1, <2>2, OwnedEntered
  <2>7. ASSUME NEW x \in Begun(p)
        PROVE  /\ x \in DOMAIN cs
               /\ Ended(cs, x) \/ /\ x = cur2 /\ cs[x].term = Unreachable
                                  /\ \A q \in (r + 1)..Len(ag2) : Below(ag2, q).do \notin Joins
    <3>1. x \in DOMAIN bs /\ x \in DOMAIN cs
      BY <1>5, <2>2
    <3>2. CASE Ended(bs, x)
      BY <1>5, <3>1, <3>2
    <3>3. CASE ~Ended(bs, x)
      <4>1. /\ x = cur /\ bs[x].term = Unreachable
            /\ \A q \in (r + 1)..n : Below(ag, q).do \notin Joins
        BY <2>2, <3>3 DEF n
      <4>2. n \in (r + 1)..n
        BY <1>1
      <4>3. ag[1].do \notin Joins
        BY <1>4, <4>1, <4>2
      <4>4. CASE Ended(cs, cur)
        BY <3>1, <4>1, <4>4
      <4>5. CASE /\ cur2 = cur /\ cs[cur].term = bs[cur].term
                 /\ \A q \in n..Len(ag2) : Below(ag2, q).do \notin Joins
        <5>1. ASSUME NEW q \in (r + 1)..Len(ag2) PROVE Below(ag2, q).do \notin Joins
          <6>1. q \in n..Len(ag2) \/ (q \in 1..(n - 1) /\ q \in (r + 1)..n)
            BY <1>1
          <6> QED
            BY <1>2, <4>1, <4>5, <6>1
        <5> QED
          BY <3>1, <4>1, <4>5, <5>1
      <4> QED
        BY <3>1, <4>1, <4>3, <4>4, <4>5 DEF n
    <3> QED
      BY <3>2, <3>3
  <2> QED
    BY <2>1, <2>3, <2>4, <2>5, <2>6, <2>7 DEF HeldAt
<1>8. ASSUME NEW r \in n..Len(ag2)
      PROVE  /\ HeldAt(ag2, r, cur2, cs, E, N, dep2)
             /\ \A x \in Owned(Below(ag2, r)) : r = n /\ (x \in T \/ x \notin DOMAIN D)
  <2>1. CASE r = n
    <3>1. Len(ag2) >= n
      BY <1>1, <2>1
    <3> QED
      BY <2>1, <3>1 DEF n
  <2>2. CASE r # n
    <3>1. r \in (n + 1)..Len(ag2)
      BY <1>1, <2>2
    <3> QED
      BY <1>3, <3>1, PlainHeld
  <2> QED
    BY <2>1, <2>2
<1>9. \A r \in 1..Len(ag2) : r \in 1..(n - 1) \/ r \in n..Len(ag2)
  BY <1>1
<1>10. ASSUME NEW r \in 1..Len(ag2), NEW q \in 1..Len(ag2), r # q
       PROVE  Owned(Below(ag2, r)) \cap Owned(Below(ag2, q)) = {}
  <2>1. CASE r \in 1..(n - 1) /\ q \in 1..(n - 1)
    BY <1>6, <1>10, <2>1 DEF Held, n
  <2>2. CASE r \in 1..(n - 1) /\ q \in n..Len(ag2)
    BY <1>6, <1>8, <2>2
  <2>3. CASE q \in 1..(n - 1) /\ r \in n..Len(ag2)
    BY <1>6, <1>8, <2>3
  <2>4. CASE q \in n..Len(ag2) /\ r \in n..Len(ag2)
    BY <1>8, <1>10, <2>4
  <2> QED
    BY <1>9, <2>1, <2>2, <2>3, <2>4
<1>11. \A r \in 1..Len(ag2) : HeldAt(ag2, r, cur2, cs, E, N, dep2)
  BY <1>7, <1>8, <1>9
<1> QED
  BY <1>10, <1>11 DEF Held

\* The regions that stay keep their exits.
LEMMA KeepsOn ==
  ASSUME NEW ag, NEW ag2, Onwards(ag, ag2),
         NEW cur, NEW bs, NEW rg, NEW D, NEW M, Kept(ag, cur, bs, rg, D, M),
         NEW T, NEW cs, NEW E, NEW N, Becomes(bs, D, M, T, cs, E, N),
         NEW cur2, cur2 \in T \/ cur2 \notin DOMAIN D,
         Len(ag2) >= Len(ag) => \A x \in Owned(Below(ag2, Len(ag))) : x \in T \/ x \notin DOMAIN D,
         NEW rg2,
         \A j \in 1..Len(rg2) :
           \/ j \in 1..Len(rg) /\ rg2[j] = rg[j] /\ rg[j].exit \notin T
           \/ KeptAt(ag2, j, rg2[j].exit, cur2, cs, E, N)
  PROVE  Kept(ag2, cur2, cs, rg2, E, N)
<1> SUFFICES ASSUME NEW j \in 1..Len(rg2), j \in 1..Len(rg), rg2[j] = rg[j], rg[j].exit \notin T
             PROVE  KeptAt(ag2, j, rg2[j].exit, cur2, cs, E, N)
  BY DEF Kept
<1> DEFINE x == rg[j].exit
           n == Len(ag)
<1>1. /\ x \in DOMAIN bs /\ ~Ended(bs, x) /\ x \in DOMAIN D /\ D[x] = j /\ M[x] = j
      /\ \A r \in 1..Len(ag) : x \notin Owned(Below(ag, r))
  BY DEF Kept, KeptAt
<1>2. x \in DOMAIN cs /\ cs[x].term = bs[x].term /\ N[x] = M[x] /\ Extends(E, D)
  BY <1>1 DEF Becomes, Frames
<1>3. x # cur2
  BY <1>1
<1>4. ASSUME NEW r \in 1..Len(ag2) PROVE x \notin Owned(Below(ag2, r))
  <2>1. n \in Nat \ {0} /\ Len(ag2) \in Nat
    BY DEF Onwards
  <2>2. r \in 1..(n - 1) \/ r = n \/ r \in (n + 1)..Len(ag2)
    BY <2>1
  <2>3. CASE r \in 1..(n - 1)
    <3>1. r \in 1..n
      BY <2>1, <2>3
    <3> QED
      BY <1>1, <2>3, <3>1 DEF Onwards
  <2>4. CASE r = n
    <3>1. Len(ag2) >= n
      BY <2>1, <2>4
    <3> QED
      BY <1>1, <2>4, <3>1
  <2>5. CASE r \in (n + 1)..Len(ag2)
    BY <2>5, PlainHeld DEF Onwards
  <2> QED
    BY <2>2, <2>3, <2>4, <2>5
<1> QED
  BY <1>1, <1>2, <1>3, <1>4 DEF KeptAt, Ended, Extends

-----------------------------------------------------------------------------
\* The loops around the point that is next.
LEMMA LoopsOn ==
  ASSUME NEW ag, NEW ag2, Onwards(ag, ag2), NEW lp, Len(lp) \in Nat, NEW rg, Len(rg) \in Nat,
         NEW D, NEW dep, NEW L, Looped(ag, lp, rg, D, dep, L), Planned(ag, Len(rg), dep), ag # <<>>,
         NEW E, Extends(E, D), NEW dep2, \A r \in 1..(Len(ag) - 1) : dep2[r] = dep[r],
         ag[1].do \notin LoopEnds,
         Len(ag2) >= Len(ag) => Below(ag2, Len(ag)).do \notin LoopEnds,
         NEW rg2, Len(rg2) \in Nat,
         \A j \in 1..Len(rg2) : \/ j \in 1..Len(rg) /\ rg2[j] = rg[j]
                                \/ j > Len(rg) /\ rg2[j].depth = Len(lp)
  PROVE  Looped(ag2, lp, rg2, E, dep2, L)
<1> DEFINE n == Len(ag)
           k == Len(lp)
<1>1. n \in Nat \ {0} /\ Len(ag2) \in Nat /\ Len(ag2) >= n - 1
  BY DEF Onwards
<1>2. \A r \in 1..(n - 1) : Below(ag2, r) = Below(ag, r)
  BY DEF Onwards
<1>3. Below(ag, n) = ag[1]
  BY <1>1, BelowFirst
<1>4. \A r \in n..Len(ag2) : Below(ag2, r).do \notin LoopEnds
  <2>1. ASSUME NEW r \in n..Len(ag2) PROVE Below(ag2, r).do \notin LoopEnds
    <3>1. CASE r = n
      BY <1>1, <3>1
    <3>2. CASE r # n
      <4>1. r \in (n + 1)..Len(ag2)
        BY <1>1, <3>2
      <4> QED
        BY <4>1 DEF Onwards, Joins
    <3> QED
      BY <3>1, <3>2
  <2> QED
    BY <2>1
<1>5. L \in [1..k -> 1..n] /\ \A i, j \in 1..k : i < j => L[i] < L[j]
  BY DEF Looped
<1>6. \A r \in 1..n : Below(ag, r).do \in LoopEnds => \E i \in 1..k : L[i] = r
  BY DEF Looped
<1>7. \A i \in 1..k : /\ Below(ag, L[i]).do \in LoopEnds
                      /\ \A x \in {lp[i].brk, lp[i].cont} : x \in DOMAIN D /\ D[x] = dep[L[i]]
  BY DEF Looped
<1>8. \A j \in 1..Len(rg) : /\ rg[j].depth \in 0..k
                            /\ \A i \in 1..k : rg[j].depth >= i <=> j > dep[L[i]]
  BY DEF Looped
<1>9. dep[n] = Len(rg) /\ dep \in [Nat -> Nat]
  BY DEF Planned
<1>10. \A i \in 1..k : dep[L[i]] <= Len(rg)
  <2>1. ASSUME NEW i \in 1..k PROVE dep[L[i]] <= Len(rg)
    <3>1. L[i] \in 1..n /\ n \in L[i]..n
      BY <1>1, <1>5
    <3>2. PlannedAt(ag, L[i], dep)
      BY <3>1 DEF Planned
    <3>3. dep[n] >= dep[L[i]]
      BY <1>7, <3>1, <3>2 DEF PlannedAt, Joins
    <3>4. L[i] \in Nat
      BY <3>1
    <3> QED
      BY <1>9, <3>3, <3>4
  <2> QED
    BY <2>1
<1> HIDE DEF n, k
<1>11. \A i \in 1..k : L[i] \in 1..(n - 1) /\ L[i] \in 1..Len(ag2)
  <2>1. ASSUME NEW i \in 1..k PROVE L[i] \in 1..(n - 1) /\ L[i] \in 1..Len(ag2)
    <3>1. L[i] \in 1..n /\ L[i] # n
      BY <1>3, <1>5, <1>7
    <3> QED
      BY <1>1, <3>1
  <2> QED
    BY <2>1
<1>12. L \in [1..k -> 1..Len(ag2)]
  BY <1>5, <1>11
<1>13. ASSUME NEW r \in 1..Len(ag2), Below(ag2, r).do \in LoopEnds PROVE \E i \in 1..k : L[i] = r
  <2>1. r \in 1..(n - 1) \/ r \in n..Len(ag2)
    BY <1>1
  <2>2. r \in 1..(n - 1) /\ (r \in 1..(n - 1) => r \in 1..n)
    BY <1>1, <1>4, <1>13, <2>1
  <2> QED
    BY <1>2, <1>6, <1>13, <2>2
<1>14. ASSUME NEW i \in 1..k
       PROVE  /\ Below(ag2, L[i]).do \in LoopEnds
              /\ \A x \in {lp[i].brk, lp[i].cont} : x \in DOMAIN E /\ E[x] = dep2[L[i]]
  <2>1. L[i] \in 1..(n - 1)
    BY <1>11
  <2>2. Below(ag2, L[i]) = Below(ag, L[i]) /\ dep2[L[i]] = dep[L[i]]
    BY <1>2, <2>1 DEF n
  <2> QED
    BY <1>7, <2>2 DEF Extends
<1>15. ASSUME NEW j \in 1..Len(rg2)
       PROVE  /\ rg2[j].depth \in 0..k
              /\ \A i \in 1..k : rg2[j].depth >= i <=> j > dep2[L[i]]
  <2>1. \A i \in 1..k : dep2[L[i]] = dep[L[i]]
    BY <1>11 DEF n
  <2>2. CASE j \in 1..Len(rg) /\ rg2[j] = rg[j]
    BY <1>8, <2>1, <2>2
  <2>3. CASE j > Len(rg) /\ rg2[j].depth = Len(lp)
    <3>1. k \in 0..k /\ \A i \in 1..k : k >= i
      BY DEF k
    <3>2. ASSUME NEW i \in 1..k PROVE dep[L[i]] \in Nat
      <4>1. L[i] \in 1..(n - 1)
        BY <1>11
      <4>2. L[i] \in Nat
        BY <1>1, <4>1
      <4> QED
        BY <1>9, <4>2
    <3>3. \A i \in 1..k : j > dep[L[i]]
      BY <1>10, <2>3, <3>2
    <3>4. rg2[j].depth = k
      BY <2>3 DEF k
    <3> QED
      BY <2>1, <3>1, <3>3, <3>4
  <2> QED
    BY <2>2, <2>3
<1> QED
  BY <1>5, <1>12, <1>13, <1>14, <1>15 DEF Looped, k

\* The heights with one loop more, and with one less.
Longer(L, k, n) == [i \in 1..(k + 1) |-> IF i = k + 1 THEN n ELSE L[i]]
Shorter(L, k)   == [i \in 1..(k - 1) |-> L[i]]

\* A loop begins: the point that will end it is the last of those that were put.
LEMMA LoopsInto ==
  ASSUME NEW ag, NEW ag2, Onwards(ag, ag2), Len(ag2) >= Len(ag),
         NEW lp, Len(lp) \in Nat, NEW rg, Len(rg) \in Nat,
         NEW D, NEW dep, NEW L, Looped(ag, lp, rg, D, dep, L),
         NEW E, Extends(E, D), NEW dep2, \A r \in 1..(Len(ag) - 1) : dep2[r] = dep[r],
         dep2[Len(ag)] = Len(rg),
         ag[1].do \notin LoopEnds, Below(ag2, Len(ag)).do \in LoopEnds,
         NEW loop, \A x \in {loop.brk, loop.cont} : x \in DOMAIN E /\ E[x] = Len(rg),
         NEW lp2, Len(lp2) = Len(lp) + 1, lp2[Len(lp) + 1] = loop,
         \A i \in 1..Len(lp) : lp2[i] = lp[i]
  PROVE  Looped(ag2, lp2, rg, E, dep2,
                Longer(L, Len(lp), Len(ag)))
<1> DEFINE n == Len(ag)
           k == Len(lp)
           J == [i \in 1..(k + 1) |-> IF i = k + 1 THEN n ELSE L[i]]
<1>1. n \in Nat \ {0} /\ Len(ag2) \in Nat /\ Len(ag2) >= n /\ k \in Nat
  BY DEF Onwards
<1>2. \A r \in 1..(n - 1) : Below(ag2, r) = Below(ag, r)
  BY DEF Onwards
<1>3. Below(ag, n) = ag[1]
  BY <1>1, BelowFirst
<1>4. \A r \in (n + 1)..Len(ag2) : Below(ag2, r).do \notin LoopEnds
  BY DEF Onwards, Joins
<1>5. L \in [1..k -> 1..n] /\ \A i, j \in 1..k : i < j => L[i] < L[j]
  BY DEF Looped
<1>6. \A r \in 1..n : Below(ag, r).do \in LoopEnds => \E i \in 1..k : L[i] = r
  BY DEF Looped
<1>7. \A i \in 1..k : /\ Below(ag, L[i]).do \in LoopEnds
                      /\ \A x \in {lp[i].brk, lp[i].cont} : x \in DOMAIN D /\ D[x] = dep[L[i]]
  BY DEF Looped
<1>8. \A j \in 1..Len(rg) : /\ rg[j].depth \in 0..k
                            /\ \A i \in 1..k : rg[j].depth >= i <=> j > dep[L[i]]
  BY DEF Looped
<1> HIDE DEF n, k
<1>9. /\ 1..k \subseteq 1..(k + 1) /\ k + 1 \in 1..(k + 1)
      /\ \A i \in 1..(k + 1) : i \in 1..k \/ i = k + 1
      /\ \A i \in 1..k : i # k + 1 /\ i < k + 1
  <2>1. k \in Nat
    BY <1>1
  <2>2. 1..k \subseteq 1..(k + 1) /\ k + 1 \in 1..(k + 1)
    BY <2>1
  <2>3. \A i \in 1..(k + 1) : i \in 1..k \/ i = k + 1
    BY <2>1
  <2>4. \A i \in 1..k : i # k + 1 /\ i < k + 1
    BY <2>1
  <2> QED
    BY <2>2, <2>3, <2>4
<1>10. J[k + 1] = n /\ \A i \in 1..k : J[i] = L[i]
  BY <1>9
<1>11. \A i \in 1..k : L[i] \in 1..(n - 1)
  <2>1. ASSUME NEW i \in 1..k PROVE L[i] \in 1..(n - 1)
    <3>1. L[i] \in 1..n /\ L[i] # n
      BY <1>3, <1>5, <1>7
    <3> QED
      BY <1>1, <3>1
  <2> QED
    BY <2>1
<1>12. /\ 1..(n - 1) \subseteq 1..Len(ag2) /\ n \in 1..Len(ag2)
       /\ \A r \in 1..(n - 1) : r < n /\ r \in 1..n
  BY <1>1
<1>13. J \in [1..(k + 1) -> 1..Len(ag2)]
  BY <1>9, <1>11, <1>12
<1> HIDE DEF J
<1>14. ASSUME NEW i \in 1..(k + 1), NEW j \in 1..(k + 1), i < j PROVE J[i] < J[j]
  <2>1. i \in 1..k
    BY <1>1, <1>14
  <2> QED
    BY <1>5, <1>9, <1>10, <1>11, <1>12, <1>14, <2>1
<1>15. ASSUME NEW r \in 1..Len(ag2), Below(ag2, r).do \in LoopEnds
       PROVE  \E i \in 1..(k + 1) : J[i] = r
  <2>1. r \in 1..(n - 1) \/ r = n \/ r \in (n + 1)..Len(ag2)
    BY <1>1
  <2>2. CASE r \in 1..(n - 1)
    BY <1>2, <1>6, <1>9, <1>10, <1>12, <1>15, <2>2
  <2> QED
    BY <1>4, <1>9, <1>10, <1>15, <2>1, <2>2
<1>16. ASSUME NEW i \in 1..(k + 1)
       PROVE  /\ Below(ag2, J[i]).do \in LoopEnds
              /\ \A x \in {lp2[i].brk, lp2[i].cont} : x \in DOMAIN E /\ E[x] = dep2[J[i]]
  <2>1. CASE i \in 1..k
    <3>1. lp2[i] = lp[i]
      BY <2>1 DEF k
    <3>2. J[i] = L[i] /\ L[i] \in 1..(n - 1)
      BY <1>10, <1>11, <2>1
    <3>3. Below(ag2, L[i]) = Below(ag, L[i]) /\ dep2[L[i]] = dep[L[i]]
      BY <1>2, <3>2 DEF n
    <3> QED
      BY <1>7, <2>1, <3>1, <3>2, <3>3 DEF Extends
  <2>2. CASE i = k + 1
    BY <1>10, <2>2 DEF k, n
  <2> QED
    BY <1>9, <2>1, <2>2
<1>17. ASSUME NEW j \in 1..Len(rg)
       PROVE  /\ rg[j].depth \in 0..(k + 1)
              /\ \A i \in 1..(k + 1) : rg[j].depth >= i <=> j > dep2[J[i]]
  <2>1. rg[j].depth \in 0..k /\ \A i \in 1..k : rg[j].depth >= i <=> j > dep[L[i]]
    BY <1>8
  <2>2. rg[j].depth \in 0..(k + 1) /\ ~(rg[j].depth >= k + 1)
    BY <1>1, <2>1
  <2>3. dep2[J[k + 1]] = Len(rg) /\ ~(j > Len(rg))
    BY <1>10 DEF n
  <2>4. \A i \in 1..k : dep2[J[i]] = dep[L[i]]
    BY <1>10, <1>11 DEF n
  <2>5. ASSUME NEW i \in 1..(k + 1) PROVE rg[j].depth >= i <=> j > dep2[J[i]]
    <3>1. CASE i = k + 1
      BY <2>2, <2>3, <3>1
    <3>2. CASE i \in 1..k
      BY <2>1, <2>4, <3>2
    <3> QED
      BY <1>9, <3>1, <3>2
  <2> QED
    BY <2>2, <2>5
<1>18. Len(lp2) = k + 1
  BY DEF k
<1>19. Looped(ag2, lp2, rg, E, dep2, J)
  BY <1>13, <1>14, <1>15, <1>16, <1>17, <1>18 DEF Looped
<1> QED
  BY <1>19 DEF J, k, n, Longer

\* A loop ends.
LEMMA LoopsOut ==
  ASSUME NEW ag, NEW ag2, Onwards(ag, ag2), Len(ag2) = Len(ag) - 1, ag # <<>>,
         NEW lp, Len(lp) \in Nat, NEW rg, Len(rg) \in Nat,
         NEW D, NEW dep, NEW L, Looped(ag, lp, rg, D, dep, L), Planned(ag, Len(rg), dep),
         NEW E, Extends(E, D), ag[1].do \in LoopEnds,
         NEW lp2, Len(lp2) = Len(lp) - 1, \A i \in 1..(Len(lp) - 1) : lp2[i] = lp[i]
  PROVE  Len(lp) # 0 /\ Looped(ag2, lp2, rg, E, dep, Shorter(L, Len(lp)))
<1> DEFINE n == Len(ag)
           k == Len(lp)
           J == [i \in 1..(k - 1) |-> L[i]]
<1>1. n \in Nat \ {0} /\ Len(ag2) = n - 1 /\ k \in Nat
  BY DEF Onwards
<1>2. \A r \in 1..(n - 1) : Below(ag2, r) = Below(ag, r)
  BY DEF Onwards
<1>3. Below(ag, n) = ag[1]
  BY <1>1, BelowFirst
<1>5. L \in [1..k -> 1..n] /\ \A i, j \in 1..k : i < j => L[i] < L[j]
  BY DEF Looped
<1>6. \A r \in 1..n : Below(ag, r).do \in LoopEnds => \E i \in 1..k : L[i] = r
  BY DEF Looped
<1>7. \A i \in 1..k : /\ Below(ag, L[i]).do \in LoopEnds
                      /\ \A x \in {lp[i].brk, lp[i].cont} : x \in DOMAIN D /\ D[x] = dep[L[i]]
  BY DEF Looped
<1>8. \A j \in 1..Len(rg) : /\ rg[j].depth \in 0..k
                            /\ \A i \in 1..k : rg[j].depth >= i <=> j > dep[L[i]]
  BY DEF Looped
<1>9. dep[n] = Len(rg)
  BY DEF Planned
<1> HIDE DEF n, k
<1>10. k # 0 /\ L[k] = n
  <2>1. PICK i \in 1..k : L[i] = n
    <3>1. n \in 1..n
      BY <1>1
    <3> QED
      BY <1>3, <1>6, <3>1
  <2>2. k \in 1..k /\ k # 0 /\ (i = k \/ i < k)
    BY <1>1
  <2>3. i < k => L[i] < L[k] /\ L[k] \in 1..n
    BY <1>5, <2>2
  <2>4. ~(i < k)
    BY <1>1, <2>1, <2>3
  <2> QED
    BY <2>1, <2>2, <2>4
<1>11. /\ k \in 1..k /\ k - 1 \in Nat
       /\ \A i \in 1..(k - 1) : i \in 1..k /\ i < k
       /\ \A i \in 1..k : i = k \/ i \in 1..(k - 1)
  BY <1>1, <1>10
<1>12. \A i \in 1..(k - 1) : L[i] \in 1..(n - 1)
  <2>1. ASSUME NEW i \in 1..(k - 1) PROVE L[i] \in 1..(n - 1)
    <3>1. L[i] \in 1..n /\ L[i] < n
      BY <1>5, <1>10, <1>11
    <3> QED
      BY <1>1, <3>1
  <2> QED
    BY <2>1
<1>13. J \in [1..(k - 1) -> 1..(n - 1)] /\ \A i \in 1..(k - 1) : J[i] = L[i]
  BY <1>12
<1> HIDE DEF J
<1>14. \A i, j \in 1..(k - 1) : i < j => J[i] < J[j]
  BY <1>5, <1>11, <1>13
<1>15. ASSUME NEW r \in 1..(n - 1), Below(ag2, r).do \in LoopEnds
       PROVE  \E i \in 1..(k - 1) : J[i] = r
  <2>1. r \in 1..n /\ r # n
    BY <1>1
  <2>2. PICK i \in 1..k : L[i] = r
    BY <1>2, <1>6, <1>15, <2>1
  <2> QED
    BY <1>10, <1>11, <1>13, <2>1, <2>2
<1>16. ASSUME NEW i \in 1..(k - 1)
       PROVE  /\ Below(ag2, J[i]).do \in LoopEnds
              /\ \A x \in {lp2[i].brk, lp2[i].cont} : x \in DOMAIN E /\ E[x] = dep[J[i]]
  <2>1. lp2[i] = lp[i]
    BY DEF k
  <2>2. i \in 1..k /\ J[i] = L[i] /\ L[i] \in 1..(n - 1)
    BY <1>11, <1>12, <1>13
  <2>3. Below(ag2, L[i]) = Below(ag, L[i])
    BY <1>2, <2>2
  <2> QED
    BY <1>7, <2>1, <2>2, <2>3 DEF Extends
<1>17. ASSUME NEW j \in 1..Len(rg)
       PROVE  /\ rg[j].depth \in 0..(k - 1)
              /\ \A i \in 1..(k - 1) : rg[j].depth >= i <=> j > dep[J[i]]
  <2>1. rg[j].depth \in 0..k /\ \A i \in 1..k : rg[j].depth >= i <=> j > dep[L[i]]
    BY <1>8
  <2>2. ~(j > dep[L[k]])
    BY <1>9, <1>10
  <2>3. ~(rg[j].depth >= k)
    BY <1>11, <2>1, <2>2
  <2>4. rg[j].depth \in 0..(k - 1)
    BY <1>1, <2>1, <2>3
  <2> QED
    BY <1>11, <1>13, <2>1, <2>4
<1>18. Len(lp2) = k - 1
  BY DEF k
<1>19. Looped(ag2, lp2, rg, E, dep, J)
  BY <1>1, <1>13, <1>14, <1>15, <1>16, <1>17, <1>18 DEF Looped
<1> QED
  BY <1>10, <1>19 DEF J, k, Shorter

-----------------------------------------------------------------------------
\* All of it: the levels of the blocks that are numbered, and the plan of what is left.
Paced(ag, cur, bs, nb, lp, rg, D, M, dep, L) ==
  /\ Levels(bs, D, M) /\ DOMAIN D = 0..(nb - 1)
  /\ Planned(ag, Len(rg), dep)
  /\ Held(ag, cur, bs, D, M, dep)
  /\ Kept(ag, cur, bs, rg, D, M)
  /\ Looped(ag, lp, rg, D, dep, L)
  /\ Poised(ag, cur, bs, Len(rg), M)

\* How a step goes on with the block that was built.
GoesOn(ag, cur, bs, cs, cur2) ==
  \/ cur \notin DOMAIN bs \/ Ended(cs, cur) \/ ag[1].do \in Joins
  \/ cur2 = cur /\ cs[cur].term = bs[cur].term

\* What a point carries when it is put.
Carries(p, cur, bs, D, M, d) ==
  /\ \A x \in Entries(p) : x \in DOMAIN D /\ D[x] = d
  /\ \A x \in Owned(p) : x # cur
  /\ \A x \in Waiting(p) : x \in DOMAIN bs /\ ~Ended(bs, x) /\ M[x] = d
  /\ \A x \in Later(p) : x \notin DOMAIN bs
  /\ \A x \in Begun(p) : x \in DOMAIN bs /\ (Ended(bs, x) \/ (x = cur /\ bs[x].term = Unreachable))

LEMMA LevelOn ==
  ASSUME NEW S, NEW ag \in Seq(S), ag # <<>>, NEW d \in Int, NEW dep, Planned(ag, d, dep),
         ag[1].do # "return_end", After(ag, <<>>) # <<>>
  PROVE  Level(After(ag, <<>>), d + Delta(ag[1])) = Level(ag, d) + Delta(ag[1])
<1> DEFINE n == Len(ag)
           ag2 == After(ag, <<>>)
           p == ag[1]
           q == ag2[1]
<1>0. n \in Nat \ {0}
  BY BelowPop
<1>1. Len(ag2) = n - 1 /\ ag2 \in Seq(S)
  BY BelowPop
<1>2. \A r \in 1..(n - 1) : Below(ag2, r) = Below(ag, r)
  BY BelowPop
<1>3. Below(ag, n) = p
  BY <1>0, BelowFirst
<1>4. Len(ag2) \in Nat \ {0}
  BY <1>1, EmptySeq
<1>5. n - 1 \in 1..(n - 1) /\ n - 1 \in 1..n /\ n \in 2..n /\ n - 1 < n /\ (n - 1) + 1 = n
      /\ n \in 1..n /\ n > 1
  BY <1>0, <1>1, <1>4
<1>6. Below(ag, n - 1) = q
  <2>1. Below(ag2, n - 1) = q
    BY <1>1, <1>4, BelowFirst
  <2> QED
    BY <1>2, <1>5, <2>1
<1>7. dep[n] = d /\ dep[n - 1] = dep[n] + Delta(p) /\ PlannedAt(ag, n, dep)
      /\ PlannedAt(ag, n - 1, dep)
  BY <1>3, <1>5 DEF Planned
<1>8. Level(ag, d) = IF p.do \in Closing THEN 0 ELSE d
  BY DEF Level
<1>9. Level(ag2, d + Delta(p)) = IF q.do \in Closing THEN 0 ELSE d + Delta(p)
  BY DEF Level
<1> HIDE DEF n, ag2, p, q
<1>10. CASE p.do = "test"
  <2>1. Delta(p) = 0 /\ p.do \in Closing
    BY <1>10 DEF Delta, Closing
  <2>2. q.do \in Closing \cup {"finish"}
    BY <1>3, <1>6, <1>7, <1>10 DEF PlannedAt
  <2>3. q.do = "finish" => dep[n - 1] = 0
    BY <1>6, <1>7 DEF PlannedAt
  <2>4. q.do = "finish" => d + Delta(p) = 0
    BY <1>7, <2>3
  <2> QED
    BY <1>8, <1>9, <2>1, <2>2, <2>4 DEF p, ag2
<1>11. CASE p.do # "test"
  <2>1. p.do \notin Closing
    BY <1>11 DEF Closing, p
  <2>2. q.do \in Closing => dep[n - 1] = 0
    BY <1>3, <1>5, <1>6, <1>7, <1>11 DEF PlannedAt, n
  <2>3. Delta(p) \in Int
    BY DEF Delta
  <2> QED
    BY <1>7, <1>8, <1>9, <2>1, <2>2, <2>3 DEF p, ag2
<1> QED
  BY <1>10, <1>11 DEF p, ag2

LEMMA PoisedOn ==
  ASSUME NEW S, NEW ag \in Seq(S), ag # <<>>, NEW d \in Int, NEW dep, Planned(ag, d, dep),
         ag[1].do # "return_end", NEW cur2, NEW cs, NEW N,
         cur2 # NoBlock => /\ N[cur2] = Level(ag, d) + Delta(ag[1])
                           /\ d + Delta(ag[1]) # 0 => ~Ended(cs, cur2)
  PROVE  Poised(After(ag, <<>>), cur2, cs, d + Delta(ag[1]), N)
  BY LevelOn DEF Poised

LEMMA PoisedGone ==
  ASSUME NEW S, NEW ag \in Seq(S), ag # <<>>, NEW d, NEW dep, Planned(ag, d, dep),
         Leaves(ag[1]), NEW cur2, NEW cs, NEW N, NEW d2,
         cur2 # NoBlock => Ended(cs, cur2)
  PROVE  Poised(After(ag, <<>>), cur2, cs, d2, N)
<1> DEFINE n == Len(ag)
           ag2 == After(ag, <<>>)
<1>0. n \in Nat \ {0}
  BY BelowPop
<1>1. Len(ag2) = n - 1
  BY BelowPop
<1>2. \A r \in 1..(n - 1) : Below(ag2, r) = Below(ag, r)
  BY BelowPop
<1>3. Below(ag, n) = ag[1] /\ n \in 1..n
  BY <1>0, BelowFirst
<1>4. n > 1 /\ Resumes(Below(ag, n - 1))
  BY <1>3 DEF Planned, PlannedAt
<1>5. n - 1 \in 1..(n - 1) /\ n - 1 \in Nat \ {0}
  BY <1>0, <1>4
<1>6. Below(ag2, n - 1) = ag2[1]
  BY <1>1, <1>5, BelowFirst
<1>7. Resumes(ag2[1])
  BY <1>2, <1>4, <1>5, <1>6
<1> QED
  BY <1>7 DEF Poised

LEMMA CarriesHeld ==
  ASSUME NEW ag, NEW r, NEW cur, NEW bs, NEW D, NEW M, NEW dep,
         Carries(Below(ag, r), cur, bs, D, M, dep[r]),
         \A q \in (r + 1)..Len(ag) : Below(ag, q).do \notin Joins
  PROVE  HeldAt(ag, r, cur, bs, D, M, dep)
  BY DEF HeldAt, Carries

LEMMA PlannedDown ==
  ASSUME NEW S, NEW ag \in Seq(S), ag # <<>>, NEW d \in Nat, NEW dep, Planned(ag, d, dep),
         Delta(ag[1]) = 0
  PROVE  /\ Planned(After(ag, <<>>), d, dep) /\ Onwards(ag, After(ag, <<>>))
         /\ Len(ag) \in Nat \ {0} /\ Len(After(ag, <<>>)) = Len(ag) - 1
<1>1. d \in Int /\ d = d + Delta(ag[1])
  OBVIOUS
<1> QED
  BY <1>1, PlannedPop, BelowPop

\* A point is done, with the loops and the regions as they were.
LEMMA PopsOn ==
  ASSUME NEW S, NEW ag \in Seq(S), ag # <<>>, NEW cur, NEW bs, NEW nb,
         NEW lp, Len(lp) \in Nat, NEW rg, Len(rg) \in Nat, NEW D, NEW M, NEW dep, NEW L,
         Paced(ag, cur, bs, nb, lp, rg, D, M, dep, L),
         Delta(ag[1]) = 0, ag[1].do \notin LoopEnds,
         NEW cs, NEW E, NEW N, Becomes(bs, D, M, Touched(ag, cur), cs, E, N),
         NEW nb2, DOMAIN E = 0..(nb2 - 1),
         NEW cur2, cur2 \in Touched(ag, cur) \/ cur2 \notin DOMAIN D,
         GoesOn(ag, cur, bs, cs, cur2), Poised(After(ag, <<>>), cur2, cs, Len(rg), N)
  PROVE  Paced(After(ag, <<>>), cur2, cs, nb2, lp, rg, E, N, dep, L)
<1> DEFINE n == Len(ag)
           ag2 == After(ag, <<>>)
           T == Touched(ag, cur)
<1>0. n \in Nat \ {0}
  BY BelowPop
<1>1. Len(ag2) = n - 1
  BY BelowPop
<1>2. Planned(ag2, Len(rg), dep) /\ Onwards(ag, ag2)
  <2>1. Planned(ag, Len(rg), dep) /\ Len(rg) \in Int /\ Len(rg) = Len(rg) + Delta(ag[1])
    BY DEF Paced
  <2> QED
    BY <2>1, PlannedPop
<1>3. /\ Levels(bs, D, M) /\ Held(ag, cur, bs, D, M, dep) /\ Kept(ag, cur, bs, rg, D, M)
      /\ Looped(ag, lp, rg, D, dep, L) /\ Planned(ag, Len(rg), dep)
  BY DEF Paced
<1>4. (\A r \in 1..(n - 1) : Owned(Below(ag, r)) \cap T = {})
      /\ \A j \in 1..Len(rg) : rg[j].exit \notin T
  BY <1>0, <1>3, Untouched, UntouchedExits
<1>5. /\ \A r \in 1..(n - 1) : dep[r] = dep[r]
      /\ ~(Len(ag2) >= n) /\ n..Len(ag2) = {}
  BY <1>0, <1>1
<1> HIDE DEF n, ag2, T
<1>6. \/ cur \notin DOMAIN bs \/ Ended(cs, cur) \/ ag[1].do \in Joins
      \/ /\ cur2 = cur /\ cs[cur].term = bs[cur].term
         /\ \A r \in n..Len(ag2) : Below(ag2, r).do \notin Joins
  BY <1>5 DEF GoesOn
<1>7. Held(ag2, cur2, cs, E, N, dep)
  BY <1>2, <1>3, <1>4, <1>5, <1>6, HoldsOn DEF n, T
<1>8. Kept(ag2, cur2, cs, rg, E, N)
  BY <1>2, <1>3, <1>4, <1>5, KeepsOn DEF n, T
<1>9. Looped(ag2, lp, rg, E, dep, L)
  <2>1. Extends(E, D)
    BY DEF Becomes
  <2> QED
    BY <1>2, <1>3, <1>5, <2>1, LoopsOn DEF n
<1> QED
  BY <1>2, <1>7, <1>8, <1>9 DEF Paced, Becomes, ag2

\* Points take its place.
LEMMA PlannedOn ==
  ASSUME NEW S, NEW ag \in Seq(S), ag # <<>>, NEW d \in Nat, NEW dep, Planned(ag, d, dep),
         Delta(ag[1]) = 0, ag[1].do # "test",
         NEW pts \in Seq(S), pts # <<>>, Settled(ag, pts)
  PROVE  /\ Planned(After(ag, pts), d, Filled(dep, Len(ag), d)) /\ Onwards(ag, After(ag, pts))
         /\ Len(ag) \in Nat \ {0} /\ Len(After(ag, pts)) \in Nat
         /\ Len(After(ag, pts)) >= Len(ag)
         /\ \A r \in 1..(Len(ag) - 1) : Filled(dep, Len(ag), d)[r] = dep[r]
         /\ Filled(dep, Len(ag), d)[Len(ag)] = d
         /\ Below(After(ag, pts), Len(ag)) = pts[Len(pts)]
<1> DEFINE n == Len(ag)
           m == Len(pts)
           ag2 == After(ag, pts)
<1>1. n \in Nat \ {0} /\ m \in Nat \ {0}
  BY BelowPop, EmptySeq
<1>2. Len(ag2) = m + n - 1
  BY BelowThen
<1>3. \A k \in 1..m : Below(ag2, m + n - k) = pts[k]
  BY BelowThen
<1>4. Planned(ag2, d, Filled(dep, n, d)) /\ Onwards(ag, ag2)
  BY PlannedPush
<1>5. dep \in [Nat -> Nat]
  BY DEF Planned
<1> HIDE DEF n, m, ag2
<1>6. n \in Nat /\ n >= n /\ \A r \in 1..(n - 1) : r \in Nat /\ r < n
  BY <1>1
<1>7. /\ \A r \in Nat : r < n => Filled(dep, n, d)[r] = dep[r]
      /\ \A r \in Nat : r >= n => Filled(dep, n, d)[r] = d
  BY <1>5, <1>6, FilledTyped
<1>8. m \in 1..m /\ m + n - m = n /\ Len(ag2) >= n /\ Len(ag2) \in Nat
  BY <1>1, <1>2
<1>9. Below(ag2, n) = pts[m]
  BY <1>3, <1>8
<1>10. /\ \A r \in 1..(n - 1) : Filled(dep, n, d)[r] = dep[r]
       /\ Filled(dep, n, d)[n] = d
  BY <1>6, <1>7
<1> QED
  BY <1>1, <1>4, <1>8, <1>9, <1>10 DEF n, m, ag2

\* What they hold, but for the loops.
PacedBut(ag, cur, bs, nb, rg, D, M, dep) ==
  /\ Levels(bs, D, M) /\ DOMAIN D = 0..(nb - 1)
  /\ Planned(ag, Len(rg), dep)
  /\ Held(ag, cur, bs, D, M, dep)
  /\ Kept(ag, cur, bs, rg, D, M)
  /\ Poised(ag, cur, bs, Len(rg), M)

LEMMA PushesHeld ==
  ASSUME NEW S, NEW ag \in Seq(S), ag # <<>>, NEW cur, NEW bs, NEW nb,
         NEW rg, Len(rg) \in Nat, NEW D, NEW M, NEW dep,
         PacedBut(ag, cur, bs, nb, rg, D, M, dep),
         Delta(ag[1]) = 0, ag[1].do # "test",
         NEW pts \in Seq(S), pts # <<>>, Settled(ag, pts),
         NEW cs, NEW E, NEW N, Becomes(bs, D, M, Touched(ag, cur), cs, E, N),
         NEW nb2, DOMAIN E = 0..(nb2 - 1),
         NEW cur2, cur2 \in Touched(ag, cur) \/ cur2 \notin DOMAIN D,
         \/ cur \notin DOMAIN bs \/ Ended(cs, cur) \/ ag[1].do \in Joins
         \/ cur2 = cur /\ cs[cur].term = bs[cur].term /\ pts[Len(pts)].do \notin Joins,
         Carries(pts[Len(pts)], cur2, cs, E, N, Len(rg)),
         \A x \in Owned(pts[Len(pts)]) : x \in Touched(ag, cur) \/ x \notin DOMAIN D,
         Poised(After(ag, pts), cur2, cs, Len(rg), N)
  PROVE  PacedBut(After(ag, pts), cur2, cs, nb2, rg, E, N, Filled(dep, Len(ag), Len(rg)))
<1> DEFINE n == Len(ag)
           m == Len(pts)
           ag2 == After(ag, pts)
           T == Touched(ag, cur)
           dep2 == Filled(dep, n, Len(rg))
           p == pts[m]
<1>1. /\ Levels(bs, D, M) /\ Held(ag, cur, bs, D, M, dep) /\ Kept(ag, cur, bs, rg, D, M)
      /\ Planned(ag, Len(rg), dep)
  BY DEF PacedBut
<1>2. /\ Planned(ag2, Len(rg), dep2) /\ Onwards(ag, ag2)
      /\ n \in Nat \ {0} /\ Len(ag2) \in Nat
      /\ \A r \in 1..(n - 1) : dep2[r] = dep[r]
      /\ dep2[n] = Len(rg)
      /\ Below(ag2, n) = p
  BY <1>1, PlannedOn
<1>3. (\A r \in 1..(n - 1) : Owned(Below(ag, r)) \cap T = {})
      /\ \A j \in 1..Len(rg) : rg[j].exit \notin T
  BY <1>1, <1>2, Untouched, UntouchedExits
<1> HIDE DEF n, m, ag2, T, dep2, p
<1>4. \A r \in (n + 1)..Len(ag2) : Below(ag2, r).do \notin Joins
  BY <1>2 DEF Onwards, n
<1>5. HeldAt(ag2, n, cur2, cs, E, N, dep2)
  BY <1>2, <1>4, CarriesHeld DEF p, m
<1>6. \/ cur \notin DOMAIN bs \/ Ended(cs, cur) \/ ag[1].do \in Joins
      \/ /\ cur2 = cur /\ cs[cur].term = bs[cur].term
         /\ \A r \in n..Len(ag2) : Below(ag2, r).do \notin Joins
  <2>1. \A r \in n..Len(ag2) : r = n \/ r \in (n + 1)..Len(ag2)
    BY <1>2
  <2> QED
    BY <1>2, <1>4, <2>1 DEF p, m
<1>7. \A x \in Owned(Below(ag2, n)) : x \in T \/ x \notin DOMAIN D
  BY <1>2 DEF p, m, T
<1>8. Held(ag2, cur2, cs, E, N, dep2)
  BY <1>1, <1>2, <1>3, <1>5, <1>6, <1>7, HoldsOn DEF n, T
<1>9. Kept(ag2, cur2, cs, rg, E, N)
  BY <1>1, <1>2, <1>3, <1>7, KeepsOn DEF n, T
<1> QED
  BY <1>2, <1>8, <1>9 DEF PacedBut, Becomes, ag2, dep2, n

LEMMA PushesOn ==
  ASSUME NEW S, NEW ag \in Seq(S), ag # <<>>, NEW d \in Nat, NEW dep, Planned(ag, d, dep),
         Delta(ag[1]) = 0, ag[1].do # "test", ag[1].do \notin LoopEnds,
         NEW pts \in Seq(S), pts # <<>>, Settled(ag, pts), pts[Len(pts)].do \notin LoopEnds,
         NEW lp, Len(lp) \in Nat, NEW rg, Len(rg) = d, NEW D, NEW L,
         Looped(ag, lp, rg, D, dep, L), NEW E, Extends(E, D)
  PROVE  Looped(After(ag, pts), lp, rg, E, Filled(dep, Len(ag), d), L)
<1> DEFINE n == Len(ag)
           ag2 == After(ag, pts)
           dep2 == Filled(dep, n, d)
<1>1. /\ Onwards(ag, ag2) /\ \A r \in 1..(n - 1) : dep2[r] = dep[r]
      /\ Below(ag2, n) = pts[Len(pts)]
  BY PlannedOn
<1>2. Below(ag2, n).do \notin LoopEnds
  BY <1>1
<1>3. \A j \in 1..Len(rg) : rg[j] = rg[j]
  OBVIOUS
<1> HIDE DEF n, ag2, dep2
<1>4. Looped(ag2, lp, rg, E, dep2, L)
  BY <1>1, <1>2, <1>3, LoopsOn DEF n
<1> QED
  BY <1>4 DEF n, ag2, dep2

LEMMA PushesInto ==
  ASSUME NEW S, NEW ag \in Seq(S), ag # <<>>, NEW d \in Nat, NEW dep, Planned(ag, d, dep),
         Delta(ag[1]) = 0, ag[1].do # "test", ag[1].do \notin LoopEnds,
         NEW pts \in Seq(S), pts # <<>>, Settled(ag, pts), pts[Len(pts)].do \in LoopEnds,
         NEW K, NEW lp \in Seq(K), NEW rg, Len(rg) = d, NEW D, NEW L,
         Looped(ag, lp, rg, D, dep, L), NEW E, Extends(E, D),
         NEW loop \in K, \A x \in {loop.brk, loop.cont} : x \in DOMAIN E /\ E[x] = d
  PROVE  Looped(After(ag, pts), Append(lp, loop), rg, E, Filled(dep, Len(ag), d),
                Longer(L, Len(lp), Len(ag)))
<1> DEFINE n == Len(ag)
           ag2 == After(ag, pts)
           dep2 == Filled(dep, n, d)
           lp2 == Append(lp, loop)
<1>1. /\ Onwards(ag, ag2) /\ (\A r \in 1..(n - 1) : dep2[r] = dep[r]) /\ dep2[n] = d
      /\ Below(ag2, n) = pts[Len(pts)] /\ Len(ag2) >= n
  BY PlannedOn
<1>2. Below(ag2, n).do \in LoopEnds
  BY <1>1
<1>3. /\ Len(lp2) = Len(lp) + 1 /\ lp2[Len(lp) + 1] = loop /\ Len(lp) \in Nat
      /\ \A i \in 1..Len(lp) : lp2[i] = lp[i]
  OBVIOUS
<1> HIDE DEF n, ag2, dep2, lp2
<1>5. /\ Len(rg) \in Nat /\ dep2[Len(ag)] = Len(rg) /\ Len(ag2) >= Len(ag)
      /\ Below(ag2, Len(ag)).do \in LoopEnds
      /\ \A r \in 1..(Len(ag) - 1) : dep2[r] = dep[r]
      /\ \A x \in {loop.brk, loop.cont} : x \in DOMAIN E /\ E[x] = Len(rg)
  BY <1>1, <1>2 DEF n
<1>7. Onwards(ag, ag2) /\ (\A r \in 1..(Len(ag) - 1) : dep2[r] = dep[r])
  BY <1>1, <1>5
<1>6. Looped(ag2, lp2, rg, E, dep2,
             Longer(L, Len(lp), Len(ag)))
  BY <1>3, <1>5, <1>7, LoopsInto, SMTT(30)
<1> QED
  BY <1>6 DEF n, ag2, dep2, lp2

\* A loop ends.
LEMMA PopsLoop ==
  ASSUME NEW S, NEW ag \in Seq(S), ag # <<>>, NEW cur, NEW bs, NEW nb,
         NEW lp, Len(lp) \in Nat, NEW rg, Len(rg) \in Nat, NEW D, NEW M, NEW dep, NEW L,
         Paced(ag, cur, bs, nb, lp, rg, D, M, dep, L), ag[1].do \in LoopEnds,
         NEW cs, NEW N, Becomes(bs, D, M, Touched(ag, cur), cs, D, N),
         NEW cur2 \in Touched(ag, cur),
         cur2 # NoBlock => N[cur2] = Len(rg) /\ ~Ended(cs, cur2),
         NEW lp2, Len(lp2) = Len(lp) - 1, \A i \in 1..(Len(lp) - 1) : lp2[i] = lp[i]
  PROVE  Paced(After(ag, <<>>), cur2, cs, nb, lp2, rg, D, N, dep,
               Shorter(L, Len(lp)))
<1> DEFINE n == Len(ag)
           ag2 == After(ag, <<>>)
           T == Touched(ag, cur)
<1>0. n \in Nat \ {0}
  BY BelowPop
<1>1. Len(ag2) = n - 1
  BY BelowPop
<1>a. Delta(ag[1]) = 0 /\ ag[1].do # "return_end" /\ ag[1].do \in Joins /\ ag[1].do \notin Closing
  BY DEF Delta, LoopEnds, Joins, Closing
<1>2. Planned(ag2, Len(rg), dep) /\ Onwards(ag, ag2)
  BY <1>a, PlannedDown DEF Paced
<1>3. /\ Levels(bs, D, M) /\ Held(ag, cur, bs, D, M, dep) /\ Kept(ag, cur, bs, rg, D, M)
      /\ Looped(ag, lp, rg, D, dep, L) /\ Planned(ag, Len(rg), dep) /\ DOMAIN D = 0..(nb - 1)
  BY DEF Paced
<1>4. (\A r \in 1..(n - 1) : Owned(Below(ag, r)) \cap T = {})
      /\ \A j \in 1..Len(rg) : rg[j].exit \notin T
  BY <1>0, <1>3, Untouched, UntouchedExits
<1>5. /\ \A r \in 1..(n - 1) : dep[r] = dep[r]
      /\ ~(Len(ag2) >= n) /\ n..Len(ag2) = {}
  BY <1>0, <1>1
<1>6. Poised(ag2, cur2, cs, Len(rg), N)
  <2>1. Level(ag, Len(rg)) + Delta(ag[1]) = Len(rg) /\ Len(rg) + Delta(ag[1]) = Len(rg)
        /\ Len(rg) \in Int
    BY <1>a DEF Level
  <2> QED
    BY <1>3, <1>a, <2>1, PoisedOn
<1> HIDE DEF n, ag2, T
<1>7. Held(ag2, cur2, cs, D, N, dep)
  BY <1>a, <1>2, <1>3, <1>4, <1>5, HoldsOn DEF n, T
<1>8. Kept(ag2, cur2, cs, rg, D, N)
  BY <1>2, <1>3, <1>4, <1>5, KeepsOn DEF n, T
<1>9. Looped(ag2, lp2, rg, D, dep, Shorter(L, Len(lp)))
  <2>1. Extends(D, D)
    BY DEF Extends
  <2> QED
    BY <1>1, <1>2, <1>3, <2>1, LoopsOut DEF n
<1> QED
  BY <1>2, <1>3, <1>6, <1>7, <1>8, <1>9 DEF Paced, Becomes, ag2

-----------------------------------------------------------------------------
\* Both stages: the builder's invariant while there is something left to build, the
\* optimiser's from then on.
StagesInv ==
  /\ ~Built => LowerInv /\ level \in 0..3 /\ Idle
  /\ Built => Sure

LEMMA InitStages == StagesInit => StagesInv
<1> SUFFICES ASSUME StagesInit PROVE StagesInv
  OBVIOUS
<1>1. LowerInv /\ ~Built /\ program \in Programs
  BY LowerBegins DEF StagesInit
<1>2. level \in 0..3 /\ Idle
  BY <1>1, ProgramsAssumption DEF StagesInit
<1> QED
  BY <1>1, <1>2 DEF StagesInv

LEMMA LoweringStage == ASSUME StagesInv, Lowering PROVE StagesInv'
<1>1. LowerInv /\ level \in 0..3 /\ Idle
  BY NotBuilt DEF StagesInv, Lowering
<1>2. LowerInv'
  BY <1>1, LowerStep DEF Lowering
<1>3. level' \in 0..3 /\ Idle'
  BY <1>1 DEF Lowering, foldVars, markVars, reachVars, Idle
<1>4. ASSUME Built' PROVE Sure'
  <2>1. LowerInv' /\ Built' => WellFormed(blocks)'
    BY Complete, PTL
  <2>2. Init'
    BY <1>2, <1>3, <1>4, <2>1 DEF Init
  <2>3. IInv'
    BY <2>2, InitIInv, PTL
  <2> QED
    BY <1>3, <2>3, InitSure, PTL
<1> QED
  BY <1>2, <1>3, <1>4 DEF StagesInv

LEMMA OptimizingStage == ASSUME StagesInv, Optimizing PROVE StagesInv'
<1>1. Built /\ Built' /\ Sure /\ Next
  BY DEF StagesInv, Optimizing, Built, lowerVars
<1>2. Sure'
  BY <1>1, StepSure
<1> QED
  BY <1>1, <1>2 DEF StagesInv

LEMMA StepStages == StagesInv /\ [StagesNext]_<<vars, lowerVars>> => StagesInv'
<1> SUFFICES ASSUME StagesInv, [StagesNext]_<<vars, lowerVars>> PROVE StagesInv'
  OBVIOUS
<1>1. CASE Lowering
  BY <1>1, LoweringStage
<1>2. CASE Optimizing
  BY <1>2, OptimizingStage
<1>3. CASE UNCHANGED <<vars, lowerVars>>
  <2>1. Built' = Built /\ UNCHANGED vars
    BY <1>3 DEF Built, lowerVars
  <2>2. CASE Built
    BY <2>1, <2>2, StepSure DEF StagesInv
  <2>3. CASE ~Built
    BY <1>3, <2>1, <2>3 DEF StagesInv, lowerVars, layout, vars, foldVars, markVars, reachVars, Idle,
       LowerInv, Listed, Numbered, Placed, Shaped, Scoped, Nested, Promised
  <2> QED
    BY <2>2, <2>3
<1> QED
  BY <1>1, <1>2, <1>3 DEF StagesNext

\* The invariant of the two stages, for any program the type checker hands over
\* (mir_builder/, optimization.rs).
THEOREM StagesKept == StagesSpec => []StagesInv
  BY InitStages, StepStages, PTL DEF StagesSpec

\* Whatever the statements and however they are nested, the builder leaves no jump to a
\* block that it only numbered, code the optimiser and code generation cannot read, or a
\* function without its entry (mir_builder/statements.rs, control_flow.rs), and the
\* optimiser works on it within its types.
THEOREM PipelineTyped == StagesSpec => []PipelineTypeOK
<1>1. ASSUME StagesInv PROVE PipelineTypeOK
  <2>1. CASE Built
    BY <1>1, <2>1 DEF StagesInv, Sure, IInv, PipelineTypeOK
  <2>2. CASE ~Built
    <3>1. LowerInv /\ level \in 0..3 /\ Idle
      BY <1>1, <2>2 DEF StagesInv
    <3>2. blocks \in [DOMAIN blocks -> Block]
      <4>1. Sound \subseteq Instruction
        BY DEF Sound
      <4>2. Seq(Sound) \subseteq Seq(Instruction)
        BY <4>1, SeqsGrow
      <4>3. SoundBlock \subseteq Block
        BY <4>2 DEF SoundBlock, Block
      <4> QED
        BY <3>1, <4>3 DEF LowerInv, Shaped, Graph
    <3> QED
      BY <2>2, <3>1, <3>2 DEF PipelineTypeOK, TypeOK, Idle
  <2> QED
    BY <2>1, <2>2
<1> QED
  BY <1>1, StagesKept, PTL

\* What the optimiser keeps it keeps of every function the builder makes: no instruction with
\* a side effect is touched, and a value that is read has all its definitions.
THEOREM BuiltCodeKept == StagesSpec => []NeededKept
<1>1. ASSUME StagesInv PROVE NeededKept
  BY <1>1 DEF StagesInv, Sure, IInv, Idle, NeededKept
<1> QED
  BY <1>1, StagesKept, PTL

\* An optimised function shows what it showed as it was built: whatever the statements, the
\* order in which the blocks were folded and the number of rounds, each run of one is matched
\* by a run of the other that prints the same, makes the same calls, raises the same errors
\* and ends alike (optimization.rs).  The steps of the two runs are matched one by one; the
\* values they hold may differ, but not in one that is still read.
THEOREM OptimizedShowsTheSame == StagesSpec => []OptimizingKept
<1>1. ASSUME StagesInv PROVE OptimizingKept
  <2> SUFFICES ASSUME pass = "end", Ordinary
               PROVE  AsRun(program, blocks) = AsRun(program, source)
    BY DEF OptimizingKept
  <2>1. Sure
    BY <1>1 DEF StagesInv, Idle
  <2>2. PICK K : Certified(source, blocks, K) /\ Learned(K)
    BY <2>1 DEF Sure, Justified
  <2>3. Enclosed(source, blocks)
    <3>1. ASSUME NEW b \in DOMAIN blocks
          PROVE  /\ Targets(blocks[b].term) \subseteq DOMAIN blocks
                 /\ blocks[b].term.kind \in {"jump", "branch", "return", "unreachable", "trap"}
      <4>1. blocks[b] \in Block
        BY <2>1, <3>1 DEF Sure, IInv, TypeOK
      <4> QED
        BY <2>1, <3>1, <4>1 DEF Sure, IInv, WellFormed, Block, Terminator
    <3>2. ASSUME NEW b \in DOMAIN blocks, NEW i \in DOMAIN blocks[b].code
          PROVE  /\ blocks[b].code[i].exit \in DOMAIN blocks \cup {NoBlock}
                 /\ blocks[b].code[i] = Gone =>
                      source[b].code[i].op # "opaque" /\ source[b].code[i].sym \notin {"div", "rem"}
      <4>1. blocks[b].code[i] \in Code(blocks)
        BY <3>2, InCode
      <4>2. i \in DOMAIN source[b].code
        BY <2>1, <3>2 DEF Sure, IInv, SameShape
      <4> QED
        BY <3>2, <4>1, <4>2 DEF Ordinary
    <3> QED
      BY <3>1, <3>2 DEF Enclosed
  <2>4. DOMAIN K \cap DOMAIN program.params = {}
    BY <2>2 DEF Learned, Learnable, Ordinary
  <2>5. Entry \in DOMAIN blocks
    BY <2>1 DEF Sure, IInv, WellFormed
  <2>6. \A s \in Ran(program, source) : ~s.unset
    BY DEF Ordinary
  <2> QED
    BY <2>2, <2>3, <2>4, <2>5, <2>6, RunsShowTheSame
<1> QED
  BY <1>1, StagesKept, PTL

=============================================================================
