-------------------------- MODULE MirRegionsProofs -------------------------
(***************************************************************************)
(* Every run of a function leaves the error regions it entered.  A region  *)
(* is entered and left by calls that the builder puts into blocks it fills *)
(* much later, or leaves for good in the middle of; so what is kept is a   *)
(* level for every block: the number of regions in which it is entered     *)
(* (D) and left (M), the instructions between being a walk from one to     *)
(* the other (Walk), every jump going to a block of the level it leaves    *)
(* in, and every return leaving at 0 (Levels).  While the builder works    *)
(* the agenda says in how many regions each of its points will be built    *)
(* (Planned), at what height the loops that a jump can leave end (Looped), *)
(* and which blocks no one has begun yet wait for a point and at what      *)
(* level (Held, Kept).  The optimiser touches no call and no check, so the *)
(* walks stay (WalkKept), and a run of the blocks is at every step as deep *)
(* as the level of its block and the walk so far say (Going).              *)
(***************************************************************************)
EXTENDS MirStagesProofs

-----------------------------------------------------------------------------
\* The builder keeps the levels.
Here(D, M, dep, L) ==
  Paced(agenda, current, blocks, nextBlock, loops, regions, D, M, dep, L)
Balanced == \E D, M, dep, L : Here(D, M, dep, L)

\* What is left to do is tidy.
Neat(s) ==
  /\ Range(s.body) \cup Range(s.other) \subseteq Inside(program.body)
  /\ Live(s.body) /\ Live(s.other)
  /\ s.kind = "for" => FallsThrough(s.body)
  /\ Fair(s.expr) /\ Fair(s.upto)
  /\ s.kind = "ensure" => s.expr.kind # "call"
Firm(e) == Fair(e) /\ e.kind # "call"
Apart(p) ==
  /\ p.do \in {"for_end", "range_end"} => p.at[4] # p.at[3]
  /\ p.do = "range_end" => p.at[4] # p.at[1]
Fitting ==
  /\ program \in Programs
  /\ \A p \in Range(agenda) : Apart(p)
  /\ \A p \in Range(agenda) : Neat(p.s)
  /\ \A e \in Range(ensures) : Firm(e)

LEMMA HereTyped ==
  ASSUME LowerInv, NEW D, NEW M, NEW dep, NEW L, Here(D, M, dep, L), agenda # <<>>
  PROVE  /\ agenda \in Seq(Tasks) /\ Len(agenda) \in Nat \ {0} /\ Head(agenda) = agenda[1]
         /\ The = agenda[1].s /\ At = agenda[1].at
         /\ Len(loops) \in Nat /\ Len(regions) \in Nat
         /\ Levels(blocks, D, M) /\ Planned(agenda, Len(regions), dep)
         /\ current \in DOMAIN blocks \cup {NoBlock} /\ NoBlock \notin DOMAIN blocks
         /\ nextBlock \in Nat /\ DOMAIN D = 0..(nextBlock - 1) /\ DOMAIN blocks \subseteq DOMAIN D
         /\ agenda[1] \in Tasks
<1>1. agenda \in Seq(Tasks) /\ loops \in Seq([cont : DOMAIN blocks, brk : DOMAIN blocks, scoped : BOOLEAN])
      /\ regions \in Seq([exit : DOMAIN blocks, depth : Nat])
  BY DEF LowerInv, Listed, Nested
<1>2. Len(agenda) \in Nat \ {0} /\ Head(agenda) = agenda[1] /\ agenda[1] \in Tasks
  BY <1>1, EmptySeq
<1>3. Len(loops) \in Nat /\ Len(regions) \in Nat
  BY <1>1
<1>4. Levels(blocks, D, M) /\ Planned(agenda, Len(regions), dep) /\ DOMAIN D = 0..(nextBlock - 1)
  BY DEF Here, Paced
<1>5. NoBlock \notin DOMAIN blocks /\ DOMAIN blocks \subseteq DOMAIN D
  BY <1>4 DEF Levels
<1>6. nextBlock \in Nat /\ current \in DOMAIN blocks \cup {NoBlock}
  BY CurrentPlaced DEF LowerInv, Numbered
<1> QED
  BY <1>1, <1>2, <1>3, <1>4, <1>5, <1>6 DEF The, At

LEMMA InnerLevel ==
  ASSUME LowerInv, NEW D, NEW M, NEW dep, NEW L, Here(D, M, dep, L), InnerExit # NoBlock
  PROVE  InnerExit \in DOMAIN D /\ D[InnerExit] = Len(regions)
<1>1. regions \in Seq([exit : DOMAIN blocks, depth : Nat])
  BY DEF LowerInv, Nested
<1>2. regions # <<>> /\ InnerExit = Last(regions).exit
  BY DEF InnerExit
<1>3. Last(regions) = regions[Len(regions)] /\ Len(regions) \in 1..Len(regions)
  BY <1>1, <1>2, EmptySeq DEF Last
<1>4. KeptAt(agenda, Len(regions), regions[Len(regions)].exit, current, blocks, D, M)
  BY <1>3 DEF Here, Paced, Kept
<1> QED
  BY <1>2, <1>3, <1>4 DEF KeptAt

LEMMA CurrentLevel ==
  ASSUME LowerInv, NEW D, NEW M, NEW dep, NEW L, Here(D, M, dep, L), agenda # <<>>,
         current # NoBlock, ~Resumes(agenda[1])
  PROVE  M[current] = Level(agenda, Len(regions))
  BY DEF Here, Paced, Poised

\* Expressions are even at the level the current block is at.
LEMMA LowersEven ==
  ASSUME LowerInv, NEW D, NEW M, NEW dep, NEW L, Here(D, M, dep, L),
         NEW e \in Expressions, Resolved(e), Fair(e), NEW k \in Nat \ {0},
         NEW E, Extends(E, D), NEW n, e.kind = "call" => n = Len(regions)
  PROVE  LowerFrom(e, k).code \in Seq(Even(E, n))
<1>1. e.kind = "call" /\ InnerExit # NoBlock => InnerExit \in DOMAIN E /\ E[InnerExit] = n
  BY InnerLevel DEF Extends
<1> QED
  BY <1>1, EvenExpressions DEF LowerInv

LEMMA HeadNeat ==
  ASSUME LowerInv, Fitting, agenda # <<>>
  PROVE  Neat(The) /\ The.expr \in Expressions /\ The.upto \in Expressions
<1>1. Head(agenda) \in Range(agenda) /\ The \in Syntax
  BY AgendaSplits
<1> QED
  BY <1>1 DEF Fitting, The, Syntax

LEMMA HeadLevel ==
  ASSUME LowerInv, NEW D, NEW M, NEW dep, NEW L, Here(D, M, dep, L), agenda # <<>>,
         agenda[1].do # "return_end", The.expr.kind = "call"
  PROVE  Level(agenda, Len(regions)) = Len(regions)
<1>1. /\ Planned(agenda, Len(regions), dep) /\ Len(agenda) \in Nat \ {0} /\ The = agenda[1].s
      /\ Len(regions) \in Nat
  BY HereTyped
<1>2. CASE agenda[1].do = "test"
  <2>1. Len(agenda) \in 1..Len(agenda) /\ Below(agenda, Len(agenda)) = agenda[1]
    BY <1>1, BelowFirst
  <2>2. dep[Len(agenda)] = 0 /\ dep[Len(agenda)] = Len(regions)
    BY <1>1, <1>2, <2>1 DEF Planned, PlannedAt
  <2> QED
    BY <2>2 DEF Level
<1>3. CASE agenda[1].do # "test"
  BY <1>3 DEF Level, Closing
<1> QED
  BY <1>2, <1>3

LEMMA HeadEven ==
  ASSUME LowerInv, Fitting, NEW D, NEW M, NEW dep, NEW L, Here(D, M, dep, L), agenda # <<>>,
         agenda[1].do # "return_end", ~Resumes(agenda[1]), Resolved(The.expr),
         NEW E, Extends(E, D)
  PROVE  current # NoBlock => Lower(The.expr).code \in Seq(Even(E, M[current]))
<1> SUFFICES ASSUME current # NoBlock PROVE Lower(The.expr).code \in Seq(Even(E, M[current]))
  OBVIOUS
<1>1. The.expr \in Expressions /\ Fair(The.expr) /\ nextValue \in Nat \ {0}
  BY HeadNeat DEF Neat, LowerInv, Numbered
<1>2. The.expr.kind = "call" => M[current] = Len(regions)
  BY CurrentLevel, HeadLevel
<1> QED
  BY <1>1, <1>2, LowersEven DEF Lower

-----------------------------------------------------------------------------
\* The points of a body, and of what comes behind it.
LEMMA BodySettled ==
  ASSUME NEW body \in Seq(Syntax), Live(body), \A s \in Range(body) : s.kind \in Kinds,
         NEW p, p.do \in Joins, p.do = "for_end" => FallsThrough(body), NEW ag
  PROVE  LET pts == Points(body) \o <<p>>
         IN /\ Settled(ag, pts) /\ pts[1].do \notin Closing /\ Len(pts) \in Nat \ {0}
            /\ pts[Len(pts)] = p /\ Points(body) \in Seq(Tasks)
<1> DEFINE m == Len(body)
           pts == Points(body) \o <<p>>
<1>1. m \in Nat /\ Points(body) \in Seq(Tasks) /\ Len(Points(body)) = m
      /\ \A k \in 1..m : Points(body)[k] = Point("stmt", body[k], <<>>)
  <2>1. Points(body) \in Seq(Tasks)
    BY PointsPlain
  <2>2. DOMAIN body = 1..m /\ m \in Nat
    OBVIOUS
  <2>3. DOMAIN Points(body) = 1..m /\ \A k \in 1..m : Points(body)[k] = Point("stmt", body[k], <<>>)
    BY <2>2 DEF Points
  <2> HIDE DEF m
  <2>4. Len(Points(body)) = m
    BY <2>1, <2>2, <2>3
  <2> QED
    BY <2>1, <2>2, <2>3, <2>4
<1>2. /\ Len(pts) = m + 1 /\ pts[m + 1] = p
      /\ \A k \in 1..m : pts[k] = Point("stmt", body[k], <<>>)
  <2>1. Len(<<p>>) = 1 /\ <<p>>[1] = p /\ <<p>> \in Seq({p})
    OBVIOUS
  <2>2. Points(body) \in Seq(Tasks \cup {p}) /\ <<p>> \in Seq(Tasks \cup {p})
    BY <1>1, <2>1, SeqsGrow
  <2> DEFINE head == Points(body)
             tail == <<p>>
  <2> HIDE DEF m, head, tail
  <2>3. /\ Len(head \o tail) = Len(head) + Len(tail)
        /\ \A k \in 1..Len(head) : (head \o tail)[k] = head[k]
        /\ \A k \in 1..Len(tail) : (head \o tail)[Len(head) + k] = tail[k]
    <3>1. head \in Seq(Tasks \cup {p}) /\ tail \in Seq(Tasks \cup {p})
      BY <2>2 DEF head, tail
    <3> QED
      BY <3>1
  <2> QED
    BY <1>1, <2>1, <2>3 DEF head, tail
<1>3. \A k \in 1..m : body[k] \in Range(body) /\ body[k].kind \in Kinds
  BY DEF Range
<1>4. \A k \in 1..(m - 1) : body[k].kind \notin Quits
  BY DEF Live
<1>5. p.do = "for_end" /\ m # 0 => body[m].kind \notin Quits
  BY <1>1 DEF FallsThrough
<1> HIDE DEF m, pts
<1>6. ASSUME NEW k \in 1..m
      PROVE  /\ pts[k].do = "stmt" /\ Delta(pts[k]) = 0
             /\ Leaves(pts[k]) => k = m /\ p.do # "for_end"
  <2>1. pts[k].do = "stmt" /\ pts[k].s = body[k]
    <3>1. pts[k] = Point("stmt", body[k], <<>>)
      BY <1>2
    <3> QED
      BY <3>1 DEF Point
  <2>2. body[k].kind \in Kinds
    BY <1>3
  <2>3. Delta(pts[k]) = 0
    BY <2>1, <2>2 DEF Delta, Kinds
  <2>4. k = m \/ k \in 1..(m - 1)
    BY <1>1
  <2>5. k = m => m # 0
    BY <1>1
  <2> QED
    BY <1>4, <1>5, <2>1, <2>3, <2>4, <2>5 DEF Leaves
<1>7. /\ p.do \notin {"auto", "finish", "test", "return_end", "stmt"} /\ Delta(p) = 0 /\ ~Leaves(p)
      /\ p.do \notin Closing /\ (p.do # "for_end" => Resumes(p))
  BY DEF Joins, LoopEnds, Delta, Leaves, Closing, Resumes
<1>8. ASSUME NEW k \in 1..Len(pts)
      PROVE  /\ pts[k].do \notin {"auto", "finish"} /\ Delta(pts[k]) = 0
             /\ pts[k].do # "test" /\ pts[k].do \notin Closing
             /\ Leaves(pts[k]) => k < Len(pts) /\ Resumes(pts[k + 1])
             /\ pts[k].do \in Joins => k = Len(pts)
  <2>1. k \in 1..m \/ (k = m + 1 /\ k = Len(pts))
    BY <1>1, <1>2
  <2>2. CASE k \in 1..m
    <3>1. k = m => k < Len(pts) /\ k + 1 = m + 1
      BY <1>1, <1>2
    <3> QED
      BY <1>2, <1>6, <1>7, <2>2, <3>1 DEF Joins, LoopEnds, Closing
  <2>3. CASE k = m + 1 /\ k = Len(pts)
    BY <1>2, <1>7, <2>3
  <2> QED
    BY <2>1, <2>2, <2>3
<1>9. Settled(ag, pts)
  BY <1>8 DEF Settled
<1>10. Len(pts) \in Nat \ {0} /\ pts[Len(pts)] = p /\ 1 \in 1..Len(pts)
  BY <1>1, <1>2
<1> QED
  BY <1>1, <1>8, <1>9, <1>10 DEF pts

-----------------------------------------------------------------------------
\* A point is done, and the levels are kept.
LEMMA PopBalances ==
  ASSUME LowerInv, NEW D, NEW M, NEW dep, NEW L, Here(D, M, dep, L), agenda # <<>>, Then(<<>>),
         Delta(agenda[1]) = 0, agenda[1].do \notin LoopEnds, UNCHANGED <<loops, regions>>,
         NEW E, NEW N, Becomes(blocks, D, M, Touched(agenda, current), blocks', E, N),
         DOMAIN E = 0..(nextBlock' - 1),
         current' \in Touched(agenda, current) \/ current' \notin DOMAIN D,
         GoesOn(agenda, current, blocks, blocks', current'),
         Poised(After(agenda, <<>>), current', blocks', Len(regions), N)
  PROVE  Balanced'
<1>1. agenda \in Seq(Tasks) /\ Len(loops) \in Nat /\ Len(regions) \in Nat
  BY HereTyped
<1>2. Paced(After(agenda, <<>>), current', blocks', nextBlock', loops, regions, E, N, dep, L)
  BY <1>1, PopsOn DEF Here
<1>3. agenda' = After(agenda, <<>>) /\ loops' = loops /\ regions' = regions
  BY DEF Then, After
<1> QED
  BY <1>2, <1>3 DEF Balanced, Here

\* A statement that only adds even code.
LEMMA EmitBalances ==
  ASSUME LowerInv, NEW D, NEW M, NEW dep, NEW L, Here(D, M, dep, L), agenda # <<>>, Then(<<>>),
         Delta(agenda[1]) = 0, agenda[1].do \notin LoopEnds, agenda[1].do # "return_end",
         ~Resumes(agenda[1]), agenda[1].do = "stmt",
         NEW code, current # NoBlock => code \in Seq(Even(D, M[current])),
         blocks' = Emit(blocks, current, code),
         UNCHANGED <<current, nextBlock, loops, regions>>
  PROVE  Balanced'
<1>1. /\ current \in DOMAIN blocks \cup {NoBlock} /\ Levels(blocks, D, M)
      /\ agenda \in Seq(Tasks) /\ Planned(agenda, Len(regions), dep) /\ Len(regions) \in Int
      /\ DOMAIN D = 0..(nextBlock - 1)
  BY HereTyped
<1>2. current \in Touched(agenda, current)
  BY DEF Touched
<1>3. Becomes(blocks, D, M, Touched(agenda, current), blocks', D, M)
  BY <1>1, <1>2, BecomesItself, BecomesEven
<1>4. GoesOn(agenda, current, blocks, blocks', current')
  BY <1>1 DEF GoesOn, Emit
<1>5. Poised(After(agenda, <<>>), current', blocks', Len(regions), M)
  <2>1. current' # NoBlock => M[current'] = Level(agenda, Len(regions)) + Delta(agenda[1])
    <3>1. Level(agenda, Len(regions)) + 0 = Level(agenda, Len(regions))
      BY <1>1 DEF Level
    <3> QED
      BY <3>1, CurrentLevel
  <2>4. current' # NoBlock /\ Len(regions) + Delta(agenda[1]) # 0 => ~Ended(blocks', current')
    <3>1. current # NoBlock /\ Len(regions) # 0 => ~Ended(blocks, current)
      BY DEF Here, Paced, Poised
    <3>2. current # NoBlock => blocks'[current].term = blocks[current].term
      BY <1>1 DEF Emit
    <3> QED
      BY <1>1, <3>1, <3>2 DEF Ended
  <2>2. Poised(After(agenda, <<>>), current', blocks', Len(regions) + Delta(agenda[1]), M)
    BY <1>1, <2>1, <2>4, PoisedOn
  <2>3. Len(regions) + Delta(agenda[1]) = Len(regions)
    BY <1>1
  <2> QED
    BY <2>2, <2>3
<1> QED
  BY <1>1, <1>2, <1>3, <1>4, <1>5, PopBalances

-----------------------------------------------------------------------------
\* Statements that add to the current block.
LEMMA PlainHead ==
  ASSUME NEW p, p.do = "stmt", p.s.kind \in Kinds
  PROVE  /\ Delta(p) = 0 /\ ~Resumes(p) /\ Owned(p) = {}
         /\ p.do \notin Joins /\ p.do \notin LoopEnds /\ p.do \notin Closing
         /\ p.do # "return_end" /\ p.do # "test"
<1>1. p.do \notin Joins /\ p.do \notin LoopEnds /\ p.do \notin Closing
  BY DEF Joins, LoopEnds, Closing
<1>2. Delta(p) = 0 /\ ~Resumes(p)
  BY DEF Delta, Resumes, Kinds
<1> QED
  BY <1>1, <1>2, PlainHolds

LEMMA HeadOn ==
  ASSUME LowerInv, agenda # <<>>, NEW kind \in Kinds, On(kind)
  PROVE  /\ agenda[1].do = "stmt" /\ agenda[1].s.kind = kind /\ agenda[1].s.kind \in Kinds
         /\ Resolved(The.expr) /\ Resolved(The.upto)
<1>1. agenda \in Seq(Tasks)
  BY DEF LowerInv, Listed
<1>2. Head(agenda) = agenda[1]
  BY <1>1, EmptySeq
<1> QED
  BY <1>2 DEF On, Doing, The

LEMMA PlainLevel ==
  ASSUME LowerInv, NEW D, NEW M, NEW dep, NEW L, Here(D, M, dep, L), agenda # <<>>,
         agenda[1].do = "stmt", agenda[1].s.kind \in Kinds, current # NoBlock
  PROVE  M[current] = Len(regions)
<1>1. ~Resumes(agenda[1]) /\ agenda[1].do \notin Closing
  BY PlainHead
<1> QED
  BY <1>1, CurrentLevel DEF Level

LEMMA EvenJoins ==
  ASSUME NEW S, NEW c \in Seq(S), NEW i \in S
  PROVE  c \o <<i>> \in Seq(S)
  OBVIOUS

LEMMA DeclarationPaced == ASSUME LowerInv, Fitting, Balanced, BuildDeclaration PROVE Balanced'
<1> DEFINE i == Lower(The.expr)
           e == IF The.expr.kind = "none"
                THEN Comes(<<Copy(nextValue, Constant(Undefined))>>, nextValue, nextValue + 1)
                ELSE Comes(i.code \o <<Copy(i.next, Value(i.value))>>, i.next, i.next + 1)
<1>1. /\ agenda # <<>> /\ On("declare") /\ "declare" \in Kinds
      /\ blocks' = Emit(blocks, current, e.code)
      /\ Then(<<>>)
      /\ UNCHANGED <<current, nextBlock, loops, regions>>
  BY DEF BuildDeclaration, On, Doing, Kinds
<1>2. PICK D, M, dep, L : Here(D, M, dep, L)
  BY DEF Balanced
<1>3. /\ agenda[1].do = "stmt" /\ agenda[1].s.kind \in Kinds /\ Resolved(The.expr)
  BY <1>1, HeadOn
<1>4. /\ Delta(agenda[1]) = 0 /\ ~Resumes(agenda[1])
      /\ agenda[1].do \notin LoopEnds /\ agenda[1].do # "return_end"
  BY <1>3, PlainHead
<1> DEFINE S == Even(D, M[current])
<1>5. current # NoBlock => i.code \in Seq(S)
  <2>1. Extends(D, D)
    BY DEF Extends
  <2> QED
    BY <1>1, <1>2, <1>3, <1>4, <2>1, HeadEven
<1>6. i.value \in Nat /\ i.next \in Nat \ {0} /\ nextValue \in Nat \ {0}
  BY <1>1, <1>3, LowersTo DEF LowerInv, Numbered
<1> HIDE DEF i
<1>7. Copy(nextValue, Constant(Undefined)) \in Sound /\ Copy(i.next, Value(i.value)) \in Sound
  BY <1>6, OperandsTyped, ConstantsTyped, NamesAssumption, InstructionsSound
<1>8. Copy(nextValue, Constant(Undefined)) \in S /\ Copy(i.next, Value(i.value)) \in S
  BY <1>7, EvenInstructions DEF Copy, Instr
<1>9. current # NoBlock => e.code \in Seq(S)
  <2> HIDE DEF S
  <2>1. <<Copy(nextValue, Constant(Undefined))>> \in Seq(S)
    BY <1>8, Single
  <2>2. current # NoBlock => i.code \o <<Copy(i.next, Value(i.value))>> \in Seq(S)
    BY <1>5, <1>8, EvenJoins
  <2> QED
    BY <2>1, <2>2 DEF Comes
<1> HIDE DEF e
<1> QED
  BY <1>1, <1>2, <1>3, <1>4, <1>9, EmitBalances

LEMMA AssignmentPaced == ASSUME LowerInv, Fitting, Balanced, BuildAssignment PROVE Balanced'
<1> DEFINE e == Lower(The.expr)
           copy == IF The.name \notin DOMAIN scope \/ e.value = scope[The.name] THEN <<>>
                   ELSE <<Copy(scope[The.name], Value(e.value))>>
<1>1. /\ agenda # <<>> /\ On("assign") /\ "assign" \in Kinds
      /\ blocks' = Emit(blocks, current, e.code \o copy)
      /\ Then(<<>>)
      /\ UNCHANGED <<current, nextBlock, loops, regions>>
  BY DEF BuildAssignment, On, Doing, Kinds
<1>2. PICK D, M, dep, L : Here(D, M, dep, L)
  BY DEF Balanced
<1>3. /\ agenda[1].do = "stmt" /\ agenda[1].s.kind \in Kinds /\ Resolved(The.expr)
  BY <1>1, HeadOn
<1>4. /\ Delta(agenda[1]) = 0 /\ ~Resumes(agenda[1])
      /\ agenda[1].do \notin LoopEnds /\ agenda[1].do # "return_end"
  BY <1>3, PlainHead
<1> DEFINE S == Even(D, M[current])
<1>5. current # NoBlock => e.code \in Seq(S)
  <2>1. Extends(D, D)
    BY DEF Extends
  <2> QED
    BY <1>1, <1>2, <1>3, <1>4, <2>1, HeadEven
<1>6. e.value \in Nat
  BY <1>1, <1>3, LowersTo
<1> HIDE DEF e
<1>7. copy \in Seq(S)
  <2>1. ASSUME The.name \in DOMAIN scope
        PROVE  <<Copy(scope[The.name], Value(e.value))>> \in Seq(S)
    <3>1. scope[The.name] \in Nat \ {0}
      BY <2>1 DEF LowerInv, Scoped
    <3>2. Copy(scope[The.name], Value(e.value)) \in Sound
      BY <1>6, <3>1, OperandsTyped, NamesAssumption, InstructionsSound
    <3>3. Copy(scope[The.name], Value(e.value)) \in S
      BY <3>2, EvenInstructions DEF Copy, Instr
    <3> QED
      BY <3>3, Single
  <2>2. <<>> \in Seq(S)
    OBVIOUS
  <2> QED
    BY <2>1, <2>2
<1> HIDE DEF copy, S
<1>8. current # NoBlock => e.code \o copy \in Seq(S)
  BY <1>5, <1>7
<1> QED
  BY <1>1, <1>2, <1>3, <1>4, <1>8, EmitBalances DEF S

LEMMA PrintPaced == ASSUME LowerInv, Fitting, Balanced, BuildPrint PROVE Balanced'
<1> DEFINE e == Lower(The.expr)
           calls == Calls("print", NoValue, <<Value(e.value)>>)
<1>1. /\ agenda # <<>> /\ On("print") /\ "print" \in Kinds
      /\ blocks' = Emit(blocks, current, e.code \o calls)
      /\ Then(<<>>)
      /\ UNCHANGED <<current, nextBlock, loops, regions>>
  BY DEF BuildPrint, On, Doing, Kinds
<1>2. PICK D, M, dep, L : Here(D, M, dep, L)
  BY DEF Balanced
<1>3. /\ agenda[1].do = "stmt" /\ agenda[1].s.kind \in Kinds /\ Resolved(The.expr)
  BY <1>1, HeadOn
<1>4. /\ Delta(agenda[1]) = 0 /\ ~Resumes(agenda[1])
      /\ agenda[1].do \notin LoopEnds /\ agenda[1].do # "return_end"
  BY <1>3, PlainHead
<1> DEFINE S == Even(D, M[current])
<1>5. current # NoBlock => e.code \in Seq(S)
  <2>1. Extends(D, D)
    BY DEF Extends
  <2> QED
    BY <1>1, <1>2, <1>3, <1>4, <2>1, HeadEven
<1>6. e.value \in Nat
  BY <1>1, <1>3, LowersTo
<1> HIDE DEF e
<1>7. current # NoBlock => calls \in Seq(S)
  <2> SUFFICES ASSUME current # NoBlock PROVE calls \in Seq(S)
    OBVIOUS
  <2>1. "print" \in STRING /\ NoValue \in Nat /\ "print" \notin {"__err_enter", "__err_leave"}
    BY NamesAssumption, Numbers
  <2>2. <<Value(e.value)>> \in Seq(Operand)
    BY <1>6, OperandsTyped, Single
  <2>3. InnerExit # NoBlock => InnerExit \in DOMAIN D /\ D[InnerExit] = M[current]
    BY <1>1, <1>2, <1>3, InnerLevel, PlainLevel
  <2> QED
    BY <2>1, <2>2, <2>3, EvenChecked DEF LowerInv
<1> HIDE DEF calls, S
<1>8. current # NoBlock => e.code \o calls \in Seq(S)
  BY <1>5, <1>7
<1> QED
  BY <1>1, <1>2, <1>3, <1>4, <1>8, EmitBalances DEF S

LEMMA ExpressionPaced == ASSUME LowerInv, Fitting, Balanced, BuildExpression PROVE Balanced'
<1>1. /\ agenda # <<>> /\ On("perform") /\ "perform" \in Kinds
      /\ blocks' = Emit(blocks, current, Lower(The.expr).code)
      /\ Then(<<>>)
      /\ UNCHANGED <<current, nextBlock, loops, regions>>
  BY DEF BuildExpression, On, Doing, Kinds
<1>2. PICK D, M, dep, L : Here(D, M, dep, L)
  BY DEF Balanced
<1>3. /\ agenda[1].do = "stmt" /\ agenda[1].s.kind \in Kinds /\ Resolved(The.expr)
  BY <1>1, HeadOn
<1>4. /\ Delta(agenda[1]) = 0 /\ ~Resumes(agenda[1])
      /\ agenda[1].do \notin LoopEnds /\ agenda[1].do # "return_end"
  BY <1>3, PlainHead
<1>5. current # NoBlock => Lower(The.expr).code \in Seq(Even(D, M[current]))
  <2>1. Extends(D, D)
    BY DEF Extends
  <2> QED
    BY <1>1, <1>2, <1>3, <1>4, <2>1, HeadEven
<1> QED
  BY <1>1, <1>2, <1>3, <1>4, <1>5, EmitBalances

LEMMA EnsurePaced == ASSUME LowerInv, Balanced, BuildEnsure PROVE Balanced'
<1>1. /\ agenda # <<>> /\ On("ensure") /\ "ensure" \in Kinds
      /\ blocks' = blocks
      /\ Then(<<>>)
      /\ UNCHANGED <<current, nextBlock, loops, regions>>
  BY DEF BuildEnsure, On, Doing, Kinds
<1>2. PICK D, M, dep, L : Here(D, M, dep, L)
  BY DEF Balanced
<1>3. agenda[1].do = "stmt" /\ agenda[1].s.kind \in Kinds
  BY <1>1, HeadOn
<1>4. /\ Delta(agenda[1]) = 0 /\ ~Resumes(agenda[1])
      /\ agenda[1].do \notin LoopEnds /\ agenda[1].do # "return_end"
  BY <1>3, PlainHead
<1>5. blocks' = Emit(blocks, current, <<>>)
  <2>1. current = NoBlock \/ current \in DOMAIN blocks
    BY <1>1, <1>2, HereTyped
  <2>2. blocks \in [DOMAIN blocks -> SoundBlock]
    BY <1>2 DEF Here, Paced, Levels
  <2>3. current \in DOMAIN blocks => blocks[current].code \o <<>> = blocks[current].code
    BY <2>2 DEF SoundBlock
  <2> QED
    BY <1>1, <2>1, <2>2, <2>3 DEF Emit, SoundBlock
<1>6. <<>> \in Seq(Even(D, M[current]))
  OBVIOUS
<1> QED
  BY <1>1, <1>2, <1>3, <1>4, <1>5, <1>6, EmitBalances

-----------------------------------------------------------------------------
\* Statements that end the current block.
LEMMA DoingHead ==
  ASSUME LowerInv, NEW do, Doing(do)
  PROVE  agenda # <<>> /\ agenda[1].do = do /\ Resolved(The.expr)
<1>1. agenda \in Seq(Tasks) /\ agenda # <<>>
  BY DEF LowerInv, Listed, Doing
<1>2. Head(agenda) = agenda[1]
  BY <1>1, EmptySeq
<1> QED
  BY <1>1, <1>2 DEF Doing

LEMMA EndsIn ==
  ASSUME NEW bs, bs \in [DOMAIN bs -> SoundBlock], NEW b \in DOMAIN bs, b # NoBlock, NEW term
  PROVE  End(bs, b, term)[b].term = term
  BY DEF End, SoundBlock

LEMMA ClosesIn ==
  ASSUME NEW bs, bs \in [DOMAIN bs -> SoundBlock], NEW b \in DOMAIN bs, b # NoBlock,
         NEW code, NEW term
  PROVE  Close(bs, b, code, term)[b].term = term
<1>1. Emit(bs, b, code) = [bs EXCEPT ![b].code = @ \o code]
  BY DEF Emit
<1>2. /\ b \in DOMAIN Emit(bs, b, code)
      /\ Emit(bs, b, code)[b] = [bs[b] EXCEPT !.code = bs[b].code \o code]
      /\ bs[b] \in SoundBlock
  BY <1>1
<1> HIDE DEF Emit
<1>3. Close(bs, b, code, term)[b] = [Emit(bs, b, code)[b] EXCEPT !.term = term]
  BY <1>2 DEF Close, End
<1> QED
  BY <1>2, <1>3 DEF SoundBlock

LEMMA HeadPlan ==
  ASSUME LowerInv, NEW D, NEW M, NEW dep, NEW L, Here(D, M, dep, L), agenda # <<>>
  PROVE  /\ agenda[1].do \in {"auto", "finish"} => Len(regions) = 0
         /\ agenda[1].do = "finish" => Len(agenda) = 1
         /\ Leaves(agenda[1]) => Len(agenda) > 1 /\ Resumes(Below(agenda, Len(agenda) - 1))
<1>1. /\ Planned(agenda, Len(regions), dep) /\ Len(agenda) \in Nat \ {0}
  BY HereTyped
<1>2. Len(agenda) \in 1..Len(agenda) /\ Below(agenda, Len(agenda)) = agenda[1]
  BY <1>1, BelowFirst
<1>3. dep[Len(agenda)] = Len(regions) /\ PlannedAt(agenda, Len(agenda), dep)
  BY <1>1, <1>2 DEF Planned
<1> QED
  BY <1>2, <1>3 DEF PlannedAt

LEMMA AutoReturnPaced == ASSUME LowerInv, Fitting, Balanced, AutoReturn PROVE Balanced'
<1> DEFINE e == Lower(The.expr)
           term == Return(Value(e.value))
<1>1. /\ Doing("auto")
      /\ blocks' = Close(blocks, current, e.code, term)
      /\ Then(<<>>)
      /\ UNCHANGED <<current, nextBlock, loops, regions>>
  BY DEF AutoReturn
<1>2. agenda # <<>> /\ agenda[1].do = "auto" /\ Resolved(The.expr)
  BY <1>1, DoingHead
<1>3. PICK D, M, dep, L : Here(D, M, dep, L)
  BY DEF Balanced
<1>4. /\ Delta(agenda[1]) = 0 /\ ~Resumes(agenda[1]) /\ agenda[1].do \notin Closing
      /\ agenda[1].do \notin LoopEnds /\ agenda[1].do # "return_end"
  BY <1>2 DEF Delta, Resumes, LoopEnds, Closing
<1>5. Len(regions) = 0
  BY <1>2, <1>3, HeadPlan
<1>6. current # NoBlock => M[current] = 0
  BY <1>2, <1>3, <1>4, <1>5, CurrentLevel DEF Level
<1>7. current # NoBlock => e.code \in Seq(Even(D, M[current]))
  <2>1. Extends(D, D)
    BY DEF Extends
  <2> QED
    BY <1>2, <1>3, <1>4, <2>1, HeadEven
<1>8. e.value \in Nat
  BY <1>2, LowersTo
<1> HIDE DEF e
<1>9. term \in Terminator /\ term.kind = "return" /\ Targets(term) = {}
  <2>1. term \in Terminator /\ Targets(term) = {}
    BY <1>8, OperandsTyped, TermsTyped
  <2> QED
    BY <2>1 DEF Return, Term
<1> HIDE DEF term
<1>10. current # NoBlock => Leads(term, D, M[current])
  BY <1>6, <1>9 DEF Leads
<1>11. /\ current \in DOMAIN blocks \cup {NoBlock} /\ Levels(blocks, D, M)
       /\ agenda \in Seq(Tasks) /\ Planned(agenda, Len(regions), dep)
       /\ DOMAIN D = 0..(nextBlock - 1) /\ NoBlock \notin DOMAIN blocks
  BY <1>2, <1>3, HereTyped
<1>12. current \in Touched(agenda, current)
  BY DEF Touched
<1>13. Becomes(blocks, D, M, Touched(agenda, current), blocks', D, M)
  <2>1. Becomes(blocks, D, M, Touched(agenda, current), blocks, D, M)
    BY <1>11, BecomesItself
  <2> QED
    BY <1>1, <1>7, <1>9, <1>10, <1>11, <1>12, <2>1, BecomesEvenClosed, SMTT(30)
<1>14. GoesOn(agenda, current, blocks, blocks', current')
  <2>1. current \in DOMAIN blocks => blocks'[current].term = term
    BY <1>1, <1>11, ClosesIn DEF Levels
  <2> QED
    BY <1>9, <1>11, <2>1 DEF GoesOn, Ended
<1>15. Poised(After(agenda, <<>>), current', blocks', Len(regions), M)
  <2>1. /\ Len(regions) + Delta(agenda[1]) = Len(regions)
        /\ Level(agenda, Len(regions)) + Delta(agenda[1]) = 0 /\ Len(regions) \in Int
    BY <1>4, <1>5 DEF Level
  <2>2. Poised(After(agenda, <<>>), current', blocks', Len(regions) + Delta(agenda[1]), M)
    BY <1>1, <1>2, <1>5, <1>6, <1>11, <2>1, PoisedOn
  <2> QED
    BY <2>1, <2>2
<1> QED
  BY <1>1, <1>2, <1>3, <1>4, <1>11, <1>12, <1>13, <1>14, <1>15, PopBalances

LEMMA EndReturnPaced == ASSUME LowerInv, Balanced, EndReturn PROVE Balanced'
<1> DEFINE term == Return(Value(At[1]))
<1>1. /\ Doing("return_end")
      /\ blocks' = End(blocks, current, term)
      /\ Then(<<>>)
      /\ UNCHANGED <<current, nextBlock, loops, regions>>
  BY DEF EndReturn
<1>2. agenda # <<>> /\ agenda[1].do = "return_end"
  BY <1>1, DoingHead
<1>3. PICK D, M, dep, L : Here(D, M, dep, L)
  BY DEF Balanced
<1>4. /\ Delta(agenda[1]) = 0 /\ ~Resumes(agenda[1]) /\ agenda[1].do \in Closing
      /\ agenda[1].do \notin LoopEnds /\ Leaves(agenda[1])
  BY <1>2 DEF Delta, Resumes, LoopEnds, Closing, Leaves
<1>5. current # NoBlock => M[current] = 0
  BY <1>2, <1>3, <1>4, CurrentLevel DEF Level
<1>6. At[1] \in Nat
  <2>1. Ready(Head(agenda), DOMAIN blocks, nextBlock) /\ Head(agenda) = agenda[1]
    BY <1>2, <1>3, AgendaSplits, HereTyped
  <2> QED
    BY <1>2, <2>1 DEF Ready, At
<1>7. term \in Terminator /\ term.kind = "return" /\ Targets(term) = {}
  <2>1. term \in Terminator /\ Targets(term) = {}
    BY <1>6, OperandsTyped, TermsTyped
  <2> QED
    BY <2>1 DEF Return, Term
<1> HIDE DEF term
<1>8. current # NoBlock => Leads(term, D, M[current])
  BY <1>5, <1>7 DEF Leads
<1>9. /\ current \in DOMAIN blocks \cup {NoBlock} /\ Levels(blocks, D, M)
      /\ agenda \in Seq(Tasks) /\ Planned(agenda, Len(regions), dep)
      /\ DOMAIN D = 0..(nextBlock - 1) /\ NoBlock \notin DOMAIN blocks
  BY <1>2, <1>3, HereTyped
<1>10. current \in Touched(agenda, current)
  BY DEF Touched
<1>11. Becomes(blocks, D, M, Touched(agenda, current), blocks', D, M)
  BY <1>1, <1>7, <1>8, <1>9, <1>10, BecomesItself, BecomesEnded
<1>12. current # NoBlock => Ended(blocks', current)
  <2>1. current # NoBlock => blocks'[current].term = term
    BY <1>1, <1>9, EndsIn DEF Levels
  <2> QED
    BY <1>7, <2>1 DEF Ended
<1>13. GoesOn(agenda, current, blocks, blocks', current')
  BY <1>9, <1>12 DEF GoesOn
<1>14. Poised(After(agenda, <<>>), current', blocks', Len(regions), M)
  BY <1>1, <1>2, <1>4, <1>9, <1>12, PoisedGone
<1> QED
  BY <1>1, <1>2, <1>3, <1>4, <1>9, <1>10, <1>11, <1>13, <1>14, PopBalances

LEMMA FinishPaced == ASSUME LowerInv, Balanced, Finish PROVE Balanced'
<1> DEFINE term == Return(Constant(Undefined))
<1>1. /\ Doing("finish")
      /\ blocks' = IF Open(blocks, current) THEN End(blocks, current, term) ELSE blocks
      /\ Then(<<>>)
      /\ UNCHANGED <<current, nextBlock, loops, regions>>
  BY DEF Finish
<1>2. agenda # <<>> /\ agenda[1].do = "finish"
  BY <1>1, DoingHead
<1>3. PICK D, M, dep, L : Here(D, M, dep, L)
  BY DEF Balanced
<1>4. /\ Delta(agenda[1]) = 0 /\ agenda[1].do \notin Closing
      /\ agenda[1].do \notin LoopEnds /\ agenda[1].do # "return_end"
  BY <1>2 DEF Delta, LoopEnds, Closing
<1>5. Len(regions) = 0
  BY <1>2, <1>3, HeadPlan
<1>6. /\ current \in DOMAIN blocks \cup {NoBlock} /\ Levels(blocks, D, M)
      /\ agenda \in Seq(Tasks) /\ Planned(agenda, Len(regions), dep)
      /\ DOMAIN D = 0..(nextBlock - 1) /\ NoBlock \notin DOMAIN blocks
  BY <1>2, <1>3, HereTyped
<1>7. After(agenda, <<>>) = <<>>
  <2>1. Len(agenda) = 1
    BY <1>2, <1>3, HeadPlan
  <2>2. Len(After(agenda, <<>>)) = 0 /\ After(agenda, <<>>) \in Seq(Tasks)
    BY <1>2, <1>6, <2>1, BelowPop
  <2> QED
    BY <2>2, EmptySeq
<1>8. term \in Terminator /\ term.kind = "return" /\ Targets(term) = {}
  <2>1. term \in Terminator /\ Targets(term) = {}
    BY OperandsTyped, ConstantsTyped, TermsTyped
  <2> QED
    BY <2>1 DEF Return, Term
<1> HIDE DEF term
<1>9. current \in Touched(agenda, current)
  BY DEF Touched
<1>10. CASE Open(blocks, current)
  <2>1. blocks' = End(blocks, current, term)
    BY <1>1, <1>10
  <2>2. M[current] = 0
    <3>1. ~Ended(blocks, current) /\ current # NoBlock
      BY <1>10 DEF Open, Ended, Unreachable, Term
    <3>2. Level(agenda, Len(regions)) = 0
      BY <1>4, <1>5 DEF Level
    <3> QED
      BY <1>2, <1>3, <3>1, <3>2 DEF Here, Paced, Poised
  <2>3. Leads(term, D, M[current])
    BY <1>8, <2>2 DEF Leads
  <2>4. Becomes(blocks, D, M, Touched(agenda, current), blocks', D, M)
    BY <1>6, <1>8, <1>9, <2>1, <2>3, BecomesItself, BecomesEnded
  <2>5. GoesOn(agenda, current, blocks, blocks', current')
    <3>1. current # NoBlock => blocks'[current].term = term
      BY <1>6, <2>1, EndsIn DEF Levels
    <3> QED
      BY <1>6, <1>8, <3>1 DEF GoesOn, Ended
  <2>6. Poised(After(agenda, <<>>), current', blocks', Len(regions), M)
    BY <1>7 DEF Poised
  <2> QED
    BY <1>1, <1>2, <1>3, <1>4, <1>6, <1>9, <2>4, <2>5, <2>6, PopBalances
<1>11. CASE ~Open(blocks, current)
  <2>1. blocks' = blocks
    BY <1>1, <1>11
  <2>2. Becomes(blocks, D, M, Touched(agenda, current), blocks', D, M)
    BY <1>6, <2>1, BecomesItself
  <2>3. GoesOn(agenda, current, blocks, blocks', current')
    BY <1>1, <2>1 DEF GoesOn
  <2>4. Poised(After(agenda, <<>>), current', blocks', Len(regions), M)
    BY <1>7 DEF Poised
  <2> QED
    BY <1>1, <1>2, <1>3, <1>4, <1>6, <1>9, <2>2, <2>3, <2>4, PopBalances
<1> QED
  BY <1>10, <1>11

-----------------------------------------------------------------------------
\* Points take the place of the first one, with the loops as they were or one more.
LEMMA PushBalances ==
  ASSUME LowerInv, NEW D, NEW M, NEW dep, NEW L, Here(D, M, dep, L), agenda # <<>>,
         Delta(agenda[1]) = 0, agenda[1].do # "test", agenda[1].do \notin LoopEnds,
         NEW pts \in Seq(Tasks), pts # <<>>, Then(pts), Settled(agenda, pts),
         pts[Len(pts)].do \notin LoopEnds, UNCHANGED <<loops, regions>>,
         NEW E, NEW N, Becomes(blocks, D, M, Touched(agenda, current), blocks', E, N),
         DOMAIN E = 0..(nextBlock' - 1),
         current' \in Touched(agenda, current) \/ current' \notin DOMAIN D,
         \/ current \notin DOMAIN blocks \/ Ended(blocks', current) \/ agenda[1].do \in Joins
         \/ /\ current' = current /\ blocks'[current].term = blocks[current].term
            /\ pts[Len(pts)].do \notin Joins,
         Carries(pts[Len(pts)], current', blocks', E, N, Len(regions)),
         \A x \in Owned(pts[Len(pts)]) : x \in Touched(agenda, current) \/ x \notin DOMAIN D,
         Poised(After(agenda, pts), current', blocks', Len(regions), N)
  PROVE  Balanced'
<1>1. agenda \in Seq(Tasks) /\ Len(loops) \in Nat /\ Len(regions) \in Nat
  BY HereTyped
<1>2. PacedBut(agenda, current, blocks, nextBlock, regions, D, M, dep)
  BY DEF Here, Paced, PacedBut
<1>3. PacedBut(After(agenda, pts), current', blocks', nextBlock', regions, E, N,
               Filled(dep, Len(agenda), Len(regions)))
  BY <1>1, <1>2, PushesHeld
<1>4. Looped(agenda, loops, regions, D, dep, L) /\ Planned(agenda, Len(regions), dep)
      /\ Extends(E, D)
  BY DEF Here, Paced, Becomes
<1>5. Looped(After(agenda, pts), loops, regions, E, Filled(dep, Len(agenda), Len(regions)), L)
  BY <1>1, <1>4, PushesOn
<1>6. Paced(After(agenda, pts), current', blocks', nextBlock', loops, regions, E, N,
            Filled(dep, Len(agenda), Len(regions)), L)
  BY <1>3, <1>5 DEF Paced, PacedBut
<1>7. agenda' = After(agenda, pts) /\ loops' = loops /\ regions' = regions
  BY DEF Then, After
<1> QED
  BY <1>6, <1>7 DEF Balanced, Here

LEMMA LoopBalances ==
  ASSUME LowerInv, NEW D, NEW M, NEW dep, NEW L, Here(D, M, dep, L), agenda # <<>>,
         Delta(agenda[1]) = 0, agenda[1].do # "test", agenda[1].do \notin LoopEnds,
         NEW pts \in Seq(Tasks), pts # <<>>, Then(pts), Settled(agenda, pts),
         pts[Len(pts)].do \in LoopEnds, UNCHANGED regions,
         NEW loop, loops' = Append(loops, loop),
         NEW E, NEW N, Becomes(blocks, D, M, Touched(agenda, current), blocks', E, N),
         \A x \in {loop.brk, loop.cont} : x \in DOMAIN E /\ E[x] = Len(regions),
         DOMAIN E = 0..(nextBlock' - 1),
         current' \in Touched(agenda, current) \/ current' \notin DOMAIN D,
         current \notin DOMAIN blocks \/ Ended(blocks', current),
         Carries(pts[Len(pts)], current', blocks', E, N, Len(regions)),
         \A x \in Owned(pts[Len(pts)]) : x \in Touched(agenda, current) \/ x \notin DOMAIN D,
         Poised(After(agenda, pts), current', blocks', Len(regions), N)
  PROVE  Balanced'
<1>1. agenda \in Seq(Tasks) /\ Len(loops) \in Nat /\ Len(regions) \in Nat
  BY HereTyped
<1>2. PacedBut(agenda, current, blocks, nextBlock, regions, D, M, dep)
  BY DEF Here, Paced, PacedBut
<1>3. PacedBut(After(agenda, pts), current', blocks', nextBlock', regions, E, N,
               Filled(dep, Len(agenda), Len(regions)))
  BY <1>1, <1>2, PushesHeld
<1>4. Looped(agenda, loops, regions, D, dep, L) /\ Planned(agenda, Len(regions), dep)
      /\ Extends(E, D)
  BY DEF Here, Paced, Becomes
<1> DEFINE K == [cont : DOMAIN blocks, brk : DOMAIN blocks, scoped : BOOLEAN] \cup {loop}
           Z == Longer(L, Len(loops), Len(agenda))
<1>5. loops \in Seq(K) /\ loop \in K
  <2>1. loops \in Seq([cont : DOMAIN blocks, brk : DOMAIN blocks, scoped : BOOLEAN])
    BY DEF LowerInv, Nested
  <2> QED
    BY <2>1, SeqsGrow
<1> HIDE DEF K
<1>6. Looped(After(agenda, pts), Append(loops, loop), regions, E,
             Filled(dep, Len(agenda), Len(regions)), Z)
  BY <1>1, <1>4, <1>5, PushesInto
<1> HIDE DEF Z
<1>7. Paced(After(agenda, pts), current', blocks', nextBlock', loops', regions, E, N,
            Filled(dep, Len(agenda), Len(regions)), Z)
  BY <1>3, <1>6 DEF Paced, PacedBut
<1>8. agenda' = After(agenda, pts) /\ regions' = regions
  BY DEF Then, After
<1> QED
  BY <1>7, <1>8 DEF Balanced, Here

-----------------------------------------------------------------------------
\* A return, and the conditions that are tested before it ends.
LEMMA PointParts ==
  /\ \A do, s, at : Point(do, s, at).do = do /\ Point(do, s, at).s = s /\ Point(do, s, at).at = at
  /\ \A e : Require(e).expr = e
  BY DEF Point, Require, Stmt

LEMMA JoinParts ==
  ASSUME NEW S, NEW c \in Seq(S), NEW d \in Seq(S)
  PROVE  /\ Len(c \o d) = Len(c) + Len(d) /\ c \o d \in Seq(S)
         /\ \A k \in 1..Len(c) : (c \o d)[k] = c[k]
         /\ \A k \in 1..Len(d) : (c \o d)[Len(c) + k] = d[k]
  OBVIOUS

LEMMA TestsAre ==
  ASSUME NEW conds \in Seq(Expressions), NEW p
  PROVE  LET pts == Tests(conds) \o <<p>>
         IN /\ Len(conds) \in Nat /\ Len(pts) = Len(conds) + 1 /\ pts[Len(conds) + 1] = p
            /\ \A k \in 1..Len(conds) : pts[k] = Point("test", Require(conds[k]), <<>>)
<1> DEFINE m == Len(conds)
<1>1. DOMAIN conds = 1..m /\ m \in Nat
  OBVIOUS
<1>2. DOMAIN Tests(conds) = 1..m
      /\ \A k \in 1..m : Tests(conds)[k] = Point("test", Require(conds[k]), <<>>)
  BY <1>1 DEF Tests
<1> DEFINE S == {Tests(conds)[k] : k \in 1..m} \cup {p}
           head == Tests(conds)
           tail == <<p>>
<1>3. head \in Seq(S)
  <2>1. head \in [1..m -> S]
    <3>1. head = [k \in 1..m |-> head[k]]
      BY <1>1 DEF Tests
    <3>2. \A k \in 1..m : head[k] \in S
      OBVIOUS
    <3> HIDE DEF S, head, m
    <3> QED
      BY <3>1, <3>2
  <2> HIDE DEF S, head
  <2> QED
    BY <1>1, <2>1
<1>4. Len(head) = m
  <2> HIDE DEF S, m, head
  <2> QED
    BY <1>1, <1>2, <1>3 DEF head
<1>5. tail \in Seq(S) /\ Len(tail) = 1 /\ tail[1] = p
  <2>1. p \in S
    OBVIOUS
  <2> HIDE DEF S
  <2> QED
    BY <2>1
<1> HIDE DEF S, head, tail, m
<1>6. /\ Len(head \o tail) = Len(head) + Len(tail)
      /\ \A k \in 1..Len(head) : (head \o tail)[k] = head[k]
      /\ \A k \in 1..Len(tail) : (head \o tail)[Len(head) + k] = tail[k]
  BY <1>3, <1>5, JoinParts
<1>7. /\ Len(head \o tail) = m + 1 /\ (head \o tail)[m + 1] = p
      /\ \A k \in 1..m : (head \o tail)[k] = Point("test", Require(conds[k]), <<>>)
  BY <1>1, <1>2, <1>4, <1>5, <1>6 DEF head
<1> QED
  BY <1>1, <1>7 DEF head, tail, m

LEMMA ReturnSettled ==
  ASSUME NEW conds \in Seq(Expressions), \A e \in Range(conds) : e.kind # "call",
         NEW p, p.do = "return_end",
         NEW ag, Len(ag) > 1, Resumes(Below(ag, Len(ag) - 1))
  PROVE  LET pts == Tests(conds) \o <<p>>
         IN /\ Settled(ag, pts) /\ pts[1].do \in Closing /\ Len(pts) \in Nat \ {0} /\ pts[Len(pts)] = p
            /\ Tests(conds) \in Seq(Tasks)
<1> DEFINE m == Len(conds)
           pts == Tests(conds) \o <<p>>
<1>1. m \in Nat /\ Len(pts) = m + 1 /\ pts[m + 1] = p
      /\ \A k \in 1..m : pts[k] = Point("test", Require(conds[k]), <<>>)
  BY TestsAre
<1>2. \A k \in 1..m : conds[k].kind # "call"
  BY DEF Range
<1>3. Tests(conds) \in Seq(Tasks)
  BY TestsPlain
<1> HIDE DEF m, pts
<1>4. ASSUME NEW k \in 1..m
      PROVE  pts[k].do = "test" /\ pts[k].s.expr.kind # "call" /\ Delta(pts[k]) = 0 /\ ~Leaves(pts[k])
  <2>1. pts[k] = Point("test", Require(conds[k]), <<>>) /\ conds[k].kind # "call"
    BY <1>1, <1>2
  <2>2. pts[k].do = "test" /\ pts[k].s.expr = conds[k]
    BY <2>1, PointParts
  <2> QED
    BY <2>1, <2>2 DEF Delta, Leaves
<1>5. Delta(p) = 0 /\ p.do \in Closing /\ p.do \notin Joins
  BY DEF Delta, Closing, Joins, LoopEnds
<1>6. ASSUME NEW k \in 1..Len(pts)
      PROVE  /\ pts[k].do \notin {"auto", "finish"} /\ Delta(pts[k]) = 0
             /\ pts[k].do = "test" =>
                  pts[k].s.expr.kind # "call" /\ k < Len(pts) /\ pts[k + 1].do \in Closing
             /\ Leaves(pts[k]) => k = Len(pts)
             /\ pts[k].do \in Closing => k = 1 \/ pts[k - 1].do = "test"
             /\ pts[k].do \notin Joins
  <2>1. (k \in 1..m /\ (k + 1 \in 1..m \/ k + 1 = m + 1)) \/ k = m + 1
    BY <1>1
  <2>2. k = 1 \/ k - 1 \in 1..m
    BY <1>1
  <2>3. CASE k \in 1..m
    <3>1. k + 1 \in 1..m \/ k + 1 = m + 1
      BY <1>1, <2>3
    <3>2. pts[k + 1].do \in Closing
      BY <1>1, <1>4, <1>5, <3>1 DEF Closing
    <3>3. k < Len(pts)
      BY <1>1, <2>3
    <3> QED
      BY <1>4, <2>2, <2>3, <3>2, <3>3 DEF Joins, LoopEnds
  <2>4. CASE k = m + 1
    BY <1>1, <1>4, <1>5, <2>2, <2>4
  <2> QED
    BY <2>1, <2>3, <2>4
<1>7. Settled(ag, pts)
  BY <1>1, <1>6 DEF Settled
<1>8. pts[1].do \in Closing
  <2>1. 1 \in 1..m \/ 1 = m + 1
    BY <1>1
  <2> QED
    BY <1>1, <1>4, <1>5, <2>1 DEF Closing
<1> QED
  BY <1>1, <1>3, <1>7, <1>8 DEF pts

-----------------------------------------------------------------------------
LEMMA EvenSound == \A D, n : Even(D, n) \subseteq Sound
  BY DEF Even

LEMMA ReturnPaced == ASSUME LowerInv, Fitting, Balanced, BuildReturn PROVE Balanced'
<1> DEFINE e == Lower(The.expr)
           code == e.code \o Leave(Len(regions))
           conds == IF e.value # NoValue THEN ensures ELSE <<>>
           p == Point("return_end", The, <<e.value>>)
           pts == Tests(conds) \o <<p>>
<1>1. /\ On("return") /\ agenda # <<>> /\ "return" \in Kinds
      /\ blocks' = Emit(blocks, current, code)
      /\ Then((IF e.value # NoValue THEN Tests(ensures) ELSE <<>>) \o <<p>>)
      /\ UNCHANGED <<current, nextBlock, loops, regions>>
  BY DEF BuildReturn, On, Doing, Kinds
<1>2. PICK D, M, dep, L : Here(D, M, dep, L)
  BY DEF Balanced
<1>3. /\ agenda[1].do = "stmt" /\ agenda[1].s.kind = "return" /\ agenda[1].s.kind \in Kinds
      /\ Resolved(The.expr)
  BY <1>1, HeadOn
<1>4. /\ Delta(agenda[1]) = 0 /\ ~Resumes(agenda[1]) /\ agenda[1].do # "test"
      /\ agenda[1].do \notin LoopEnds /\ agenda[1].do # "return_end" /\ Leaves(agenda[1])
  BY <1>3, PlainHead DEF Leaves, Quits
<1>5. current # NoBlock => e.code \in Seq(Even(D, M[current]))
  <2>1. Extends(D, D)
    BY DEF Extends
  <2> QED
    BY <1>1, <1>2, <1>3, <1>4, <2>1, HeadEven
<1>6. e.value \in Nat
  BY <1>1, <1>3, LowersTo
<1> HIDE DEF e
<1> DEFINE N == IF current = NoBlock THEN M ELSE [M EXCEPT ![current] = 0]
<1>7. Then(pts)
  <2>1. Tests(<<>>) = <<>>
    BY DEF Tests
  <2> QED
    BY <1>1, <2>1
<1>8. conds \in Seq(Expressions) /\ \A c \in Range(conds) : c.kind # "call"
  <2>1. ensures \in Seq(Expressions) /\ \A c \in Range(ensures) : c.kind # "call"
    BY DEF LowerInv, Promised, Fitting, Firm
  <2>2. <<>> \in Seq(Expressions) /\ Range(<<>>) = {}
    BY DEF Range
  <2> QED
    BY <2>1, <2>2
<1>9. p \in Tasks /\ p.do = "return_end"
  <2>1. <<e.value>> \in Seq(Int)
    BY <1>6
  <2>2. The \in Syntax
    BY <1>1, AgendaSplits
  <2> QED
    BY <2>1, <2>2 DEF Point, Tasks, Doings
<1> HIDE DEF conds, p
<1>10. /\ Settled(agenda, pts) /\ pts[1].do \in Closing /\ Len(pts) \in Nat \ {0}
       /\ pts[Len(pts)] = p /\ Tests(conds) \in Seq(Tasks)
  <2>1. Len(agenda) > 1 /\ Resumes(Below(agenda, Len(agenda) - 1))
    BY <1>1, <1>2, <1>4, HeadPlan
  <2> QED
    BY <1>8, <1>9, <2>1, ReturnSettled
<1>11. pts \in Seq(Tasks)
  BY <1>9, <1>10
<1> HIDE DEF pts
<1>12. pts # <<>>
  BY <1>10
<1>13. /\ current \in DOMAIN blocks \cup {NoBlock} /\ Levels(blocks, D, M)
       /\ agenda \in Seq(Tasks) /\ DOMAIN D = 0..(nextBlock - 1) /\ NoBlock \notin DOMAIN blocks
       /\ Len(regions) \in Nat /\ DOMAIN blocks \subseteq DOMAIN D
  BY <1>1, <1>2, HereTyped
<1>14. current \in Touched(agenda, current)
  BY DEF Touched
<1>15. ASSUME current # NoBlock
       PROVE  /\ code \in Seq(Sound) /\ Walk(code, D, M[current], 0)
              /\ 0 = M[current] \/ Leads(blocks[current].term, D, 0)
  <2> DEFINE n == Len(regions)
  <2>1. M[current] = n
    BY <1>1, <1>2, <1>3, <1>15, PlainLevel
  <2>2. e.code \in Seq(Sound) /\ Walk(e.code, D, n, n)
    <3>1. e.code \in Seq(Even(D, n)) /\ n \in Int
      BY <1>5, <1>13, <1>15, <2>1
    <3> HIDE DEF n
    <3> QED
      BY <3>1, WalkEven, SoundEven
  <2>3. Leave(n) \in Seq(Sound) /\ Walk(Leave(n), D, n, 0)
    <3>1. n \in Nat /\ n \in Int /\ n - n = 0
      BY <1>13
    <3> HIDE DEF n
    <3>2. Walk(Leave(n), D, n, n - n)
      BY <3>1, WalkOut
    <3> QED
      BY <3>1, <3>2, LeavesSound
  <2>4. code \in Seq(Sound) /\ Walk(code, D, n, 0)
    <3> HIDE DEF n
    <3> QED
      BY <2>2, <2>3, WalkOn DEF n
  <2>5. n # 0 => Leads(blocks[current].term, D, 0)
    <3> SUFFICES ASSUME n # 0 PROVE Leads(blocks[current].term, D, 0)
      OBVIOUS
    <3>1. ~Ended(blocks, current)
      BY <1>1, <1>2, <1>3, <1>4, <1>15 DEF Here, Paced, Poised
    <3> QED
      BY <3>1 DEF Leads, Ended, Targets
  <2> QED
    BY <2>1, <2>4, <2>5
<1> HIDE DEF code
<1>16. Becomes(blocks, D, M, Touched(agenda, current), blocks', D, N)
  <2>1. CASE current = NoBlock
    <3>1. blocks' = blocks
      BY <1>1, <2>1 DEF Emit
    <3> QED
      BY <1>13, <2>1, <3>1, BecomesItself
  <2>2. CASE current # NoBlock
    <3>1. current \in DOMAIN blocks /\ Becomes(blocks, D, M, Touched(agenda, current), blocks, D, M)
      BY <1>13, <2>2, BecomesItself
    <3>2. Becomes(blocks, D, M, Touched(agenda, current), Emit(blocks, current, code), D,
                  [M EXCEPT ![current] = 0])
      BY <1>14, <1>15, <2>2, <3>1, BecomesEmitted
    <3> QED
      BY <1>1, <2>2, <3>2
  <2> QED
    BY <2>1, <2>2
<1>17. current # NoBlock => N[current] = 0
  BY <1>13 DEF Levels
<1> HIDE DEF N
<1>18. \/ current \notin DOMAIN blocks \/ Ended(blocks', current) \/ agenda[1].do \in Joins
       \/ /\ current' = current /\ blocks'[current].term = blocks[current].term
          /\ pts[Len(pts)].do \notin Joins
  <2>1. current \in DOMAIN blocks => blocks'[current].term = blocks[current].term
    <3>1. blocks \in [DOMAIN blocks -> SoundBlock]
      BY <1>13 DEF Levels
    <3> QED
      BY <1>1, <1>13, <3>1 DEF Emit, SoundBlock
  <2> QED
    BY <1>1, <1>9, <1>10, <2>1 DEF Joins, LoopEnds
<1>19. /\ Carries(pts[Len(pts)], current', blocks', D, N, Len(regions))
       /\ \A x \in Owned(pts[Len(pts)]) : x \in Touched(agenda, current) \/ x \notin DOMAIN D
       /\ pts[Len(pts)].do \notin LoopEnds
  <2>1. p.do \notin Joins /\ p.do \notin LoopEnds
    BY <1>9 DEF Joins, LoopEnds
  <2>2. Owned(p) = {} /\ Entries(p) = {} /\ Begun(p) = {} /\ Waiting(p) = {} /\ Later(p) = {}
    BY <2>1, PlainHolds
  <2> QED
    BY <1>10, <2>1, <2>2 DEF Carries
<1>20. Poised(After(agenda, pts), current', blocks', Len(regions), N)
  <2>1. After(agenda, pts)[1] = pts[1]
    <3>1. 1 \in 1..Len(pts)
      BY <1>10
    <3> QED
      BY <1>1, <1>11, <1>13, <3>1, BelowThen
  <2>2. Level(After(agenda, pts), Len(regions)) = 0 /\ After(agenda, pts)[1].do # "stmt"
    BY <1>10, <2>1 DEF Level, Closing
  <2> QED
    BY <1>1, <1>17, <2>2 DEF Poised
<1> QED
  BY <1>1, <1>2, <1>4, <1>7, <1>10, <1>11, <1>12, <1>13, <1>14, <1>16, <1>18, <1>19, <1>20,
     PushBalances

-----------------------------------------------------------------------------
\* A jump out of a loop, or to its next round.
LEMMA JumpLevel ==
  ASSUME LowerInv, NEW D, NEW M, NEW dep, NEW L, Here(D, M, dep, L), agenda # <<>>, loops # <<>>
  PROVE  LET d == dep[L[Len(loops)]]
         IN /\ d \in Nat /\ Left \in Nat /\ Len(regions) - Left = d
            /\ \A x \in {Last(loops).brk, Last(loops).cont} : x \in DOMAIN D /\ D[x] = d
<1> DEFINE n == Len(regions)
           k == Len(loops)
           d == dep[L[k]]
<1>1. n \in Nat /\ k \in Nat \ {0} /\ Last(loops) = loops[k] /\ DOMAIN regions = 1..n
  <2>1. /\ loops \in Seq([cont : DOMAIN blocks, brk : DOMAIN blocks, scoped : BOOLEAN])
        /\ regions \in Seq([exit : DOMAIN blocks, depth : Nat])
    BY DEF LowerInv, Nested
  <2> QED
    BY <2>1, EmptySeq DEF Last
<1>2. Looped(agenda, loops, regions, D, dep, L) /\ Planned(agenda, n, dep)
  BY DEF Here, Paced
<1>3. Len(agenda) \in Nat \ {0} /\ dep[Len(agenda)] = n /\ dep \in [Nat -> Nat]
  BY <1>2, HereTyped DEF Planned
<1>4. /\ L[k] \in 1..Len(agenda) /\ Below(agenda, L[k]).do \in LoopEnds
      /\ \A x \in {loops[k].brk, loops[k].cont} : x \in DOMAIN D /\ D[x] = d
      /\ \A j \in 1..n : regions[j].depth \in 0..k /\ (regions[j].depth >= k <=> j > d)
  <2>1. k \in 1..k
    BY <1>1
  <2> QED
    BY <1>2, <2>1 DEF Looped
<1>5. d \in Nat /\ d <= n
  <2>1. PlannedAt(agenda, L[k], dep)
    BY <1>2, <1>4 DEF Planned
  <2>7. L[k] \in 1..Len(agenda) /\ Len(agenda) \in Nat
    BY <1>3, <1>4
  <2>2. Len(agenda) \in L[k]..Len(agenda)
    BY <2>7
  <2>3. dep[Len(agenda)] >= dep[L[k]]
    BY <1>4, <2>1, <2>2 DEF PlannedAt, Joins
  <2>4. L[k] \in Nat
    BY <2>7
  <2>5. d \in Nat
    BY <1>3, <2>4
  <2>6. n >= d
    BY <1>3, <2>3
  <2> HIDE DEF d, n
  <2> QED
    BY <1>1, <2>5, <2>6
<1> HIDE DEF n, k, d
<1>6. {i \in DOMAIN regions : regions[i].depth >= k} = (d + 1)..n
  <2>1. \A i \in 1..n : i > d <=> i \in (d + 1)..n
    BY <1>1, <1>5
  <2>2. (d + 1)..n \subseteq 1..n
    BY <1>1, <1>5
  <2> QED
    BY <1>1, <1>4, <2>1, <2>2
<1>7. Left = n - d
  <2>1. Cardinality((d + 1)..n) = n - (d + 1) + 1
    <3>1. d + 1 \in Int /\ n \in Int /\ (d + 1 > n => n - (d + 1) + 1 = 0)
      BY <1>1, <1>5
    <3>2. Cardinality((d + 1)..n) = IF d + 1 > n THEN 0 ELSE n - (d + 1) + 1
      BY <3>1, FS_Interval
    <3> QED
      BY <3>1, <3>2
  <2>2. n - (d + 1) + 1 = n - d
    BY <1>1, <1>5
  <2> QED
    BY <1>6, <2>1, <2>2 DEF Left, k
<1>8. Left \in Nat /\ n - Left = d
  BY <1>1, <1>5, <1>7
<1> QED
  BY <1>1, <1>4, <1>5, <1>8 DEF n, k, d

LEMMA JumpPaced == ASSUME LowerInv, Balanced, BuildJump PROVE Balanced'
<1> DEFINE loop == Last(loops)
           code == Leave(Left) \o ScopePop(loop.scoped)
           target == IF The.kind = "break" THEN loop.brk ELSE loop.cont
           term == Jump(target)
<1>1. /\ On("break") \/ On("continue")
      /\ agenda # <<>> /\ loops # <<>> /\ "break" \in Kinds /\ "continue" \in Kinds
      /\ blocks' = Close(blocks, current, code, term)
      /\ Then(<<>>)
      /\ UNCHANGED <<current, nextBlock, loops, regions>>
  BY DEF BuildJump, On, Doing, Kinds
<1>2. PICK D, M, dep, L : Here(D, M, dep, L)
  BY DEF Balanced
<1>3. /\ agenda[1].do = "stmt" /\ agenda[1].s.kind \in {"break", "continue"}
      /\ agenda[1].s.kind \in Kinds
  BY <1>1, HeadOn
<1>4. /\ Delta(agenda[1]) = 0 /\ agenda[1].do \notin LoopEnds /\ Leaves(agenda[1])
  BY <1>3, PlainHead DEF Leaves, Quits
<1> DEFINE d == dep[L[Len(loops)]]
           N == IF current = NoBlock THEN M ELSE [M EXCEPT ![current] = d]
<1>5. /\ d \in Nat /\ Left \in Nat /\ Len(regions) - Left = d
      /\ \A x \in {Last(loops).brk, Last(loops).cont} : x \in DOMAIN D /\ D[x] = d
  BY <1>1, <1>2, JumpLevel
<1>6. loop.scoped \in BOOLEAN /\ target \in DOMAIN blocks
  <2>1. loop \in [cont : DOMAIN blocks, brk : DOMAIN blocks, scoped : BOOLEAN]
    BY <1>1, LastIn DEF LowerInv, Nested
  <2> QED
    BY <2>1
<1>7. target \in DOMAIN D /\ D[target] = d
  BY <1>5
<1> HIDE DEF d, target, loop
<1>8. term \in Terminator /\ term.kind = "jump" /\ Targets(term) = {target}
  <2>1. target \in Int
    BY <1>6 DEF LowerInv, Numbered
  <2> QED
    BY <2>1, TermsTyped DEF Jump, Term
<1>9. Leads(term, D, d)
  BY <1>7, <1>8 DEF Leads
<1> HIDE DEF term
<1>10. /\ current \in DOMAIN blocks \cup {NoBlock} /\ Levels(blocks, D, M)
       /\ agenda \in Seq(Tasks) /\ Planned(agenda, Len(regions), dep)
       /\ DOMAIN D = 0..(nextBlock - 1) /\ NoBlock \notin DOMAIN blocks /\ Len(regions) \in Nat
  BY <1>1, <1>2, HereTyped
<1>11. current \in Touched(agenda, current)
  BY DEF Touched
<1>12. ASSUME current # NoBlock PROVE code \in Seq(Sound) /\ Walk(code, D, M[current], d)
  <2>1. M[current] = Len(regions)
    BY <1>1, <1>2, <1>3, <1>12, PlainLevel
  <2>2. Leave(Left) \in Seq(Sound) /\ Walk(Leave(Left), D, Len(regions), d)
    <3>1. Len(regions) \in Int
      BY <1>10
    <3>2. Walk(Leave(Left), D, Len(regions), Len(regions) - Left)
      BY <1>5, <3>1, WalkOut
    <3> QED
      BY <1>5, <3>2, LeavesSound
  <2>3. ScopePop(loop.scoped) \in Seq(Sound) /\ Walk(ScopePop(loop.scoped), D, d, d)
    <3>1. ScopePop(loop.scoped) \in Seq(Even(D, d)) /\ d \in Int
      BY <1>5, <1>6, EvenScopes
    <3> QED
      BY <3>1, WalkEven, SoundEven
  <2>4. code \in Seq(Sound)
    BY <2>2, <2>3
  <2>5. Walk(code, D, Len(regions), d)
    BY <2>2, <2>3, WalkOn
  <2> QED
    BY <2>1, <2>4, <2>5
<1> HIDE DEF code
<1>13. Becomes(blocks, D, M, Touched(agenda, current), blocks', D, N)
  <2>1. CASE current = NoBlock
    <3>1. blocks' = blocks
      BY <1>1, <2>1 DEF Close, End, Emit
    <3> QED
      BY <1>10, <2>1, <3>1, BecomesItself
  <2>2. CASE current # NoBlock
    <3>1. current \in DOMAIN blocks /\ Becomes(blocks, D, M, Touched(agenda, current), blocks, D, M)
      BY <1>10, <2>2, BecomesItself
    <3>2. Becomes(blocks, D, M, Touched(agenda, current), Close(blocks, current, code, term), D,
                  [M EXCEPT ![current] = d])
      BY <1>5, <1>8, <1>9, <1>11, <1>12, <2>2, <3>1, BecomesClosed
    <3> QED
      BY <1>1, <2>2, <3>2
  <2> QED
    BY <2>1, <2>2
<1> HIDE DEF N
<1>14. current # NoBlock => Ended(blocks', current)
  <2>1. current # NoBlock => blocks'[current].term = term
    BY <1>1, <1>10, ClosesIn DEF Levels
  <2> QED
    BY <1>8, <2>1 DEF Ended
<1>15. GoesOn(agenda, current, blocks, blocks', current')
  BY <1>10, <1>14 DEF GoesOn
<1>16. Poised(After(agenda, <<>>), current', blocks', Len(regions), N)
  BY <1>1, <1>4, <1>10, <1>14, PoisedGone
<1> QED
  BY <1>1, <1>2, <1>4, <1>10, <1>11, <1>13, <1>15, <1>16, PopBalances

-----------------------------------------------------------------------------
\* The blocks that are numbered next all get the same level.
Wider(D, nb, nb2, v) == [x \in 0..(nb2 - 1) |-> IF x < nb THEN D[x] ELSE v]

LEMMA WiderTyped ==
  ASSUME NEW nb \in Nat, NEW nb2 \in Nat, nb <= nb2, NEW v \in Int,
         NEW D, D \in [0..(nb - 1) -> Int]
  PROVE  LET E == Wider(D, nb, nb2, v)
         IN /\ E \in [0..(nb2 - 1) -> Int] /\ DOMAIN E = 0..(nb2 - 1) /\ Extends(E, D)
            /\ \A x \in nb..(nb2 - 1) : x \in DOMAIN E /\ x \notin DOMAIN D /\ E[x] = v
            /\ \A x \in DOMAIN D : x \in DOMAIN E /\ E[x] = D[x]
            /\ NoBlock \notin DOMAIN E
<1> DEFINE E == Wider(D, nb, nb2, v)
<1>1. /\ \A x \in 0..(nb - 1) : x \in 0..(nb2 - 1) /\ x < nb
      /\ \A x \in nb..(nb2 - 1) : x \in 0..(nb2 - 1) /\ ~(x < nb) /\ x \notin 0..(nb - 1)
      /\ \A x \in 0..(nb2 - 1) : x < nb => x \in 0..(nb - 1)
      /\ NoBlock \notin 0..(nb2 - 1)
  BY Numbers
<1>2. DOMAIN E = 0..(nb2 - 1) /\ \A x \in 0..(nb2 - 1) : E[x] = IF x < nb THEN D[x] ELSE v
  BY DEF Wider
<1>3. E \in [0..(nb2 - 1) -> Int]
  <2>1. \A x \in 0..(nb2 - 1) : (IF x < nb THEN D[x] ELSE v) \in Int
    BY <1>1
  <2> QED
    BY <2>1 DEF Wider
<1> HIDE DEF E
<1>4. DOMAIN D = 0..(nb - 1)
  OBVIOUS
<1> QED
  BY <1>1, <1>2, <1>3, <1>4 DEF Extends, E

\* The builder reserves blocks.
LEMMA ReservesHere ==
  ASSUME LowerInv, NEW D, NEW M, NEW dep, NEW L, Here(D, M, dep, L), agenda # <<>>,
         NEW nb2 \in Nat, nextBlock <= nb2, NEW v \in Int, NEW ids, ids \subseteq nextBlock..(nb2 - 1),
         NEW T
  PROVE  LET E == Wider(D, nextBlock, nb2, v)
             N == Wider(M, nextBlock, nb2, v)
         IN /\ Becomes(blocks, D, M, T, Reserve(blocks, ids), E, N)
            /\ DOMAIN E = 0..(nb2 - 1) /\ Extends(E, D)
            /\ \A x \in nextBlock..(nb2 - 1) :
                 x \in DOMAIN E /\ x \notin DOMAIN D /\ x \notin DOMAIN blocks /\ E[x] = v /\ N[x] = v
            /\ \A x \in DOMAIN D : x \in DOMAIN E /\ E[x] = D[x] /\ N[x] = M[x]
<1> DEFINE E == Wider(D, nextBlock, nb2, v)
           N == Wider(M, nextBlock, nb2, v)
<1>1. /\ Levels(blocks, D, M) /\ nextBlock \in Nat /\ DOMAIN D = 0..(nextBlock - 1)
      /\ DOMAIN blocks \subseteq DOMAIN D
  BY HereTyped
<1>2. D \in [0..(nextBlock - 1) -> Int] /\ M \in [0..(nextBlock - 1) -> Int]
  BY <1>1 DEF Levels
<1>3. /\ E \in [0..(nb2 - 1) -> Int] /\ DOMAIN E = 0..(nb2 - 1) /\ Extends(E, D)
      /\ \A x \in nextBlock..(nb2 - 1) : x \in DOMAIN E /\ x \notin DOMAIN D /\ E[x] = v
      /\ \A x \in DOMAIN D : x \in DOMAIN E /\ E[x] = D[x]
      /\ NoBlock \notin DOMAIN E
  BY <1>1, <1>2, WiderTyped, SMTT(40)
<1>4. /\ N \in [0..(nb2 - 1) -> Int]
      /\ \A x \in nextBlock..(nb2 - 1) : N[x] = v
      /\ \A x \in DOMAIN M : N[x] = M[x]
  BY <1>1, <1>2, WiderTyped, SMTT(40)
<1> HIDE DEF E, N
<1>5. DOMAIN M = DOMAIN D
  BY <1>1, <1>2
<1>6. Becomes(blocks, D, M, T, Reserve(blocks, ids), E, N)
  <2>1. ids \subseteq DOMAIN E
    BY <1>3
  <2>2. \A x \in DOMAIN D \ ids : N[x] = M[x]
    BY <1>4, <1>5
  <2>3. \A x \in ids : N[x] = E[x] /\ x \notin DOMAIN blocks /\ (x \in T \/ x \notin DOMAIN D)
    BY <1>1, <1>3, <1>4
  <2>4. E \in [DOMAIN E -> Int] /\ N \in [DOMAIN E -> Int]
    BY <1>3, <1>4
  <2> QED
    BY <1>1, <1>3, <2>1, <2>2, <2>3, <2>4, BecomesReserved
<1> QED
  BY <1>1, <1>3, <1>4, <1>5, <1>6 DEF E, N

LEMMA BecomesThen ==
  ASSUME NEW bs, NEW D, NEW M, NEW T, NEW cs, NEW E, NEW N, Becomes(bs, D, M, T, cs, E, N),
         NEW ds, NEW F, NEW O, Becomes(cs, E, N, T, ds, F, O), DOMAIN bs \subseteq DOMAIN cs
  PROVE  Becomes(bs, D, M, T, ds, F, O)
<1>1. Extends(F, D)
  BY DEF Becomes, Extends
<1>2. Frames(bs, D, M, T, ds, O)
  BY DEF Becomes, Frames, Extends
<1> QED
  BY <1>1, <1>2 DEF Becomes

\* What blocks end in.
LEMMA TermFrames ==
  ASSUME NEW bs, bs \in [DOMAIN bs -> SoundBlock], NEW b, b \in DOMAIN bs \cup {NoBlock},
         NoBlock \notin DOMAIN bs, NEW code, NEW term
  PROVE  \A c \in DOMAIN bs :
           /\ c \in DOMAIN Emit(bs, b, code) /\ Emit(bs, b, code)[c].term = bs[c].term
           /\ c \in DOMAIN End(bs, b, term)
           /\ End(bs, b, term)[c].term = IF c = b THEN term ELSE bs[c].term
           /\ c \in DOMAIN Close(bs, b, code, term)
           /\ Close(bs, b, code, term)[c].term = IF c = b THEN term ELSE bs[c].term
<1> SUFFICES ASSUME NEW c \in DOMAIN bs
             PROVE  /\ c \in DOMAIN Emit(bs, b, code) /\ Emit(bs, b, code)[c].term = bs[c].term
                    /\ c \in DOMAIN End(bs, b, term)
                    /\ End(bs, b, term)[c].term = IF c = b THEN term ELSE bs[c].term
                    /\ c \in DOMAIN Close(bs, b, code, term)
                    /\ Close(bs, b, code, term)[c].term = IF c = b THEN term ELSE bs[c].term
  OBVIOUS
<1>1. c \in DOMAIN Emit(bs, b, code) /\ c \in DOMAIN End(bs, b, term)
      /\ c \in DOMAIN Close(bs, b, code, term)
  BY EmitFrames, EndFrames, CloseFrames
<1>2. CASE c # b
  <2>1. c \in DOMAIN bs \ {b}
    BY <1>2
  <2>2. Emit(bs, b, code)[c] = bs[c] /\ End(bs, b, term)[c] = bs[c]
        /\ Close(bs, b, code, term)[c] = bs[c]
    BY <2>1, EmitFrames, EndFrames, CloseFrames
  <2> QED
    BY <1>1, <1>2, <2>2
<1>3. CASE c = b
  <2>1. b \in DOMAIN bs /\ b # NoBlock
    BY <1>3
  <2>2. End(bs, b, term)[b].term = term /\ Close(bs, b, code, term)[b].term = term
    BY <2>1, EndsIn, ClosesIn
  <2>3. Emit(bs, b, code)[b].term = bs[b].term
    BY <2>1 DEF Emit, SoundBlock
  <2> QED
    BY <1>1, <1>3, <2>2, <2>3
<1> QED
  BY <1>2, <1>3

LEMMA EmitTerms ==
  ASSUME NEW bs, bs \in [DOMAIN bs -> SoundBlock], NEW b, b \in DOMAIN bs \cup {NoBlock},
         NoBlock \notin DOMAIN bs, NEW code
  PROVE  /\ DOMAIN Emit(bs, b, code) = DOMAIN bs
         /\ \A c \in DOMAIN bs : Emit(bs, b, code)[c].term = bs[c].term
  BY TermFrames, EmitFrames

LEMMA EndTerms ==
  ASSUME NEW bs, bs \in [DOMAIN bs -> SoundBlock], NEW b, b \in DOMAIN bs \cup {NoBlock},
         NoBlock \notin DOMAIN bs, NEW term
  PROVE  /\ DOMAIN End(bs, b, term) = DOMAIN bs
         /\ \A c \in DOMAIN bs \ {b} : End(bs, b, term)[c].term = bs[c].term
         /\ b # NoBlock => End(bs, b, term)[b].term = term
  BY EndFrames, EndsIn

LEMMA CloseTerms ==
  ASSUME NEW bs, bs \in [DOMAIN bs -> SoundBlock], NEW b, b \in DOMAIN bs \cup {NoBlock},
         NoBlock \notin DOMAIN bs, NEW code, NEW term
  PROVE  /\ DOMAIN Close(bs, b, code, term) = DOMAIN bs
         /\ \A c \in DOMAIN bs \ {b} : Close(bs, b, code, term)[c].term = bs[c].term
         /\ b # NoBlock => Close(bs, b, code, term)[b].term = term
  BY CloseFrames, ClosesIn

LEMMA ReservedTerms ==
  ASSUME NEW bs, NEW ids, NEW c \in ids
  PROVE  Reserve(bs, ids)[c].term = Unreachable
<1>1. Reserve(bs, ids)[c] = Fresh
  BY ReserveFrames
<1>2. Fresh.term = Unreachable
  BY DEF Fresh
<1> QED
  BY <1>1, <1>2

LEMMA ReservedRest ==
  ASSUME NEW bs, NEW ids, NEW c \in DOMAIN bs \ ids
  PROVE  Reserve(bs, ids)[c] = bs[c]
  BY DEF Reserve, Bound

LEMMA OpenTerms ==
  /\ \A bs, b : bs[b].term = Unreachable => ~Ended(bs, b)
  /\ \A bs, b, x : bs[b].term = Jump(x) => Ended(bs, b)
  /\ \A bs, b, a, x, y : bs[b].term = Branch(a, x, y) => Ended(bs, b)
  /\ \A bs, b : Open(bs, b) => ~Ended(bs, b)
  BY DEF Ended, Open, Unreachable, Jump, Branch, Term

\* The bodies of a statement.
LEMMA BodiesTyped ==
  ASSUME LowerInv, Fitting, agenda # <<>>
  PROVE  /\ The.body \in Seq(Syntax) /\ The.other \in Seq(Syntax)
         /\ Live(The.body) /\ Live(The.other)
         /\ \A s \in Range(The.body) \cup Range(The.other) : s.kind \in Kinds
         /\ The.kind = "for" => FallsThrough(The.body)
<1>1. The.body \in Seq(Statements) /\ The.other \in Seq(Statements)
  BY AgendaSplits DEF Syntax
<1>2. The.body \in Seq(Syntax) /\ The.other \in Seq(Syntax)
  BY <1>1, StatementsTyped, SeqsGrow
<1>3. \A s \in Statements : s.kind \in Kinds
  BY StatementsAssumption
<1>4. Range(The.body) \subseteq Statements /\ Range(The.other) \subseteq Statements
  BY <1>1 DEF Range
<1>5. Neat(The)
  BY HeadNeat
<1> QED
  BY <1>2, <1>3, <1>4, <1>5 DEF Neat

\* A body is begun in an open block.
LEMMA PoisedBody ==
  ASSUME NEW S, NEW ag \in Seq(S), ag # <<>>, NEW pts \in Seq(S), Len(pts) \in Nat \ {0},
         pts[1].do \notin Closing, NEW cur2, NEW cs, NEW d, NEW N,
         N[cur2] = d, ~Ended(cs, cur2)
  PROVE  Poised(After(ag, pts), cur2, cs, d, N)
<1>1. 1 \in 1..Len(pts)
  OBVIOUS
<1>2. After(ag, pts)[1] = pts[1]
  BY <1>1, BelowThen
<1> QED
  BY <1>2 DEF Poised, Level

-----------------------------------------------------------------------------
\* A condition that must hold.
LEMMA TestPaced == ASSUME LowerInv, Fitting, Balanced, BuildTest PROVE Balanced'
<1> DEFINE e == Lower(The.expr)
           trap == nextBlock
           cont == nextBlock + 1
           branch == Branch(Value(e.value), cont, trap)
           reserved == Reserve(blocks, {trap, cont})
           closed == Close(reserved, current, e.code, branch)
           T == Touched(agenda, current)
           v == Level(agenda, Len(regions))
<1>1. /\ On("require") \/ Doing("test")
      /\ agenda # <<>> /\ "require" \in Kinds
      /\ blocks' = End(closed, trap, Trap)
      /\ current' = cont
      /\ nextBlock' = nextBlock + 2
      /\ Then(<<>>)
      /\ UNCHANGED <<loops, regions>>
  BY DEF BuildTest, On, Doing, Kinds
<1>2. PICK D, M, dep, L : Here(D, M, dep, L)
  BY DEF Balanced
<1>3. /\ Delta(agenda[1]) = 0 /\ ~Resumes(agenda[1])
      /\ agenda[1].do \notin LoopEnds /\ agenda[1].do # "return_end" /\ Resolved(The.expr)
  <2>1. CASE On("require")
    <3>1. agenda[1].do = "stmt" /\ agenda[1].s.kind \in Kinds /\ Resolved(The.expr)
      BY <1>1, <2>1, HeadOn
    <3> QED
      BY <3>1, PlainHead
  <2>2. CASE Doing("test")
    <3>1. agenda[1].do = "test" /\ Resolved(The.expr)
      BY <2>2, DoingHead
    <3> QED
      BY <3>1 DEF Delta, Resumes, LoopEnds
  <2> QED
    BY <1>1, <2>1, <2>2
<1>4. /\ current \in DOMAIN blocks \cup {NoBlock} /\ Levels(blocks, D, M)
      /\ agenda \in Seq(Tasks) /\ Planned(agenda, Len(regions), dep) /\ nextBlock \in Nat
      /\ DOMAIN D = 0..(nextBlock - 1) /\ NoBlock \notin DOMAIN blocks /\ Len(regions) \in Nat
      /\ DOMAIN blocks \subseteq DOMAIN D
  BY <1>1, <1>2, HereTyped
<1>5. e.value \in Nat
  BY <1>1, <1>3, LowersTo
<1>6. v \in Int
  BY <1>4 DEF Level
<1> DEFINE E == Wider(D, nextBlock, nextBlock + 2, v)
           N == Wider(M, nextBlock, nextBlock + 2, v)
<1>7. nextBlock + 2 \in Nat /\ nextBlock <= nextBlock + 2
      /\ {trap, cont} \subseteq nextBlock..((nextBlock + 2) - 1)
      /\ trap # cont /\ trap \in Int /\ cont \in Int
  BY <1>4
<1> HIDE DEF trap, cont, v
<1>8. /\ Becomes(blocks, D, M, T, reserved, E, N)
      /\ DOMAIN E = 0..((nextBlock + 2) - 1) /\ Extends(E, D)
      /\ \A x \in nextBlock..((nextBlock + 2) - 1) :
           x \in DOMAIN E /\ x \notin DOMAIN D /\ x \notin DOMAIN blocks /\ E[x] = v /\ N[x] = v
      /\ \A x \in DOMAIN D : x \in DOMAIN E /\ E[x] = D[x] /\ N[x] = M[x]
  BY <1>1, <1>2, <1>6, <1>7, ReservesHere
<1>9. current # NoBlock => e.code \in Seq(Even(E, M[current]))
  BY <1>1, <1>2, <1>3, <1>8, HeadEven
<1>10. /\ branch \in Terminator /\ Targets(branch) = {cont, trap} /\ branch.kind = "branch"
       /\ Trap \in Terminator /\ Targets(Trap) = {} /\ Trap.kind = "trap"
  <2>1. Value(e.value) \in Operand
    BY <1>5, OperandsTyped
  <2>2. branch \in Terminator /\ Targets(branch) = {cont, trap}
    BY <1>7, <2>1, BranchTyped
  <2> QED
    BY <2>2, TermsTyped DEF Branch, Trap, Term
<1> HIDE DEF e, E, N, T
<1>11. /\ trap \in DOMAIN E /\ trap \notin DOMAIN D /\ E[trap] = v /\ N[trap] = v
       /\ trap \notin DOMAIN blocks
       /\ cont \in DOMAIN E /\ cont \notin DOMAIN D /\ E[cont] = v /\ N[cont] = v
       /\ cont \notin DOMAIN blocks
  BY <1>7, <1>8
<1>12. current # NoBlock => M[current] = v /\ N[current] = v
  BY <1>1, <1>2, <1>3, <1>4, <1>8, CurrentLevel DEF v
<1>13. /\ DOMAIN reserved = DOMAIN blocks \cup {trap, cont}
       /\ reserved[trap].term = Unreachable /\ reserved[cont].term = Unreachable
  <2> DEFINE ids == {trap, cont}
  <2> HIDE DEF ids
  <2>1. DOMAIN Reserve(blocks, ids) = DOMAIN blocks \cup ids
    BY ReserveFrames
  <2>2. \A c \in ids : Reserve(blocks, ids)[c].term = Unreachable
    BY ReservedTerms
  <2> QED
    BY <2>1, <2>2 DEF ids
<1>14. reserved \in [DOMAIN reserved -> SoundBlock] /\ NoBlock \notin DOMAIN reserved
  BY <1>8 DEF Becomes, Levels
<1> HIDE DEF branch, reserved
<1>15. current \in DOMAIN reserved \cup {NoBlock} /\ current \in T /\ current # trap /\ current # cont
  <2>1. trap # NoBlock /\ cont # NoBlock
    BY <1>13, <1>14
  <2> QED
    BY <1>4, <1>11, <1>13, <2>1 DEF Touched, T
<1>16. Becomes(blocks, D, M, T, closed, E, N)
  <2>1. current # NoBlock => e.code \in Seq(Even(E, N[current])) /\ Leads(branch, E, N[current])
    BY <1>9, <1>10, <1>11, <1>12 DEF Leads
  <2> QED
    BY <1>8, <1>10, <1>15, <2>1, BecomesEvenClosed
<1>17. /\ DOMAIN closed = DOMAIN reserved
       /\ closed[trap].term = Unreachable /\ closed[cont].term = Unreachable
       /\ current # NoBlock => closed[current].term = branch
  BY <1>13, <1>14, <1>15, CloseTerms
<1>18. closed \in [DOMAIN closed -> SoundBlock] /\ NoBlock \notin DOMAIN closed
  BY <1>16 DEF Becomes, Levels
<1> HIDE DEF closed
<1>19. Becomes(blocks, D, M, T, blocks', E, N)
  <2>1. Leads(Trap, E, N[trap])
    BY <1>10 DEF Leads
  <2>2. trap \in DOMAIN closed /\ ~Ended(closed, trap)
    BY <1>13, <1>17, OpenTerms
  <2> QED
    BY <1>1, <1>10, <1>11, <1>16, <2>1, <2>2, BecomesEnded
<1>20. /\ blocks'[cont].term = Unreachable
       /\ current # NoBlock => blocks'[current].term = branch
  <2>1. /\ trap \in DOMAIN closed /\ cont \in DOMAIN closed /\ cont # trap
        /\ current \in DOMAIN closed \cup {NoBlock} /\ current # trap
    BY <1>7, <1>13, <1>15, <1>17
  <2>2. \A c \in DOMAIN closed \ {trap} : End(closed, trap, Trap)[c].term = closed[c].term
    BY <1>18, <2>1, EndTerms
  <2> QED
    BY <1>1, <1>17, <2>1, <2>2
<1>21. GoesOn(agenda, current, blocks, blocks', current')
  <2>1. current # NoBlock => Ended(blocks', current)
    BY <1>10, <1>20 DEF Ended
  <2> QED
    BY <1>4, <2>1 DEF GoesOn
<1>22. Poised(After(agenda, <<>>), current', blocks', Len(regions), N)
  <2>1. N[cont] = Level(agenda, Len(regions)) + Delta(agenda[1])
    BY <1>3, <1>6, <1>11 DEF v
  <2>2. ~Ended(blocks', cont)
    BY <1>20, OpenTerms
  <2>3. Len(regions) + Delta(agenda[1]) = Len(regions) /\ Len(regions) \in Int
    BY <1>3, <1>4
  <2>4. Poised(After(agenda, <<>>), cont, blocks', Len(regions) + Delta(agenda[1]), N)
    BY <1>1, <1>3, <1>4, <2>1, <2>2, <2>3, PoisedOn
  <2> QED
    BY <1>1, <2>3, <2>4
<1>23. DOMAIN E = 0..(nextBlock' - 1)
  BY <1>1, <1>8
<1> QED
  BY <1>1, <1>2, <1>3, <1>11, <1>19, <1>21, <1>22, <1>23, PopBalances DEF T

-----------------------------------------------------------------------------
\* An if begins.
LEMMA IfPaced == ASSUME LowerInv, Fitting, Balanced, BuildIf PROVE Balanced'
<1> DEFINE e == Lower(The.expr)
           then == nextBlock
           els  == IF The.other = <<>> THEN NoBlock ELSE nextBlock + 1
           cont == IF The.other = <<>> THEN nextBlock + 1 ELSE nextBlock + 2
           branch == Branch(Value(e.value), then, IF els = NoBlock THEN cont ELSE els)
           reserved == Reserve(blocks, {then, cont})
           T == Touched(agenda, current)
           v == Len(regions)
           p == Point("then_end", The, <<then, els, cont>>)
           pts == Points(The.body) \o <<p>>
<1>1. /\ On("if") /\ agenda # <<>> /\ "if" \in Kinds
      /\ blocks' = Close(reserved, current, e.code, branch)
      /\ current' = then
      /\ nextBlock' = cont + 1
      /\ Then(pts)
      /\ UNCHANGED <<loops, regions>>
  BY DEF BuildIf, On, Doing, Kinds
<1>2. PICK D, M, dep, L : Here(D, M, dep, L)
  BY DEF Balanced
<1>3. /\ Delta(agenda[1]) = 0 /\ ~Resumes(agenda[1]) /\ agenda[1].do # "test"
      /\ agenda[1].do \notin LoopEnds /\ agenda[1].do # "return_end" /\ Resolved(The.expr)
      /\ agenda[1].do = "stmt" /\ agenda[1].s.kind \in Kinds
  BY <1>1, HeadOn, PlainHead
<1>4. /\ current \in DOMAIN blocks \cup {NoBlock} /\ Levels(blocks, D, M)
      /\ agenda \in Seq(Tasks) /\ nextBlock \in Nat
      /\ DOMAIN D = 0..(nextBlock - 1) /\ NoBlock \notin DOMAIN blocks /\ Len(regions) \in Nat
      /\ DOMAIN blocks \subseteq DOMAIN D
  BY <1>1, <1>2, HereTyped
<1>5. e.value \in Nat
  BY <1>1, <1>3, LowersTo
<1>6. v \in Int
  BY <1>4
<1> DEFINE nb2 == cont + 1
           E == Wider(D, nextBlock, nb2, v)
           N == Wider(M, nextBlock, nb2, v)
<1>7. /\ nb2 \in Nat /\ nextBlock <= nb2 /\ {then, cont} \subseteq nextBlock..(nb2 - 1)
      /\ then # cont /\ then \in Int /\ cont \in Int /\ els \in Int
      /\ els # NoBlock => els \in nextBlock..(nb2 - 1) /\ els # then /\ els # cont
  BY <1>4, Numbers
<1> HIDE DEF then, cont, els, v, nb2
<1>8. /\ Becomes(blocks, D, M, T, reserved, E, N)
      /\ DOMAIN E = 0..(nb2 - 1) /\ Extends(E, D)
      /\ \A x \in nextBlock..(nb2 - 1) :
           x \in DOMAIN E /\ x \notin DOMAIN D /\ x \notin DOMAIN blocks /\ E[x] = v /\ N[x] = v
      /\ \A x \in DOMAIN D : x \in DOMAIN E /\ E[x] = D[x] /\ N[x] = M[x]
  BY <1>1, <1>2, <1>6, <1>7, ReservesHere
<1>9. current # NoBlock => e.code \in Seq(Even(E, M[current]))
  BY <1>1, <1>2, <1>3, <1>8, HeadEven
<1>10. /\ branch \in Terminator /\ branch.kind = "branch"
       /\ \A x \in Targets(branch) : x \in DOMAIN E /\ E[x] = v
  <2>1. Value(e.value) \in Operand
    BY <1>5, OperandsTyped
  <2>2. branch \in Terminator
        /\ Targets(branch) = {then, IF els = NoBlock THEN cont ELSE els}
    BY <1>7, <2>1, BranchTyped
  <2>3. branch.kind = "branch"
    BY DEF Branch, Term
  <2> QED
    BY <1>7, <1>8, <2>2, <2>3
<1> HIDE DEF e, E, N, T
<1>11. current # NoBlock => M[current] = v /\ N[current] = v
  BY <1>1, <1>2, <1>3, <1>4, <1>8, PlainLevel DEF v
<1>12. /\ DOMAIN reserved = DOMAIN blocks \cup {then, cont}
       /\ reserved[then].term = Unreachable /\ reserved[cont].term = Unreachable
  <2> DEFINE ids == {then, cont}
  <2> HIDE DEF ids
  <2>1. DOMAIN Reserve(blocks, ids) = DOMAIN blocks \cup ids
    BY ReserveFrames
  <2>2. \A c \in ids : Reserve(blocks, ids)[c].term = Unreachable
    BY ReservedTerms
  <2> QED
    BY <2>1, <2>2 DEF ids
<1>13. reserved \in [DOMAIN reserved -> SoundBlock] /\ NoBlock \notin DOMAIN reserved
  BY <1>8 DEF Becomes, Levels
<1> HIDE DEF branch, reserved
<1>14. current \in DOMAIN reserved \cup {NoBlock} /\ current \in T /\ current # then /\ current # cont
  <2>1. then # NoBlock /\ cont # NoBlock /\ then \notin DOMAIN blocks /\ cont \notin DOMAIN blocks
    BY <1>7, <1>8, <1>12, <1>13
  <2> QED
    BY <1>4, <1>12, <2>1 DEF Touched, T
<1>15. Becomes(blocks, D, M, T, blocks', E, N)
  <2>1. current # NoBlock => e.code \in Seq(Even(E, N[current])) /\ Leads(branch, E, N[current])
    BY <1>9, <1>10, <1>11 DEF Leads
  <2> QED
    BY <1>1, <1>8, <1>10, <1>14, <2>1, BecomesEvenClosed
<1>16. /\ DOMAIN blocks' = DOMAIN reserved
       /\ blocks'[then].term = Unreachable /\ blocks'[cont].term = Unreachable
       /\ current # NoBlock => blocks'[current].term = branch
  BY <1>1, <1>12, <1>13, <1>14, CloseTerms
<1>17. p.do = "then_end" /\ p.at[1] = then /\ p.at[2] = els /\ p.at[3] = cont /\ p \in Tasks
  <2>1. <<then, els, cont>> \in Seq(Int)
    BY <1>7
  <2>2. The \in Syntax
    BY <1>1, AgendaSplits
  <2>3. p.do = "then_end" /\ p.at = <<then, els, cont>>
    BY PointParts
  <2> QED
    BY <2>1, <2>2, <2>3 DEF Point, Tasks, Doings
<1> HIDE DEF p
<1>18. /\ Settled(agenda, pts) /\ pts[1].do \notin Closing /\ Len(pts) \in Nat \ {0}
       /\ pts[Len(pts)] = p /\ Points(The.body) \in Seq(Tasks)
  <2>1. p.do \in Joins /\ p.do # "for_end"
    BY <1>17 DEF Joins
  <2> QED
    BY <1>1, <2>1, BodiesTyped, BodySettled
<1>19. pts \in Seq(Tasks)
  BY <1>17, <1>18
<1> HIDE DEF pts
<1>20. pts # <<>>
  BY <1>18
<1>21. /\ Waiting(p) = {cont} /\ Later(p) = {els} \ {NoBlock} /\ Begun(p) = {then}
       /\ Owned(p) = {cont} \cup ({els} \ {NoBlock}) /\ Entries(p) = Owned(p)
       /\ p.do \notin LoopEnds
  BY <1>17 DEF Waiting, Later, Begun, Owned, Entries, LoopEnds
<1>22. /\ Carries(p, current', blocks', E, N, v)
       /\ \A x \in Owned(p) : x \in T \/ x \notin DOMAIN D
  <2>1. \A x \in {cont} \cup ({els} \ {NoBlock}) : x \in nextBlock..(nb2 - 1) /\ x # then
    BY <1>7
  <2>2. \A x \in Owned(p) : x \in DOMAIN E /\ E[x] = v /\ x # current' /\ x \notin DOMAIN D
    BY <1>1, <1>8, <1>21, <2>1
  <2>3. cont \in DOMAIN blocks' /\ ~Ended(blocks', cont) /\ N[cont] = v
    BY <1>7, <1>8, <1>12, <1>16, OpenTerms
  <2>4. \A x \in {els} \ {NoBlock} : x \notin DOMAIN blocks'
    BY <1>7, <1>8, <1>12, <1>16
  <2>5. then \in DOMAIN blocks' /\ then = current' /\ blocks'[then].term = Unreachable
    BY <1>1, <1>12, <1>16
  <2> QED
    BY <1>21, <2>2, <2>3, <2>4, <2>5 DEF Carries
<1>23. Poised(After(agenda, pts), current', blocks', v, N)
  <2>1. N[then] = v /\ ~Ended(blocks', then)
    BY <1>7, <1>8, <1>16, OpenTerms
  <2> QED
    BY <1>1, <1>4, <1>18, <1>19, <2>1, PoisedBody
<1>24. current \notin DOMAIN blocks \/ Ended(blocks', current)
  <2>1. current # NoBlock => Ended(blocks', current)
    BY <1>10, <1>16 DEF Ended
  <2> QED
    BY <1>4, <2>1
<1>25. DOMAIN E = 0..(nextBlock' - 1) /\ current' \notin DOMAIN D
  BY <1>1, <1>7, <1>8 DEF nb2
<1> QED
  BY <1>1, <1>2, <1>3, <1>15, <1>18, <1>19, <1>20, <1>21, <1>22, <1>23, <1>24, <1>25,
     PushBalances DEF T, v

-----------------------------------------------------------------------------
\* What the point that is next waits for.
LEMMA HeadCarries ==
  ASSUME LowerInv, NEW D, NEW M, NEW dep, NEW L, Here(D, M, dep, L), agenda # <<>>
  PROVE  Carries(agenda[1], current, blocks, D, M, Len(regions))
<1>1. Len(agenda) \in Nat \ {0} /\ Planned(agenda, Len(regions), dep)
  BY HereTyped
<1>2. Len(agenda) \in 1..Len(agenda) /\ dep[Len(agenda)] = Len(regions)
  BY <1>1 DEF Planned
<1>3. Below(agenda, Len(agenda)) = agenda[1]
  BY <1>1, BelowFirst
<1>4. HeldAt(agenda, Len(agenda), current, blocks, D, M, dep)
  BY <1>2 DEF Here, Paced, Held
<1> QED
  BY <1>2, <1>3, <1>4 DEF HeldAt, Carries

LEMMA OpenLevel ==
  ASSUME LowerInv, NEW D, NEW M, NEW dep, NEW L, Here(D, M, dep, L), agenda # <<>>,
         agenda[1].do \notin Closing, current # NoBlock
  PROVE  M[current] = Len(regions) \/ (Ended(blocks, current) /\ Resumes(agenda[1]))
  BY DEF Here, Paced, Poised, Level

LEMMA JoinHead ==
  ASSUME NEW p, p.do \in Joins
  PROVE  /\ Delta(p) = 0 /\ p.do # "test" /\ p.do # "return_end" /\ p.do \notin Closing
         /\ p.do # "stmt"
  BY DEF Joins, LoopEnds, Closing, Delta

\* A block that goes on behind an if, unless it has ended.
LEMMA BecomesJoined ==
  ASSUME NEW bs, NEW D, NEW M, NEW T, NEW cs, NEW E, NEW N, Becomes(bs, D, M, T, cs, E, N),
         NEW b \in DOMAIN cs \cup {NoBlock},
         b = NoBlock \/ Ended(cs, b) \/ b \in T, NEW cont \in Int, cont \in DOMAIN E,
         b # NoBlock => Ended(cs, b) \/ N[b] = E[cont]
  PROVE  /\ Becomes(bs, D, M, T, Joined(cs, b, cont), E, N)
         /\ DOMAIN Joined(cs, b, cont) = DOMAIN cs
         /\ \A c \in DOMAIN cs \ {b} : Joined(cs, b, cont)[c].term = cs[c].term
         /\ b # NoBlock => Ended(Joined(cs, b, cont), b)
<1>1. cs \in [DOMAIN cs -> SoundBlock] /\ NoBlock \notin DOMAIN cs
  BY DEF Becomes, Levels
<1>2. CASE b = NoBlock \/ Ended(cs, b)
  BY <1>2 DEF Joined
<1>3. CASE b # NoBlock /\ ~Ended(cs, b)
  <2>1. Joined(cs, b, cont) = End(cs, b, Jump(cont))
    BY <1>3 DEF Joined
  <2>2. Jump(cont) \in Terminator /\ Targets(Jump(cont)) = {cont} /\ Jump(cont).kind = "jump"
    BY TermsTyped DEF Jump, Term
  <2>3. Leads(Jump(cont), E, N[b])
    BY <1>3, <2>2 DEF Leads
  <2>4. Becomes(bs, D, M, T, End(cs, b, Jump(cont)), E, N)
    BY <1>3, <2>2, <2>3, BecomesEnded
  <2>5. /\ DOMAIN End(cs, b, Jump(cont)) = DOMAIN cs
        /\ \A c \in DOMAIN cs \ {b} : End(cs, b, Jump(cont))[c].term = cs[c].term
        /\ End(cs, b, Jump(cont))[b].term = Jump(cont)
    BY <1>1, <1>3, EndTerms
  <2>6. Ended(End(cs, b, Jump(cont)), b)
    BY <2>5, OpenTerms
  <2> QED
    BY <2>1, <2>4, <2>5, <2>6
<1> QED
  BY <1>2, <1>3

-----------------------------------------------------------------------------
\* The arms of an if.
LEMMA ThenEndHolds ==
  ASSUME NEW p, p.do = "then_end"
  PROVE  /\ Waiting(p) = {p.at[3]} /\ Later(p) = {p.at[2]} \ {NoBlock} /\ Begun(p) = {p.at[1]}
         /\ Owned(p) = {p.at[3]} \cup ({p.at[2]} \ {NoBlock}) /\ Owned(p) \subseteq Entries(p)
         /\ p.do \in Joins /\ p.do \notin LoopEnds
  BY DEF Waiting, Later, Begun, Owned, Entries, Joins, LoopEnds

LEMMA ElseEndHolds ==
  ASSUME NEW p, p.do = "else_end"
  PROVE  /\ Waiting(p) = {p.at[3]} /\ Later(p) = {} /\ Begun(p) = {}
         /\ Owned(p) = {p.at[3]} /\ Entries(p) = {p.at[3]}
         /\ p.do \in Joins /\ p.do \notin LoopEnds
  BY DEF Waiting, Later, Begun, Owned, Entries, Joins, LoopEnds

LEMMA EndElsePaced == ASSUME LowerInv, Fitting, Balanced, EndElse PROVE Balanced'
<1> DEFINE cont == At[3]
           returns == current = NoBlock \/ blocks[current].term.kind = "return"
           T == Touched(agenda, current)
<1>1. /\ Doing("else_end") /\ Then(<<>>)
      /\ blocks' = IF returns THEN blocks ELSE Joined(blocks, current, cont)
      /\ current' = NoBlock \/ current' = cont
      /\ UNCHANGED <<nextBlock, loops, regions>>
  BY DEF EndElse
<1>2. agenda # <<>> /\ agenda[1].do = "else_end"
  BY <1>1, DoingHead
<1>3. PICK D, M, dep, L : Here(D, M, dep, L)
  BY DEF Balanced
<1>4. /\ current \in DOMAIN blocks \cup {NoBlock} /\ Levels(blocks, D, M)
      /\ agenda \in Seq(Tasks) /\ Planned(agenda, Len(regions), dep)
      /\ DOMAIN D = 0..(nextBlock - 1) /\ NoBlock \notin DOMAIN blocks /\ Len(regions) \in Nat
      /\ DOMAIN blocks \subseteq DOMAIN D /\ NoBlock \notin DOMAIN D /\ nextBlock \in Nat
      /\ cont = agenda[1].at[3]
  BY <1>2, <1>3, HereTyped DEF Levels
<1> HIDE DEF cont
<1>5. /\ Owned(agenda[1]) = {cont} /\ agenda[1].do \in Joins /\ agenda[1].do \notin LoopEnds
      /\ Waiting(agenda[1]) = {cont} /\ Entries(agenda[1]) = {cont}
  BY <1>2, <1>4, ElseEndHolds
<1>6. /\ Delta(agenda[1]) = 0 /\ agenda[1].do # "return_end" /\ agenda[1].do \notin Closing
  BY <1>5, JoinHead
<1>7. /\ cont \in DOMAIN D /\ D[cont] = Len(regions) /\ cont # current
      /\ cont \in DOMAIN blocks /\ ~Ended(blocks, cont) /\ M[cont] = Len(regions)
  BY <1>2, <1>3, <1>5, HeadCarries DEF Carries
<1>8. cont \in Int
  BY <1>4, <1>7
<1>9. Becomes(blocks, D, M, T, blocks, D, M) /\ current \in T /\ cont \in T
  BY <1>4, <1>5, BecomesItself DEF Touched
<1> HIDE DEF T
<1>10. current # NoBlock => Ended(blocks, current) \/ M[current] = D[cont]
  BY <1>2, <1>3, <1>6, <1>7, OpenLevel
<1>11. /\ Becomes(blocks, D, M, T, Joined(blocks, current, cont), D, M)
       /\ \A c \in DOMAIN blocks \ {current} : Joined(blocks, current, cont)[c].term = blocks[c].term
  BY <1>4, <1>7, <1>8, <1>9, <1>10, BecomesJoined, SMTT(30)
<1>12. Becomes(blocks, D, M, T, blocks', D, M) /\ blocks'[cont].term = blocks[cont].term
  BY <1>1, <1>7, <1>9, <1>11
<1>13. GoesOn(agenda, current, blocks, blocks', current')
  BY <1>5 DEF GoesOn
<1>14. current' \in T \/ current' \notin DOMAIN D
  BY <1>1, <1>4, <1>9
<1>15. Poised(After(agenda, <<>>), current', blocks', Len(regions), M)
  <2>1. ~Ended(blocks', cont)
    BY <1>7, <1>12 DEF Ended
  <2>2. Len(regions) + Delta(agenda[1]) = Len(regions) /\ Len(regions) \in Int
    BY <1>4, <1>6
  <2>3. Level(agenda, Len(regions)) = Len(regions)
    BY <1>6 DEF Level
  <2>4. current' # NoBlock =>
          /\ M[current'] = Level(agenda, Len(regions)) + Delta(agenda[1])
          /\ Len(regions) + Delta(agenda[1]) # 0 => ~Ended(blocks', current')
    BY <1>1, <1>7, <2>1, <2>2, <2>3
  <2>5. Poised(After(agenda, <<>>), current', blocks', Len(regions) + Delta(agenda[1]), M)
    BY <1>2, <1>4, <1>6, <2>2, <2>4, PoisedOn
  <2> QED
    BY <2>2, <2>5
<1>16. DOMAIN D = 0..(nextBlock' - 1)
  BY <1>1, <1>4
<1> QED
  BY <1>1, <1>2, <1>3, <1>5, <1>6, <1>12, <1>13, <1>14, <1>15, <1>16, PopBalances DEF T

\* The blocks after the first arm: both its first block and its last one go on behind the if.
LEMMA ThenJoined ==
  ASSUME LowerInv, NEW D, NEW M, NEW dep, NEW L, Here(D, M, dep, L), agenda # <<>>,
         agenda[1].do = "then_end", NEW joined,
         joined = (IF At[1] \in Returning THEN blocks
                   ELSE Joined(Joined(blocks, At[1], At[3]), current, At[3]))
  PROVE  /\ Becomes(blocks, D, M, Touched(agenda, current), joined, D, M)
         /\ DOMAIN joined = DOMAIN blocks
         /\ joined[At[3]].term = blocks[At[3]].term
<1> DEFINE then == At[1]
           cont == At[3]
           T == Touched(agenda, current)
           first == Joined(blocks, then, cont)
<1>1. /\ current \in DOMAIN blocks \cup {NoBlock} /\ Levels(blocks, D, M)
      /\ DOMAIN D = 0..(nextBlock - 1) /\ NoBlock \notin DOMAIN blocks
      /\ DOMAIN blocks \subseteq DOMAIN D /\ nextBlock \in Nat
      /\ cont = agenda[1].at[3] /\ then = agenda[1].at[1]
  BY HereTyped
<1> HIDE DEF cont, then
<1>2. /\ cont \in Owned(agenda[1]) /\ Waiting(agenda[1]) = {cont} /\ Begun(agenda[1]) = {then}
      /\ Owned(agenda[1]) \subseteq Entries(agenda[1]) /\ agenda[1].do \in Joins
  BY <1>1, ThenEndHolds
<1>3. /\ cont \in DOMAIN D /\ D[cont] = Len(regions) /\ cont # current
      /\ cont \in DOMAIN blocks /\ ~Ended(blocks, cont)
      /\ then \in DOMAIN blocks /\ (Ended(blocks, then) \/ then = current)
  BY <1>2, HeadCarries DEF Carries
<1>4. cont \in Int /\ cont # then
  BY <1>1, <1>3
<1>5. Becomes(blocks, D, M, T, blocks, D, M) /\ current \in T
  BY <1>1, BecomesItself DEF Touched
<1> HIDE DEF T
<1>6. current # NoBlock => Ended(blocks, current) \/ M[current] = D[cont]
  BY <1>2, <1>3, JoinHead, OpenLevel
<1>7. /\ Becomes(blocks, D, M, T, first, D, M) /\ DOMAIN first = DOMAIN blocks
      /\ first[cont].term = blocks[cont].term
      /\ \A c \in DOMAIN blocks \ {then} : first[c].term = blocks[c].term
      /\ then # NoBlock => Ended(first, then)
  <2>1. /\ then \in DOMAIN blocks \cup {NoBlock}
        /\ then = NoBlock \/ Ended(blocks, then) \/ then \in T
        /\ then # NoBlock => Ended(blocks, then) \/ M[then] = D[cont]
    BY <1>3, <1>5, <1>6
  <2>2. /\ Becomes(blocks, D, M, T, first, D, M) /\ DOMAIN first = DOMAIN blocks
        /\ \A c \in DOMAIN blocks \ {then} : first[c].term = blocks[c].term
        /\ then # NoBlock => Ended(first, then)
    BY <1>3, <1>4, <1>5, <2>1, BecomesJoined
  <2> QED
    BY <1>3, <1>4, <2>2
<1> DEFINE second == Joined(first, current, cont)
<1> HIDE DEF first
<1>8. /\ Becomes(blocks, D, M, T, second, D, M) /\ DOMAIN second = DOMAIN blocks
      /\ second[cont].term = blocks[cont].term
  <2>1. current # NoBlock => Ended(first, current) \/ M[current] = D[cont]
    <3>1. CASE current = then
      BY <1>7, <3>1
    <3>2. CASE current # then
      BY <1>1, <1>6, <1>7, <3>2 DEF Ended
    <3> QED
      BY <3>1, <3>2
  <2>2. current \in DOMAIN first \cup {NoBlock} /\ current \in T
    BY <1>1, <1>5, <1>7
  <2>3. /\ Becomes(blocks, D, M, T, second, D, M) /\ DOMAIN second = DOMAIN first
        /\ \A c \in DOMAIN first \ {current} : second[c].term = first[c].term
    BY <1>3, <1>4, <1>7, <2>1, <2>2, BecomesJoined
  <2> QED
    BY <1>3, <1>7, <2>3
<1>9. joined = blocks \/ joined = second
  BY DEF first, then, cont
<1> HIDE DEF second
<1>10. /\ Becomes(blocks, D, M, T, joined, D, M) /\ DOMAIN joined = DOMAIN blocks
       /\ joined[cont].term = blocks[cont].term
  BY <1>5, <1>8, <1>9
<1> QED
  BY <1>10 DEF T, cont

LEMMA EndThenPaced == ASSUME LowerInv, Fitting, Balanced, EndThen PROVE Balanced'
<1> DEFINE then == At[1]
           els  == At[2]
           cont == At[3]
           joined == IF then \in Returning THEN blocks
                     ELSE Joined(Joined(blocks, then, cont), current, cont)
           T == Touched(agenda, current)
           p == Point("else_end", The, At)
           pts == Points(The.other) \o <<p>>
<1>1. /\ Doing("then_end")
      /\ UNCHANGED <<nextBlock, loops, regions>>
      /\ els = NoBlock => blocks' = joined /\ current' = cont /\ Then(<<>>)
      /\ els # NoBlock => blocks' = Reserve(joined, {els}) /\ current' = els /\ Then(pts)
  BY DEF EndThen
<1>2. agenda # <<>> /\ agenda[1].do = "then_end"
  BY <1>1, DoingHead
<1>3. PICK D, M, dep, L : Here(D, M, dep, L)
  BY DEF Balanced
<1>4. /\ Becomes(blocks, D, M, T, joined, D, M) /\ DOMAIN joined = DOMAIN blocks
      /\ joined[cont].term = blocks[cont].term
  BY <1>2, <1>3, ThenJoined
<1>5. /\ agenda \in Seq(Tasks) /\ Planned(agenda, Len(regions), dep)
      /\ DOMAIN D = 0..(nextBlock - 1) /\ Len(regions) \in Nat /\ DOMAIN blocks \subseteq DOMAIN D
      /\ NoBlock \notin DOMAIN D
      /\ cont = agenda[1].at[3] /\ els = agenda[1].at[2] /\ The = agenda[1].s /\ At = agenda[1].at
  BY <1>2, <1>3, HereTyped DEF Levels
<1> HIDE DEF then, els, cont, joined, T, pts
<1>6. /\ Owned(agenda[1]) = {cont} \cup ({els} \ {NoBlock}) /\ Waiting(agenda[1]) = {cont}
      /\ Later(agenda[1]) = {els} \ {NoBlock}
      /\ Owned(agenda[1]) \subseteq Entries(agenda[1])
      /\ agenda[1].do \in Joins /\ agenda[1].do \notin LoopEnds
  BY <1>2, <1>5, ThenEndHolds
<1>7. /\ Delta(agenda[1]) = 0 /\ agenda[1].do # "return_end" /\ agenda[1].do \notin Closing
      /\ agenda[1].do # "test"
  BY <1>6, JoinHead
<1>8. /\ \A x \in Owned(agenda[1]) : x \in DOMAIN D /\ D[x] = Len(regions) /\ x # current
      /\ cont \in DOMAIN blocks /\ ~Ended(blocks, cont) /\ M[cont] = Len(regions)
      /\ els # NoBlock => els \notin DOMAIN blocks
  BY <1>2, <1>3, <1>6, HeadCarries DEF Carries
<1>9. /\ cont \in DOMAIN D /\ D[cont] = Len(regions) /\ cont \in T /\ current \in T
      /\ els # NoBlock => els \in DOMAIN D /\ D[els] = Len(regions) /\ els \in T /\ els # cont
  BY <1>6, <1>8 DEF T, Touched
<1>10. CASE els = NoBlock
  <2>1. blocks' = joined /\ current' = cont /\ Then(<<>>)
    BY <1>1, <1>10
  <2>2. GoesOn(agenda, current, blocks, blocks', current')
    BY <1>6 DEF GoesOn
  <2>3. Poised(After(agenda, <<>>), current', blocks', Len(regions), M)
    <3>1. ~Ended(blocks', cont)
      BY <1>4, <1>8, <2>1 DEF Ended
    <3>2. Len(regions) + Delta(agenda[1]) = Len(regions) /\ Len(regions) \in Int
      BY <1>5, <1>7
    <3>3. M[cont] = Level(agenda, Len(regions)) + Delta(agenda[1])
      BY <1>7, <1>8, <3>2 DEF Level
    <3>4. Poised(After(agenda, <<>>), cont, blocks', Len(regions) + Delta(agenda[1]), M)
      BY <1>2, <1>5, <1>7, <3>1, <3>2, <3>3, PoisedOn
    <3> QED
      BY <2>1, <3>2, <3>4
  <2>4. DOMAIN D = 0..(nextBlock' - 1)
    BY <1>1, <1>5
  <2>5. UNCHANGED <<loops, regions>>
    BY <1>1
  <2> QED
    BY <1>2, <1>3, <1>4, <1>6, <1>7, <1>9, <2>1, <2>2, <2>3, <2>4, <2>5, PopBalances DEF T
<1>11. CASE els # NoBlock
  <2> DEFINE N == [M EXCEPT ![els] = D[els]]
             ids == {els}
  <2>1. blocks' = Reserve(joined, ids) /\ current' = els /\ Then(pts)
    BY <1>1, <1>11
  <2>2. M \in [DOMAIN D -> Int] /\ D \in [DOMAIN D -> Int] /\ Levels(joined, D, M) /\ Extends(D, D)
    BY <1>4 DEF Becomes, Levels, Extends
  <2>3. /\ N \in [DOMAIN D -> Int] /\ N[els] = D[els]
        /\ \A x \in DOMAIN D \ ids : N[x] = M[x]
    BY <1>9, <1>11, <2>2
  <2> HIDE DEF N
  <2>4. /\ ids \subseteq DOMAIN D
        /\ \A x \in ids : N[x] = D[x] /\ x \notin DOMAIN joined /\ (x \in T \/ x \notin DOMAIN D)
    BY <1>4, <1>8, <1>9, <1>11, <2>3
  <2> HIDE DEF ids
  <2>5. Becomes(joined, D, M, T, Reserve(joined, ids), D, N)
    BY <1>5, <2>2, <2>3, <2>4, BecomesReserved
  <2>6. Becomes(blocks, D, M, T, blocks', D, N)
    BY <1>4, <2>1, <2>5, BecomesThen
  <2>7. DOMAIN blocks' = DOMAIN blocks \cup ids
    BY <1>4, <2>1, ReserveFrames
  <2>8. blocks'[els].term = Unreachable
    BY <2>1, ReservedTerms DEF ids
  <2>9. blocks'[cont].term = blocks[cont].term
    <3>1. cont \in DOMAIN joined \ ids
      BY <1>4, <1>8, <1>9, <1>11 DEF ids
    <3>2. blocks'[cont] = joined[cont]
      BY <2>1, <3>1, ReservedRest
    <3> QED
      BY <1>4, <3>2
  <2>10. p.do = "else_end" /\ p.at = At /\ p \in Tasks
    <3>1. The \in Syntax /\ At \in Seq(Int)
      BY <1>2, AgendaSplits
    <3>2. p.do = "else_end" /\ p.at = At
      BY PointParts
    <3> QED
      BY <3>1, <3>2 DEF Point, Tasks, Doings
  <2> HIDE DEF p
  <2>11. /\ Waiting(p) = {cont} /\ Later(p) = {} /\ Begun(p) = {} /\ Owned(p) = {cont}
         /\ Entries(p) = {cont} /\ p.do \in Joins /\ p.do \notin LoopEnds
    <3>1. p.at[3] = cont
      BY <2>10 DEF cont
    <3> QED
      BY <2>10, <3>1, ElseEndHolds
  <2>12. /\ Settled(agenda, pts) /\ pts[1].do \notin Closing /\ Len(pts) \in Nat \ {0}
         /\ pts[Len(pts)] = p /\ Points(The.other) \in Seq(Tasks)
    <3>1. p.do # "for_end"
      BY <2>10
    <3> QED
      BY <1>2, <2>11, <3>1, BodiesTyped, BodySettled DEF pts
  <2>13. pts \in Seq(Tasks)
    BY <2>10, <2>12 DEF pts
  <2>14. pts # <<>>
    BY <2>12
  <2>15. Carries(p, els, blocks', D, N, Len(regions))
    <3>1. N[cont] = Len(regions)
      BY <1>8, <1>9, <1>11, <2>3 DEF ids
    <3>2. cont \in DOMAIN blocks' /\ ~Ended(blocks', cont)
      BY <1>8, <2>7, <2>9 DEF Ended
    <3> QED
      BY <1>9, <1>11, <2>11, <3>1, <3>2 DEF Carries
  <2>16. Poised(After(agenda, pts), els, blocks', Len(regions), N)
    <3>1. N[els] = Len(regions) /\ ~Ended(blocks', els)
      BY <1>9, <1>11, <2>3, <2>8, OpenTerms
    <3> QED
      BY <1>2, <1>5, <2>12, <2>13, <3>1, PoisedBody
  <2>17. /\ \A x \in Owned(pts[Len(pts)]) : x \in T \/ x \notin DOMAIN D
         /\ pts[Len(pts)].do \notin LoopEnds
         /\ Carries(pts[Len(pts)], current', blocks', D, N, Len(regions))
         /\ Poised(After(agenda, pts), current', blocks', Len(regions), N)
         /\ current' \in T /\ DOMAIN D = 0..(nextBlock' - 1)
         /\ UNCHANGED <<loops, regions>>
    BY <1>1, <1>5, <1>9, <1>11, <2>1, <2>11, <2>12, <2>15, <2>16
  <2> QED
    BY <1>2, <1>3, <1>6, <1>7, <2>1, <2>6, <2>12, <2>13, <2>14, <2>17, PushBalances DEF T
<1> QED
  BY <1>10, <1>11

-----------------------------------------------------------------------------
\* A loop begins: its body comes next, and then the point that ends it.
LEMMA LoopBegins ==
  ASSUME LowerInv, Fitting, NEW D, NEW M, NEW dep, NEW L, Here(D, M, dep, L), agenda # <<>>,
         agenda[1].do = "stmt", agenda[1].s.kind \in Kinds,
         NEW p \in Tasks, p.do \in LoopEnds, p.do = "for_end" => The.kind = "for",
         Then(Points(The.body) \o <<p>>), UNCHANGED regions,
         NEW loop, loops' = Append(loops, loop),
         NEW E, NEW N, Becomes(blocks, D, M, Touched(agenda, current), blocks', E, N),
         \A x \in {loop.brk, loop.cont} : x \in DOMAIN E /\ E[x] = Len(regions),
         DOMAIN E = 0..(nextBlock' - 1), current' \notin DOMAIN D,
         current \notin DOMAIN blocks \/ Ended(blocks', current),
         Carries(p, current', blocks', E, N, Len(regions)),
         \A x \in Owned(p) : x \notin DOMAIN D,
         N[current'] = Len(regions), ~Ended(blocks', current')
  PROVE  Balanced'
<1> DEFINE pts == Points(The.body) \o <<p>>
<1>1. /\ Delta(agenda[1]) = 0 /\ agenda[1].do # "test" /\ agenda[1].do \notin LoopEnds
  BY PlainHead
<1>2. agenda \in Seq(Tasks)
  BY HereTyped
<1>3. /\ Settled(agenda, pts) /\ pts[1].do \notin Closing /\ Len(pts) \in Nat \ {0}
      /\ pts[Len(pts)] = p /\ Points(The.body) \in Seq(Tasks)
  <2>1. p.do \in Joins
    BY DEF Joins
  <2> QED
    BY <2>1, BodiesTyped, BodySettled
<1>4. pts \in Seq(Tasks) /\ Then(pts)
  BY <1>3
<1> HIDE DEF pts
<1>5. pts # <<>>
  BY <1>3
<1>6. Poised(After(agenda, pts), current', blocks', Len(regions), N)
  BY <1>2, <1>3, <1>4, PoisedBody
<1>7. /\ pts[Len(pts)].do \in LoopEnds
      /\ Carries(pts[Len(pts)], current', blocks', E, N, Len(regions))
      /\ \A x \in Owned(pts[Len(pts)]) : x \in Touched(agenda, current) \/ x \notin DOMAIN D
  BY <1>3
<1> QED
  BY <1>1, <1>3, <1>4, <1>5, <1>6, <1>7, LoopBalances

-----------------------------------------------------------------------------
\* A while begins.
LEMMA WhileEndHolds ==
  ASSUME NEW p, p.do = "while_end"
  PROVE  /\ Waiting(p) = {p.at[2]} /\ Later(p) = {} /\ Begun(p) = {}
         /\ Owned(p) = {p.at[2]} /\ Entries(p) = {p.at[2], p.at[1]}
         /\ p.do \in Joins /\ p.do \in LoopEnds
  BY DEF Waiting, Later, Begun, Owned, Entries, Joins, LoopEnds

\* The blocks that are reserved, at one level, and the others as they were.
Broadens(bs, D, M, nb, nb2, v, E, N) ==
  /\ DOMAIN E = 0..(nb2 - 1) /\ Extends(E, D)
  /\ \A x \in nb..(nb2 - 1) :
       x \in DOMAIN E /\ x \notin DOMAIN D /\ x \notin DOMAIN bs /\ E[x] = v /\ N[x] = v
  /\ \A x \in DOMAIN D : x \in DOMAIN E /\ E[x] = D[x] /\ N[x] = M[x]

LEMMA ReservesWide ==
  ASSUME LowerInv, NEW D, NEW M, NEW dep, NEW L, Here(D, M, dep, L), agenda # <<>>,
         NEW nb2 \in Nat, nextBlock <= nb2, NEW v \in Int, NEW ids, ids \subseteq nextBlock..(nb2 - 1),
         NEW T
  PROVE  LET E == Wider(D, nextBlock, nb2, v)
             N == Wider(M, nextBlock, nb2, v)
         IN /\ Becomes(blocks, D, M, T, Reserve(blocks, ids), E, N)
            /\ Broadens(blocks, D, M, nextBlock, nb2, v, E, N)
<1> DEFINE E == Wider(D, nextBlock, nb2, v)
           N == Wider(M, nextBlock, nb2, v)
<1>1. Becomes(blocks, D, M, T, Reserve(blocks, ids), E, N)
  BY ReservesHere
<1>2. /\ Levels(blocks, D, M) /\ nextBlock \in Nat /\ DOMAIN D = 0..(nextBlock - 1)
      /\ DOMAIN blocks \subseteq DOMAIN D
  BY HereTyped
<1>3. D \in [0..(nextBlock - 1) -> Int] /\ M \in [0..(nextBlock - 1) -> Int]
  BY <1>2 DEF Levels
<1>4. /\ DOMAIN E = 0..(nb2 - 1) /\ Extends(E, D)
      /\ \A x \in nextBlock..(nb2 - 1) : x \in DOMAIN E /\ x \notin DOMAIN D /\ E[x] = v
      /\ \A x \in DOMAIN D : x \in DOMAIN E /\ E[x] = D[x]
  BY <1>2, <1>3, WiderTyped, SMTT(40)
<1>5. /\ \A x \in nextBlock..(nb2 - 1) : N[x] = v
      /\ \A x \in 0..(nextBlock - 1) : N[x] = M[x]
  <2>1. DOMAIN M = 0..(nextBlock - 1)
    BY <1>3
  <2>2. /\ DOMAIN N = 0..(nb2 - 1) /\ Extends(N, M)
        /\ \A x \in nextBlock..(nb2 - 1) : x \in DOMAIN N /\ x \notin DOMAIN M /\ N[x] = v
        /\ \A x \in DOMAIN M : x \in DOMAIN N /\ N[x] = M[x]
    BY <1>2, <1>3, WiderTyped, SMTT(40)
  <2> HIDE DEF N
  <2> QED
    BY <2>1, <2>2
<1>6. Broadens(blocks, D, M, nextBlock, nb2, v, E, N)
  <2> HIDE DEF E, N
  <2> QED
    BY <1>2, <1>4, <1>5 DEF Broadens
<1> QED
  BY <1>1, <1>6

LEMMA WhilePaced == ASSUME LowerInv, Fitting, Balanced, BuildWhile PROVE Balanced'
<1> DEFINE e == Lower(The.expr)
           header == nextBlock
           body == nextBlock + 1
           exit == nextBlock + 2
           scoped == IterScopeSafe(The.body)
           branch == Branch(Value(e.value), body, exit)
           ids == {header, body, exit}
           reserved == Reserve(blocks, ids)
           ended == End(reserved, current, Jump(header))
           headed == Close(ended, header, e.code, branch)
           T == Touched(agenda, current)
           v == Len(regions)
           p == Point("while_end", The, <<header, exit>>)
           loop == Loop(header, exit, scoped)
<1>1. /\ On("while") /\ agenda # <<>> /\ "while" \in Kinds
      /\ blocks' = Emit(headed, body, ScopePush(scoped))
      /\ current' = body
      /\ nextBlock' = nextBlock + 3
      /\ Then(Points(The.body) \o <<p>>)
      /\ loops' = Append(loops, loop)
      /\ UNCHANGED regions
  BY DEF BuildWhile, On, Doing, Kinds
<1>2. PICK D, M, dep, L : Here(D, M, dep, L)
  BY DEF Balanced
<1>3. /\ ~Resumes(agenda[1]) /\ agenda[1].do # "test" /\ agenda[1].do # "return_end"
      /\ Resolved(The.expr) /\ agenda[1].do = "stmt" /\ agenda[1].s.kind \in Kinds
  BY <1>1, HeadOn, PlainHead
<1>4. /\ current \in DOMAIN blocks \cup {NoBlock} /\ Levels(blocks, D, M)
      /\ agenda \in Seq(Tasks) /\ nextBlock \in Nat
      /\ DOMAIN D = 0..(nextBlock - 1) /\ NoBlock \notin DOMAIN blocks /\ Len(regions) \in Nat
      /\ DOMAIN blocks \subseteq DOMAIN D
  BY <1>1, <1>2, HereTyped
<1>5. e.value \in Nat /\ nextValue \in Nat \ {0}
  BY <1>1, <1>3, LowersTo DEF LowerInv, Numbered
<1>6. scoped \in BOOLEAN
  BY DEF IterScopeSafe
<1>7. v \in Int
  BY <1>4
<1> DEFINE nb2 == nextBlock + 3
           E == Wider(D, nextBlock, nb2, v)
           N == Wider(M, nextBlock, nb2, v)
<1>33. /\ nb2 \in Nat /\ nextBlock <= nb2
       /\ ids \subseteq nextBlock..(nb2 - 1)
  BY <1>4
<1>8. /\ header \in ids /\ body \in ids /\ exit \in ids
      /\ header # body /\ header # exit /\ body # exit
      /\ header \in Int /\ body \in Int /\ exit \in Int
  BY <1>4
<1>9. current # header /\ current # body /\ current # exit
  <2>1. current \in DOMAIN D \cup {NoBlock}
    BY <1>4
  <2> QED
    BY <1>4, <2>1, Numbers
<1> HIDE DEF header, body, exit, v, scoped, ids, nb2
<1>10. Becomes(blocks, D, M, T, reserved, E, N) /\ Broadens(blocks, D, M, nextBlock, nb2, v, E, N)
  BY <1>1, <1>2, <1>7, <1>33, ReservesWide
<1>34. /\ DOMAIN E = 0..(nb2 - 1) /\ Extends(E, D)
       /\ \A x \in nextBlock..(nb2 - 1) :
            x \in DOMAIN E /\ x \notin DOMAIN D /\ x \notin DOMAIN blocks /\ E[x] = v /\ N[x] = v
       /\ \A x \in DOMAIN D : x \in DOMAIN E /\ E[x] = D[x] /\ N[x] = M[x]
  <2> HIDE DEF E, N
  <2> QED
    BY <1>10 DEF Broadens
<1>11. e.code \in Seq(Even(E, v))
  <2>1. Fair(The.expr) /\ The.expr \in Expressions
    BY <1>1, HeadNeat DEF Neat
  <2> QED
    BY <1>2, <1>3, <1>5, <1>34, <2>1, LowersEven DEF v, Lower
<1> HIDE DEF e
<1>12. /\ branch \in Terminator /\ branch.kind = "branch" /\ Targets(branch) = {body, exit}
       /\ Jump(header) \in Terminator /\ Jump(header).kind = "jump"
       /\ Targets(Jump(header)) = {header}
  <2>1. Value(e.value) \in Operand
    BY <1>5, OperandsTyped
  <2>2. branch \in Terminator /\ Targets(branch) = {body, exit}
    BY <1>8, <2>1, BranchTyped
  <2> QED
    BY <1>8, <2>2, TermsTyped DEF Branch, Jump, Term
<1>13. /\ \A x \in ids : x \in DOMAIN E /\ x \notin DOMAIN D /\ x \notin DOMAIN blocks
                        /\ E[x] = v /\ N[x] = v
       /\ current \in T
  BY <1>33, <1>34 DEF Touched
<1> HIDE DEF E, N, T
<1>14. current # NoBlock => M[current] = v /\ N[current] = v
  BY <1>1, <1>2, <1>3, <1>4, <1>34, PlainLevel DEF v
<1>15. DOMAIN reserved = DOMAIN blocks \cup ids
  BY ReserveFrames
<1>16. \A c \in ids : reserved[c].term = Unreachable
  BY ReservedTerms
<1>17. reserved \in [DOMAIN reserved -> SoundBlock] /\ NoBlock \notin DOMAIN reserved
  BY <1>10 DEF Becomes, Levels
<1> HIDE DEF branch, reserved
<1>18. current \in DOMAIN reserved \cup {NoBlock}
  BY <1>4, <1>15
<1>19. /\ Becomes(blocks, D, M, T, ended, E, N) /\ DOMAIN ended = DOMAIN reserved
       /\ \A c \in ids : ended[c].term = Unreachable
       /\ current # NoBlock => ended[current].term = Jump(header)
  <2>1. current # NoBlock => Leads(Jump(header), E, N[current])
    BY <1>8, <1>12, <1>13, <1>14 DEF Leads
  <2>2. Becomes(blocks, D, M, T, ended, E, N)
    BY <1>10, <1>12, <1>13, <1>18, <2>1, BecomesEnded
  <2>3. /\ DOMAIN ended = DOMAIN reserved
        /\ \A c \in DOMAIN reserved \ {current} : ended[c].term = reserved[c].term
        /\ current # NoBlock => ended[current].term = Jump(header)
    BY <1>17, <1>18, EndTerms
  <2>4. ids \subseteq DOMAIN reserved \ {current}
    BY <1>8, <1>9, <1>15 DEF ids
  <2> QED
    BY <1>16, <2>2, <2>3, <2>4
<1>20. ended \in [DOMAIN ended -> SoundBlock] /\ NoBlock \notin DOMAIN ended
  BY <1>19 DEF Becomes, Levels
<1> HIDE DEF ended
<1>21. /\ Becomes(blocks, D, M, T, headed, E, N) /\ DOMAIN headed = DOMAIN ended
       /\ \A c \in DOMAIN ended \ {header} : headed[c].term = ended[c].term
  <2>1. header \in DOMAIN ended /\ header \notin DOMAIN D
    BY <1>8, <1>13, <1>15, <1>19
  <2>2. e.code \in Seq(Even(E, N[header])) /\ Leads(branch, E, N[header])
    BY <1>8, <1>11, <1>12, <1>13 DEF Leads
  <2>3. Becomes(blocks, D, M, T, headed, E, N)
    BY <1>12, <1>19, <2>1, <2>2, BecomesEvenClosed
  <2> QED
    BY <1>20, <2>1, <2>3, CloseTerms
<1>22. headed \in [DOMAIN headed -> SoundBlock] /\ NoBlock \notin DOMAIN headed
  BY <1>21 DEF Becomes, Levels
<1> HIDE DEF headed
<1>23. /\ Becomes(blocks, D, M, T, blocks', E, N) /\ DOMAIN blocks' = DOMAIN headed
       /\ \A c \in DOMAIN headed : blocks'[c].term = headed[c].term
  <2>1. body \in DOMAIN headed /\ body \notin DOMAIN D
    BY <1>8, <1>13, <1>15, <1>19, <1>21
  <2>2. ScopePush(scoped) \in Seq(Even(E, N[body]))
    BY <1>6, EvenScopes
  <2>3. Becomes(blocks, D, M, T, blocks', E, N)
    BY <1>1, <1>21, <2>1, <2>2, BecomesEven
  <2> QED
    BY <1>1, <1>22, <2>1, <2>3, EmitTerms
<1>24. /\ exit \in DOMAIN blocks' /\ blocks'[exit].term = Unreachable
       /\ body \in DOMAIN blocks' /\ blocks'[body].term = Unreachable
       /\ current # NoBlock => blocks'[current].term = Jump(header)
  <2>1. exit \in DOMAIN ended \ {header} /\ body \in DOMAIN ended \ {header}
    BY <1>8, <1>15, <1>19
  <2>2. current # NoBlock => current \in DOMAIN ended \ {header}
    BY <1>9, <1>18, <1>19
  <2> QED
    BY <1>8, <1>19, <1>21, <1>23, <2>1, <2>2
<1>25. ~Ended(blocks', exit) /\ ~Ended(blocks', body)
       /\ (current # NoBlock => Ended(blocks', current))
  BY <1>24, OpenTerms
<1>26. p.do = "while_end" /\ p.at[1] = header /\ p.at[2] = exit /\ p \in Tasks
  <2>1. <<header, exit>> \in Seq(Int)
    BY <1>8
  <2>2. The \in Syntax
    BY <1>1, AgendaSplits
  <2>3. p.do = "while_end" /\ p.at = <<header, exit>>
    BY PointParts
  <2> QED
    BY <2>1, <2>2, <2>3 DEF Point, Tasks, Doings
<1> HIDE DEF p
<1>27. /\ Waiting(p) = {exit} /\ Later(p) = {} /\ Begun(p) = {} /\ Owned(p) = {exit}
       /\ Entries(p) = {exit, header} /\ p.do \in LoopEnds /\ p.do # "for_end"
  BY <1>26, WhileEndHolds
<1>28. Carries(p, current', blocks', E, N, v)
  BY <1>1, <1>8, <1>13, <1>24, <1>25, <1>27 DEF Carries
<1>29. loop.cont = header /\ loop.brk = exit
  BY DEF Loop
<1> HIDE DEF loop
<1>30. /\ \A x \in {loop.brk, loop.cont} : x \in DOMAIN E /\ E[x] = Len(regions)
       /\ current' \notin DOMAIN D /\ N[current'] = Len(regions) /\ ~Ended(blocks', current')
       /\ \A x \in Owned(p) : x \notin DOMAIN D
       /\ Carries(p, current', blocks', E, N, Len(regions))
  BY <1>1, <1>8, <1>13, <1>25, <1>27, <1>28, <1>29 DEF v
<1>31. current \notin DOMAIN blocks \/ Ended(blocks', current)
  BY <1>4, <1>25
<1>32. DOMAIN E = 0..(nextBlock' - 1)
  BY <1>1, <1>34 DEF nb2
<1> QED
  BY <1>1, <1>2, <1>3, <1>23, <1>26, <1>27, <1>30, <1>31, <1>32, LoopBegins DEF T

-----------------------------------------------------------------------------
\* A loop ends.
LEMMA Fronts ==
  ASSUME NEW S, NEW s \in Seq(S), s # <<>>
  PROVE  Len(Front(s)) = Len(s) - 1 /\ \A i \in 1..(Len(s) - 1) : Front(s)[i] = s[i]
<1> DEFINE n == Len(s)
<1>1. n \in Nat \ {0}
  BY EmptySeq
<1>2. 1 \in 1..(n + 1) /\ n - 1 \in 0..n /\ n - 1 - 1 + 1 = n - 1 /\ \A i \in 1..(n - 1) : 1 + i - 1 = i
  BY <1>1
<1>3. Len(SubSeq(s, 1, n - 1)) = n - 1 /\ \A i \in 1..(n - 1) : SubSeq(s, 1, n - 1)[i] = s[i]
  BY <1>1, <1>2, SubSeqProperties
<1> QED
  BY <1>3 DEF Front

LEMMA LoopDone ==
  ASSUME LowerInv, NEW D, NEW M, NEW dep, NEW L, Here(D, M, dep, L), agenda # <<>>,
         agenda[1].do \in LoopEnds, Then(<<>>), loops' = Front(loops), UNCHANGED <<nextBlock, regions>>,
         Becomes(blocks, D, M, Touched(agenda, current), blocks', D, M),
         current' \in Touched(agenda, current),
         M[current'] = Len(regions), ~Ended(blocks', current')
  PROVE  Balanced'
<1>1. /\ agenda \in Seq(Tasks) /\ Len(loops) \in Nat /\ Len(regions) \in Nat
      /\ Len(agenda) \in Nat \ {0}
  BY HereTyped
<1>2. loops \in Seq([cont : DOMAIN blocks, brk : DOMAIN blocks, scoped : BOOLEAN])
  BY DEF LowerInv, Nested
<1>3. loops # <<>>
  <2>1. Len(agenda) \in 1..Len(agenda) /\ Below(agenda, Len(agenda)) = agenda[1]
    BY <1>1, BelowFirst
  <2>2. \E i \in 1..Len(loops) : L[i] = Len(agenda)
    BY <2>1 DEF Here, Paced, Looped
  <2> QED
    BY <2>2
<1>4. Len(loops') = Len(loops) - 1 /\ \A i \in 1..(Len(loops) - 1) : loops'[i] = loops[i]
  BY <1>2, <1>3, Fronts
<1> DEFINE lp2 == loops'
           cur2 == current'
           cs == blocks'
<1> HIDE DEF lp2, cur2, cs
<1>5. Paced(After(agenda, <<>>), cur2, cs, nextBlock, lp2, regions, D, M, dep,
            Shorter(L, Len(loops)))
  <2>1. Len(lp2) = Len(loops) - 1 /\ \A i \in 1..(Len(loops) - 1) : lp2[i] = loops[i]
    BY <1>4 DEF lp2
  <2>2. /\ Becomes(blocks, D, M, Touched(agenda, current), cs, D, M)
        /\ cur2 \in Touched(agenda, current)
        /\ cur2 # NoBlock => M[cur2] = Len(regions) /\ ~Ended(cs, cur2)
    BY DEF cs, cur2
  <2>3. Paced(agenda, current, blocks, nextBlock, loops, regions, D, M, dep, L)
    BY DEF Here
  <2> QED
    BY <1>1, <2>1, <2>2, <2>3, PopsLoop
<1>6. agenda' = After(agenda, <<>>) /\ regions' = regions /\ nextBlock' = nextBlock
  BY DEF Then, After
<1> QED
  BY <1>5, <1>6 DEF Balanced, Here, lp2, cur2, cs

\* The end of a while.
LEMMA EndWhilePaced == ASSUME LowerInv, Balanced, EndWhile PROVE Balanced'
<1> DEFINE header == At[1]
           exit == At[2]
           scoped == IterScopeSafe(The.body)
           popped == Emit(blocks, current, ScopePop(scoped))
           T == Touched(agenda, current)
<1>1. /\ Doing("while_end") /\ Then(<<>>)
      /\ blocks' = IF Open(blocks, current) THEN End(popped, current, Jump(header)) ELSE popped
      /\ current' = exit
      /\ loops' = Front(loops)
      /\ UNCHANGED <<nextBlock, regions>>
  BY DEF EndWhile
<1>2. agenda # <<>> /\ agenda[1].do = "while_end"
  BY <1>1, DoingHead
<1>3. PICK D, M, dep, L : Here(D, M, dep, L)
  BY DEF Balanced
<1>4. /\ current \in DOMAIN blocks \cup {NoBlock} /\ Levels(blocks, D, M)
      /\ DOMAIN D = 0..(nextBlock - 1) /\ NoBlock \notin DOMAIN blocks /\ nextBlock \in Nat
      /\ exit = agenda[1].at[2] /\ header = agenda[1].at[1]
      /\ blocks \in [DOMAIN blocks -> SoundBlock]
  BY <1>2, <1>3, HereTyped DEF Levels
<1>5. scoped \in BOOLEAN
  BY DEF IterScopeSafe
<1> HIDE DEF header, exit, scoped
<1>6. /\ Owned(agenda[1]) = {exit} /\ Waiting(agenda[1]) = {exit}
      /\ Entries(agenda[1]) = {exit, header}
      /\ agenda[1].do \in LoopEnds /\ agenda[1].do \notin Closing
  BY <1>2, <1>4, WhileEndHolds, JoinHead
<1>7. /\ header \in DOMAIN D /\ D[header] = Len(regions)
      /\ exit # current /\ exit \in DOMAIN blocks /\ ~Ended(blocks, exit) /\ M[exit] = Len(regions)
  BY <1>2, <1>3, <1>6, HeadCarries DEF Carries
<1>8. Becomes(blocks, D, M, T, blocks, D, M) /\ current \in T /\ exit \in T
  BY <1>4, <1>6, BecomesItself DEF Touched
<1> HIDE DEF T
<1>9. /\ Becomes(blocks, D, M, T, popped, D, M) /\ DOMAIN popped = DOMAIN blocks
      /\ \A c \in DOMAIN blocks : popped[c].term = blocks[c].term
  <2>1. ScopePop(scoped) \in Seq(Even(D, M[current]))
    BY <1>5, EvenScopes
  <2> QED
    BY <1>4, <1>8, <2>1, BecomesEven, EmitTerms
<1>10. popped \in [DOMAIN popped -> SoundBlock]
  BY <1>9 DEF Becomes, Levels
<1> HIDE DEF popped
<1>11. Becomes(blocks, D, M, T, blocks', D, M) /\ blocks'[exit].term = blocks[exit].term
  <2>1. CASE ~Open(blocks, current)
    BY <1>1, <1>7, <1>9, <2>1
  <2>2. CASE Open(blocks, current)
    <3>1. current # NoBlock /\ ~Ended(blocks, current)
      BY <2>2, OpenTerms DEF Open
    <3>2. M[current] = Len(regions)
      BY <1>2, <1>3, <1>6, <3>1, OpenLevel
    <3>3. header \in Int
      BY <1>4, <1>7
    <3>4. Jump(header) \in Terminator /\ Jump(header).kind = "jump" /\ Targets(Jump(header)) = {header}
      BY <3>3, TermsTyped DEF Jump, Term
    <3>5. Leads(Jump(header), D, M[current])
      BY <1>7, <3>2, <3>4 DEF Leads
    <3>6. current \in DOMAIN popped
      BY <1>4, <1>9, <3>1
    <3>7. Becomes(blocks, D, M, T, End(popped, current, Jump(header)), D, M)
      BY <1>8, <1>9, <3>4, <3>5, <3>6, BecomesEnded
    <3>8. exit \in DOMAIN popped \ {current} /\ NoBlock \notin DOMAIN popped
      BY <1>4, <1>7, <1>9
    <3>9. \A c \in DOMAIN popped \ {current} :
            End(popped, current, Jump(header))[c].term = popped[c].term
      BY <1>10, <3>6, <3>8, EndTerms
    <3> QED
      BY <1>1, <1>7, <1>9, <2>2, <3>7, <3>8, <3>9
  <2> QED
    BY <2>1, <2>2
<1>12. ~Ended(blocks', exit)
  BY <1>7, <1>11 DEF Ended
<1> QED
  BY <1>1, <1>2, <1>3, <1>6, <1>7, <1>8, <1>11, <1>12, LoopDone DEF T

-----------------------------------------------------------------------------
\* Code whose instructions do the same to the regions, and leave for the same handlers.
Treads(c, d) ==
  /\ Len(c) \in Nat /\ Len(d) = Len(c)
  /\ \A k \in 1..Len(c) : Effect(d[k]) = Effect(c[k]) /\ d[k].exit = c[k].exit

LEMMA WalkTreads ==
  ASSUME NEW c, NEW d, Treads(c, d), NEW D, NEW n, NEW m, Walk(c, D, n, m)
  PROVE  Walk(d, D, n, m)
<1>1. PICK w \in [0..Len(c) -> Int] : w[0] = n /\ w[Len(c)] = m /\ Paces(c, D, w)
  BY DEF Walk
<1>2. Len(d) = Len(c)
  BY DEF Treads
<1>3. ASSUME NEW k \in 1..Len(d) PROVE w[k] = w[k - 1] + Effect(d[k]) /\ Hands(d[k], D, w[k])
  <2>1. k \in 1..Len(c) /\ Effect(d[k]) = Effect(c[k]) /\ d[k].exit = c[k].exit
    BY <1>2 DEF Treads
  <2> QED
    BY <1>1, <2>1 DEF Paces, Hands
<1>4. Paces(d, D, w)
  BY <1>3 DEF Paces
<1> QED
  BY <1>1, <1>2, <1>4 DEF Walk

\* A block outside the touched ones is patched: its code does the same to the regions.
LEMMA BecomesPatched ==
  ASSUME NEW bs, NEW D, NEW M, NEW T, NEW cs, NEW E, NEW N, Becomes(bs, D, M, T, cs, E, N),
         NEW h \in DOMAIN cs, NEW ds, ds \in [DOMAIN cs -> SoundBlock],
         \A c \in DOMAIN cs \ {h} : ds[c] = cs[c],
         ds[h].term = cs[h].term, Treads(cs[h].code, ds[h].code)
  PROVE  Becomes(bs, D, M, T, ds, E, N)
<1>1. Levels(cs, E, N) /\ DOMAIN ds = DOMAIN cs /\ Extends(E, D) /\ Frames(bs, D, M, T, cs, N)
  BY DEF Becomes
<1>2. \A c \in DOMAIN cs : ds[c].term = cs[c].term
  OBVIOUS
<1>3. ASSUME NEW c \in DOMAIN cs PROVE Walk(ds[c].code, E, E[c], N[c]) /\ Leads(ds[c].term, E, N[c])
  <2>1. Walk(cs[c].code, E, E[c], N[c]) /\ Leads(cs[c].term, E, N[c])
    BY <1>1 DEF Levels
  <2>2. CASE c = h
    BY <1>2, <2>1, <2>2, WalkTreads
  <2>3. CASE c # h
    BY <2>1, <2>3
  <2> QED
    BY <2>2, <2>3
<1>4. Levels(ds, E, N)
  BY <1>1, <1>3 DEF Levels
<1>5. \A c \in DOMAIN cs : Ended(ds, c) <=> Ended(cs, c)
  BY <1>2 DEF Ended
<1>6. Frames(bs, D, M, T, ds, N)
  BY <1>1, <1>2, <1>5 DEF Frames
<1> QED
  BY <1>1, <1>4, <1>6 DEF Becomes

\* The phi of a loop's header gets another argument.
Patched(cs, ds, h) ==
  /\ DOMAIN ds = DOMAIN cs
  /\ \A c \in DOMAIN cs \ {h} : ds[c] = cs[c]
  /\ \A c \in DOMAIN cs : ds[c].term = cs[c].term
  /\ Treads(cs[h].code, ds[h].code)

LEMMA Patches ==
  ASSUME NEW cs, cs \in [DOMAIN cs -> SoundBlock], NEW h \in DOMAIN cs, NEW a
  PROVE  Patched(cs, [cs EXCEPT ![h].code[1].args = Append(@, a)], h)
<1> DEFINE ds == [cs EXCEPT ![h].code[1].args = Append(@, a)]
           code == cs[h].code
           one == [code[1] EXCEPT !.args = Append(@, a)]
           two == [code EXCEPT ![1] = one]
<1>1. cs[h] \in SoundBlock /\ code \in Seq(Sound)
  BY DEF SoundBlock
<1>2. ds = [cs EXCEPT ![h] = [cs[h] EXCEPT !.code = two]]
  OBVIOUS
<1> HIDE DEF two, ds
<1>3. DOMAIN ds = DOMAIN cs /\ (\A c \in DOMAIN cs \ {h} : ds[c] = cs[c])
      /\ ds[h] = [cs[h] EXCEPT !.code = two]
  BY <1>2
<1>4. ds[h].code = two /\ ds[h].term = cs[h].term
  BY <1>1, <1>3 DEF SoundBlock
<1>5. \A c \in DOMAIN cs : ds[c].term = cs[c].term
  BY <1>3, <1>4
<1>6. Treads(code, two)
  <2>1. Len(code) \in Nat /\ DOMAIN code = 1..Len(code)
    BY <1>1
  <2> HIDE DEF one
  <2>2. Len(two) = Len(code) /\ \A k \in 1..Len(code) : two[k] = IF k = 1 THEN one ELSE code[k]
    <3>1. two = [k \in 1..Len(code) |-> IF k = 1 THEN one ELSE code[k]]
      BY <2>1 DEF two
    <3> QED
      BY <2>1, <3>1
  <2>3. 1 \in 1..Len(code) => Effect(one) = Effect(code[1]) /\ one.exit = code[1].exit
    <3> SUFFICES ASSUME 1 \in 1..Len(code)
                 PROVE  Effect(one) = Effect(code[1]) /\ one.exit = code[1].exit
      OBVIOUS
    <3>1. code[1] \in Instruction
      BY <1>1 DEF Sound
    <3>2. one.op = code[1].op /\ one.sym = code[1].sym /\ one.exit = code[1].exit
      BY <3>1 DEF one, Instruction
    <3> QED
      BY <3>2 DEF Effect
  <2> QED
    BY <2>1, <2>2, <2>3 DEF Treads
<1>7. Patched(cs, ds, h)
  BY <1>3, <1>4, <1>5, <1>6 DEF Patched
<1> QED
  BY <1>7 DEF ds

-----------------------------------------------------------------------------
\* Instructions that leave the regions as they are.
LEMMA EvenPlain ==
  ASSUME NEW D, NEW n, NEW a \in Operand, NEW b \in Operand, NEW c \in Operand,
         NEW d \in Nat \ {0}, NEW sym \in STRING
  PROVE  /\ Copy(d, a) \in Even(D, n) /\ BinaryOp(sym, d, a, b) \in Even(D, n)
         /\ Load(d, a, sym) \in Even(D, n) /\ Select(d, a, b, c) \in Even(D, n)
<1>1. /\ Copy(d, a) \in Sound /\ BinaryOp(sym, d, a, b) \in Sound
      /\ Load(d, a, sym) \in Sound /\ Select(d, a, b, c) \in Sound
  BY InstructionsSound
<1>2. /\ Copy(d, a).op # "call" /\ BinaryOp(sym, d, a, b).op # "call"
      /\ Load(d, a, sym).op # "call" /\ Select(d, a, b, c).op # "call"
      /\ Copy(d, a).exit = NoBlock /\ BinaryOp(sym, d, a, b).exit = NoBlock
      /\ Load(d, a, sym).exit = NoBlock /\ Select(d, a, b, c).exit = NoBlock
  BY DEF Copy, BinaryOp, Load, Select, Instr
<1> QED
  BY <1>1, <1>2, EvenInstructions

LEMMA HeadApart == ASSUME LowerInv, Fitting, agenda # <<>> PROVE Apart(agenda[1])
<1>1. Head(agenda) \in Range(agenda) /\ Head(agenda) = agenda[1]
  BY AgendaSplits DEF LowerInv, Listed
<1> QED
  BY <1>1 DEF Fitting

LEMMA ForEndHolds ==
  ASSUME NEW p, p.do = "for_end"
  PROVE  /\ Waiting(p) = {p.at[3], p.at[4]} /\ Later(p) = {} /\ Begun(p) = {p.at[2]}
         /\ Owned(p) = {p.at[3], p.at[4]} /\ Entries(p) = {p.at[3], p.at[4], p.at[1]}
         /\ p.do \in Joins /\ p.do \in LoopEnds
  BY DEF Waiting, Later, Begun, Owned, Entries, Joins, LoopEnds

LEMMA RangeEndHolds ==
  ASSUME NEW p, p.do = "range_end"
  PROVE  /\ Waiting(p) = {p.at[1], p.at[3], p.at[4]} /\ Later(p) = {} /\ Begun(p) = {}
         /\ Owned(p) = {p.at[1], p.at[3], p.at[4]}
         /\ Entries(p) = {p.at[1], p.at[3], p.at[4], p.at[2]}
         /\ p.do \in Joins /\ p.do \in LoopEnds
  BY DEF Waiting, Later, Begun, Owned, Entries, Joins, LoopEnds

\* The end of a loop over a list.
LEMMA EndForPaced == ASSUME LowerInv, Fitting, Balanced, EndFor PROVE Balanced'
<1> DEFINE header == At[1]
           body == At[2]
           inc == At[3]
           exit == At[4]
           index == At[5]
           scoped == IterScopeSafe(The.body)
           popped == Emit(blocks, current, ScopePop(scoped))
           from == IF Open(blocks, body) THEN body ELSE current
           joined == End(popped, from, Jump(inc))
           code == <<BinaryOp("add", nextValue, Value(index), Constant(Integer(1))),
                     Copy(index, Value(nextValue))>>
           closed == Close(joined, inc, code, Jump(header))
           T == Touched(agenda, current)
<1>1. /\ Doing("for_end") /\ Then(<<>>)
      /\ blocks' = [closed EXCEPT ![header].code[1].args = Append(@, Value(nextValue))]
      /\ current' = exit
      /\ loops' = Front(loops)
      /\ UNCHANGED <<nextBlock, regions>>
  BY DEF EndFor
<1>2. agenda # <<>> /\ agenda[1].do = "for_end"
  BY <1>1, DoingHead
<1>3. PICK D, M, dep, L : Here(D, M, dep, L)
  BY DEF Balanced
<1>4. /\ current \in DOMAIN blocks \cup {NoBlock} /\ Levels(blocks, D, M)
      /\ DOMAIN D = 0..(nextBlock - 1) /\ NoBlock \notin DOMAIN blocks /\ nextBlock \in Nat
      /\ At = agenda[1].at /\ Head(agenda) = agenda[1]
      /\ blocks \in [DOMAIN blocks -> SoundBlock] /\ NoBlock \notin DOMAIN D
  BY <1>2, <1>3, HereTyped DEF Levels
<1>5. scoped \in BOOLEAN
  BY DEF IterScopeSafe
<1>6. header \in DOMAIN blocks
  BY <1>2, <1>4, ReadyBlocks
<1>7. index \in Nat \ {0} /\ nextValue \in Nat \ {0}
  <2>1. Ready(Head(agenda), DOMAIN blocks, nextBlock)
    BY <1>2, AgendaSplits
  <2> QED
    BY <1>2, <1>4, <2>1 DEF Ready, LowerInv, Numbered
<1>8. blocks' \in [DOMAIN blocks' -> SoundBlock]
  <2>1. LowerInv'
    BY EndForKeeps
  <2> QED
    BY <2>1 DEF LowerInv, Shaped, Graph
<1>9. exit # inc
  <2>1. agenda[1].at[4] # agenda[1].at[3]
    BY <1>2, HeadApart DEF Apart
  <2> QED
    BY <1>4, <2>1
<1>10. header = agenda[1].at[1] /\ body = agenda[1].at[2] /\ inc = agenda[1].at[3]
       /\ exit = agenda[1].at[4]
  BY <1>4
<1> HIDE DEF header, body, inc, exit, index, scoped, code
<1>11. /\ Owned(agenda[1]) = {inc, exit} /\ Waiting(agenda[1]) = {inc, exit}
       /\ Entries(agenda[1]) = {inc, exit, header} /\ Begun(agenda[1]) = {body}
       /\ agenda[1].do \in LoopEnds /\ agenda[1].do \notin Closing
  BY <1>2, <1>10, ForEndHolds, JoinHead
<1>12. /\ header \in DOMAIN D /\ D[header] = Len(regions)
       /\ inc \in DOMAIN D /\ D[inc] = Len(regions)
       /\ exit # current /\ exit \in DOMAIN blocks /\ ~Ended(blocks, exit) /\ M[exit] = Len(regions)
       /\ inc # current /\ inc \in DOMAIN blocks /\ M[inc] = Len(regions)
       /\ Ended(blocks, body) \/ (body = current /\ blocks[body].term = Unreachable)
  BY <1>2, <1>3, <1>11, HeadCarries DEF Carries
<1>13. from = current
  <2>1. Open(blocks, body) => body = current
    BY <1>12, OpenTerms
  <2> QED
    BY <2>1
<1> HIDE DEF from
<1>14. current # NoBlock => M[current] = Len(regions)
  <2>1. ~Resumes(agenda[1])
    BY <1>2 DEF Resumes
  <2> QED
    BY <1>2, <1>3, <1>11, <2>1, OpenLevel
<1>15. Becomes(blocks, D, M, T, blocks, D, M) /\ current \in T /\ exit \in T /\ inc \in T
  BY <1>4, <1>11, BecomesItself DEF Touched
<1> HIDE DEF T
<1>16. /\ Becomes(blocks, D, M, T, popped, D, M) /\ DOMAIN popped = DOMAIN blocks
       /\ \A c \in DOMAIN blocks : popped[c].term = blocks[c].term
  <2>1. ScopePop(scoped) \in Seq(Even(D, M[current]))
    BY <1>5, EvenScopes
  <2> QED
    BY <1>4, <1>15, <2>1, BecomesEven, EmitTerms
<1>17. popped \in [DOMAIN popped -> SoundBlock]
  BY <1>16 DEF Becomes, Levels
<1> HIDE DEF popped
<1>18. /\ Jump(inc) \in Terminator /\ Jump(inc).kind = "jump" /\ Targets(Jump(inc)) = {inc}
       /\ Jump(header) \in Terminator /\ Jump(header).kind = "jump"
       /\ Targets(Jump(header)) = {header}
  <2>1. inc \in Int /\ header \in Int
    BY <1>4, <1>12
  <2> QED
    BY <2>1, TermsTyped DEF Jump, Term
<1>19. /\ Becomes(blocks, D, M, T, joined, D, M) /\ DOMAIN joined = DOMAIN blocks
       /\ joined[exit].term = blocks[exit].term
  <2>1. joined = End(popped, current, Jump(inc))
    BY <1>13
  <2> HIDE DEF joined
  <2>2. current # NoBlock => Leads(Jump(inc), D, M[current])
    BY <1>12, <1>14, <1>18 DEF Leads
  <2>3. current \in DOMAIN popped \cup {NoBlock} /\ NoBlock \notin DOMAIN popped
    BY <1>4, <1>16
  <2>4. Becomes(blocks, D, M, T, End(popped, current, Jump(inc)), D, M)
    BY <1>15, <1>16, <1>18, <2>2, <2>3, BecomesEnded
  <2>5. /\ DOMAIN End(popped, current, Jump(inc)) = DOMAIN popped
        /\ \A c \in DOMAIN popped \ {current} :
             End(popped, current, Jump(inc))[c].term = popped[c].term
    BY <1>17, <2>3, EndTerms
  <2> QED
    BY <1>12, <1>16, <2>1, <2>4, <2>5
<1>20. joined \in [DOMAIN joined -> SoundBlock]
  BY <1>19 DEF Becomes, Levels
<1> HIDE DEF joined
<1>21. /\ Becomes(blocks, D, M, T, closed, D, M) /\ DOMAIN closed = DOMAIN blocks
       /\ closed[exit].term = blocks[exit].term
  <2>1. code \in Seq(Even(D, M[inc]))
    <3>4. /\ Value(index) \in Operand /\ Value(nextValue) \in Operand
          /\ Constant(Integer(1)) \in Operand
      BY <1>7, OperandsTyped, ConstantsTyped
    <3>1. /\ Value(index) \in Operand /\ Value(nextValue) \in Operand
          /\ Constant(Integer(1)) \in Operand /\ "add" \in STRING
      BY <3>4, NamesAssumption
    <3>2. BinaryOp("add", nextValue, Value(index), Constant(Integer(1))) \in Even(D, M[inc])
      BY <1>7, <3>1, EvenPlain
    <3>3. Copy(index, Value(nextValue)) \in Even(D, M[inc])
      BY <1>7, <3>1, EvenPlain
    <3> QED
      BY <3>2, <3>3, Pair DEF code
  <2>2. Leads(Jump(header), D, M[inc])
    BY <1>12, <1>18 DEF Leads
  <2>3. inc \in DOMAIN joined /\ NoBlock \notin DOMAIN joined
    BY <1>4, <1>12, <1>19
  <2>4. Becomes(blocks, D, M, T, closed, D, M)
    BY <1>15, <1>18, <1>19, <2>1, <2>2, <2>3, BecomesEvenClosed
  <2>5. /\ DOMAIN closed = DOMAIN joined
        /\ \A c \in DOMAIN joined \ {inc} : closed[c].term = joined[c].term
    BY <1>20, <2>3, CloseTerms
  <2> QED
    BY <1>9, <1>12, <1>19, <2>4, <2>5
<1>22. closed \in [DOMAIN closed -> SoundBlock]
  BY <1>21 DEF Becomes, Levels
<1> HIDE DEF closed
<1>23. Becomes(blocks, D, M, T, blocks', D, M) /\ blocks'[exit].term = blocks[exit].term
  <2>1. /\ DOMAIN blocks' = DOMAIN closed
        /\ \A c \in DOMAIN closed \ {header} : blocks'[c] = closed[c]
        /\ \A c \in DOMAIN closed : blocks'[c].term = closed[c].term
        /\ Treads(closed[header].code, blocks'[header].code)
    <3> DEFINE a == Value(nextValue)
               ds == blocks'
    <3>1. ds = [closed EXCEPT ![header].code[1].args = Append(@, a)] /\ header \in DOMAIN closed
      BY <1>1, <1>6, <1>21
    <3> HIDE DEF a, ds
    <3>2. Patched(closed, [closed EXCEPT ![header].code[1].args = Append(@, a)], header)
      BY <1>22, <3>1, Patches
    <3>3. Patched(closed, ds, header)
      BY <3>1, <3>2
    <3> QED
      BY <3>3 DEF ds, Patched
  <2>2. header \in DOMAIN closed /\ blocks' \in [DOMAIN closed -> SoundBlock]
    BY <1>6, <1>8, <1>21, <2>1
  <2>3. Becomes(blocks, D, M, T, blocks', D, M)
    BY <1>21, <2>1, <2>2, BecomesPatched
  <2> QED
    BY <1>12, <1>21, <2>1, <2>3
<1>24. ~Ended(blocks', exit)
  BY <1>12, <1>23 DEF Ended
<1> QED
  BY <1>1, <1>2, <1>3, <1>11, <1>12, <1>15, <1>23, <1>24, LoopDone DEF T

\* The end of a loop over a range: the header waits for it as well.
LEMMA EndRangePaced == ASSUME LowerInv, Fitting, Balanced, EndRange PROVE Balanced'
<1> DEFINE header == At[1]
           body == At[2]
           inc == At[3]
           exit == At[4]
           cond == At[5]
           counter == At[6]
           step == At[7]
           scoped == IterScopeSafe(The.body)
           popped == Emit(blocks, current, ScopePop(scoped))
           branch == Branch(Value(cond), body, exit)
           headed == End(popped, header, branch)
           joined == IF Open(headed, current) THEN End(headed, current, Jump(inc)) ELSE headed
           code == <<BinaryOp("add", counter, Value(counter), Value(step))>>
           closed == Close(joined, inc, code, Jump(header))
           T == Touched(agenda, current)
<1>1. /\ Doing("range_end") /\ Then(<<>>)
      /\ blocks' = [closed EXCEPT ![header].code[1].args = Append(@, Value(counter))]
      /\ current' = exit
      /\ loops' = Front(loops)
      /\ UNCHANGED <<nextBlock, regions>>
  BY DEF EndRange
<1>2. agenda # <<>> /\ agenda[1].do = "range_end"
  BY <1>1, DoingHead
<1>3. PICK D, M, dep, L : Here(D, M, dep, L)
  BY DEF Balanced
<1>4. /\ current \in DOMAIN blocks \cup {NoBlock} /\ Levels(blocks, D, M)
      /\ DOMAIN D = 0..(nextBlock - 1) /\ NoBlock \notin DOMAIN blocks /\ nextBlock \in Nat
      /\ At = agenda[1].at /\ Head(agenda) = agenda[1]
      /\ blocks \in [DOMAIN blocks -> SoundBlock] /\ NoBlock \notin DOMAIN D
  BY <1>2, <1>3, HereTyped DEF Levels
<1>5. scoped \in BOOLEAN
  BY DEF IterScopeSafe
<1>6. header \in DOMAIN blocks
  BY <1>2, <1>4, ReadyBlocks
<1>7. cond \in Nat \ {0} /\ counter \in Nat \ {0} /\ step \in Nat \ {0}
  <2>1. Ready(Head(agenda), DOMAIN blocks, nextBlock)
    BY <1>2, AgendaSplits
  <2>2. 5 \in 5..8 /\ 6 \in 5..8 /\ 7 \in 5..8
    OBVIOUS
  <2> QED
    BY <1>2, <1>4, <2>1, <2>2 DEF Ready
<1>8. blocks' \in [DOMAIN blocks' -> SoundBlock]
  <2>1. LowerInv'
    BY EndRangeKeeps
  <2> QED
    BY <2>1 DEF LowerInv, Shaped, Graph
<1>9. exit # inc /\ exit # header
  <2>1. agenda[1].at[4] # agenda[1].at[3] /\ agenda[1].at[4] # agenda[1].at[1]
    BY <1>2, HeadApart DEF Apart
  <2> QED
    BY <1>4, <2>1
<1>10. header = agenda[1].at[1] /\ body = agenda[1].at[2] /\ inc = agenda[1].at[3]
       /\ exit = agenda[1].at[4]
  BY <1>4
<1> HIDE DEF header, body, inc, exit, cond, counter, step, scoped, code
<1>11. /\ Owned(agenda[1]) = {header, inc, exit} /\ Waiting(agenda[1]) = {header, inc, exit}
       /\ Entries(agenda[1]) = {header, inc, exit, body}
       /\ agenda[1].do \in LoopEnds /\ agenda[1].do \notin Closing
  BY <1>2, <1>10, RangeEndHolds, JoinHead
<1>12. /\ header \in DOMAIN D /\ D[header] = Len(regions) /\ M[header] = Len(regions)
       /\ inc \in DOMAIN D /\ D[inc] = Len(regions)
       /\ body \in DOMAIN D /\ D[body] = Len(regions)
       /\ exit \in DOMAIN D /\ D[exit] = Len(regions)
       /\ exit # current /\ exit \in DOMAIN blocks /\ ~Ended(blocks, exit) /\ M[exit] = Len(regions)
       /\ inc # current /\ inc \in DOMAIN blocks /\ M[inc] = Len(regions)
       /\ header # current
  BY <1>2, <1>3, <1>11, HeadCarries DEF Carries
<1>13. Becomes(blocks, D, M, T, blocks, D, M) /\ current \in T /\ exit \in T /\ inc \in T
       /\ header \in T
  BY <1>4, <1>11, BecomesItself DEF Touched
<1> HIDE DEF T
<1>14. /\ Becomes(blocks, D, M, T, popped, D, M) /\ DOMAIN popped = DOMAIN blocks
       /\ \A c \in DOMAIN blocks : popped[c].term = blocks[c].term
  <2>1. ScopePop(scoped) \in Seq(Even(D, M[current]))
    BY <1>5, EvenScopes
  <2> QED
    BY <1>4, <1>13, <2>1, BecomesEven, EmitTerms
<1>15. popped \in [DOMAIN popped -> SoundBlock]
  BY <1>14 DEF Becomes, Levels
<1> HIDE DEF popped
<1>16. /\ Jump(inc) \in Terminator /\ Jump(inc).kind = "jump" /\ Targets(Jump(inc)) = {inc}
       /\ Jump(header) \in Terminator /\ Jump(header).kind = "jump"
       /\ Targets(Jump(header)) = {header}
       /\ branch \in Terminator /\ branch.kind = "branch" /\ Targets(branch) = {body, exit}
  <2>1. inc \in Int /\ header \in Int /\ body \in Int /\ exit \in Int
    BY <1>4, <1>12
  <2>2. Value(cond) \in Operand
    BY <1>7, OperandsTyped
  <2>3. branch \in Terminator /\ Targets(branch) = {body, exit}
    BY <2>1, <2>2, BranchTyped
  <2> QED
    BY <2>1, <2>3, TermsTyped DEF Branch, Jump, Term
<1> HIDE DEF branch
<1>17. /\ Becomes(blocks, D, M, T, headed, D, M) /\ DOMAIN headed = DOMAIN blocks
       /\ \A c \in DOMAIN blocks \ {header} : headed[c].term = blocks[c].term
  <2>1. Leads(branch, D, M[header])
    BY <1>12, <1>16 DEF Leads
  <2>2. header \in DOMAIN popped /\ NoBlock \notin DOMAIN popped
    BY <1>4, <1>6, <1>14
  <2>3. Becomes(blocks, D, M, T, headed, D, M)
    BY <1>13, <1>14, <1>16, <2>1, <2>2, BecomesEnded
  <2>4. /\ DOMAIN headed = DOMAIN popped
        /\ \A c \in DOMAIN popped \ {header} : headed[c].term = popped[c].term
    BY <1>15, <2>2, EndTerms
  <2> QED
    BY <1>14, <2>3, <2>4
<1>18. headed \in [DOMAIN headed -> SoundBlock]
  BY <1>17 DEF Becomes, Levels
<1> HIDE DEF headed
<1>19. /\ Becomes(blocks, D, M, T, joined, D, M) /\ DOMAIN joined = DOMAIN blocks
       /\ joined[exit].term = blocks[exit].term
  <2>1. exit \in DOMAIN blocks \ {header}
    BY <1>9, <1>12
  <2>2. CASE ~Open(headed, current)
    BY <1>17, <2>1, <2>2
  <2>3. CASE Open(headed, current)
    <3>1. current \in DOMAIN blocks /\ current # NoBlock
      BY <1>4, <2>3 DEF Open
    <3>2. headed[current].term = blocks[current].term
      BY <1>12, <1>17, <3>1
    <3>3. ~Ended(blocks, current)
      <4>1. blocks[current].term = Unreachable
        BY <2>3, <3>2 DEF Open
      <4> QED
        BY <4>1, OpenTerms
    <3>4. M[current] = Len(regions)
      BY <1>2, <1>3, <1>11, <3>1, <3>3, OpenLevel
    <3>5. Leads(Jump(inc), D, M[current])
      BY <1>12, <1>16, <3>4 DEF Leads
    <3>6. current \in DOMAIN headed /\ NoBlock \notin DOMAIN headed
      BY <1>4, <1>17, <3>1
    <3>7. Becomes(blocks, D, M, T, End(headed, current, Jump(inc)), D, M)
      BY <1>13, <1>16, <1>17, <3>5, <3>6, BecomesEnded
    <3>8. /\ DOMAIN End(headed, current, Jump(inc)) = DOMAIN headed
          /\ \A c \in DOMAIN headed \ {current} :
               End(headed, current, Jump(inc))[c].term = headed[c].term
      BY <1>18, <3>6, EndTerms
    <3>9. joined = End(headed, current, Jump(inc))
      BY <2>3
    <3> HIDE DEF joined
    <3> QED
      BY <1>12, <1>17, <2>1, <3>7, <3>8, <3>9
  <2> QED
    BY <2>2, <2>3
<1>20. joined \in [DOMAIN joined -> SoundBlock]
  BY <1>19 DEF Becomes, Levels
<1> HIDE DEF joined
<1>21. /\ Becomes(blocks, D, M, T, closed, D, M) /\ DOMAIN closed = DOMAIN blocks
       /\ closed[exit].term = blocks[exit].term
  <2>1. code \in Seq(Even(D, M[inc]))
    <3>1. Value(counter) \in Operand /\ Value(step) \in Operand /\ "add" \in STRING
      BY <1>7, OperandsTyped, NamesAssumption
    <3>2. BinaryOp("add", counter, Value(counter), Value(step)) \in Even(D, M[inc])
      BY <1>7, <3>1, EvenPlain
    <3> QED
      BY <3>2, Single DEF code
  <2>2. Leads(Jump(header), D, M[inc])
    BY <1>12, <1>16 DEF Leads
  <2>3. inc \in DOMAIN joined /\ NoBlock \notin DOMAIN joined
    BY <1>4, <1>12, <1>19
  <2>4. Becomes(blocks, D, M, T, closed, D, M)
    BY <1>13, <1>16, <1>19, <2>1, <2>2, <2>3, BecomesEvenClosed
  <2>5. /\ DOMAIN closed = DOMAIN joined
        /\ \A c \in DOMAIN joined \ {inc} : closed[c].term = joined[c].term
    BY <1>20, <2>3, CloseTerms
  <2> QED
    BY <1>9, <1>12, <1>19, <2>4, <2>5
<1>22. closed \in [DOMAIN closed -> SoundBlock]
  BY <1>21 DEF Becomes, Levels
<1> HIDE DEF closed
<1>23. Becomes(blocks, D, M, T, blocks', D, M) /\ blocks'[exit].term = blocks[exit].term
  <2>1. /\ DOMAIN blocks' = DOMAIN closed
        /\ \A c \in DOMAIN closed \ {header} : blocks'[c] = closed[c]
        /\ \A c \in DOMAIN closed : blocks'[c].term = closed[c].term
        /\ Treads(closed[header].code, blocks'[header].code)
    <3> DEFINE a == Value(counter)
               ds == blocks'
    <3>1. ds = [closed EXCEPT ![header].code[1].args = Append(@, a)] /\ header \in DOMAIN closed
      BY <1>1, <1>6, <1>21
    <3> HIDE DEF a, ds
    <3>2. Patched(closed, [closed EXCEPT ![header].code[1].args = Append(@, a)], header)
      BY <1>22, <3>1, Patches
    <3>3. Patched(closed, ds, header)
      BY <3>1, <3>2
    <3> QED
      BY <3>3 DEF ds, Patched
  <2>2. header \in DOMAIN closed /\ blocks' \in [DOMAIN closed -> SoundBlock]
    BY <1>6, <1>8, <1>21, <2>1
  <2>3. Becomes(blocks, D, M, T, blocks', D, M)
    BY <1>21, <2>1, <2>2, BecomesPatched
  <2> QED
    BY <1>12, <1>21, <2>1, <2>3
<1>24. ~Ended(blocks', exit)
  BY <1>12, <1>23 DEF Ended
<1> QED
  BY <1>1, <1>2, <1>3, <1>11, <1>12, <1>13, <1>23, <1>24, LoopDone DEF T

-----------------------------------------------------------------------------
\* More instructions that leave the regions as they are.
LEMMA EvenPhis ==
  ASSUME NEW D, NEW n, NEW a \in Operand, NEW b \in Operand, NEW d \in Nat \ {0}
  PROVE  Phi(d, <<a>>) \in Even(D, n) /\ Instr("address", d, <<a, b>>, "", NoBlock) \in Even(D, n)
<1>1. "" \in STRING
  BY NamesAssumption
<1>2. Phi(d, <<a>>) \in Sound /\ Instr("address", d, <<a, b>>, "", NoBlock) \in Sound
  BY <1>1, InstructionsSound
<1>3. /\ Phi(d, <<a>>).op # "call" /\ Phi(d, <<a>>).exit = NoBlock
      /\ Instr("address", d, <<a, b>>, "", NoBlock).op # "call"
      /\ Instr("address", d, <<a, b>>, "", NoBlock).exit = NoBlock
  BY DEF Phi, Instr
<1> QED
  BY <1>2, <1>3, EvenInstructions

LEMMA EvenFour ==
  ASSUME NEW S, NEW c \in Seq(S), NEW d \in Seq(S)
  PROVE  c \o d \in Seq(S)
  OBVIOUS

\* A loop over a list begins.
LEMMA ForPaced == ASSUME LowerInv, Fitting, Balanced, BuildFor PROVE Balanced'
<1> DEFINE e == Lower(The.expr)
           V(i) == e.next + i
           header == nextBlock
           body == nextBlock + 1
           inc == nextBlock + 2
           exit == nextBlock + 3
           nb2 == nextBlock + 4
           scoped == IterScopeSafe(The.body)
           branch == Branch(Value(V(4)), body, exit)
           ids == {header, body, inc, exit}
           reserved == Reserve(blocks, ids)
           copies == <<Copy(V(0), Constant(Integer(0))), Copy(V(1), Value(V(0)))>>
           test == <<Phi(V(1), <<Value(V(0))>>), Load(V(3), Value(e.value), "length"),
                     BinaryOp("lt", V(4), Value(V(1)), Value(V(3)))>>
           take == <<Instr("address", V(5), <<Value(e.value), Value(V(1))>>, "", NoBlock),
                     Load(V(2), Value(V(5)), "element")>>
           started == Close(reserved, current, e.code \o copies, Jump(header))
           headed == Close(started, header, test, branch)
           T == Touched(agenda, current)
           v == Len(regions)
           p == Point("for_end", The, <<header, body, inc, exit, V(1)>>)
           loop == Loop(inc, exit, scoped)
<1>1. /\ On("for") /\ agenda # <<>> /\ "for" \in Kinds /\ current # NoBlock
      /\ blocks' = Emit(headed, body, ScopePush(scoped) \o take)
      /\ current' = body
      /\ nextBlock' = nextBlock + 4
      /\ Then(Points(The.body) \o <<p>>)
      /\ loops' = Append(loops, loop)
      /\ UNCHANGED regions
  BY DEF BuildFor, On, Doing, Kinds
<1>2. PICK D, M, dep, L : Here(D, M, dep, L)
  BY DEF Balanced
<1>3. /\ ~Resumes(agenda[1]) /\ agenda[1].do # "test" /\ agenda[1].do # "return_end"
      /\ Resolved(The.expr) /\ agenda[1].do = "stmt" /\ agenda[1].s.kind \in Kinds
      /\ The.kind = "for"
  BY <1>1, HeadOn, PlainHead DEF On
<1>4. /\ current \in DOMAIN blocks /\ Levels(blocks, D, M)
      /\ agenda \in Seq(Tasks) /\ nextBlock \in Nat
      /\ DOMAIN D = 0..(nextBlock - 1) /\ NoBlock \notin DOMAIN blocks /\ Len(regions) \in Nat
      /\ DOMAIN blocks \subseteq DOMAIN D
  BY <1>1, <1>2, HereTyped
<1>5. e.value \in Nat /\ e.next \in Nat \ {0}
  BY <1>1, <1>3, LowersTo
<1> HIDE DEF e
<1>6. /\ V(0) \in Nat \ {0} /\ V(1) \in Nat \ {0} /\ V(2) \in Nat \ {0}
      /\ V(3) \in Nat \ {0} /\ V(4) \in Nat \ {0} /\ V(5) \in Nat \ {0}
  BY <1>5
<1> HIDE DEF V
<1>7. /\ Value(V(0)) \in Operand /\ Value(V(1)) \in Operand /\ Value(V(3)) \in Operand
      /\ Value(V(4)) \in Operand /\ Value(V(5)) \in Operand /\ Value(e.value) \in Operand
      /\ Constant(Integer(0)) \in Operand
  BY <1>5, <1>6, OperandsTyped, ConstantsTyped
<1>8. \A E, n : /\ copies \in Seq(Even(E, n)) /\ test \in Seq(Even(E, n))
                /\ take \in Seq(Even(E, n))
  <2> SUFFICES ASSUME NEW E, NEW n
               PROVE  /\ copies \in Seq(Even(E, n)) /\ test \in Seq(Even(E, n))
                      /\ take \in Seq(Even(E, n))
    OBVIOUS
  <2>1. "length" \in STRING /\ "lt" \in STRING /\ "element" \in STRING
    BY NamesAssumption
  <2>2. /\ Copy(V(0), Constant(Integer(0))) \in Even(E, n) /\ Copy(V(1), Value(V(0))) \in Even(E, n)
        /\ Load(V(3), Value(e.value), "length") \in Even(E, n)
        /\ Load(V(2), Value(V(5)), "element") \in Even(E, n)
        /\ BinaryOp("lt", V(4), Value(V(1)), Value(V(3))) \in Even(E, n)
    BY <1>6, <1>7, <2>1, EvenPlain
  <2>3. /\ Phi(V(1), <<Value(V(0))>>) \in Even(E, n)
        /\ Instr("address", V(5), <<Value(e.value), Value(V(1))>>, "", NoBlock) \in Even(E, n)
    BY <1>6, <1>7, EvenPhis
  <2> QED
    BY <2>2, <2>3, Pair, Triple
<1> HIDE DEF copies, test, take
<1>9. scoped \in BOOLEAN
  BY DEF IterScopeSafe
<1>10. v \in Int
  BY <1>4
<1> DEFINE E == Wider(D, nextBlock, nb2, v)
           N == Wider(M, nextBlock, nb2, v)
<1>11. /\ nb2 \in Nat /\ nextBlock <= nb2 /\ ids \subseteq nextBlock..(nb2 - 1)
  BY <1>4
<1>12. /\ header \in ids /\ body \in ids /\ inc \in ids /\ exit \in ids
       /\ header # body /\ header # inc /\ header # exit /\ body # inc /\ body # exit /\ inc # exit
       /\ header \in Int /\ body \in Int /\ inc \in Int /\ exit \in Int
  BY <1>4
<1> HIDE DEF header, body, inc, exit, v, scoped, ids, nb2
<1>13. Becomes(blocks, D, M, T, reserved, E, N) /\ Broadens(blocks, D, M, nextBlock, nb2, v, E, N)
  BY <1>1, <1>2, <1>10, <1>11, ReservesWide
<1>14. /\ DOMAIN E = 0..(nb2 - 1) /\ Extends(E, D)
       /\ \A x \in nextBlock..(nb2 - 1) :
            x \in DOMAIN E /\ x \notin DOMAIN D /\ x \notin DOMAIN blocks /\ E[x] = v /\ N[x] = v
       /\ \A x \in DOMAIN D : x \in DOMAIN E /\ E[x] = D[x] /\ N[x] = M[x]
  <2> HIDE DEF E, N
  <2> QED
    BY <1>13 DEF Broadens
<1>15. e.code \in Seq(Even(E, M[current]))
  BY <1>1, <1>2, <1>3, <1>14, HeadEven DEF e
<1>16. /\ branch \in Terminator /\ branch.kind = "branch" /\ Targets(branch) = {body, exit}
       /\ Jump(header) \in Terminator /\ Jump(header).kind = "jump"
       /\ Targets(Jump(header)) = {header}
  <2>1. branch \in Terminator /\ Targets(branch) = {body, exit}
    BY <1>7, <1>12, BranchTyped
  <2> QED
    BY <1>12, <2>1, TermsTyped DEF Branch, Jump, Term
<1>17. /\ \A x \in ids : x \in DOMAIN E /\ x \notin DOMAIN D /\ x \notin DOMAIN blocks
                        /\ E[x] = v /\ N[x] = v
       /\ current \in T
  BY <1>11, <1>14 DEF Touched
<1> HIDE DEF E, N, T
<1>18. M[current] = v /\ N[current] = v /\ current \notin ids
  BY <1>1, <1>2, <1>3, <1>4, <1>14, <1>17, PlainLevel DEF v
<1>19. DOMAIN reserved = DOMAIN blocks \cup ids
  BY ReserveFrames
<1>20. \A c \in ids : reserved[c].term = Unreachable
  BY ReservedTerms
<1>21. reserved \in [DOMAIN reserved -> SoundBlock] /\ NoBlock \notin DOMAIN reserved
  BY <1>13 DEF Becomes, Levels
<1> HIDE DEF branch, reserved
<1>22. /\ Becomes(blocks, D, M, T, started, E, N) /\ DOMAIN started = DOMAIN blocks \cup ids
       /\ \A c \in ids : started[c].term = Unreachable
       /\ started[current].term = Jump(header)
  <2>1. Leads(Jump(header), E, N[current])
    BY <1>12, <1>16, <1>17, <1>18 DEF Leads
  <2>2. e.code \o copies \in Seq(Even(E, N[current]))
    BY <1>8, <1>15, <1>18, EvenFour
  <2>3. current \in DOMAIN reserved
    BY <1>4, <1>19
  <2>4. Becomes(blocks, D, M, T, started, E, N)
    BY <1>13, <1>16, <1>17, <2>1, <2>2, <2>3, BecomesEvenClosed
  <2>5. /\ DOMAIN started = DOMAIN reserved
        /\ \A c \in DOMAIN reserved \ {current} : started[c].term = reserved[c].term
        /\ current # NoBlock => started[current].term = Jump(header)
    BY <1>21, <2>3, CloseTerms
  <2>6. ids \subseteq DOMAIN reserved \ {current}
    BY <1>18, <1>19
  <2> QED
    BY <1>1, <1>19, <1>20, <2>4, <2>5, <2>6
<1>23. started \in [DOMAIN started -> SoundBlock] /\ NoBlock \notin DOMAIN started
  BY <1>22 DEF Becomes, Levels
<1> HIDE DEF started
<1>24. /\ Becomes(blocks, D, M, T, headed, E, N) /\ DOMAIN headed = DOMAIN started
       /\ \A c \in DOMAIN started \ {header} : headed[c].term = started[c].term
  <2>1. header \in DOMAIN started /\ header \notin DOMAIN D
    BY <1>12, <1>17, <1>22
  <2>2. test \in Seq(Even(E, N[header])) /\ Leads(branch, E, N[header])
    BY <1>8, <1>12, <1>16, <1>17 DEF Leads
  <2>3. Becomes(blocks, D, M, T, headed, E, N)
    BY <1>16, <1>22, <2>1, <2>2, BecomesEvenClosed
  <2> QED
    BY <1>23, <2>1, <2>3, CloseTerms
<1>25. headed \in [DOMAIN headed -> SoundBlock] /\ NoBlock \notin DOMAIN headed
  BY <1>24 DEF Becomes, Levels
<1> HIDE DEF headed
<1>26. /\ Becomes(blocks, D, M, T, blocks', E, N) /\ DOMAIN blocks' = DOMAIN headed
       /\ \A c \in DOMAIN headed : blocks'[c].term = headed[c].term
  <2>1. body \in DOMAIN headed /\ body \notin DOMAIN D
    BY <1>12, <1>17, <1>22, <1>24
  <2>2. ScopePush(scoped) \o take \in Seq(Even(E, N[body]))
    <3>1. ScopePush(scoped) \in Seq(Even(E, N[body]))
      BY <1>9, EvenScopes
    <3> QED
      BY <1>8, <3>1, EvenFour
  <2>3. Becomes(blocks, D, M, T, blocks', E, N)
    BY <1>1, <1>24, <2>1, <2>2, BecomesEven
  <2> QED
    BY <1>1, <1>25, <2>1, <2>3, EmitTerms
<1>27. /\ \A c \in ids \ {header} : c \in DOMAIN blocks' /\ blocks'[c].term = Unreachable
       /\ blocks'[current].term = Jump(header)
  <2>1. \A c \in ids \ {header} : c \in DOMAIN started \ {header} /\ c \in DOMAIN headed
    BY <1>22, <1>24
  <2>2. current \in DOMAIN started \ {header} /\ current \in DOMAIN headed
    BY <1>4, <1>12, <1>18, <1>22, <1>24
  <2> QED
    BY <1>22, <1>24, <1>26, <2>1, <2>2
<1>28. (\A c \in ids \ {header} : ~Ended(blocks', c)) /\ Ended(blocks', current)
  BY <1>27, OpenTerms
<1>29. /\ p.do = "for_end" /\ p.at[1] = header /\ p.at[2] = body /\ p.at[3] = inc
       /\ p.at[4] = exit /\ p \in Tasks
  <2>1. <<header, body, inc, exit, V(1)>> \in Seq(Int)
    BY <1>6, <1>12
  <2>2. The \in Syntax
    BY <1>1, AgendaSplits
  <2>3. p.do = "for_end" /\ p.at = <<header, body, inc, exit, V(1)>>
    BY PointParts
  <2> QED
    BY <2>1, <2>2, <2>3 DEF Point, Tasks, Doings
<1> HIDE DEF p
<1>30. /\ Waiting(p) = {inc, exit} /\ Later(p) = {} /\ Begun(p) = {body}
       /\ Owned(p) = {inc, exit} /\ Entries(p) = {inc, exit, header} /\ p.do \in LoopEnds
  BY <1>29, ForEndHolds
<1>31. Carries(p, current', blocks', E, N, v)
  <2>1. inc \in ids \ {header} /\ exit \in ids \ {header} /\ body \in ids \ {header}
    BY <1>12
  <2>2. \A x \in Entries(p) : x \in DOMAIN E /\ E[x] = v
    BY <1>12, <1>17, <1>30
  <2>3. \A x \in Owned(p) : x # current'
    BY <1>1, <1>12, <1>30
  <2>4. \A x \in Waiting(p) : x \in DOMAIN blocks' /\ ~Ended(blocks', x) /\ N[x] = v
    BY <1>12, <1>17, <1>27, <1>28, <1>30, <2>1
  <2>5. \A x \in Begun(p) : x \in DOMAIN blocks' /\ x = current' /\ blocks'[x].term = Unreachable
    BY <1>1, <1>27, <1>30, <2>1
  <2> QED
    BY <1>30, <2>2, <2>3, <2>4, <2>5 DEF Carries
<1>32. loop.cont = inc /\ loop.brk = exit
  BY DEF Loop
<1> HIDE DEF loop
<1>33. /\ \A x \in {loop.brk, loop.cont} : x \in DOMAIN E /\ E[x] = Len(regions)
       /\ current' \notin DOMAIN D /\ N[current'] = Len(regions) /\ ~Ended(blocks', current')
       /\ \A x \in Owned(p) : x \notin DOMAIN D
       /\ Carries(p, current', blocks', E, N, Len(regions))
  <2>1. body \in ids \ {header}
    BY <1>12
  <2> QED
    BY <1>1, <1>12, <1>17, <1>28, <1>30, <1>31, <1>32, <2>1 DEF v
<1>34. DOMAIN E = 0..(nextBlock' - 1)
  BY <1>1, <1>14 DEF nb2
<1> QED
  BY <1>1, <1>2, <1>3, <1>26, <1>28, <1>29, <1>30, <1>33, <1>34, LoopBegins, SMTT(30) DEF T

\* A counting loop begins.
LEMMA RangePaced == ASSUME LowerInv, Fitting, Balanced, BuildRange PROVE Balanced'
<1> DEFINE from == Lower(The.expr)
           to == LowerFrom(The.upto, from.next)
           V(i) == to.next + i
           header == nextBlock
           body == nextBlock + 1
           inc == nextBlock + 2
           exit == nextBlock + 3
           nb2 == nextBlock + 4
           scoped == IterScopeSafe(The.body)
           ids == {header, body, inc, exit}
           reserved == Reserve(blocks, ids)
           init == <<Copy(V(0), Constant(Integer(1))), Copy(V(1), Constant(Integer(0))),
                     BinaryOp("lt", V(2), Value(V(0)), Value(V(1))),
                     Copy(V(3), Value(from.value)), Copy(V(4), Value(V(3)))>>
           test == <<Phi(V(4), <<Value(V(3))>>),
                     BinaryOp("le", V(5), Value(V(4)), Value(to.value)),
                     BinaryOp("ge", V(6), Value(V(4)), Value(to.value)),
                     Select(V(7), Value(V(2)), Value(V(6)), Value(V(5)))>>
           started == Close(reserved, current, from.code \o to.code \o init, Jump(header))
           headed == Emit(started, header, test)
           T == Touched(agenda, current)
           v == Len(regions)
           p == Point("range_end", The, <<header, body, inc, exit, V(7), V(4), V(0), V(3)>>)
           loop == Loop(inc, exit, scoped)
<1>1. /\ On("range") /\ agenda # <<>> /\ "range" \in Kinds /\ current # NoBlock
      /\ blocks' = Emit(headed, body, ScopePush(scoped))
      /\ current' = body
      /\ nextBlock' = nextBlock + 4
      /\ Then(Points(The.body) \o <<p>>)
      /\ loops' = Append(loops, loop)
      /\ UNCHANGED regions
  BY DEF BuildRange, On, Doing, Kinds
<1>2. PICK D, M, dep, L : Here(D, M, dep, L)
  BY DEF Balanced
<1>3. /\ ~Resumes(agenda[1]) /\ agenda[1].do # "test" /\ agenda[1].do # "return_end"
      /\ Resolved(The.expr) /\ Resolved(The.upto) /\ agenda[1].do = "stmt" /\ agenda[1].s.kind \in Kinds
      /\ The.kind = "range"
  BY <1>1, HeadOn, PlainHead DEF On
<1>4. /\ current \in DOMAIN blocks /\ Levels(blocks, D, M)
      /\ agenda \in Seq(Tasks) /\ nextBlock \in Nat
      /\ DOMAIN D = 0..(nextBlock - 1) /\ NoBlock \notin DOMAIN blocks /\ Len(regions) \in Nat
      /\ DOMAIN blocks \subseteq DOMAIN D
  BY <1>1, <1>2, HereTyped
<1>5. from.value \in Nat /\ from.next \in Nat \ {0}
  BY <1>1, <1>3, LowersTo
<1> HIDE DEF from
<1>51. The.upto \in Expressions /\ The.expr \in Expressions /\ Fair(The.upto) /\ Fair(The.expr)
  BY <1>1, HeadNeat DEF Neat
<1>52. to.value \in Nat /\ to.next \in Nat \ {0}
  <2>1. to \in Outcomes
    BY <1>3, <1>5, <1>51, ExpressionComes DEF LowerInv
  <2> QED
    BY <2>1 DEF Outcomes
<1> HIDE DEF to
<1>6. /\ V(0) \in Nat \ {0} /\ V(1) \in Nat \ {0} /\ V(2) \in Nat \ {0}
      /\ V(3) \in Nat \ {0} /\ V(4) \in Nat \ {0} /\ V(5) \in Nat \ {0}
      /\ V(6) \in Nat \ {0} /\ V(7) \in Nat \ {0}
  BY <1>52
<1> HIDE DEF V
<1>7. /\ Value(V(0)) \in Operand /\ Value(V(1)) \in Operand /\ Value(V(2)) \in Operand
      /\ Value(V(3)) \in Operand /\ Value(V(4)) \in Operand /\ Value(V(5)) \in Operand
      /\ Value(V(6)) \in Operand
      /\ Value(from.value) \in Operand /\ Value(to.value) \in Operand
      /\ Constant(Integer(0)) \in Operand /\ Constant(Integer(1)) \in Operand
  BY <1>5, <1>52, <1>6, OperandsTyped, ConstantsTyped
<1>8. \A E, n : init \in Seq(Even(E, n)) /\ test \in Seq(Even(E, n))
  <2> SUFFICES ASSUME NEW E, NEW n PROVE init \in Seq(Even(E, n)) /\ test \in Seq(Even(E, n))
    OBVIOUS
  <2>1. "le" \in STRING /\ "lt" \in STRING /\ "ge" \in STRING
    BY NamesAssumption
  <2>2. /\ Copy(V(0), Constant(Integer(1))) \in Even(E, n)
        /\ Copy(V(1), Constant(Integer(0))) \in Even(E, n)
        /\ BinaryOp("lt", V(2), Value(V(0)), Value(V(1))) \in Even(E, n)
        /\ Copy(V(3), Value(from.value)) \in Even(E, n) /\ Copy(V(4), Value(V(3))) \in Even(E, n)
    BY <1>6, <1>7, <2>1, EvenPlain
  <2>3. /\ BinaryOp("le", V(5), Value(V(4)), Value(to.value)) \in Even(E, n)
        /\ BinaryOp("ge", V(6), Value(V(4)), Value(to.value)) \in Even(E, n)
        /\ Select(V(7), Value(V(2)), Value(V(6)), Value(V(5))) \in Even(E, n)
    BY <1>6, <1>7, <2>1, EvenPlain
  <2>4. Phi(V(4), <<Value(V(3))>>) \in Even(E, n)
    BY <1>6, <1>7, EvenPhis
  <2> QED
    BY <2>2, <2>3, <2>4, Four, Five
<1> HIDE DEF init, test
<1>9. scoped \in BOOLEAN
  BY DEF IterScopeSafe
<1>10. v \in Int
  BY <1>4
<1> DEFINE E == Wider(D, nextBlock, nb2, v)
           N == Wider(M, nextBlock, nb2, v)
<1>11. /\ nb2 \in Nat /\ nextBlock <= nb2 /\ ids \subseteq nextBlock..(nb2 - 1)
  BY <1>4
<1>12. /\ header \in ids /\ body \in ids /\ inc \in ids /\ exit \in ids
       /\ header # body /\ header # inc /\ header # exit /\ body # inc /\ body # exit /\ inc # exit
       /\ header \in Int /\ body \in Int /\ inc \in Int /\ exit \in Int
  BY <1>4
<1> HIDE DEF header, body, inc, exit, v, scoped, ids, nb2
<1>13. Becomes(blocks, D, M, T, reserved, E, N) /\ Broadens(blocks, D, M, nextBlock, nb2, v, E, N)
  BY <1>1, <1>2, <1>10, <1>11, ReservesWide
<1>14. /\ DOMAIN E = 0..(nb2 - 1) /\ Extends(E, D)
       /\ \A x \in nextBlock..(nb2 - 1) :
            x \in DOMAIN E /\ x \notin DOMAIN D /\ x \notin DOMAIN blocks /\ E[x] = v /\ N[x] = v
       /\ \A x \in DOMAIN D : x \in DOMAIN E /\ E[x] = D[x] /\ N[x] = M[x]
  <2> HIDE DEF E, N
  <2> QED
    BY <1>13 DEF Broadens
<1>15. from.code \in Seq(Even(E, M[current])) /\ to.code \in Seq(Even(E, M[current]))
  <2>1. from.code \in Seq(Even(E, M[current]))
    BY <1>1, <1>2, <1>3, <1>14, HeadEven DEF from
  <2>2. M[current] = Len(regions)
    BY <1>1, <1>2, <1>3, PlainLevel
  <2>3. to.code \in Seq(Even(E, M[current]))
    BY <1>2, <1>3, <1>5, <1>14, <1>51, <2>2, LowersEven DEF to
  <2> QED
    BY <2>1, <2>3
<1>16. /\ Jump(header) \in Terminator /\ Jump(header).kind = "jump"
       /\ Targets(Jump(header)) = {header}
  BY <1>12, TermsTyped DEF Jump, Term
<1>17. /\ \A x \in ids : x \in DOMAIN E /\ x \notin DOMAIN D /\ x \notin DOMAIN blocks
                        /\ E[x] = v /\ N[x] = v
       /\ current \in T
  BY <1>11, <1>14 DEF Touched
<1> HIDE DEF E, N, T
<1>18. M[current] = v /\ N[current] = v /\ current \notin ids
  BY <1>1, <1>2, <1>3, <1>4, <1>14, <1>17, PlainLevel DEF v
<1>19. DOMAIN reserved = DOMAIN blocks \cup ids
  BY ReserveFrames
<1>20. \A c \in ids : reserved[c].term = Unreachable
  BY ReservedTerms
<1>21. reserved \in [DOMAIN reserved -> SoundBlock] /\ NoBlock \notin DOMAIN reserved
  BY <1>13 DEF Becomes, Levels
<1> HIDE DEF reserved
<1>22. /\ Becomes(blocks, D, M, T, started, E, N) /\ DOMAIN started = DOMAIN blocks \cup ids
       /\ \A c \in ids : started[c].term = Unreachable
       /\ started[current].term = Jump(header)
  <2>1. Leads(Jump(header), E, N[current])
    BY <1>12, <1>16, <1>17, <1>18 DEF Leads
  <2>2. from.code \o to.code \o init \in Seq(Even(E, N[current]))
    BY <1>8, <1>15, <1>18, EvenFour
  <2>3. current \in DOMAIN reserved
    BY <1>4, <1>19
  <2>4. Becomes(blocks, D, M, T, started, E, N)
    BY <1>13, <1>16, <1>17, <2>1, <2>2, <2>3, BecomesEvenClosed
  <2>5. /\ DOMAIN started = DOMAIN reserved
        /\ \A c \in DOMAIN reserved \ {current} : started[c].term = reserved[c].term
        /\ current # NoBlock => started[current].term = Jump(header)
    BY <1>21, <2>3, CloseTerms
  <2>6. ids \subseteq DOMAIN reserved \ {current}
    BY <1>18, <1>19
  <2> QED
    BY <1>1, <1>19, <1>20, <2>4, <2>5, <2>6
<1>23. started \in [DOMAIN started -> SoundBlock] /\ NoBlock \notin DOMAIN started
  BY <1>22 DEF Becomes, Levels
<1> HIDE DEF started
<1>24. /\ Becomes(blocks, D, M, T, headed, E, N) /\ DOMAIN headed = DOMAIN started
       /\ \A c \in DOMAIN started : headed[c].term = started[c].term
  <2>1. header \in DOMAIN started /\ header \notin DOMAIN D
    BY <1>12, <1>17, <1>22
  <2>2. test \in Seq(Even(E, N[header]))
    BY <1>8
  <2>3. Becomes(blocks, D, M, T, headed, E, N)
    BY <1>22, <2>1, <2>2, BecomesEven
  <2> QED
    BY <1>23, <2>1, <2>3, EmitTerms
<1>25. headed \in [DOMAIN headed -> SoundBlock] /\ NoBlock \notin DOMAIN headed
  BY <1>24 DEF Becomes, Levels
<1> HIDE DEF headed
<1>26. /\ Becomes(blocks, D, M, T, blocks', E, N) /\ DOMAIN blocks' = DOMAIN headed
       /\ \A c \in DOMAIN headed : blocks'[c].term = headed[c].term
  <2>1. body \in DOMAIN headed /\ body \notin DOMAIN D
    BY <1>12, <1>17, <1>22, <1>24
  <2>2. ScopePush(scoped) \in Seq(Even(E, N[body]))
    BY <1>9, EvenScopes
  <2>3. Becomes(blocks, D, M, T, blocks', E, N)
    BY <1>1, <1>24, <2>1, <2>2, BecomesEven
  <2> QED
    BY <1>1, <1>25, <2>1, <2>3, EmitTerms
<1>27. /\ \A c \in ids : c \in DOMAIN blocks' /\ blocks'[c].term = Unreachable
       /\ blocks'[current].term = Jump(header)
  <2>1. \A c \in ids : c \in DOMAIN started /\ c \in DOMAIN headed
    BY <1>22, <1>24
  <2>2. current \in DOMAIN started /\ current \in DOMAIN headed
    BY <1>4, <1>22, <1>24
  <2> QED
    BY <1>22, <1>24, <1>26, <2>1, <2>2
<1>28. (\A c \in ids : ~Ended(blocks', c)) /\ Ended(blocks', current)
  BY <1>27, OpenTerms
<1>29. /\ p.do = "range_end" /\ p.at[1] = header /\ p.at[2] = body /\ p.at[3] = inc
       /\ p.at[4] = exit /\ p \in Tasks
  <2>1. <<header, body, inc, exit, V(7), V(4), V(0), V(3)>> \in Seq(Int)
    BY <1>6, <1>12
  <2>2. The \in Syntax
    BY <1>1, AgendaSplits
  <2>3. p.do = "range_end" /\ p.at = <<header, body, inc, exit, V(7), V(4), V(0), V(3)>>
    BY PointParts
  <2> QED
    BY <2>1, <2>2, <2>3 DEF Point, Tasks, Doings
<1> HIDE DEF p
<1>30. /\ Waiting(p) = {header, inc, exit} /\ Later(p) = {} /\ Begun(p) = {}
       /\ Owned(p) = {header, inc, exit} /\ Entries(p) = {header, inc, exit, body}
       /\ p.do \in LoopEnds
  BY <1>29, RangeEndHolds
<1>31. Carries(p, current', blocks', E, N, v)
  <2>1. inc \in ids /\ exit \in ids /\ header \in ids
    BY <1>12
  <2>2. \A x \in Entries(p) : x \in DOMAIN E /\ E[x] = v
    BY <1>12, <1>17, <1>30
  <2>3. \A x \in Owned(p) : x # current'
    BY <1>1, <1>12, <1>30
  <2>4. \A x \in Waiting(p) : x \in DOMAIN blocks' /\ ~Ended(blocks', x) /\ N[x] = v
    BY <1>12, <1>17, <1>27, <1>28, <1>30, <2>1
  <2>5. Begun(p) = {} /\ Later(p) = {}
    BY <1>30
  <2> QED
    BY <1>30, <2>2, <2>3, <2>4, <2>5 DEF Carries
<1>32. loop.cont = inc /\ loop.brk = exit
  BY DEF Loop
<1> HIDE DEF loop
<1>33. /\ \A x \in {loop.brk, loop.cont} : x \in DOMAIN E /\ E[x] = Len(regions)
       /\ current' \notin DOMAIN D /\ N[current'] = Len(regions) /\ ~Ended(blocks', current')
       /\ \A x \in Owned(p) : x \notin DOMAIN D
       /\ Carries(p, current', blocks', E, N, Len(regions))
  <2>1. body \in ids
    BY <1>12
  <2> QED
    BY <1>1, <1>12, <1>17, <1>28, <1>30, <1>31, <1>32, <2>1 DEF v
<1>34. DOMAIN E = 0..(nextBlock' - 1)
  BY <1>1, <1>14 DEF nb2
<1> QED
  BY <1>1, <1>2, <1>3, <1>26, <1>28, <1>29, <1>30, <1>33, <1>34, LoopBegins DEF T

-----------------------------------------------------------------------------
\* onError puts the marks of a region around what it guards: between them the builder is in
\* one region more.
Bracketed(pts) ==
  /\ Len(pts) \in Nat /\ Len(pts) >= 3
  /\ \A k \in 1..Len(pts) :
       /\ pts[k].do = "stmt"
       /\ Leaves(pts[k]) => k < Len(pts) /\ Resumes(pts[k + 1])
       /\ Delta(pts[k]) = IF k = 1 THEN 1 ELSE IF k = Len(pts) - 1 THEN -1 ELSE 0
Deeper(dep, n, m, d) ==
  [r \in Nat |-> IF r < n THEN dep[r] ELSE IF r > n /\ r < m + n - 1 THEN d + 1 ELSE d]

Deepens(dep, dep2, n, m, d) ==
  /\ dep2 \in [Nat -> Nat]
  /\ \A r \in Nat : r < n => dep2[r] = dep[r]
  /\ \A r \in Nat : r >= n => dep2[r] >= d
  /\ \A r \in Nat : r > n /\ r < m + n - 1 => dep2[r] = d + 1
  /\ \A r \in Nat : r = n \/ (r > n /\ r >= m + n - 1) => dep2[r] = d

LEMMA DeeperTyped ==
  ASSUME NEW n \in Nat, NEW m \in Nat, NEW d \in Nat, NEW dep \in [Nat -> Nat]
  PROVE  Deepens(dep, Deeper(dep, n, m, d), n, m, d)
<1> QED
  BY DEF Deeper, Deepens

LEMMA StatementPlain ==
  ASSUME NEW p, p.do = "stmt"
  PROVE  p.do \notin Joins /\ p.do \notin Closing /\ p.do \notin {"auto", "finish"} /\ p.do # "test"
         /\ p.do \notin LoopEnds
<1> QED
  BY NamesAssumption DEF Joins, LoopEnds, Closing

LEMMA PlannedBracketed ==
  ASSUME NEW S, NEW ag \in Seq(S), ag # <<>>, NEW d \in Nat, NEW dep, Planned(ag, d, dep),
         Delta(ag[1]) = 0, ag[1].do # "test",
         NEW pts \in Seq(S), Bracketed(pts)
  PROVE  /\ Planned(After(ag, pts), d, Deeper(dep, Len(ag), Len(pts), d))
         /\ Onwards(ag, After(ag, pts))
<1> DEFINE n == Len(ag)
           m == Len(pts)
           ag2 == After(ag, pts)
           dep2 == Deeper(dep, n, m, d)
<1>0. n \in Nat \ {0} /\ m \in Nat /\ m >= 3
  BY BelowThen DEF Bracketed
<1>1. Len(ag2) = m + n - 1
  BY BelowThen
<1>2. \A r \in 1..(n - 1) : Below(ag2, r) = Below(ag, r)
  BY BelowThen
<1>3. \A k \in 1..m : Below(ag2, m + n - k) = pts[k]
  BY BelowThen
<1>4. Below(ag, n) = ag[1]
  BY <1>0, BelowFirst
<1>6. dep \in [Nat -> Nat] /\ dep[n] = d
  BY DEF Planned
<1>7. /\ \A r \in 2..n : dep[r - 1] = dep[r] + Delta(Below(ag, r))
      /\ \A r \in 1..n : PlannedAt(ag, r, dep)
  BY DEF Planned
<1>8. \A k \in 1..m :
        /\ pts[k].do = "stmt"
        /\ Leaves(pts[k]) => k < m /\ Resumes(pts[k + 1])
        /\ Delta(pts[k]) = IF k = 1 THEN 1 ELSE IF k = m - 1 THEN -1 ELSE 0
  BY DEF Bracketed
<1>9. /\ dep2 \in [Nat -> Nat]
      /\ \A r \in Nat : r < n => dep2[r] = dep[r]
      /\ \A r \in Nat : r >= n => dep2[r] >= d
      /\ \A r \in Nat : r > n /\ r < m + n - 1 => dep2[r] = d + 1
      /\ \A r \in Nat : r = n \/ (r > n /\ r >= m + n - 1) => dep2[r] = d
  <2>1. n \in Nat /\ m \in Nat
    BY <1>0
  <2> HIDE DEF n, m
  <2>2. dep \in [Nat -> Nat]
    BY <1>6
  <2>3. Deepens(dep, dep2, n, m, d)
    BY <2>1, <2>2, DeeperTyped
  <2> HIDE DEF dep2
  <2> QED
    BY <2>3 DEF Deepens
<1> HIDE DEF n, m, ag2, dep2
<1>10. n > 1 => dep2[n - 1] = d
  <2>1. n > 1 => n \in 2..n /\ n - 1 \in Nat /\ n - 1 < n
    BY <1>0
  <2>2. n > 1 => dep[n - 1] = dep[n] + Delta(Below(ag, n))
    BY <1>7, <2>1
  <2>3. dep[n] + Delta(Below(ag, n)) = d
    BY <1>4, <1>6
  <2> QED
    BY <1>9, <2>1, <2>2, <2>3
<1>11. ASSUME NEW r \in n..Len(ag2)
       PROVE  m + n - r \in 1..m /\ Below(ag2, r) = pts[m + n - r] /\ r \in Nat
  <2>1. m + n - r \in 1..m /\ m + n - (m + n - r) = r /\ r \in Nat /\ r >= n
    BY <1>0, <1>1
  <2> QED
    BY <1>3, <2>1
<1>12. ASSUME NEW r \in 2..Len(ag2) PROVE dep2[r - 1] = dep2[r] + Delta(Below(ag2, r))
  <2>1. r \in Nat /\ r - 1 \in Nat /\ (r < n \/ r = n \/ r > n)
    BY <1>0, <1>1
  <2>2. CASE r < n
    <3>1. r \in 2..n /\ r \in 1..(n - 1) /\ r - 1 < n
      BY <1>0, <2>2
    <3> QED
      BY <1>2, <1>7, <1>9, <2>1, <2>2, <3>1
  <2>3. CASE r = n
    <3>1. r \in n..Len(ag2) /\ m + n - r = m /\ m \in 1..m /\ m # 1 /\ m # m - 1 /\ n > 1
      BY <1>0, <1>1, <2>3
    <3>2. dep2[r] = d
      BY <1>9, <2>1, <2>3
    <3>3. Below(ag2, r) = pts[m]
      BY <1>11, <3>1
    <3>4. Delta(pts[m]) = 0
      BY <1>8, <3>1
    <3> QED
      BY <1>10, <2>3, <3>1, <3>2, <3>3, <3>4
  <2>4. CASE r > n
    <3> DEFINE k == m + n - r
    <3>1. r \in n..Len(ag2) /\ k \in 1..m /\ (k = 1 <=> r = m + n - 1) /\ (k = m - 1 <=> r = n + 1)
          /\ r <= m + n - 1
      <4>1. r \in Nat /\ r > n /\ r <= m + n - 1 /\ r \in n..Len(ag2)
        BY <1>0, <1>1, <2>4
      <4>2. k \in 1..m
        BY <1>0, <4>1
      <4>3. (k = 1 <=> r = m + n - 1) /\ (k = m - 1 <=> r = n + 1)
        BY <1>0, <4>1
      <4> QED
        BY <4>1, <4>2, <4>3
    <3>2. Delta(Below(ag2, r)) = IF k = 1 THEN 1 ELSE IF k = m - 1 THEN -1 ELSE 0
      BY <1>8, <1>11, <3>1
    <3> HIDE DEF k
    <3>3. CASE k = 1
      <4>1. dep2[r] = d /\ dep2[r - 1] = d + 1
        BY <1>0, <1>9, <2>1, <2>4, <3>1, <3>3
      <4> QED
        BY <3>2, <3>3, <4>1
    <3>4. CASE k = m - 1 /\ k # 1
      <4>1. dep2[r] = d + 1 /\ dep2[r - 1] = d
        BY <1>0, <1>9, <2>1, <2>4, <3>1, <3>4
      <4> QED
        BY <3>2, <3>4, <4>1
    <3>5. CASE k # m - 1 /\ k # 1
      <4>1. dep2[r] = d + 1 /\ dep2[r - 1] = d + 1
        BY <1>0, <1>9, <2>1, <2>4, <3>1, <3>5
      <4> QED
        BY <3>2, <3>5, <4>1
    <3> QED
      BY <3>3, <3>4, <3>5
  <2> QED
    BY <2>1, <2>2, <2>3, <2>4
<1>13. dep2[Len(ag2)] = d
  BY <1>0, <1>1, <1>9
<1>14. ASSUME NEW r \in 1..Len(ag2), r < n PROVE PlannedAt(ag2, r, dep2)
  <2>1. /\ r \in 1..n /\ r \in 1..(n - 1) /\ r \in Nat
        /\ r > 1 => r - 1 \in 1..(n - 1)
    BY <1>0, <1>14
  <2>2. /\ Below(ag2, r) = Below(ag, r) /\ dep2[r] = dep[r]
        /\ r > 1 => Below(ag2, r - 1) = Below(ag, r - 1)
    BY <1>2, <1>9, <1>14, <2>1
  <2>3. PlannedAt(ag, r, dep)
    BY <1>7, <2>1
  <2>4. ASSUME Below(ag2, r).do \in Joins, NEW q \in r..Len(ag2) PROVE dep2[q] >= dep2[r]
    <3>1. \A k \in r..n : dep[k] >= dep[r]
      BY <2>2, <2>3, <2>4 DEF PlannedAt, n
    <3>2. q \in Nat /\ (q < n => q \in r..n) /\ n \in r..n /\ (q < n \/ q >= n)
      BY <1>0, <1>14, <2>1
    <3>3. CASE q < n
      BY <1>9, <2>2, <3>1, <3>2, <3>3
    <3>4. CASE q >= n
      <4>1. dep2[q] \in Nat /\ dep2[q] >= d /\ d >= dep2[r] /\ dep2[r] \in Nat
        BY <1>6, <1>9, <2>1, <2>2, <3>1, <3>2, <3>4
      <4> QED
        BY <4>1
    <3> QED
      BY <3>2, <3>3, <3>4
  <2>5. ASSUME Below(ag2, r).do \in Closing, r < Len(ag2), Below(ag2, r + 1).do # "test"
        PROVE  dep2[r] = 0
    <3>1. r + 1 \in 1..(n - 1) \/ r + 1 = n
      BY <1>0, <1>14
    <3>2. CASE r + 1 \in 1..(n - 1)
      <4>1. Below(ag2, r + 1) = Below(ag, r + 1)
        BY <1>2, <3>2
      <4> QED
        BY <1>14, <2>2, <2>3, <2>5, <4>1 DEF PlannedAt, n
    <3>3. CASE r + 1 = n
      <4>1. Below(ag, r + 1).do # "test"
        BY <1>4, <3>3
      <4> QED
        BY <1>14, <2>2, <2>3, <2>5, <4>1 DEF PlannedAt, n
    <3> QED
      BY <3>1, <3>2, <3>3
  <2> QED
    BY <2>2, <2>3, <2>4, <2>5 DEF PlannedAt
<1>15. ASSUME NEW r \in n..Len(ag2) PROVE PlannedAt(ag2, r, dep2)
  <2> DEFINE k == m + n - r
  <2>1. k \in 1..m /\ Below(ag2, r) = pts[k]
    BY <1>11
  <2>2. k < m => r > 1 /\ Below(ag2, r - 1) = pts[k + 1]
    <3>1. k < m => k + 1 \in 1..m /\ m + n - (k + 1) = r - 1 /\ r > 1
      <4>1. r \in Int /\ r >= n /\ k \in Int /\ k >= 1
        BY <1>0, <1>1, <2>1
      <4> QED
        BY <1>0, <4>1
    <3> QED
      BY <1>3, <3>1
  <2> HIDE DEF k
  <2>3. pts[k].do = "stmt" /\ (Leaves(pts[k]) => k < m /\ Resumes(pts[k + 1]))
    BY <1>8, <2>1
  <2>4. /\ Below(ag2, r).do \notin Joins /\ Below(ag2, r).do \notin Closing
        /\ Below(ag2, r).do \notin {"auto", "finish"} /\ Below(ag2, r).do # "test"
    BY <2>1, <2>3, StatementPlain
  <2> QED
    BY <2>1, <2>2, <2>3, <2>4 DEF PlannedAt
<1>16. Planned(ag2, d, dep2)
  <2>1. ASSUME NEW r \in 1..Len(ag2) PROVE PlannedAt(ag2, r, dep2)
    <3>1. r < n \/ r \in n..Len(ag2)
      BY <1>0, <1>1
    <3> QED
      BY <1>14, <1>15, <3>1
  <2> QED
    BY <1>9, <1>12, <1>13, <2>1 DEF Planned
<1>17. Onwards(ag, ag2)
  <2>1. ASSUME NEW r \in (n + 1)..Len(ag2) PROVE Below(ag2, r).do \notin Joins
    <3>1. r \in n..Len(ag2)
      BY <1>0, <1>1
    <3> QED
      BY <1>8, <1>11, <3>1, StatementPlain
  <2>2. Len(ag2) \in Nat /\ Len(ag2) >= n - 1
    BY <1>0, <1>1
  <2> QED
    BY <1>0, <1>2, <2>1, <2>2 DEF Onwards, n
<1> QED
  BY <1>16, <1>17 DEF ag2, n, dep2, m

-----------------------------------------------------------------------------
\* What onError puts on the agenda.
LEMMA MarksAre ==
  /\ RegionBegin.kind = "region_begin" /\ RegionEnd.kind = "region_end"
  /\ \A e, body : If(e, body).kind = "if" /\ If(e, body).other = <<>> /\ If(e, body).body = body
                  /\ If(e, body).expr = e /\ If(e, body).upto = NoExpr
  /\ RegionBegin.body = <<>> /\ RegionBegin.other = <<>>
  /\ RegionBegin.expr = NoExpr /\ RegionBegin.upto = NoExpr
  /\ RegionEnd.body = <<>> /\ RegionEnd.other = <<>>
  /\ RegionEnd.expr = NoExpr /\ RegionEnd.upto = NoExpr
<1> QED
  BY DEF RegionBegin, RegionEnd, If, Stmt

LEMMA MarksTyped ==
  ASSUME LowerInv, agenda # <<>>
  PROVE  /\ RegionBegin \in Syntax /\ RegionEnd \in Syntax /\ If(TakeError, The.other) \in Syntax
         /\ The.body \in Seq(Syntax)
<1>1. The.body \in Seq(Statements) /\ The.other \in Seq(Statements)
  BY AgendaSplits DEF Syntax
<1>2. The.body \in Seq(Syntax)
  BY <1>1, StatementsTyped, SeqsGrow
<1>3. "" \in STRING
  BY NamesAssumption
<1>4. <<>> \in Seq(Statements)
  OBVIOUS
<1> QED
  BY <1>1, <1>2, <1>3, <1>4, ConditionsTyped DEF RegionBegin, RegionEnd, If, Stmt, Syntax, Kinds

LEMMA Around ==
  ASSUME NEW S, NEW a \in S, NEW c \in Seq(S), NEW x \in S, NEW y \in S
  PROVE  /\ <<a>> \o c \o <<x, y>> \in Seq(S) /\ Len(c) \in Nat
         /\ Len(<<a>> \o c \o <<x, y>>) = Len(c) + 3
         /\ (<<a>> \o c \o <<x, y>>)[1] = a
         /\ \A k \in 2..(Len(c) + 1) : (<<a>> \o c \o <<x, y>>)[k] = c[k - 1]
         /\ (<<a>> \o c \o <<x, y>>)[Len(c) + 2] = x
         /\ (<<a>> \o c \o <<x, y>>)[Len(c) + 3] = y
<1> DEFINE l == <<a>>
           t == <<x, y>>
           s == l \o c
<1>1. l \in Seq(S) /\ t \in Seq(S) /\ Len(l) = 1 /\ Len(t) = 2 /\ l[1] = a /\ t[1] = x /\ t[2] = y
      /\ Len(c) \in Nat
  OBVIOUS
<1> HIDE DEF l, t
<1>2. /\ s \in Seq(S) /\ Len(s) = 1 + Len(c) /\ \A k \in 1..1 : s[k] = l[k]
      /\ \A k \in 1..Len(c) : s[1 + k] = c[k]
  <2> HIDE DEF s
  <2>1. /\ Len(s) = Len(l) + Len(c) /\ s \in Seq(S)
        /\ \A k \in 1..Len(l) : s[k] = l[k]
        /\ \A k \in 1..Len(c) : s[Len(l) + k] = c[k]
    <3>1. l \in Seq(S)
      BY <1>1
    <3> QED
      BY <3>1, JoinParts DEF s
  <2> HIDE DEF s
  <2> QED
    BY <1>1, <2>1
<1> HIDE DEF s
<1>3. /\ s \o t \in Seq(S) /\ Len(s \o t) = Len(s) + 2 /\ \A k \in 1..Len(s) : (s \o t)[k] = s[k]
      /\ \A k \in 1..2 : (s \o t)[Len(s) + k] = t[k]
  <2>1. /\ Len(s \o t) = Len(s) + Len(t) /\ s \o t \in Seq(S)
        /\ \A k \in 1..Len(s) : (s \o t)[k] = s[k]
        /\ \A k \in 1..Len(t) : (s \o t)[Len(s) + k] = t[k]
    <3>1. s \in Seq(S) /\ t \in Seq(S)
      BY <1>1, <1>2
    <3> QED
      BY <3>1, JoinParts
  <2> QED
    BY <1>1, <2>1
<1> DEFINE z == s \o t
<1>4. z \in Seq(S) /\ Len(z) = Len(c) + 3
  BY <1>1, <1>2, <1>3
<1>5. z[1] = a
  BY <1>1, <1>2, <1>3
<1>6. ASSUME NEW k \in 2..(Len(c) + 1) PROVE z[k] = c[k - 1]
  <2>1. k \in 1..Len(s) /\ k - 1 \in 1..Len(c) /\ 1 + (k - 1) = k
    BY <1>1, <1>2
  <2>2. z[k] = s[k]
    BY <1>3, <2>1
  <2>3. s[1 + (k - 1)] = c[k - 1]
    BY <1>2, <2>1
  <2> QED
    BY <2>1, <2>2, <2>3
<1>7. z[Len(c) + 2] = x /\ z[Len(c) + 3] = y
  <2>1. Len(s) + 1 = Len(c) + 2 /\ Len(s) + 2 = Len(c) + 3
    BY <1>1, <1>2
  <2>2. z[Len(s) + 1] = t[1] /\ z[Len(s) + 2] = t[2]
    BY <1>3
  <2> QED
    BY <1>1, <2>1, <2>2
<1> QED
  BY <1>1, <1>4, <1>5, <1>6, <1>7 DEF s, l, t

LEMMA PointsAre ==
  ASSUME NEW body \in Seq(Syntax)
  PROVE  /\ Len(Points(body)) = Len(body) /\ Points(body) \in Seq(Tasks)
         /\ \A k \in 1..Len(body) : Points(body)[k].do = "stmt" /\ Points(body)[k].s = body[k]
<1>1. Points(body) \in Seq(Tasks)
  BY PointsPlain
<1>2. DOMAIN body = 1..Len(body) /\ Len(body) \in Nat
  OBVIOUS
<1>3. DOMAIN Points(body) = 1..Len(body)
      /\ \A k \in 1..Len(body) : Points(body)[k] = Point("stmt", body[k], <<>>)
  BY <1>2 DEF Points
<1> HIDE DEF Points
<1>4. Len(Points(body)) = Len(body)
  BY <1>1, <1>2, <1>3
<1> QED
  BY <1>1, <1>3, <1>4 DEF Point

LEMMA GuardBracketed ==
  ASSUME LowerInv, Fitting, agenda # <<>>
  PROVE  LET pts == Points(<<RegionBegin>> \o The.body \o <<RegionEnd, If(TakeError, The.other)>>)
         IN Bracketed(pts) /\ pts \in Seq(Tasks) /\ pts[1].do = "stmt" /\ pts # <<>>
<1> DEFINE c == The.body
           test == If(TakeError, The.other)
           all == <<RegionBegin>> \o c \o <<RegionEnd, test>>
           m == Len(c)
           pts == Points(all)
<1>1. /\ c \in Seq(Syntax) /\ Live(c) /\ \A s \in Range(c) : s.kind \in Kinds
  BY BodiesTyped
<1>2. RegionBegin \in Syntax /\ RegionEnd \in Syntax /\ test \in Syntax
  BY MarksTyped
<1>3. /\ RegionBegin.kind = "region_begin" /\ RegionEnd.kind = "region_end" /\ test.kind = "if"
  BY MarksAre
<1> HIDE DEF c, test
<1>4. /\ all \in Seq(Syntax) /\ m \in Nat /\ Len(all) = m + 3 /\ all[1] = RegionBegin
      /\ \A k \in 2..(m + 1) : all[k] = c[k - 1]
      /\ all[m + 2] = RegionEnd /\ all[m + 3] = test
  BY <1>1, <1>2, Around
<1>5. \A k \in 1..m : c[k] \in Range(c) /\ c[k].kind \in Kinds
  BY <1>1 DEF Range
<1>6. \A k \in 1..(m - 1) : c[k].kind \notin Quits
  BY <1>1 DEF Live
<1> HIDE DEF m, all
<1>7. /\ Len(pts) = m + 3 /\ pts \in Seq(Tasks)
      /\ \A k \in 1..(m + 3) : pts[k].do = "stmt" /\ pts[k].s = all[k]
  BY <1>4, PointsAre
<1> HIDE DEF pts
<1>8. ASSUME NEW k \in 1..(m + 3)
      PROVE  /\ Leaves(pts[k]) => k < m + 3 /\ Resumes(pts[k + 1])
             /\ Delta(pts[k]) = IF k = 1 THEN 1 ELSE IF k = m + 2 THEN -1 ELSE 0
  <2>1. k = 1 \/ k \in 2..(m + 1) \/ k = m + 2 \/ k = m + 3
    BY <1>4
  <2>2. CASE k = 1
    <3>1. Delta(pts[k]) = 1 /\ ~Leaves(pts[k])
      BY <1>3, <1>4, <1>7, <2>2 DEF Delta, Leaves, Quits
    <3> QED
      BY <2>2, <3>1
  <2>3. CASE k \in 2..(m + 1)
    <3>1. k - 1 \in 1..m /\ all[k] = c[k - 1] /\ k # 1 /\ k # m + 2 /\ k < m + 3
      BY <1>4, <2>3
    <3>2. c[k - 1].kind \in Kinds
      BY <1>5, <3>1
    <3>3. Delta(pts[k]) = 0
      BY <1>7, <3>1, <3>2 DEF Delta, Kinds
    <3>4. ASSUME Leaves(pts[k]) PROVE Resumes(pts[k + 1])
      <4>1. c[k - 1].kind \in Quits
        BY <1>7, <3>1, <3>4 DEF Leaves
      <4>2. k - 1 \notin 1..(m - 1)
        BY <1>6, <4>1
      <4>3. k + 1 = m + 2 /\ k + 1 \in 1..(m + 3)
        BY <1>4, <3>1, <4>2
      <4> QED
        BY <1>3, <1>4, <1>7, <4>3 DEF Resumes
    <3> QED
      BY <3>1, <3>3, <3>4
  <2>4. CASE k = m + 2
    <3>1. Delta(pts[k]) = -1 /\ ~Leaves(pts[k])
      BY <1>3, <1>4, <1>7, <2>4 DEF Delta, Leaves, Quits
    <3>2. k # 1
      BY <1>4, <2>4
    <3> QED
      BY <2>4, <3>1, <3>2
  <2>5. CASE k = m + 3
    <3>1. Delta(pts[k]) = 0 /\ ~Leaves(pts[k])
      BY <1>3, <1>4, <1>7, <2>5 DEF Delta, Leaves, Quits
    <3>2. k # 1 /\ k # m + 2
      BY <1>4, <2>5
    <3> QED
      BY <3>1, <3>2
  <2> QED
    BY <2>1, <2>2, <2>3, <2>4, <2>5
<1>9. /\ Len(pts) \in Nat /\ Len(pts) >= 3 /\ Len(pts) - 1 = m + 2 /\ 1 \in 1..(m + 3)
  BY <1>4, <1>7
<1>10. Bracketed(pts)
  BY <1>7, <1>8, <1>9 DEF Bracketed
<1>11. pts # <<>>
  BY <1>7, <1>9, EmptySeq
<1> QED
  BY <1>7, <1>9, <1>10, <1>11 DEF pts, all, c, test

\* onError: what is guarded, and the handler.
LEMMA OnErrorPaced == ASSUME LowerInv, Fitting, Balanced, BuildOnError PROVE Balanced'
<1> DEFINE pts == Points(<<RegionBegin>> \o The.body \o <<RegionEnd, If(TakeError, The.other)>>)
           n == Len(agenda)
           m == Len(pts)
           d == Len(regions)
           ag2 == After(agenda, pts)
           T == Touched(agenda, current)
<1>1. /\ On("onError") /\ agenda # <<>> /\ "onError" \in Kinds /\ Then(pts)
      /\ UNCHANGED <<current, blocks, nextBlock, loops, regions>>
  BY DEF BuildOnError, On, Doing, Kinds
<1>2. PICK D, M, dep, L : Here(D, M, dep, L)
  BY DEF Balanced
<1>3. agenda[1].do = "stmt" /\ agenda[1].s.kind \in Kinds
  BY <1>1, HeadOn
<1>4. /\ Delta(agenda[1]) = 0 /\ ~Resumes(agenda[1]) /\ agenda[1].do # "test"
      /\ agenda[1].do \notin LoopEnds
  BY <1>3, PlainHead
<1>5. Bracketed(pts) /\ pts \in Seq(Tasks) /\ pts[1].do = "stmt" /\ pts # <<>>
  BY <1>1, GuardBracketed
<1>6. agenda' = ag2
  BY <1>1 DEF Then, After
<1> HIDE DEF pts
<1>7. /\ agenda \in Seq(Tasks) /\ n \in Nat \ {0} /\ Len(loops) \in Nat /\ d \in Nat
      /\ Levels(blocks, D, M) /\ Planned(agenda, d, dep)
      /\ current \in DOMAIN blocks \cup {NoBlock}
  BY <1>1, <1>2, HereTyped
<1>8. /\ Held(agenda, current, blocks, D, M, dep) /\ Kept(agenda, current, blocks, regions, D, M)
      /\ Looped(agenda, loops, regions, D, dep, L) /\ DOMAIN D = 0..(nextBlock - 1)
      /\ Poised(agenda, current, blocks, d, M)
  BY <1>2 DEF Here, Paced
<1> DEFINE dep2 == Deeper(dep, n, m, d)
<1>9. Planned(ag2, d, dep2) /\ Onwards(agenda, ag2)
  BY <1>1, <1>4, <1>5, <1>7, PlannedBracketed
<1>10. m \in Nat /\ m >= 3 /\ \A k \in 1..m : pts[k].do = "stmt"
  BY <1>5 DEF Bracketed
<1>11. /\ Len(ag2) = m + n - 1
       /\ \A k \in 1..m : Below(ag2, m + n - k) = pts[k] /\ ag2[k] = pts[k]
  BY <1>1, <1>5, <1>7, BelowThen
<1>12. \A r \in 1..(n - 1) : dep2[r] = dep[r]
  <2>1. dep \in [Nat -> Nat]
    BY <1>7 DEF Planned
  <2> HIDE DEF n, m, d
  <2>2. Deepens(dep, dep2, n, m, d)
    BY <1>7, <1>10, <2>1, DeeperTyped
  <2>3. \A r \in 1..(n - 1) : r \in Nat /\ r < n
    BY <1>7
  <2> QED
    BY <2>2, <2>3 DEF Deepens
<1>13. current \in T /\ Becomes(blocks, D, M, T, blocks, D, M) /\ Extends(D, D)
  BY <1>7, BecomesItself DEF Touched, Extends
<1> HIDE DEF dep2, n, m, ag2, d
<1>14. \A r \in n..Len(ag2) : Below(ag2, r).do \notin Joins /\ Below(ag2, r).do \notin LoopEnds
  <2> SUFFICES ASSUME NEW r \in n..Len(ag2)
               PROVE  Below(ag2, r).do \notin Joins /\ Below(ag2, r).do \notin LoopEnds
    OBVIOUS
  <2>1. m + n - r \in 1..m /\ m + n - (m + n - r) = r
    BY <1>7, <1>10, <1>11
  <2>2. Below(ag2, r).do = "stmt"
    BY <1>10, <1>11, <2>1
  <2> QED
    BY <2>2, StatementPlain
<1>15. n \in n..Len(ag2) /\ Len(ag2) >= n /\ Len(ag2) \in Nat
  BY <1>7, <1>10, <1>11
<1>16. /\ HeldAt(ag2, n, current, blocks, D, M, dep2)
       /\ Owned(Below(ag2, n)) = {}
  BY <1>14, <1>15, PlainHeld
<1>17. Held(ag2, current, blocks, D, M, dep2)
  <2>1. \A r \in 1..(n - 1) : Owned(Below(agenda, r)) \cap T = {}
    BY <1>7, <1>8, Untouched DEF n
  <2>2. \A r \in n..Len(ag2) : Below(ag2, r).do \notin Joins
    BY <1>14
  <2>3. Becomes(blocks, D, M, T, blocks, D, M)
    BY <1>13
  <2> HIDE DEF T
  <2> QED
    BY <1>8, <1>9, <1>12, <1>13, <1>16, <2>1, <2>2, <2>3, HoldsOn DEF n
<1>18. Kept(ag2, current, blocks, regions, D, M)
  <2>1. \A j \in 1..Len(regions) : regions[j].exit \notin T
    BY <1>7, <1>8, UntouchedExits DEF n
  <2> HIDE DEF T
  <2> QED
    BY <1>8, <1>9, <1>13, <1>16, <2>1, KeepsOn DEF n
<1>19. Looped(ag2, loops, regions, D, dep2, L)
  <2>1. Below(ag2, n).do \notin LoopEnds
    BY <1>14, <1>15
  <2>2. \A r \in 1..(Len(agenda) - 1) : dep2[r] = dep[r]
    BY <1>12 DEF n
  <2>3. Below(ag2, Len(agenda)).do \notin LoopEnds
    BY <2>1 DEF n
  <2>4. Len(regions) \in Nat /\ Planned(agenda, Len(regions), dep)
    BY <1>7 DEF d
  <2> QED
    BY <1>1, <1>4, <1>7, <1>8, <1>9, <1>13, <2>2, <2>3, <2>4, LoopsOn
<1>20. Poised(ag2, current, blocks, d, M)
  <2>1. ag2[1] = pts[1] /\ ag2[1].do = "stmt" /\ ag2[1].do \notin Closing
    <3>1. 1 \in 1..m
      BY <1>10
    <3>2. ag2[1] = pts[1]
      BY <1>11, <3>1
    <3> QED
      BY <1>5, <3>2, StatementPlain
  <2>2. current # NoBlock => M[current] = d
    BY <1>1, <1>2, <1>3, PlainLevel DEF d
  <2>3. current # NoBlock /\ d # 0 => ~Ended(blocks, current)
    BY <1>1, <1>3, <1>4, <1>8 DEF Poised
  <2> QED
    BY <2>1, <2>2, <2>3 DEF Poised, Level
<1>21. Paced(ag2, current, blocks, nextBlock, loops, regions, D, M, dep2, L)
  BY <1>7, <1>8, <1>9, <1>17, <1>18, <1>19, <1>20 DEF Paced, d
<1> QED
  BY <1>1, <1>6, <1>21 DEF Balanced, Here

-----------------------------------------------------------------------------
\* A region begins: its blocks, which are in one region more.
RegionBlocks(bs, D, M, T, cs, E, N, nb, d, cur) ==
  /\ Becomes(bs, D, M, T, cs, E, N)
  /\ DOMAIN E = 0..(nb + 4) /\ Extends(E, D)
  /\ cur \in DOMAIN bs => Ended(cs, cur)
  /\ \A x \in {nb + 3, nb + 4} :
       /\ x \notin DOMAIN D /\ x \in DOMAIN E /\ E[x] = d + 1 /\ N[x] = d + 1
       /\ x \in DOMAIN cs /\ ~Ended(cs, x)

LEMMA EntersRegion ==
  ASSUME LowerInv, NEW D, NEW M, NEW dep, NEW L, Here(D, M, dep, L), agenda # <<>>,
         BeginRegion
  PROVE  \E E, N : RegionBlocks(blocks, D, M, Touched(agenda, current), blocks', E, N, nextBlock,
                                Len(regions), current)
<1> DEFINE first == nextValue
           once == nextValue + 1
           header == nextBlock
           pre == nextBlock + 1
           back == nextBlock + 2
           body == nextBlock + 3
           exit == nextBlock + 4
           nb2 == nextBlock + 5
           ids == header..exit
           reserved == Reserve(blocks, ids)
           enter == Runtime("__err_enter", NoValue)
           copy == <<Copy(first, Constant(Integer(1)))>>
           code == enter \o copy
           entered == Close(reserved, current, code, Jump(header))
           ahead == Branch(Value(first), pre, exit)
           headed == End(entered, header, ahead)
           turn == <<Copy(once, Value(first)), Copy(first, Constant(Integer(0)))>>
           within == Branch(Value(once), body, back)
           guarded == Close(headed, pre, turn, within)
           T == Touched(agenda, current)
           d == Len(regions)
           v == Len(regions) + 1
           E == Wider(D, nextBlock, nb2, v)
           N0 == Wider(M, nextBlock, nb2, v)
<1>1. /\ Doing("stmt") /\ The.kind = "region_begin" /\ blocks' = End(guarded, back, Jump(header))
  BY DEF BeginRegion, On
<1>2. /\ current \in DOMAIN blocks \cup {NoBlock} /\ Levels(blocks, D, M)
      /\ agenda \in Seq(Tasks) /\ nextBlock \in Nat /\ d \in Nat
      /\ DOMAIN D = 0..(nextBlock - 1) /\ NoBlock \notin DOMAIN blocks
      /\ DOMAIN blocks \subseteq DOMAIN D /\ The = agenda[1].s
  BY HereTyped
<1>3. agenda[1].do = "stmt" /\ agenda[1].s.kind = "region_begin"
  BY <1>1, <1>2, DoingHead
<1>4. current # NoBlock => M[current] = d
  <2>1. ~Resumes(agenda[1]) /\ agenda[1].do \notin Closing
    BY <1>3 DEF Resumes, Closing
  <2> QED
    BY <2>1, CurrentLevel DEF Level
<1>5. first \in Nat \ {0} /\ once \in Nat \ {0}
  BY DEF LowerInv, Numbered
<1> HIDE DEF first, once
<1>6. /\ Value(first) \in Operand /\ Value(once) \in Operand
      /\ Constant(Integer(0)) \in Operand /\ Constant(Integer(1)) \in Operand
  BY <1>5, OperandsTyped, ConstantsTyped
<1>7. \A F, k : copy \in Seq(Even(F, k)) /\ turn \in Seq(Even(F, k))
  <2> SUFFICES ASSUME NEW F, NEW k PROVE copy \in Seq(Even(F, k)) /\ turn \in Seq(Even(F, k))
    OBVIOUS
  <2>1. "le" \in STRING
    BY NamesAssumption
  <2>2. /\ Copy(first, Constant(Integer(1))) \in Even(F, k)
        /\ Copy(first, Constant(Integer(0))) \in Even(F, k)
        /\ Copy(once, Value(first)) \in Even(F, k)
    BY <1>5, <1>6, <2>1, EvenPlain
  <2> QED
    BY <2>2, Single, Pair
<1>8. enter \in Seq(Sound)
  <2>1. "__err_enter" \in STRING /\ NoValue \in Nat
    BY NamesAssumption DEF NoValue
  <2> QED
    BY <2>1, RuntimeSound
<1> HIDE DEF copy, turn
<1>9. v \in Int /\ v = d + 1 /\ nb2 \in Nat /\ nextBlock <= nb2 /\ ids \subseteq nextBlock..(nb2 - 1)
      /\ 0..(nb2 - 1) = 0..(nextBlock + 4)
  BY <1>2
<1>10. /\ header \in ids /\ pre \in ids /\ back \in ids /\ body \in ids /\ exit \in ids
       /\ header # pre /\ header # back /\ pre # back
       /\ body \notin {header, pre, back} /\ exit \notin {header, pre, back}
       /\ header \in Int /\ pre \in Int /\ back \in Int /\ body \in Int /\ exit \in Int
  BY <1>2
<1>11. DOMAIN D = 0..(header - 1) /\ \A x \in {nextBlock + 3, nextBlock + 4} : x \in {body, exit}
  BY <1>2
<1> HIDE DEF header, pre, back, body, exit, v, d, ids, nb2
<1>12. Becomes(blocks, D, M, T, reserved, E, N0)
       /\ Broadens(blocks, D, M, nextBlock, nb2, v, E, N0)
  BY <1>2, <1>9, ReservesWide
<1>13. /\ DOMAIN E = 0..(nb2 - 1) /\ Extends(E, D)
       /\ \A x \in nextBlock..(nb2 - 1) :
            x \in DOMAIN E /\ x \notin DOMAIN D /\ x \notin DOMAIN blocks /\ E[x] = v /\ N0[x] = v
       /\ \A x \in DOMAIN D : x \in DOMAIN E /\ E[x] = D[x] /\ N0[x] = M[x]
  <2> HIDE DEF E, N0
  <2> QED
    BY <1>12 DEF Broadens
<1> HIDE DEF E, N0
<1>14. \A x \in ids : x \in DOMAIN E /\ x \notin DOMAIN D /\ x \notin DOMAIN blocks
                      /\ E[x] = v /\ N0[x] = v
  BY <1>9, <1>13
<1>15. current \in T /\ current \notin ids
  <2>1. NoBlock \notin ids
    BY <1>2, <1>9, Numbers DEF ids, header, exit
  <2> QED
    BY <1>2, <1>14, <2>1 DEF Touched
<1>16. /\ ahead \in Terminator /\ ahead.kind = "branch" /\ Targets(ahead) = {pre, exit}
       /\ within \in Terminator /\ within.kind = "branch" /\ Targets(within) = {body, back}
       /\ Jump(header) \in Terminator /\ Jump(header).kind = "jump"
       /\ Targets(Jump(header)) = {header}
  <2>1. /\ ahead \in Terminator /\ Targets(ahead) = {pre, exit}
        /\ within \in Terminator /\ Targets(within) = {body, back}
    BY <1>6, <1>10, BranchTyped
  <2> QED
    BY <1>10, <2>1, TermsTyped DEF Branch, Jump, Term
<1>17. /\ DOMAIN reserved = DOMAIN blocks \cup ids
       /\ \A c \in ids : reserved[c].term = Unreachable
  <2>1. DOMAIN reserved = DOMAIN blocks \cup ids
    BY ReserveFrames
  <2>2. \A c \in ids : reserved[c].term = Unreachable
    BY ReservedTerms
  <2> QED
    BY <2>1, <2>2
<1>18. reserved \in [DOMAIN reserved -> SoundBlock] /\ NoBlock \notin DOMAIN reserved
  BY <1>12 DEF Becomes, Levels
<1> HIDE DEF T, ahead, within, reserved
<1>19. /\ Leads(Jump(header), E, v) /\ Leads(ahead, E, v) /\ Leads(within, E, v)
  BY <1>10, <1>14, <1>16 DEF Leads
<1>20. \E N : Becomes(blocks, D, M, T, entered, E, N) /\ \A x \in ids : N[x] = v
  <2>1. CASE current = NoBlock
    <3>1. entered = reserved
      BY <2>1 DEF Close, Emit, End
    <3> QED
      BY <1>12, <1>14, <3>1
  <2>2. CASE current # NoBlock
    <3>1. N0[current] = d /\ d \in Int /\ current \in DOMAIN reserved
      BY <1>2, <1>4, <1>13, <1>17, <2>2
    <3>2. Walk(enter, E, d, d + 1)
      BY <3>1, WalkIn
    <3>3. copy \in Seq(Even(E, v)) /\ Walk(copy, E, v, v)
      BY <1>7, <1>9, WalkEven
    <3>4. copy \in Seq(Sound)
      BY <3>3, SoundEven
    <3> HIDE DEF enter
    <3>5. Walk(code, E, N0[current], v) /\ code \in Seq(Sound)
      BY <1>8, <1>9, <3>1, <3>2, <3>3, <3>4, WalkOn
    <3> DEFINE N == [N0 EXCEPT ![current] = v]
    <3> HIDE DEF code
    <3>6. Becomes(blocks, D, M, T, entered, E, N)
      BY <1>9, <1>12, <1>15, <1>16, <1>19, <3>1, <3>5, BecomesClosed
    <3>7. \A x \in ids : N[x] = v
      BY <1>14, <1>15
    <3> HIDE DEF N
    <3> QED
      BY <3>6, <3>7
  <2> QED
    BY <2>1, <2>2
<1>21. PICK N : Becomes(blocks, D, M, T, entered, E, N) /\ \A x \in ids : N[x] = v
  BY <1>20
<1> HIDE DEF code
<1>22. /\ DOMAIN entered = DOMAIN reserved
       /\ \A c \in DOMAIN reserved \ {current} : entered[c].term = reserved[c].term
       /\ current # NoBlock => entered[current].term = Jump(header)
  <2>1. current \in DOMAIN reserved \cup {NoBlock}
    BY <1>2, <1>17
  <2> QED
    BY <1>18, <2>1, CloseTerms
<1>23. entered \in [DOMAIN entered -> SoundBlock] /\ NoBlock \notin DOMAIN entered
  BY <1>21 DEF Becomes, Levels
<1>24. /\ \A c \in ids : c \in DOMAIN entered /\ entered[c].term = Unreachable /\ ~Ended(entered, c)
       /\ current \in DOMAIN blocks => current \in DOMAIN entered \ ids /\ entered[current].term = Jump(header)
  <2>1. \A c \in ids : c \in DOMAIN entered /\ entered[c].term = Unreachable
    BY <1>15, <1>17, <1>22
  <2> QED
    BY <1>2, <1>15, <1>17, <1>22, <2>1, OpenTerms
<1> HIDE DEF entered
<1>25. Becomes(blocks, D, M, T, headed, E, N)
  <2>1. header \in DOMAIN entered /\ header \notin DOMAIN D /\ N[header] = v
    BY <1>10, <1>14, <1>21, <1>24
  <2> QED
    BY <1>16, <1>19, <1>21, <2>1, BecomesEnded
<1>26. /\ DOMAIN headed = DOMAIN entered
       /\ \A c \in DOMAIN entered \ {header} : headed[c].term = entered[c].term
  BY <1>10, <1>23, <1>24, EndTerms
<1>27. headed \in [DOMAIN headed -> SoundBlock] /\ NoBlock \notin DOMAIN headed
  BY <1>25 DEF Becomes, Levels
<1> HIDE DEF headed
<1>28. Becomes(blocks, D, M, T, guarded, E, N)
  <2>1. pre \in DOMAIN headed /\ pre \notin DOMAIN D /\ N[pre] = v
    BY <1>10, <1>14, <1>21, <1>24, <1>26
  <2>2. turn \in Seq(Even(E, N[pre])) /\ Leads(within, E, N[pre])
    BY <1>7, <1>19, <2>1
  <2> QED
    BY <1>16, <1>25, <2>1, <2>2, BecomesEvenClosed
<1>29. /\ DOMAIN guarded = DOMAIN headed
       /\ \A c \in DOMAIN headed \ {pre} : guarded[c].term = headed[c].term
  BY <1>10, <1>24, <1>26, <1>27, CloseTerms
<1>30. guarded \in [DOMAIN guarded -> SoundBlock] /\ NoBlock \notin DOMAIN guarded
  BY <1>28 DEF Becomes, Levels
<1> HIDE DEF guarded
<1>31. Becomes(blocks, D, M, T, blocks', E, N)
  <2>1. back \in DOMAIN guarded /\ back \notin DOMAIN D /\ N[back] = v
    BY <1>10, <1>14, <1>21, <1>24, <1>26, <1>29
  <2> QED
    BY <1>1, <1>16, <1>19, <1>28, <2>1, BecomesEnded
<1>32. /\ DOMAIN blocks' = DOMAIN guarded
       /\ \A c \in DOMAIN guarded \ {back} : blocks'[c].term = guarded[c].term
  BY <1>1, <1>10, <1>24, <1>26, <1>29, <1>30, EndTerms
<1>33. \A c \in DOMAIN entered \ {header, pre, back} :
         c \in DOMAIN blocks' /\ blocks'[c].term = entered[c].term
  BY <1>26, <1>29, <1>32
<1>34. \A c \in {body, exit} : c \in DOMAIN blocks' /\ ~Ended(blocks', c)
                               /\ c \notin DOMAIN D /\ c \in DOMAIN E /\ E[c] = v /\ N[c] = v
  <2>1. \A c \in {body, exit} : c \in ids /\ c \in DOMAIN entered \ {header, pre, back}
    BY <1>10, <1>24
  <2>2. \A c \in {body, exit} : c \in DOMAIN blocks' /\ blocks'[c].term = Unreachable
    BY <1>24, <1>33, <2>1
  <2> QED
    BY <1>14, <1>21, <2>1, <2>2, OpenTerms
<1>35. current \in DOMAIN blocks => Ended(blocks', current)
  <2>1. current \in DOMAIN blocks => current \in DOMAIN entered \ {header, pre, back}
    BY <1>10, <1>24
  <2> QED
    BY <1>24, <1>33, <2>1, OpenTerms
<1>36. RegionBlocks(blocks, D, M, T, blocks', E, N, nextBlock, d, current)
  <2>1. DOMAIN E = 0..(nextBlock + 4)
    BY <1>9, <1>13
  <2>2. \A x \in {nextBlock + 3, nextBlock + 4} :
          /\ x \notin DOMAIN D /\ x \in DOMAIN E /\ E[x] = d + 1 /\ N[x] = d + 1
          /\ x \in DOMAIN blocks' /\ ~Ended(blocks', x)
    BY <1>9, <1>11, <1>34
  <2> QED
    BY <1>13, <1>31, <1>35, <2>1, <2>2 DEF RegionBlocks
<1> QED
  BY <1>36 DEF T, d

LEMMA BeginRegionPaced == ASSUME LowerInv, Balanced, BeginRegion PROVE Balanced'
<1> DEFINE n == Len(agenda)
           d == Len(regions)
           ag2 == After(agenda, <<>>)
           T == Touched(agenda, current)
           body == nextBlock + 3
           exit == nextBlock + 4
           rg2 == Append(regions, [exit |-> exit, depth |-> Len(loops)])
<1>1. /\ Doing("stmt") /\ The.kind = "region_begin" /\ agenda # <<>> /\ Then(<<>>)
      /\ current' = body /\ regions' = rg2 /\ nextBlock' = nextBlock + 5
      /\ UNCHANGED loops
  BY DEF BeginRegion, On, Doing
<1>2. PICK D, M, dep, L : Here(D, M, dep, L)
  BY DEF Balanced
<1>3. /\ agenda \in Seq(Tasks) /\ n \in Nat \ {0} /\ Len(loops) \in Nat /\ d \in Nat
      /\ Levels(blocks, D, M) /\ Planned(agenda, d, dep)
      /\ current \in DOMAIN blocks \cup {NoBlock} /\ NoBlock \notin DOMAIN blocks
      /\ nextBlock \in Nat /\ The = agenda[1].s
  BY <1>1, <1>2, HereTyped
<1>4. agenda[1].do = "stmt" /\ agenda[1].s.kind = "region_begin"
  BY <1>1, <1>3, DoingHead
<1>5. /\ Delta(agenda[1]) = 1 /\ ~Resumes(agenda[1]) /\ agenda[1].do \notin Closing
      /\ agenda[1].do # "return_end" /\ agenda[1].do \notin LoopEnds
  BY <1>4, StatementPlain DEF Delta, Resumes
<1>6. /\ Held(agenda, current, blocks, D, M, dep) /\ Kept(agenda, current, blocks, regions, D, M)
      /\ Looped(agenda, loops, regions, D, dep, L)
  BY <1>2 DEF Here, Paced
<1>7. \E E, N : RegionBlocks(blocks, D, M, T, blocks', E, N, nextBlock, d, current)
  BY <1>1, <1>2, EntersRegion
<1>8. PICK E, N : RegionBlocks(blocks, D, M, T, blocks', E, N, nextBlock, d, current)
  BY <1>7
<1>9. /\ Becomes(blocks, D, M, T, blocks', E, N)
      /\ DOMAIN E = 0..(nextBlock + 4) /\ Extends(E, D) /\ Levels(blocks', E, N)
      /\ current \in DOMAIN blocks => Ended(blocks', current)
      /\ \A x \in {body, exit} :
           /\ x \notin DOMAIN D /\ x \in DOMAIN E /\ E[x] = d + 1 /\ N[x] = d + 1
           /\ x \in DOMAIN blocks' /\ ~Ended(blocks', x)
  BY <1>8 DEF RegionBlocks, Becomes
<1>10. /\ regions \in Seq([exit : DOMAIN blocks, depth : Nat])
  BY DEF LowerInv, Nested
<1>11. /\ Len(rg2) = d + 1 /\ rg2[d + 1].exit = exit /\ rg2[d + 1].depth = Len(loops)
       /\ \A j \in 1..d : rg2[j] = regions[j]
  BY <1>10
<1>12. /\ Planned(ag2, d + 1, dep) /\ Onwards(agenda, ag2)
       /\ Len(ag2) = n - 1 /\ \A r \in 1..(n - 1) : Below(ag2, r) = Below(agenda, r)
  <2>1. d \in Int /\ d + 1 = d + Delta(agenda[1])
    BY <1>3, <1>5
  <2>2. Planned(ag2, d + 1, dep) /\ Onwards(agenda, ag2)
    BY <1>1, <1>3, <2>1, PlannedPop
  <2> QED
    BY <1>1, <1>3, <2>2, BelowPop
<1>13. ~(Len(ag2) >= n)
  BY <1>3, <1>12
<1>14. body # exit /\ DOMAIN E = 0..(nextBlock' - 1)
  BY <1>1, <1>3, <1>9
<1>15. \A r \in 1..(n - 1) : Owned(Below(agenda, r)) \cap T = {} /\ Owned(Below(agenda, r)) \subseteq DOMAIN D
  BY <1>3, <1>6, Untouched
<1>16. \A j \in 1..d : regions[j].exit \notin T
  BY <1>3, <1>6, UntouchedExits
<1> HIDE DEF n, d, ag2, T, body, exit, rg2
<1>17. Held(ag2, body, blocks', E, N, dep)
  <2>1. body \notin DOMAIN D
    BY <1>9
  <2>2. current \notin DOMAIN blocks \/ Ended(blocks', current)
    BY <1>9
  <2> QED
    BY <1>6, <1>9, <1>12, <1>13, <1>15, <2>1, <2>2, HoldsOn DEF n
<1>18. KeptAt(ag2, d + 1, exit, body, blocks', E, N)
  <2>1. \A r \in 1..Len(ag2) : exit \notin Owned(Below(ag2, r))
    BY <1>9, <1>12, <1>15
  <2> QED
    BY <1>9, <1>14, <2>1 DEF KeptAt
<1>19. Kept(ag2, body, blocks', rg2, E, N)
  <2>1. \A j \in 1..Len(rg2) :
          \/ (j \in 1..Len(regions) /\ rg2[j] = regions[j] /\ regions[j].exit \notin T)
          \/ KeptAt(ag2, j, rg2[j].exit, body, blocks', E, N)
    <3>1. ASSUME NEW j \in 1..Len(rg2)
          PROVE  \/ (j \in 1..d /\ rg2[j] = regions[j] /\ regions[j].exit \notin T)
                 \/ KeptAt(ag2, j, rg2[j].exit, body, blocks', E, N)
      <4>1. j \in 1..d \/ j = d + 1
        BY <1>3, <1>11
      <4> QED
        BY <1>11, <1>16, <1>18, <4>1
    <3> QED
      BY <3>1 DEF d
  <2>2. body \notin DOMAIN D
    BY <1>9
  <2> QED
    BY <1>6, <1>9, <1>12, <1>13, <2>1, <2>2, KeepsOn DEF n
<1>20. Looped(ag2, loops, rg2, E, dep, L)
  <2>1. Len(rg2) \in Nat
    BY <1>3, <1>11
  <2>2. \A j \in 1..Len(rg2) : \/ (j \in 1..Len(regions) /\ rg2[j] = regions[j])
                                \/ (j > Len(regions) /\ rg2[j].depth = Len(loops))
    <3>1. ASSUME NEW j \in 1..Len(rg2)
          PROVE  (j \in 1..d /\ rg2[j] = regions[j]) \/ (j > d /\ rg2[j].depth = Len(loops))
      <4>1. j \in 1..d \/ (j = d + 1 /\ j > d)
        BY <1>3, <1>11
      <4> QED
        BY <1>11, <4>1
    <3> QED
      BY <3>1 DEF d
  <2>3. Len(regions) \in Nat /\ Planned(agenda, Len(regions), dep)
    BY <1>3 DEF d
  <2>4. ~(Len(ag2) >= Len(agenda))
    BY <1>13 DEF n
  <2> QED
    BY <1>1, <1>3, <1>5, <1>6, <1>9, <1>12, <2>1, <2>2, <2>3, <2>4, LoopsOn
<1>21. Poised(ag2, body, blocks', d + 1, N)
  <2>1. d \in Int /\ d + Delta(agenda[1]) = d + 1 /\ Level(agenda, d) + Delta(agenda[1]) = d + 1
    BY <1>3, <1>5 DEF Level
  <2>2. N[body] = d + 1 /\ ~Ended(blocks', body)
    BY <1>9
  <2>3. Poised(ag2, body, blocks', d + Delta(agenda[1]), N)
    BY <1>1, <1>3, <1>5, <2>1, <2>2, PoisedOn DEF ag2
  <2> QED
    BY <2>1, <2>3
<1>22. Paced(ag2, body, blocks', nextBlock', loops, rg2, E, N, dep, L)
  BY <1>9, <1>11, <1>12, <1>14, <1>17, <1>19, <1>20, <1>21 DEF Paced
<1>23. agenda' = ag2 /\ loops' = loops /\ regions' = rg2 /\ current' = body
  BY <1>1 DEF Then, After, ag2
<1> QED
  BY <1>22, <1>23 DEF Balanced, Here

\* The blocks after a region: what guarded it goes on to its exit, which leaves it.
LEMMA LeavesRegion ==
  ASSUME LowerInv, NEW D, NEW M, NEW dep, NEW L, Here(D, M, dep, L), agenda # <<>>,
         EndRegion
  PROVE  LET exit == Last(regions).exit
             T == {current, exit}
             d == Len(regions)
         IN /\ Becomes(blocks, D, M, T, blocks', D, [M EXCEPT ![exit] = d - 1])
            /\ current' = exit /\ exit \in DOMAIN blocks' /\ exit \in DOMAIN D
            /\ ~Ended(blocks', exit)
            /\ \/ current \notin DOMAIN blocks \/ Ended(blocks', current)
               \/ blocks[current].term # Unreachable
<1> DEFINE exit == Last(regions).exit
           T == {current, exit}
           d == Len(regions)
           left == IF Open(blocks, current) THEN End(blocks, current, Jump(exit)) ELSE blocks
           leave == Runtime("__err_leave", NoValue)
           N == [M EXCEPT ![exit] = d - 1]
<1>1. /\ Doing("stmt") /\ The.kind = "region_end" /\ regions # <<>>
      /\ blocks' = Emit(left, exit, leave) /\ current' = exit
  BY DEF EndRegion, On
<1>2. /\ current \in DOMAIN blocks \cup {NoBlock} /\ Levels(blocks, D, M) /\ d \in Nat
      /\ NoBlock \notin DOMAIN blocks /\ DOMAIN blocks \subseteq DOMAIN D /\ The = agenda[1].s
      /\ nextBlock \in Nat /\ DOMAIN D = 0..(nextBlock - 1)
  BY HereTyped
<1>3. regions \in Seq([exit : DOMAIN blocks, depth : Nat])
  BY DEF LowerInv, Nested
<1>4. d \in 1..d /\ Last(regions) = regions[d]
  BY <1>1, <1>3 DEF Last
<1>5. KeptAt(agenda, d, exit, current, blocks, D, M)
  BY <1>4 DEF Here, Paced, Kept
<1>6. /\ exit \in DOMAIN blocks /\ ~Ended(blocks, exit) /\ exit \in DOMAIN D
      /\ D[exit] = d /\ M[exit] = d /\ exit # current
  BY <1>5 DEF KeptAt
<1>7. exit \in Int /\ exit # NoBlock
  BY <1>2, <1>6
<1>8. agenda[1].do = "stmt" /\ agenda[1].do \notin Closing
  BY <1>1, DoingHead, StatementPlain
<1>9. current # NoBlock /\ ~Ended(blocks, current) => M[current] = d
  BY <1>8 DEF Here, Paced, Poised, Level
<1>10. /\ Jump(exit) \in Terminator /\ Jump(exit).kind = "jump" /\ Targets(Jump(exit)) = {exit}
  BY <1>7, TermsTyped DEF Jump, Term
<1>11. Becomes(blocks, D, M, T, blocks, D, M)
  BY <1>2, BecomesItself
<1>12. current \in T /\ exit \in T
  OBVIOUS
<1>13. blocks \in [DOMAIN blocks -> SoundBlock]
  BY <1>2 DEF Levels
<1> HIDE DEF exit, d, T
<1>14. /\ Becomes(blocks, D, M, T, left, D, M)
       /\ left[exit].term = blocks[exit].term /\ DOMAIN left = DOMAIN blocks
       /\ \/ current \notin DOMAIN blocks \/ Ended(left, current)
          \/ blocks[current].term # Unreachable
  <2>1. CASE Open(blocks, current)
    <3>1. current # NoBlock /\ ~Ended(blocks, current) /\ left = End(blocks, current, Jump(exit))
      BY <2>1, OpenTerms DEF Open
    <3>2. Leads(Jump(exit), D, M[current])
      BY <1>6, <1>9, <1>10, <3>1 DEF Leads
    <3>3. Becomes(blocks, D, M, T, End(blocks, current, Jump(exit)), D, M)
      BY <1>2, <1>10, <1>11, <1>12, <3>2, BecomesEnded
    <3>4. /\ DOMAIN End(blocks, current, Jump(exit)) = DOMAIN blocks
          /\ \A c \in DOMAIN blocks \ {current} :
               End(blocks, current, Jump(exit))[c].term = blocks[c].term
          /\ End(blocks, current, Jump(exit))[current].term = Jump(exit)
      BY <1>2, <1>13, <3>1, EndTerms
    <3>5. Ended(End(blocks, current, Jump(exit)), current)
      BY <3>4, OpenTerms
    <3> QED
      BY <1>6, <3>1, <3>3, <3>4, <3>5
  <2>2. CASE ~Open(blocks, current)
    <3>1. left = blocks
      BY <2>2
    <3>2. current \notin DOMAIN blocks \/ blocks[current].term # Unreachable
      BY <1>2, <2>2 DEF Open
    <3> QED
      BY <1>11, <3>1, <3>2
  <2> QED
    BY <2>1, <2>2
<1>15. left \in [DOMAIN left -> SoundBlock] /\ NoBlock \notin DOMAIN left
  BY <1>14 DEF Becomes, Levels
<1> HIDE DEF left
<1>16. exit \in DOMAIN left /\ ~Ended(left, exit)
  BY <1>6, <1>14 DEF Ended
<1>17. Becomes(blocks, D, M, T, blocks', D, N)
  <2>1. leave \in Seq(Sound)
    <3>1. "__err_leave" \in STRING /\ NoValue \in Nat
      BY NamesAssumption DEF NoValue
    <3> QED
      BY <3>1, RuntimeSound
  <2>2. d - 1 \in Int /\ d \in Int
    BY <1>2
  <2>3. Walk(leave, D, M[exit], d - 1)
    BY <1>6, <2>2, WalkOutOne
  <2>4. Leads(left[exit].term, D, d - 1)
    <3>1. left[exit].term.kind \notin {"return", "branch", "jump"}
      BY <1>16 DEF Ended
    <3> QED
      BY <3>1 DEF Leads, Targets
  <2> HIDE DEF leave
  <2> QED
    BY <1>1, <1>12, <1>14, <1>16, <2>1, <2>2, <2>3, <2>4, BecomesEmitted
<1>18. /\ DOMAIN blocks' = DOMAIN left
       /\ \A c \in DOMAIN left : blocks'[c].term = left[c].term
  BY <1>1, <1>15, <1>16, EmitTerms
<1>19. exit \in DOMAIN blocks' /\ ~Ended(blocks', exit)
  BY <1>16, <1>18 DEF Ended
<1>20. \/ current \notin DOMAIN blocks \/ Ended(blocks', current)
       \/ blocks[current].term # Unreachable
  BY <1>14, <1>18 DEF Ended
<1> QED
  BY <1>1, <1>6, <1>17, <1>19, <1>20 DEF exit, T, d

LEMMA EndRegionPaced == ASSUME LowerInv, Balanced, EndRegion PROVE Balanced'
<1> DEFINE n == Len(agenda)
           d == Len(regions)
           ag2 == After(agenda, <<>>)
           exit == Last(regions).exit
           T == {current, exit}
           rg2 == Front(regions)
<1>1. /\ Doing("stmt") /\ The.kind = "region_end" /\ agenda # <<>> /\ Then(<<>>) /\ regions # <<>>
      /\ current' = exit /\ regions' = rg2
      /\ UNCHANGED <<loops, nextBlock>>
  BY DEF EndRegion, On, Doing
<1>2. PICK D, M, dep, L : Here(D, M, dep, L)
  BY DEF Balanced
<1> DEFINE N == [M EXCEPT ![exit] = d - 1]
<1>3. /\ agenda \in Seq(Tasks) /\ n \in Nat \ {0} /\ Len(loops) \in Nat /\ d \in Nat
      /\ Levels(blocks, D, M) /\ Planned(agenda, d, dep)
      /\ current \in DOMAIN blocks \cup {NoBlock} /\ NoBlock \notin DOMAIN blocks
      /\ nextBlock \in Nat /\ The = agenda[1].s /\ DOMAIN D = 0..(nextBlock - 1)
  BY <1>1, <1>2, HereTyped
<1>4. agenda[1].do = "stmt" /\ agenda[1].s.kind = "region_end"
  BY <1>1, <1>3, DoingHead
<1>5. /\ Delta(agenda[1]) = -1 /\ agenda[1].do \notin Closing
      /\ agenda[1].do # "return_end" /\ agenda[1].do \notin LoopEnds
  BY <1>4, StatementPlain DEF Delta
<1>6. /\ Held(agenda, current, blocks, D, M, dep) /\ Kept(agenda, current, blocks, regions, D, M)
      /\ Looped(agenda, loops, regions, D, dep, L)
  BY <1>2 DEF Here, Paced
<1>7. /\ Becomes(blocks, D, M, T, blocks', D, N)
      /\ exit \in DOMAIN blocks' /\ exit \in DOMAIN D /\ ~Ended(blocks', exit)
      /\ \/ current \notin DOMAIN blocks \/ Ended(blocks', current)
         \/ blocks[current].term # Unreachable
  BY <1>1, <1>2, LeavesRegion
<1>8. Levels(blocks', D, N) /\ Extends(D, D)
  BY <1>7 DEF Becomes
<1>9. regions \in Seq([exit : DOMAIN blocks, depth : Nat])
  BY DEF LowerInv, Nested
<1>10. d \in 1..d /\ Last(regions) = regions[d]
  BY <1>1, <1>9 DEF Last
<1>11. Len(rg2) = d - 1 /\ \A j \in 1..(d - 1) : rg2[j] = regions[j]
  BY <1>1, <1>9, Fronts
<1>12. KeptAt(agenda, d, exit, current, blocks, D, M)
  BY <1>6, <1>10 DEF Kept
<1>13. /\ \A r \in 1..n : exit \notin Owned(Below(agenda, r))
       /\ exit # current /\ D[exit] = d
  BY <1>12 DEF KeptAt
<1>14. /\ Planned(ag2, d - 1, dep) /\ Onwards(agenda, ag2)
       /\ Len(ag2) = n - 1 /\ \A r \in 1..(n - 1) : Below(ag2, r) = Below(agenda, r)
  <2>1. d \in Int /\ d - 1 = d + Delta(agenda[1])
    BY <1>3, <1>5
  <2>2. Planned(ag2, d - 1, dep) /\ Onwards(agenda, ag2)
    BY <1>1, <1>3, <2>1, PlannedPop
  <2> QED
    BY <1>1, <1>3, <2>2, BelowPop
<1>15. ~(Len(ag2) >= n)
  BY <1>3, <1>14
<1>16. \A r \in 1..(n - 1) : Owned(Below(agenda, r)) \cap T = {}
  <2>1. \A r \in 1..(n - 1) : Owned(Below(agenda, r)) \cap Touched(agenda, current) = {}
    BY <1>3, <1>6, Untouched
  <2>2. \A r \in 1..(n - 1) : r \in 1..n
    BY <1>3
  <2> QED
    BY <1>13, <2>1, <2>2 DEF Touched
<1>17. \A j \in 1..(d - 1) : regions[j].exit \notin T
  <2>1. \A j \in 1..d : regions[j].exit \notin Touched(agenda, current) /\ D[regions[j].exit] = j
    <3>1. \A j \in 1..d : regions[j].exit \notin Touched(agenda, current)
      BY <1>3, <1>6, UntouchedExits
    <3>2. \A j \in 1..d : D[regions[j].exit] = j
      BY <1>6 DEF Kept, KeptAt
    <3> QED
      BY <3>1, <3>2
  <2>2. \A j \in 1..(d - 1) : j \in 1..d /\ j # d
    BY <1>3
  <2>3. ASSUME NEW j \in 1..(d - 1) PROVE regions[j].exit \notin T
    <3>1. regions[j].exit \notin Touched(agenda, current) /\ D[regions[j].exit] = j /\ j # d
      BY <2>1, <2>2
    <3> QED
      BY <1>13, <3>1 DEF Touched
  <2> QED
    BY <2>3
<1>18. exit \in T
  OBVIOUS
<1>19. M \in [DOMAIN D -> Int]
  BY <1>3 DEF Levels
<1>20. N[exit] = d - 1
  BY <1>7, <1>19
<1> HIDE DEF n, d, ag2, T, exit, rg2, N
<1>21. Held(ag2, exit, blocks', D, N, dep)
  BY <1>6, <1>7, <1>14, <1>15, <1>16, <1>18, HoldsOn DEF n
<1>22. Kept(ag2, exit, blocks', rg2, D, N)
  <2>1. \A j \in 1..Len(rg2) : j \in 1..Len(regions) /\ rg2[j] = regions[j] /\ regions[j].exit \notin T
    <3>1. \A j \in 1..Len(rg2) : j \in 1..(d - 1) /\ j \in 1..d
      BY <1>3, <1>11
    <3> QED
      BY <1>11, <1>17, <3>1 DEF d
  <2> QED
    BY <1>6, <1>7, <1>14, <1>15, <1>18, <2>1, KeepsOn DEF n
<1>23. Looped(ag2, loops, rg2, D, dep, L)
  <2>1. Len(rg2) \in Nat
    BY <1>3, <1>10, <1>11
  <2>2. \A j \in 1..Len(rg2) : j \in 1..Len(regions) /\ rg2[j] = regions[j]
    <3>1. \A j \in 1..Len(rg2) : j \in 1..(d - 1) /\ j \in 1..d
      BY <1>3, <1>11
    <3> QED
      BY <1>11, <3>1 DEF d
  <2>3. Len(regions) \in Nat /\ Planned(agenda, Len(regions), dep)
    BY <1>3 DEF d
  <2>4. ~(Len(ag2) >= Len(agenda))
    BY <1>15 DEF n
  <2> QED
    BY <1>1, <1>3, <1>5, <1>6, <1>8, <1>14, <2>1, <2>2, <2>3, <2>4, LoopsOn, SMTT(30)
<1>24. Poised(ag2, exit, blocks', d - 1, N)
  <2>1. d \in Int /\ d + Delta(agenda[1]) = d - 1 /\ Level(agenda, d) + Delta(agenda[1]) = d - 1
    BY <1>3, <1>5 DEF Level
  <2>2. N[exit] = d - 1 /\ ~Ended(blocks', exit)
    BY <1>7, <1>20
  <2>3. Poised(ag2, exit, blocks', d + Delta(agenda[1]), N)
    BY <1>1, <1>3, <1>5, <2>1, <2>2, PoisedOn DEF ag2
  <2> QED
    BY <2>1, <2>3
<1>25. Paced(ag2, exit, blocks', nextBlock, loops, rg2, D, N, dep, L)
  BY <1>3, <1>8, <1>11, <1>14, <1>21, <1>22, <1>23, <1>24 DEF Paced
<1>26. agenda' = ag2 /\ loops' = loops /\ regions' = rg2 /\ current' = exit /\ nextBlock' = nextBlock
  BY <1>1 DEF Then, After, ag2
<1> QED
  BY <1>25, <1>26 DEF Balanced, Here

-----------------------------------------------------------------------------
\* Of a tidy program every point of the agenda is neat.
LEMMA AllNeat ==
  ASSUME program \in Programs, Tidy(program)
  PROVE  /\ \A s \in Inside(program.body) : Neat(s)
         /\ Range(program.body) \subseteq Inside(program.body)
<1>1. /\ Range(program.body) \subseteq Inside(program.body)
      /\ \A s \in Inside(program.body) : Range(s.body) \cup Range(s.other) \subseteq Inside(program.body)
  BY NestingAssumption
<1> QED
  BY <1>1 DEF Neat, Tidy

LEMMA PointsNeat ==
  ASSUME NEW list, \A s \in Range(list) : Neat(s)
  PROVE  \A p \in Range(Points(list)) : Neat(p.s) /\ Apart(p)
<1> SUFFICES ASSUME NEW p \in Range(Points(list)) PROVE Neat(p.s) /\ Apart(p)
  OBVIOUS
<1>1. PICK i \in DOMAIN list : p = Point("stmt", list[i], <<>>)
  BY DEF Range, Points
<1>2. p.do = "stmt" /\ p.s = list[i] /\ list[i] \in Range(list)
  BY <1>1, PointParts DEF Range
<1> QED
  BY <1>2 DEF Apart

LEMMA HeadNeats ==
  ASSUME LowerInv, Fitting, Tidy(program), agenda # <<>>
  PROVE  /\ Neat(The)
         /\ \A p \in Range(Points(The.body)) \cup Range(Points(The.other)) : Neat(p.s) /\ Apart(p)
<1>1. Neat(The)
  BY HeadNeat
<1>2. \A s \in Range(The.body) \cup Range(The.other) : Neat(s)
  BY <1>1, AllNeat DEF Neat, Fitting
<1>3. /\ \A s \in Range(The.body) : Neat(s)
      /\ \A s \in Range(The.other) : Neat(s)
  BY <1>2
<1>4. \A p \in Range(Points(The.body)) : Neat(p.s) /\ Apart(p)
  BY <1>3, PointsNeat
<1>5. \A p \in Range(Points(The.other)) : Neat(p.s) /\ Apart(p)
  BY <1>3, PointsNeat
<1> QED
  BY <1>1, <1>4, <1>5

LEMMA FitsOn ==
  ASSUME LowerInv, Fitting, agenda # <<>>, NEW pts \in Seq(Tasks), Then(pts), program' = program,
         \A p \in Range(pts) : Neat(p.s) /\ Apart(p), \A e \in Range(ensures') : Firm(e)
  PROVE  Fitting'
<1>1. Tail(agenda) \in Seq(Tasks) /\ Range(Tail(agenda)) \subseteq Range(agenda)
  BY AgendaSplits DEF Rest
<1>2. Range(agenda') = Range(pts) \cup Range(Tail(agenda))
  BY <1>1, TasksJoin DEF Then
<1>3. \A p \in Range(agenda') : Neat(p.s) /\ Apart(p)
  BY <1>1, <1>2 DEF Fitting
<1>4. \A s : Neat(s) => Neat(s)'
  BY DEF Neat
<1> QED
  BY <1>3, <1>4 DEF Fitting

LEMMA FitsPop ==
  ASSUME LowerInv, Fitting, agenda # <<>>, Then(<<>>), program' = program, ensures' = ensures
  PROVE  Fitting'
<1>1. <<>> \in Seq(Tasks) /\ Range(<<>>) = {}
  BY DEF Range
<1>2. \A e \in Range(ensures') : Firm(e)
  BY DEF Fitting
<1> QED
  BY <1>1, <1>2, FitsOn

\* A body, and the point at which the builder comes back.
LEMMA FitsBody ==
  ASSUME LowerInv, Fitting, Tidy(program), agenda # <<>>, program' = program, ensures' = ensures,
         NEW list \in {The.body, The.other}, NEW p \in Tasks, Apart(p), p.s = The,
         Then(Points(list) \o <<p>>)
  PROVE  Fitting'
<1>1. Points(list) \in Seq(Tasks)
  BY BodyPlain
<1>2. <<p>> \in Seq(Tasks) /\ Range(<<p>>) = {p}
  BY DEF Range
<1>3. /\ Points(list) \o <<p>> \in Seq(Tasks)
      /\ Range(Points(list) \o <<p>>) = Range(Points(list)) \cup {p}
  BY <1>1, <1>2, TasksJoin
<1>4. \A q \in Range(Points(list) \o <<p>>) : Neat(q.s) /\ Apart(q)
  BY <1>3, HeadNeats
<1>5. \A e \in Range(ensures') : Firm(e)
  BY DEF Fitting
<1> QED
  BY <1>3, <1>4, <1>5, FitsOn

LEMMA PlainNeat ==
  ASSUME NEW s, s.body = <<>>, s.other = <<>>, Fair(s.expr), s.upto = NoExpr,
         s.kind \notin {"for", "ensure"}
  PROVE  Neat(s)
<1>1. Range(s.body) \cup Range(s.other) \subseteq Inside(program.body)
  BY DEF Range
<1>2. Live(s.body) /\ Live(s.other)
  BY DEF Live
<1>3. Fair(NoExpr)
  BY DEF Fair, NoExpr, Expr
<1> QED
  BY <1>1, <1>2, <1>3 DEF Neat

LEMMA RequireParts ==
  ASSUME NEW e
  PROVE  /\ Require(e).body = <<>> /\ Require(e).other = <<>> /\ Require(e).expr = e
         /\ Require(e).upto = NoExpr /\ Require(e).kind = "require"
  BY DEF Require, Stmt

LEMMA TestsNeat ==
  ASSUME NEW conds, \A e \in Range(conds) : Fair(e)
  PROVE  \A p \in Range(Tests(conds)) : Neat(p.s) /\ Apart(p)
<1> SUFFICES ASSUME NEW p \in Range(Tests(conds)) PROVE Neat(p.s) /\ Apart(p)
  OBVIOUS
<1>1. PICK i \in DOMAIN conds : p = Point("test", Require(conds[i]), <<>>)
  BY DEF Range, Tests
<1>2. p.do = "test" /\ p.s = Require(conds[i]) /\ conds[i] \in Range(conds)
  BY <1>1, PointParts DEF Range
<1>3. /\ p.s.body = <<>> /\ p.s.other = <<>> /\ p.s.expr = conds[i] /\ p.s.upto = NoExpr
      /\ p.s.kind = "require"
  BY <1>2, RequireParts
<1>4. Neat(p.s)
  BY <1>2, <1>3, PlainNeat
<1> QED
  BY <1>2, <1>4 DEF Apart

LEMMA ReturnFits == ASSUME LowerInv, Fitting, Tidy(program), BuildReturn PROVE Fitting'
<1> DEFINE e == Lower(The.expr)
           tests == IF e.value # NoValue THEN Tests(ensures) ELSE <<>>
           p == Point("return_end", The, <<e.value>>)
<1>1. /\ agenda # <<>> /\ Resolved(The.expr) /\ Then(tests \o <<p>>)
      /\ program' = program /\ ensures' = ensures
  BY DEF BuildReturn, On, Doing
<1>2. e.value \in Nat
  BY <1>1, LowersTo
<1> HIDE DEF e
<1>3. ensures \in Seq(Expressions) /\ \A x \in Range(ensures) : Firm(x)
  BY DEF LowerInv, Promised, Fitting
<1>4. tests \in Seq(Tasks) /\ \A q \in Range(tests) : Neat(q.s) /\ Apart(q)
  <2>1. Tests(ensures) \in Seq(Tasks) /\ <<>> \in Seq(Tasks)
    BY <1>3, TestsPlain
  <2>2. \A q \in Range(Tests(ensures)) : Neat(q.s) /\ Apart(q)
    BY <1>3, TestsNeat DEF Firm
  <2>3. Range(<<>>) = {}
    BY DEF Range
  <2> QED
    BY <2>1, <2>2, <2>3
<1>5. p \in Tasks /\ p.s = The /\ Apart(p)
  <2>1. <<e.value>> \in Seq(Int)
    BY <1>2
  <2>2. The \in Syntax
    BY <1>1, AgendaSplits
  <2>3. p.do = "return_end" /\ p.s = The
    BY PointParts
  <2>4. p \in Tasks
    BY <2>1, <2>2 DEF Point, Tasks, Doings
  <2> QED
    BY <2>3, <2>4 DEF Apart
<1> HIDE DEF tests, p
<1>6. <<p>> \in Seq(Tasks) /\ Range(<<p>>) = {p}
  BY <1>5 DEF Range
<1>7. tests \o <<p>> \in Seq(Tasks) /\ Range(tests \o <<p>>) = Range(tests) \cup {p}
  BY <1>4, <1>6, TasksJoin
<1>8. \A q \in Range(tests \o <<p>>) : Neat(q.s) /\ Apart(q)
  BY <1>1, <1>4, <1>5, <1>7, HeadNeats
<1> QED
  BY <1>1, <1>3, <1>7, <1>8, FitsOn

LEMMA EnsureFits == ASSUME LowerInv, Fitting, BuildEnsure PROVE Fitting'
<1>1. /\ agenda # <<>> /\ The.kind = "ensure" /\ Then(<<>>) /\ program' = program
      /\ ensures' = Append(ensures, The.expr)
  BY DEF BuildEnsure, On, Doing
<1>2. Firm(The.expr)
  BY <1>1, HeadNeat DEF Neat, Firm
<1>3. ensures \in Seq(Expressions) /\ The.expr \in Expressions
  BY <1>1, HeadNeat DEF LowerInv, Promised
<1>4. Range(ensures') = Range(ensures) \cup {The.expr}
  BY <1>1, <1>3 DEF Range
<1>5. \A e \in Range(ensures') : Firm(e)
  BY <1>2, <1>4 DEF Fitting
<1>6. <<>> \in Seq(Tasks) /\ Range(<<>>) = {}
  BY DEF Range
<1> QED
  BY <1>1, <1>5, <1>6, FitsOn

LEMMA IfFits == ASSUME LowerInv, Fitting, Tidy(program), BuildIf PROVE Fitting'
<1> DEFINE then == nextBlock
           els  == IF The.other = <<>> THEN NoBlock ELSE nextBlock + 1
           cont == IF The.other = <<>> THEN nextBlock + 1 ELSE nextBlock + 2
           p == Point("then_end", The, <<then, els, cont>>)
<1>1. /\ agenda # <<>> /\ Then(Points(The.body) \o <<p>>) /\ program' = program
      /\ ensures' = ensures
  BY DEF BuildIf, On, Doing
<1>2. then \in Int /\ els \in Int /\ cont \in Int
  BY Numbers DEF LowerInv, Numbered, NoBlock
<1> HIDE DEF then, els, cont
<1>3. p \in Tasks /\ p.s = The /\ Apart(p)
  <2>1. <<then, els, cont>> \in Seq(Int)
    BY <1>2
  <2>2. The \in Syntax
    BY <1>1, AgendaSplits
  <2>3. p.do = "then_end" /\ p.s = The
    BY PointParts
  <2>4. p \in Tasks
    BY <2>1, <2>2 DEF Point, Tasks, Doings
  <2> QED
    BY <2>3, <2>4 DEF Apart
<1> HIDE DEF p
<1> QED
  BY <1>1, <1>3, FitsBody

LEMMA ThenFits == ASSUME LowerInv, Fitting, Tidy(program), EndThen PROVE Fitting'
<1> DEFINE p == Point("else_end", The, At)
<1>1. /\ agenda # <<>> /\ program' = program /\ ensures' = ensures
      /\ (Then(<<>>) \/ Then(Points(The.other) \o <<p>>))
  BY DEF EndThen, Doing
<1>2. p \in Tasks /\ p.s = The /\ Apart(p)
  <2>1. Head(agenda) \in Tasks /\ The \in Syntax
    BY <1>1, AgendaSplits
  <2>2. At \in Seq(Int)
    BY <2>1 DEF At, Tasks
  <2>3. p.do = "else_end" /\ p.s = The
    BY PointParts
  <2>4. p \in Tasks
    BY <2>1, <2>2 DEF Point, Tasks, Doings
  <2> QED
    BY <2>3, <2>4 DEF Apart
<1> HIDE DEF p
<1> QED
  BY <1>1, <1>2, FitsPop, FitsBody

LEMMA WhileFits == ASSUME LowerInv, Fitting, Tidy(program), BuildWhile PROVE Fitting'
<1> DEFINE p == Point("while_end", The, <<nextBlock, nextBlock + 2>>)
<1>1. /\ agenda # <<>> /\ Then(Points(The.body) \o <<p>>) /\ program' = program
      /\ ensures' = ensures
  BY DEF BuildWhile, On, Doing
<1>2. p \in Tasks /\ p.s = The /\ Apart(p)
  <2>1. <<nextBlock, nextBlock + 2>> \in Seq(Int)
    BY DEF LowerInv, Numbered
  <2>2. The \in Syntax
    BY <1>1, AgendaSplits
  <2>3. p.do = "while_end" /\ p.s = The
    BY PointParts
  <2>4. p \in Tasks
    BY <2>1, <2>2 DEF Point, Tasks, Doings
  <2> QED
    BY <2>3, <2>4 DEF Apart
<1> HIDE DEF p
<1> QED
  BY <1>1, <1>2, FitsBody

LEMMA ForFits == ASSUME LowerInv, Fitting, Tidy(program), BuildFor PROVE Fitting'
<1> DEFINE e == Lower(The.expr)
           at == <<nextBlock, nextBlock + 1, nextBlock + 2, nextBlock + 3, e.next + 1>>
           p == Point("for_end", The, at)
<1>1. /\ agenda # <<>> /\ Resolved(The.expr) /\ Then(Points(The.body) \o <<p>>)
      /\ program' = program /\ ensures' = ensures
  BY DEF BuildFor, On, Doing
<1>2. e.next \in Nat \ {0} /\ nextBlock \in Nat
  BY <1>1, LowersTo DEF LowerInv, Numbered
<1> HIDE DEF e
<1>3. p \in Tasks /\ p.s = The /\ Apart(p)
  <2>1. at \in Seq(Int) /\ at[4] # at[3]
    BY <1>2
  <2> HIDE DEF at
  <2>2. The \in Syntax
    BY <1>1, AgendaSplits
  <2>3. p.do = "for_end" /\ p.s = The /\ p.at = at
    BY PointParts
  <2>4. p \in Tasks
    BY <2>1, <2>2 DEF Point, Tasks, Doings
  <2> QED
    BY <2>1, <2>3, <2>4 DEF Apart
<1> HIDE DEF p
<1> QED
  BY <1>1, <1>3, FitsBody

LEMMA RangeFits == ASSUME LowerInv, Fitting, Tidy(program), BuildRange PROVE Fitting'
<1> DEFINE from == Lower(The.expr)
           to == LowerFrom(The.upto, from.next)
           at == <<nextBlock, nextBlock + 1, nextBlock + 2, nextBlock + 3, to.next + 7, to.next + 4,
                   to.next + 0, to.next + 3>>
           p == Point("range_end", The, at)
<1>1. /\ agenda # <<>> /\ Resolved(The.expr) /\ Resolved(The.upto)
      /\ Then(Points(The.body) \o <<p>>)
      /\ program' = program /\ ensures' = ensures
  BY DEF BuildRange, On, Doing
<1>2. from.next \in Nat \ {0} /\ nextBlock \in Nat
  BY <1>1, LowersTo DEF LowerInv, Numbered
<1> HIDE DEF from
<1>3. to.next \in Nat
  <2>1. The.upto \in Expressions
    BY <1>1, HeadNeat
  <2>2. to \in Outcomes
    BY <1>1, <1>2, <2>1, ExpressionComes DEF LowerInv
  <2> QED
    BY <2>2 DEF Outcomes
<1> HIDE DEF to
<1>4. p \in Tasks /\ p.s = The /\ Apart(p)
  <2>1. at \in Seq(Int) /\ at[4] # at[3] /\ at[4] # at[1]
    BY <1>2, <1>3
  <2> HIDE DEF at
  <2>2. The \in Syntax
    BY <1>1, AgendaSplits
  <2>3. p.do = "range_end" /\ p.s = The /\ p.at = at
    BY PointParts
  <2>4. p \in Tasks
    BY <2>1, <2>2 DEF Point, Tasks, Doings
  <2> QED
    BY <2>1, <2>3, <2>4 DEF Apart
<1> HIDE DEF p
<1> QED
  BY <1>1, <1>4, FitsBody

LEMMA OnErrorFits == ASSUME LowerInv, Fitting, Tidy(program), BuildOnError PROVE Fitting'
<1> DEFINE handler == If(TakeError, The.other)
           list == <<RegionBegin>> \o The.body \o <<RegionEnd, handler>>
<1>1. /\ agenda # <<>> /\ Then(Points(list)) /\ program' = program /\ ensures' = ensures
  BY DEF BuildOnError, On, Doing
<1>2. RegionBegin \in Syntax /\ RegionEnd \in Syntax /\ handler \in Syntax /\ The.body \in Seq(Syntax)
  BY <1>1, MarksTyped
<1>3. Neat(The) /\ \A s \in Inside(program.body) : Neat(s)
  BY <1>1, HeadNeat, AllNeat DEF Fitting
<1>4. Neat(RegionBegin) /\ Neat(RegionEnd)
  <2>1. Fair(NoExpr)
    BY DEF Fair, NoExpr, Expr
  <2> QED
    BY <2>1, MarksAre, PlainNeat
<1>5. Neat(handler)
  <2>1. /\ handler.kind = "if" /\ handler.other = <<>> /\ handler.body = The.other
        /\ handler.expr = TakeError /\ handler.upto = NoExpr
    BY MarksAre
  <2> HIDE DEF handler
  <2>2. Fair(NoExpr) /\ Fair(TakeError)
    BY DEF Fair, NoExpr, TakeError, Expr
  <2>3. Range(<<>>) = {} /\ Live(<<>>)
    BY DEF Range, Live
  <2>4. Range(The.other) \subseteq Inside(program.body) /\ Live(The.other)
    BY <1>3 DEF Neat
  <2> QED
    BY <2>1, <2>2, <2>3, <2>4 DEF Neat
<1> HIDE DEF handler
<1>6. \A s \in Range(The.body) : Neat(s)
  BY <1>3 DEF Neat
<1>7. list \in Seq(Syntax) /\ \A s \in Range(list) : Neat(s)
  <2>1. /\ list \in Seq(Syntax) /\ Len(The.body) \in Nat /\ Len(list) = Len(The.body) + 3
        /\ list[1] = RegionBegin
        /\ \A k \in 2..(Len(The.body) + 1) : list[k] = The.body[k - 1]
        /\ list[Len(The.body) + 2] = RegionEnd
        /\ list[Len(The.body) + 3] = handler
    BY <1>2, Around
  <2> HIDE DEF list
  <2>2. \A k \in 1..Len(The.body) : The.body[k] \in Range(The.body)
    BY <1>2 DEF Range
  <2>3. \A k \in 1..Len(list) : Neat(list[k])
    <3> SUFFICES ASSUME NEW k \in 1..Len(list) PROVE Neat(list[k])
      OBVIOUS
    <3>1. \/ k = 1 \/ k = Len(The.body) + 2 \/ k = Len(The.body) + 3
          \/ (k \in 2..(Len(The.body) + 1) /\ k - 1 \in 1..Len(The.body))
      BY <2>1
    <3>2. CASE k \in 2..(Len(The.body) + 1) /\ k - 1 \in 1..Len(The.body)
      BY <1>6, <2>1, <2>2, <3>2
    <3> QED
      BY <1>4, <1>5, <2>1, <3>1, <3>2
  <2>4. DOMAIN list = 1..Len(list)
    BY <2>1
  <2> QED
    BY <2>1, <2>3, <2>4 DEF Range
<1> HIDE DEF list
<1>8. Points(list) \in Seq(Tasks)
  BY <1>7, PointsAre
<1>9. \A p \in Range(Points(list)) : Neat(p.s) /\ Apart(p)
  BY <1>7, PointsNeat
<1>10. \A e \in Range(ensures') : Firm(e)
  BY <1>1 DEF Fitting
<1> QED
  BY <1>1, <1>8, <1>9, <1>10, FitsOn

\* What is left to do stays tidy, and the levels are kept.
LEMMA LowerFits == ASSUME LowerInv, Fitting, Tidy(program), LowerNext PROVE Fitting'
<1>1. CASE \/ BuildDeclaration \/ BuildAssignment \/ BuildPrint \/ BuildExpression \/ AutoReturn
           \/ EndReturn \/ BuildJump \/ BuildTest
  <2>1. agenda # <<>> /\ Then(<<>>) /\ program' = program /\ ensures' = ensures
    BY <1>1 DEF BuildDeclaration, BuildAssignment, BuildPrint, BuildExpression, AutoReturn,
                EndReturn, BuildJump, BuildTest, On, Doing
  <2> QED
    BY <2>1, FitsPop
<1>2. CASE EndElse \/ EndWhile \/ EndFor \/ EndRange \/ BeginRegion \/ EndRegion \/ Finish
  <2>1. agenda # <<>> /\ Then(<<>>) /\ program' = program /\ ensures' = ensures
    BY <1>2 DEF EndElse, EndWhile, EndFor, EndRange, BeginRegion, EndRegion, Finish, On, Doing
  <2> QED
    BY <2>1, FitsPop
<1> QED
  BY <1>1, <1>2, ReturnFits, EnsureFits, IfFits, ThenFits, WhileFits, ForFits, RangeFits, OnErrorFits
     DEF LowerNext

LEMMA LowerBalances == ASSUME LowerInv, Fitting, Balanced, LowerNext PROVE Balanced'
<1> QED
  BY DeclarationPaced, AssignmentPaced, PrintPaced, ExpressionPaced, AutoReturnPaced, ReturnPaced,
     EndReturnPaced, JumpPaced, EnsurePaced, TestPaced, IfPaced, EndThenPaced, EndElsePaced,
     WhilePaced, EndWhilePaced, ForPaced, EndForPaced, RangePaced, EndRangePaced, OnErrorPaced,
     BeginRegionPaced, EndRegionPaced, FinishPaced
     DEF LowerNext

-----------------------------------------------------------------------------
\* The agenda a tidy function begins with.
LEMMA BodyOpens ==
  ASSUME NEW p \in Programs, Live(p.body)
  PROVE  /\ BodyItems(p) \in Seq(Tasks)
         /\ \A k \in 1..Len(BodyItems(p)) :
              /\ BodyItems(p)[k].do \in {"stmt", "auto"} /\ Delta(BodyItems(p)[k]) = 0
              /\ Leaves(BodyItems(p)[k]) => k = Len(BodyItems(p)) /\ ~FallsThrough(p.body)
<1> DEFINE body == p.body
           n == Len(body)
           c == BodyItems(p)
<1>1. body \in Seq(Syntax) /\ \A k \in 1..n : body[k].kind \in Kinds
  <2>1. body \in Seq(Statements) /\ Statements \subseteq Syntax /\ \A s \in Statements : s.kind \in Kinds
    BY ProgramsAssumption, StatementsAssumption DEF Syntax
  <2> HIDE DEF body
  <2>2. body \in Seq(Syntax)
    BY <2>1, SeqsGrow
  <2>3. \A k \in 1..n : body[k] \in Statements
    BY <2>1
  <2> QED
    BY <2>1, <2>2, <2>3
<1>2. c \in Seq(Tasks)
  BY BodyBegins
<1>3. n \in Nat
  BY <1>1
<1>4. \A k \in 1..(n - 1) : body[k].kind \notin Quits
  BY DEF Live
<1>5. n # 0 /\ body[n].kind \in Quits => ~FallsThrough(body)
  <2> HIDE DEF body
  <2>1. body = <<>> => n = 0
    OBVIOUS
  <2> QED
    BY <2>1 DEF FallsThrough
<1>6. \/ c = Points(body)
      \/ body # <<>> /\ c = Points(Front(body)) \o <<Point("auto", Last(body), <<>>)>>
  BY DEF BodyItems
<1> HIDE DEF body, n
<1>7. ASSUME NEW q, NEW s, q.do = "stmt", q.s = s, s.kind \in Kinds
      PROVE  q.do \in {"stmt", "auto"} /\ Delta(q) = 0 /\ (Leaves(q) => s.kind \in Quits)
  BY <1>7 DEF Delta, Leaves, Kinds
<1>8. CASE c = Points(body)
  <2>1. Len(c) = n /\ \A k \in 1..n : c[k].do = "stmt" /\ c[k].s = body[k]
    BY <1>1, <1>8, PointsAre DEF n
  <2> HIDE DEF c
  <2>2. ASSUME NEW k \in 1..Len(c)
        PROVE  /\ c[k].do \in {"stmt", "auto"} /\ Delta(c[k]) = 0
               /\ Leaves(c[k]) => k = Len(c) /\ ~FallsThrough(body)
    <3>1. k \in 1..n /\ (k \in 1..(n - 1) \/ (k = n /\ n # 0))
      BY <1>3, <2>1
    <3>2. c[k].do = "stmt" /\ c[k].s = body[k] /\ body[k].kind \in Kinds
      BY <1>1, <2>1, <3>1
    <3>3. /\ c[k].do \in {"stmt", "auto"} /\ Delta(c[k]) = 0
          /\ Leaves(c[k]) => body[k].kind \in Quits
      BY <1>7, <3>2
    <3> QED
      BY <1>4, <1>5, <2>1, <3>1, <3>3
  <2> QED
    BY <1>2, <2>2 DEF c, body
<1>9. CASE body # <<>> /\ c = Points(Front(body)) \o <<Point("auto", Last(body), <<>>)>>
  <2> DEFINE front == Points(Front(body))
             auto == Point("auto", Last(body), <<>>)
  <2>1. Front(body) \in Seq(Syntax) /\ Len(Front(body)) = n - 1
        /\ \A k \in 1..(n - 1) : Front(body)[k] = body[k]
    BY <1>1, <1>9, Fronts, FrontIn DEF n
  <2>2. /\ front \in Seq(Tasks) /\ Len(front) = n - 1
        /\ \A k \in 1..(n - 1) : front[k].do = "stmt" /\ front[k].s = body[k]
    BY <2>1, PointsAre
  <2>3. auto.do = "auto"
    BY PointParts
  <2>4. auto \in Tasks
    <3>1. Last(body) \in Syntax /\ <<>> \in Seq(Int)
      BY <1>1, <1>9, LastIn
    <3> QED
      BY <3>1 DEF Point, Tasks, Doings
  <2> HIDE DEF front, auto
  <2>5. <<auto>> \in Seq(Tasks) /\ Len(<<auto>>) = 1 /\ <<auto>>[1] = auto
    BY <2>4
  <2>6. /\ Len(c) = Len(front) + 1
        /\ \A k \in 1..Len(front) : c[k] = front[k]
        /\ c[Len(front) + 1] = auto
    <3>1. c = front \o <<auto>>
      BY <1>9 DEF front, auto
    <3> HIDE DEF c
    <3> QED
      BY <2>2, <2>5, <3>1, JoinParts
  <2> HIDE DEF c
  <2>7. ASSUME NEW k \in 1..Len(c)
        PROVE  /\ c[k].do \in {"stmt", "auto"} /\ Delta(c[k]) = 0
               /\ Leaves(c[k]) => k = Len(c) /\ ~FallsThrough(body)
    <3>1. k \in 1..(n - 1) \/ k = Len(front) + 1
      BY <1>3, <2>2, <2>6
    <3>2. CASE k \in 1..(n - 1)
      <4>1. c[k].do = "stmt" /\ c[k].s = body[k] /\ body[k].kind \in Kinds /\ k \in 1..n
        BY <1>1, <1>3, <2>2, <2>6, <3>2
      <4> QED
        BY <1>4, <1>7, <3>2, <4>1
    <3>3. CASE k = Len(front) + 1
      <4>1. c[k] = auto
        BY <2>6, <3>3
      <4> QED
        BY <2>3, <4>1 DEF Delta, Leaves
    <3> QED
      BY <3>1, <3>2, <3>3
  <2> QED
    BY <1>2, <2>7 DEF c, body
<1> QED
  BY <1>6, <1>8, <1>9

Opening(ag) ==
  /\ ag \in Seq(Tasks) /\ Len(ag) \in Nat \ {0}
  /\ \A k \in 1..Len(ag) :
       /\ ag[k].do \in {"stmt", "auto", "test", "finish"} /\ Delta(ag[k]) = 0
       /\ ag[k].do = "finish" => k = Len(ag)
       /\ ag[k].do = "test" => k < Len(ag) /\ ag[k + 1].do \in {"test", "finish"}
       /\ Leaves(ag[k]) => k < Len(ag) /\ Resumes(ag[k + 1])

LEMMA AgendaOpens ==
  ASSUME NEW p \in Programs, Tidy(p)
  PROVE  Opening(BodyItems(p) \o Tests(p.rules) \o <<Point("finish", Break, <<>>)>>)
<1> DEFINE c == BodyItems(p)
           t == Tests(p.rules)
           f == Point("finish", Break, <<>>)
           n == Len(c)
           m == Len(t)
           ag == c \o t \o <<f>>
<1>1. /\ c \in Seq(Tasks)
      /\ \A k \in 1..n : /\ c[k].do \in {"stmt", "auto"} /\ Delta(c[k]) = 0
                         /\ Leaves(c[k]) => k = n /\ ~FallsThrough(p.body)
  BY BodyOpens DEF Tidy
<1>2. p.rules \in Seq(Expressions)
  BY ProgramsAssumption
<1>3. t \in Seq(Tasks) /\ m \in Nat /\ \A k \in 1..m : t[k].do = "test"
  <2>1. t \in Seq(Tasks)
    BY <1>2, TestsPlain
  <2>2. \A k \in DOMAIN t : t[k].do = "test"
    BY PointParts DEF Tests
  <2> HIDE DEF t
  <2>3. m \in Nat /\ DOMAIN t = 1..m
    BY <2>1
  <2> QED
    BY <2>1, <2>2, <2>3
<1>4. m # 0 => FallsThrough(p.body)
  <2>1. DOMAIN t = DOMAIN p.rules
    BY DEF Tests
  <2>2. m # 0 => 1 \in DOMAIN t
    BY <1>3
  <2>3. p.rules = <<>> => DOMAIN p.rules = {}
    OBVIOUS
  <2> HIDE DEF t, m
  <2>4. m # 0 => p.rules # <<>>
    BY <2>1, <2>2, <2>3
  <2> QED
    BY <2>4 DEF Tidy
<1>5. f.do = "finish"
  BY PointParts
<1>6. ag \in Seq(Tasks)
  BY AgendaBegins
<1>7. f \in Tasks
  <2>1. NoExpr \in Expressions /\ "" \in STRING /\ "break" \in Kinds
    BY ConditionsTyped, NamesAssumption DEF Kinds
  <2>2. <<>> \in Seq(Statements)
    OBVIOUS
  <2>3. Break \in Syntax
    BY <2>1, <2>2 DEF Break, Stmt, Syntax
  <2> QED
    BY <2>3 DEF Point, Tasks, Doings
<1> HIDE DEF c, t, f
<1>8. /\ c \o t \in Seq(Tasks) /\ Len(c \o t) = n + m /\ n \in Nat
      /\ \A k \in 1..n : (c \o t)[k] = c[k]
      /\ \A k \in 1..m : (c \o t)[n + k] = t[k]
  BY <1>1, <1>3, JoinParts
<1>9. /\ Len(ag) = n + m + 1 /\ ag[n + m + 1] = f
      /\ \A k \in 1..(n + m) : ag[k] = (c \o t)[k]
  <2>1. <<f>> \in Seq(Tasks) /\ Len(<<f>>) = 1 /\ <<f>>[1] = f
    BY <1>7
  <2> DEFINE d == c \o t
  <2>2. d \in Seq(Tasks) /\ Len(d) = n + m
    BY <1>8
  <2> HIDE DEF d, n, m
  <2>3. /\ Len(d \o <<f>>) = Len(d) + 1 /\ (d \o <<f>>)[Len(d) + 1] = f
        /\ \A k \in 1..Len(d) : (d \o <<f>>)[k] = d[k]
    BY <2>1, <2>2, JoinParts
  <2> QED
    BY <2>2, <2>3 DEF d
<1> HIDE DEF n, m, ag
<1>10. ASSUME NEW k \in 1..Len(ag)
       PROVE  /\ ag[k].do \in {"stmt", "auto", "test", "finish"} /\ Delta(ag[k]) = 0
              /\ ag[k].do = "finish" => k = Len(ag)
              /\ ag[k].do = "test" => k < Len(ag) /\ ag[k + 1].do \in {"test", "finish"}
              /\ Leaves(ag[k]) => k < Len(ag) /\ Resumes(ag[k + 1])
  <2>1. \/ k \in 1..n
        \/ k \in (n + 1)..(n + m)
        \/ k = n + m + 1
    BY <1>3, <1>8, <1>9
  <2>2. CASE k \in 1..n
    <3>1. k \in 1..(n + m) /\ ag[k] = c[k] /\ k < Len(ag)
      BY <1>3, <1>8, <1>9, <2>2
    <3>2. Leaves(c[k]) => Resumes(ag[k + 1])
      <4>1. CASE m = 0 /\ k = n
        <5>1. ag[k + 1] = f
          BY <1>8, <1>9, <4>1
        <5> QED
          BY <1>5, <5>1 DEF Resumes
      <4>2. CASE m # 0 \/ k # n
        BY <1>1, <1>4, <2>2, <4>2
      <4> QED
        BY <4>1, <4>2
    <3> QED
      BY <1>1, <2>2, <3>1, <3>2
  <2>3. CASE k \in (n + 1)..(n + m)
    <3>1. k - n \in 1..m /\ n + (k - n) = k /\ k \in 1..(n + m) /\ k < Len(ag)
      BY <1>3, <1>8, <1>9, <2>3
    <3>2. ag[k] = t[k - n] /\ ag[k].do = "test"
      BY <1>3, <1>8, <1>9, <3>1
    <3>3. ag[k + 1].do \in {"test", "finish"}
      <4>1. CASE k = n + m
        BY <1>5, <1>9, <4>1
      <4>2. CASE k # n + m
        <5>1. k + 1 - n \in 1..m /\ n + (k + 1 - n) = k + 1 /\ k + 1 \in 1..(n + m)
          BY <1>3, <1>8, <2>3, <4>2
        <5>2. ag[k + 1] = t[k + 1 - n]
          BY <1>8, <1>9, <5>1
        <5> QED
          BY <1>3, <5>1, <5>2
      <4> QED
        BY <4>1, <4>2
    <3> QED
      BY <3>1, <3>2, <3>3 DEF Delta, Leaves
  <2>4. CASE k = n + m + 1
    BY <1>5, <1>9, <2>4 DEF Delta, Leaves
  <2> QED
    BY <2>1, <2>2, <2>3, <2>4
<1>11. ag \in Seq(Tasks) /\ Len(ag) \in Nat \ {0}
  BY <1>3, <1>6, <1>8, <1>9 DEF ag
<1> QED
  BY <1>10, <1>11 DEF Opening, ag, c, t, f

LEMMA OpeningPlanned ==
  ASSUME NEW ag, Opening(ag), NEW dep, dep = [r \in Nat |-> 0]
  PROVE  Planned(ag, 0, dep) /\ \A r \in 1..Len(ag) : Below(ag, r).do \notin Joins
<1>1. dep \in [Nat -> Nat] /\ Len(ag) \in Nat \ {0} /\ \A r \in Nat : dep[r] = 0
  BY DEF Opening
<1>2. ASSUME NEW r \in 1..Len(ag)
      PROVE  /\ Below(ag, r).do \notin Joins /\ Below(ag, r).do \notin {"return_end"}
             /\ Delta(Below(ag, r)) = 0
             /\ PlannedAt(ag, r, dep)
  <2> DEFINE k == Len(ag) + 1 - r
  <2>1. k \in 1..Len(ag) /\ (k < Len(ag) => r > 1 /\ Len(ag) + 1 - (r - 1) = k + 1) /\ r \in Nat
        /\ (k = Len(ag) => r = 1)
    BY <1>1
  <2>2. Below(ag, r) = ag[k] /\ (k < Len(ag) => Below(ag, r - 1) = ag[k + 1])
    BY <2>1 DEF Below
  <2>3. \A q \in r..Len(ag) : dep[q] >= dep[r]
    BY <1>1, <2>1
  <2> HIDE DEF k
  <2>4. /\ ag[k].do \in {"stmt", "auto", "test", "finish"} /\ Delta(ag[k]) = 0
        /\ ag[k].do = "finish" => k = Len(ag)
        /\ ag[k].do = "test" => k < Len(ag) /\ ag[k + 1].do \in {"test", "finish"}
        /\ Leaves(ag[k]) => k < Len(ag) /\ Resumes(ag[k + 1])
    BY <2>1 DEF Opening
  <2>5. PlannedAt(ag, r, dep)
    BY <1>1, <2>1, <2>2, <2>3, <2>4 DEF PlannedAt, Closing
  <2> QED
    BY <2>2, <2>4, <2>5 DEF Joins, LoopEnds
<1>3. \A r \in 2..Len(ag) : dep[r - 1] = dep[r] + Delta(Below(ag, r))
  <2> SUFFICES ASSUME NEW r \in 2..Len(ag) PROVE dep[r - 1] = dep[r] + Delta(Below(ag, r))
    OBVIOUS
  <2>1. r \in 1..Len(ag) /\ r \in Nat /\ r - 1 \in Nat
    BY <1>1
  <2>2. Delta(Below(ag, r)) = 0
    BY <1>2, <2>1
  <2> QED
    BY <1>1, <2>1, <2>2
<1>4. dep[Len(ag)] = 0
  BY <1>1
<1> QED
  BY <1>1, <1>2, <1>3, <1>4 DEF Planned

LEMMA LevelsBegin ==
  ASSUME NEW bs, bs = [b \in {Entry} |-> Fresh], NEW D, D = [x \in 0..0 |-> 0]
  PROVE  Levels(bs, D, D)
<1>1. Fresh \in SoundBlock /\ Targets(Fresh.term) = {} /\ Fresh.code = <<>> /\ Fresh.term.kind # "return"
  <2>1. <<>> \in Seq(Sound)
    OBVIOUS
  <2>2. Fresh \in SoundBlock /\ Targets(Fresh.term) = {}
    BY <2>1, TermsTyped, OperandsTyped, ConstantsTyped, Numbers DEF Fresh, SoundBlock
  <2> QED
    BY <2>2 DEF Fresh, Unreachable, Term
<1>2. Walk(<<>>, D, 0, 0)
  BY WalkNowhere
<1>3. /\ DOMAIN bs = {Entry} /\ bs[Entry] = Fresh /\ bs \in [DOMAIN bs -> SoundBlock]
  BY <1>1
<1>4. /\ D \in [DOMAIN D -> Int] /\ Entry \in DOMAIN D /\ D[Entry] = 0 /\ NoBlock \notin DOMAIN D
  BY DEF Entry, NoBlock
<1>5. Leads(Fresh.term, D, 0)
  BY <1>1 DEF Leads
<1> QED
  BY <1>1, <1>2, <1>3, <1>4, <1>5 DEF Levels

LEMMA NeatBegin ==
  ASSUME LowerInit, Tidy(program)
  PROVE  \A p \in Range(agenda) : Neat(p.s) /\ Apart(p)
<1> DEFINE body == program.body
           c == BodyItems(program)
           t == Tests(program.rules)
           f == Point("finish", Break, <<>>)
<1>1. program \in Programs /\ agenda = c \o t \o <<f>>
  BY DEF LowerInit
<1>2. c \in Seq(Tasks) /\ t \in Seq(Tasks) /\ f \in Tasks
  <2>1. c \in Seq(Tasks)
    BY <1>1, BodyBegins
  <2>2. program.rules \in Seq(Expressions)
    BY <1>1, ProgramsAssumption
  <2>3. t \in Seq(Tasks)
    BY <2>2, TestsPlain
  <2>4. NoExpr \in Expressions /\ "" \in STRING /\ "break" \in Kinds
    BY ConditionsTyped, NamesAssumption DEF Kinds
  <2>5. <<>> \in Seq(Statements)
    OBVIOUS
  <2>6. Break \in Syntax
    BY <2>4, <2>5 DEF Break, Stmt, Syntax
  <2>7. f \in Tasks
    BY <2>6 DEF Point, Tasks, Doings
  <2> QED
    BY <2>1, <2>3, <2>7
<1>3. \A s \in Range(body) : Neat(s)
  BY <1>1, AllNeat
<1>4. \A p \in Range(t) : Neat(p.s) /\ Apart(p)
  BY TestsNeat DEF Tidy
<1>5. Neat(f.s) /\ Apart(f)
  <2>1. f.do = "finish" /\ f.s = Break
    BY PointParts
  <2>2. /\ Break.body = <<>> /\ Break.other = <<>> /\ Break.expr = NoExpr /\ Break.upto = NoExpr
        /\ Break.kind = "break"
    BY DEF Break, Stmt
  <2>3. Fair(NoExpr)
    BY DEF Fair, NoExpr, Expr
  <2> QED
    BY <2>1, <2>2, <2>3, PlainNeat DEF Apart
<1>6. \A p \in Range(c) : Neat(p.s) /\ Apart(p)
  <2>1. body \in Seq(Syntax)
    <3>1. body \in Seq(Statements) /\ Statements \subseteq Syntax
      BY <1>1, ProgramsAssumption, StatementsAssumption DEF Syntax
    <3> QED
      BY <3>1, SeqsGrow
  <2>2. CASE c = Points(body)
    BY <1>3, <2>2, PointsNeat
  <2>3. CASE body # <<>> /\ c = Points(Front(body)) \o <<Point("auto", Last(body), <<>>)>>
    <3> DEFINE front == Points(Front(body))
               auto == Point("auto", Last(body), <<>>)
    <3>1. Front(body) \in Seq(Syntax) /\ Len(Front(body)) = Len(body) - 1
          /\ \A k \in 1..(Len(body) - 1) : Front(body)[k] = body[k]
      BY <2>1, <2>3, Fronts, FrontIn
    <3>2. Len(body) \in Nat \ {0} /\ Last(body) = body[Len(body)] /\ \A k \in 1..Len(body) : body[k] \in Range(body)
      BY <2>1, <2>3, EmptySeq DEF Last, Range
    <3>3. \A s \in Range(Front(body)) : Neat(s)
      <4> DEFINE g == Front(body)
      <4>1. g \in Seq(Syntax) /\ DOMAIN g = 1..(Len(body) - 1)
        BY <3>1
      <4>2. \A k \in DOMAIN g : g[k] = body[k] /\ k \in 1..Len(body)
        BY <3>1, <3>2, <4>1
      <4> HIDE DEF g
      <4> QED
        BY <1>3, <3>2, <4>2 DEF Range, g
    <3>4. \A p \in Range(front) : Neat(p.s) /\ Apart(p)
      BY <3>3, PointsNeat
    <3>5. Neat(auto.s) /\ Apart(auto)
      <4>1. auto.do = "auto" /\ auto.s = Last(body)
        BY PointParts
      <4>2. Last(body) \in Range(body)
        BY <3>2
      <4> QED
        BY <1>3, <4>1, <4>2 DEF Apart
    <3>6. front \in Seq(Tasks) /\ auto \in Tasks
      <4>1. front \in Seq(Tasks)
        BY <3>1, PointsPlain
      <4>2. Last(body) \in Syntax /\ <<>> \in Seq(Int)
        BY <2>1, <2>3, LastIn
      <4>3. auto \in Tasks
        BY <4>2 DEF Point, Tasks, Doings
      <4> QED
        BY <4>1, <4>3
    <3> HIDE DEF front, auto
    <3>7. <<auto>> \in Seq(Tasks) /\ Range(<<auto>>) = {auto}
      BY <3>6, Single DEF Range
    <3>8. Range(c) = Range(front) \cup {auto}
      BY <2>3, <3>6, <3>7, TasksJoin DEF front, auto
    <3> QED
      BY <3>4, <3>5, <3>8
  <2> QED
    BY <2>2, <2>3 DEF BodyItems
<1> HIDE DEF c, t, f
<1>7. <<f>> \in Seq(Tasks) /\ Range(<<f>>) = {f}
  BY <1>2, Single DEF Range
<1>8. c \o t \in Seq(Tasks) /\ Range(c \o t) = Range(c) \cup Range(t)
  BY <1>2, TasksJoin
<1>9. Range(agenda) = Range(c) \cup Range(t) \cup {f}
  BY <1>1, <1>7, <1>8, TasksJoin
<1> QED
  BY <1>4, <1>5, <1>6, <1>9

\* The builder begins outside of every region.
LEMMA LowerOpens ==
  ASSUME LowerInit, Tidy(program)
  PROVE  Fitting /\ Balanced
<1> DEFINE D == [x \in 0..0 |-> 0]
           dep == [r \in Nat |-> 0]
           L == [i \in 1..0 |-> 1]
<1>1. /\ program \in Programs /\ current = Entry /\ blocks = [b \in {Entry} |-> Fresh]
      /\ nextBlock = 1 /\ loops = <<>> /\ regions = <<>> /\ ensures = program.invariants
      /\ agenda = BodyItems(program) \o Tests(program.rules) \o <<Point("finish", Break, <<>>)>>
  BY DEF LowerInit
<1>2. Fitting
  <2>1. \A p \in Range(agenda) : Neat(p.s) /\ Apart(p)
    BY NeatBegin
  <2>2. \A e \in Range(ensures) : Firm(e)
    BY <1>1 DEF Tidy, Firm
  <2> QED
    BY <1>1, <2>1, <2>2 DEF Fitting
<1>3. Opening(agenda)
  BY <1>1, AgendaOpens
<1>4. Planned(agenda, 0, dep) /\ \A r \in 1..Len(agenda) : Below(agenda, r).do \notin Joins
  BY <1>3, OpeningPlanned
<1>5. Levels(blocks, D, D) /\ DOMAIN D = 0..0 /\ D[0] = 0
  <2>1. DOMAIN D = 0..0 /\ D[0] = 0 /\ D = [x \in 0..0 |-> 0]
    OBVIOUS
  <2> HIDE DEF D
  <2> QED
    BY <1>1, <2>1, LevelsBegin
<1>6. Len(agenda) \in Nat \ {0} /\ agenda[1].do \in {"stmt", "auto", "test", "finish"}
  BY <1>3 DEF Opening
<1>7. Len(regions) = 0 /\ Len(loops) = 0
  BY <1>1
<1>8. L \in [1..0 -> 1..Len(agenda)]
  OBVIOUS
<1> HIDE DEF D, dep, L
<1>9. Held(agenda, current, blocks, D, D, dep)
  <2>1. ASSUME NEW r \in 1..Len(agenda)
        PROVE HeldAt(agenda, r, current, blocks, D, D, dep) /\ Owned(Below(agenda, r)) = {}
    <3>1. Below(agenda, r).do \notin Joins
      BY <1>4
    <3> DEFINE p == Below(agenda, r)
    <3>2. Entries(p) = {} /\ Owned(p) = {} /\ Waiting(p) = {} /\ Later(p) = {} /\ Begun(p) = {}
      <4> HIDE DEF p
      <4> QED
        BY <3>1 DEF Entries, Owned, Waiting, Later, Begun, Joins, LoopEnds, p
    <3> QED
      BY <3>2 DEF HeldAt
  <2> QED
    BY <2>1 DEF Held
<1>10. Kept(agenda, current, blocks, regions, D, D)
  BY <1>7 DEF Kept
<1>11. Looped(agenda, loops, regions, D, dep, L)
  <2>1. \A r \in 1..Len(agenda) : Below(agenda, r).do \notin LoopEnds
    BY <1>4 DEF Joins
  <2> QED
    BY <1>7, <1>8, <2>1 DEF Looped
<1>12. Poised(agenda, current, blocks, Len(regions), D)
  BY <1>1, <1>5, <1>7 DEF Poised, Level, Entry
<1>13. nextBlock - 1 = 0
  BY <1>1
<1>14. Paced(agenda, current, blocks, nextBlock, loops, regions, D, D, dep, L)
  BY <1>4, <1>5, <1>7, <1>9, <1>10, <1>11, <1>12, <1>13 DEF Paced
<1> QED
  BY <1>2, <1>14 DEF Balanced, Here

-----------------------------------------------------------------------------
\* A state of a run, and where a step takes it: to the next instruction, n regions further in,
\* or to an end that is not a return.
Recorded(s) == IsState(s) /\ \E S : s.events \in Seq(S)
Nexts(s, u, n) ==
  Recorded(u) /\ ~u.ended /\ u.at = s.at /\ u.pc = s.pc + 1 /\ u.regions = s.regions + n
Stopped(u) == Recorded(u) /\ u.ended /\ Last(u.events).kind # "return"

LEMMA ShowsRecorded ==
  ASSUME NEW s, Recorded(s), NEW event
  PROVE  Recorded(Shows(s, event)) /\ Last(Shows(s, event).events) = event
<1>1. PICK S : s.events \in Seq(S)
  BY DEF Recorded
<1> DEFINE es == s.events
           T == S \cup {event}
<1>2. es \in Seq(T) /\ event \in T
  BY <1>1, SeqsGrow
<1> HIDE DEF es, T
<1>3. Append(es, event) \in Seq(T) /\ Len(Append(es, event)) = Len(es) + 1
      /\ Append(es, event)[Len(es) + 1] = event
  BY <1>2
<1>4. Last(Append(es, event)) = event
  BY <1>3 DEF Last
<1>5. IsState(s) /\ Shows(s, event).events = Append(es, event) /\ IsState(Shows(s, event))
  BY StatesShow DEF Recorded, Stays, es
<1> QED
  BY <1>3, <1>4, <1>5 DEF Recorded

LEMMA EndsRecorded ==
  ASSUME NEW s, Recorded(s), NEW how, NEW val
  PROVE  LET u == Ends(s, how, val)
         IN /\ Recorded(u) /\ u.ended /\ Last(u.events).kind = how /\ u.regions = s.regions
            /\ how # "return" => Stopped(u)
<1> DEFINE e == Event(how, "", val)
           r == Shows(s, e)
           u == Ends(s, how, val)
<1>1. Recorded(r) /\ Last(r.events) = e
  BY ShowsRecorded
<1>2. u.ended = TRUE /\ IsState(u) /\ u.events = Append(s.events, e) /\ u.regions = s.regions
  <2>1. /\ u.ended = TRUE /\ u.events = Append(s.events, e)
        /\ Stays(s, u, {"events", "ended"})
    BY StatesEnd DEF Recorded
  <2> HIDE DEF u, e
  <2> QED
    BY <2>1 DEF Stays
<1>3. r.events = Append(s.events, e)
  BY StatesShow DEF Recorded
<1>4. e.kind = how
  BY DEF Event
<1> HIDE DEF e, r, u
<1>5. Recorded(u) /\ Last(u.events).kind = how
  BY <1>1, <1>2, <1>3, <1>4 DEF Recorded
<1> QED
  BY <1>2, <1>5 DEF Stopped, u

LEMMA DefinesNexts ==
  ASSUME NEW s, Recorded(s), ~s.ended, s.regions \in Int, NEW i, NEW val
  PROVE  Nexts(s, Defines(s, i, val), 0)
<1> DEFINE t == Defines(s, i, val)
<1>1. t.pc = s.pc + 1 /\ Stays(s, t, {"pc", "env"})
  BY StatesDefine DEF Recorded
<1> HIDE DEF t
<1>2. /\ t.at = s.at /\ t.regions = s.regions /\ t.events = s.events /\ t.ended = s.ended
      /\ IsState(t)
  BY <1>1 DEF Stays
<1>3. s.regions + 0 = s.regions
  OBVIOUS
<1> QED
  BY <1>1, <1>2, <1>3 DEF Nexts, Recorded, t

LEMMA CountsNexts ==
  ASSUME NEW s, Recorded(s), ~s.ended, NEW m, NEW n
  PROVE  Nexts(s, Counts(s, m, n), n)
<1> DEFINE t == Counts(s, m, n)
<1>1. t.pc = s.pc + 1 /\ t.regions = s.regions + n /\ Stays(s, t, {"pc", "scopes", "regions", "low"})
  BY StatesCount DEF Recorded
<1> HIDE DEF t
<1>2. t.at = s.at /\ t.events = s.events /\ t.ended = s.ended /\ IsState(t)
  BY <1>1 DEF Stays
<1> QED
  BY <1>1, <1>2 DEF Nexts, Recorded, t

LEMMA ShowsNexts ==
  ASSUME NEW s, NEW u, NEW n, Nexts(s, u, n), NEW event
  PROVE  Nexts(s, Shows(u, event), n)
<1> DEFINE t == Shows(u, event)
<1>1. Recorded(t) /\ Stays(u, t, {"events"})
  BY ShowsRecorded, StatesShow DEF Nexts, Recorded
<1> HIDE DEF t
<1>2. t.at = u.at /\ t.pc = u.pc /\ t.regions = u.regions /\ t.ended = u.ended
  BY <1>1 DEF Stays
<1> QED
  BY <1>1, <1>2 DEF Nexts, t

LEMMA PendsNexts ==
  ASSUME NEW s, NEW u, NEW n, Nexts(s, u, n), NEW x
  PROVE  Nexts(s, Pends(u, x), n)
<1> DEFINE t == Pends(u, x)
<1>1. Stays(u, t, {"pending"})
  BY StatesPend DEF Nexts, Recorded
<1> HIDE DEF t
<1>2. /\ t.at = u.at /\ t.pc = u.pc /\ t.regions = u.regions /\ t.ended = u.ended
      /\ t.events = u.events /\ IsState(t)
  BY <1>1 DEF Stays
<1> QED
  BY <1>2 DEF Nexts, Recorded, t

LEMMA CalledNexts ==
  ASSUME NEW s, Recorded(s), ~s.ended, s.regions \in Int, NEW i, i.op = "call"
  PROVE  \A u \in Called(s, i) : Nexts(s, u, Effect(i))
<1> DEFINE raised == Pends(Shows(Defines(s, i, 0), Event("raise", i.sym, 0)), TRUE)
           returned == Shows(Defines(s, i, 1), Event("call", i.sym, 1))
           taken == Pends(Defines(s, i, Bit(s.pending)), FALSE)
           printed == Shows(Defines(s, i, 0), Event("print", "", Operated(s, i.args[1])))
<1>1. Nexts(s, raised, 0) /\ Nexts(s, returned, 0) /\ Nexts(s, taken, 0) /\ Nexts(s, printed, 0)
  <2>1. \A val : Nexts(s, Defines(s, i, val), 0)
    BY DefinesNexts
  <2>2. \A val, event : Nexts(s, Shows(Defines(s, i, val), event), 0)
    BY <2>1, ShowsNexts
  <2> QED
    BY <2>1, <2>2, PendsNexts
<1>2. /\ i.sym = "print" /\ Len(i.args) = 1 => Called(s, i) = {printed} /\ Effect(i) = 0
      /\ i.sym = "mem_scope_push" => Called(s, i) = {Counts(s, 1, 0)} /\ Effect(i) = 0
      /\ i.sym = "mem_scope_pop" => Called(s, i) = {Counts(s, -1, 0)} /\ Effect(i) = 0
      /\ i.sym = "__err_enter" => Called(s, i) = {Counts(s, 0, 1)} /\ Effect(i) = 1
      /\ i.sym = "__err_leave" => Called(s, i) = {Counts(s, 0, -1)} /\ Effect(i) = -1
      /\ i.sym = "__err_take" => Called(s, i) = {taken} /\ Effect(i) = 0
      /\ /\ i.sym \notin {"mem_scope_push", "mem_scope_pop", "__err_enter", "__err_leave", "__err_take"}
         /\ ~(i.sym = "print" /\ Len(i.args) = 1)
         => Called(s, i) = {returned, raised} /\ Effect(i) = 0
  BY DEF Called, Pends, Effect
<1> HIDE DEF raised, returned, taken, printed
<1>3. Nexts(s, Counts(s, 1, 0), 0) /\ Nexts(s, Counts(s, -1, 0), 0) /\ Nexts(s, Counts(s, 0, 1), 1)
      /\ Nexts(s, Counts(s, 0, -1), -1)
  BY CountsNexts
<1> QED
  BY <1>1, <1>2, <1>3

\* An instruction goes on to the next, ends the run, or leaves for a handler.
Leaping(s, i, u) ==
  /\ i.exit # NoBlock /\ Recorded(u) /\ ~u.ended /\ u.at = i.exit /\ u.pc = 1
  /\ u.regions = s.regions /\ Effect(i) = 0

LEMMA ExecutedMoves ==
  ASSUME NEW s, Recorded(s), ~s.ended, s.regions \in Int, NEW i, NEW u \in Executed(s, i)
  PROVE  Nexts(s, u, Effect(i)) \/ Stopped(u) \/ Leaping(s, i, u)
<1>1. CASE Valued(i)
  <2>1. Effect(i) = 0
    BY <1>1 DEF Valued, Effect
  <2>2. u = Ends(s, "trap", 0) \/ u = Defines(s, i, Gives(s, i))
    BY <1>1, ValuedRuns
  <2> QED
    BY <2>1, <2>2, DefinesNexts, EndsRecorded
<1>2. CASE i.op = "call"
  <2>1. Executed(s, i) = Called(s, i)
    BY <1>2 DEF Executed
  <2> QED
    BY <1>2, <2>1, CalledNexts
<1>3. CASE i.op = "opaque"
  <2>1. Effect(i) = 0
    BY <1>3 DEF Effect
  <2>2. Executed(s, i) = {Shows(Defines(s, i, a), Event("cond", i.sym, a)) : a \in {0, 1}}
    BY <1>3 DEF Executed
  <2>3. PICK a \in {0, 1} : u = Shows(Defines(s, i, a), Event("cond", i.sym, a))
    BY <2>2
  <2> QED
    BY <2>1, <2>3, DefinesNexts, ShowsNexts
<1>4. CASE i.op = "check" /\ s.pending
  <2>1. Effect(i) = 0
    BY <1>4 DEF Effect
  <2>2. u = IF i.exit = NoBlock THEN Ends(s, "unwound", 0) ELSE Goes(s, i.exit)
    BY <1>4 DEF Executed, Goes
  <2>3. CASE i.exit = NoBlock
    BY <2>2, <2>3, EndsRecorded
  <2>4. CASE i.exit # NoBlock
    <3>1. u = Goes(s, i.exit)
      BY <2>2, <2>4
    <3>2. u.at = i.exit /\ u.pc = 1 /\ Stays(s, u, {"at", "pc"})
      BY <3>1, StatesGo DEF Recorded
    <3>3. u.events = s.events /\ u.ended = s.ended /\ u.regions = s.regions /\ IsState(u)
      BY <3>2 DEF Stays
    <3> QED
      BY <2>1, <2>4, <3>2, <3>3 DEF Leaping, Recorded
  <2> QED
    BY <2>3, <2>4
<1>5. CASE ~Valued(i) /\ i.op \notin {"call", "opaque"} /\ ~(i.op = "check" /\ s.pending)
  <2>1. Effect(i) = 0
    BY <1>5 DEF Effect
  <2>2. u = Skips(s)
    BY <1>5 DEF Executed, Skips, Valued
  <2>3. u.pc = s.pc + 1 /\ Stays(s, u, {"pc"})
    BY <2>2, StatesSkip DEF Recorded
  <2>4. u.at = s.at /\ u.events = s.events /\ u.ended = s.ended /\ u.regions = s.regions /\ IsState(u)
    BY <2>3 DEF Stays
  <2>5. s.regions + 0 = s.regions
    OBVIOUS
  <2> QED
    BY <2>1, <2>3, <2>4, <2>5 DEF Nexts, Recorded
<1> QED
  BY <1>1, <1>2, <1>3, <1>4, <1>5

-----------------------------------------------------------------------------
\* Blocks with levels, whatever their instructions are otherwise.
Measured(bs, D, M) ==
  /\ D[Entry] = 0
  /\ \A b \in DOMAIN bs :
       /\ Len(bs[b].code) \in Nat
       /\ Walk(bs[b].code, D, D[b], M[b]) /\ Leads(bs[b].term, D, M[b])

LEMMA LevelsMeasured ==
  ASSUME NEW bs, NEW D, NEW M, Levels(bs, D, M)
  PROVE  Measured(bs, D, M)
<1>1. \A b \in DOMAIN bs : bs[b] \in SoundBlock
  BY DEF Levels
<1>2. \A b \in DOMAIN bs : Len(bs[b].code) \in Nat
  BY <1>1 DEF SoundBlock
<1> QED
  BY <1>2 DEF Levels, Measured

\* Where a run is in the code of a block that has come so many regions in.
Amid(code, D, n, m, pc, regs) ==
  \E w \in [0..Len(code) -> Int] :
    w[0] = n /\ w[Len(code)] = m /\ Paces(code, D, w) /\ pc \in 1..(Len(code) + 1) /\ regs = w[pc - 1]

\* A run has entered and not left as many regions as the levels say.
Going(bs, D, M, s) ==
  /\ Recorded(s)
  /\ Returns(s) => s.regions = 0
  /\ ~s.ended /\ s.at \in DOMAIN bs =>
       Amid(bs[s.at].code, D, D[s.at], M[s.at], s.pc, s.regions)

LEMMA AmidFirst ==
  ASSUME NEW code, Len(code) \in Nat, NEW D, NEW n, NEW m, Walk(code, D, n, m)
  PROVE  Amid(code, D, n, m, 1, n)
<1>1. 1 \in 1..(Len(code) + 1) /\ 1 - 1 = 0
  OBVIOUS
<1> QED
  BY <1>1 DEF Walk, Amid

LEMMA AmidLast ==
  ASSUME NEW code, Len(code) \in Nat, NEW D, NEW n, NEW m, NEW pc, NEW r, Amid(code, D, n, m, pc, r),
         pc > Len(code)
  PROVE  r = m
<1>1. pc \in 1..(Len(code) + 1) /\ pc - 1 = Len(code)
  BY DEF Amid
<1> QED
  BY <1>1 DEF Amid

LEMMA AmidNext ==
  ASSUME NEW code, Len(code) \in Nat, NEW D, NEW n, NEW m, NEW pc, NEW r, Amid(code, D, n, m, pc, r),
         ~(pc > Len(code))
  PROVE  /\ pc \in 1..Len(code) /\ r \in Int
         /\ Amid(code, D, n, m, pc + 1, r + Effect(code[pc]))
         /\ Effect(code[pc]) = 0 => Hands(code[pc], D, r)
<1>1. PICK w \in [0..Len(code) -> Int] :
        w[0] = n /\ w[Len(code)] = m /\ Paces(code, D, w) /\ pc \in 1..(Len(code) + 1) /\ r = w[pc - 1]
  BY DEF Amid
<1>2. pc \in 1..Len(code) /\ pc - 1 \in 0..Len(code) /\ pc + 1 \in 1..(Len(code) + 1) /\ (pc + 1) - 1 = pc
      /\ pc \in 0..Len(code)
  BY <1>1
<1>3. w[pc] = w[pc - 1] + Effect(code[pc]) /\ Hands(code[pc], D, w[pc])
  BY <1>1, <1>2 DEF Paces
<1>4. r \in Int /\ w[pc] \in Int
  BY <1>1, <1>2
<1>5. Effect(code[pc]) = 0 => w[pc] = r
  BY <1>1, <1>3, <1>4
<1>6. Amid(code, D, n, m, pc + 1, r + Effect(code[pc]))
  BY <1>1, <1>2, <1>3 DEF Amid
<1> QED
  BY <1>2, <1>3, <1>4, <1>5, <1>6

LEMMA StoppedGoing ==
  ASSUME NEW bs, NEW D, NEW M, NEW u, Stopped(u)
  PROVE  Going(bs, D, M, u)
  BY DEF Stopped, Going, Returns

\* A run comes to a block.
LEMMA ComesTo ==
  ASSUME NEW bs, NEW D, NEW M, Measured(bs, D, M), NEW u, Recorded(u), ~u.ended,
         u.pc = 1, u.regions = D[u.at]
  PROVE  Going(bs, D, M, u)
<1>1. ASSUME u.at \in DOMAIN bs
      PROVE  Amid(bs[u.at].code, D, D[u.at], M[u.at], 1, D[u.at])
  <2> DEFINE b == u.at
             code == bs[b].code
             n == D[b]
             m == M[b]
  <2>1. Len(code) \in Nat /\ Walk(code, D, n, m)
    BY <1>1 DEF Measured
  <2> HIDE DEF code, n, m
  <2>2. Amid(code, D, n, m, 1, n)
    BY <2>1, AmidFirst
  <2> QED
    BY <2>2 DEF code, n, m
<1> QED
  BY <1>1 DEF Going, Returns

LEMMA TerminatedGoing ==
  ASSUME NEW bs, NEW D, NEW M, Measured(bs, D, M), NEW s, Recorded(s), ~s.ended,
         NEW term, Leads(term, D, s.regions)
  PROVE  Going(bs, D, M, Terminated(s, term))
<1>1. ASSUME NEW b \in Targets(term)
      PROVE  Going(bs, D, M, Goes(s, b))
  <2> DEFINE u == Goes(s, b)
  <2>1. u.at = b /\ u.pc = 1 /\ Stays(s, u, {"at", "pc"})
    BY StatesGo DEF Recorded
  <2>2. b \in DOMAIN D /\ D[b] = s.regions
    BY DEF Leads
  <2> HIDE DEF u
  <2>3. u.events = s.events /\ u.ended = s.ended /\ u.regions = s.regions /\ IsState(u)
    BY <2>1 DEF Stays
  <2>4. Recorded(u)
    BY <2>3 DEF Recorded
  <2>5. Going(bs, D, M, u)
    BY <2>1, <2>2, <2>3, <2>4, ComesTo
  <2> QED
    BY <2>5 DEF u
<1>2. CASE term.kind = "jump"
  <2>1. term.yes \in Targets(term)
    BY <1>2 DEF Targets
  <2>2. Terminated(s, term) = Goes(s, term.yes)
    BY <1>2 DEF Terminated, Goes
  <2> QED
    BY <1>1, <2>1, <2>2
<1>3. CASE term.kind = "branch"
  <2>1. term.yes \in Targets(term) /\ term.no \in Targets(term)
    BY <1>3 DEF Targets
  <2>2. Terminated(s, term) = Goes(s, term.yes) \/ Terminated(s, term) = Goes(s, term.no)
    BY <1>3 DEF Terminated, Goes
  <2> QED
    BY <1>1, <2>1, <2>2
<1>4. CASE term.kind = "return"
  <2>1. Terminated(s, term) = Ends(s, "return", Operated(s, term.on)) /\ s.regions = 0
    BY <1>4 DEF Terminated, Leads
  <2> DEFINE u == Ends(s, "return", Operated(s, term.on))
  <2>2. Recorded(u) /\ u.ended /\ u.regions = s.regions
    BY EndsRecorded
  <2> HIDE DEF u
  <2>3. Going(bs, D, M, u)
    BY <2>1, <2>2 DEF Going
  <2> QED
    BY <2>1, <2>3 DEF u
<1>5. CASE term.kind \notin {"jump", "branch", "return"}
  <2>1. Terminated(s, term) = Ends(s, "trap", 0)
    BY <1>5 DEF Terminated
  <2>2. Stopped(Ends(s, "trap", 0))
    BY EndsRecorded
  <2> QED
    BY <2>1, <2>2, StoppedGoing
<1> QED
  BY <1>2, <1>3, <1>4, <1>5

LEMMA StepGoing ==
  ASSUME NEW bs, NEW D, NEW M, Measured(bs, D, M), NEW s, Going(bs, D, M, s), ~s.ended,
         NEW u \in StepMir(bs, s)
  PROVE  Going(bs, D, M, u)
<1>1. Recorded(s)
  BY DEF Going
<1>2. CASE s.at \notin DOMAIN bs
  <2>1. u = Ends(s, "lost", s.at)
    BY <1>2 DEF StepMir
  <2> QED
    BY <1>1, <2>1, EndsRecorded, StoppedGoing
<1>3. CASE s.at \in DOMAIN bs
  <2> DEFINE b == s.at
             code == bs[b].code
             term == bs[b].term
             n == D[b]
             m == M[b]
  <2>1. /\ Len(code) \in Nat /\ Walk(code, D, n, m) /\ Leads(term, D, m)
        /\ Amid(code, D, n, m, s.pc, s.regions)
    BY <1>3 DEF Measured, Going
  <2>2. u \in IF s.pc > Len(code) THEN {Terminated(s, term)}
              ELSE Executed(Noted(s, code[s.pc]), code[s.pc])
    BY <1>3 DEF StepMir
  <2> HIDE DEF code, term, n, m
  <2>3. CASE s.pc > Len(code)
    <3>1. s.regions = m /\ u = Terminated(s, term)
      BY <2>1, <2>2, <2>3, AmidLast
    <3> QED
      BY <1>1, <2>1, <3>1, TerminatedGoing
  <2>4. CASE ~(s.pc > Len(code))
    <3> DEFINE i == code[s.pc]
               t == Noted(s, i)
    <3>1. /\ s.pc \in 1..Len(code) /\ s.regions \in Int
          /\ Amid(code, D, n, m, s.pc + 1, s.regions + Effect(i))
          /\ Effect(i) = 0 => Hands(i, D, s.regions)
      BY <2>1, <2>4, AmidNext
    <3>2. u \in Executed(t, i)
      BY <2>2, <2>4
    <3>3. Stays(s, t, {"unset"})
      BY <1>1, NotedStays DEF Recorded
    <3> HIDE DEF i, t
    <3>4. /\ t.at = s.at /\ t.pc = s.pc /\ t.regions = s.regions /\ t.events = s.events
          /\ t.ended = s.ended /\ IsState(t)
      BY <3>3 DEF Stays
    <3>5. Recorded(t)
      BY <1>1, <3>4 DEF Recorded
    <3>6. Nexts(t, u, Effect(i)) \/ Stopped(u) \/ Leaping(t, i, u)
      BY <3>1, <3>2, <3>4, <3>5, ExecutedMoves
    <3>7. CASE Nexts(t, u, Effect(i))
      <4>1. /\ Recorded(u) /\ ~u.ended /\ u.at = b /\ u.pc = s.pc + 1
            /\ u.regions = s.regions + Effect(i)
        BY <3>4, <3>7 DEF Nexts
      <4>2. Amid(bs[u.at].code, D, D[u.at], M[u.at], u.pc, u.regions)
        BY <3>1, <4>1 DEF code, n, m
      <4> QED
        BY <4>1, <4>2 DEF Going, Returns
    <3>8. CASE Leaping(t, i, u)
      <4>1. /\ Recorded(u) /\ ~u.ended /\ u.at = i.exit /\ u.pc = 1 /\ u.regions = s.regions
            /\ i.exit # NoBlock /\ Effect(i) = 0
        BY <3>4, <3>8 DEF Leaping
      <4>2. D[u.at] = u.regions
        BY <3>1, <4>1 DEF Hands
      <4> QED
        BY <4>1, <4>2, ComesTo
    <3> QED
      BY <3>6, <3>7, <3>8, StoppedGoing
  <2> QED
    BY <2>3, <2>4
<1> QED
  BY <1>2, <1>3

\* However long a run is.
LEMMA RunsGoing ==
  ASSUME NEW bs, NEW D, NEW M, Measured(bs, D, M), NEW S, \A s \in S : Going(bs, D, M, s),
         NEW n \in Nat
  PROVE  \A s \in RunMir(bs, S, n) : Going(bs, D, M, s)
<1> DEFINE B == {k \in Nat : \E s \in RunMir(bs, S, k) : ~Going(bs, D, M, s)}
<1>1. 0 \notin B
  BY RunsStep
<1>2. ASSUME NEW k \in Nat, k \notin B
      PROVE  k + 1 \notin B
  <2> DEFINE R == RunMir(bs, S, k)
             Q == RunMir(bs, S, k + 1)
  <2>1. \A s \in R : Going(bs, D, M, s)
    BY <1>2
  <2>2. Q = Stepped(bs, R)
    BY RunsStep
  <2> HIDE DEF R, Q
  <2>3. ASSUME NEW u \in Q PROVE Going(bs, D, M, u)
    <3>1. PICK s \in R : u \in IF Quiet(s) THEN {s} ELSE StepMir(bs, s)
      BY <2>2, <2>3 DEF Stepped
    <3>2. Going(bs, D, M, s)
      BY <2>1
    <3>3. CASE Quiet(s)
      BY <3>1, <3>2, <3>3
    <3>4. CASE ~Quiet(s)
      <4>1. ~s.ended /\ u \in StepMir(bs, s)
        BY <3>1, <3>4 DEF Quiet
      <4> QED
        BY <3>2, <4>1, StepGoing
    <3> QED
      BY <3>3, <3>4
  <2> QED
    BY <2>3 DEF Q
<1> HIDE DEF B
<1>3. B = {}
  <2>1. B \subseteq Nat
    BY DEF B
  <2> QED
    BY <1>1, <1>2, <2>1, NoneIsFirst
<1> QED
  BY <1>3 DEF B

LEMMA RunsLeave ==
  ASSUME NEW bs, NEW D, NEW M, Measured(bs, D, M), NEW f
  PROVE  \A s \in Ran(f, bs) : Returns(s) => s.regions = 0
<1> SUFFICES ASSUME NEW s \in Ran(f, bs) PROVE Returns(s) => s.regions = 0
  OBVIOUS
<1>1. PICK i \in Arguments(f) : s \in RunMir(bs, {AsMir(f, i)}, MaxSteps)
  BY DEF Ran
<1> DEFINE s0 == AsMir(f, i)
<1>2. /\ IsState(s0) /\ s0.at = Entry /\ s0.pc = 1 /\ s0.regions = 0 /\ s0.events = <<>>
      /\ s0.ended = FALSE
  BY DEF AsMir, IsState, Fields
<1> HIDE DEF s0
<1>3. Recorded(s0)
  <2>1. <<>> \in Seq({})
    OBVIOUS
  <2> QED
    BY <1>2, <2>1 DEF Recorded
<1>4. D[s0.at] = s0.regions
  BY <1>2 DEF Measured
<1>5. Going(bs, D, M, s0)
  BY <1>2, <1>3, <1>4, ComesTo
<1>6. \A t \in {s0} : Going(bs, D, M, t)
  BY <1>5
<1> DEFINE S == {s0}
<1> HIDE DEF S
<1>7. \A t \in RunMir(bs, S, MaxSteps) : Going(bs, D, M, t)
  BY <1>6, RunsGoing, MaxStepsAssumption DEF S
<1> QED
  BY <1>1, <1>7 DEF Going, S, s0

-----------------------------------------------------------------------------
\* What the optimiser makes of a block leads through the regions as the block did.
LEMMA WalkKept ==
  ASSUME NEW c, NEW d, Len(d) = Len(c),
         \A k \in 1..Len(c) : Effect(d[k]) = Effect(c[k]) /\ d[k].exit \in {c[k].exit, NoBlock},
         NEW D, NEW n, NEW m, Walk(c, D, n, m)
  PROVE  Walk(d, D, n, m)
<1>1. PICK w \in [0..Len(c) -> Int] : w[0] = n /\ w[Len(c)] = m /\ Paces(c, D, w)
  BY DEF Walk
<1>2. ASSUME NEW k \in 1..Len(d) PROVE w[k] = w[k - 1] + Effect(d[k]) /\ Hands(d[k], D, w[k])
  <2>1. k \in 1..Len(c)
    OBVIOUS
  <2> QED
    BY <1>1, <2>1 DEF Paces, Hands
<1>3. Paces(d, D, w)
  BY <1>2 DEF Paces
<1> QED
  BY <1>1, <1>3 DEF Walk

LEMMA OptimizedMeasured ==
  ASSUME Sure, pass # "idle", NEW D, NEW M, Measured(source, D, M)
  PROVE  Measured(blocks, D, M)
<1>1. PICK K : Certified(source, blocks, K)
  BY DEF Sure, Justified
<1>2. ASSUME NEW b \in DOMAIN blocks
      PROVE  /\ Len(blocks[b].code) \in Nat
             /\ Walk(blocks[b].code, D, D[b], M[b]) /\ Leads(blocks[b].term, D, M[b])
  <2> DEFINE c == source[b].code
             d == blocks[b].code
             n == D[b]
             m == M[b]
  <2>1. /\ b \in DOMAIN source /\ blocks[b].term = source[b].term
        /\ Len(d) = Len(c) /\ Len(c) \in Nat /\ DOMAIN d = 1..Len(c)
    BY <1>1, <1>2 DEF Certified
  <2>2. \A k \in 1..Len(c) : Rewritten(K, c[k], d[k])
    BY <1>1, <1>2, <2>1 DEF Certified, Became
  <2>3. DOMAIN d = DOMAIN c
    BY <1>2 DEF Sure, IInv, SameShape
  <2>4. \A k \in 1..Len(c) : HasSideEffects(c[k]) => d[k] = c[k]
    BY <1>2, <2>1, <2>3 DEF Sure, IInv, NeededKept
  <2>5. Walk(c, D, n, m) /\ Leads(source[b].term, D, m)
    BY <2>1 DEF Measured
  <2> HIDE DEF c, d, n, m
  <2>6. ASSUME NEW k \in 1..Len(c)
        PROVE  Effect(d[k]) = Effect(c[k]) /\ d[k].exit \in {c[k].exit, NoBlock}
    <3> DEFINE was == c[k]
               is == d[k]
    <3>1. Rewritten(K, was, is) /\ (HasSideEffects(was) => is = was)
      BY <2>2, <2>4
    <3> HIDE DEF was, is
    <3>2. CASE is = was
      BY <3>2 DEF was, is
    <3>3. CASE is # was
      <4>1. was.op # "call"
        BY <3>1, <3>3 DEF HasSideEffects
      <4>2. is.op # "call" /\ is.exit = NoBlock
        <5>1. \A x, o : Copy(x, o).op # "call" /\ Copy(x, o).exit = NoBlock
          BY DEF Copy, Instr
        <5>2. Gone.op # "call" /\ Gone.exit = NoBlock
          BY DEF Gone, Instr
        <5> QED
          BY <3>1, <3>3, <5>1, <5>2 DEF Rewritten
      <4> QED
        BY <4>1, <4>2 DEF Effect, was, is
    <3> QED
      BY <3>2, <3>3
  <2>7. Walk(d, D, n, m)
    BY <2>1, <2>5, <2>6, WalkKept
  <2> QED
    BY <2>1, <2>5, <2>7 DEF d, n, m
<1> QED
  BY <1>2 DEF Measured

-----------------------------------------------------------------------------
\* The builder keeps the levels of a tidy function, and the optimiser starts from them.
RegionsInv ==
  Tidy(program) =>
    /\ ~Built => Fitting /\ Balanced
    /\ Built /\ pass = "idle" => \E D, M : Measured(blocks, D, M)
    /\ Built /\ pass # "idle" => \E D, M : Measured(source, D, M)

LEMMA ProgramStays == LowerNext => program' = program
  BY DEF LowerNext, BuildDeclaration, BuildAssignment, BuildPrint, BuildExpression, AutoReturn,
         BuildReturn, EndReturn, BuildJump, BuildEnsure, BuildTest, BuildIf, EndThen, EndElse,
         BuildWhile, EndWhile, BuildFor, EndFor, BuildRange, EndRange, BuildOnError, BeginRegion,
         EndRegion, Finish

LEMMA InitRegions == StagesInit => RegionsInv
<1> SUFFICES ASSUME StagesInit, Tidy(program) PROVE ~Built /\ Fitting /\ Balanced
  BY DEF RegionsInv
<1> QED
  BY LowerBegins, LowerOpens DEF StagesInit

LEMMA LoweringRegions == ASSUME StagesInv, RegionsInv, Lowering PROVE RegionsInv'
<1>1. LowerInv /\ Idle /\ ~Built /\ LowerNext /\ program' = program /\ pass' = pass
  BY NotBuilt, ProgramStays DEF StagesInv, Lowering
<1>2. pass' = "idle"
  BY <1>1 DEF Idle
<1> SUFFICES ASSUME Tidy(program)'
             PROVE  Fitting' /\ Balanced' /\ \E D, M : Measured(blocks', D, M)
  BY <1>2 DEF RegionsInv
<1>3. Tidy(program)
  BY <1>1 DEF Tidy
<1>4. Fitting /\ Balanced
  BY <1>1, <1>3 DEF RegionsInv
<1>5. Fitting' /\ Balanced'
  BY <1>1, <1>3, <1>4, LowerFits, LowerBalances
<1>6. \E D, M : Levels(blocks', D, M)
  BY <1>5 DEF Balanced, Here, Paced
<1> QED
  BY <1>5, <1>6, LevelsMeasured

LEMMA OptimizingRegions == ASSUME StagesInv, RegionsInv, Optimizing PROVE RegionsInv'
<1>1. Built /\ Built' /\ program' = program /\ Next
  BY DEF Optimizing, Built, lowerVars
<1> SUFFICES ASSUME Tidy(program)'
             PROVE  pass' # "idle" /\ \E D, M : Measured(source', D, M)
  BY <1>1 DEF RegionsInv
<1>2. Tidy(program)
  BY <1>1 DEF Tidy
<1>3. CASE StartRound
  <2>1. source' = (IF pass = "idle" THEN blocks ELSE source) /\ pass' = "fold"
    BY <1>3 DEF StartRound
  <2> QED
    BY <1>1, <1>2, <2>1 DEF RegionsInv
<1>4. CASE ~StartRound
  <2>1. source' = source /\ pass # "idle" /\ pass' # "idle"
    BY <1>1, <1>4 DEF Next, FoldBlock, FoldInstruction, StartMarking, MarkLive, RemoveDead, ReachBlock,
                      RemoveUnreachable
  <2> QED
    BY <1>1, <1>2, <2>1 DEF RegionsInv
<1> QED
  BY <1>3, <1>4

LEMMA StepRegions ==
  StagesInv /\ RegionsInv /\ [StagesNext]_<<vars, lowerVars>> => RegionsInv'
<1> SUFFICES ASSUME StagesInv, RegionsInv, [StagesNext]_<<vars, lowerVars>> PROVE RegionsInv'
  OBVIOUS
<1>1. CASE UNCHANGED <<vars, lowerVars>>
  <2>1. UNCHANGED <<program, agenda, current, nextBlock, loops, regions, ensures, blocks, source, pass>>
    BY <1>1 DEF vars, lowerVars
  <2> QED
    BY <2>1 DEF RegionsInv, Tidy, Built, Fitting, Balanced, Here, Neat
<1> QED
  BY <1>1, LoweringRegions, OptimizingRegions DEF StagesNext

\* Whatever a tidy function does, and however it was optimised, when it returns it has left
\* every error region it entered: through a handler, from inside what one guards, behind a jump
\* out of a loop inside it (statements.rs, leave_error_regions; expressions.rs, the check of a
\* call).  At each place of the code the same number of regions is open, whichever way the run
\* came there (Levels); the agenda says which number that will be at what is still to build.
THEOREM RegionsLeft == StagesSpec => []RegionsPaired
<1>1. ASSUME StagesInv, RegionsInv PROVE RegionsPaired
  <2> SUFFICES ASSUME Built, Tidy(program)
               PROVE  \A s \in Ran(program, blocks) : Returns(s) => s.regions = 0
    BY DEF RegionsPaired
  <2>1. \E D, M : Measured(blocks, D, M)
    <3>1. Sure
      BY <1>1 DEF StagesInv
    <3> QED
      BY <1>1, <3>1, OptimizedMeasured DEF RegionsInv
  <2> QED
    BY <2>1, RunsLeave
<1>2. StagesInv /\ RegionsInv /\ [StagesNext]_<<vars, lowerVars>> => (StagesInv /\ RegionsInv)'
  BY StepStages, StepRegions
<1> QED
  BY <1>1, <1>2, InitStages, InitRegions, PTL DEF StagesSpec

=============================================================================
