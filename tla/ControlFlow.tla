---------------------------- MODULE ControlFlow ----------------------------
(***************************************************************************)
(* What the generation of structured code asks of a function's flow graph: *)
(* which blocks head a loop, what an if has for an else, and where the two *)
(* arms of an if meet again.  A function is a record of its blocks, of the *)
(* merges the lowering wrote down for ifs, of the labels of blocks, and of *)
(* its loop headers.  `loops` are the loops whose code is being emitted.   *)
(***************************************************************************)
EXTENDS MirFunction

Ending(f, b) == IF b \in DOMAIN f.blocks THEN f.blocks[b].term.kind ELSE "none"
Label(f, b)  == IF b \in DOMAIN f.labels THEN f.labels[b] ELSE ""
Successors(f, b) ==
  CASE Ending(f, b) = "jump"   -> <<f.blocks[b].term.yes>>
    [] Ending(f, b) = "branch" -> <<f.blocks[b].term.yes, f.blocks[b].term.no>>
    [] OTHER -> <<>>

-----------------------------------------------------------------------------
\* Loop headers: the targets of the back edges of a depth-first search from the entry.
RECURSIVE Search(_, _, _)
Search(f, b, found) ==
  LET entered == [found EXCEPT !.visited = @ \cup {b}, !.stack = @ \cup {b}]
      Visit(s, next) == IF next \in s.stack THEN [s EXCEPT !.headers = @ \cup {next}]
                        ELSE IF next \in s.visited THEN s ELSE Search(f, next, s)
  IN [FoldLeft(Visit, entered, Successors(f, b)) EXCEPT !.stack = @ \ {b}]

Flow(bs, merges, labels) ==
  LET f == [blocks |-> bs, merges |-> merges, labels |-> labels]
  IN [headers |-> Search(f, Entry, [visited |-> {}, stack |-> {}, headers |-> {}]).headers] @@ f

\* The block is where a loop's header goes when the loop is over.
IsLoopExit(f, b) == \E h \in f.headers : Ending(f, h) = "branch" /\ f.blocks[h].term.no = b

\* The block that goes back to the header: of several, the first that was reserved.
IncrementBlock(f, body, header) ==
  LET back == {b \in DOMAIN f.blocks : /\ Ending(f, b) = "jump"
                                       /\ f.blocks[b].term.yes = header
                                       /\ b > body /\ b > header}
  IN IF back = {} THEN NoBlock ELSE Min(back)

-----------------------------------------------------------------------------
\* A jump to the block is a break or continue of a loop that is being emitted.
EndsIteration(loops, b) ==
  \E i \in DOMAIN loops : b \in {loops[i].header, loops[i].exit, loops[i].cont}

\* Every path from the block returns or traps, without a jump.
RECURSIVE ReturnsFrom(_, _, _)
ReturnsFrom(f, b, seen) ==
  IF b \in seen THEN [all |-> FALSE, seen |-> seen]
  ELSE IF Ending(f, b) # "branch"
  THEN [all |-> Ending(f, b) \in {"return", "trap"}, seen |-> seen \cup {b}]
  ELSE LET t == f.blocks[b].term
           yes == ReturnsFrom(f, t.yes, seen \cup {b})
       IN IF yes.all THEN ReturnsFrom(f, t.no, yes.seen) ELSE yes
DirectlyReturns(f, b) == ReturnsFrom(f, b, {}).all

\* The blocks of a walk that goes from b to Next(b).
Walk(f, Next(_), from) ==
  LET seen[n \in Nat] == IF n = 0 THEN {from}
                         ELSE LET fewer == seen[n - 1] IN fewer \cup UNION {Next(b) : b \in fewer}
  IN seen[Cardinality(DOMAIN f.blocks)]

\* Within an iteration control can pass from one block to the other.
FlowsTo(f, loops, from, to) ==
  LET Next(b) == {c \in Range(Successors(f, b)) : ~EndsIteration(loops, c)}
  IN ~EndsIteration(loops, from) /\ \E b \in Walk(f, Next, from) : to \in Range(Successors(f, b))

EventuallyJumps(f, loops, from, to) ==
  LET Next(b) == {c \in Range(Successors(f, b)) : Ending(f, b) = "branch" \/ ~EndsIteration(loops, c)}
  IN \E b \in Walk(f, Next, from) : Ending(f, b) = "jump" /\ to = f.blocks[b].term.yes

-----------------------------------------------------------------------------
\* Past blocks that hold nothing but a jump.
RECURSIVE Chased(_, _, _)
Chased(f, b, seen) ==
  IF b \in seen \/ Ending(f, b) # "jump" \/ f.blocks[b].code # <<>> THEN b
  ELSE Chased(f, f.blocks[b].term.yes, seen \cup {b})

\* Where the paths from a block jump to, without those that return, break or continue.  A
\* loop on the way is part of the path, which goes on where the loop ends.
RECURSIVE Collected(_, _, _, _)
Collected(f, loops, b, found) ==
  LET t == f.blocks[b].term
      entered == [found EXCEPT !.visited = @ \cup {b}]
      dest == Chased(f, t.yes, {})
      jumps == Ending(f, b) = "jump" /\ ~EndsIteration(loops, t.yes)
      intoLoop == jumps /\ t.yes \in f.headers /\ Ending(f, t.yes) = "branch"
  IN IF b \in found.visited THEN found
     ELSE IF Ending(f, b) = "branch"
     THEN Collected(f, loops, t.no, Collected(f, loops, t.yes, entered))
     ELSE IF intoLoop
     THEN Collected(f, loops, f.blocks[t.yes].term.no, [entered EXCEPT !.visited = @ \cup {t.yes}])
     ELSE IF jumps /\ ~\E i \in DOMAIN loops : dest = loops[i].cont
     THEN [entered EXCEPT !.targets = @ \cup {dest}]
     ELSE entered

\* The candidates that are not on the way to another candidate, taken one after the other.
Farthest(f, exits) ==
  LET Next(c) == IF Ending(f, c) = "jump" THEN {f.blocks[c].term.yes} ELSE {}
      left[c \in Nat] ==
        LET others == IF c = 0 THEN exits ELSE left[c - 1]
        IN IF c \in others /\ Walk(f, Next, c) \cap (others \ {c}) # {} THEN others \ {c} ELSE others
  IN left[Max(exits \cup {0})]

Sole(candidates) == IF Cardinality(candidates) = 1 THEN CHOOSE c \in candidates : TRUE ELSE NoBlock
Outside(found) == found.targets \ found.visited

\* Where the paths from a block go on together, if there is one such block: not inside what
\* was walked through.
EventualContinuation(f, loops, b) ==
  Sole(Farthest(f, Outside(Collected(f, loops, b, [visited |-> {}, targets |-> {}]))))

\* Of the continuations of two arms the one the other leads to.
IfMerge(f, loops, yes, no) ==
  IF yes = NoBlock \/ (no \notin {NoBlock, yes} /\ FlowsTo(f, loops, yes, no)) THEN no ELSE yes

\* The merge the lowering wrote down for the if that ends in block b.
RecordedMerge(f, b) ==
  LET no == f.blocks[b].term.no
  IN IF b \in DOMAIN f.merges /\ (f.merges[b] = no \/ Label(f, no) = "else") THEN f.merges[b]
     ELSE NoBlock

HasIncoming(f, b) == \E c \in DOMAIN f.blocks : b \in Range(Successors(f, c))

\* The false target of a branch is what follows it, and no else.
FollowsIf(f, loops, yes, no) ==
  LET term == f.blocks[no].term
      Exit(b) == \E i \in DOMAIN loops : b = loops[i].exit
      empty == f.blocks[no].code = <<>>
  IN /\ no \in DOMAIN f.blocks /\ Label(f, no) # "else"
     /\ \/ Label(f, no) = "continue"
        \/ empty /\ term.kind = "unreachable"
        \/ empty /\ term.kind = "jump" /\ ~Exit(term.yes)
        \/ empty /\ term = Return(Constant(Undefined))
        \/ Ending(f, yes) = "jump" /\ (f.blocks[yes].term.yes = no \/ Exit(f.blocks[yes].term.yes))
        \/ EventuallyJumps(f, loops, yes, no)
        \/ Cardinality({c \in DOMAIN f.blocks : no \in Range(Successors(f, c))}) > 1

=============================================================================
