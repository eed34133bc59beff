---------------------------- MODULE WasmMeaning ----------------------------
(***************************************************************************)
(* What the emitted code of a function does, in the terms of MirMeaning.   *)
(* A run is at a position of the code and inside constructs, the innermost *)
(* last; a branch by n levels goes to the end of the n-th construct from   *)
(* there, or to its beginning when that is a loop.                         *)
(***************************************************************************)
EXTENDS MirMeaning, StructuredCode

Constructs == {"block", "loop", "if", "ifPending"}

\* The end and the else of each construct, by where it begins.
Matched(items) ==
  LET Next(s, i) ==
        CASE items[i].is \in Constructs -> [s EXCEPT !.open = Append(@, i)]
          [] items[i].is = "else" -> [s EXCEPT !.elses = (Last(s.open) :> i) @@ @]
          [] items[i].is = "end" -> [s EXCEPT !.ends = (Last(s.open) :> i) @@ @, !.open = Front(@)]
          [] OTHER -> s
  IN FoldLeft(Next, [open |-> <<>>, ends |-> <<>>, elses |-> <<>>], [i \in DOMAIN items |-> i])

AsCode(f, inputs) == [within |-> <<>>] @@ AsMir(f, inputs)

Goes(s, pc)  == [s EXCEPT !.pc = pc]
Enters(s)    == [Goes(s, s.pc + 1) EXCEPT !.within = Append(@, s.pc)]

\* A branch to the outermost level, the function, is never emitted.
BranchesBy(items, match, s, n) ==
  LET target == s.within[Len(s.within) - n]
      out == [s EXCEPT !.within = SubSeq(@, 1, Len(@) - n - 1)]
  IN IF n \notin 0..(Len(s.within) - 1) THEN Ends(s, "lost", n)
     ELSE IF items[target].is = "loop" THEN Goes(out, target)
     ELSE Goes(out, match.ends[target] + 1)

Chooses(match, s, yes) ==
  IF yes THEN Enters(s)
  ELSE IF s.pc \in DOMAIN match.elses
  THEN [Goes(s, match.elses[s.pc] + 1) EXCEPT !.within = Append(@, s.pc)]
  ELSE Goes(s, match.ends[s.pc] + 1)

StepCode(f, items, match, s) ==
  LET item == items[s.pc]
      on == Operated(s, item.on)
  IN IF s.pc > Len(items) THEN {Ends(s, "return", 0)}
     ELSE IF item.is = "do" THEN Executed(s, item.instr)
     ELSE {CASE item.is \in {"block", "loop"} -> Enters(s)
             [] item.is = "if" -> Chooses(match, s, on = 1)
             [] item.is = "ifPending" -> Chooses(match, s, s.pending)
             [] item.is = "else" -> Goes(s, match.ends[Last(s.within)])
             [] item.is = "end" -> [Goes(s, s.pc + 1) EXCEPT !.within = Front(@)]
             [] item.is = "br" -> BranchesBy(items, match, s, item.n)
             [] item.is = "brUnless" ->
                  IF on = 1 THEN Goes(s, s.pc + 1) ELSE BranchesBy(items, match, s, item.n)
             [] item.is = "return" -> Ends(s, "return", on)
             [] item.is = "unwind" -> Ends(s, "unwound", 0)
             [] item.is = "unreachable" -> Ends(s, "trap", 0)}

RECURSIVE RunCode(_, _, _, _, _)
RunCode(f, items, match, states, steps) ==
  IF steps = 0 \/ \A s \in states : Quiet(s) THEN states
  ELSE RunCode(f, items, match,
               UNION {IF Quiet(s) THEN {s} ELSE StepCode(f, items, match, s) : s \in states},
               steps - 1)

\* The runs of the emitted code from each of the function's arguments.
AsRunCode(f, code) ==
  LET match == Matched(code.items)
  IN [i \in Arguments(f) |-> Shown(RunCode(f, code.items, match, {AsCode(f, i)}, 3 * MaxSteps))]

=============================================================================
