----------------------------- MODULE MirStages -----------------------------
(***************************************************************************)
(* The two stages in which the blocks of a function are made: they are     *)
(* built, and then optimised as far as the level of the function says.     *)
(***************************************************************************)
EXTENDS MirBuilder, MirOptimizer, MirRuns

Lowering ==
  /\ LowerNext
  /\ UNCHANGED <<level, source, pass, round, changed, foldVars, markVars, reachVars>>

Optimizing == Built /\ Next /\ UNCHANGED lowerVars

StagesInit == LowerInit /\ level = program.level /\ Idle
StagesNext == Lowering \/ Optimizing
StagesSpec == StagesInit /\ [][StagesNext]_<<vars, lowerVars>>

\* What the optimiser is given is a function whose jumps go to blocks it has and whose
\* entry is there, whatever was reserved and abandoned on the way; and it stays one.
PipelineTypeOK ==
  /\ TypeOK
  /\ Built => WellFormed(blocks)

-----------------------------------------------------------------------------
\* A function the passes are meant for.  Every handler a check leaves for was found by the
\* search, which follows terminators only; what was removed shows nothing (a division can trap
\* although dead code elimination takes it for pure); no parameter is assigned a constant; and
\* no operator reads a value before the instruction that defines it.
Ordinary ==
  /\ \A i \in Code(blocks) : i.exit \in DOMAIN blocks \cup {NoBlock}
  /\ \A b \in DOMAIN blocks : \A i \in DOMAIN source[b].code :
       blocks[b].code[i] = Gone =>
         source[b].code[i].op # "opaque" /\ source[b].code[i].sym \notin {"div", "rem"}
  /\ \A i \in Code(source) : Learns(i) => i.dest \notin DOMAIN program.params
  /\ \A s \in Ran(program, source) : ~s.unset

\* Optimised, a function shows what it showed as it was built, for every outcome of its calls
\* and conditions: no round of folding, in whatever order it visits the blocks, and no removal
\* changes what is printed, which calls are made, or how the function ends
\* (optimization.rs, "exactly what the unoptimized WASM computes").
OptimizingKept == pass = "end" /\ Ordinary => AsRun(program, blocks) = AsRun(program, source)

-----------------------------------------------------------------------------
\* A function in which nothing is behind a jump, neither a statement nor the test of a state
\* rule, and no loop over a list ends in one; which calls nothing that can raise in a condition
\* of its returns; and which does not call what counts the regions.
Quits      == {"return", "break", "continue"}
Live(list) == \A k \in 1..(Len(list) - 1) : list[k].kind \notin Quits
FallsThrough(list) == list = <<>> \/ list[Len(list)].kind \notin Quits
Fair(e)    == e.sym \notin {"__err_enter", "__err_leave"}
Tidy(p) ==
  /\ Live(p.body)
  /\ p.rules # <<>> => FallsThrough(p.body)
  /\ \A e \in Range(p.rules) : Fair(e)
  /\ \A e \in Range(p.invariants) : Fair(e) /\ e.kind # "call"
  /\ \A s \in Inside(p.body) :
       /\ Live(s.body) /\ Live(s.other)
       /\ s.kind = "for" => FallsThrough(s.body)
       /\ Fair(s.expr) /\ Fair(s.upto)
       /\ s.kind = "ensure" => s.expr.kind # "call"

Returns(s) == s.ended /\ Last(s.events).kind = "return"

\* However a function returns, through a handler or from inside what one guards, it has left
\* every error region it entered: an error the caller raises later would be taken by a
\* region that is gone.
RegionsPaired ==
  Built /\ pass \in {"idle", "end"} /\ Tidy(program) =>
    \A s \in Ran(program, blocks) : Returns(s) => s.regions = 0

=============================================================================
