---------------------------- MODULE MirPipeline ----------------------------
(***************************************************************************)
(* A function on its way through MIR: it is lowered, and then optimised as *)
(* far as its level says, and made into structured code.  What comes out   *)
(* must do what the function says.                                         *)
(***************************************************************************)
EXTENDS MirStages, WasmMeaning

VARIABLE code         \* what is emitted of the function, once it is

NotEmitted == [is |-> "not emitted", items |-> <<>>]
Emitted == code # NotEmitted

\* The function goes to code generation, which can refuse it.
Generating ==
  /\ Built /\ Optimized /\ ~Emitted
  /\ LET g == Generated(Flow(blocks, merges, labels), program.void)
     IN code' = [is |-> IF g.failed THEN "refused" ELSE "emitted", items |-> g.items]
  /\ UNCHANGED <<vars, lowerVars>>

Finished == Emitted /\ UNCHANGED <<vars, lowerVars, code>>

PipelineInit == StagesInit /\ code = NotEmitted
PipelineNext ==
  \/ StagesNext /\ UNCHANGED code
  \/ Generating
  \/ Finished
PipelineSpec == PipelineInit /\ [][PipelineNext]_<<vars, lowerVars, code>>

-----------------------------------------------------------------------------
\* Where the function can be looked at as a whole: when it is built, and after a round.
Whole == Built /\ ~Emitted /\ pass \in {"idle", "end"}

\* A function prints, calls and ends as it was written: no statement is lost or done twice,
\* an error that is raised ends in the handler that guards it, and no fold, removal or
\* order of folding changes what is seen.
MeaningKept == Whole => AsRun(program, blocks) = Written(program)

\* Some path through the body of every loop ends in the next iteration.
RECURSIVE RunsOn(_), Continues(_), LoopsRepeat(_)
RunsOn(body) ==
  \A s \in Range(body) : /\ s.kind \notin {"break", "continue", "return"}
                         /\ s.kind = "if" => RunsOn(s.body) \/ RunsOn(s.other)
Continues(body) ==
  \E s \in Range(body) : \/ s.kind = "continue"
                         \/ s.kind \in {"if", "onError"} /\ (Continues(s.body) \/ Continues(s.other))
LoopsRepeat(body) ==
  \A s \in Range(body) :
    /\ s.kind \in {"while", "for", "range"} => RunsOn(s.body) \/ Continues(s.body)
    /\ LoopsRepeat(s.body) /\ LoopsRepeat(s.other)

\* The code that is emitted does what the function says: every statement is emitted, on the
\* paths it is on and no others, and each break, continue, return and raised error leaves the
\* blocks, loops and ifs it has to leave, however they are nested.
\* (A loop that no path goes round is not taken for a loop, and a break out of it is lost.)
CodeMeaningKept ==
  Emitted /\ LoopsRepeat(program.body)
    => code.is = "emitted" /\ AsRunCode(program, code) = Written(program)

Raises(s) == \E i \in DOMAIN s.events : s.events[i].kind = "raise"

\* A function that returns has left each scope of the arena it entered, through the end of
\* an iteration, a break or a continue, and left none twice: a scope that is left too often
\* releases memory of the caller.  (An error that leaves a loop skips the pop.)
ScopesPaired ==
  Whole => \A s \in Ran(program, blocks) : Returns(s) /\ ~Raises(s) => s.scopes = 0 /\ s.low = 0

-----------------------------------------------------------------------------
\* A method of a class with `always` conditions never returns without having tested them
\* (always_invariant_enforced_at_method_return.cln).
ContractsTested ==
  Whole => \A s \in Ran(program, blocks) : Returns(s) =>
             \A i \in DOMAIN program.invariants :
               Event("cond", program.invariants[i].sym, 1) \in {s.events[k] : k \in DOMAIN s.events}

=============================================================================
