-------------------------- MODULE AccumulatorLoop --------------------------
(***************************************************************************)
(* What a loop promises, whatever the compiler makes of it: one iteration  *)
(* after the other changes the three strings as the source says, and they  *)
(* are still there when the loop has ended.                                *)
(***************************************************************************)
EXTENDS LoopProgram

CONSTANTS
    Programs,       \* the programs, records with a body
    Iterations      \* bound: iterations of a loop that does not break

VARIABLES
    program,
    inputs,         \* the input of each iteration
    iteration,      \* iterations that are over
    texts,          \* the strings between iterations
    status

vars == <<program, inputs, iteration, texts, status>>

Init ==
    /\ program \in Programs
    /\ inputs \in [1..Iterations -> BOOLEAN]
    /\ iteration = 0
    /\ texts = Initial
    /\ status = "looping"

Iterate ==
    LET n   == iteration + 1
        end == Iteration(program.body, texts, inputs[n], n)
    IN /\ status = "looping"
       /\ iteration' = n
       /\ texts' = [v \in Outer |-> end.text[v]]
       /\ status' = IF end.jump = "break" \/ n = Iterations THEN "left" ELSE "looping"
       /\ UNCHANGED <<program, inputs>>

Finish ==
    /\ status = "left"
    /\ status' = "done"
    /\ UNCHANGED <<program, inputs, iteration, texts>>

Next == Iterate \/ Finish

Spec == Init /\ [][Next]_vars
=============================================================================
