--------------------------- MODULE RewrittenLoop ---------------------------
(***************************************************************************)
(* The rewritten loop at run time.  NativeHeap shows that live blocks keep *)
(* their bytes; here the question is whether the compiled program only     *)
(* reads live blocks, and whether it computes what the source says.        *)
(*                                                                         *)
(* A string value is a pointer: the region it points into, its height      *)
(* there, the text it was built from, and whether its bytes still belong   *)
(* to it.  Heap and pool are stacks of blocks: a pop to a mark ends the    *)
(* life of every value above it.  The arena scopes of the host rewind the  *)
(* same heap (wasmtime_runner.rs, wasm_adapter.rs).                        *)
(***************************************************************************)
EXTENDS AccumulatorPasses

CONSTANTS
    Programs,       \* records [body, early]
    Iterations,     \* bound: iterations of a loop that does not break
    PoolSlots       \* strings that fit into the transient pool

VARIABLES
    program, inputs, iteration, texts,
    code,           \* the compiled program
    stage,          \* what runs: prologue, body, breaking, epilogue, done
    todo,           \* the statements that are left of it
    env,            \* the value of each string local
    marks,          \* the value of each mark local
    heapTop, poolTop,
    arena,          \* the host's SCOPE_MARKS
    dangling        \* whether a value has been read after its bytes were freed

vars == <<program, inputs, iteration, texts, code, stage, todo, env, marks,
          heapTop, poolTop, arena, dangling>>

memory == <<heapTop, poolTop, arena>>

Garbage == <<"garbage", 0>>

Value(region, at, text) == [region |-> region, at |-> at, text |-> text, live |-> TRUE]

Content(value) == IF value.live THEN value.text ELSE <<Garbage>>

\* A pop to a mark takes the bytes of every value above it.
Freed(values, region, mark) ==
    [v \in DOMAIN values |->
        IF values[v].region = region /\ values[v].at > mark
        THEN [values[v] EXCEPT !.live = FALSE] ELSE values[v]]

VarsOf(chain) == {atom.name : atom \in {a \in Range(chain) : a.kind = "var"}}

ReadsFreed(names) == \E v \in names : ~env[v].live

ContentOf(chain) ==
    TextOf(chain, [v \in VarsOf(chain) |-> Content(env[v])],
           IF stage = "prologue" THEN 0 ELSE iteration + 1)

Is(op) == todo # <<>> /\ Head(todo).op = op

Continuing(rest) ==
    /\ todo' = rest
    /\ UNCHANGED <<program, inputs, iteration, texts, code, stage>>

-----------------------------------------------------------------------------
\* Heap blocks and pool slots that evaluating a chain takes: one for each call,
\* one for each concatenation.  A full pool spills to the heap.
SetString ==
    LET s       == Head(todo)
        calls   == Cardinality({i \in DOMAIN s.chain : s.chain[i].kind \in {"method", "call"}})
        concats == Len(s.chain) - 1
        pooled  == s.transient /\ poolTop + concats <= PoolSlots
        onHeap  == heapTop + calls + (IF pooled THEN 0 ELSE concats)
        only    == s.chain[1]
        value   == IF concats = 0
                   THEN CASE only.kind = "var" -> env[only.name]
                          [] only.kind = "lit" -> Value("static", 0, ContentOf(s.chain))
                          [] OTHER             -> Value("heap", onHeap, ContentOf(s.chain))
                   ELSE IF pooled THEN Value("pool", poolTop + concats, ContentOf(s.chain))
                                  ELSE Value("heap", onHeap, ContentOf(s.chain))
    IN /\ Is("assign") \/ Is("decl")
       /\ env' = (s.var :> value) @@ env
       /\ heapTop' = onHeap
       /\ poolTop' = IF pooled THEN poolTop + concats ELSE poolTop
       /\ dangling' = (dangling \/ (concats > 0 /\ ReadsFreed(VarsOf(s.chain))))
       /\ Continuing(Tail(todo))
       /\ UNCHANGED <<marks, arena>>

Branch ==
    LET s    == Head(todo)
        text == [v \in Range(s.guard) |-> Content(env[v])]
    IN /\ Is("if")
       /\ Continuing((IF Holds(s.guard, text, inputs[iteration + 1]) THEN s.then ELSE s.else)
                        \o Tail(todo))
       /\ dangling' = (dangling \/ ReadsFreed(Range(s.guard)))
       /\ UNCHANGED <<env, marks, memory>>

RepeatTwice ==
    /\ Is("repeat")
    /\ Continuing(Head(todo).body \o Head(todo).body \o Tail(todo))
    /\ UNCHANGED <<env, marks, memory, dangling>>

\* continue and break leave every scope of the iteration open.
Jump ==
    /\ Is("continue") \/ Is("break")
    /\ todo' = <<>>
    /\ stage' = IF Is("break") THEN "breaking" ELSE stage
    /\ UNCHANGED <<program, inputs, iteration, texts, code, env, marks, memory, dangling>>

-----------------------------------------------------------------------------
(* Scopes.                                                                 *)

\* _arena_scope_push hands out the depth as a handle ...
ArenaScopePush ==
    /\ Is("arena_push")
    /\ arena' = Append(arena, heapTop)
    /\ marks' = (Head(todo).mark :> Len(arena')) @@ marks
    /\ Continuing(Tail(todo))
    /\ UNCHANGED <<env, heapTop, poolTop, dangling>>

\* ... and _arena_scope_pop goes back to it, past the scopes a jump left open.
ArenaScopePop ==
    LET handle == marks[Head(todo).mark]
        mark   == arena[handle]
    IN /\ Is("arena_pop")
       /\ IF handle <= Len(arena)
          THEN /\ arena' = SubSeq(arena, 1, handle - 1)
               /\ heapTop' = mark
               /\ env' = Freed(env, "heap", mark)
          ELSE UNCHANGED <<arena, heapTop, env>>
       /\ Continuing(Tail(todo))
       /\ UNCHANGED <<marks, poolTop, dangling>>

EnterTransientScope ==
    /\ Is("enter")
    /\ marks' = (Head(todo).mark :> poolTop) @@ marks
    /\ Continuing(Tail(todo))
    /\ UNCHANGED <<env, memory, dangling>>

ExitTransientScope ==
    LET mark == marks[Head(todo).mark]
    IN /\ Is("exit")
       /\ poolTop' = mark
       /\ env' = Freed(env, "pool", mark)
       /\ Continuing(Tail(todo))
       /\ UNCHANGED <<marks, heapTop, arena, dangling>>

PushScope ==
    /\ Is("push")
    /\ marks' = (Head(todo).mark :> heapTop) @@ marks
    /\ Continuing(Tail(todo))
    /\ UNCHANGED <<env, memory, dangling>>

\* scope_pop_keeping: the kept string is copied to the mark, and only the local
\* it was read from learns its new address.
PopScopeKeeping ==
    LET s    == Head(todo)
        mark == marks[s.mark]
    IN /\ Is("keep")
       /\ heapTop' = mark + 1
       /\ env' = (s.var :> Value("heap", mark + 1, Content(env[s.var])))
                    @@ Freed(env, "heap", mark)
       /\ dangling' = (dangling \/ ReadsFreed({s.var}))
       /\ Continuing(Tail(todo))
       /\ UNCHANGED <<marks, poolTop, arena>>

-----------------------------------------------------------------------------
(* The builder.                                                            *)

NewBuilder ==
    /\ Is("new")
    /\ heapTop' = heapTop + 1
    /\ env' = ("sb" :> Value("heap", heapTop + 1, <<>>)) @@ env
    /\ Continuing(Tail(todo))
    /\ UNCHANGED <<marks, poolTop, arena, dangling>>

\* The fragment goes behind the builder's text, in place when it fits, else in a
\* larger builder on top of the heap.
AppendToBuilder ==
    LET chain == Head(todo).chain
    IN /\ Is("append")
       /\ \E moves \in BOOLEAN :
             /\ heapTop' = IF moves THEN heapTop + 1 ELSE heapTop
             /\ env' = ("sb" :> [env["sb"] EXCEPT
                                    !.at   = IF moves THEN heapTop + 1 ELSE @,
                                    !.live = @ \/ moves,
                                    !.text = Content(env["sb"]) \o ContentOf(chain)]) @@ env
       /\ dangling' = (dangling \/ ReadsFreed({"sb"} \cup VarsOf(chain)))
       /\ Continuing(Tail(todo))
       /\ UNCHANGED <<marks, poolTop, arena>>

\* The string is the builder's own block, past its capacity word.
FinalizeBuilder ==
    /\ Is("finalize")
    /\ env' = (Head(todo).var :> env["sb"]) @@ env
    /\ Continuing(Tail(todo))
    /\ UNCHANGED <<marks, memory, dangling>>

-----------------------------------------------------------------------------
(* The loop around the body.                                               *)

\* What a reader of v would see; while the builder stands for an accumulator
\* there is no string of its name.
Observed(v) == Content(IF v \in DOMAIN env THEN env[v] ELSE env["sb"])

EnterLoop ==
    /\ stage = "prologue" /\ todo = <<>>
    /\ stage' = "body" /\ todo' = code.body
    /\ UNCHANGED <<program, inputs, iteration, texts, code, env, marks, memory, dangling>>

EndIteration ==
    LET over == stage = "breaking" \/ iteration + 1 = Iterations
    IN /\ stage \in {"body", "breaking"} /\ todo = <<>>
       /\ iteration' = iteration + 1
       /\ texts' = [v \in Outer |-> Observed(v)]
       /\ stage' = IF over THEN "epilogue" ELSE "body"
       /\ todo' = IF over THEN code.epilogue ELSE code.body
       /\ UNCHANGED <<program, inputs, code, env, marks, memory, dangling>>

Return ==
    /\ stage = "epilogue" /\ todo = <<>>
    /\ stage' = "done"
    /\ texts' = [v \in Outer |-> Observed(v)]
    /\ UNCHANGED <<program, inputs, iteration, code, todo, env, marks, memory, dangling>>

Init ==
    /\ program \in Programs
    /\ inputs \in [1..Iterations -> BOOLEAN]
    /\ code = Compile(program)
    /\ iteration = 0
    /\ texts = Initial
    /\ stage = "prologue"
    /\ todo = code.prologue
    /\ env = <<>> /\ marks = <<>>
    /\ heapTop = 0 /\ poolTop = 0
    /\ arena = <<>>
    /\ dangling = FALSE

Next ==
    \/ SetString \/ Branch \/ RepeatTwice \/ Jump
    \/ ArenaScopePush \/ ArenaScopePop
    \/ EnterTransientScope \/ ExitTransientScope
    \/ PushScope \/ PopScopeKeeping
    \/ NewBuilder \/ AppendToBuilder \/ FinalizeBuilder
    \/ EnterLoop \/ EndIteration \/ Return

Spec == Init /\ [][Next]_vars

-----------------------------------------------------------------------------
(* Properties.                                                             *)

Jumps == \E s \in Range(Leaves(program.body)) : s \in {Continue, Break}

\* Heights, marks and values are what they should be, and every live value lies
\* below the top of its region.
TypeOK ==
    /\ stage \in {"prologue", "body", "breaking", "epilogue", "done"}
    /\ heapTop \in Nat /\ poolTop \in 0..PoolSlots
    /\ arena \in Seq(Nat)
    /\ \A v \in DOMAIN env : env[v].live =>
          CASE env[v].region = "heap" -> env[v].at \in 1..heapTop
            [] env[v].region = "pool" -> env[v].at \in 1..poolTop
            [] OTHER -> env[v].region = "static" /\ env[v].at = 0

\* The compiled loop does what the source says: iteration by iteration, and
\* after the scopes around it are popped, each string holds the appended
\* fragments in source order.
Promise == INSTANCE AccumulatorLoop WITH
    status <- CASE stage \in {"prologue", "body", "breaking"} -> "looping"
                [] stage = "epilogue" -> "left"
                [] OTHER -> "done"

LoopMeaning == Promise!Spec

\* No concatenation, test, append or copy reads a string whose bytes a scope has
\* given back ("making their pointers dangle before the post-pop accumulation
\* step can read them").
NoDanglingRead == ~dangling

\* Without a jump every iteration gives back what it took for itself: no arena
\* scope stays open and the pool is empty.
RegionsReleased ==
    (todo = <<>> /\ stage \in {"body", "epilogue", "done"} /\ ~Jumps) =>
        arena = <<>> /\ poolTop = 0

\* accumulator_loop_keeps_outer_string_assignments.cln: "string values assigned
\* to a variable declared outside a loop stay valid after the loop".
OuterStringsValid == stage = "done" => Garbage \notin Range(texts["C"])
=============================================================================
