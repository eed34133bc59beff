----------------------------- MODULE MirRuns -----------------------------
(***************************************************************************)
(* What a function in MIR does, instruction by instruction.  A run is the  *)
(* sequence of events it shows: what it prints, the answers of the         *)
(* functions it calls and of the conditions on data outside the model, and *)
(* how it ends.  A run is followed up to MaxEvents events.                 *)
(***************************************************************************)
EXTENDS MirFunction

CONSTANTS
  Inputs,      \* the values a parameter can have; a list is its length
  MaxEvents,   \* bound: events of a run
  MaxSteps     \* bound: instructions or statements of a run

ASSUME MaxStepsAssumption == MaxSteps \in Nat

Event(kind, name, val) == [kind |-> kind, name |-> name, val |-> val]
Quiet(s)     == s.ended \/ Len(s.events) >= MaxEvents
Shows(s, event)   == [s EXCEPT !.events = Append(@, event)]
Ends(s, how, val) == [Shows(s, Event(how, "", val)) EXCEPT !.ended = TRUE]

\* Arithmetic of WebAssembly.
Signed(n) == LET u == n % (2 * Half) IN IF u >= Half THEN u - 2 * Half ELSE u
Bit(b)    == IF b THEN 1 ELSE 0
Divide(a, b) ==
  LET Divides(q, r) == a = q * b + r /\ r \in {0} \cup (IF a < 0 THEN -Half..-1 ELSE 1..Half)
                         /\ r < (IF b < 0 THEN -b ELSE b) /\ -r < (IF b < 0 THEN -b ELSE b)
  IN CHOOSE qr \in (-Half..Half) \X (-Half..Half) : Divides(qr[1], qr[2])
Traps(op, a, b) == op \in {"div", "rem"} /\ (b = 0 \/ (op = "div" /\ a = -Half /\ b = -1))
Wasm(op, a, b) ==
  CASE op = "add" -> Signed(a + b)     [] op = "sub" -> Signed(a - b)
    [] op = "mul" -> Signed(a * b)
    [] op = "div" -> Divide(a, b)[1]   [] op = "rem" -> Divide(a, b)[2]
    [] op = "and" -> Bit(a = 1 /\ b = 1) [] op = "or" -> Bit(a = 1 \/ b = 1)
    [] op = "eq" -> Bit(a = b)         [] op = "ne" -> Bit(a # b)
    [] op = "lt" -> Bit(a < b)         [] op = "le" -> Bit(a <= b)
    [] op = "gt" -> Bit(a > b)         [] op = "ge" -> Bit(a >= b)
WasmUnary(op, a) == IF op = "neg" THEN Signed(-a) ELSE Bit(a = 0)

-----------------------------------------------------------------------------
\* As MIR.  Values start as zero.  `scopes` and `regions` count the scopes of the arena and
\* the error regions that were entered and not left; `low` is their smallest number; `unset` is
\* whether an operator was given a value that no instruction had defined.
AsMir(f, inputs) ==
  [at |-> Entry, pc |-> 1, env |-> [v \in DOMAIN f.params |-> inputs[v]], pending |-> FALSE,
   scopes |-> 0, regions |-> 0, low |-> 0, unset |-> FALSE, events |-> <<>>, ended |-> FALSE]

Lesser(a, b) == IF a < b THEN a ELSE b
Operated(s, o) ==
  IF o.value = NoValue THEN o.const.val
  ELSE IF o.value \in DOMAIN s.env THEN s.env[o.value] ELSE 0
Holding(env, v, val) == [w \in DOMAIN env \cup {v} |-> IF w = v THEN val ELSE env[w]]
Defines(s, instr, val) == [s EXCEPT !.pc = @ + 1, !.env = Holding(@, instr.dest, val)]
Counts(s, scopes, regions) ==
  [s EXCEPT !.pc = @ + 1, !.scopes = @ + scopes, !.regions = @ + regions,
            !.low = Lesser(@, Lesser(s.scopes + scopes, s.regions + regions))]

Called(s, instr) ==
  CASE instr.sym = "print" /\ Len(instr.args) = 1 ->
         {Shows(Defines(s, instr, 0), Event("print", "", Operated(s, instr.args[1])))}
    [] instr.sym = "mem_scope_push" -> {Counts(s, 1, 0)}
    [] instr.sym = "mem_scope_pop" -> {Counts(s, -1, 0)}
    [] instr.sym = "__err_enter" -> {Counts(s, 0, 1)}
    [] instr.sym = "__err_leave" -> {Counts(s, 0, -1)}
    [] instr.sym = "__err_take" ->
         {[Defines(s, instr, Bit(s.pending)) EXCEPT !.pending = FALSE]}
    [] OTHER -> {Shows(Defines(s, instr, 1), Event("call", instr.sym, 1)),
                 [Shows(Defines(s, instr, 0), Event("raise", instr.sym, 0))
                    EXCEPT !.pending = TRUE]}

Executed(s, instr) ==
  LET Arg(i) == Operated(s, instr.args[i])
  IN CASE instr.op \in {"copy", "load"} -> {Defines(s, instr, Arg(1))}
       [] instr.op = "address" -> {Defines(s, instr, Arg(2))}
       [] instr.op = "unary" -> {Defines(s, instr, WasmUnary(instr.sym, Arg(1)))}
       [] instr.op = "binary" ->
            {IF Traps(instr.sym, Arg(1), Arg(2)) THEN Ends(s, "trap", 0)
             ELSE Defines(s, instr, Wasm(instr.sym, Arg(1), Arg(2)))}
       [] instr.op = "select" -> {Defines(s, instr, IF Arg(1) = 1 THEN Arg(2) ELSE Arg(3))}
       [] instr.op = "opaque" ->
            {Shows(Defines(s, instr, a), Event("cond", instr.sym, a)) : a \in {0, 1}}
       [] instr.op = "call" -> Called(s, instr)
       [] instr.op = "check" /\ s.pending ->
            {IF instr.exit = NoBlock THEN Ends(s, "unwound", 0)
             ELSE [s EXCEPT !.at = instr.exit, !.pc = 1]}
       [] OTHER -> {[s EXCEPT !.pc = @ + 1]}

Terminated(s, term) ==
  LET Goes(b) == [s EXCEPT !.at = b, !.pc = 1]
  IN CASE term.kind = "jump" -> Goes(term.yes)
       [] term.kind = "branch" -> Goes(IF Operated(s, term.on) = 1 THEN term.yes ELSE term.no)
       [] term.kind = "return" -> Ends(s, "return", Operated(s, term.on))
       [] OTHER -> Ends(s, "trap", 0)

\* An operator reads a value that is not set.
Unset(s, instr) == instr.op \in {"unary", "binary"} /\ ~(Reads(instr) \subseteq DOMAIN s.env)
Noted(s, instr) == [s EXCEPT !.unset = @ \/ Unset(s, instr)]

StepMir(bs, s) ==
  IF s.at \notin DOMAIN bs THEN {Ends(s, "lost", s.at)}
  ELSE IF s.pc > Len(bs[s.at].code) THEN {Terminated(s, bs[s.at].term)}
  ELSE LET instr == bs[s.at].code[s.pc] IN Executed(Noted(s, instr), instr)

\* The states after a number of steps.
Stepped(bs, states) == UNION {IF Quiet(s) THEN {s} ELSE StepMir(bs, s) : s \in states}
RunMir(bs, states, steps) ==
  LET run[n \in Nat] == IF n = 0 THEN states ELSE Stepped(bs, run[n - 1])
  IN run[steps]

-----------------------------------------------------------------------------
\* The runs of a function from each of its arguments.
Arguments(f) == [DOMAIN f.params -> Inputs]
Shown(states) == {SubSeq(s.events, 1, Lesser(MaxEvents, Len(s.events))) : s \in states}

Ran(f, bs)   == UNION {RunMir(bs, {AsMir(f, i)}, MaxSteps) : i \in Arguments(f)}
AsRun(f, bs) == [i \in Arguments(f) |-> Shown(RunMir(bs, {AsMir(f, i)}, MaxSteps))]
=============================================================================
