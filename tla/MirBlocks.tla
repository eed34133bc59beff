----------------------------- MODULE MirBlocks -----------------------------
(***************************************************************************)
(* The blocks of the function that is worked on: the lowering builds them, *)
(* the optimiser changes them, and code generation reads them.             *)
(***************************************************************************)
EXTENDS MirFunction

VARIABLE blocks   \* function.blocks

\* A function whose jumps go to its own blocks, and whose instructions define a value or do
\* something else.
Operand == [value : Nat, const : Constants]
Operations ==
  {"copy", "unary", "binary", "call", "check", "load", "address", "phi", "select", "opaque", "gone"}
Instruction ==
  [op : Operations, dest : Nat, args : Seq(Operand), sym : STRING, exit : Nat \cup {NoBlock}]
Terminator ==
  [kind : {"jump", "branch", "return", "unreachable", "trap"}, on : Operand, yes : Int, no : Int]
Block == [code : Seq(Instruction), term : Terminator]

WellFormed(bs) ==
  /\ bs \in [DOMAIN bs -> Block]
  /\ DOMAIN bs \subseteq Nat
  /\ Entry \in DOMAIN bs
  /\ \A b \in DOMAIN bs : Targets(bs[b].term) \subseteq DOMAIN bs
  /\ \A b \in DOMAIN bs : \A i \in Range(bs[b].code) :
       /\ i.op \in {"copy", "unary", "load"} => Len(i.args) = 1
       /\ i.op \in {"binary", "address"} => Len(i.args) = 2
       /\ i.op = "select" => Len(i.args) = 3
       /\ i.dest = NoValue => HasSideEffects(i) \/ Reads(i) = {}
=============================================================================
