---------------------------- MODULE MirFunction ----------------------------
(***************************************************************************)
(* Functions in MIR: basic blocks of instructions that end in a            *)
(* terminator.  A value may have several definitions (the MIR is not in    *)
(* SSA form).  An operation is named by what it does to values; the blocks *)
(* of a function are kept by number, in no order.                          *)
(***************************************************************************)
EXTENDS Integers, Sequences, FiniteSets, SequencesExt, Functions

CONSTANT Half   \* integers are -Half..(Half - 1); 2^31 in the compiler

HalfAssumption == Half \in Nat \ {0}
ASSUME HalfAssumption

\* The names the compiler itself gives are strings like those of the program.
ASSUME NamesAssumption ==
  {"", "add", "lt", "le", "ge", "length", "element", "print", "mem_scope_push", "mem_scope_pop",
   "__err_enter", "__err_leave", "__err_take"} \subseteq STRING

Entry   == 0               \* the entry block
NoBlock == -1
NoValue == 0               \* no destination; values are numbered from 1

-----------------------------------------------------------------------------
FaultWrap(n) == n

\* i32 arithmetic wraps.
Wrap(n) == ((n + Half) % (2 * Half)) - Half

\* Constants: integers, booleans as 0 and 1, and Undefined.
Constants == [type : {"int"}, val : -Half..(Half - 1)]
             \cup [type : {"bool"}, val : {0, 1}] \cup [type : {"undef"}, val : {0}]

Integer(n)  == [type |-> "int", val |-> Wrap(n)]
Boolean(b)  == [type |-> "bool", val |-> IF b THEN 1 ELSE 0]
Undefined   == [type |-> "undef", val |-> 0]

\* An operand is a value or a constant.
Value(v)    == [value |-> v, const |-> Undefined]
Constant(c) == [value |-> NoValue, const |-> c]

-----------------------------------------------------------------------------
\* What an instruction does.  `sym` names the operator, the function that is called, the
\* condition that is read or what is loaded; `exit` is the target of an error check.
Instr(op, dest, args, sym, exit) ==
  [op |-> op, dest |-> dest, args |-> args, sym |-> sym, exit |-> exit]

Copy(dest, source)         == Instr("copy", dest, <<source>>, "", NoBlock)
BinaryOp(sym, dest, l, r)  == Instr("binary", dest, <<l, r>>, sym, NoBlock)
Call(f, dest, args)        == Instr("call", dest, args, f, NoBlock)
ErrorCheck(exit)           == Instr("check", NoValue, <<>>, "", exit)
Load(dest, source, what)   == Instr("load", dest, <<source>>, what, NoBlock)
Phi(dest, incoming)        == Instr("phi", dest, incoming, "", NoBlock)
Select(dest, c, yes, no)   == Instr("select", dest, <<c, yes, no>>, "", NoBlock)

\* Storing, calling and checking for an error do more than define a value; dividing by
\* zero does not count.
HasSideEffects(instr) == instr.op \in {"call", "check"}

-----------------------------------------------------------------------------
Term(kind, on, yes, no) == [kind |-> kind, on |-> on, yes |-> yes, no |-> no]

Jump(target)         == Term("jump", Constant(Undefined), target, target)
Branch(on, yes, no)  == Term("branch", on, yes, no)
Return(on)           == Term("return", on, NoBlock, NoBlock)
Unreachable          == Term("unreachable", Constant(Undefined), NoBlock, NoBlock)
Trap                 == Term("trap", Constant(Undefined), NoBlock, NoBlock)

\* The blocks a terminator leads to, and the operand it reads.
Targets(term) == {b \in {term.yes, term.no} : \/ term.kind = "branch"
                                              \/ term.kind = "jump" /\ b = term.yes}
ReadByTerm(term) == IF term.kind \in {"branch", "return"} THEN {term.on.value} \ {NoValue} ELSE {}
Reads(instr) == {instr.args[i].value : i \in DOMAIN instr.args} \ {NoValue}

=============================================================================
