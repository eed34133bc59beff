------------------------------ MODULE EmitArena ------------------------------
(***************************************************************************)
(* The arena a plugin builds typed code in (plugins/typed_emission): one   *)
(* call of the plugin allocates nodes, folds them into others by handle,   *)
(* and adds declarations to the expansion; every handle may be used once.  *)
(* Which bridges there are is in BridgeTable; this module is what they do. *)
(*                                                                         *)
(* The plugin may call any bridge with any handles.  A handle is a number: *)
(* 1, 2, .. in the table of nodes, and above BatchTag in the table of the  *)
(* batch builders.  Of a node's value only its place is kept: its own slot *)
(* of the table, or the one node or declaration it was moved into.         *)
(***************************************************************************)
EXTENDS BridgeTable, Integers, FiniteSets, SequencesExt

CONSTANTS BatchTag,        \* the bit that marks a handle of the batch builders
          MaxNodes,        \* bound: nodes of the first table
          MaxBatch,        \* bound: nodes of the batch table
          MaxDecls,        \* bound: parts of the expansion
          Paths,           \* the files the assemble slot may inject or replace
          Used             \* the names of the bridges the plugin calls

ASSUME TablesAssumption ==
  BatchTag \in Nat /\ MaxNodes \in Nat /\ MaxBatch \in Nat /\ MaxNodes < BatchTag
ASSUME BoundsAssumption == MaxDecls \in Nat /\ MaxItems \in Nat

VARIABLES asts,            \* how many nodes there are
          batches,         \* how many nodes of the batch there are
          kind,            \* what kind of node a handle names
          consumed,        \* the handles that are used up
          slots,           \* the handles whose value is still in its table
          held,            \* in how many other places a value is
          items,           \* the items of an array, the members of a batch or class
          holds,           \* the kind of item an array is for
          body,            \* the handle written down as a function's body, or 0
          emitted,         \* the functions and methods that are in the expansion
          decls,           \* the parts of the expansion, in order
          sawError,        \* whether an error was recorded
          sticky,          \* whether the sticky error is set
          silently,        \* whether a bridge failed while no error was recorded
          slot,            \* the slot the call serves
          sources,         \* the files injected and the files replaced
          result           \* how the call ended

tables == <<asts, batches, kind, slots, held, items, holds, body>>
output == <<emitted, decls, sources>>
vars == <<tables, consumed, output, sawError, sticky, silently, slot, result>>

AstKinds == {"Type", "Expr", "Stmt", "PendingFunction"}
Pushable == {"BExpr", "BStmt", "BFunction", "BMethod", "BField", "BParam", "BObjectField"}
BatchKinds == Pushable \cup {"BArray", "BSpec", "BClass"}

AstHandles == 1..MaxNodes
BatchHandles == (BatchTag + 1)..(BatchTag + MaxBatch)
Handles == AstHandles \cup BatchHandles
AstNodes == 1..asts
BatchNodes == (BatchTag + 1)..(BatchTag + batches)
Nodes == AstNodes \cup BatchNodes
Arrays == {h \in BatchNodes : kind[h] = "BArray"}
LiveArrays == Arrays \ consumed

-----------------------------------------------------------------------------
\* Taking one operand.

\* Mutant: the item is copied, and its slot not emptied.
FaultExtracts(h, k, n) == items[h][n] \in slots /\ kind[items[h][n]] = k

\* The item behind position n of an array can be moved out when those before it were.
Extracts(h, k, n) ==
  /\ items[h][n] \in slots /\ kind[items[h][n]] = k
  /\ \A m \in 1..(n - 1) : items[h][m] # items[h][n]

\* The items an attempt to drain the array moves out of the table.
Drained(h, k) ==
  {items[h][n] : n \in {n \in 1..Len(items[h]) : \A m \in 1..(n - 1) : Extracts(h, k, m)}}

InTable(want, h) ==
  \/ want.table # "batch" /\ h \in AstNodes
  \/ want.table # "ast" /\ h \in BatchNodes

Suits(want, h) ==
  kind[h] = IF want.array THEN "BArray"
            ELSE IF want.table = "either" /\ h \in AstNodes THEN "Expr" ELSE want.kind

\* What is wrong with handle h as an operand; gone is what the operands before it took.
Fault(want, h, gone) ==
  IF want.table = "source" THEN (IF h = 0 \/ h \in BatchNodes THEN "bad" ELSE "none")
  ELSE IF h = 0 /\ want.null THEN "none"
  ELSE IF ~InTable(want, h) THEN "bad"
  ELSE IF h \in consumed \cup gone THEN "consumed"
  ELSE IF ~Suits(want, h) THEN "kind"
  ELSE IF want.array /\ \E n \in 1..Len(items[h]) : ~Extracts(h, want.kind, n) THEN "drain"
  ELSE "none"

\* The handles an operand uses up when nothing is wrong with it, and the values it moves.
Uses(want, h) == IF h = 0 \/ want.table = "source" THEN {} ELSE {h}
Moves(want, h) ==
  IF Uses(want, h) = {} THEN {} ELSE IF want.array THEN ToSet(items[h]) ELSE {h}

\* Two operands move the value, or one moves it twice.
MovedTwice(takes, args, h) ==
  \E n \in 1..Len(takes) :
    \/ \E m \in 1..(n - 1) : h \in Moves(takes[m], args[m]) \cap Moves(takes[n], args[n])
    \/ /\ takes[n].array /\ args[n] \in BatchNodes
       /\ \E i \in 1..Len(items[args[n]]) : \E j \in 1..(i - 1) :
            items[args[n]][i] = h /\ items[args[n]][j] = h

UsedBefore(takes, args, n) == UNION {Uses(takes[m], args[m]) : m \in 1..(n - 1)}
Resolves(takes, args, n) ==
  \A m \in 1..n : Fault(takes[m], args[m], UsedBefore(takes, args, m)) = "none"

\* The values the first n operands move.
Moved(takes, args, n) == UNION {Moves(takes[m], args[m]) : m \in 1..n}

\* The functions or methods a batch or class is made of, and the handle a function or
\* method writes down.
Members(takes, args) ==
  LET lists == {n \in 1..Len(takes) :
                  takes[n].kind \in {"BFunction", "BMethod"} /\ args[n] \in BatchNodes}
  IN  IF lists = {} THEN <<>> ELSE items[args[CHOOSE n \in lists : TRUE]]
SourceOf(takes, args) ==
  LET notes == {n \in 1..Len(takes) : takes[n].table = "source"}
  IN  IF notes = {} THEN 0 ELSE args[CHOOSE n \in notes : TRUE]

\* Handles worth trying: the live ones of a kind that is asked for, the null handle, and
\* for a handle that is only written down any number of the first table.
Offers(takes) ==
  LET kinds == UNION {{takes[n].kind} \cup (IF takes[n].array THEN {"BArray"} ELSE {})
                      \cup (IF takes[n].table = "either" THEN {"Expr"} ELSE {})
                      : n \in DOMAIN takes}
  IN  {0} \cup {h \in Nodes \ consumed : kind[h] \in kinds}
      \cup (IF \E n \in DOMAIN takes : takes[n].table = "source" THEN 1..(asts + 1) ELSE {})

-----------------------------------------------------------------------------
\* What every bridge does to the arena.

\* emit_diagnostic with severity 2, and trip, which does nothing when the flag is set.
Reported == sawError' = TRUE /\ silently' = silently /\ sticky' = sticky
Tripped  == sawError' = TRUE /\ silently' = silently /\ sticky' = TRUE
Silent   == silently' = (silently \/ ~sawError) /\ UNCHANGED <<sawError, sticky>>
Quiet    == UNCHANGED <<sawError, sticky, silently>>

Says(how) == CASE how = "silent" -> Silent [] how = "report" -> Reported [] how = "trip" -> Tripped

\* Values that were moved are held in one more place, those in again in one more yet.
Hold(moved, again) ==
  held' = [h \in Handles |-> held[h] + (IF h \in again THEN 2 ELSE IF h \in moved THEN 1 ELSE 0)]

New(k) == IF k \in AstKinds THEN asts + 1 ELSE BatchTag + batches + 1
Room(k) == IF k \in AstKinds THEN asts < MaxNodes ELSE batches < MaxBatch
Count(k) ==
  /\ asts' = (IF k \in AstKinds THEN asts + 1 ELSE asts)
  /\ batches' = (IF k \in AstKinds THEN batches ELSE batches + 1)

\* alloc_stmt, alloc_expr, alloc_type, alloc_pending_function, alloc_batch, after the values
\* in gone have left their slots.
Allocate(k, gone, list, for, source) ==
  /\ Room(k) /\ Count(k)
  /\ kind' = [kind EXCEPT ![New(k)] = k]
  /\ slots' = (slots \ gone) \cup {New(k)}
  /\ items' = [items EXCEPT ![New(k)] = list]
  /\ holds' = [holds EXCEPT ![New(k)] = for]
  /\ body' = [body EXCEPT ![New(k)] = source]

\* No node is made of the values that leave.
Leave(gone) ==
  /\ slots' = slots \ gone
  /\ UNCHANGED <<asts, batches, kind, items, holds, body>>

Rows == {row \in AllRows : row.name \in Used}

Running == result = "running"
Refusing(row) == row.gate = "first" /\ slot = "assemble"
\* A call that is past the slot's gate and the check of the context.
Ready == Running /\ slot = "expand" /\ ~sticky
\* Mutant: check_ctx does not look at the sticky error.
FaultCallable(row) == Running /\ (row.gate # "none" => slot = "expand")

Callable(row) == Running /\ (row.gate # "none" => slot = "expand") /\ ~sticky

-----------------------------------------------------------------------------
\* refuse_in_assemble_typed: a structural bridge in the assemble_typed slot.
RefusedSlot(row) ==
  /\ Running /\ slot = "assemble"
  /\ \/ row.gate = "first"
     \/ row.gate = "late" /\ ~sticky
  /\ Tripped
  /\ UNCHANGED <<tables, consumed, output, slot, result>>

\* An argument that cannot be read.
Unreadable(row) ==
  /\ Running /\ ~Refusing(row) /\ row.text # "none"
  /\ Says(row.text)
  /\ UNCHANGED <<tables, consumed, output, slot, result>>

\* check_ctx fails: the plugin passed another context, or the sticky error is set.
WrongContext(row) ==
  /\ Running /\ ~Refusing(row)
  /\ \/ row.ctx = "operand" /\ Tripped
     \/ row.ctx = "operand" /\ (sticky \/ row.value) /\ Silent
     \/ row.ctx # "operand" /\ Says(row.ctx)
  /\ UNCHANGED <<tables, consumed, output, slot, result>>

\* An argument that can be read and is refused for what it says, before any operand is
\* taken: an unknown operator, a type that does not resolve, a text that does not parse.
Declined(row) ==
  /\ Callable(row) /\ row.value
  /\ Reported
  /\ UNCHANGED <<tables, consumed, output, slot, result>>

\* A second state block is refused before its fields are taken.
DuplicateState(row) ==
  /\ Callable(row) /\ "state" \in ToSet(row.decls) /\ "state" \in ToSet(decls)
  /\ Reported
  /\ UNCHANGED <<tables, consumed, output, slot, result>>

\* What a faulty operand costs: an AST node is put back, a batch node is not, and an array
\* loses what was drained of it.
Spoiled(want, h, fault) ==
  IF h \notin BatchNodes \/ fault \notin {"kind", "drain"} THEN {}
  ELSE IF fault = "kind" THEN {h} ELSE {h} \cup Drained(h, want.kind)

\* What the bridge makes of the fault.
Complains(row, fault) ==
  CASE row.fails # "reuse" -> Says(row.fails)
    [] row.fails = "reuse" /\ fault = "consumed" -> Reported
    [] row.fails = "reuse" /\ fault # "consumed" -> Silent

\* Operand n, h, is the first that cannot be taken; those before it were, and are lost.
Spoil(row, takes, n, args, h) ==
  LET gone == UsedBefore(takes, args, n)
      fault == Fault(takes[n], h, gone)
      also == IF h \in BatchNodes /\ fault \in {"kind", "drain"} THEN {h} ELSE {}
  IN  /\ Resolves(takes, args, n - 1) /\ fault # "none"
      /\ consumed' = consumed \cup (gone \cup also)
      /\ Leave(Moved(takes, args, n - 1) \cup gone \cup Spoiled(takes[n], h, fault))
      /\ UNCHANGED <<held, output, slot, result>>
      /\ Complains(row, fault)

NewState(row) == "state" \in ToSet(row.decls) => "state" \notin ToSet(decls)

BadOperand(row) ==
  /\ Callable(row) /\ NewState(row)
  /\ \E takes \in row.takes : \E n \in 1..Len(takes) :
     \E args \in [1..(n - 1) -> Offers(takes)] : \E h \in Nodes \cup {0, asts + 1} :
       Spoil(row, takes, n, args, h)

\* All operands are taken: they go into the new node, or into the expansion; or what they
\* hold does not convert and they are lost.
Fill(row, takes, args) ==
  LET gone == UsedBefore(takes, args, Len(takes) + 1)
      moved == Moved(takes, args, Len(takes))
      again == {h \in moved : MovedTwice(takes, args, h)}
  IN  /\ Resolves(takes, args, Len(takes))
      /\ consumed' = consumed \cup gone
      /\ \/ /\ row.node # ""
            /\ Allocate(row.node, moved \cup gone, Members(takes, args), "Unset",
                        SourceOf(takes, args))
            /\ Hold(moved, again) /\ Quiet /\ UNCHANGED output
         \/ /\ row.node = "" /\ Len(decls) + Len(row.decls) <= MaxDecls
            /\ Leave(moved \cup gone) /\ Hold(moved, again) /\ Quiet
            /\ decls' = decls \o row.decls /\ UNCHANGED <<emitted, sources>>
         \/ /\ row.late # "none"
            /\ Leave(moved \cup gone) /\ UNCHANGED held
            /\ Says(row.late) /\ UNCHANGED output
      /\ UNCHANGED <<slot, result>>

Succeed(row) ==
  /\ Callable(row) /\ NewState(row) /\ (row.node # "" \/ row.decls # <<>>)
  /\ \E takes \in row.takes : \E args \in [1..Len(takes) -> Offers(takes)] :
       Fill(row, takes, args)

-----------------------------------------------------------------------------
\* batch_array_push, an item of the batch.
PushItem(array, item) ==
  /\ Ready
  /\ array \in LiveArrays /\ item \in BatchNodes \ consumed /\ kind[item] \in Pushable
  /\ holds[array] \in {"Unset", kind[item]} /\ Len(items[array]) < MaxItems
  /\ items' = [items EXCEPT ![array] = Append(@, item)]
  /\ holds' = [holds EXCEPT ![array] = kind[item]]
  /\ consumed' = consumed \cup {item}
  /\ Quiet
  /\ UNCHANGED <<asts, batches, kind, slots, held, body, output, slot, result>>

Wrapped(item) == IF kind[item] = "Stmt" THEN "BStmt" ELSE "BExpr"
Wrappable(item) == item \in AstNodes \ consumed /\ kind[item] \in {"Stmt", "Expr"}

\* wrap_ast_for_array moves the node into the batch first.
PushWrapped(array, item) ==
  LET k == Wrapped(item) IN
  /\ Ready /\ array \in LiveArrays /\ Wrappable(item)
  /\ Room(k) /\ holds[array] \in {"Unset", k} /\ Len(items[array]) < MaxItems
  /\ Count(k)
  /\ kind' = [kind EXCEPT ![New(k)] = k]
  /\ slots' = (slots \ {item}) \cup {New(k)}
  /\ Hold({item}, {})
  /\ items' = [items EXCEPT ![array] = Append(@, New(k))]
  /\ holds' = [holds EXCEPT ![array] = k]
  /\ consumed' = consumed \cup {item, New(k)}
  /\ Quiet
  /\ UNCHANGED <<body, output, slot, result>>

\* The array is found not to be one only after the item was wrapped.
PushNowhere(array, item) ==
  /\ Ready /\ array \in BatchNodes \ (consumed \cup Arrays) /\ Wrappable(item)
  /\ Allocate(Wrapped(item), {item}, <<>>, "Unset", 0) /\ Hold({item}, {})
  /\ consumed' = consumed \cup {item}
  /\ Reported
  /\ UNCHANGED <<output, slot, result>>

\* Any other push leaves a diagnostic and nothing else.
PushRejected(array, item) ==
  /\ Ready
  /\ \/ array \notin BatchNodes \ consumed
     \/ /\ item \in BatchNodes
        /\ item \in consumed \/ kind[item] \notin Pushable \/ array \notin Arrays
     \/ item \notin BatchNodes /\ ~Wrappable(item)
     \/ /\ array \in Arrays /\ holds[array] # "Unset"
        /\ \/ item \in BatchNodes /\ holds[array] # kind[item]
           \/ Wrappable(item) /\ holds[array] # Wrapped(item)
  /\ Reported
  /\ UNCHANGED <<tables, consumed, output, slot, result>>

\* Mutant: a handle that is used up may be listed.
FaultListable(k, h) == h \in BatchNodes /\ kind[h] = k

\* batch_array_from_handles: every handle is looked at before any is used up, so that one
\* that is listed twice passes.
Listable(k, h) == h \in BatchNodes \ consumed /\ kind[h] = k

ListItems(k, handles) ==
  /\ Ready /\ \A n \in DOMAIN handles : Listable(k, handles[n])
  /\ Allocate("BArray", {}, handles, k, 0) /\ UNCHANGED held
  /\ consumed' = consumed \cup ToSet(handles)
  /\ Quiet
  /\ UNCHANGED <<output, slot, result>>

ListRefused(k) ==
  /\ Ready /\ \E h \in BatchNodes \cup {0} : ~Listable(k, h)
  /\ Tripped
  /\ UNCHANGED <<tables, consumed, output, slot, result>>

-----------------------------------------------------------------------------
\* take_stmt on the body a function or method wrote down.
Bodies(h, n) == {body[items[h][m]] : m \in 1..n} \ {0}
\* Mutant: the statement is not taken, so that another function finds it too.
FaultBodyFound(h, n) ==
  LET f == items[h][n] IN
  body[f] = 0 \/ (body[f] \in AstNodes \ consumed /\ kind[body[f]] = "Stmt")

BodyFound(h, n) ==
  LET f == items[h][n] IN
  \/ body[f] = 0
  \/ /\ body[f] \in AstNodes \ consumed /\ kind[body[f]] = "Stmt"
     /\ \A m \in 1..(n - 1) : body[items[h][m]] # body[f]
BodiesFound(h, n) == \A m \in 1..n : BodyFound(h, m)

\* A batch or class h is used up, and with it the bodies its members wrote down: those in
\* moved, and h itself when all went well, have a new place, those in dropped are lost.
TakeBodies(moved, dropped) ==
  /\ consumed' = consumed \cup moved \cup dropped
  /\ Leave(moved \cup dropped) /\ Hold(moved, {})

\* _emit_helpers_batch: the functions are added one by one, so that those before one that
\* fails stay in the expansion.  Function n + 1 has no body to be found, or does not convert;
\* or there are too many, and none is looked at.
EmitHelpers(h) ==
  /\ Ready /\ h \in BatchNodes \ consumed /\ kind[h] = "BSpec"
  /\ \E n \in 0..Len(items[h]) :
       /\ BodiesFound(h, n) /\ Len(decls) + n <= MaxDecls
       /\ emitted' = emitted \cup {items[h][m] : m \in 1..n}
       /\ decls' = decls \o [m \in 1..n |-> "functions"]
       /\ \/ /\ n = Len(items[h])
             /\ TakeBodies({h} \cup Bodies(h, n), {}) /\ Quiet
          \/ /\ n < Len(items[h]) /\ BodyFound(h, n + 1)
             /\ TakeBodies(Bodies(h, n), {h} \cup Bodies(h, n + 1)) /\ Reported
          \/ /\ n < Len(items[h]) /\ (n = 0 \/ ~BodyFound(h, n + 1))
             /\ TakeBodies(Bodies(h, n), {h}) /\ Reported
  /\ UNCHANGED <<sources, slot, result>>

\* _emit_class_full: every body is taken before the class is built and added.
EmitClass(h) ==
  /\ Ready /\ h \in BatchNodes \ consumed /\ kind[h] = "BClass"
  /\ \E n \in 0..Len(items[h]) :
       /\ BodiesFound(h, n)
       /\ \/ /\ n = Len(items[h]) /\ Len(decls) < MaxDecls
             /\ TakeBodies({h} \cup Bodies(h, n), {})
             /\ emitted' = emitted \cup ToSet(items[h])
             /\ decls' = Append(decls, "classes")
             /\ Quiet
          \/ /\ n < Len(items[h]) => ~BodyFound(h, n + 1) \/ body[items[h][n + 1]] = 0
             /\ TakeBodies({}, {h} \cup Bodies(h, n))
             /\ UNCHANGED <<emitted, decls>> /\ Reported
  /\ UNCHANGED <<sources, slot, result>>

-----------------------------------------------------------------------------
\* _inject_source_file and _transform_source_file; neither looks at the slot.
AddSource(how, path) ==
  /\ Running /\ ~sticky
  /\ \/ /\ path \notin sources[how]
        /\ sources' = [sources EXCEPT ![how] = @ \cup {path}]
        /\ Quiet
     \/ path \in sources[how] /\ UNCHANGED sources /\ Tripped
  /\ UNCHANGED <<tables, consumed, emitted, decls, slot, result>>

\* Their arguments are empty or cannot be read; or the context is refused.
SourceRefused ==
  /\ Running
  /\ Tripped \/ Silent
  /\ UNCHANGED <<tables, consumed, output, slot, result>>

\* _emit_error with severity 2, or in a wrong context.
EmitError ==
  /\ Running /\ Reported
  /\ UNCHANGED <<tables, consumed, output, slot, result>>

\* Mutant: the error is forgotten with the sticky flag.
FaultClearError ==
  /\ Running /\ sticky
  /\ sticky' = FALSE /\ sawError' = FALSE
  /\ UNCHANGED <<tables, consumed, output, silently, slot, result>>

\* _ctx_clear_error.
ClearError ==
  /\ Running /\ sticky
  /\ sticky' = FALSE
  /\ UNCHANGED <<tables, consumed, output, sawError, silently, slot, result>>

\* Mutant: only the status counts.
FaultReturn ==
  /\ Running
  /\ \E status \in {0, 1} : result' = IF status # 0 THEN "refused" ELSE "accepted"
  /\ UNCHANGED <<tables, consumed, output, sawError, sticky, silently, slot>>

\* The plugin returns; finish_typed_expansion, or its counterpart for assemble_typed.
Return ==
  /\ Running
  /\ \E status \in {0, 1} :
       result' = IF status # 0 \/ sawError THEN "refused" ELSE "accepted"
  /\ UNCHANGED <<tables, consumed, output, sawError, sticky, silently, slot>>

-----------------------------------------------------------------------------
Init ==
  /\ asts = 0 /\ batches = 0 /\ kind = [h \in Handles |-> ""]
  /\ consumed = {} /\ slots = {} /\ held = [h \in Handles |-> 0]
  /\ items = [h \in Handles |-> <<>>] /\ holds = [h \in Handles |-> "Unset"]
  /\ body = [h \in Handles |-> 0]
  /\ emitted = {} /\ decls = <<>> /\ sources = [how \in {"inject", "transform"} |-> {}]
  /\ sawError = FALSE /\ sticky = FALSE /\ silently = FALSE
  /\ slot \in {"expand", "assemble"} /\ result = "running"

Bridge(row) ==
  \/ RefusedSlot(row) \/ Unreadable(row) \/ WrongContext(row) \/ Declined(row)
  \/ DuplicateState(row) \/ BadOperand(row)

Push ==
  /\ "batch.arrayPush" \in Used
  /\ \E array, item \in Nodes \cup {0} :
       \/ PushItem(array, item) \/ PushWrapped(array, item)
       \/ PushNowhere(array, item) \/ PushRejected(array, item)

List ==
  \E k \in {"BStmt", "BExpr"} :
    /\ (IF k = "BStmt" THEN "batch.stmtSeq" ELSE "batch.args") \in Used
    /\ ListRefused(k) \/ \E handles \in SeqOf(BatchNodes, MaxItems) : ListItems(k, handles)

EmitMembers ==
  \E h \in BatchNodes :
    \/ "_emit_helpers_batch" \in Used /\ EmitHelpers(h)
    \/ "_emit_class_full" \in Used /\ EmitClass(h)

Next ==
  \/ \E row \in Rows : Bridge(row)
  \/ \E row \in Rows : Succeed(row)
  \/ Push \/ List \/ EmitMembers
  \/ \E how \in {"inject", "transform"}, path \in Paths : AddSource(how, path)
  \/ SourceRefused \/ EmitError \/ ClearError \/ Return

Spec == Init /\ [][Next]_vars

-----------------------------------------------------------------------------
TypeOK ==
  /\ asts \in 0..MaxNodes /\ batches \in 0..MaxBatch
  /\ kind \in [Handles -> AstKinds \cup BatchKinds \cup {""}]
  /\ consumed \subseteq Nodes /\ slots \subseteq Nodes
  /\ held \in [Handles -> Nat]
  /\ items \in [Handles -> Seq(BatchHandles)]
  /\ holds \in [Handles -> Pushable \cup {"Unset"}]
  /\ body \in [Handles -> 0..(MaxNodes + 1)]
  /\ emitted \subseteq BatchNodes /\ decls \in Seq(Parts)
  /\ sources \in [{"inject", "transform"} -> SUBSET Paths]
  /\ {sawError, sticky, silently} \subseteq BOOLEAN
  /\ slot \in {"expand", "assemble"} /\ result \in {"running", "accepted", "refused"}

\* A value is in one place at most: a handle is never folded into two nodes or
\* declarations (PLUGIN008), whatever the plugin calls the bridges with.
MovedOnce == \A h \in Handles : held[h] + (IF h \in slots THEN 1 ELSE 0) <= 1

\* A value that is in no place any more, or in its slot and out of every reach.
Lost(h) == h \in Nodes \ Arrays /\ h \notin slots /\ held[h] = 0
Stranded(h) ==
  h \in consumed \cap slots /\ \A a \in LiveArrays : h \notin ToSet(items[a])

\* Code the plugin built is never dropped without an error on record; only operands of
\* the first table, before a bridge that fails silently, may be.
NothingLostUnseen ==
  \A h \in Nodes : Lost(h) \/ Stranded(h) => sawError \/ (silently /\ h \in AstNodes)

\* The items of an array that can still be used are in their slots, used up by it alone,
\* and all of its kind: what draining it relies on, which skips those checks.
ArraysHold ==
  \A a \in LiveArrays : \A h \in ToSet(items[a]) :
    /\ h \in consumed \cap slots /\ kind[h] = holds[a]
    /\ \A b \in LiveArrays \ {a} : h \notin ToSet(items[b])

\* A function or method in the expansion that had its body written down has it, a
\* statement that no other one has: the handle may have been used up in between.
BodiesResolved ==
  \A f \in emitted : body[f] # 0 =>
    /\ body[f] \in AstNodes /\ kind[body[f]] = "Stmt" /\ held[body[f]] = 1
    /\ \A g \in emitted \ {f} : body[g] # body[f]

\* An expansion that is accepted has all of a batch or class that was handed over, or
\* nothing of it; and one for the assemble slot has no declarations.
AcceptedWhole ==
  result = "accepted" =>
    /\ \A h \in Nodes \ slots : kind[h] \in {"BSpec", "BClass"} => ToSet(items[h]) \subseteq emitted
    /\ slot = "assemble" => decls = <<>>

\* While the sticky error is set no bridge allocates, uses up, moves or declares anything.
StickyStops == [][sticky /\ sticky' => UNCHANGED <<tables, consumed, output>>]_vars
=============================================================================
