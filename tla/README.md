# TLA+ models of the Clean Language compiler

The repository is a compiler from Clean to WebAssembly, written in Rust, with
a plugin host, a telemetry client, an MCP server and a language server. This
directory holds TLA+ models of the parts of it whose correctness depends on the
order of many steps, the TLC configurations that check them, and machine-checked
proofs for eight of them. Paths below are relative to the repository's root, so
that `src/codegen` is the compiler's code generator.

1. [The system](#1-the-system)
2. [Plan](#2-plan)
3. [Modules and runs at a glance](#3-modules-and-runs-at-a-glance)
4. [NativeHeap: the memory runtime](#4-nativeheap-the-memory-runtime)
5. [The accumulator loops](#5-the-accumulator-loops)
6. [SharedHeap: plugins and their host](#6-sharedheap-plugins-and-their-host)
7. [PendingReports: delivery of error reports](#7-pendingreports-delivery-of-error-reports)
8. [ModuleGraph: multi-file builds](#8-modulegraph-multi-file-builds)
9. [EmitArena: what a plugin emits](#9-emitarena-what-a-plugin-emits)
10. [MirPipeline: from statements to structured code](#10-mirpipeline-from-statements-to-structured-code)
11. [LanguageServer: documents and diagnostics](#11-languageserver-documents-and-diagnostics)
12. [Disagreements found](#12-disagreements-found)
13. [Proofs](#13-proofs)
14. [What is not modelled](#14-what-is-not-modelled)
15. [Running it](#15-running-it)

## 1. The system

### Components

| Component | State it keeps | Operations | What makes it correct |
|---|---|---|---|
| **Module discovery and order** (`src/compilation`) | compilation unit (modules by path and by name), dependency graph, order | follow imports, add shared files, search cycles, sort, parse each module | every module once, imports before importers, entry last; a cycle is reported and no other project is rejected |
| **Lexer, parser** (`src/lexer`, `src/parser`) | token position, indentation stack | one pass over a text | accepts the grammar |
| **Resolver** (`src/resolver`) | scope stack, symbol table | one pass over the HIR | each name means its nearest declaration |
| **HIR builder** (`src/hir`) | the program being lowered | lowering; five passes that rewrite string accumulator loops | a rewritten loop computes what the source says, and reads no freed string |
| **Type checker** (`src/typechecker`) | type variables, substitution, constraints | generate, unify, apply | the substitution is a most general unifier, without infinite types |
| **MIR builder** (`src/mir/mir_builder`) | the function being lowered: current block, scopes of names, stacks of loops and of `onError` regions, conditions to test | lower a statement, end a block, open and close a loop or region | the blocks do what the statements say; every arena scope and region entered is left once |
| **MIR optimiser** (`src/mir/optimization.rs`) | constants known, values marked live, blocks reached | fold, remove dead instructions, remove unreachable blocks, in rounds | nothing that is seen changes, in whatever order blocks are visited |
| **Code generator** (`src/codegen`) | WebAssembly module under construction; depth, open loops, merges and blocks done of one function | layout of memory; structured code from a flow graph; emission | every block is emitted on the paths it is on; every branch leaves as many constructs as it has to; the layout leaves room for data, pool and heap |
| **Native runtime** (`src/codegen/native_stdlib`, `src/stdlib`) | `__heap_ptr`, `TRANSIENT_PTR`, memory size | allocate, grow, open and close scopes, keep a string over a pop | live values do not overlap and lie in memory that exists |
| **Plugin host** (`src/plugins/wasm_adapter.rs`) | its own allocation pointer, marks of host scopes, a cached empty string | write inputs, return bridge results, open and close scopes, grow memory | host and plugin never write over what the other still reads |
| **Typed emission** (`src/plugins/typed_emission`) | two tables of nodes, the handles used up, the expansion, the error flags of one call | some eighty bridges that build, list, fold and hand over nodes | a handle is used up once; nothing built is dropped without an error; what is accepted is complete |
| **Plugin registry, expander, enforcement, lint** (`src/plugins`) | loaded plugins | load, expand, check | every block is expanded |
| **Telemetry** (`src/telemetry`) | directory of pending reports, back-off file, record of reported errors, configuration | report, submit, flush, evict, ask for consent | no stored report is lost silently, the directory stays small, reports leave once the service answers |
| **Language server** (`language-server`) | open documents in a map of locked shards; handlers under way on one thread | open, change, close a document, diagnose it, answer requests | the server's text is the editor's, the diagnostics shown are the last text's, no handler blocks the thread for good |
| **MCP server** (`src/mcp`) | none that outlives a request | answer requests, one after the other | answers |
| **Command line and tools** (`src/main.rs`, `src/bin`) | none | run the pipeline | exit status and output |

PROJECT.json lists the components in more detail, with the files of each and the
reason why a component is left out.

### How they interact

* `main.rs` or a server calls `lib.rs`; the multi-file compiler discovers and
  sorts modules, each goes through lexer, parser and plugin expansion to HIR,
  the HIR of all modules is merged in the computed order, and the rest of the
  pipeline runs once over the result.
* Plugins are WebAssembly modules built by this compiler. The host instantiates
  one in a fresh store per export call; the plugin calls back through bridge
  functions, and both allocate in the plugin's memory.
* The generated program contains the native runtime. The HIR passes and the MIR
  builder decide where scopes are opened and closed; the runtime trusts them.
* A plugin that emits typed code calls bridges with integer handles; the arena
  behind them lives for one call, and what it holds at the end becomes part of the
  program.
* Each function goes through the MIR builder, up to five rounds of the optimiser,
  and the code generator, which finds the shape of the source again in the flow
  graph, helped by labels and merges that the builder wrote down.
* After a failed compilation a background thread submits a report while `main`
  goes on to exit; every invocation on the machine shares `~/.cleen/telemetry`.
* The language server runs the front end of the compiler over the text of a document
  after every change. Its handlers take turns on one thread, at the points where they
  wait for the channel to the editor.

### Behaviours that are hard to test

* *Scopes over a bump heap.* Closing a scope frees everything above a mark. A
  pointer that outlives it still reads the right bytes until something else is
  allocated, so a small test passes.
* *Two owners of one heap.* Host and plugin have a pointer each, and each can
  rewind without telling the other.
* *Jumps.* `continue` and `break` skip the closing half of a scope.
* *Processes without a lock.* Reports are listed, removed and written in
  separate steps by several processes that may end at any of them.
* *Waiting with a lock.* A handler that waits keeps its reference into the map of
  documents, and the next handler of the same thread may need it.
* *Hash order.* Modules are visited, and blocks folded, in an order that differs
  between builds.
* *Failing halfway.* A bridge takes its operands one after the other; a plugin may
  go on after a failure.
* *Shapes.* Lowering, optimisation and structured code are right for each
  construct; what goes wrong needs a jump in an arm of an `if` in a region in a loop.
* *Limits.* Page boundaries, the memory tier's limit, `i32::MAX`, the 64 KiB
  pool, the capacity of the report directory.

Each is in the hazard list of PROJECT.json, at the line where it bites, with the
properties that would notice it going wrong.

## 2. Plan

Modules, in order of importance. The first ten are done.

1. **NativeHeap**: every compiled program stands on it. Proved.
2. **LoopProgram, AccumulatorLoop, AccumulatorPasses, RewrittenLoop**: what the
   loop rewrites make of a program, run over heap, arena and pool, as an
   implementation of the loop's source meaning.
3. **SharedHeap**: the same runtime with a second allocator. Proved.
4. **ReportOutbox, PendingReports**: concurrency, crashes, retries. Proved.
5. **BuildPlan, ModuleGraph**: discovery and order of modules. Proved.
6. **BridgeTable, EmitArena**: the arena of typed emission under any sequence of
   calls. Proved.
7. **HirFunction, MirFunction, MirBlocks, MirBuilder, MirOptimizer, MirRuns, MirMeaning**: the
   lowering of statements and the passes over MIR, against what the statements mean.
   `MirStages` composes builder and optimiser. Proved: the optimiser's safety, that
   the builder hands it a function it can work on, that what is optimised shows
   what was built, and that every run leaves the error regions it entered.
8. **ControlFlow, StructuredCode, WasmMeaning**: structured code out of the blocks.
   `MirPipeline` composes 7 and 8.
9. **DocumentText, LanguageServer**: edits, asynchronous diagnostics, and the locks of
   the documents. Proved.
10. *Proof of `QueueBounded`* in PendingReports: done.
11. **Unification** (`src/typechecker/constraint_solver.rs`): terms over a few
    constructors, the substitution, the occurs check, against the definition of a
    most general unifier.
12. *Regions of the builder*: that the loops and regions the builder has open are those
    the agenda will close, and with it `RegionsPaired`, as a theorem: done.
    `ScopesPaired` the same way is left: it has to follow the arena scopes through the
    jumps as well, and to leave the runs out in which an error skips a pop.
13. *Wider loops*: the hoisting and carryover passes in RewrittenLoop; classes,
    short-circuit operators and state variables with guards in MirBuilder.

Abstract specifications: `AccumulatorLoop` (what a loop computes), `ReportOutbox`
(what a queue of reports promises) and `BuildPlan` (what a build promises), each
implemented by a detailed module. `Written` in
`MirMeaning` plays that part for `MirPipeline`: the runs of a function by its
statements. `NativeHeap` and `SharedHeap` have no abstract
counterpart: their promise is that a region stays allocated, which the
invariants state directly.

Theorems worth having: the separation of live blocks for every layout and size,
for both heaps; that marks nest; that stored reports are not lost for any number
of processes; the refinement of the outbox; acyclicity after the search and the
refinement of the plan; that a handle is used up once and an accepted expansion is
complete, for any set of bridges; that no pass of the optimiser loses what is read;
that the builder leaves no jump to a block it never makes; that optimised code does
what it did; that a function leaves every error region it enters; that the server's text is
the editor's, and when the server cannot block. All of them are proved.

## 3. Modules and runs at a glance

| Module | Models | Checked by |
|---|---|---|
| `NativeHeap` | allocation, scopes and pool of the emitted runtime | `NativeHeap_pass`; `NativeHeapProofs` |
| `LoopProgram` | loop bodies and what they mean | extended by the next three |
| `AccumulatorLoop` | abstract: iterations change three strings as the source says | refined by `RewrittenLoop` |
| `AccumulatorPasses` | the dual and the single rewrite, as functions on bodies | `RewrittenLoop` |
| `RewrittenLoop` | the compiled loop at run time | `RewrittenLoop_pass`, `_outer` |
| `SharedHeap` | one export call of a plugin: host and plugin in one heap | `SharedHeap_pass`; `SharedHeapProofs` |
| `ReportOutbox` | abstract: stored, waiting, accepted reports | refined by `PendingReports` |
| `PendingReports` | submission, flush and eviction over a shared directory | `PendingReports_pass`; `PendingReportsProofs` |
| `BuildPlan` | abstract: when a project is rejected, which orders are right | refined by `ModuleGraph` |
| `ModuleGraph` | discovery, cycle search, topological sort | `ModuleGraph_pass`; `ModuleGraphProofs` |
| `BridgeTable` | the bridges of typed emission, a row each | `EmitArena`; `EmitArenaProofs` |
| `EmitArena` | one call of a plugin that emits typed code | `EmitArena_nodes`, `_helpers`; `EmitArenaProofs` |
| `HirFunction` | statements and functions as data | extended by the next ones |
| `MirFunction` | values, instructions and terminators of MIR | extended by the next ones |
| `MirBlocks` | the blocks of a function, and when they are well formed | extended by the next ones |
| `MirBuilder` | the lowering of a function, a statement a step | `MirPipeline` |
| `MirOptimizer` | folding, dead code, unreachable blocks, in rounds | `MirPipeline`; `MirStagesProofs` |
| `MirStages` | a function is built and then optimised | `MirPipeline`; `MirStagesProofs`, `MirRegionsProofs` |
| `MirRuns` | what a function does, by its blocks | `MirPipeline`; `MirStagesProofs` |
| `MirMeaning` | what a function does, by its statements | `MirPipeline` |
| `ControlFlow` | what code generation asks of a flow graph | `StructuredCode` |
| `StructuredCode` | WebAssembly code from a flow graph | `MirPipeline` |
| `WasmMeaning` | what that code does | `MirPipeline` |
| `MirPipeline` | a function from its statements to its code | `MirPipeline_pass`, `_contracts` |
| `DocumentText` | the text of a document and what an edit makes of it | `LanguageServer` |
| `LanguageServer` | editor, documents, handlers and channel | `LanguageServer_pass`, `_stuck`; `LanguageServerProofs` |

`MC...` modules hold the values of the constants. Operators named `Fault...` are
deliberately wrong versions of the definition after them: a specification with
the wrong one in place violates a property, which shows that the property looks
at what it should.

## 4. NativeHeap: the memory runtime

**State.** `heapPtr` and `transientPtr` are the globals `__heap_ptr` and
`TRANSIENT_PTR`; `pages` is `memory.size`. `scopes` is what the generated program
has open, each with its saved pointer, and `blocks` the intervals of addresses
that the program still expects to read, each with the scope whose end it does not
outlive. `last` is the result of the last helper, which two properties speak of.

**Actions.** One per helper, since the runtime is single threaded: `Malloc`
(`gen_malloc`), `ListAllocate` (`generate_list_allocate`), `ListGrow` (the
reallocation in `generate_list_add`), `ScopePush`, `ScopePop`, `ScopePopKeeping`
(`memory.rs`), `TransientScopeEnter`, `TransientScopeExit`, `TransientAlloc`
(`transient_arena.rs`) and `ContinuePastExit`, the one bracket a program may
skip. Alignment, page arithmetic and growth are the code's own numbers. A trap
ends the behaviour. Sizes stay below 1 GiB because they come from values that are
in memory, so no sum reaches 2^32.

**What the run shows.** `RegionSafe`: live blocks never overlap, whatever nesting
of pushes, pops and keeping pops. `PoolReserved`: no rewind of the heap reaches
the pool and no pool string leaves it. `KeeperCopySound`: the ascending copy of
`scope_pop_keeping` never reads a byte it has overwritten. `BytesBacked`: every
string and builder lies below the end of memory; list literals are left out,
because the code hands them out unbacked (section 12). `MarksNested`: marks of open
scopes are ordered and below the pointers they will restore.

**Bounds.** Static data ends at 60000, so the heap begins inside the second page;
two pages at start and three at most: allocations cross a page boundary, make
memory grow once, and fail at the limit. Three scopes nest all kinds into one
another, and four allocations fill a scope, its parent and what follows a pop.
The sizes are 5, which needs alignment, 5536, which ends exactly at the page
boundary, and a whole page; keepers of 3 and 1000 bytes, of which the longer can
overlap its copy.

## 5. The accumulator loops

Clean programs build strings with `A = A + piece` in a loop. Before anything else
sees the loop, `HirBuilder::build_block` may rewrite it twice: the *dual* pass
puts each iteration in an arena scope of the host and appends after the pop; the
*single* pass replaces an accumulator by a string builder and wraps the loop in a
heap scope. Both send concatenations held by local strings to the transient pool.

**Modules.** `LoopProgram` has loop bodies as data: assignments, declarations,
`if`, one inner loop, `continue`, `break`, over chains of atoms (a literal, a
variable, a method of a literal, the string of a call), and `Run`, which says
what such a body means. `AccumulatorPasses` gives the two rewrites with
their analyses; `Compile` composes them as `build_block` does, so the single pass
sees what the dual pass left, and after firing for `A` it resumes behind the loop.
`RewrittenLoop` executes the result: a string is a region, a height in it and the
text it was built from; a pop ends the life of every value above the mark.
`AccumulatorLoop` is the promise: one iteration after the other changes `A`, `B`
and `C` as the source says.

**What the run shows.** For every loop of up to three statements drawn from the
statements in `MCRewrittenLoop`, with every sequence of conditions over two
iterations and with `C` declared before or after the accumulators:
`LoopMeaning` (the compiled loop implements `AccumulatorLoop`), `NoDanglingRead`,
and `RegionsReleased` (without a jump an iteration gives back all it took).

**Bounds.** Two iterations: what dangles in the first is overwritten in the
second. Three statements let a declaration, a use and an append stand in every
order, with one of them an `if` or a loop. The pool holds eight strings, more than
a loop can take; with `PoolSlots = 0` strings spill to the heap and
`NoDanglingRead` fails, the hazard listed at `transient_arena.rs:184`.

**Shapes left out of that run**, because a pass turns each into something else
than the source. TLC finds a violation for each when it is put back:

| Shape (operator in `MCRewrittenLoop`) | What goes wrong |
|---|---|
| `ForeignSelfAppend`: `C = A` or `C = A + x` | counted as the self-append of `A`; `A`'s declaration becomes a builder and the compiled statement names a variable that is gone |
| `CopiesPooledLocal`: `C = h`, `h` a local concatenation | `h` goes to the pool, `C` keeps a pointer into it |
| `HeapChunk`: the chunk of a dual append is the string of a call | the arena pop frees it before it is appended |
| `NestedAppend`: a direct append and one in an `if` or inner loop | appends change order, or stay inside the scope |
| `JumpBehindAppend` | `continue` or `break` skips the accumulation |
| `WritesOuterInScope`: `C` is assigned in a dual body | `C`'s string is freed by the arena pop |
| `DeclaredBehindMark`: `C` declared between accumulator and loop | freed by the pop after the loop (run `_outer`) |

The documentation of the passes also describes a predicate for flat bodies that
the code does not implement. After the dual pass the single pass may fire on the
`A = A + chunk` it inserted; that is part of the model and sound.

`LoopProgram` and the passes are recursive over syntax, so these modules are
model-checked only.

## 6. SharedHeap: plugins and their host

**State.** `heap` is a record of both pointers (`__heap_ptr`, `alloc_offset`), the
memory's size, whether the host has joined the plugin's heap, and where its cached
empty string is. `memMarks` and `arenaMarks` are the host's two stacks of marks.
`scopes` are what the plugin has open, with the marks each will be closed with;
`blocks` are intervals that are still read. A call starts in phase `inputs`, in
which the host writes strings, goes on to `running`, and ends with an error or a
trap in `over`.

**Actions.** `WriteInput`, `Call`, `BridgeResult` (through `HostAllocate`: join,
reserve, grow, each with its failure), the plugin's own `Malloc`, `ListAllocate`,
`ScopePush`, `ScopePop`, `ScopePopKeeping`, the host's `MemScopePush`/`Pop` and
`ArenaScopePush`/`Pop`, and `SkipPop`, a jump that leaves a scope without closing
it, marks left behind.

The two sides grow memory by their own arithmetic: the host by the pages that cover
a block, `__malloc` by one more when the block ends on a page boundary, and
`list.allocate` never. A block is of kind `bytes` or `list`: of a list literal only
the header is written when it is made, and traps outside memory; its slots may lie
past it, with the plugin's pointer behind them, until some allocation makes memory
grow over them or another fails. `scope_pop_keeping` traps when its copy would end
past memory.

**What the run shows.** `BlocksApart` and `BelowHeapTop`: however both sides
allocate and rewind, no two blocks that are still read overlap, and all lie below
the plugin's pointer; bytes that host or plugin were given, and the headers of list
literals, lie in existing memory. `EmptyStringIntact`: the bytes of the
cached empty string are never given out again. `OuterBlocksSpared`: no pop reaches
into an enclosing scope. `PopReclaims`: a pop that ends its scope's blocks puts
the pointers back at its marks, even after inner pops were skipped.

**Bounds.** The plugin's heap begins 28 bytes below a page boundary, where the host's
own pointer starts as well (16 bytes below it), so small blocks fill the page to its
end. A host block of two pages ends 16 bytes below the limit of three pages, so that
the smallest list literal passes it; two of them pass the limit, and then `i32::MAX`,
which is scaled down to 330000. A list literal of 16,400 slots passes the two pages
there are at the start, and the next allocation of the host or of `__malloc` grows
memory over it. After a host allocation that could not grow memory the pointer is
past its end, so that list literals and keeping pops trap. Three open scopes take all
orders of the three kinds; three allocations are enough to fill a scope, rewind it
and reuse it. 1,421,568 distinct states in half a minute.

**Condition.** `MayFindInputs` is FALSE: at least the inputs are written before the
call. When every input is found in the plugin's data section instead
(`find_or_write_string`), the first contact may happen inside a scope of the
plugin, and its pop frees the cached empty string. With `MayFindInputs = TRUE` TLC
finds that; the hazard at `wasm_adapter.rs:4809` is covered only but for this case.

**Mem scopes are paired.** The compiler repeats `mem_scope_pop` before each jump, so
`SkipPop` covers the other two kinds alone. Section 10 has shapes of loops for
which it does so wrongly, with a pop too many or too few, and an error that leaves a
function skips the pop as well. None of these is in the model, nor are native pops
that come twice: after a pop too many the marks are those of a scope that is still
open, and neither `BlocksApart` nor `PopReclaims` can be expected.

Plugins built before `__heap_ptr` was exported use `allocate_stable`, which never
touches the plugin's heap; that path is not modelled, nor what the search through
memory compares, nor calls that return several strings at once.

## 7. PendingReports: delivery of error reports

**State.** `pending` is the set of files in the directory, `torn` those that hold
no readable report, `older` the order of their modification times; `window` is the
file `retry_after`. `proc` says for each thread which step of which job it is at,
with the listing it works on and the files it has chosen to remove. `accepted` is
what the error service has; `stored` is a history variable.

**Actions.** A step is one access to the file system or one request. `Report`
starts a submission and `Flush` a flush; then `List`, `TakeNext`, `EndFlush`,
`Check` and `Clear` (back-off), `PostAccepted`, `PostFailed`, `PostLimited`,
`Settle`, `Enforce` (which lists again and picks the files over the cap), `Evict`
(one file, the oldest by its present time) and `Write`. A request that fails may
have been accepted. `Crash` ends a thread anywhere, `CrashInWrite` inside a write,
which leaves a file that the cap counts and nobody can read.

**What the run shows.** `ImplementsOutbox`: the directory implements
`ReportOutbox`; a report leaves it only because the service has it or the
directory's capacity was used up, in spite of stale listings. `NothingLost`: with
fewer reports stored than the directory holds, each is still there, delivered or
spoiled. `QueueBounded`: threads that list at the same time can exceed the cap
together, by one each at most. `PendingSettles`: again and again nothing that can
be sent is left.

**Fairness.** `FairSpec` has weak fairness of every thread's next step, of the
start of flushes and of the end of the window. Threads are scheduled by the
operating system; a flush starts with every MCP server, after every update and
with every `telemetry flush` command; the window is a time of day. Failures, crashes
and reports are bounded, so eventually the service answers: without that nothing
can be said. No fairness is assumed of reports, crashes or failures.

**Bounds.** Two threads are the least that race. A capacity of two with four
reports exceeds the cap and its overshoot; one report per flush makes a flush
leave something behind; one failure and one crash reach each step of a flush.
The real constants are 50 reports and 10 per flush.

**Left out.** `reported_errors.json`, read and written as a whole by every
process: it decides only which notifications are shown. The retry of unconfirmed
reports: it builds a report without a reproduction and then skips it for having
none, so it sends nothing, whatever `mcp/server.rs:664` says. A report
whose thread ends before it is stored is lost; the model has it, and `NothingLost`
speaks of stored reports. The file `retry_after` is read, found over and removed
in separate steps, so a window that another process has just opened can be
removed; the model has that too (`Clear`), and claims nothing about it.

## 8. ModuleGraph: multi-file builds

**State.** `imports` and `shared` are the project; `phase` is where
`build_from_file` is. `toProcess`, `processed`, `unresolved` belong to
`discover_modules`, with `current` and `unread` for the module being looked at and
the imports its inner loop has left; `nodes` and `dependencies` belong to the
graph; `visited`, `recStack`, `path`, `cursor` to the depth-first search (`cursor`
is the position of each frame's loop); and `inDegree`, `queue`, `result` to Kahn's
algorithm, with `released` for the imports its inner loop has left. A file is its
canonical path, so two imports in a file may name the same one.

**Actions.** `SkipProcessed` and `Process` take a module from the stack of
`discover_modules`, and `Resolve` is a turn of its loop over the module's imports;
`AddShared` ends discovery and adds the files of the shared folders;
`StartSearch`, `FollowImport` and `Leave` are the search; `StartSort`, `SortNode`,
`Release` (one import of the sorted node) and `EndSort` are `topological_sort`. Which node a search
starts from, and in which order the first nodes enter the queue, is a free choice:
the code iterates over a `HashSet` and a `HashMap`.

**What the run shows.** `ImplementsPlan`: the build decides as `BuildPlan` allows.
It rejects a project only for an import that names no file or a cycle the entry
leads to, and otherwise gives an order with every module once, imports first and
the entry last; the error "not all nodes processed" never occurs. `CycleShown`:
the cycle in the error message is one. `EntryUnimported`: what a comment gives as
the reason why the entry may be moved to the end. `DegreesExact`: during the sort
each degree counts the edges from nodes not yet sorted and those `Release` still has
to take away, double imports included.
`BuildEnds`: every build ends, under weak fairness of the whole specification; one
thread runs it and nothing in it waits.

**Bounds.** Four files (`Files`) with at most two imports each (`MaxPerFile`) and four
in all (`MaxImports`): a diamond, a
cycle behind a chain, a file imported under two names, a cycle of four. Up to two
shared files; as files differ only in name, one choice of them per number is
enough. 849,016 distinct states.

**A limit of the code.** `AddShared` adds bare nodes: what a shared file imports is
neither loaded nor turned into an edge. Two shared files that import each other
are not a cycle to the search, and a shared file may be compiled, and its `start:`
body run (`src/lib.rs:2493`), before the file it imports, depending on hash order.
`BuildPlan` therefore asks for order among the files the entry leads to. With
`Members` in place of `Imported` in `IsPlan` the run finds the order violated,
already for one shared file that imports the entry.

## 9. EmitArena: what a plugin emits

A plugin that expands a block builds the code through bridges: a constructor takes
the handles of its parts, uses them up, and returns the handle of the whole. The
emitters move finished nodes into the expansion. The batch builders have a second
table, with arrays that list nodes and with specifications of whole functions and
classes, and their handles carry a tag bit. A plugin is a program of a third party: it may pass any
number anywhere, ignore failures, and clear the error that is to stop it.

**State.** `asts` and `batches` count the nodes of the two tables; `kind`, `items`,
`holds` and `body` are what the arena knows of each. Of a value only the place is
kept: `slots` are the handles whose slot is still full and `held` counts the other
places a value has gone to. `consumed` is the set of handles that are used up.
`decls` and `emitted` are the expansion, `sources` the files injected and replaced;
`sawError` and `sticky` are the two error flags, and `silently` remembers that a
bridge failed before anything was on record. `slot` says whether the call serves
`expand` or `assemble_typed`.

**Actions.** `BridgeTable` has a row for each constructor and builder: the operand
lists it accepts, what it makes or declares, and what each of its checks does when
it fails: nothing, a diagnostic, or the sticky error. `EmitArena` gives the rows
their meaning: `RefusedSlot`, `Unreadable`, `WrongContext`, `Declined`,
`DuplicateState`, `BadOperand` (operand `n` is the first that cannot be taken, and
those before it are gone) and `Succeed`, whose last step may still fail to convert.
Arrays have `PushItem`, `PushWrapped`, `PushNowhere`, `PushRejected`, `ListItems`
and `ListRefused`; `EmitHelpers` and `EmitClass` hand batches over, member by
member; `AddSource`, `SourceRefused`, `EmitError`, `ClearError` and `Return` are the rest of
the calls.

**What the runs show.** `MovedOnce`: a value is in one place at most, though an array
is drained without a look at the handles it lists. `ArraysHold` is why: what a live
array lists is used up, in its slot, of the array's kind, and in no other array.
`NothingLostUnseen`: code that was built disappears only when an error is on record,
so that the call is refused, or as an operand of a bridge that failed silently.
`BodiesResolved`: `func2` and `method` only write down their statement's handle, and
whatever is done with it in between, a function in the expansion has that
statement, and no other function has. `AcceptedWhole`: an expansion that is accepted
has all members of each batch it was given, although they are added one by one.
`StickyStops`: while the sticky error is set nothing is built or used up.

**Bounds.** `emit_nodes` gives the plugin nine bridges, chosen so that every kind of
row is among them, one node of the first table, three of the second, two items, one
declaration, one file. That is the least in which an array can list a node twice or
two arrays compete for one. `emit_helpers` is a plugin that hands over
functions: four batch nodes make two functions, their array and the batch; two
declarations let the second fail behind the first. Both stop when the plugin has returned, so deadlock is
not checked. The proofs hold for all bounds and all sets of bridges.

## 10. MirPipeline: from statements to structured code

A function is lowered to basic blocks, optimised, and emitted. `MirPipeline` does
all three to each function of a family and asks whether the result does what the
function says.

**State.** `MirBuilder` has the builder's own: `current` (the current block, or
none after a statement no path leaves), `blocks`, `nextBlock`, `nextValue`, `scope`
(the value of a name), `loops`, `regions` (open `onError` regions, with the depth of
`loops` they were opened at), `ensures`, and what code generation is told: `merges`
and `labels`. `agenda` is the rest of the recursion, statements and the second
halves of compound ones. `MirOptimizer` has `level`,
`source` (a history variable: the blocks as they were built), `round`, `pass`, `changed` and the state of each pass: `foldVars` (constants known,
the place in the blocks), `markVars` (values live, and those still to look at) and
`reachVars` (blocks reached, and the stack). `code` is what is emitted.

**Actions.** One action per statement and per second half: `BuildDeclaration`,
`BuildAssignment`, `BuildPrint`, `BuildExpression`, `AutoReturn`, `BuildReturn`, `EndReturn`,
`BuildJump`, `BuildEnsure`, `BuildTest`, `BuildIf`, `EndThen`, `EndElse`,
`BuildWhile`, `EndWhile`, `BuildFor`, `EndFor`, `BuildRange`, `EndRange`,
`BuildOnError`, `BeginRegion`, `EndRegion`, `Finish`. The optimiser's steps are
`StartRound`, `FoldBlock` (any block next: the code iterates over a hash map),
`FoldInstruction`, `StartMarking`, `MarkLive`, `RemoveDead`, `ReachBlock`,
`RemoveUnreachable`. `Generating` is code generation, a sequential function from
blocks to code: `StructuredBlocks` and `BranchBlock` walk the graph as
`generate_structured_blocks` and `generate_branch_block` do. The recursion is a list
of what the pending calls still have to do, in a record that also has the code so
far, the blocks done, the depth, the open loops and the merges that belong to an
enclosing `if`. All its questions of the graph are in
`ControlFlow`, each with the code's own traversal.

**Meaning.** A run is what can be seen: what is printed, which answer each call and
each condition gave, an error raised, the value returned, a trap. `Written` has the
runs of the statements, `AsRun` those of the blocks, `AsRunCode` those of the code,
in which a branch by *n* levels goes to the end of a construct or the beginning of a
loop. Calls may answer, or raise; conditions on data outside the model may be either.

**What the run shows.** `MeaningKept`: after lowering and after each round of the
optimiser, in every order of folding, blocks and statements have the same runs.
`CodeMeaningKept`: so has the emitted code. No merge is inlined in an arm it does
not belong to, none is forgotten, and each `break`, `continue` and raised error branches by the right number of levels. `ScopesPaired`: a function that returns has left
each arena scope of its iterations exactly once. `RegionsPaired`: the same for
`onError` regions, in functions that are `Tidy` (below). `NeededKept`: no instruction with an effect is touched, and of a
value that is still read no definition is gone. `OptimizingKept`: after any number of
rounds the blocks have the runs they had as they were built. It speaks of functions
that are `Ordinary`: each handler a check leaves for was found by the search, which
follows terminators only; no removed instruction was a division, which can trap, or a
condition; no parameter is assigned a constant; and no operator reads a value before
its definition. Every function of the run is `Ordinary` whenever it is optimised.
`MirStages` is the part of the composition without the statements' meaning and code
generation. There it is also proved that the lowering gives the optimiser a function
that satisfies what the proofs assume (`WellFormed`), and that folded integers keep
their width (`PipelineTypeOK`).
A name is looked up where it is used (`Resolved`); a function that uses one without a
value is not built further, as the builder refuses it.

**Bounds.** 2364 functions: `if`s with and without `else`, the three loops, jumps,
tests, regions with handlers that go on or return, each of them inside and around
the others up to three deep and with a statement behind (families `Ifs`, `Loops`,
`Nested`, `Guards`, `Around`, `Enclosed`); contracts and state rules; all folds of
boundary values at width 4 (`Half` = 8 is `i32::MIN` scaled down, so that overflow
and `MIN / -1` happen); functions with something to optimise, at levels 2 and 3.
Parameters are 0 or 2, and a list is its length, so a loop runs never or twice.
Runs are followed for six events, enough to go round a loop twice and see what is
behind it; `MaxSteps` is above the length of any run with so few events. 72,636
distinct states in about half a minute.

**Shapes left out**, each because the code lowers it into something else, as the
run finds when it is put back:

| Shape | What happens |
|---|---|
| a loop body that ends in `break` or `continue`, when it has an arena scope | the scope is popped twice |
| a list `iterate` whose first block is left by an `if` and whose body ends in a jump | the jump is overwritten (`statements.rs:1680`) |
| a raised error that leaves a loop with an arena scope (`ScopesPaired` speaks of the other runs) | the pop is skipped, though the comment at the pop says "so every exit path is paired" |
| a statement behind `return` or `break` in the same block | it is executed; a second `return` replaces the first (`error/mod.rs:933`: "will never execute") |
| `iterate` behind a statement no path leaves | the builder panics ("No current block for loop init") |
| an early return in a function with state rules | the rules are tested only at the end |
| `ensure` or `always` in a function that returns no value | not tested (run `mir_contracts`) |
| a division whose value is not read | removed with its trap, though `optimization.rs:182` leaves the trap of a constant division in place on purpose |
| a condition of `ensure` or `always` that calls a function which raises, tested by a `return` inside `onError` | the regions are left before the conditions are built (`statements.rs:871`), the check still goes to the region's exit, and the region is left twice |
| a loop no path goes round, `LoopsRepeat` | see below |

`Tidy` collects those that `RegionsPaired` has to leave out: nothing is behind a jump,
neither a statement nor the test of a state rule, no list `iterate` ends in one, and
the conditions of a contract call nothing that raises (nor does an expression call
the two functions that count the regions, which are the compiler's own). Where one of
these fails, two paths can come to a block in different numbers of regions. Every function
of the run is `Tidy`; without the last condition but one TLC finds a contract inside
`onError` at which the region is left twice.

The last one concerns code generation only. `is_loop_header` (`control_flow.rs:575`)
looks for back edges that can be reached from the entry. When every path through a
body returns or breaks, there is none; the header is emitted as an `if`, no loop is
open, and a `break` inside an inner `if` is emitted as nothing at all:

    while w
        if d
            break
        if c
            break
        else
            break

evaluates `c` after the first `break`.
`statements.rs:2022` says "Break jumps to the exit block of the innermost loop".
`CodeMeaningKept` therefore asks for `LoopsRepeat`; without it TLC finds the
violation at once.

## 11. LanguageServer: documents and diagnostics

An editor opens documents, tells the server of every edit, asks about them, and is
sent the diagnostics of every text. The server keeps each document as a rope, in a
concurrent map whose shards have a lock each, and runs every handler as a future on
one thread.

**State.** Of the editor: `view` is the text of each document and the number of the
last notification about it (numbers are versions as well), `shown` which version's
diagnostics are shown, `sent` how many notifications there were and `unseen` those
whose diagnostics have not come; `paced` is a history variable, that there were never
more than two of these. Of the server: `documents`, and `shard`, which of them share a
lock; `inbox` holds messages that are not started, `ready` handlers that are to run,
`parked` those that wait for room in the channel; `out` and `answers` are on their way
to the editor. `stuck` means that the thread waits for a lock.

**Actions.** The editor's are `Open`, `Edit` (a range), `Replace` (a whole text),
`Close` and `Ask`, which stands for completion, hover, formatting and the other
requests. The server's are `Start`, then a handler each: `DidOpen`, `DidChange`,
`DidClose`, `Answer`; `Resume` when the channel had room again, `Block` when a handler
needs a lock that another holds; and `PrintDiagnostics` and `PrintAnswer`, with which
the editor reads. `analyze_document` holds a reference into the map while it waits
(`AnalysisLock`); `publish_diagnostics` waits when more than one message is in the
channel (`Waits`). What tower-lsp, DashMap, ropey and the channel do is modelled from how the
server uses them, and marked external.

**Positions.** `DocumentText` turns an editor's position into an index of the rope and
splices the text as `did_change` does. To the editor a position is a line, ended by
`\n`, `\r` or both, and a number of units of UTF-16, since the server advertises no
other encoding in its capabilities. The server takes the one for a line of ropey, which
also ends at a vertical tab, a form feed, U+0085, U+2028 and U+2029, and the other for a
number of characters. So a character here is plain, or `Wide` (two units), or a line
break for both, or one of `FurtherBreaks` for the server alone, and positions are
computed by each side's own rules. Three things come of it:

* Behind a wide character in its line, and behind a further break anywhere, the index is
  another than the one the editor meant, and the texts come apart.
* A character past the end of a line, which the protocol reads as the end of the line, is
  clamped by the server to the line with its line break (`len_chars`), which is
  where the next line begins; the edit then joins the lines. At the end of the last line
  both mean the same.
* Once the texts have come apart the editor may name a line that the server's text
  does not have. Two or more lines past the last, `try_line_to_char` fails and the whole
  text is replaced by the text of the range, as the comment at `main.rs:212` says
  ("falling back to full document update"). One line past the last, it answers with the
  length of the text, and `document.text.line` panics (`Panic`). A release build aborts;
  any other unwinds the one task in which all handlers run: the server ends either way.

A document is *sure*, a history variable in `view`, as long as every edit since it was
last sent whole (opened, or changed without a range) meant the same to both
(`SameForBoth`: no wide character before either end in its line, no further break
before it, no end past a line but the last). What the server has of a document that is
not sure is checked to be what the code makes of it only in this: that the versions stay
right and that it comes together again when the text is sent whole. A panic in a document
that is sure would violate `SafeWhenPaced`.

**What the runs show.** `DiagnosesText`: diagnostics carry the version of the
notification they answer, and while the document is sure they are of its text, although
each handler looks the document up again and several are under way; so the server's text
is the editor's after every edit that means the same to both, in a text that has wide
characters and further breaks elsewhere. `AnswersOfText`: the same for requests.
`ShownIsLatest`: when nothing
is under way the editor shows the diagnostics of its last versions, of its own texts for
the documents that are sure, and none for a closed document. `SafeWhenPaced`: an editor
that is never more than two notifications ahead of the diagnostics does not block the
server, and only a change in a document that is not sure panics. `SettlesOrStops`: when
the editor pauses, the diagnostics of every notification come, unless the thread is
blocked or the process has ended. The run
`language_server_stuck` shows the block: the handler of a second notification waits
with its shard locked, and a third one in that shard blocks the thread for good.

**Fairness.** Weak, of `Start`, of `Poll` (the handlers' steps), and of the two reading
actions: the runtime runs what is ready, and the editor reads its pipe. Nothing is
assumed of what the editor sends.

**Bounds.** Two documents, in one shard or in two. In the passing run a document
opens with a wide character and a line break, or with a form feed and a plain character, and
plain characters are put in place of any range up to three characters of text: so
positions lie behind wide characters and further breaks, at and past the ends of lines
and of the text, texts come apart and together again, and a change panics. Three
notifications, the least that block, one request at a time, two handlers at a time.
282,654 distinct states in a little over two minutes. The run that shows the block has
a text of one line, in which every position means the same to both, and tower-lsp's four handlers at a
time. The proofs hold for any number of each, and any texts.

**Left out.** What diagnostics and answers say. `\r\n`, which both sides take for one line break
and which is one character here: the server counts two at the end of a line and a
position between them is not made. Plugins the server loads at start, and its
workspace commands.

## 12. Disagreements found

Three runs show the code doing something else than a comment or a test says. Each
checks one property that states the quoted sentence; PROJECT.json quotes them.

| Run | Source | What happens |
|---|---|---|
| `rewritten_loop_outer` | `hir/hir_builder.rs:3057` | a string declared between accumulator and loop is freed after the loop |
| `mir_contracts` | `mir/mir_builder/statements.rs:880` | a function that returns without a value, or by its last expression, does not test `ensure` and `always` |
| `language_server_stuck` | `language-server/src/main.rs:455` | a handler that waits keeps its lock, and the next notification blocks the only thread |

More were met while reading, or found with a property stated for the occasion. No
run keeps them:

* `hir/hir_builder.rs:5265`: a jump behind an append drops it (`JumpBehindAppend`,
  section 5).
* `mir/mir_builder/statements.rs:1680`: the end of a list `iterate` replaces the jump
  that ends its body (section 10).
* `stdlib/list_ops.rs:96`: `list.allocate` never asks for more memory, so a list
  literal traps, or lies behind the end of memory, where every other allocator grows it
  (`list_behavior.rs:632`).
* `hir/hir_builder.rs:5674`: `continue` leaves the transient pool occupied, which
  `:5173` says is "flushed" at the end of each iteration.
* `hir/hir_builder.rs:7103`: the string of a call is appended after the pop of the
  scope it lies in (`HeapChunk`, section 5).
* `plugins/wasm_adapter.rs:4845`: after the plugin's own pop, its blocks of a new
  arena scope lie below the scope's mark and are not reclaimed by its pop.
* `telemetry/queue.rs:43`: a flush that fails on a full directory gives up
  a report it was to keep.
* `language-server/src/main.rs:192`: one line past the last of the server's text panics,
  where the fallback of `:212` was meant to replace the text (section 11). It takes an
  edit for which the texts have come apart before, such as the removal of an emoji that
  stands alone in its line.
* Typed emission: `func2` and `method` are said to consume the statement they write
  down, and do not; "a rejected push leaves the handle unconsumed"
  (`arena.rs:851`) fails when the array handle names a batch node that is no array
  (`PushNowhere`); `_ctx_clear_error` leaves `saw_error`, so the call is refused all
  the same; constructors with a string argument and the batch builders return 0 for
  an unreadable argument without diagnostic or sticky error, so a plugin that checks
  once at its end does not notice (`bridges.rs:96`); files injected in the `expand`
  slot are accepted and dropped (`arena.rs:293`); a written `if true` is taken for
  a block and flattened.
* The shapes of sections 5 and 10.

## 13. Proofs

TLAPS proves forty-nine theorems, for every value of the constants that the ASSUMEs
of the modules admit. None uses the bounds of the runs. Where a type invariant is
proved the run does not check it again.

**NativeHeapProofs.** Assumed: `TierAssumption` (sizes are natural numbers, a
request is not empty) and `LayoutAssumption` (the heap begins inside the initial
memory). No invariant of the run is inductive by itself: that two blocks stay
apart after a pop depends on which blocks the pop ended. The induction is on

    Inductive == TypeOK /\ PoolReserved /\ MarksNested /\ Homes /\ Regions
                   /\ RegionSafe /\ BytesBacked

where `Homes` says that each scope remembers the innermost heap scope at or below it
and `Regions` that a heap block which outlives a scope ends at or below the scope's
mark, and one that dies with it begins at or above the mark. An allocation adds a block above all others; a
pop moves the pointer to a mark below which, by `Regions`, all survivors
lie. `KeeperCopySound` needs the mark to be at or below the keeper, which is
`MarksNested`.

**SharedHeapProofs.** Assumed: `SizesAssumption` and `LayoutAssumption` (the
memory's limit, and a list literal that begins below it, end below `i32::MAX`; the
host's limit is 1 GiB). Here

    Inductive == TypeOK /\ Bounded /\ BlocksApart /\ OuterBlocksSpared
                   /\ Stacks /\ Reserved

and the hard part is `Stacks`: each open scope still finds its own mark at its
handle on the host's stacks, although skipped pops leave others above it; the
marks grow with the depth; and a mem scope's mark is still there while the scope is
open. `Bounded` adds to `BelowHeapTop` that no block is empty or ends past `i32::MAX`,
where the host's marks are cut off: without it a mark could lie below a list literal
that passes memory. `Reserved` follows the cached empty string and is the only part that depends
on `~MayFindInputs`: the theorems `ReservedString` and `Reclamation` assume it, the
other five do not.

**PendingReportsProofs.** Assumed: a positive cap and number per flush, and finitely
many threads (`ProcsAreFinite`), which `QueueBounded` counts. The
invariant adds to the types what a thread knows: one about to remove a file
because of success has a report the service accepted, and one about to evict has
seen at least as many stored reports as the directory holds; `accepted` and
`stored` only grow, so no step of another thread takes that knowledge away.
`Implementation` maps each step to one of `ReportOutbox` or to a stutter, and
`Delivery` follows by the same induction, for any number of threads, reports,
failures and crashes.

`Bounded` is `QueueBounded` for any of these. The bound itself is not inductive: at the
moment a thread lists, others have listed before it and not yet written. The
strengthening is

    Room == \A S \in SUBSET Committed :
              Cardinality(pending \ Given(S)) + Cardinality(S) <= Cap - 1 + Cardinality(Procs)

for *every* set of threads that have listed and will write: if just these go on to the
end, what they leave fits. Quantifying over sets is what makes it inductive: a thread that
dies leaves `Committed`, and the sets without it are still covered. A thread that lists
has named all files but `Cap - 1` as its victims; a write takes one thread out of a set
and adds one file; a removal takes the file from the directory and from all listings
at once.

**ModuleGraphProofs.** Assumed: `FilesAssumption` (finitely
many files, the entry among them, and `Missing` none of them),
`FoldersAssumption` and `BoundAssumption`. A graph is called acyclic when every
nonempty set of nodes has a member that imports none of the set. Said so, nothing
needs an induction along paths. The invariant of discovery and search has these parts:

* `Edges`: edges are imports between nodes, and every set of files that holds
  the entry and what its members import holds every node with edges.
* `Path`: the path is the recursion stack, without repetition, each node an
  import of the one before.
* `Searched`: the finished nodes (visited, off the stack) import only finished
  nodes and are acyclic. A node leaves the stack when all its imports are
  finished, and one more such node keeps the set acyclic.

So the cycle cut out of the path is one (`CyclesAreShown`). For `EntryIsUnimported`
suppose a node imports the entry, and take the least set that holds this node and
every node which imports a member. By `Edges` the entry is in it. The graph is
acyclic, so some member imports none of the set; it is not the node we began with,
and without it the set would still be one, so the set was not the least.

The invariant of the whole build adds `Read` (what has been read of the imports is in the edges,
the rest is in `unread` or on the stack, so that at the end the nodes with edges
are the plan's `Imported`), `Sized` (the lengths that bound the counters), `Led`
(the entry leads to the cycle found) and `Sorted`: degrees are exact, whatever is
not sorted and has degree zero waits in the queue, and importers stand before
what they import. The sort cannot end early, because the nodes left over would
be a nonempty set of which each is imported by another. `BuildImplementsPlan`
follows by reversing the order and moving the entry to the end, which nothing
follows that imports it.

**EmitArenaProofs.** Assumed: `TablesAssumption` (a handle of the
first table is below the tag) and `BoundsAssumption`. `RowsTyped` says what all rows
have in common; everything else is proved of *any* set `Used` of bridges. Here

    IInv == Typed /\ Flags /\ Kinds /\ Unused /\ OnePlace /\ ArraysHold
              /\ NothingLostUnseen /\ BodiesResolved /\ Whole /\ Ended /\ Assembled

`MovedOnce` is not inductive without `ArraysHold`: draining moves what an array
lists without asking whether it is used up, so two arrays that list one node would
move it twice. `OnePlace` says that a value which is in its slot, or whose handle was
not yet given out, is nowhere else; `Unused` that the slot of a node which is not used
up is full, so that listing it in an array keeps `ArraysHold`; `Kinds` keeps the kinds
of the two tables apart. `Whole` says that as long as no error is on record each batch
that was handed over has all its members in the expansion, and `AcceptedWhole` follows
because `Return` accepts only then (`Ended`).

**MirStagesProofs.** It has the theorems of the optimiser and of both stages together.
First the optimiser. Assumed: `HalfAssumption` (the width is not zero) and a
function that is `WellFormed`, as those the builder makes are (see below).
For every such function, in SSA form or not, every level and every order of folding,

    IInv == TypeOK /\ WellFormed(blocks) /\ Still /\ SameShape
              /\ NeededKept /\ Marked /\ Searched

`SameShape` ties each block to the one it was made of: folding replaces an
instruction in place and removal leaves a gap. `Marked` says that the values of the
roots are live and that what a live instruction reads is live or on the frontier;
when the frontier is empty, removing what is not live cannot remove a definition of
what is read, however many definitions it has, which is `NeededKept`. `Searched` is the
same for blocks, and gives `JumpsAlwaysLand`.

That the optimised code does what it did is proved along two lines. First, what the
rounds make of the code (`RoundsJustified`): by the invariant

    Sure == IInv /\ Uniform /\ Counted /\ KnownOnce /\ Justified

each instruction is the one that was built, or is gone and defined nothing that is read,
or is a copy of the constant it comes to. "Comes to" is a certificate: a function `K`
from values to constants such that each value in it has one definition, and that
definition yields the constant from constants and values in `K` (`Constancy`). It is
what makes the order of the blocks harmless: `K` does not depend on it, and a second
round extends it. `FoldIntegers` and `FoldBooleans` yield what WebAssembly's arithmetic
does (`IntegersRun`, `BinaryRuns`, `UnaryRuns`). Second, the runs: a state of the code
as built and one of the optimised code are `Matched` when they are at the same place and
agree on what is still read, and when each value of `K` that is set holds its constant;
a step of one is matched by a step of the other (`StepsMatch`), one lemma per way an
instruction may have become another. Runs are a recursive function; that it exists and
that it unfolds (`RunsStep`) is proved from a least counterexample, since the library's
induction cannot be instantiated here, and `RunsShowTheSame` follows. No bound enters:
the number of steps, the events that are looked at and the inputs are any.

Then the builder. Assumed besides: `NamesAssumption` (the names the compiler makes up
are strings; the provers do not know of literals), `StatementsAssumption` and
`ProgramsAssumption` (statements and expressions have their parts, as the types of
`tast.rs` say). For any functions, however nested, `PipelineTyped` says that the blocks
are `WellFormed` when the builder is done, and stay so. While the builder is at work
they are not: an `if` branches to an else block that is only numbered, blocks are
ended twice, and the end of a loop adds a value to the first instruction of a header
it left long before. So the invariant relates the blocks to the agenda:

    LowerInv == Listed /\ Numbered /\ Placed /\ Shaped /\ Scoped /\ Nested /\ Promised

`Shaped` says that every jump goes to a block there is or to the else block of an
agenda point that will reserve it (`Elses`), and that each block an agenda point will
extend (`Heads`) begins with a phi. `Listed` says that agenda points have the numbers of
blocks that exist and values that are numbered, and that no block is both a head and an
else to come: reserving one anew would take the phi away. `Numbered` keeps block numbers
ahead of all blocks, so that what is reserved is new. `Scoped`, `Nested` and `Promised`
type the names, the open loops and regions, and the conditions. When the agenda is empty no
else is to come, which gives `WellFormed`, and from there the invariant of
the optimiser takes over (`StagesInv`). `BuiltCodeKept` is `NeededKept` again, now of
the functions the builder makes and not of well-formed functions assumed.
`OptimizedShowsTheSame` is `OptimizingKept` for any functions, levels, inputs and orders of
folding, by `RunsShowTheSame`. It needs the four conditions of `Ordinary`: each names a
case in which the passes do change what is seen, or (the handlers) in which the proof
would need to know that a handler's block is reached by jumps as well.

**MirRegionsProofs.** `RegionsLeft` is `RegionsPaired` for every program, level, order of
folding, outcome of calls and length of run. Assumed besides: `NestingAssumption` (what is
in the bodies of a function is `Inside` it; `Inside` is recursive, so the provers have to
be told). A region is entered and left by calls, in blocks that may be filled long before
or after each other, and an error may leave from the middle of a block. So the invariant
gives every block a *level*: with functions `D` and `M` from blocks to numbers,

* `Levels`: the entry has level 0; the code of block `b` is a walk from `D[b]` to `M[b]`,
  up by one at each `__err_enter` and down at each `__err_leave`; a check for an error is
  passed at the level of the handler it leaves for; the end of the block goes to blocks of level
  `M[b]`, and returns only if that is 0.
* `Planned`: the agenda says at how many regions each of its points will be built; the
  beginning of a region adds one, its end takes one off, and a point at which paths meet
  has none behind it that is less deep.
* `Held` and `Kept`: the blocks a point of the agenda will begin or extend have that level,
  no two points wait for the same one, and none that is waited for has been ended; an open region's
  exit waits at the number of the region.
* `Looped`: the open loops are those the agenda will end, at the heights `L`, and `depth`,
  which a region remembers of the loops around it, tells which regions are inside which loop.
  From this follows that `Left` leaves exactly the regions between a `break` or `continue`
  and its loop (`JumpLevel`).
* `Poised`: the block that is built is at the level of the next point, unless it has ended.

These and the lemmas on levels and plans alone are at the end of MirStagesProofs.

`Balanced` says that there are such `D`, `M`, plan and heights; each action of the builder has
a lemma (`...Paced`) that names the new ones. None of the parts is inductive without the
others: a jump is right because of `Looped`, which survives the end of a region because of
`Planned`, whose blocks are right because of `Held`. `Fitting` adds that what is left to do is
tidy. When the agenda is empty, `Measured` is what remains of `Levels`; the optimiser keeps it
because it touches no call and no check (`WalkKept`), whatever it removes, and a run is at
each step as deep as the level of its block and the walk so far say (`Going`, by `StepGoing`
for each kind of instruction). A run that returns is at the end of a block whose level is 0.

**LanguageServerProofs.** Assumed: `BoundsAssumption`, `CharactersAssumption` (the common
line break is neither wide nor a further one) and `TextsAssumption` (what is
opened and inserted are texts, and `NoText` is none). First a lemma about texts: for
every text and every edit that is `SameForBoth` the server's index is the editor's, and
the line is one the server's text has, so that `Applied` makes of the
server's text what `Edited` makes of the editor's, and does not panic. Then

    Inductive == Typed /\ InStep /\ DiagnosesText /\ AnswersOfText
                   /\ LocksHeld /\ Numbered /\ Pacing /\ SafeWhenPaced

`InStep` is a history: some sequence of states leads from what is shown, along the
channel, to the server's documents, and on along `ready` and `inbox` to what the
editor has, each message being right about the text it changes as long as that is sure;
of a document that is not sure only versions, and whether it is open, are followed. From
it the first three properties follow. `LocksHeld` and `Numbered` say which handlers hold locks and
that notifications stay in order from the inbox to the channel; so a notification that stands before a
handler which waited, with the two in the channel that made it wait, are three that the
editor has not seen diagnosed: `Pacing`, and with it `SafeWhenPaced`.

**Only model-checked.** Liveness (`PendingSettles`, `BuildEnds`, `SettlesOrStops`);
everything about the accumulator loops (`LoopMeaning`, `NoDanglingRead`,
`RegionsReleased`), about the meaning of the lowering itself (`MeaningKept`), the arena scopes
of its loops (`ScopesPaired`, which leaves out the runs in which an error skips a pop) and
structured code (`CodeMeaningKept`), where the facts are inductions over syntax or runs and
the definitions are recursive; and each violation.

## 14. What is not modelled

The compiler has about 160,000 lines, and most of them are one case per construct of
a large language: its grammar, the rules of its types, its built-in functions, the
instructions it becomes, the answers of two servers. They have little state and no
order of steps to get wrong, and a model would repeat them. So the models cover the small
part of the lines in which the algorithms are, and the share of lines stays low.

* The front end (lexer, parsers, resolver, type inference): sequential, and best
  tested by programs. Unification is the part of it with an algorithm worth a model
  (plan, 11).
* In the MIR builder: classes, property and index assignment, memory access,
  boxing and casts, floats and 64-bit integers, short-circuit operators, state
  variables with guards or watchers, background and `later` assignment, shadowed names,
  and release mode, which strips contracts.
* In the code generator: instruction selection, coercions, registration of functions
  and imports.
* The contents of memory: blocks are intervals, strings are texts. A wrong byte
  inside a block, such as the fragment that `string_builder.append` drops when it
  cannot allocate (`string_builder.rs:250`), is not seen.
* The hoisting and carryover passes and escaping collections.
* Reading of arguments in the bridges, the merging of classes and of `start` bodies,
  and the lint arena, whose handles are only read.
* Plugin loading, expansion and enforcement: sequential work on text.
* Consent, redaction and the developers' queue of the telemetry component.
* What the language server's diagnostics and answers say, and the positions listed in
  section 11.
* Anything that measures time other than the back-off window: timeouts of plugin
  calls end a call, and a call ends the model of SharedHeap anyway.

Known hazards that no property covers, besides those PROJECT.json lists with a note:
the read-modify-write of `reported_errors.json` (`telemetry/mod.rs:313`); the removal
of a back-off window another process has just opened (`telemetry/submit.rs:67`);
retries that send nothing (`telemetry/mod.rs:488`); the search for an input's bytes in
memory (`wasm_adapter.rs:3442`); the end of the address space on the path of plugins
without `__heap_ptr` (`wasm_adapter.rs:4292`); files of shared folders that join the graph after discovery
(`multi_file_compiler.rs:469`, section 8); `C = A` counted as the self-append of `A`
(`hir_builder.rs:5697`); pool strings that spill to the heap
(`transient_arena.rs:184`); the size of a list literal, which wraps above 2^30
elements (`list_ops.rs:88`), and its missing growth (`:96`).

## 15. Running it

    tlc -workers 2 -config NativeHeap_pass.cfg MCNativeHeap
    tlapm NativeHeapProofs.tla

and likewise for the others; PROJECT.json lists each run with its module, its
configuration, the properties it checks and whether it passes. On two cores the
longest run (`EmitArena_nodes`) takes about three and a half minutes, and so does the
longest proof (`ModuleGraphProofs`). Deadlock is checked for PendingReports and
MirPipeline; the other systems stop when the program ends, when it traps, when the
plugin returns, when the editor has nothing more to say, or at a bound.
