----------------------------- MODULE SharedHeap -----------------------------
(***************************************************************************)
(* One export call of a compiler plugin.  The plugin is a WebAssembly      *)
(* module with the runtime of NativeHeap; its host (plugins/wasm_adapter)  *)
(* writes inputs and bridge results into the same memory, at the top of    *)
(* the plugin's own bump heap.  Host and plugin each have a pointer,       *)
(* alloc_offset and __heap_ptr, and each can rewind: the plugin by its     *)
(* scope_pop, which the host does not see, the host by mem_scope_pop and   *)
(* _arena_scope_pop.                                                       *)
(*                                                                         *)
(* Every call runs in a fresh store: an error or a trap ends the model.    *)
(*                                                                         *)
(* Every mem_scope_push is paired with its mem_scope_pop: the two shapes   *)
(* of a loop whose code pops twice or not at all, and an error that leaves *)
(* a function between the two, are not in the model (see the README).      *)
(*                                                                         *)
(* The operators named Fault... are wrong versions of the definition after *)
(* them; each shows that a property notices the fault.                     *)
(***************************************************************************)
EXTENDS Integers, Sequences

CONSTANTS
    HeapStart,          \* the plugin's first heap byte
    HostStart,          \* where the host allocates before it joins the heap
    MaxAddress,         \* i32::MAX
    InitialPages, MaxPages,
    HostSizes,          \* sizes of what the host writes
    Requests,           \* sizes the plugin asks __malloc for
    Capacities,         \* capacities of the plugin's list literals
    MayFindInputs,      \* whether every input may be found in the data section
    MaxScopes,          \* bound: open scopes, and marks of arena scopes
    MaxAllocations      \* bound: blocks allocated or kept in a call

ASSUME SizesAssumption ==
    /\ HeapStart \in Nat \ {0} /\ HostStart \in Nat /\ MaxAddress \in Nat
    /\ HostStart <= MaxAddress
    /\ InitialPages \in Nat /\ MaxPages \in Nat
    /\ HostSizes \subseteq Nat \ {0} /\ Requests \subseteq Nat \ {0}
    /\ Capacities \subseteq Nat
    /\ MayFindInputs \in BOOLEAN
    /\ MaxScopes \in Nat /\ MaxAllocations \in Nat

PageSize   == 65536
Bytes(n)   == n * PageSize
AlignUp(n) == ((n + 7) \div 8) * 8

\* A memory of MaxPages ends well below i32::MAX (the host caps it at 1 GiB), and
\* so does a list literal whose header lies in it (it would need 2^28 elements).
ASSUME LayoutAssumption ==
    /\ HeapStart <= Bytes(InitialPages) /\ InitialPages <= MaxPages
    /\ Bytes(MaxPages) < MaxAddress
    /\ \A c \in Capacities : Bytes(MaxPages) + 4 + 4 * c <= MaxAddress

VARIABLES
    heap,           \* both pointers and what the host knows of the heap
    memMarks,       \* PluginState.mem_scope_marks
    arenaMarks,     \* PluginState.arena_marks
    scopes,         \* the plugin's open scopes, outermost first
    blocks,         \* the blocks that host or plugin still read
    phase,          \* inputs, running, over
    allocations     \* blocks allocated or kept so far

vars == <<heap, memMarks, arenaMarks, scopes, blocks, phase, allocations>>

-----------------------------------------------------------------------------
(* The two pointers.                                                       *)

Larger(a, b)  == IF a > b THEN a ELSE b
Smaller(a, b) == IF a < b THEN a ELSE b

FaultPagesFor(end) == end \div PageSize

\* The pages that cover the bytes below end.
PagesFor(end) == (end + PageSize - 1) \div PageSize

Grown(h, end) == [h EXCEPT !.pages = Larger(@, PagesFor(end))]

Available(end) == PagesFor(end) <= MaxPages

\* raise_alloc_offset: never lowers.
Raise(h, top) == [h EXCEPT !.allocOffset = Larger(@, Smaller(top, MaxAddress))]

FaultFirstContact(h, top) ==
    [heapPtr |-> top, allocOffset |-> top, stableEnd |-> top,
     joined |-> TRUE, emptyLp |-> top, pages |-> Grown(h, top + 8).pages]

\* First contact reserves the empty string that _build_state_get hands out.
FirstContact(h, top) ==
    [heapPtr |-> top + 8, allocOffset |-> top + 8, stableEnd |-> top + 8,
     joined |-> TRUE, emptyLp |-> top, pages |-> Grown(h, top + 8).pages]

FaultJoin(h) ==
    LET top == AlignUp(h.heapPtr)
    IN IF ~h.joined /\ Available(top + 8) THEN FirstContact(h, top) ELSE h

\* SharedHeap::join
Join(h) ==
    LET top == AlignUp(h.heapPtr)
    IN IF ~h.joined /\ Available(top + 8) THEN FirstContact(h, top) ELSE Raise(h, top)

FaultReserve(h, size) ==
    [h EXCEPT !.allocOffset = @ + AlignUp(size)]

\* allocate, and set_top with the new offset; the offset stays at the cap when
\* the request does not fit below it.
Reserve(h, size) ==
    LET top == h.allocOffset + AlignUp(size)
    IN IF top > MaxAddress THEN [h EXCEPT !.allocOffset = MaxAddress]
                           ELSE [h EXCEPT !.allocOffset = top, !.heapPtr = top]

\* close_heap_scope: into the stable zone or upward neither pointer moves.
Close(h, hostMark, heapMark) ==
    [h EXCEPT !.allocOffset = Smaller(@, Larger(hostMark, h.stableEnd)),
              !.heapPtr     = Smaller(@, Larger(heapMark, h.stableEnd))]

-----------------------------------------------------------------------------
(* Allocation.                                                             *)

Depth   == Len(scopes)
Popped  == SubSeq(scopes, 1, Depth - 1)
Running == phase = "running"

Block(lo, hi, kind) == [lo |-> lo, hi |-> hi, depth |-> Depth, kind |-> kind]

CanAllocate == allocations < MaxAllocations

Allocated(new) ==
    /\ blocks' = blocks \cup new
    /\ allocations' = allocations + 1

\* host_allocate, then the memory is grown to cover the block and spare bytes.
\* The pointers have moved when that fails.
HostAllocate(size, spare) ==
    LET joined == Join(heap)
        ptr    == joined.allocOffset
        h      == Reserve(joined, size)
        end    == ptr + size
        ok     == ptr + AlignUp(size) <= MaxAddress /\ Available(end + spare)
    IN /\ CanAllocate
       /\ \/ ok  /\ heap' = Grown(h, end + spare) /\ Allocated({Block(ptr, end, "bytes")})
          \/ ~ok /\ heap' = h                     /\ Allocated({})
       /\ phase' = IF ok \/ Running THEN phase ELSE "over"
       /\ UNCHANGED <<memMarks, arenaMarks, scopes>>

\* find_or_write_string, when the input is not found: written as whole words, in
\* memory that does not end with them.
WriteInput(size) == phase = "inputs" /\ HostAllocate(AlignUp(size), 1)

Call ==
    /\ phase = "inputs"
    /\ MayFindInputs \/ blocks # {}
    /\ phase' = "running"
    /\ UNCHANGED <<heap, memMarks, arenaMarks, scopes, blocks, allocations>>

\* write_lp_string, write_clean_string and mem_alloc, whose failure the plugin
\* sees as a null pointer.
BridgeResult(size) == Running /\ HostAllocate(size, 0)

\* The pages that __malloc asks memory.grow for; one more than needed when end is
\* a multiple of the page size.
PluginPages(end) == end \div PageSize + 1

\* __malloc: null, and the pointer stays, when memory cannot grow.
Malloc(size) ==
    LET ptr  == AlignUp(heap.heapPtr)
        end  == ptr + AlignUp(size)
        fits == end <= Bytes(heap.pages)
        ok   == fits \/ PluginPages(end) <= MaxPages
    IN /\ Running /\ CanAllocate
       /\ \/ ok  /\ heap' = [heap EXCEPT !.heapPtr = end,
                                         !.pages = IF fits THEN @ ELSE PluginPages(end)]
                 /\ Allocated({Block(ptr, end, "bytes")})
          \/ ~ok /\ Allocated({}) /\ UNCHANGED heap
       /\ UNCHANGED <<memMarks, arenaMarks, scopes, phase>>

\* list.allocate: unaligned, and memory does not grow.  Only the three words of the
\* header are written, and trap outside it; the slots may lie past it.
ListAllocate(capacity) ==
    LET ptr == heap.heapPtr
        end == ptr + 16 + capacity * 4
        ok  == ptr + 12 <= Bytes(heap.pages)
    IN /\ Running /\ CanAllocate
       /\ heap' = [heap EXCEPT !.heapPtr = end]
       /\ \/ ok  /\ Allocated({Block(ptr, end, "list")}) /\ UNCHANGED phase
          \/ ~ok /\ Allocated({}) /\ phase' = "over"
       /\ UNCHANGED <<memMarks, arenaMarks, scopes>>

-----------------------------------------------------------------------------
(* Scopes.                                                                 *)

Scope(kind, host, top) ==
    [kind |-> kind, host |-> host, top |-> top,
     handle |-> Len(arenaMarks'), memDepth |-> Len(memMarks')]

Open(kind, host, top) ==
    /\ Running /\ Depth < MaxScopes
    /\ scopes' = Append(scopes, Scope(kind, host, top))
    /\ UNCHANGED <<blocks, phase, allocations>>

InScope(kind) == Running /\ Depth > 0 /\ scopes[Depth].kind = kind

Inner == {b \in blocks : b.depth = Depth}
Outer == blocks \ Inner

Closed ==
    /\ scopes' = Popped
    /\ blocks' = Outer
    /\ UNCHANGED <<phase, allocations>>

\* The plugin's own scope: a local holds __heap_ptr.
ScopePush ==
    /\ UNCHANGED <<heap, memMarks, arenaMarks>>
    /\ Open("native", heap.allocOffset, heap.heapPtr)

ScopePop ==
    /\ InScope("native")
    /\ heap' = [heap EXCEPT !.heapPtr = scopes[Depth].top]
    /\ Closed
    /\ UNCHANGED <<memMarks, arenaMarks>>

\* scope_pop_keeping: the kept string is copied to the mark, unless it lies there,
\* and the copy traps past the end of memory.
ScopePopKeeping(kept) ==
    LET mark == scopes[Depth].top
        end  == mark + (kept.hi - kept.lo)
        ok   == kept.lo = mark \/ end <= Bytes(heap.pages)
    IN /\ InScope("native") /\ CanAllocate
       /\ kept.kind = "bytes"
       /\ \/ /\ ok
             /\ heap' = [heap EXCEPT !.heapPtr = end]
             /\ scopes' = Popped
             /\ blocks' = Outer \cup {[lo |-> mark, hi |-> end, depth |-> Depth - 1,
                                      kind |-> "bytes"]}
             /\ UNCHANGED phase
          \/ /\ ~ok
             /\ phase' = "over"
             /\ UNCHANGED <<heap, scopes, blocks>>
       /\ allocations' = allocations + 1
       /\ UNCHANGED <<memMarks, arenaMarks>>

FaultOpenHeapScope(h) == h.allocOffset

\* open_heap_scope
OpenHeapScope(h) == Join(h).allocOffset

MemScopePush ==
    LET host == OpenHeapScope(heap)
        top  == Join(heap).heapPtr
    IN /\ heap' = Join(heap)
       /\ memMarks' = Append(memMarks, <<host, top>>)
       /\ UNCHANGED arenaMarks
       /\ Open("mem", host, top)

\* mem_scope_pop takes the last mark, whoever pushed it.
MemScopePop ==
    LET last == memMarks[Len(memMarks)]
    IN /\ InScope("mem")
       /\ heap' = Close(heap, last[1], last[2])
       /\ memMarks' = SubSeq(memMarks, 1, Len(memMarks) - 1)
       /\ Closed
       /\ UNCHANGED arenaMarks

ArenaScopePush ==
    LET mark == OpenHeapScope(heap)
    IN /\ Len(arenaMarks) < MaxScopes
       /\ heap' = Join(heap)
       /\ arenaMarks' = Append(arenaMarks, mark)
       /\ UNCHANGED memMarks
       /\ Open("arena", mark, mark)

FaultArenaScopePop ==
    LET mark == arenaMarks[Len(arenaMarks)]
    IN /\ InScope("arena")
       /\ heap' = Close(heap, mark, mark)
       /\ arenaMarks' = SubSeq(arenaMarks, 1, Len(arenaMarks) - 1)
       /\ Closed
       /\ UNCHANGED memMarks

\* _arena_scope_pop(handle): the marks above the handle's go as well.
ArenaScopePop ==
    LET handle == scopes[Depth].handle
        mark   == arenaMarks[handle]
    IN /\ InScope("arena")
       /\ heap' = Close(heap, mark, mark)
       /\ arenaMarks' = SubSeq(arenaMarks, 1, handle - 1)
       /\ Closed
       /\ UNCHANGED memMarks

\* `continue` and `break` skip the pops of the loop body, but for those of
\* mem_scope_pop, which the compiler repeats before each jump.  What the scope
\* held now lives as long as the scope around it.
SkipPop ==
    /\ InScope("native") \/ InScope("arena")
    /\ scopes' = Popped
    /\ blocks' = Outer \cup {[b EXCEPT !.depth = Depth - 1] : b \in Inner}
    /\ UNCHANGED <<heap, memMarks, arenaMarks, phase, allocations>>

-----------------------------------------------------------------------------
Init ==
    /\ heap = [heapPtr |-> HeapStart, allocOffset |-> HostStart, stableEnd |-> HostStart,
               joined |-> FALSE, emptyLp |-> 0, pages |-> InitialPages]
    /\ memMarks = <<>> /\ arenaMarks = <<>>
    /\ scopes = <<>>
    /\ blocks = {}
    /\ phase = "inputs"
    /\ allocations = 0

Next ==
    \/ \E size \in HostSizes : WriteInput(size) \/ BridgeResult(size)
    \/ Call
    \/ \E size \in Requests : Malloc(size)
    \/ \E capacity \in Capacities : ListAllocate(capacity)
    \/ ScopePush \/ ScopePop \/ \E b \in blocks : ScopePopKeeping(b)
    \/ MemScopePush \/ MemScopePop
    \/ ArenaScopePush \/ ArenaScopePop
    \/ SkipPop

Spec == Init /\ [][Next]_vars

-----------------------------------------------------------------------------
(* Properties.                                                             *)

HeapRecord  == [heapPtr : Nat, allocOffset : 0..MaxAddress, stableEnd : Nat,
                joined : BOOLEAN, emptyLp : Nat, pages : Nat]
ScopeRecord == [kind : {"native", "mem", "arena"}, host : Nat, top : Nat,
                handle : Nat, memDepth : Nat]
BlockRecord(d) == [lo : Nat, hi : Nat, depth : 0..d, kind : {"bytes", "list"}]

\* The types; no page beyond the limit, no block of a scope that is not open.
TypeOK ==
    /\ heap \in HeapRecord /\ heap.pages \in InitialPages..MaxPages
    /\ memMarks \in Seq(Nat \X Nat)
    /\ arenaMarks \in Seq(Nat)
    /\ scopes \in Seq(ScopeRecord)
    /\ blocks \subseteq BlockRecord(Depth)
    /\ phase \in {"inputs", "running", "over"}
    /\ allocations \in 0..MaxAllocations

\* Whatever host and plugin allocate and rewind, two blocks that are still read
\* never overlap.
BlocksApart ==
    \A b, c \in blocks : b # c => b.hi <= c.lo \/ c.hi <= b.lo

\* Bytes lie in memory that exists; of a list literal, the header that was written.
Backed(b, pages) ==
    IF b.kind = "list" THEN b.lo + 12 <= Bytes(pages) ELSE b.hi <= Bytes(pages)

\* Host data never sits "in memory that pointer can still reach": every block
\* ends at or below the plugin's heap top, and what host and plugin wrote into it
\* when they took it lies in memory that exists.  (The slots of a list literal may
\* lie past it: list.allocate does not look.)
BelowHeapTop ==
    \A b \in blocks : b.hi <= heap.heapPtr /\ Backed(b, heap.pages)

\* "neither a host scope pop nor the plugin's own __scope_pop can hand its bytes
\* out again": the cached empty string stays below the heap top, clear of blocks.
EmptyStringIntact ==
    heap.joined =>
        /\ heap.emptyLp + 8 <= heap.heapPtr
        /\ \A b \in blocks : heap.emptyLp + 8 <= b.lo \/ b.hi <= heap.emptyLp

\* "reclaimed in O(1) by pop": when a scope's blocks die, the plugin's pointer is
\* back at the scope's mark, and for a host scope the host's pointer too, whatever
\* the jumps before left on the stacks of marks.
Closing == Depth > 0 /\ scopes' = Popped /\ blocks' = Outer /\ Inner # {}

PopReclaims ==
    [][Closing => /\ heap'.heapPtr <= scopes[Depth].top
                  /\ scopes[Depth].kind # "native" => heap'.allocOffset <= scopes[Depth].host]_vars

\* No scope rewinds past a block of a scope around it.
OuterBlocksSpared ==
    \A i \in 1..Depth, b \in blocks : b.depth < i => b.hi <= scopes[i].top
=============================================================================
