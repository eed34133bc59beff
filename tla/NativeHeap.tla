----------------------------- MODULE NativeHeap -----------------------------
(***************************************************************************)
(* The memory runtime that the compiler emits into every WebAssembly       *)
(* module: a bump heap (__malloc, list.allocate, list.add), heap scopes    *)
(* (scope_push, scope_pop, scope_pop_keeping) and the transient pool that  *)
(* the string-accumulator rewrites allocate from.                          *)
(*                                                                         *)
(* Addresses, alignment and page size are the program's own numbers.  The  *)
(* bytes are abstracted: a block is an interval of addresses that the      *)
(* generated program still expects to read ("live"), and the questions are *)
(* whether two live blocks can overlap, whether a copy reads what it has   *)
(* already overwritten, and when an allocation fails.                      *)
(*                                                                         *)
(* The runtime is single threaded: every helper is one step.  Its caller,  *)
(* the generated program, opens and closes scopes like brackets; the only  *)
(* bracket it may skip is transient_scope_exit, by `continue`.             *)
(*                                                                         *)
(* The operators named Fault... are wrong versions of the definition after *)
(* them; the specification never uses them.  Each shows that a property    *)
(* notices the fault.                                                      *)
(***************************************************************************)
EXTENDS Integers, Sequences

CONSTANTS
    StaticEnd,          \* end of the static data (string_offset_counter)
    InitialPages,       \* memory pages at instantiation
    MaxPages,           \* the memory tier's limit
    Requests,           \* the sizes the program asks an allocator for
    Capacities,         \* the capacities of its list literals
    KeeperLengths,      \* byte lengths of the strings it keeps over a pop
    MaxScopes,          \* bound: open scopes at a time
    MaxAllocations      \* bound: allocations and kept strings in a behaviour

ASSUME TierAssumption ==
    /\ StaticEnd \in Nat /\ InitialPages \in Nat /\ MaxPages \in Nat
    /\ InitialPages <= MaxPages
    /\ Requests \subseteq Nat \ {0}     \* every value has a header
    /\ Capacities \subseteq Nat
    /\ KeeperLengths \subseteq Nat
    /\ MaxScopes \in Nat /\ MaxAllocations \in Nat

PageSize            == 65536
TRANSIENT_POOL_SIZE == 65536

Bytes(n) == n * PageSize

FaultAlignUp(n) == (n \div 8) * 8

\* (n + 7) & ~7.  Sizes come from strings and lists that fit in memory, so
\* at most 1 GiB: the sums below stay under 2^32 and need no modulus.
AlignUp(n) == ((n + 7) \div 8) * 8

\* The pool is reserved between the static data and the first heap byte.
PoolBase  == AlignUp(StaticEnd)
PoolEnd   == PoolBase + TRANSIENT_POOL_SIZE
HeapStart == PoolEnd

ASSUME LayoutAssumption == HeapStart <= Bytes(InitialPages)

VARIABLES
    heapPtr,        \* global 0, __heap_ptr
    transientPtr,   \* global 2, TRANSIENT_PTR (global 1, the base, is constant)
    pages,          \* memory.size
    scopes,         \* the program's open scopes, outermost first
    blocks,         \* the live blocks
    allocations,    \* how many allocations and kept strings there have been
    last            \* the last helper call and what it returned

vars == <<heapPtr, transientPtr, pages, scopes, blocks, allocations, last>>

-----------------------------------------------------------------------------
MemoryBytes == Bytes(pages)
MemoryLimit == Bytes(MaxPages)
Running     == last.op # "trap"
Depth       == Len(scopes)

\* Index of the innermost open heap scope of s, 0 when there is none.
Home(s) == IF s = <<>> THEN 0 ELSE s[Len(s)].home

\* A block is live until scope number `until` closes, for ever when 0.
Block(lo, hi, until, kind) == [lo |-> lo, hi |-> hi, until |-> until, kind |-> kind]

Result(op, ptr, src, size) == [op |-> op, ptr |-> ptr, src |-> src, size |-> size]

Live(b) ==
    /\ blocks' = blocks \cup {b}
    /\ allocations' = allocations + 1

NoneLive == UNCHANGED <<blocks, allocations>>

CanAllocate == Running /\ allocations < MaxAllocations

-----------------------------------------------------------------------------
(* Allocation.  __malloc and a growing list.add share one bump: start      *)
(* aligned, memory grown when the end lies outside it.                     *)

FaultPagesFor(end)  == end \div PageSize

\* The pages the code asks memory.grow to reach for a block that ends at end.
PagesFor(end) == (end \div PageSize) + 1

Available(end) == end <= MemoryBytes \/ PagesFor(end) <= MaxPages

Bump(ptr, end, until, kind) ==
    /\ pages' = IF end <= MemoryBytes THEN pages ELSE PagesFor(end)
    /\ heapPtr' = end
    /\ Live(Block(ptr, end, until, kind))

\* gen_malloc: 0, without moving the pointer, when memory cannot grow.
MallocStep(op, size, until) ==
    LET ptr == AlignUp(heapPtr)
        end == ptr + AlignUp(size)
    IN \/ /\ Available(end)
          /\ Bump(ptr, end, until, "bytes")
          /\ last' = Result(op, ptr, 0, size)
       \/ /\ ~Available(end)
          /\ last' = Result(op, 0, 0, size)
          /\ NoneLive /\ UNCHANGED <<heapPtr, pages>>

Malloc(size) ==
    /\ CanAllocate
    /\ MallocStep("malloc", size, Home(scopes))
    /\ UNCHANGED <<transientPtr, scopes>>

\* generate_list_allocate: bumps from the pointer as it stands, never grows
\* memory; the three header words trap when they fall outside it.
ListAllocate(capacity) ==
    LET ptr == heapPtr
        end == ptr + 16 + capacity * 4
    IN /\ CanAllocate
       /\ heapPtr' = end
       /\ \/ /\ ptr + 12 <= MemoryBytes
             /\ Live(Block(ptr, end, Home(scopes), "list"))
             /\ last' = Result("list.allocate", ptr, 0, end - ptr)
          \/ /\ ptr + 12 > MemoryBytes
             /\ NoneLive
             /\ last' = Result("trap", ptr, 0, end - ptr)
       /\ UNCHANGED <<transientPtr, pages, scopes>>

\* list.add on a full list: it moves to an aligned block of twice the slots (at
\* least 8, or 16 for 8-byte elements); a trap when memory cannot grow.
ListGrow(full, minimum) ==
    LET twice == 2 * ((full.hi - full.lo - 16) \div 4)
        slots == IF twice < minimum THEN minimum ELSE twice
        ptr   == AlignUp(heapPtr)
        end   == ptr + 16 + slots * 4
    IN /\ CanAllocate
       /\ full.kind = "list" /\ full.hi <= MemoryBytes
       /\ \/ /\ Available(end)
             /\ Bump(ptr, end, Home(scopes), "list")
             /\ last' = Result("list.add", ptr, full.lo, end - ptr)
          \/ /\ ~Available(end)
             /\ last' = Result("trap", ptr, full.lo, end - ptr)
             /\ NoneLive /\ UNCHANGED <<heapPtr, pages>>
       /\ UNCHANGED <<transientPtr, scopes>>

-----------------------------------------------------------------------------
(* Heap scopes.                                                            *)

Popped   == SubSeq(scopes, 1, Depth - 1)
Survives == {b \in blocks : b.until < Depth}

Open(kind, mark, home) ==
    /\ Running /\ Depth < MaxScopes
    /\ scopes' = Append(scopes, [kind |-> kind, mark |-> mark, home |-> home])
    /\ last' = Result("enter", 0, 0, 0)
    /\ UNCHANGED <<heapPtr, transientPtr, pages, blocks, allocations>>

InScope(kind) == Running /\ Depth > 0 /\ scopes[Depth].kind = kind

FaultScopePush == Open("heap", heapPtr + 8, Depth + 1)

ScopePush == Open("heap", heapPtr, Depth + 1)

\* scope_pop(mark), and scope_pop_keeping(mark, 0): a null keeper is not read.
ScopePop ==
    /\ InScope("heap")
    /\ heapPtr' = scopes[Depth].mark
    /\ blocks' = Survives
    /\ scopes' = Popped
    /\ last' = Result("scope_pop", 0, 0, 0)
    /\ UNCHANGED <<transientPtr, pages, allocations>>

\* scope_pop_keeping(mark, src), src a string of `total` bytes with its
\* length prefix.  The copy is ascending and does not grow memory: its store
\* traps past the end of memory.
PopKeeping(src, total) ==
    LET mark == scopes[Depth].mark
    IN /\ InScope("heap") /\ CanAllocate
       /\ \/ /\ src = mark \/ mark + total <= MemoryBytes
             /\ heapPtr' = mark + total
             /\ blocks' = Survives \cup
                   {Block(mark, mark + total, Home(Popped), "bytes")}
             /\ scopes' = Popped
             /\ last' = Result("scope_pop_keeping", mark, src, total)
          \/ /\ src # mark /\ mark + total > MemoryBytes
             /\ last' = Result("trap", mark, src, total)
             /\ UNCHANGED <<heapPtr, blocks, scopes>>
       /\ allocations' = allocations + 1
       /\ UNCHANGED <<transientPtr, pages>>

\* The kept string is a live block, the string inside a builder (past its
\* capacity word), or a literal; it need not be younger than the mark.
ScopePopKeeping(length) ==
    \/ \E b \in blocks, skip \in {0, 4} :
          /\ b.kind = "bytes"
          /\ b.lo + skip + 4 + length <= b.hi
          /\ PopKeeping(b.lo + skip, 4 + length)
    \/ /\ 4 + length <= StaticEnd
       /\ PopKeeping(StaticEnd - (4 + length), 4 + length)

-----------------------------------------------------------------------------
(* The transient pool.                                                     *)

FaultTransientScopeEnter == Open("transient", heapPtr, Home(scopes))

\* The lazy __malloc of the pool is dead: the base is never 0.
TransientScopeEnter == Open("transient", transientPtr, Home(scopes))

TransientScopeExit ==
    /\ InScope("transient")
    /\ transientPtr' = scopes[Depth].mark
    /\ blocks' = Survives
    /\ scopes' = Popped
    /\ last' = Result("exit", 0, 0, 0)
    /\ UNCHANGED <<heapPtr, pages, allocations>>

\* `continue` in an accumulator loop jumps past the exit at the body's end.
ContinuePastExit ==
    /\ InScope("transient")
    /\ blocks' = Survives
    /\ scopes' = Popped
    /\ last' = Result("continue", 0, 0, 0)
    /\ UNCHANGED <<heapPtr, transientPtr, pages, allocations>>

FaultFitsPool(ptr, end) == ptr <= PoolEnd

FitsPool(ptr, end) == end <= PoolEnd

\* A string of the current iteration: from the pool, or, when the pool is
\* full, spilled to __malloc.  Dead when the innermost scope closes.
TransientAlloc(size) ==
    LET end == transientPtr + AlignUp(size)
    IN /\ CanAllocate
       /\ \E i \in 1..Depth : scopes[i].kind = "transient"
       /\ \/ /\ FitsPool(transientPtr, end)
             /\ transientPtr' = end
             /\ Live(Block(transientPtr, end, Depth, "bytes"))
             /\ last' = Result("transient", transientPtr, 0, size)
             /\ UNCHANGED <<heapPtr, pages>>
          \/ /\ ~FitsPool(transientPtr, end)
             /\ MallocStep("spill", size, Depth)
             /\ UNCHANGED transientPtr
       /\ UNCHANGED scopes

-----------------------------------------------------------------------------
Init ==
    /\ heapPtr = HeapStart
    /\ transientPtr = PoolBase
    /\ pages = InitialPages
    /\ scopes = <<>>
    /\ blocks = {}
    /\ allocations = 0
    /\ last = Result("none", 0, 0, 0)

Next ==
    \/ \E size \in Requests : Malloc(size)
    \/ \E capacity \in Capacities : ListAllocate(capacity)
    \/ \E full \in blocks, minimum \in {8, 16} : ListGrow(full, minimum)
    \/ ScopePush
    \/ ScopePop
    \/ \E length \in KeeperLengths : ScopePopKeeping(length)
    \/ TransientScopeEnter
    \/ TransientScopeExit
    \/ ContinuePastExit
    \/ \E size \in Requests : TransientAlloc(size)

Spec == Init /\ [][Next]_vars

-----------------------------------------------------------------------------
(* Properties.                                                             *)

Ops == {"none", "malloc", "list.allocate", "list.add", "enter", "scope_pop",
        "scope_pop_keeping", "exit", "continue", "transient", "spill", "trap"}

ScopeRecord == [kind : {"heap", "transient"}, mark : Nat, home : Nat]
BlockRecord == [lo : Nat, hi : Nat, until : Nat, kind : {"bytes", "list"}]
ResultRecord == [op : Ops, ptr : Nat, src : Nat, size : Nat]

\* Every variable has its type, memory stays within the tier, and no block
\* outlives the program's scopes.
TypeOK ==
    /\ heapPtr \in Nat /\ transientPtr \in Nat /\ allocations \in Nat
    /\ pages \in Nat /\ pages >= InitialPages /\ pages <= MaxPages
    /\ scopes \in Seq(ScopeRecord)
    /\ blocks \subseteq BlockRecord
    /\ \A b \in blocks : b.until <= Depth
    /\ last \in ResultRecord

Disjoint(a, b) == a.hi <= b.lo \/ b.hi <= a.lo

\* No sequence of allocations, scope pops and pool resets hands out bytes of a
\* block the program still reads ("the next allocation would overwrite the
\* string it refers to").
RegionSafe == \A a, b \in blocks : a # b => Disjoint(a, b)

\* The transient pool belongs to no heap block and the heap to no pool
\* string, however the heap pointer is rewound (issue #15: a rewind past the
\* pool handed its bytes back to __malloc).
PoolReserved ==
    /\ heapPtr >= PoolEnd
    /\ transientPtr >= PoolBase /\ transientPtr <= PoolEnd
    /\ \A b \in blocks :
          \/ PoolBase <= b.lo /\ b.hi <= transientPtr
          \/ PoolEnd <= b.lo /\ b.hi <= heapPtr

\* scope_pop_keeping copies upwards byte by byte: it must not overwrite a
\* byte of the keeper before it has read it, wherever the keeper lies.
KeeperCopySound ==
    last.op = "scope_pop_keeping" =>
        \/ last.ptr <= last.src
        \/ last.src + last.size <= last.ptr

\* Bytes that __malloc, transient_alloc or scope_pop_keeping hand out lie in
\* the memory that exists; only list.allocate does not look.
BytesBacked == \A b \in blocks : b.kind = "bytes" => b.hi <= MemoryBytes

\* Reopening a scope costs nothing: what a pop gives back is exactly what was
\* allocated since the push, so no live block lies above the heap pointer and
\* every open scope's mark lies at or below it, in nesting order.
MarksNested ==
    \A i, j \in 1..Depth :
        (i <= j /\ scopes[i].kind = scopes[j].kind) =>
            /\ scopes[i].mark <= scopes[j].mark
            /\ scopes[j].mark <= (IF scopes[j].kind = "heap"
                                   THEN heapPtr ELSE transientPtr)

=============================================================================
