-------------------------- MODULE SharedHeapProofs --------------------------
(***************************************************************************)
(* The heap that host and plugin share is safe for every layout, every     *)
(* size and every nesting of the plugin's scopes with the host's.          *)
(*                                                                         *)
(* What a pop frees depends on two pointers, two stacks of marks and the   *)
(* scopes the plugin has skipped.  The invariant therefore says that each  *)
(* open scope still finds its own mark on the host's stacks (Stacks), that *)
(* the mark lies above everything older than the scope (OuterBlocksSpared) *)
(* and that the reserved string lies below all of them (Reserved).         *)
(***************************************************************************)
EXTENDS SharedHeap, SequenceTheorems, TLAPS

\* Every block lies below the plugin's pointer, and what was written into it when
\* it was taken inside memory; no address of a block passes i32::MAX.
Bounded ==
    /\ BelowHeapTop
    /\ \A b \in blocks : b.lo < b.hi /\ b.hi <= MaxAddress

\* Each open scope still finds its own mark on the host's stacks, at the depth
\* it recorded.
OwnMark ==
    \A i \in 1..Depth :
       /\ scopes[i].handle <= Len(arenaMarks) /\ scopes[i].memDepth <= Len(memMarks)
       /\ scopes[i].kind = "arena" =>
             /\ 1 <= scopes[i].handle /\ arenaMarks[scopes[i].handle] = scopes[i].top
             /\ scopes[i].host = scopes[i].top
       /\ scopes[i].kind = "mem" =>
             /\ 1 <= scopes[i].memDepth
             /\ memMarks[scopes[i].memDepth] = <<scopes[i].host, scopes[i].top>>

\* The depths grow with the nesting: no scope's mark is under that of a scope
\* around it.
DepthsGrow ==
    \A i, j \in 1..Depth : i < j =>
       /\ scopes[i].handle <= scopes[j].handle /\ scopes[i].memDepth <= scopes[j].memDepth
       /\ scopes[j].kind = "arena" => scopes[i].handle < scopes[j].handle
       /\ scopes[j].kind = "mem" => scopes[i].memDepth < scopes[j].memDepth

\* Every mark of mem_scope_push belongs to an open scope, those at the bottom
\* of the stack apart.
MemMarksOpen ==
    /\ Depth > 0 => scopes[Depth].memDepth = Len(memMarks)
    /\ \A i \in 1..Depth : i > 1 =>
          scopes[i].memDepth =
              scopes[i - 1].memDepth + (IF scopes[i].kind = "mem" THEN 1 ELSE 0)

Stacks == OwnMark /\ DepthsGrow /\ MemMarksOpen

\* When an input has been written before the call, the host has joined the heap
\* before the first scope, and the reserved string lies below every mark.
Reserved ==
    /\ phase = "inputs" => scopes = <<>>
    /\ ~MayFindInputs =>
          /\ phase = "running" \/ scopes # <<>> \/ blocks # {} => heap.joined
          /\ EmptyStringIntact
          /\ heap.joined =>
                /\ heap.stableEnd = heap.emptyLp + 8
                /\ heap.stableEnd <= heap.allocOffset
                /\ \A i \in 1..Depth : heap.stableEnd <= scopes[i].top
                                       /\ heap.stableEnd <= scopes[i].host

Inductive ==
    /\ TypeOK /\ Bounded /\ BlocksApart /\ OuterBlocksSpared /\ Stacks /\ Reserved

-----------------------------------------------------------------------------
(* Arithmetic.                                                             *)

\* AlignUp moves up, by less than the alignment.
LEMMA AlignUpBounds ==
    ASSUME NEW n \in Nat
    PROVE  AlignUp(n) \in Nat /\ n <= AlignUp(n) /\ (n > 0 => AlignUp(n) >= 8)
  BY DEF AlignUp

\* The pages for an end cover it, and more bytes need no fewer pages.
LEMMA PagesCover ==
    ASSUME NEW end \in Nat
    PROVE  /\ PagesFor(end) \in Nat /\ end <= Bytes(PagesFor(end))
           /\ \A m \in Nat : m <= end => PagesFor(m) <= PagesFor(end)
           /\ \A n \in Nat : Bytes(n) \in Nat /\ (PagesFor(end) <= n => end <= Bytes(n))
  BY DEF PagesFor, Bytes, PageSize

\* What there is room for ends below the highest address.
LEMMA Room ==
    ASSUME NEW end \in Nat, Available(end)
    PROVE  end < MaxAddress /\ PagesFor(end) \in Nat /\ PagesFor(end) <= MaxPages
  <1>1. PagesFor(end) <= MaxPages /\ MaxPages \in Nat /\ Bytes(MaxPages) < MaxAddress
        /\ MaxAddress \in Nat
    BY SizesAssumption, LayoutAssumption DEF Available
  <1>2. end <= Bytes(MaxPages) /\ Bytes(MaxPages) \in Nat /\ PagesFor(end) \in Nat
    BY <1>1, PagesCover
  <1> QED
    BY <1>1, <1>2

\* More pages are no fewer bytes.
LEMMA BytesMonotone ==
    /\ \A n \in Nat : Bytes(n) \in Nat
    /\ \A m, n \in Nat : m <= n => Bytes(m) <= Bytes(n)
  BY DEF Bytes, PageSize

\* What is backed stays so when memory grows; bytes that are backed end below the
\* highest address.
LEMMA BackedStays ==
    ASSUME NEW b, b.lo \in Nat, b.hi \in Nat, NEW p \in Nat, Backed(b, p)
    PROVE  /\ \A q \in Nat : p <= q => Backed(b, q)
           /\ p <= MaxPages /\ b.kind = "bytes" => b.hi <= MaxAddress
  <1>1. MaxPages \in Nat /\ MaxAddress \in Nat /\ Bytes(MaxPages) < MaxAddress
    BY SizesAssumption, LayoutAssumption
  <1>2. ASSUME NEW q \in Nat, p <= q PROVE Backed(b, q)
    <2>1. Bytes(p) \in Nat /\ Bytes(q) \in Nat /\ Bytes(p) <= Bytes(q)
      BY <1>2, BytesMonotone
    <2> QED
      BY <2>1 DEF Backed
  <1>3. ASSUME p <= MaxPages, b.kind = "bytes" PROVE b.hi <= MaxAddress
    <2>1. Bytes(p) \in Nat /\ Bytes(MaxPages) \in Nat /\ Bytes(p) <= Bytes(MaxPages)
      BY <1>1, <1>3, BytesMonotone
    <2>2. b.hi <= Bytes(p)
      BY <1>3 DEF Backed
    <2> QED
      BY <1>1, <2>1, <2>2
  <1> QED
    BY <1>2, <1>3

-----------------------------------------------------------------------------
(* The operators on the heap.                                              *)

HeapState(h) == h \in HeapRecord /\ h.pages \in InitialPages..MaxPages

\* What growing the memory to an end does to the record of the heap.
LEMMA GrownFacts ==
    ASSUME NEW h, HeapState(h), NEW end \in Nat, Available(end)
    PROVE  /\ HeapState(Grown(h, end))
           /\ end <= Bytes(Grown(h, end).pages) /\ h.pages <= Grown(h, end).pages
           /\ Grown(h, end).heapPtr = h.heapPtr
           /\ Grown(h, end).allocOffset = h.allocOffset
           /\ Grown(h, end).joined = h.joined
           /\ Grown(h, end).emptyLp = h.emptyLp
           /\ Grown(h, end).stableEnd = h.stableEnd
  <1>1. PagesFor(end) \in Nat /\ PagesFor(end) <= MaxPages /\ MaxPages \in Nat
        /\ InitialPages \in Nat
    BY Room, SizesAssumption
  <1>2. h.pages \in Nat /\ h.pages <= MaxPages /\ InitialPages <= h.pages /\ h \in HeapRecord
    BY <1>1 DEF HeapState
  <1> DEFINE p == Larger(h.pages, PagesFor(end))
  <1>3. p \in Nat /\ h.pages <= p /\ PagesFor(end) <= p /\ p <= MaxPages /\ p >= InitialPages
    BY <1>1, <1>2 DEF Larger
  <1>4. end <= Bytes(p)
    BY <1>3, PagesCover
  <1>5. Grown(h, end) = [h EXCEPT !.pages = p]
    BY DEF Grown
  <1> HIDE DEF p
  <1> QED
    BY <1>1, <1>2, <1>3, <1>4, <1>5 DEF HeapState, HeapRecord

\* Joining moves the plugin's pointer up, if at all; the host's pointer then is
\* no lower, unless it is at the cap; what was reserved before stays.
LEMMA JoinFacts ==
    ASSUME NEW h, HeapState(h)
    PROVE  LET j == Join(h) IN
           /\ HeapState(j)
           /\ h.pages <= j.pages /\ h.heapPtr <= j.heapPtr
           /\ AlignUp(h.heapPtr) <= j.allocOffset \/ j.allocOffset = MaxAddress
           /\ j.heapPtr <= j.allocOffset \/ j.allocOffset = MaxAddress
           /\ h.joined => /\ j.joined /\ j.emptyLp = h.emptyLp /\ j.stableEnd = h.stableEnd
                          /\ h.allocOffset <= j.allocOffset
           /\ ~h.joined /\ j.joined =>
                 /\ h.heapPtr <= j.emptyLp /\ j.stableEnd = j.emptyLp + 8
                 /\ j.heapPtr = j.stableEnd /\ j.allocOffset = j.stableEnd
           /\ ~j.joined => ~Available(AlignUp(h.heapPtr) + 8)
  <1> DEFINE top == AlignUp(h.heapPtr)
  <1>1. h \in HeapRecord /\ h.heapPtr \in Nat /\ h.allocOffset \in 0..MaxAddress
        /\ MaxAddress \in Nat
    BY SizesAssumption DEF HeapState, HeapRecord
  <1>2. top \in Nat /\ h.heapPtr <= top
    BY <1>1, AlignUpBounds
  <1> HIDE DEF top
  <1>3. CASE ~h.joined /\ Available(top + 8)
    <2> DEFINE g == Grown(h, top + 8)
    <2>1. HeapState(g) /\ h.pages <= g.pages /\ g \in HeapRecord
      BY <1>2, <1>3, GrownFacts, HeapState(h) DEF HeapState
    <2>2. top + 8 \in 0..MaxAddress
      BY <1>1, <1>2, <1>3, Room
    <2>3. Join(h) = [heapPtr |-> top + 8, allocOffset |-> top + 8, stableEnd |-> top + 8,
                     joined |-> TRUE, emptyLp |-> top, pages |-> g.pages]
      BY <1>3 DEF Join, FirstContact, top
    <2> DEFINE j == Join(h)
    <2> HIDE DEF g
    <2>4. j \in HeapRecord /\ j.pages = g.pages /\ j.joined = TRUE /\ j.emptyLp = top
          /\ j.heapPtr = top + 8 /\ j.allocOffset = top + 8 /\ j.stableEnd = top + 8
      BY <1>2, <2>1, <2>2, <2>3 DEF HeapRecord
    <2>5. HeapState(j)
      BY <2>1, <2>4 DEF HeapState
    <2> HIDE DEF j
    <2>6. j.joined
      BY <2>4
    <2>7. h.heapPtr <= j.heapPtr
      BY <1>1, <1>2, <2>4
    <2>8. AlignUp(h.heapPtr) <= j.allocOffset
      BY <1>2, <2>4 DEF top
    <2>9. j.heapPtr <= j.allocOffset
      BY <1>2, <2>4
    <2> QED
      BY <1>2, <1>3, <2>1, <2>4, <2>5, <2>6, <2>7, <2>8, <2>9 DEF j
  <1>4. CASE ~(~h.joined /\ Available(top + 8))
    <2> DEFINE a == Larger(h.allocOffset, Smaller(top, MaxAddress))
    <2>1. a \in 0..MaxAddress /\ h.allocOffset <= a /\ (top <= a \/ a = MaxAddress)
      BY <1>1, <1>2 DEF Larger, Smaller
    <2>2. Join(h) = [h EXCEPT !.allocOffset = a]
      BY <1>4 DEF Join, Raise, top
    <2> HIDE DEF a
    <2> DEFINE j == Join(h)
    <2>3. HeapState(j) /\ j.heapPtr = h.heapPtr /\ j.allocOffset = a /\ j.pages = h.pages
          /\ j.joined = h.joined /\ j.emptyLp = h.emptyLp /\ j.stableEnd = h.stableEnd
      BY <1>1, <2>1, <2>2 DEF HeapState, HeapRecord
    <2>4. top <= a \/ a = MaxAddress
      BY <2>1
    <2>5. h.heapPtr <= a \/ a = MaxAddress
      BY <1>1, <1>2, <2>1
    <2> HIDE DEF j
    <2>6. h.pages \in Nat /\ h.pages <= j.pages /\ h.heapPtr <= j.heapPtr
      BY <1>1, <2>3 DEF HeapRecord
    <2> QED
      BY <1>1, <1>2, <1>4, <2>1, <2>3, <2>4, <2>5, <2>6 DEF top, j
  <1> QED
    BY <1>3, <1>4

\* A host allocation on a joined heap: both pointers move up, unless the request
\* does not fit below the cap.
LEMMA ReserveFacts ==
    ASSUME NEW h, HeapState(h), NEW size \in Nat,
           h.heapPtr <= h.allocOffset \/ h.allocOffset = MaxAddress, size > 0
    PROVE  LET r == Reserve(h, size) IN
           /\ HeapState(r) /\ r.pages = h.pages /\ h.heapPtr <= r.heapPtr
           /\ r.joined = h.joined /\ r.emptyLp = h.emptyLp /\ r.stableEnd = h.stableEnd
           /\ h.allocOffset <= r.allocOffset
           /\ h.allocOffset + AlignUp(size) <= MaxAddress =>
                 /\ h.heapPtr <= h.allocOffset /\ r.heapPtr = h.allocOffset + AlignUp(size)
                 /\ r.allocOffset = r.heapPtr
  <1>1. h \in HeapRecord /\ h.heapPtr \in Nat /\ h.allocOffset \in 0..MaxAddress
        /\ MaxAddress \in Nat
    BY SizesAssumption DEF HeapState, HeapRecord
  <1>2. AlignUp(size) \in Nat /\ AlignUp(size) >= 8
    BY AlignUpBounds
  <1> DEFINE top == h.allocOffset + AlignUp(size)
  <1>3. CASE top > MaxAddress
    <2>1. Reserve(h, size) = [h EXCEPT !.allocOffset = MaxAddress]
      BY <1>3 DEF Reserve
    <2> QED
      BY <1>1, <1>2, <1>3, <2>1 DEF HeapState, HeapRecord
  <1>4. CASE ~(top > MaxAddress)
    <2>1. Reserve(h, size) = [h EXCEPT !.allocOffset = top, !.heapPtr = top]
      BY <1>4 DEF Reserve
    <2>2. top \in 0..MaxAddress /\ h.allocOffset < top /\ h.heapPtr <= h.allocOffset
      BY <1>1, <1>2, <1>4
    <2> HIDE DEF top
    <2>3. h.allocOffset + AlignUp(size) = top
      BY DEF top
    <2> DEFINE r == Reserve(h, size)
               a == [h EXCEPT !.allocOffset = top]
    <2>a. a \in HeapRecord /\ a.pages = h.pages /\ a.heapPtr = h.heapPtr /\ a.allocOffset = top
          /\ a.joined = h.joined /\ a.emptyLp = h.emptyLp /\ a.stableEnd = h.stableEnd
      BY <1>1, <2>2 DEF HeapRecord
    <2>b. r = [a EXCEPT !.heapPtr = top]
      BY <2>1
    <2> HIDE DEF a, r
    <2>4. r \in HeapRecord /\ r.pages = h.pages /\ r.heapPtr = top /\ r.allocOffset = top
          /\ r.joined = h.joined /\ r.emptyLp = h.emptyLp /\ r.stableEnd = h.stableEnd
      BY <1>1, <2>2, <2>a, <2>b DEF HeapRecord
    <2>5. HeapState(r)
      BY <2>4, HeapState(h) DEF HeapState
    <2>6. h.heapPtr <= r.heapPtr /\ h.allocOffset <= r.allocOffset
      BY <1>1, <2>2, <2>4
    <2> QED
      BY <2>2, <2>3, <2>4, <2>5, <2>6 DEF r
  <1> QED
    BY <1>3, <1>4

-----------------------------------------------------------------------------
(* The state.                                                              *)

\* The types that TypeOK gives.
LEMMA Types ==
    ASSUME TypeOK
    PROVE  /\ HeapState(heap) /\ heap.heapPtr \in Nat /\ heap.allocOffset \in Nat
           /\ heap.pages \in Nat /\ heap.stableEnd \in Nat /\ heap.emptyLp \in Nat
           /\ heap.joined \in BOOLEAN
           /\ Depth \in Nat /\ Depth = Len(scopes) /\ scopes \in Seq(ScopeRecord)
           /\ Len(arenaMarks) \in Nat /\ Len(memMarks) \in Nat
           /\ \A i \in 1..Depth : /\ scopes[i].host \in Nat /\ scopes[i].top \in Nat
                                   /\ scopes[i].handle \in Nat /\ scopes[i].memDepth \in Nat
                                   /\ scopes[i].kind \in {"native", "mem", "arena"}
           /\ \A b \in blocks : /\ b.lo \in Nat /\ b.hi \in Nat /\ b.depth \in 0..Depth
                                 /\ b.kind \in {"bytes", "list"} /\ b \in BlockRecord(Depth)
  <1>1. HeapState(heap) /\ heap \in HeapRecord
    BY DEF TypeOK, HeapState
  <1>2. Depth \in Nat /\ Depth = Len(scopes) /\ scopes \in Seq(ScopeRecord)
        /\ Len(arenaMarks) \in Nat /\ Len(memMarks) \in Nat
    BY DEF TypeOK, Depth
  <1>3. \A i \in 1..Depth : scopes[i] \in ScopeRecord
    BY <1>2, ElementOfSeq
  <1>4. \A b \in blocks : /\ b.lo \in Nat /\ b.hi \in Nat /\ b.depth \in 0..Depth
                          /\ b.kind \in {"bytes", "list"} /\ b \in BlockRecord(Depth)
    BY DEF TypeOK, BlockRecord
  <1>5. MaxAddress \in Nat
    BY SizesAssumption
  <1>6. /\ heap.heapPtr \in Nat /\ heap.allocOffset \in Nat
        /\ heap.stableEnd \in Nat /\ heap.emptyLp \in Nat /\ heap.joined \in BOOLEAN
        /\ heap.pages \in Nat
    BY <1>1, <1>5 DEF HeapRecord
  <1>7. \A i \in 1..Depth : /\ scopes[i].host \in Nat /\ scopes[i].top \in Nat
                           /\ scopes[i].handle \in Nat /\ scopes[i].memDepth \in Nat
                           /\ scopes[i].kind \in {"native", "mem", "arena"}
    BY <1>3 DEF ScopeRecord
  <1> QED
    BY <1>1, <1>2, <1>4, <1>6, <1>7

\* A block between the old and the new end of the plugin's heap, or none, keeps
\* the invariant; a first contact reserves its string below the block.
LEMMA Allocation ==
    ASSUME Inductive, NEW lo \in Nat, NEW hi \in Nat, lo < hi,
           NEW kind \in {"bytes", "list"},
           HeapState(heap'), heap.heapPtr <= heap'.heapPtr, heap.pages <= heap'.pages,
           blocks' = blocks \/
             (/\ blocks' = blocks \cup {Block(lo, hi, kind)}
              /\ heap.heapPtr <= lo /\ hi <= heap'.heapPtr
              /\ Backed(Block(lo, hi, kind), heap'.pages) /\ hi <= MaxAddress
              /\ ~heap.joined /\ heap'.joined => heap'.stableEnd <= lo),
           heap.joined =>
              /\ heap'.joined /\ heap'.emptyLp = heap.emptyLp
              /\ heap'.stableEnd = heap.stableEnd /\ heap.allocOffset <= heap'.allocOffset,
           ~heap.joined /\ heap'.joined =>
              /\ heap.heapPtr <= heap'.emptyLp /\ heap'.stableEnd = heap'.emptyLp + 8
              /\ heap'.stableEnd <= heap'.heapPtr /\ heap'.stableEnd <= heap'.allocOffset,
           phase' \in {phase, "over"},
           ~MayFindInputs /\ ~heap'.joined => blocks' = {} /\ phase' # "running",
           allocations' \in 0..MaxAllocations,
           UNCHANGED <<memMarks, arenaMarks, scopes>>
    PROVE  Inductive'
  <1> USE DEF Inductive
  <1> DEFINE c == Block(lo, hi, kind)
  <1>0. TypeOK /\ Bounded /\ BelowHeapTop
    BY DEF Bounded
  <1>t. /\ heap.heapPtr \in Nat /\ heap.allocOffset \in Nat /\ heap.pages \in Nat
        /\ heap.stableEnd \in Nat /\ heap.emptyLp \in Nat
        /\ \A b \in blocks : b.lo \in Nat /\ b.hi \in Nat /\ b.depth \in 0..Depth
    BY Types
  <1>1. c.lo = lo /\ c.hi = hi /\ c.depth = Depth /\ c \in BlockRecord(Depth)
    BY Types DEF Block, BlockRecord
  <1>2. /\ heap' \in HeapRecord /\ heap'.heapPtr \in Nat /\ heap'.allocOffset \in Nat
        /\ heap'.pages \in Nat /\ heap'.emptyLp \in Nat /\ heap'.stableEnd \in Nat
        /\ heap'.pages \in InitialPages..MaxPages /\ heap'.joined \in BOOLEAN
    BY SizesAssumption DEF HeapState, HeapRecord
  <1>4. Depth' = Depth
    BY DEF Depth
  <1>5. blocks' = blocks \/
          (/\ blocks' = blocks \cup {c}
           /\ heap.heapPtr <= lo /\ hi <= heap'.heapPtr
           /\ Backed(c, heap'.pages) /\ hi <= MaxAddress
           /\ ~heap.joined /\ heap'.joined => heap'.stableEnd <= lo)
    OBVIOUS
  <1> HIDE DEF c
  <1>6. \A b \in blocks' : b \in blocks \/ (b = c /\ blocks' = blocks \cup {c})
    BY <1>5
  <1>7. TypeOK'
    BY <1>1, <1>2, <1>4, <1>5 DEF TypeOK
  <1>8. Bounded'
    <2>1. \A b \in blocks : b.hi <= heap.heapPtr /\ Backed(b, heap.pages) /\ b.lo < b.hi
                           /\ b.hi <= MaxAddress
      BY <1>0 DEF Bounded, BelowHeapTop
    <2>a. \A b \in blocks : Backed(b, heap'.pages)
      BY <2>1, <1>2, <1>t, BackedStays
    <2>2. \A b \in blocks : b.hi <= heap'.heapPtr /\ Backed(b, heap'.pages) /\ b.lo < b.hi
                           /\ b.hi <= MaxAddress
      BY <2>1, <2>a, <1>2, <1>t
    <2>3. \A b \in blocks' : b.hi <= heap'.heapPtr /\ Backed(b, heap'.pages) /\ b.lo < b.hi
                            /\ b.hi <= MaxAddress
      BY <2>2, <1>1, <1>5
    <2> QED
      BY <2>3 DEF Bounded, BelowHeapTop
  <1>9. BlocksApart'
    <2>1. \A b \in blocks : b.hi <= heap.heapPtr
      BY <1>0 DEF BelowHeapTop
    <2>2. CASE blocks' = blocks
      BY <2>2 DEF BlocksApart
    <2>3. CASE blocks' # blocks
      <3>1. \A b \in blocks : b.hi <= c.lo
        BY <2>1, <2>3, <1>1, <1>5, Types
      <3> QED
        BY <2>3, <3>1, <1>5 DEF BlocksApart
    <2> QED
      BY <2>2, <2>3
  <1>10. OuterBlocksSpared'
    BY <1>1, <1>4, <1>5, Types DEF OuterBlocksSpared
  <1>11. Stacks'
    BY <1>4 DEF Stacks, OwnMark, DepthsGrow, MemMarksOpen
  <1>12. Reserved'
    <2>1. phase' = "inputs" => scopes' = <<>>
      BY DEF Reserved
    <2>2. ASSUME ~MayFindInputs
          PROVE  /\ phase' = "running" \/ scopes' # <<>> \/ blocks' # {} => heap'.joined
                 /\ EmptyStringIntact'
                 /\ heap'.joined =>
                      /\ heap'.stableEnd = heap'.emptyLp + 8
                      /\ heap'.stableEnd <= heap'.allocOffset
                      /\ \A i \in 1..Depth' : heap'.stableEnd <= scopes'[i].top
                                              /\ heap'.stableEnd <= scopes'[i].host
      <3>1. CASE heap.joined
        <4>1. /\ heap'.joined /\ heap'.emptyLp = heap.emptyLp
              /\ heap'.stableEnd = heap.stableEnd /\ heap.allocOffset <= heap'.allocOffset
          BY <3>1
        <4>2. /\ heap.emptyLp + 8 <= heap.heapPtr
              /\ \A b \in blocks : heap.emptyLp + 8 <= b.lo \/ b.hi <= heap.emptyLp
              /\ heap.stableEnd = heap.emptyLp + 8 /\ heap.stableEnd <= heap.allocOffset
              /\ \A i \in 1..Depth : heap.stableEnd <= scopes[i].top
                                     /\ heap.stableEnd <= scopes[i].host
          BY <2>2, <3>1 DEF Reserved, EmptyStringIntact
        <4>3. heap.emptyLp + 8 <= heap'.heapPtr /\ heap.stableEnd <= heap'.allocOffset
          BY <1>t, <1>2, <4>1, <4>2
        <4>4. \A b \in blocks' : heap.emptyLp + 8 <= b.lo \/ b.hi <= heap.emptyLp
          BY <1>1, <1>5, <1>t, <4>2
        <4>5. EmptyStringIntact'
          BY <4>1, <4>3, <4>4 DEF EmptyStringIntact
        <4> QED
          BY <4>1, <4>2, <4>3, <4>5, <1>4
      <3>2. CASE ~heap.joined /\ heap'.joined
        <4>1. scopes = <<>> /\ blocks = {}
          BY <2>2, <3>2 DEF Reserved
        <4>2. Depth = 0
          BY <4>1 DEF Depth
        <4>3. EmptyStringIntact'
          BY <4>1, <3>2, <1>1, <1>2, <1>5 DEF EmptyStringIntact
        <4> QED
          BY <3>2, <4>2, <4>3, <1>4
      <3>3. CASE ~heap.joined /\ ~heap'.joined
        <4>1. scopes = <<>>
          BY <2>2, <3>3 DEF Reserved
        <4> QED
          BY <2>2, <3>3, <4>1 DEF EmptyStringIntact
      <3> QED
        BY <3>1, <3>2, <3>3
    <2> QED
      BY <2>1, <2>2 DEF Reserved
  <1> QED
    BY <1>7, <1>8, <1>9, <1>10, <1>11, <1>12

\* Host data keeps the invariant, whether the host joins the heap for it or not.
LEMMA HostAllocation ==
    ASSUME Inductive, NEW size \in Nat, size > 0, NEW spare \in {0, 1},
           HostAllocate(size, spare), phase = "running" \/ size >= 8
    PROVE  Inductive'
  <1> DEFINE joined == Join(heap)
             ptr    == joined.allocOffset
             h      == Reserve(joined, size)
             end    == ptr + size
             ok     == ptr + AlignUp(size) <= MaxAddress /\ Available(end + spare)
  <1>1. TypeOK /\ Reserved
    BY DEF Inductive
  <1>2. HeapState(heap) /\ heap.heapPtr \in Nat /\ heap.pages \in Nat /\ heap.allocOffset \in Nat
    BY <1>1, Types
  <1>3. /\ HeapState(joined)
        /\ heap.pages <= joined.pages /\ heap.heapPtr <= joined.heapPtr
        /\ AlignUp(heap.heapPtr) <= ptr \/ ptr = MaxAddress
        /\ joined.heapPtr <= ptr \/ ptr = MaxAddress
        /\ heap.joined => /\ joined.joined /\ joined.emptyLp = heap.emptyLp
                          /\ joined.stableEnd = heap.stableEnd /\ heap.allocOffset <= ptr
        /\ ~heap.joined /\ joined.joined =>
              /\ heap.heapPtr <= joined.emptyLp /\ joined.stableEnd = joined.emptyLp + 8
              /\ joined.heapPtr = joined.stableEnd /\ ptr = joined.stableEnd
        /\ ~joined.joined => ~Available(AlignUp(heap.heapPtr) + 8)
    BY <1>2, JoinFacts
  <1>4. /\ HeapState(h) /\ h.pages = joined.pages /\ joined.heapPtr <= h.heapPtr
        /\ h.joined = joined.joined /\ h.emptyLp = joined.emptyLp
        /\ h.stableEnd = joined.stableEnd /\ ptr <= h.allocOffset
        /\ ptr + AlignUp(size) <= MaxAddress =>
              /\ joined.heapPtr <= ptr /\ h.heapPtr = ptr + AlignUp(size)
              /\ h.allocOffset = h.heapPtr
    BY <1>3, ReserveFacts
  <1>5. /\ joined.heapPtr \in Nat /\ ptr \in Nat /\ joined.pages \in Nat
        /\ joined.stableEnd \in Nat /\ joined.emptyLp \in Nat
        /\ h.heapPtr \in Nat /\ h.allocOffset \in Nat /\ MaxAddress \in Nat
    BY <1>3, <1>4, SizesAssumption DEF HeapState, HeapRecord
  <1>6. AlignUp(size) \in Nat /\ size <= AlignUp(size) /\ AlignUp(size) >= 8
        /\ AlignUp(heap.heapPtr) \in Nat
    BY <1>2, AlignUpBounds
  <1>7. /\ CanAllocate
        /\ \/ ok  /\ heap' = Grown(h, end + spare)
                  /\ Allocated({Block(ptr, end, "bytes")})
           \/ ~ok /\ heap' = h /\ Allocated({})
        /\ phase' = IF ok \/ Running THEN phase ELSE "over"
        /\ UNCHANGED <<memMarks, arenaMarks, scopes>>
    BY DEF HostAllocate
  <1> HIDE DEF joined, ptr, h
  <1>8. phase' \in {phase, "over"} /\ allocations' \in 0..MaxAllocations
        /\ UNCHANGED <<memMarks, arenaMarks, scopes>>
    BY <1>1, <1>7, SizesAssumption DEF CanAllocate, Allocated, TypeOK
  <1>9. CASE ok
    <2>1. /\ ptr + size \in Nat /\ ptr < ptr + size
          /\ ptr + size + spare \in Nat /\ ptr + size <= ptr + size + spare
      BY <1>5
    <2> DEFINE g == Grown(h, ptr + size + spare)
    <2>2. /\ HeapState(g)
          /\ ptr + size + spare <= Bytes(g.pages) /\ h.pages <= g.pages
          /\ g.heapPtr = h.heapPtr /\ g.allocOffset = h.allocOffset
          /\ g.joined = h.joined /\ g.emptyLp = h.emptyLp /\ g.stableEnd = h.stableEnd
      BY <1>4, <1>9, <2>1, GrownFacts
    <2>3. heap' = g /\ blocks' = blocks \cup {Block(ptr, ptr + size, "bytes")}
      BY <1>7, <1>9 DEF Allocated
    <2>4. g.pages \in Nat /\ Bytes(g.pages) \in Nat
      <3>1. g.pages \in Nat
        BY <2>2, SizesAssumption DEF HeapState
      <3> QED
        BY <3>1, BytesMonotone
    <2> HIDE DEF g
    <2>5. /\ HeapState(heap') /\ heap.heapPtr <= heap'.heapPtr /\ heap.pages <= heap'.pages
          /\ heap.heapPtr <= ptr /\ ptr + size <= heap'.heapPtr
          /\ ptr + size <= Bytes(heap'.pages) /\ ptr + size <= MaxAddress
      BY <1>2, <1>3, <1>4, <1>5, <1>6, <1>9, <2>1, <2>2, <2>3, <2>4
    <2>b. Backed(Block(ptr, ptr + size, "bytes"), heap'.pages)
      BY <2>5 DEF Backed, Block
    <2>6. heap.joined =>
              /\ heap'.joined /\ heap'.emptyLp = heap.emptyLp
              /\ heap'.stableEnd = heap.stableEnd /\ heap.allocOffset <= heap'.allocOffset
      <3> SUFFICES ASSUME heap.joined
                   PROVE  /\ heap'.joined /\ heap'.emptyLp = heap.emptyLp
                          /\ heap'.stableEnd = heap.stableEnd
                          /\ heap.allocOffset <= heap'.allocOffset
        OBVIOUS
      <3>1. joined.joined /\ joined.emptyLp = heap.emptyLp
            /\ joined.stableEnd = heap.stableEnd /\ heap.allocOffset <= ptr
        BY <1>3
      <3>2. heap.allocOffset <= g.allocOffset
        BY <1>2, <1>4, <1>5, <2>2, <3>1
      <3> QED
        BY <1>4, <2>2, <2>3, <3>1, <3>2
    <2>7. ~heap.joined /\ heap'.joined =>
              /\ heap.heapPtr <= heap'.emptyLp /\ heap'.stableEnd = heap'.emptyLp + 8
              /\ heap'.stableEnd <= heap'.heapPtr /\ heap'.stableEnd <= heap'.allocOffset
              /\ heap'.stableEnd <= ptr
      <3> SUFFICES ASSUME ~heap.joined, heap'.joined
                   PROVE  /\ heap.heapPtr <= heap'.emptyLp
                          /\ heap'.stableEnd = heap'.emptyLp + 8
                          /\ heap'.stableEnd <= heap'.heapPtr
                          /\ heap'.stableEnd <= heap'.allocOffset
                          /\ heap'.stableEnd <= ptr
        OBVIOUS
      <3>1. joined.joined
        BY <1>4, <2>2, <2>3
      <3>2. heap.heapPtr <= joined.emptyLp /\ joined.stableEnd = joined.emptyLp + 8
            /\ joined.heapPtr = joined.stableEnd /\ ptr = joined.stableEnd
        BY <1>3, <3>1
      <3>3. ptr <= g.heapPtr /\ ptr <= g.allocOffset
        BY <1>4, <1>5, <1>6, <2>2, <3>2
      <3> QED
        BY <1>4, <1>5, <2>2, <2>3, <3>2, <3>3
    <2>8. MayFindInputs \/ heap'.joined
      <3> SUFFICES ASSUME ~MayFindInputs, ~heap'.joined PROVE FALSE
        OBVIOUS
      <3>1. ~joined.joined
        BY <1>4, <2>2, <2>3
      <3>2. ~heap.joined /\ ~Available(AlignUp(heap.heapPtr) + 8)
        BY <1>3, <3>1
      <3>3. size >= 8
        BY <1>1, <3>2 DEF Reserved
      <3>4. AlignUp(heap.heapPtr) + 8 <= ptr + size + spare
        BY <1>3, <1>5, <1>6, <1>9, <2>1, <3>3
      <3>5. PagesFor(AlignUp(heap.heapPtr) + 8) <= PagesFor(ptr + size + spare)
            /\ PagesFor(AlignUp(heap.heapPtr) + 8) \in Nat
            /\ PagesFor(ptr + size + spare) \in Nat
        BY <1>6, <2>1, <3>4, PagesCover
      <3> QED
        BY <1>9, <3>2, <3>5, SizesAssumption DEF Available
    <2> QED
      BY <1>5, <1>8, <2>1, <2>3, <2>5, <2>b, <2>6, <2>7, <2>8, Allocation
  <1>10. CASE ~ok
    <2>1. heap' = h /\ blocks' = blocks
      BY <1>7, <1>10 DEF Allocated
    <2>2. heap.heapPtr <= heap'.heapPtr /\ heap.pages <= heap'.pages /\ HeapState(heap')
      BY <1>2, <1>3, <1>4, <1>5, <2>1
    <2>3. heap.joined =>
              /\ heap'.joined /\ heap'.emptyLp = heap.emptyLp
              /\ heap'.stableEnd = heap.stableEnd /\ heap.allocOffset <= heap'.allocOffset
      <3> SUFFICES ASSUME heap.joined
                   PROVE  /\ heap'.joined /\ heap'.emptyLp = heap.emptyLp
                          /\ heap'.stableEnd = heap.stableEnd
                          /\ heap.allocOffset <= heap'.allocOffset
        OBVIOUS
      <3>1. joined.joined /\ joined.emptyLp = heap.emptyLp
            /\ joined.stableEnd = heap.stableEnd /\ heap.allocOffset <= ptr
        BY <1>3
      <3>2. heap.allocOffset <= h.allocOffset
        BY <1>2, <1>4, <1>5, <3>1
      <3> QED
        BY <1>4, <2>1, <3>1, <3>2
    <2>4. ~heap.joined /\ heap'.joined =>
              /\ heap.heapPtr <= heap'.emptyLp /\ heap'.stableEnd = heap'.emptyLp + 8
              /\ heap'.stableEnd <= heap'.heapPtr /\ heap'.stableEnd <= heap'.allocOffset
      <3> SUFFICES ASSUME ~heap.joined, heap'.joined
                   PROVE  /\ heap.heapPtr <= heap'.emptyLp
                          /\ heap'.stableEnd = heap'.emptyLp + 8
                          /\ heap'.stableEnd <= heap'.heapPtr
                          /\ heap'.stableEnd <= heap'.allocOffset
        OBVIOUS
      <3>1. joined.joined
        BY <1>4, <2>1
      <3>2. heap.heapPtr <= joined.emptyLp /\ joined.stableEnd = joined.emptyLp + 8
            /\ joined.heapPtr = joined.stableEnd /\ ptr = joined.stableEnd
        BY <1>3, <3>1
      <3> QED
        BY <1>4, <1>5, <2>1, <3>2
    <2>5. ~MayFindInputs /\ ~heap'.joined => blocks' = {} /\ phase' # "running"
      <3> SUFFICES ASSUME ~MayFindInputs, ~heap'.joined
                   PROVE  blocks' = {} /\ phase' # "running"
        OBVIOUS
      <3>1. ~heap.joined
        BY <2>3
      <3>2. blocks = {} /\ phase # "running"
        BY <1>1, <3>1 DEF Reserved
      <3> QED
        BY <1>8, <2>1, <3>2
    <2>6. 0 \in Nat /\ 1 \in Nat /\ 0 < 1
      OBVIOUS
    <2> QED
      BY <1>8, <2>1, <2>2, <2>3, <2>4, <2>5, <2>6, Allocation
  <1> QED
    BY <1>9, <1>10

\* The plugin's own allocations keep the invariant.
LEMMA PluginAllocation ==
    ASSUME Inductive,
           \/ \E size \in Requests : Malloc(size)
           \/ \E capacity \in Capacities : ListAllocate(capacity)
    PROVE  Inductive'
  <1>1. TypeOK /\ Reserved
    BY DEF Inductive
  <1>2. HeapState(heap) /\ heap.heapPtr \in Nat /\ heap.pages \in Nat /\ heap.allocOffset \in Nat
        /\ heap \in HeapRecord
    BY <1>1, Types DEF HeapState
  <1>3. phase = "running" /\ UNCHANGED <<memMarks, arenaMarks, scopes>> /\ phase' \in {phase, "over"}
        /\ allocations' \in 0..MaxAllocations
    <2>1. /\ phase = "running" /\ UNCHANGED <<memMarks, arenaMarks, scopes>>
          /\ phase' \in {phase, "over"} /\ CanAllocate /\ allocations' = allocations + 1
      <3>1. CASE \E size \in Requests : Malloc(size)
        BY <3>1 DEF Malloc, Running, Allocated
      <3>2. CASE \E capacity \in Capacities : ListAllocate(capacity)
        BY <3>2 DEF ListAllocate, Running, Allocated
      <3> QED
        BY <3>1, <3>2
    <2> QED
      BY <1>1, <2>1, SizesAssumption DEF CanAllocate, TypeOK
  <1>4. MayFindInputs \/ heap.joined
    BY <1>1, <1>3 DEF Reserved
  <1>m. ASSUME NEW top \in Nat, NEW pages \in InitialPages..MaxPages
        PROVE  LET h == [heap EXCEPT !.heapPtr = top, !.pages = pages] IN
               /\ HeapState(h) /\ h.heapPtr = top /\ h.pages = pages
               /\ h.allocOffset = heap.allocOffset /\ h.joined = heap.joined
               /\ h.emptyLp = heap.emptyLp /\ h.stableEnd = heap.stableEnd
               /\ pages = heap.pages => h = [heap EXCEPT !.heapPtr = top]
    <2>1. pages \in Nat
      BY SizesAssumption
    <2> QED
      BY <1>2, <2>1 DEF HeapState, HeapRecord
  <1>5. ASSUME NEW lo \in Nat, NEW hi \in Nat, lo < hi, heap.heapPtr <= lo,
               NEW pages \in InitialPages..MaxPages, heap.pages <= pages, hi <= MaxAddress,
               heap' = [heap EXCEPT !.heapPtr = hi, !.pages = pages],
               NEW kind \in {"bytes", "list"}, Backed(Block(lo, hi, kind), pages),
               blocks' = blocks \cup {Block(lo, hi, kind)}
        PROVE  Inductive'
    <2>1. /\ HeapState(heap') /\ heap'.heapPtr = hi /\ heap'.pages = pages
          /\ heap'.allocOffset = heap.allocOffset /\ heap'.joined = heap.joined
          /\ heap'.emptyLp = heap.emptyLp /\ heap'.stableEnd = heap.stableEnd
      BY <1>2, <1>5, <1>m
    <2>2. heap.heapPtr <= heap'.heapPtr /\ heap.pages <= heap'.pages
          /\ heap.allocOffset <= heap'.allocOffset
      BY <1>2, <1>5, <2>1
    <2>3. ~(~heap.joined /\ heap'.joined) /\ (heap.joined => heap'.joined)
      BY <2>1
    <2>4. blocks' = blocks \cup {Block(lo, hi, kind)} /\ heap.heapPtr <= lo
          /\ hi <= heap'.heapPtr /\ Backed(Block(lo, hi, kind), heap'.pages)
      BY <1>5, <2>1
    <2>5. ~MayFindInputs /\ ~heap'.joined => FALSE
      BY <1>4, <2>1
    <2> QED
      BY <1>3, <1>5, <2>1, <2>2, <2>3, <2>4, <2>5, Allocation
  <1>6. ASSUME HeapState(heap'), heap.heapPtr <= heap'.heapPtr, heap'.pages = heap.pages,
               heap'.allocOffset = heap.allocOffset, heap'.joined = heap.joined,
               heap'.emptyLp = heap.emptyLp, heap'.stableEnd = heap.stableEnd,
               blocks' = blocks
        PROVE  Inductive'
    <2>2. heap.pages <= heap'.pages /\ heap.allocOffset <= heap'.allocOffset
      BY <1>2, <1>6
    <2>3. ~MayFindInputs /\ ~heap'.joined => FALSE
      BY <1>4, <1>6
    <2>4. 0 \in Nat /\ 1 \in Nat /\ 0 < 1 /\ "bytes" \in {"bytes", "list"}
      OBVIOUS
    <2> QED
      BY <1>3, <1>6, <2>2, <2>3, <2>4, Allocation
  <1>7. ASSUME NEW size \in Requests, Malloc(size)
        PROVE  Inductive'
    <2> DEFINE ptr   == AlignUp(heap.heapPtr)
               end   == ptr + AlignUp(size)
               fits  == end <= Bytes(heap.pages)
               pages == IF fits THEN heap.pages ELSE PluginPages(end)
    <2>1. ptr \in Nat /\ heap.heapPtr <= ptr /\ end \in Nat /\ ptr < end
      <3>1. size \in Nat /\ size > 0
        BY SizesAssumption
      <3> QED
        BY <1>2, <3>1, AlignUpBounds
    <2>2. \/ /\ fits \/ PluginPages(end) <= MaxPages
             /\ heap' = [heap EXCEPT !.heapPtr = end, !.pages = pages]
             /\ blocks' = blocks \cup {Block(ptr, end, "bytes")}
          \/ UNCHANGED <<heap, blocks>>
      BY <1>7 DEF Malloc, Allocated
    <2> HIDE DEF ptr, end
    <2>3. CASE /\ fits \/ PluginPages(end) <= MaxPages
               /\ heap' = [heap EXCEPT !.heapPtr = end, !.pages = pages]
               /\ blocks' = blocks \cup {Block(ptr, end, "bytes")}
      <3>1. pages \in InitialPages..MaxPages /\ heap.pages <= pages /\ end <= Bytes(pages)
        <4>1. heap.pages \in InitialPages..MaxPages /\ InitialPages \in Nat /\ MaxPages \in Nat
          BY <1>2, SizesAssumption DEF HeapState
        <4>2. CASE fits
          BY <1>2, <4>1, <4>2
        <4>3. CASE ~fits
          <5>1. /\ PluginPages(end) \in Nat /\ end <= Bytes(PluginPages(end))
                /\ heap.pages < PluginPages(end)
            BY <1>2, <2>1, <4>3 DEF PluginPages, Bytes, PageSize
          <5> QED
            BY <1>2, <2>3, <4>1, <4>3, <5>1
        <4> QED
          BY <4>2, <4>3
      <3> HIDE DEF pages
      <3>2. pages \in Nat /\ pages <= MaxPages
        BY <3>1, SizesAssumption
      <3>3. Backed(Block(ptr, end, "bytes"), pages)
        BY <3>1 DEF Backed, Block
      <3>4. end <= MaxAddress
        <4> DEFINE b == Block(ptr, end, "bytes")
        <4>1. b.lo = ptr /\ b.hi = end /\ b.kind = "bytes"
          BY DEF Block
        <4> HIDE DEF b
        <4> QED
          BY <2>1, <3>2, <3>3, <4>1, BackedStays DEF b
      <3> QED
        BY <1>5, <2>1, <2>3, <3>1, <3>3, <3>4
    <2>4. CASE UNCHANGED <<heap, blocks>>
      <3>1. heap' = heap /\ blocks' = blocks /\ heap.heapPtr <= heap.heapPtr
        BY <1>2, <2>4
      <3> QED
        BY <1>2, <1>6, <3>1
    <2> QED
      BY <2>2, <2>3, <2>4
  <1>8. ASSUME NEW capacity \in Capacities, ListAllocate(capacity)
        PROVE  Inductive'
    <2> DEFINE ptr == heap.heapPtr
               end == ptr + 16 + capacity * 4
    <2>1. capacity \in Nat /\ end \in Nat /\ ptr < end
      <3>1. capacity \in Nat
        BY SizesAssumption
      <3> QED
        BY <1>2, <3>1
    <2>2. /\ heap' = [heap EXCEPT !.heapPtr = end]
          /\ \/ ptr + 12 <= Bytes(heap.pages) /\ blocks' = blocks \cup {Block(ptr, end, "list")}
             \/ blocks' = blocks
      BY <1>8 DEF ListAllocate, Allocated
    <2>3. heap' = [heap EXCEPT !.heapPtr = end, !.pages = heap.pages]
      BY <1>2, <2>1, <2>2, <1>m
    <2>4. CASE ptr + 12 <= Bytes(heap.pages) /\ blocks' = blocks \cup {Block(ptr, end, "list")}
      <3>1. Backed(Block(ptr, end, "list"), heap.pages)
        BY <2>4 DEF Backed, Block
      <3>2. end <= MaxAddress
        <4>1. heap.pages <= MaxPages /\ MaxPages \in Nat /\ MaxAddress \in Nat
          BY <1>2, SizesAssumption DEF HeapState
        <4>2. Bytes(heap.pages) <= Bytes(MaxPages) /\ Bytes(heap.pages) \in Nat
              /\ Bytes(MaxPages) \in Nat /\ Bytes(MaxPages) + 4 + 4 * capacity <= MaxAddress
          BY <1>2, <4>1, BytesMonotone, LayoutAssumption
        <4> QED
          BY <1>2, <2>1, <2>4, <4>1, <4>2
      <3>3. heap.pages \in InitialPages..MaxPages /\ heap.pages <= heap.pages /\ ptr <= ptr
            /\ ptr \in Nat
        BY <1>2 DEF HeapState
      <3> HIDE DEF end, ptr
      <3> QED
        BY <1>5, <2>1, <2>3, <2>4, <3>1, <3>2, <3>3 DEF ptr
    <2>5. CASE blocks' = blocks
      <3>1. heap.pages \in InitialPages..MaxPages
        BY <1>2 DEF HeapState
      <3> HIDE DEF end
      <3>2. /\ HeapState(heap') /\ heap'.heapPtr = end /\ heap'.pages = heap.pages
            /\ heap'.allocOffset = heap.allocOffset /\ heap'.joined = heap.joined
            /\ heap'.emptyLp = heap.emptyLp /\ heap'.stableEnd = heap.stableEnd
        BY <1>m, <2>1, <2>3, <3>1
      <3>3. heap.heapPtr <= heap'.heapPtr
        BY <1>2, <2>1, <3>2
      <3> QED
        BY <1>6, <2>5, <3>2, <3>3
    <2> QED
      BY <2>2, <2>4, <2>5
  <1> QED
    BY <1>7, <1>8

-----------------------------------------------------------------------------
(* Scopes.                                                                 *)

\* A scope whose mark lies above every block keeps the invariant.
LEMMA Opening ==
    ASSUME Inductive, NEW kind \in {"native", "mem", "arena"},
           NEW host \in Nat, NEW top \in Nat, Open(kind, host, top),
           HeapState(heap'), heap.heapPtr <= heap'.heapPtr, heap.pages <= heap'.pages,
           heap.joined =>
              /\ heap'.joined /\ heap'.emptyLp = heap.emptyLp
              /\ heap'.stableEnd = heap.stableEnd /\ heap.allocOffset <= heap'.allocOffset
              /\ heap.stableEnd <= heap.allocOffset => heap.stableEnd <= host,
           heap.heapPtr <= top \/ MaxAddress <= top,
           heap.joined /\ heap.stableEnd <= heap.allocOffset /\ heap.stableEnd <= heap.heapPtr =>
              heap.stableEnd <= top,
           \/ kind = "native" /\ UNCHANGED <<memMarks, arenaMarks>>
           \/ kind = "mem" /\ memMarks' = Append(memMarks, <<host, top>>) /\ UNCHANGED arenaMarks
           \/ /\ kind = "arena" /\ arenaMarks' = Append(arenaMarks, top) /\ host = top
              /\ UNCHANGED memMarks
    PROVE  Inductive'
  <1> DEFINE s == Scope(kind, host, top)
  <1>0. TypeOK /\ Bounded /\ BelowHeapTop /\ BlocksApart /\ OuterBlocksSpared /\ Reserved
        /\ OwnMark /\ DepthsGrow /\ MemMarksOpen
    BY DEF Inductive, Bounded, Stacks
  <1>1. /\ HeapState(heap) /\ heap.heapPtr \in Nat /\ heap.allocOffset \in Nat
        /\ heap.pages \in Nat /\ heap.stableEnd \in Nat /\ heap.emptyLp \in Nat
        /\ Depth \in Nat /\ scopes \in Seq(ScopeRecord) /\ Depth = Len(scopes)
        /\ Len(arenaMarks) \in Nat /\ Len(memMarks) \in Nat
        /\ \A b \in blocks : b.lo \in Nat /\ b.hi \in Nat /\ b.depth \in 0..Depth
    BY <1>0, Types
  <1>t. \A i \in 1..Depth : /\ scopes[i].handle \in Nat /\ scopes[i].memDepth \in Nat
                           /\ scopes[i].kind \in {"native", "mem", "arena"}
    BY <1>0, Types
  <1>2. /\ phase = "running" /\ scopes' = Append(scopes, s)
        /\ UNCHANGED <<blocks, phase, allocations>>
    BY DEF Open, Running
  <1>3. /\ memMarks \in Seq(Nat \X Nat) /\ arenaMarks \in Seq(Nat)
        /\ memMarks' \in Seq(Nat \X Nat) /\ arenaMarks' \in Seq(Nat)
        /\ Len(memMarks') \in Nat /\ Len(arenaMarks') \in Nat
        /\ kind = "mem" => Len(memMarks') = Len(memMarks) + 1
        /\ kind # "mem" => Len(memMarks') = Len(memMarks)
        /\ kind = "arena" => Len(arenaMarks') = Len(arenaMarks) + 1
        /\ kind # "arena" => Len(arenaMarks') = Len(arenaMarks)
        /\ \A k \in 1..Len(memMarks) : memMarks'[k] = memMarks[k]
        /\ \A k \in 1..Len(arenaMarks) : arenaMarks'[k] = arenaMarks[k]
        /\ kind = "mem" => memMarks'[Len(memMarks')] = <<host, top>>
        /\ kind = "arena" => arenaMarks'[Len(arenaMarks')] = top /\ host = top
    <2>1. memMarks \in Seq(Nat \X Nat) /\ arenaMarks \in Seq(Nat) /\ <<host, top>> \in Nat \X Nat
      BY <1>0 DEF TypeOK
    <2>2. CASE kind = "native"
      BY <1>1, <2>1, <2>2
    <2>3. CASE kind = "mem"
      <3>1. memMarks' = Append(memMarks, <<host, top>>) /\ arenaMarks' = arenaMarks
        BY <2>3
      <3>2. /\ memMarks' \in Seq(Nat \X Nat) /\ Len(memMarks') = Len(memMarks) + 1
            /\ \A k \in 1..Len(memMarks) : memMarks'[k] = memMarks[k]
            /\ memMarks'[Len(memMarks) + 1] = <<host, top>>
        BY <2>1, <3>1, AppendProperties
      <3> QED
        BY <1>1, <2>1, <2>3, <3>1, <3>2
    <2>4. CASE kind = "arena"
      <3>1. arenaMarks' = Append(arenaMarks, top) /\ memMarks' = memMarks /\ host = top
        BY <2>4
      <3>2. /\ arenaMarks' \in Seq(Nat) /\ Len(arenaMarks') = Len(arenaMarks) + 1
            /\ \A k \in 1..Len(arenaMarks) : arenaMarks'[k] = arenaMarks[k]
            /\ arenaMarks'[Len(arenaMarks) + 1] = top
        BY <2>1, <3>1, AppendProperties
      <3> QED
        BY <1>1, <2>1, <2>4, <3>1, <3>2
    <2> QED
      BY <2>2, <2>3, <2>4
  <1> DEFINE ma == Len(arenaMarks)
             mm == Len(memMarks)
             na == Len(arenaMarks')
             nm == Len(memMarks')
  <1>4. /\ ma \in Nat /\ mm \in Nat /\ na \in Nat /\ nm \in Nat
        /\ kind = "mem" => nm = mm + 1
        /\ kind # "mem" => nm = mm
        /\ kind = "arena" => na = ma + 1
        /\ kind # "arena" => na = ma
        /\ \A k \in 1..mm : memMarks'[k] = memMarks[k]
        /\ \A k \in 1..ma : arenaMarks'[k] = arenaMarks[k]
        /\ kind = "mem" => memMarks'[nm] = <<host, top>>
        /\ kind = "arena" => arenaMarks'[na] = top /\ host = top
    BY <1>1, <1>3
  <1>5. /\ s.kind = kind /\ s.host = host /\ s.top = top
        /\ s.handle = na /\ s.memDepth = nm /\ s \in ScopeRecord
    BY <1>4 DEF Scope, ScopeRecord
  <1> HIDE DEF s, ma, mm, na, nm
  <1>l. mm <= nm /\ ma <= na
    BY <1>4
  <1>6. /\ scopes' \in Seq(ScopeRecord) /\ Depth' = Depth + 1
        /\ \A i \in 1..Depth : scopes'[i] = scopes[i]
        /\ scopes'[Depth + 1] = s /\ scopes' # <<>>
    <2>1. scopes' \in Seq(ScopeRecord) /\ Len(scopes') = Len(scopes) + 1
          /\ (\A i \in 1..Len(scopes) : scopes'[i] = scopes[i])
          /\ scopes'[Len(scopes) + 1] = s
      BY <1>1, <1>2, <1>5
    <2>2. Depth' = Len(scopes')
      BY DEF Depth
    <2>3. scopes' # <<>>
      BY <1>1, <2>1
    <2> QED
      BY <1>1, <2>1, <2>2, <2>3
  <1>7. TypeOK'
    <2>1. blocks' \subseteq BlockRecord(Depth')
      BY <1>0, <1>1, <1>2, <1>6 DEF TypeOK, BlockRecord
    <2>2. heap' \in HeapRecord /\ heap'.pages \in InitialPages..MaxPages
      BY DEF HeapState
    <2> QED
      BY <1>0, <1>2, <1>3, <1>6, <2>1, <2>2 DEF TypeOK
  <1>8. Bounded'
    <2>1. \A b \in blocks : b.hi <= heap.heapPtr /\ Backed(b, heap.pages) /\ b.lo < b.hi
                           /\ b.hi <= MaxAddress
      BY <1>0 DEF Bounded, BelowHeapTop
    <2>2. heap'.heapPtr \in Nat /\ heap'.pages \in Nat
      BY SizesAssumption DEF HeapState, HeapRecord
    <2>3. \A b \in blocks : Backed(b, heap'.pages)
      BY <1>1, <2>1, <2>2, BackedStays
    <2>4. \A b \in blocks : b.hi <= heap'.heapPtr
      BY SMTT(30), <1>1, <2>1, <2>2
    <2> QED
      BY <1>2, <2>1, <2>3, <2>4 DEF Bounded, BelowHeapTop
  <1>9. BlocksApart'
    BY <1>0, <1>2 DEF BlocksApart
  <1>10. OuterBlocksSpared'
    <2>1. \A b \in blocks : b.hi <= top
      <3>1. \A b \in blocks : b.hi <= heap.heapPtr /\ b.hi <= MaxAddress
        BY <1>0 DEF Bounded, BelowHeapTop
      <3>2. MaxAddress \in Nat
        BY SizesAssumption
      <3> QED
        BY SMTT(30), <1>1, <3>1, <3>2
    <2>2. ASSUME NEW i \in 1..Depth', NEW b \in blocks', b.depth < i
          PROVE  b.hi <= scopes'[i].top
      <3>1. CASE i \in 1..Depth
        BY <1>0, <1>2, <1>6, <2>2, <3>1 DEF OuterBlocksSpared
      <3>2. CASE i = Depth + 1
        BY <1>2, <1>5, <1>6, <2>1, <3>2
      <3> QED
        BY <1>1, <1>6, <3>1, <3>2
    <2> QED
      BY <2>2 DEF OuterBlocksSpared
  <1>11. OwnMark'
    <2>1. ASSUME NEW i \in 1..Depth'
          PROVE  /\ scopes'[i].handle <= na
                 /\ scopes'[i].memDepth <= nm
                 /\ scopes'[i].kind = "arena" =>
                       /\ 1 <= scopes'[i].handle /\ arenaMarks'[scopes'[i].handle] = scopes'[i].top
                       /\ scopes'[i].host = scopes'[i].top
                 /\ scopes'[i].kind = "mem" =>
                       /\ 1 <= scopes'[i].memDepth
                       /\ memMarks'[scopes'[i].memDepth] = <<scopes'[i].host, scopes'[i].top>>
      <3>1. CASE i \in 1..Depth
        <4>1. scopes'[i] = scopes[i] /\ scopes[i].handle \in Nat /\ scopes[i].memDepth \in Nat
          BY <1>6, <1>t, <3>1
        <4>2. /\ scopes[i].handle <= ma /\ scopes[i].memDepth <= mm
              /\ scopes[i].kind = "arena" =>
                    /\ 1 <= scopes[i].handle /\ arenaMarks[scopes[i].handle] = scopes[i].top
                    /\ scopes[i].host = scopes[i].top
              /\ scopes[i].kind = "mem" =>
                    /\ 1 <= scopes[i].memDepth
                    /\ memMarks[scopes[i].memDepth] = <<scopes[i].host, scopes[i].top>>
          BY <1>0, <3>1 DEF OwnMark, ma, mm, na, nm
        <4>3. scopes[i].handle <= na /\ scopes[i].memDepth <= nm
          BY <1>4, <1>l, <4>1, <4>2
        <4>4. scopes[i].kind = "arena" => arenaMarks'[scopes[i].handle] = scopes[i].top
          BY <1>4, <1>l, <4>1, <4>2
        <4>5. scopes[i].kind = "mem" =>
                 memMarks'[scopes[i].memDepth] = <<scopes[i].host, scopes[i].top>>
          BY <1>4, <1>l, <4>1, <4>2
        <4> QED
          BY <4>1, <4>2, <4>3, <4>4, <4>5
      <3>2. CASE i = Depth + 1
        <4>1. /\ scopes'[i].kind = kind /\ scopes'[i].host = host /\ scopes'[i].top = top
              /\ scopes'[i].handle = na /\ scopes'[i].memDepth = nm
          BY <1>5, <1>6, <3>2
        <4> QED
          BY <1>4, <4>1
      <3> QED
        BY <1>1, <1>6, <3>1, <3>2
    <2> QED
      BY <2>1 DEF OwnMark, ma, mm, na, nm
  <1>12. DepthsGrow'
    <2>1. ASSUME NEW i \in 1..Depth', NEW j \in 1..Depth', i < j
          PROVE  /\ scopes'[i].handle <= scopes'[j].handle
                 /\ scopes'[i].memDepth <= scopes'[j].memDepth
                 /\ scopes'[j].kind = "arena" => scopes'[i].handle < scopes'[j].handle
                 /\ scopes'[j].kind = "mem" => scopes'[i].memDepth < scopes'[j].memDepth
      <3>1. i \in 1..Depth /\ scopes'[i] = scopes[i]
        BY <1>1, <1>6, <2>1
      <3>2. CASE j \in 1..Depth
        BY <1>0, <1>6, <2>1, <3>1, <3>2 DEF DepthsGrow
      <3>3. CASE j = Depth + 1
        <4>1. scopes[i].handle <= ma /\ scopes[i].memDepth <= mm
              /\ scopes[i].handle \in Nat /\ scopes[i].memDepth \in Nat
          BY <1>0, <1>t, <3>1 DEF OwnMark, ma, mm, na, nm
        <4>2. scopes'[j].kind = kind /\ scopes'[j].handle = na
              /\ scopes'[j].memDepth = nm
          BY <1>5, <1>6, <3>3
        <4>3. scopes[i].handle <= na /\ scopes[i].memDepth <= nm
          BY SMTT(30), <1>4, <1>l, <4>1
        <4>4. kind = "arena" => scopes[i].handle < na
          BY <1>4, <4>1
        <4>5. kind = "mem" => scopes[i].memDepth < nm
          BY <1>4, <4>1
        <4> QED
          BY <3>1, <4>2, <4>3, <4>4, <4>5
      <3> QED
        BY <1>1, <1>6, <3>2, <3>3
    <2> QED
      BY <2>1 DEF DepthsGrow
  <1>13. MemMarksOpen'
    <2>1. ASSUME NEW i \in 1..Depth', i > 1
          PROVE  scopes'[i].memDepth =
                    scopes'[i - 1].memDepth + (IF scopes'[i].kind = "mem" THEN 1 ELSE 0)
      <3>1. i - 1 \in 1..Depth /\ scopes'[i - 1] = scopes[i - 1]
        BY <1>1, <1>6, <2>1
      <3>2. CASE i \in 1..Depth
        BY <1>0, <1>6, <2>1, <3>1, <3>2 DEF MemMarksOpen, ma, mm, na, nm
      <3>3. CASE i = Depth + 1
        <4>1. Depth > 0 /\ i - 1 = Depth
          BY <1>1, <2>1, <3>3
        <4>2. scopes[Depth].memDepth = mm
          BY <1>0, <4>1 DEF MemMarksOpen, ma, mm, na, nm
        <4> QED
          BY SMTT(30), <1>1, <1>4, <1>5, <1>6, <3>1, <3>3, <4>1, <4>2
      <3> QED
        BY <1>1, <1>6, <3>2, <3>3
    <2>2. scopes'[Depth'].memDepth = nm
      BY <1>5, <1>6
    <2> QED
      BY <2>1, <2>2 DEF MemMarksOpen, ma, mm, na, nm
  <1>14. Reserved'
    <2>1. phase' # "inputs"
      BY <1>2
    <2>2. ASSUME ~MayFindInputs
          PROVE  /\ heap'.joined /\ EmptyStringIntact'
                 /\ heap'.stableEnd = heap'.emptyLp + 8
                 /\ heap'.stableEnd <= heap'.allocOffset
                 /\ \A i \in 1..Depth' : heap'.stableEnd <= scopes'[i].top
                                         /\ heap'.stableEnd <= scopes'[i].host
      <3>1. heap.joined
        BY <1>0, <1>2, <2>2 DEF Reserved
      <3>2. /\ heap.emptyLp + 8 <= heap.heapPtr
            /\ \A b \in blocks : heap.emptyLp + 8 <= b.lo \/ b.hi <= heap.emptyLp
            /\ heap.stableEnd = heap.emptyLp + 8 /\ heap.stableEnd <= heap.allocOffset
            /\ \A i \in 1..Depth : heap.stableEnd <= scopes[i].top
                                   /\ heap.stableEnd <= scopes[i].host
        BY <1>0, <2>2, <3>1 DEF Reserved, EmptyStringIntact
      <3>3. /\ heap'.joined /\ heap'.emptyLp = heap.emptyLp
            /\ heap'.stableEnd = heap.stableEnd /\ heap.allocOffset <= heap'.allocOffset
        BY <3>1
      <3>4. heap'.heapPtr \in Nat /\ heap'.allocOffset \in Nat
        BY SizesAssumption DEF HeapState, HeapRecord
      <3>5. heap.emptyLp + 8 <= heap'.heapPtr /\ heap.stableEnd <= heap'.allocOffset
        BY SMTT(30), <1>1, <3>2, <3>3, <3>4
      <3>6. EmptyStringIntact'
        BY <1>2, <3>2, <3>3, <3>5 DEF EmptyStringIntact
      <3>7. heap.stableEnd <= top /\ heap.stableEnd <= host
        BY <3>1, <3>2
      <3>8. \A i \in 1..Depth' : i \in 1..Depth \/ i = Depth + 1
        BY <1>1, <1>6
      <3>9. \A i \in 1..Depth' : heap.stableEnd <= scopes'[i].top
                                 /\ heap.stableEnd <= scopes'[i].host
        BY <1>5, <1>6, <3>2, <3>7, <3>8
      <3> QED
        BY <3>2, <3>3, <3>5, <3>6, <3>9
    <2> QED
      BY <2>1, <2>2 DEF Reserved
  <1> QED
    BY <1>7, <1>8, <1>9, <1>10, <1>11, <1>12, <1>13, <1>14 DEF Inductive, Stacks

\* What is left of the stacks after a pop.
PoppedMarks ==
    LET s == scopes[Depth] IN
    /\ \/ s.kind # "mem" /\ memMarks' = memMarks
       \/ s.kind = "mem" /\ memMarks' = SubSeq(memMarks, 1, Len(memMarks) - 1)
    /\ \/ arenaMarks' = arenaMarks
       \/ s.kind = "arena" /\ arenaMarks' = SubSeq(arenaMarks, 1, s.handle - 1)

\* The scopes around the popped one keep their marks.
LEMMA Popping ==
    ASSUME Inductive, Depth > 0, scopes' = Popped, PoppedMarks
    PROVE  /\ Stacks' /\ Depth' = Depth - 1 /\ scopes' \in Seq(ScopeRecord)
           /\ memMarks' \in Seq(Nat \X Nat) /\ arenaMarks' \in Seq(Nat)
           /\ \A i \in 1..Depth' : i \in 1..Depth /\ scopes'[i] = scopes[i]
  <1>0. TypeOK /\ OwnMark /\ DepthsGrow /\ MemMarksOpen
    BY DEF Inductive, Stacks
  <1>1. /\ Depth \in Nat /\ scopes \in Seq(ScopeRecord) /\ Depth = Len(scopes)
        /\ Depth \in 1..Depth
        /\ memMarks \in Seq(Nat \X Nat) /\ arenaMarks \in Seq(Nat)
    BY <1>0, Types DEF TypeOK
  <1>t. \A i \in 1..Depth : /\ scopes[i].handle \in Nat /\ scopes[i].memDepth \in Nat
                           /\ scopes[i].kind \in {"native", "mem", "arena"}
    BY <1>0, Types
  <1> DEFINE ma == Len(arenaMarks)
             mm == Len(memMarks)
             na == Len(arenaMarks')
             nm == Len(memMarks')
             s  == scopes[Depth]
  <1>2. /\ s.handle <= ma /\ s.memDepth <= mm /\ s.handle \in Nat /\ s.memDepth \in Nat
        /\ s.kind = "arena" => 1 <= s.handle
        /\ s.kind = "mem" => 1 <= s.memDepth
        /\ s.memDepth = mm /\ ma \in Nat /\ mm \in Nat
    BY <1>0, <1>1, <1>t DEF OwnMark, MemMarksOpen
  <1>3. /\ scopes' \in Seq(ScopeRecord) /\ Depth' = Depth - 1
        /\ \A i \in 1..Depth - 1 : i \in 1..Depth /\ scopes'[i] = scopes[i]
    <2>1. scopes' \in Seq(ScopeRecord) /\ Len(scopes') = Len(scopes) - 1
          /\ \A i \in 1..Len(scopes) - 1 : scopes'[i] = scopes[i]
      BY <1>1 DEF Popped
    <2>2. Depth' = Len(scopes')
      BY DEF Depth
    <2> QED
      BY <1>1, <2>1, <2>2
  <1>4. /\ memMarks' \in Seq(Nat \X Nat) /\ nm \in Nat
        /\ s.kind = "mem" => nm = mm - 1
        /\ s.kind # "mem" => nm = mm
        /\ \A k \in 1..nm : memMarks'[k] = memMarks[k]
    <2>1. CASE s.kind # "mem" /\ memMarks' = memMarks
      BY <1>1, <1>2, <2>1
    <2>2. CASE s.kind = "mem" /\ memMarks' = SubSeq(memMarks, 1, mm - 1)
      <3>1. mm - 1 \in Nat /\ mm - 1 <= Len(memMarks)
        BY <1>2, <2>2
      <3>2. /\ memMarks' \in Seq(Nat \X Nat) /\ Len(memMarks') = mm - 1
            /\ \A k \in 1..(mm - 1) : memMarks'[k] = memMarks[k]
        <4> DEFINE T == Nat \X Nat
                   n == mm - 1
                   q == SubSeq(memMarks, 1, n)
        <4>1. memMarks \in Seq(T) /\ n \in Nat /\ n <= Len(memMarks)
          BY <1>1, <3>1
        <4> HIDE DEF T, n
        <4>2. q \in Seq(T) /\ Len(q) = n /\ \A k \in 1..n : q[k] = memMarks[k]
          BY <4>1
        <4> QED
          BY <2>2, <4>2 DEF T, n
      <3> QED
        BY <2>2, <3>1, <3>2
    <2> QED
      BY <2>1, <2>2 DEF PoppedMarks
  <1>5. /\ arenaMarks' \in Seq(Nat) /\ na \in Nat
        /\ na = ma \/ (s.kind = "arena" /\ na = s.handle - 1)
        /\ \A k \in 1..na : arenaMarks'[k] = arenaMarks[k]
    <2>1. CASE arenaMarks' = arenaMarks
      BY <1>1, <1>2, <2>1
    <2>2. CASE s.kind = "arena" /\ arenaMarks' = SubSeq(arenaMarks, 1, s.handle - 1)
      <3>1. s.handle - 1 \in Nat /\ s.handle - 1 <= Len(arenaMarks)
        BY <1>2, <2>2
      <3>2. /\ arenaMarks' \in Seq(Nat) /\ Len(arenaMarks') = s.handle - 1
            /\ \A k \in 1..(s.handle - 1) : arenaMarks'[k] = arenaMarks[k]
        BY <1>1, <2>2, <3>1
      <3> QED
        BY <2>2, <3>1, <3>2
    <2> QED
      BY <2>1, <2>2 DEF PoppedMarks
  <1> HIDE DEF ma, mm, na, nm
  <1>6. \A i \in 1..Depth - 1 :
           /\ scopes[i].handle <= s.handle /\ scopes[i].memDepth <= s.memDepth
           /\ s.kind = "arena" => scopes[i].handle < s.handle
           /\ s.kind = "mem" => scopes[i].memDepth < s.memDepth
    BY <1>0, <1>1, <1>3 DEF DepthsGrow
  <1>7. OwnMark'
    <2> SUFFICES ASSUME NEW i \in 1..Depth - 1
                 PROVE  /\ scopes[i].handle <= na /\ scopes[i].memDepth <= nm
                        /\ scopes[i].kind = "arena" =>
                              /\ 1 <= scopes[i].handle
                              /\ arenaMarks'[scopes[i].handle] = scopes[i].top
                              /\ scopes[i].host = scopes[i].top
                        /\ scopes[i].kind = "mem" =>
                              /\ 1 <= scopes[i].memDepth
                              /\ memMarks'[scopes[i].memDepth] = <<scopes[i].host, scopes[i].top>>
      BY <1>3 DEF OwnMark, na, nm
    <2>1. scopes[i].handle \in Nat /\ scopes[i].memDepth \in Nat
      BY <1>t, <1>3
    <2>2. /\ scopes[i].kind = "arena" =>
                /\ 1 <= scopes[i].handle /\ arenaMarks[scopes[i].handle] = scopes[i].top
                /\ scopes[i].host = scopes[i].top
          /\ scopes[i].kind = "mem" =>
                /\ 1 <= scopes[i].memDepth
                /\ memMarks[scopes[i].memDepth] = <<scopes[i].host, scopes[i].top>>
      BY <1>0, <1>3 DEF OwnMark
    <2>3. scopes[i].handle <= na
      BY <1>2, <1>5, <1>6, <2>1
    <2>4. scopes[i].memDepth <= nm
      BY <1>2, <1>4, <1>6, <2>1
    <2>5. scopes[i].kind = "arena" => arenaMarks'[scopes[i].handle] = arenaMarks[scopes[i].handle]
      BY <1>5, <2>1, <2>2, <2>3
    <2>6. scopes[i].kind = "mem" => memMarks'[scopes[i].memDepth] = memMarks[scopes[i].memDepth]
      BY <1>4, <2>1, <2>2, <2>4
    <2> QED
      BY <2>2, <2>3, <2>4, <2>5, <2>6
  <1>8. DepthsGrow'
    BY <1>0, <1>3 DEF DepthsGrow
  <1>9. MemMarksOpen'
    <2>1. \A i \in 1..Depth' : i > 1 =>
             scopes'[i].memDepth =
                 scopes'[i - 1].memDepth + (IF scopes'[i].kind = "mem" THEN 1 ELSE 0)
      <3> SUFFICES ASSUME NEW i \in 1..Depth', i > 1
                   PROVE  scopes'[i].memDepth = scopes'[i - 1].memDepth
                              + (IF scopes'[i].kind = "mem" THEN 1 ELSE 0)
        OBVIOUS
      <3>1. i \in 1..Depth /\ scopes'[i] = scopes[i] /\ scopes'[i - 1] = scopes[i - 1]
        BY <1>1, <1>3
      <3>2. scopes[i].memDepth = scopes[i - 1].memDepth
                                    + (IF scopes[i].kind = "mem" THEN 1 ELSE 0)
        BY <1>0, <3>1 DEF MemMarksOpen
      <3>3. scopes'[i].kind = scopes[i].kind /\ scopes'[i].memDepth = scopes[i].memDepth
            /\ scopes'[i - 1].memDepth = scopes[i - 1].memDepth
        BY <3>1
      <3> QED
        BY <3>2, <3>3
    <2>2. ASSUME Depth' > 0
          PROVE  scopes'[Depth'].memDepth = nm
      <3>a. Depth' = Depth - 1 /\ Depth > 1 /\ Depth - 1 \in 1..Depth - 1 /\ Depth - 1 \in 1..Depth
        BY <1>1, <1>3, <2>2
      <3>1. Depth > 1 /\ Depth - 1 \in 1..Depth /\ Depth' = Depth - 1
            /\ scopes'[Depth - 1] = scopes[Depth - 1]
        BY <1>3, <3>a
      <3>2. s.memDepth = scopes[Depth - 1].memDepth + (IF s.kind = "mem" THEN 1 ELSE 0)
        BY <1>0, <1>1, <3>1 DEF MemMarksOpen
      <3>3. scopes[Depth - 1].memDepth \in Nat
        BY <1>t, <3>1
      <3> QED
        BY <1>2, <1>4, <3>1, <3>2, <3>3
    <2> QED
      BY <2>1, <2>2 DEF MemMarksOpen, nm
  <1> QED
    BY <1>3, <1>4, <1>5, <1>7, <1>8, <1>9 DEF Stacks

\* A rewind that goes no lower than the blocks of the scopes around and than the
\* reserved string keeps the invariant; the block that is kept lies at the mark.
LEMMA Rewinding ==
    ASSUME Inductive, phase = "running", Depth > 0, scopes' = Popped, PoppedMarks,
           HeapState(heap'), heap'.pages = heap.pages, heap'.joined = heap.joined,
           heap'.emptyLp = heap.emptyLp, heap'.stableEnd = heap.stableEnd,
           NEW lo \in Nat, NEW hi \in Nat, lo < hi,
           \A b \in Outer : b.hi <= heap'.heapPtr,
           heap.stableEnd <= heap.heapPtr /\ heap.stableEnd <= heap.allocOffset
              /\ heap.stableEnd <= scopes[Depth].top /\ heap.stableEnd <= scopes[Depth].host =>
                 heap.stableEnd <= heap'.heapPtr /\ heap.stableEnd <= heap'.allocOffset,
           \/ blocks' = Outer
           \/ /\ blocks' = Outer \cup {[lo |-> lo, hi |-> hi, depth |-> Depth - 1,
                                       kind |-> "bytes"]}
              /\ lo = scopes[Depth].top /\ hi <= heap'.heapPtr /\ hi <= Bytes(heap.pages),
           phase' = phase, allocations' \in 0..MaxAllocations
    PROVE  Inductive'
  <1> DEFINE c == [lo |-> lo, hi |-> hi, depth |-> Depth - 1, kind |-> "bytes"]
             top == scopes[Depth].top
  <1>0. TypeOK /\ Bounded /\ BelowHeapTop /\ BlocksApart /\ OuterBlocksSpared /\ Reserved
    BY DEF Inductive, Bounded
  <1>1. /\ HeapState(heap) /\ heap.heapPtr \in Nat /\ heap.allocOffset \in Nat
        /\ heap.pages \in Nat /\ heap.stableEnd \in Nat /\ heap.emptyLp \in Nat
        /\ Depth \in Nat /\ Depth \in 1..Depth /\ top \in Nat
        /\ \A b \in blocks : /\ b.lo \in Nat /\ b.hi \in Nat /\ b.depth \in 0..Depth
                              /\ b \in BlockRecord(Depth)
    BY <1>0, Types
  <1>2. /\ Stacks' /\ Depth' = Depth - 1 /\ scopes' \in Seq(ScopeRecord)
        /\ memMarks' \in Seq(Nat \X Nat) /\ arenaMarks' \in Seq(Nat)
        /\ \A i \in 1..Depth' : i \in 1..Depth /\ scopes'[i] = scopes[i]
    BY Popping
  <1>3. /\ heap' \in HeapRecord /\ heap'.heapPtr \in Nat /\ heap'.allocOffset \in Nat
        /\ heap'.pages \in InitialPages..MaxPages
    BY SizesAssumption DEF HeapState, HeapRecord
  <1>4. \A b \in Outer : b \in blocks /\ b.depth # Depth
    BY DEF Outer, Inner
  <1>5. \A b \in Outer : /\ b.lo \in Nat /\ b.hi \in Nat /\ b.depth \in 0..(Depth - 1)
                         /\ b.hi <= top /\ Backed(b, heap.pages) /\ b.lo < b.hi
                         /\ b.hi <= MaxAddress
    <2> SUFFICES ASSUME NEW b \in Outer
                 PROVE  /\ b.lo \in Nat /\ b.hi \in Nat /\ b.depth \in 0..(Depth - 1)
                        /\ b.hi <= top /\ Backed(b, heap.pages) /\ b.lo < b.hi
                        /\ b.hi <= MaxAddress
      OBVIOUS
    <2>1. b \in blocks /\ b.lo \in Nat /\ b.hi \in Nat /\ b.depth \in 0..Depth /\ b.depth # Depth
      BY <1>1, <1>4
    <2>2. b.depth \in 0..(Depth - 1) /\ b.depth < Depth
      BY <1>1, <2>1
    <2>3. b.hi <= top
      BY <1>0, <1>1, <2>1, <2>2 DEF OuterBlocksSpared
    <2>4. Backed(b, heap.pages) /\ b.lo < b.hi /\ b.hi <= MaxAddress
      BY <1>0, <2>1 DEF Bounded, BelowHeapTop
    <2> QED
      BY <2>1, <2>2, <2>3, <2>4
  <1>6. c.lo = lo /\ c.hi = hi /\ c.depth = Depth - 1 /\ c.kind = "bytes"
        /\ Depth - 1 \in Nat /\ c \in BlockRecord(Depth - 1)
    BY <1>1 DEF BlockRecord
  <1>7. \/ blocks' = Outer
        \/ /\ blocks' = Outer \cup {c} /\ lo = top
           /\ hi <= heap'.heapPtr /\ hi <= Bytes(heap.pages)
    OBVIOUS
  <1> HIDE DEF c, top
  <1>8. TypeOK'
    <2>1. Outer \subseteq BlockRecord(Depth - 1)
      BY <1>1, <1>4, <1>5 DEF BlockRecord
    <2>2. blocks' \subseteq BlockRecord(Depth')
      BY <1>2, <1>6, <1>7, <2>1
    <2> QED
      BY <1>0, <1>2, <1>3, <2>2 DEF TypeOK
  <1>9. Bounded'
    <2>1. blocks' # Outer => Backed(c, heap.pages) /\ hi <= MaxAddress
      <3> SUFFICES ASSUME blocks' # Outer PROVE Backed(c, heap.pages) /\ hi <= MaxAddress
        OBVIOUS
      <3>1. Backed(c, heap.pages)
        BY <1>6, <1>7 DEF Backed
      <3>2. heap.pages <= MaxPages
        BY <1>1, SizesAssumption DEF HeapState
      <3> QED
        BY <1>1, <1>6, <3>1, <3>2, BackedStays
    <2>2. \A b \in blocks' : b.hi <= heap'.heapPtr /\ Backed(b, heap.pages) /\ b.lo < b.hi
                            /\ b.hi <= MaxAddress
      BY <1>5, <1>6, <1>7, <2>1
    <2> QED
      BY <2>2 DEF Bounded, BelowHeapTop
  <1>10. BlocksApart'
    <2>1. \A b, d \in Outer : b # d => b.hi <= d.lo \/ d.hi <= b.lo
      BY <1>0, <1>4 DEF BlocksApart
    <2>2. CASE blocks' = Outer
      BY <2>1, <2>2 DEF BlocksApart
    <2>3. CASE blocks' = Outer \cup {c} /\ lo = top
      <3>1. \A b \in Outer : b.hi <= c.lo
        BY <1>5, <1>6, <2>3
      <3> QED
        BY <2>1, <2>3, <3>1 DEF BlocksApart
    <2> QED
      BY <1>7, <2>2, <2>3
  <1>11. OuterBlocksSpared'
    <2> SUFFICES ASSUME NEW i \in 1..Depth', NEW b \in blocks', b.depth < i
                 PROVE  b.hi <= scopes'[i].top
      BY DEF OuterBlocksSpared
    <2>1. i \in 1..Depth /\ i <= Depth - 1 /\ scopes'[i] = scopes[i]
      BY <1>1, <1>2
    <2>2. b # c
      BY <1>1, <1>6, <2>1
    <2>3. b \in blocks
      BY <1>4, <1>7, <2>2
    <2> QED
      BY <1>0, <2>1, <2>3 DEF OuterBlocksSpared
  <1>12. Reserved'
    <2>1. phase' # "inputs"
      OBVIOUS
    <2>2. ASSUME ~MayFindInputs
          PROVE  /\ heap'.joined /\ EmptyStringIntact'
                 /\ heap'.stableEnd = heap'.emptyLp + 8
                 /\ heap'.stableEnd <= heap'.allocOffset
                 /\ \A i \in 1..Depth' : heap'.stableEnd <= scopes'[i].top
                                         /\ heap'.stableEnd <= scopes'[i].host
      <3>1. heap.joined
        BY <1>0, <2>2 DEF Reserved
      <3>2. /\ heap.emptyLp + 8 <= heap.heapPtr
            /\ \A b \in blocks : heap.emptyLp + 8 <= b.lo \/ b.hi <= heap.emptyLp
            /\ heap.stableEnd = heap.emptyLp + 8 /\ heap.stableEnd <= heap.allocOffset
            /\ \A i \in 1..Depth : heap.stableEnd <= scopes[i].top
                                   /\ heap.stableEnd <= scopes[i].host
        BY <1>0, <2>2, <3>1 DEF Reserved, EmptyStringIntact
      <3>3. heap.stableEnd <= heap'.heapPtr /\ heap.stableEnd <= heap'.allocOffset
        BY <1>1, <3>2
      <3>4. \A b \in blocks' : heap.emptyLp + 8 <= b.lo \/ b.hi <= heap.emptyLp
        <4>1. heap.stableEnd <= top
          BY <1>1, <3>2 DEF top
        <4> QED
          BY <1>4, <1>6, <1>7, <3>2, <4>1
      <3>5. EmptyStringIntact'
        BY <3>2, <3>3, <3>4 DEF EmptyStringIntact
      <3> QED
        BY <1>2, <3>1, <3>2, <3>3, <3>5
    <2> QED
      BY <2>1, <2>2 DEF Reserved
  <1> QED
    BY <1>2, <1>8, <1>9, <1>10, <1>11, <1>12 DEF Inductive

\* Every push keeps the invariant: the host's pushes join the heap first, the
\* plugin's own leaves it alone.
LEMMA Pushing ==
    ASSUME Inductive, ScopePush \/ MemScopePush \/ ArenaScopePush
    PROVE  Inductive'
  <1> DEFINE j == Join(heap)
  <1>1. TypeOK /\ Reserved
    BY DEF Inductive
  <1>2. /\ HeapState(heap) /\ heap.heapPtr \in Nat /\ heap.pages \in Nat
        /\ heap.allocOffset \in Nat /\ heap.stableEnd \in Nat
    BY <1>1, Types
  <1>3. CASE ScopePush
    <2>1. Open("native", heap.allocOffset, heap.heapPtr) /\ heap' = heap
          /\ UNCHANGED <<memMarks, arenaMarks>>
      BY <1>3 DEF ScopePush
    <2>2. heap.heapPtr <= heap'.heapPtr /\ heap.pages <= heap'.pages /\ HeapState(heap')
          /\ heap.allocOffset <= heap'.allocOffset
      BY <1>2, <2>1
    <2>3. heap.joined => heap'.joined /\ heap'.emptyLp = heap.emptyLp
                        /\ heap'.stableEnd = heap.stableEnd
      BY <2>1
    <2>4. heap.heapPtr <= heap.heapPtr
      BY <1>2
    <2> QED
      BY <1>2, <2>1, <2>2, <2>3, <2>4, Opening
  <1>4. /\ HeapState(j) /\ heap.pages <= j.pages /\ heap.heapPtr <= j.heapPtr
        /\ j.heapPtr <= j.allocOffset \/ j.allocOffset = MaxAddress
        /\ heap.joined => /\ j.joined /\ j.emptyLp = heap.emptyLp
                          /\ j.stableEnd = heap.stableEnd /\ heap.allocOffset <= j.allocOffset
    BY <1>2, JoinFacts
  <1>5. j.heapPtr \in Nat /\ j.allocOffset \in Nat /\ MaxAddress \in Nat
    BY <1>4, SizesAssumption DEF HeapState, HeapRecord
  <1>6. CASE MemScopePush
    <2>1. heap' = j /\ Open("mem", j.allocOffset, j.heapPtr)
          /\ memMarks' = Append(memMarks, <<j.allocOffset, j.heapPtr>>) /\ UNCHANGED arenaMarks
      BY <1>6 DEF MemScopePush, OpenHeapScope
    <2> HIDE DEF j
    <2>2. heap.joined /\ heap.stableEnd <= heap.allocOffset => heap.stableEnd <= j.allocOffset
      <3> SUFFICES ASSUME heap.joined, heap.stableEnd <= heap.allocOffset
                   PROVE  heap.stableEnd <= j.allocOffset
        OBVIOUS
      <3>1. heap.allocOffset <= j.allocOffset
        BY <1>4
      <3> QED
        BY <1>2, <1>5, <3>1
    <2>3. heap.stableEnd <= heap.heapPtr => heap.stableEnd <= j.heapPtr
      BY <1>2, <1>4, <1>5
    <2> QED
      BY <1>4, <1>5, <2>1, <2>2, <2>3, Opening
  <1>7. CASE ArenaScopePush
    <2>1. heap' = j /\ Open("arena", j.allocOffset, j.allocOffset)
          /\ arenaMarks' = Append(arenaMarks, j.allocOffset) /\ UNCHANGED memMarks
      BY <1>7 DEF ArenaScopePush, OpenHeapScope
    <2> HIDE DEF j
    <2>2. heap.joined /\ heap.stableEnd <= heap.allocOffset => heap.stableEnd <= j.allocOffset
      <3> SUFFICES ASSUME heap.joined, heap.stableEnd <= heap.allocOffset
                   PROVE  heap.stableEnd <= j.allocOffset
        OBVIOUS
      <3>1. heap.allocOffset <= j.allocOffset
        BY <1>4
      <3> QED
        BY <1>2, <1>5, <3>1
    <2>3. heap.heapPtr <= j.allocOffset \/ MaxAddress <= j.allocOffset
      BY <1>2, <1>4, <1>5
    <2> QED
      BY <1>4, <1>5, <2>1, <2>2, <2>3, Opening
  <1> QED
    BY <1>3, <1>6, <1>7

\* What close_heap_scope does to the record of the heap.
LEMMA CloseFacts ==
    ASSUME NEW h, HeapState(h), NEW hostMark \in Nat, NEW heapMark \in Nat
    PROVE  LET k == Close(h, hostMark, heapMark) IN
           /\ HeapState(k) /\ k.pages = h.pages /\ k.joined = h.joined
           /\ k.emptyLp = h.emptyLp /\ k.stableEnd = h.stableEnd
           /\ k.heapPtr = h.heapPtr \/ heapMark <= k.heapPtr
           /\ h.stableEnd <= h.heapPtr /\ h.stableEnd <= h.allocOffset =>
                 h.stableEnd <= k.heapPtr /\ h.stableEnd <= k.allocOffset
  <1>1. h \in HeapRecord /\ h.heapPtr \in Nat /\ h.allocOffset \in 0..MaxAddress
        /\ h.stableEnd \in Nat /\ MaxAddress \in Nat
    BY SizesAssumption DEF HeapState, HeapRecord
  <1> DEFINE a == Smaller(h.allocOffset, Larger(hostMark, h.stableEnd))
             p == Smaller(h.heapPtr, Larger(heapMark, h.stableEnd))
  <1>2. /\ a \in 0..MaxAddress /\ p \in Nat
        /\ p = h.heapPtr \/ heapMark <= p
        /\ h.stableEnd <= h.heapPtr => h.stableEnd <= p
        /\ h.stableEnd <= h.allocOffset => h.stableEnd <= a
    BY <1>1 DEF Smaller, Larger
  <1>3. Close(h, hostMark, heapMark) = [h EXCEPT !.allocOffset = a, !.heapPtr = p]
    BY DEF Close
  <1> HIDE DEF a, p
  <1> DEFINE g == [h EXCEPT !.allocOffset = a]
             k == Close(h, hostMark, heapMark)
  <1>4. g \in HeapRecord /\ g.pages = h.pages /\ g.joined = h.joined
        /\ g.emptyLp = h.emptyLp /\ g.stableEnd = h.stableEnd /\ g.allocOffset = a
    BY <1>1, <1>2 DEF HeapRecord
  <1>5. k = [g EXCEPT !.heapPtr = p]
    BY <1>3
  <1> HIDE DEF g, k
  <1>6. k \in HeapRecord /\ k.pages = h.pages /\ k.joined = h.joined
        /\ k.emptyLp = h.emptyLp /\ k.stableEnd = h.stableEnd /\ k.allocOffset = a
        /\ k.heapPtr = p
    BY <1>2, <1>4, <1>5 DEF HeapRecord
  <1>7. HeapState(k)
    BY <1>6, HeapState(h) DEF HeapState
  <1> QED
    BY <1>2, <1>6, <1>7 DEF k

\* Every pop keeps the invariant, and finds the mark of its own scope.
LEMMA Closings ==
    ASSUME Inductive, ScopePop \/ MemScopePop \/ ArenaScopePop
    PROVE  Inductive'
  <1> DEFINE s == scopes[Depth]
  <1>0. TypeOK /\ Bounded /\ BelowHeapTop /\ OuterBlocksSpared /\ OwnMark /\ MemMarksOpen
    BY DEF Inductive, Bounded, Stacks
  <1>1. /\ phase = "running" /\ Depth > 0 /\ scopes' = Popped /\ blocks' = Outer
        /\ phase' = phase /\ allocations' = allocations
    BY DEF ScopePop, MemScopePop, ArenaScopePop, InScope, Closed, Running
  <1>2. /\ HeapState(heap) /\ heap \in HeapRecord /\ heap.heapPtr \in Nat
        /\ heap.allocOffset \in Nat /\ heap.stableEnd \in Nat
        /\ Depth \in 1..Depth /\ Depth \in Nat /\ s.top \in Nat /\ s.host \in Nat
        /\ s.handle \in Nat
        /\ \A b \in blocks : b.hi \in Nat /\ b.depth \in 0..Depth
    BY <1>0, <1>1, Types DEF HeapState
  <1>3. \A b \in Outer : b.hi <= s.top /\ b.hi <= heap.heapPtr /\ b.hi \in Nat
    <2> SUFFICES ASSUME NEW b \in Outer
                 PROVE  b.hi <= s.top /\ b.hi <= heap.heapPtr /\ b.hi \in Nat
      OBVIOUS
    <2>1. b \in blocks /\ b.depth # Depth
      BY DEF Outer, Inner
    <2>2. b.depth < Depth
      BY <1>2, <2>1
    <2> QED
      BY <1>0, <1>2, <2>1, <2>2 DEF OuterBlocksSpared, BelowHeapTop
  <1>4. allocations' \in 0..MaxAllocations
    BY <1>0, <1>1 DEF TypeOK
  <1>5. 0 \in Nat /\ 1 \in Nat /\ 0 < 1
    OBVIOUS
  <1> HIDE DEF s
  <1>6. CASE ScopePop
    <2>1. heap' = [heap EXCEPT !.heapPtr = s.top] /\ UNCHANGED <<memMarks, arenaMarks>>
          /\ s.kind = "native"
      BY <1>6 DEF ScopePop, InScope, s
    <2>2. /\ HeapState(heap') /\ heap'.heapPtr = s.top /\ heap'.pages = heap.pages
          /\ heap'.joined = heap.joined /\ heap'.emptyLp = heap.emptyLp
          /\ heap'.stableEnd = heap.stableEnd /\ heap'.allocOffset = heap.allocOffset
      BY <1>2, <2>1 DEF HeapState, HeapRecord
    <2>3. PoppedMarks
      BY <2>1 DEF PoppedMarks, s
    <2>4. \A b \in Outer : b.hi <= heap'.heapPtr
      BY <1>3, <2>2
    <2> QED
      BY <1>1, <1>4, <1>5, <2>2, <2>3, <2>4, Rewinding DEF s
  <1>7. ASSUME HeapState(heap'), heap' = Close(heap, s.host, s.top), PoppedMarks
        PROVE  Inductive'
    <2> DEFINE k == Close(heap, s.host, s.top)
    <2>1. /\ k.pages = heap.pages /\ k.joined = heap.joined
          /\ k.emptyLp = heap.emptyLp /\ k.stableEnd = heap.stableEnd
          /\ k.heapPtr = heap.heapPtr \/ s.top <= k.heapPtr
          /\ heap.stableEnd <= heap.heapPtr /\ heap.stableEnd <= heap.allocOffset =>
                heap.stableEnd <= k.heapPtr /\ heap.stableEnd <= k.allocOffset
          /\ k.heapPtr \in Nat
      <3>1. HeapState(k)
        BY <1>7
      <3>2. k.heapPtr \in Nat
        <4> HIDE DEF k
        <4> QED
          BY <3>1 DEF HeapState, HeapRecord
      <3>3. /\ k.pages = heap.pages /\ k.joined = heap.joined
            /\ k.emptyLp = heap.emptyLp /\ k.stableEnd = heap.stableEnd
            /\ k.heapPtr = heap.heapPtr \/ s.top <= k.heapPtr
            /\ heap.stableEnd <= heap.heapPtr /\ heap.stableEnd <= heap.allocOffset =>
                  heap.stableEnd <= k.heapPtr /\ heap.stableEnd <= k.allocOffset
        <4>1. HeapState(heap) /\ s.host \in Nat /\ s.top \in Nat
          BY <1>2
        <4> HIDE DEF k
        <4>2. /\ k.pages = heap.pages /\ k.joined = heap.joined
              /\ k.emptyLp = heap.emptyLp /\ k.stableEnd = heap.stableEnd
              /\ k.heapPtr = heap.heapPtr \/ s.top <= k.heapPtr
              /\ heap.stableEnd <= heap.heapPtr /\ heap.stableEnd <= heap.allocOffset =>
                    heap.stableEnd <= k.heapPtr /\ heap.stableEnd <= k.allocOffset
          BY <4>1, CloseFacts DEF k
        <4> QED
          BY <4>2
      <3> HIDE DEF k
      <3> QED
        BY <3>2, <3>3
    <2>2. heap' = k
      BY <1>7
    <2> HIDE DEF k
    <2>3. \A b \in Outer : b.hi <= heap'.heapPtr
      BY <1>2, <1>3, <2>1, <2>2
    <2> QED
      BY <1>1, <1>4, <1>5, <1>7, <2>1, <2>2, <2>3, Rewinding
  <1>8. CASE MemScopePop
    <2> DEFINE last == memMarks[Len(memMarks)]
    <2>1. heap' = Close(heap, last[1], last[2]) /\ UNCHANGED arenaMarks /\ s.kind = "mem"
          /\ memMarks' = SubSeq(memMarks, 1, Len(memMarks) - 1)
      BY <1>8 DEF MemScopePop, InScope, s
    <2>2. last = <<s.host, s.top>>
      <3>1. memMarks[s.memDepth] = <<s.host, s.top>>
        BY <1>0, <1>2, <2>1 DEF OwnMark, s
      <3>2. s.memDepth = Len(memMarks)
        BY <1>0, <1>1 DEF MemMarksOpen, s
      <3> QED
        BY <3>1, <3>2
    <2>3. heap' = Close(heap, s.host, s.top)
      BY <2>1, <2>2
    <2>4. PoppedMarks
      BY <2>1 DEF PoppedMarks, s
    <2> QED
      BY <1>2, <1>7, <2>3, <2>4, CloseFacts
  <1>9. CASE ArenaScopePop
    <2>1. heap' = Close(heap, arenaMarks[s.handle], arenaMarks[s.handle])
          /\ UNCHANGED memMarks /\ s.kind = "arena"
          /\ arenaMarks' = SubSeq(arenaMarks, 1, s.handle - 1)
      BY <1>9 DEF ArenaScopePop, InScope, s
    <2>2. arenaMarks[s.handle] = s.top /\ s.host = s.top
      BY <1>0, <1>2, <2>1 DEF OwnMark, s
    <2>3. heap' = Close(heap, s.host, s.top)
      BY <2>1, <2>2
    <2>4. PoppedMarks
      BY <2>1 DEF PoppedMarks, s
    <2> QED
      BY <1>2, <1>7, <2>3, <2>4, CloseFacts
  <1> QED
    BY <1>6, <1>8, <1>9

\* A pop that keeps a block copies it to the mark.
LEMMA Keeping ==
    ASSUME Inductive, NEW kept \in blocks, ScopePopKeeping(kept)
    PROVE  Inductive'
  <1> DEFINE mark == scopes[Depth].top
             end  == mark + (kept.hi - kept.lo)
  <1>0. TypeOK /\ Bounded /\ BelowHeapTop /\ OuterBlocksSpared
    BY DEF Inductive, Bounded
  <1>k. /\ phase = "running" /\ Depth > 0
        /\ scopes[Depth].kind = "native" /\ UNCHANGED <<memMarks, arenaMarks>>
        /\ CanAllocate /\ allocations' = allocations + 1 /\ kept.kind = "bytes"
    BY DEF ScopePopKeeping, InScope, Running
  <1>2. /\ HeapState(heap) /\ heap \in HeapRecord /\ mark \in Nat
        /\ kept.lo \in Nat /\ kept.hi \in Nat /\ Depth \in Nat /\ Depth \in 1..Depth
        /\ \A b \in blocks : b.hi \in Nat /\ b.depth \in 0..Depth
    BY <1>0, <1>k, Types DEF HeapState
  <1>3. kept.lo < kept.hi
    BY <1>0 DEF Bounded
  <1>4. end \in Nat /\ mark < end
    BY <1>2, <1>3
  <1>a. allocations' \in 0..MaxAllocations
    <2>1. allocations \in 0..MaxAllocations /\ MaxAllocations \in Nat
      BY <1>0, SizesAssumption DEF TypeOK
    <2>2. allocations < MaxAllocations /\ allocations' = allocations + 1
      BY <1>k DEF CanAllocate
    <2> QED
      BY <2>1, <2>2
  <1>t. CASE UNCHANGED <<heap, scopes, blocks>> /\ phase' = "over"
    <2>1. heap.heapPtr \in Nat /\ heap.pages \in Nat /\ heap.allocOffset \in Nat
      BY <1>0, Types
    <2>2. /\ HeapState(heap') /\ heap.heapPtr <= heap'.heapPtr /\ heap.pages <= heap'.pages
          /\ heap.allocOffset <= heap'.allocOffset /\ blocks' = blocks
      BY <1>2, <1>t, <2>1
    <2>3. ~(~heap.joined /\ heap'.joined)
          /\ (heap.joined => heap'.joined /\ heap'.emptyLp = heap.emptyLp
                             /\ heap'.stableEnd = heap.stableEnd)
      BY <1>t
    <2>4. ~MayFindInputs /\ ~heap'.joined => FALSE
      BY <1>k, <1>t DEF Inductive, Reserved
    <2>5. 0 \in Nat /\ 1 \in Nat /\ 0 < 1 /\ "bytes" \in {"bytes", "list"}
      OBVIOUS
    <2> QED
      BY <1>k, <1>t, <1>a, <2>2, <2>3, <2>4, <2>5, Allocation
  <1>s. ASSUME ~(UNCHANGED <<heap, scopes, blocks>> /\ phase' = "over")
        PROVE  Inductive'
    <2>1. /\ phase = "running" /\ Depth > 0 /\ scopes' = Popped /\ phase' = phase
          /\ scopes[Depth].kind = "native" /\ UNCHANGED <<memMarks, arenaMarks>>
          /\ kept.lo = mark \/ end <= Bytes(heap.pages)
          /\ heap' = [heap EXCEPT !.heapPtr = end]
          /\ blocks' = Outer \cup {[lo |-> mark, hi |-> end, depth |-> Depth - 1,
                                   kind |-> "bytes"]}
      BY <1>s, <1>k DEF ScopePopKeeping
    <2>e. end <= Bytes(heap.pages)
      <3>1. kept.lo = mark => end = kept.hi
        BY <1>2
      <3>2. kept.hi <= Bytes(heap.pages)
        BY <1>0, <1>k DEF BelowHeapTop, Backed
      <3> QED
        BY <2>1, <3>1, <3>2
    <2> HIDE DEF end, mark
    <2>5. /\ HeapState(heap') /\ heap'.heapPtr = end /\ heap'.pages = heap.pages
          /\ heap'.joined = heap.joined /\ heap'.emptyLp = heap.emptyLp
          /\ heap'.stableEnd = heap.stableEnd /\ heap'.allocOffset = heap.allocOffset
      BY <2>1, <1>2, <1>4 DEF HeapState, HeapRecord
    <2>6. \A b \in Outer : b.hi <= heap'.heapPtr
      <3> SUFFICES ASSUME NEW b \in Outer PROVE b.hi <= heap'.heapPtr
        OBVIOUS
      <3>1. b \in blocks /\ b.depth < Depth
        BY <1>2 DEF Outer, Inner
      <3>2. b.hi <= mark
        BY <1>0, <1>2, <3>1 DEF OuterBlocksSpared, mark
      <3> QED
        BY <1>2, <1>4, <2>5, <3>1, <3>2
    <2>7. heap.joined \in BOOLEAN /\ heap.stableEnd \in Nat
      BY <1>0, Types
    <2>8. heap.stableEnd <= mark => heap.stableEnd <= heap'.heapPtr
      BY <1>2, <1>4, <2>5, <2>7
    <2>9. heap.stableEnd <= heap.allocOffset => heap.stableEnd <= heap'.allocOffset
      BY <2>5
    <2>10. PoppedMarks
      BY <2>1 DEF PoppedMarks
    <2>12. end <= heap'.heapPtr
      BY <1>4, <2>5
    <2> QED
      BY <1>2, <1>4, <1>a, <2>1, <2>e, <2>5, <2>6, <2>8, <2>9, <2>10, <2>12, Rewinding DEF mark
  <1> QED
    BY <1>t, <1>s

\* A skipped pop moves no pointer: the scope's blocks pass to the scope around.
LEMMA Skipping ==
    ASSUME Inductive, SkipPop
    PROVE  Inductive'
  <1> DEFINE Moved(b) == [b EXCEPT !.depth = Depth - 1]
  <1>0. TypeOK /\ Bounded /\ BelowHeapTop /\ BlocksApart /\ OuterBlocksSpared /\ Reserved
    BY DEF Inductive, Bounded
  <1>1. /\ phase = "running" /\ Depth > 0 /\ scopes' = Popped
        /\ scopes[Depth].kind # "mem"
        /\ blocks' = Outer \cup {Moved(b) : b \in Inner}
        /\ UNCHANGED <<heap, memMarks, arenaMarks, phase, allocations>>
    BY DEF SkipPop, InScope, Running
  <1>2. Depth \in Nat /\ Depth \in 1..Depth
        /\ \A b \in blocks : /\ b.lo \in Nat /\ b.hi \in Nat /\ b.depth \in 0..Depth
                             /\ b \in BlockRecord(Depth)
    BY <1>0, <1>1, Types DEF TypeOK
  <1>3. PoppedMarks
    BY <1>1 DEF PoppedMarks
  <1>4. /\ Stacks' /\ Depth' = Depth - 1 /\ scopes' \in Seq(ScopeRecord)
        /\ memMarks' \in Seq(Nat \X Nat) /\ arenaMarks' \in Seq(Nat)
        /\ \A i \in 1..Depth' : i \in 1..Depth /\ scopes'[i] = scopes[i]
    BY <1>1, <1>3, Popping
  <1>5. \A b \in blocks : /\ Moved(b).lo = b.lo /\ Moved(b).hi = b.hi
                         /\ Moved(b).depth = Depth - 1 /\ Moved(b).kind = b.kind
                         /\ Moved(b) \in BlockRecord(Depth - 1)
    BY <1>2 DEF BlockRecord
  <1> HIDE DEF Moved
  <1>6. \A b \in Outer : b \in blocks /\ b.depth < Depth
    BY <1>2 DEF Outer, Inner
  <1>7. \A b \in blocks' : \/ b \in Outer /\ b \in blocks /\ b.depth < Depth
                          \/ \E a \in Inner : a \in blocks /\ b = Moved(a)
    BY <1>1, <1>6 DEF Inner
  <1>8. TypeOK'
    <2>1. ASSUME NEW b \in blocks'
          PROVE  b \in BlockRecord(Depth - 1)
      <3>1. CASE b \in Outer
        <4>1. b \in BlockRecord(Depth) /\ b.depth \in 0..(Depth - 1)
          BY <1>2, <1>6, <3>1
        <4> QED
          BY <4>1 DEF BlockRecord
      <3>2. CASE b \notin Outer
        BY <1>5, <1>7, <3>2
      <3> QED
        BY <3>1, <3>2
    <2>2. blocks' \subseteq BlockRecord(Depth')
      BY <1>4, <2>1
    <2> QED
      BY <1>0, <1>1, <1>4, <2>2 DEF TypeOK
  <1>9. Bounded'
    <2>1. \A b \in blocks : b.hi <= heap.heapPtr /\ Backed(b, heap.pages) /\ b.lo < b.hi
                           /\ b.hi <= MaxAddress
      BY <1>0 DEF Bounded, BelowHeapTop
    <2>a. \A b \in blocks : Backed(Moved(b), heap.pages)
      BY <1>5, <2>1 DEF Backed
    <2>2. \A b \in blocks' : b.hi <= heap.heapPtr /\ Backed(b, heap.pages) /\ b.lo < b.hi
                            /\ b.hi <= MaxAddress
      BY <1>5, <1>7, <2>1, <2>a
    <2> QED
      BY <1>1, <2>2 DEF Bounded, BelowHeapTop
  <1>10. BlocksApart'
    <2> SUFFICES ASSUME NEW b \in blocks', NEW c \in blocks', b # c
                 PROVE  b.hi <= c.lo \/ c.hi <= b.lo
      BY DEF BlocksApart
    <2>1. PICK b0 \in blocks : /\ b0.lo = b.lo /\ b0.hi = b.hi
                               /\ (b0 = b /\ b0 \in Outer) \/ (b = Moved(b0) /\ b0 \notin Outer)
      BY <1>5, <1>7 DEF Outer
    <2>2. PICK c0 \in blocks : /\ c0.lo = c.lo /\ c0.hi = c.hi
                               /\ (c0 = c /\ c0 \in Outer) \/ (c = Moved(c0) /\ c0 \notin Outer)
      BY <1>5, <1>7 DEF Outer
    <2>3. b0 # c0
      BY <2>1, <2>2
    <2>4. b0.hi <= c0.lo \/ c0.hi <= b0.lo
      BY <1>0, <2>3 DEF BlocksApart
    <2>5. b0.hi = b.hi /\ b0.lo = b.lo /\ c0.hi = c.hi /\ c0.lo = c.lo
      BY <2>1, <2>2
    <2> QED
      BY <2>4, <2>5
  <1>11. OuterBlocksSpared'
    <2> SUFFICES ASSUME NEW i \in 1..Depth', NEW b \in blocks', b.depth < i
                 PROVE  b.hi <= scopes'[i].top
      BY DEF OuterBlocksSpared
    <2>1. i \in 1..Depth /\ i <= Depth - 1 /\ scopes'[i] = scopes[i]
      BY <1>2, <1>4
    <2>2. \A a \in blocks : b # Moved(a)
      BY <1>2, <1>5, <2>1
    <2>3. b \in blocks
      BY <1>7, <2>2
    <2> QED
      BY <1>0, <2>1, <2>3 DEF OuterBlocksSpared
  <1>12. Reserved'
    <2>1. phase' # "inputs"
      BY <1>1
    <2>2. ASSUME ~MayFindInputs
          PROVE  /\ heap'.joined /\ EmptyStringIntact'
                 /\ heap'.stableEnd = heap'.emptyLp + 8
                 /\ heap'.stableEnd <= heap'.allocOffset
                 /\ \A i \in 1..Depth' : heap'.stableEnd <= scopes'[i].top
                                         /\ heap'.stableEnd <= scopes'[i].host
      <3>1. heap.joined
        BY <1>0, <1>1, <2>2 DEF Reserved
      <3>2. /\ heap.emptyLp + 8 <= heap.heapPtr
            /\ \A b \in blocks : heap.emptyLp + 8 <= b.lo \/ b.hi <= heap.emptyLp
            /\ heap.stableEnd = heap.emptyLp + 8 /\ heap.stableEnd <= heap.allocOffset
            /\ \A i \in 1..Depth : heap.stableEnd <= scopes[i].top
                                   /\ heap.stableEnd <= scopes[i].host
        BY <1>0, <2>2, <3>1 DEF Reserved, EmptyStringIntact
      <3>3. \A b \in blocks' : heap.emptyLp + 8 <= b.lo \/ b.hi <= heap.emptyLp
        BY <1>5, <1>7, <3>2
      <3>4. EmptyStringIntact'
        BY <1>1, <3>2, <3>3 DEF EmptyStringIntact
      <3> QED
        BY <1>1, <1>4, <3>1, <3>2, <3>4
    <2> QED
      BY <2>1, <2>2 DEF Reserved
  <1> QED
    BY <1>4, <1>8, <1>9, <1>10, <1>11, <1>12 DEF Inductive

-----------------------------------------------------------------------------
(* The theorems.                                                           *)

LEMMA InitInductive ==
    ASSUME Init
    PROVE  Inductive
  <1>1. Depth = 0
    BY DEF Init, Depth
  <1>2. /\ HeapStart \in Nat /\ HostStart \in 0..MaxAddress /\ MaxAddress \in Nat
        /\ InitialPages \in InitialPages..MaxPages /\ InitialPages \in Nat
        /\ 0 \in 0..MaxAllocations
    BY SizesAssumption, LayoutAssumption
  <1>3. heap \in HeapRecord /\ heap.pages = InitialPages /\ heap.joined = FALSE
    BY <1>2 DEF Init, HeapRecord
  <1>4. TypeOK
    <2>1. memMarks \in Seq(Nat \X Nat) /\ arenaMarks \in Seq(Nat) /\ scopes \in Seq(ScopeRecord)
      BY DEF Init
    <2>2. blocks \subseteq BlockRecord(Depth)
          /\ phase \in {"inputs", "running", "over"} /\ allocations \in 0..MaxAllocations
      BY <1>2 DEF Init
    <2> QED
      BY <1>2, <1>3, <2>1, <2>2 DEF TypeOK
  <1>5. Bounded /\ BlocksApart /\ OuterBlocksSpared
    BY DEF Init, Bounded, BelowHeapTop, BlocksApart, OuterBlocksSpared
  <1>6. Stacks
    BY <1>1 DEF Stacks, OwnMark, DepthsGrow, MemMarksOpen
  <1>7. Reserved
    <2>1. ~heap.joined /\ scopes = <<>> /\ blocks = {} /\ phase = "inputs"
      BY <1>3 DEF Init
    <2> QED
      BY <2>1 DEF Reserved, EmptyStringIntact
  <1> QED
    BY <1>4, <1>5, <1>6, <1>7 DEF Inductive

LEMMA NextInductive ==
    ASSUME Inductive, [Next]_vars
    PROVE  Inductive'
  <1>1. ASSUME NEW size \in HostSizes, WriteInput(size)
        PROVE  Inductive'
    <2>1. size \in Nat /\ size > 0
      BY SizesAssumption
    <2>2. AlignUp(size) \in Nat /\ AlignUp(size) >= 8 /\ AlignUp(size) > 0
      BY <2>1, AlignUpBounds
    <2>3. HostAllocate(AlignUp(size), 1)
      BY <1>1 DEF WriteInput
    <2> QED
      BY <2>2, <2>3, HostAllocation
  <1>2. ASSUME NEW size \in HostSizes, BridgeResult(size)
        PROVE  Inductive'
    <2>1. size \in Nat /\ size > 0
      BY SizesAssumption
    <2>2. HostAllocate(size, 0) /\ phase = "running"
      BY <1>2 DEF BridgeResult, Running
    <2> QED
      BY <2>1, <2>2, HostAllocation
  <1>3. CASE Call
    <2>1. /\ phase = "inputs" /\ phase' = "running"
          /\ MayFindInputs \/ blocks # {}
          /\ UNCHANGED <<heap, memMarks, arenaMarks, scopes, blocks, allocations>>
      BY <1>3 DEF Call
    <2>2. Depth' = Depth
      BY <2>1 DEF Depth
    <2>3. TypeOK /\ Bounded /\ BlocksApart /\ OuterBlocksSpared /\ Stacks /\ Reserved
      BY DEF Inductive
    <2>4. TypeOK'
      BY <2>1, <2>2, <2>3 DEF TypeOK
    <2>5. Bounded' /\ BlocksApart' /\ OuterBlocksSpared'
      BY <2>1, <2>2, <2>3 DEF Bounded, BelowHeapTop, BlocksApart, OuterBlocksSpared
    <2>6. Stacks'
      BY <2>1, <2>2, <2>3 DEF Stacks, OwnMark, DepthsGrow, MemMarksOpen
    <2>7. EmptyStringIntact' <=> EmptyStringIntact
      BY <2>1 DEF EmptyStringIntact
    <2>8. Reserved'
      BY <2>1, <2>2, <2>3, <2>7 DEF Reserved
    <2> QED
      BY <2>4, <2>5, <2>6, <2>8 DEF Inductive
  <1>4. CASE UNCHANGED vars
    <2>1. UNCHANGED <<heap, memMarks, arenaMarks, scopes, blocks, phase, allocations>>
      BY <1>4 DEF vars
    <2>2. Depth' = Depth
      BY <2>1 DEF Depth
    <2>3. TypeOK /\ Bounded /\ BlocksApart /\ OuterBlocksSpared /\ Stacks /\ Reserved
      BY DEF Inductive
    <2>4. TypeOK'
      BY <2>1, <2>2, <2>3 DEF TypeOK
    <2>5. Bounded' /\ BlocksApart' /\ OuterBlocksSpared'
      BY <2>1, <2>2, <2>3 DEF Bounded, BelowHeapTop, BlocksApart, OuterBlocksSpared
    <2>6. Stacks'
      BY <2>1, <2>2, <2>3 DEF Stacks, OwnMark, DepthsGrow, MemMarksOpen
    <2>7. EmptyStringIntact' <=> EmptyStringIntact
      BY <2>1 DEF EmptyStringIntact
    <2>8. Reserved'
      BY <2>1, <2>2, <2>3, <2>7 DEF Reserved
    <2> QED
      BY <2>4, <2>5, <2>6, <2>8 DEF Inductive
  <1> QED
    BY <1>1, <1>2, <1>3, <1>4, PluginAllocation, Pushing, Closings, Keeping, Skipping DEF Next

\* The invariant holds in every state of every call.
THEOREM Invariance == Spec => []Inductive
  <1>1. Init => Inductive
    BY InitInductive
  <1>2. Inductive /\ [Next]_vars => Inductive'
    BY NextInductive
  <1> QED
    BY <1>1, <1>2, PTL DEF Spec

\* Every variable keeps its type, no page is added beyond the limit.
THEOREM TypeCorrect == Spec => []TypeOK
  <1>1. Inductive => TypeOK
    BY DEF Inductive
  <1> QED
    BY <1>1, Invariance, PTL

\* Host and plugin never hand out the same bytes, whatever either rewinds.
THEOREM Separation == Spec => []BlocksApart
  <1>1. Inductive => BlocksApart
    BY DEF Inductive
  <1> QED
    BY <1>1, Invariance, PTL

\* Whatever host or plugin still reads lies below the plugin's pointer; the bytes
\* either has been given, and the header of every list literal, lie inside memory.
THEOREM Containment == Spec => []BelowHeapTop
  <1>1. Inductive => BelowHeapTop
    BY DEF Inductive, Bounded
  <1> QED
    BY <1>1, Invariance, PTL

\* No scope, of the host or of the plugin, can rewind past a block of a scope
\* around it.
THEOREM NestedRewinds == Spec => []OuterBlocksSpared
  <1>1. Inductive => OuterBlocksSpared
    BY DEF Inductive
  <1> QED
    BY <1>1, Invariance, PTL

\* When an input is written before the call, no pop hands out the reserved empty
\* string again.
THEOREM ReservedString == ~MayFindInputs => (Spec => []EmptyStringIntact)
  <1> SUFFICES ASSUME ~MayFindInputs PROVE Spec => []EmptyStringIntact
    OBVIOUS
  <1>1. Inductive => EmptyStringIntact
    BY DEF Inductive, Reserved
  <1> QED
    BY <1>1, Invariance, PTL

\* What PopReclaims says of a step.
Reclaims ==
    Closing => /\ heap'.heapPtr <= scopes[Depth].top
               /\ scopes[Depth].kind # "native" => heap'.allocOffset <= scopes[Depth].host

\* Only a pop closes a scope and drops its blocks: a pop that keeps a block, and a
\* skipped one, leave a block that no scope around had.
LEMMA ClosingStep ==
    ASSUME Inductive, Next, Closing
    PROVE  ScopePop \/ MemScopePop \/ ArenaScopePop
  <1>0. TypeOK /\ Bounded /\ BlocksApart /\ OuterBlocksSpared
    BY DEF Inductive
  <1>1. /\ Depth > 0 /\ scopes' = Popped /\ blocks' = Outer /\ Inner # {}
        /\ Depth \in Nat /\ Depth = Len(scopes) /\ scopes \in Seq(ScopeRecord)
        /\ \A b \in blocks : b.lo \in Nat /\ b.hi \in Nat /\ b.depth \in 0..Depth
    BY <1>0, Types DEF Closing
  <1>2. Len(scopes') = Len(scopes) - 1
    BY <1>1 DEF Popped
  <1>3. scopes' # scopes
    BY <1>1, <1>2
  <1>4. ASSUME NEW kind, NEW host, NEW top, Open(kind, host, top) PROVE FALSE
    <2>1. scopes' = Append(scopes, Scope(kind, host, top))
      BY <1>4 DEF Open
    <2>2. Len(scopes') = Len(scopes) + 1
      BY <1>1, <2>1
    <2> QED
      BY <1>1, <1>2, <2>2
  <1>5. ~ScopePush /\ ~MemScopePush /\ ~ArenaScopePush
    BY <1>4 DEF ScopePush, MemScopePush, ArenaScopePush
  <1>6. /\ ~Call
        /\ \A size : ~WriteInput(size) /\ ~BridgeResult(size) /\ ~Malloc(size)
        /\ \A capacity : ~ListAllocate(capacity)
    BY <1>3 DEF Call, WriteInput, BridgeResult, HostAllocate, Malloc, ListAllocate
  <1>7. \A b \in Outer : b \in blocks /\ b.depth # Depth
    BY DEF Outer, Inner
  <1>8. ASSUME NEW kept \in blocks, ScopePopKeeping(kept) PROVE FALSE
    <2> DEFINE mark == scopes[Depth].top
               end  == mark + (kept.hi - kept.lo)
               c    == [lo |-> mark, hi |-> end, depth |-> Depth - 1, kind |-> "bytes"]
    <2>1. c \in Outer
      BY <1>1, <1>3, <1>8 DEF ScopePopKeeping
    <2>2. c.hi <= mark
      <3>1. c \in blocks /\ c.depth < Depth /\ Depth \in 1..Depth
        BY <1>1, <1>7, <2>1
      <3> HIDE DEF c
      <3> QED
        BY <1>0, <3>1 DEF OuterBlocksSpared
    <2>3. kept.lo < kept.hi /\ kept.lo \in Nat /\ kept.hi \in Nat /\ mark \in Nat
      BY <1>0, <1>1, Types DEF Bounded
    <2> QED
      BY <2>2, <2>3
  <1>9. ASSUME SkipPop PROVE FALSE
    <2>1. PICK b \in Inner : b \in blocks /\ b.depth = Depth
      BY <1>1 DEF Inner
    <2> DEFINE c == [b EXCEPT !.depth = Depth - 1]
    <2>2. c \in Outer
      BY <1>1, <1>9, <2>1 DEF SkipPop
    <2>3. b \in BlockRecord(Depth)
      BY <1>0, <2>1 DEF TypeOK
    <2>4. c.lo = b.lo /\ c.hi = b.hi /\ c.depth # b.depth /\ c \in blocks
      BY <1>1, <1>7, <2>1, <2>2, <2>3 DEF BlockRecord
    <2>5. b.lo < b.hi /\ b.lo \in Nat /\ b.hi \in Nat
      BY <1>0, <1>1, <2>1 DEF Bounded
    <2> HIDE DEF c
    <2>6. b.hi <= c.lo \/ c.hi <= b.lo
      BY <1>0, <2>1, <2>4 DEF BlocksApart
    <2> QED
      BY <2>4, <2>5, <2>6
  <1> QED
    BY <1>5, <1>6, <1>8, <1>9 DEF Next

\* A pop that drops the blocks of its scope gives their memory back, whatever was
\* skipped inside it, when an input is written before the call.
THEOREM Reclamation == ~MayFindInputs => (Spec => PopReclaims)
  <1> SUFFICES ASSUME ~MayFindInputs PROVE Spec => PopReclaims
    OBVIOUS
  <1>1. ASSUME Inductive, Next, Closing
        PROVE  /\ heap'.heapPtr <= scopes[Depth].top
               /\ scopes[Depth].kind # "native" => heap'.allocOffset <= scopes[Depth].host
    <2> DEFINE s == scopes[Depth]
    <2>0. TypeOK /\ Reserved /\ OwnMark /\ MemMarksOpen
      BY <1>1 DEF Inductive, Stacks
    <2>1. Depth > 0
      BY <1>1 DEF Closing
    <2>2. /\ heap \in HeapRecord /\ Depth \in Nat /\ Depth \in 1..Depth
          /\ heap.heapPtr \in Nat /\ heap.allocOffset \in Nat /\ heap.stableEnd \in Nat
          /\ s.top \in Nat /\ s.host \in Nat /\ s.handle \in Nat
      BY <2>0, <2>1, Types DEF TypeOK
    <2>3. heap.stableEnd <= s.top /\ heap.stableEnd <= s.host
      <3>1. scopes # <<>>
        BY <2>1 DEF Depth
      <3>2. heap.joined
        BY <2>0, <3>1 DEF Reserved
      <3> QED
        BY <2>0, <2>2, <3>2 DEF Reserved
    <2>4. ScopePop \/ MemScopePop \/ ArenaScopePop
      BY <1>1, ClosingStep
    <2>5. CASE ScopePop
      <3>1. heap' = [heap EXCEPT !.heapPtr = s.top] /\ s.kind = "native"
        BY <2>5 DEF ScopePop, InScope
      <3>2. heap'.heapPtr = s.top
        BY <2>2, <3>1 DEF HeapRecord
      <3> QED
        BY <2>2, <3>1, <3>2
    <2>6. ASSUME heap' = Close(heap, s.host, s.top)
          PROVE  heap'.heapPtr <= s.top /\ heap'.allocOffset <= s.host
      <3> DEFINE a == Smaller(heap.allocOffset, Larger(s.host, heap.stableEnd))
                 p == Smaller(heap.heapPtr, Larger(s.top, heap.stableEnd))
                 g == [heap EXCEPT !.allocOffset = a]
      <3>1. a \in Nat /\ a <= s.host /\ p \in Nat /\ p <= s.top
        BY <2>2, <2>3 DEF Smaller, Larger
      <3>2. heap' = [g EXCEPT !.heapPtr = p]
        BY <2>6 DEF Close
      <3> HIDE DEF a, p
      <3>3. heap'.heapPtr = p /\ heap'.allocOffset = a
        BY <2>2, <3>2 DEF HeapRecord
      <3> QED
        BY <3>1, <3>3
    <2>7. CASE MemScopePop
      <3>1. s.kind = "mem" /\ heap' = Close(heap, memMarks[Len(memMarks)][1],
                                                  memMarks[Len(memMarks)][2])
        BY <2>7 DEF MemScopePop, InScope
      <3>2. memMarks[s.memDepth] = <<s.host, s.top>> /\ s.memDepth = Len(memMarks)
        BY <2>0, <2>1, <2>2, <3>1 DEF OwnMark, MemMarksOpen
      <3>3. heap' = Close(heap, s.host, s.top)
        BY <3>1, <3>2
      <3> QED
        BY <2>6, <3>3
    <2>8. CASE ArenaScopePop
      <3>1. s.kind = "arena" /\ heap' = Close(heap, arenaMarks[s.handle], arenaMarks[s.handle])
        BY <2>8 DEF ArenaScopePop, InScope
      <3>2. arenaMarks[s.handle] = s.top /\ s.host = s.top
        BY <2>0, <2>2, <3>1 DEF OwnMark
      <3>3. heap' = Close(heap, s.host, s.top)
        BY <3>1, <3>2
      <3> QED
        BY <2>6, <3>3
    <2> QED
      BY <2>4, <2>5, <2>7, <2>8
  <1>2. Inductive /\ [Next]_vars => [Reclaims]_vars
    BY <1>1 DEF Reclaims
  <1>3. [][Reclaims]_vars => PopReclaims
    BY PTL DEF PopReclaims, Reclaims
  <1> QED
    BY <1>2, <1>3, Invariance, PTL DEF Spec
=============================================================================
