-------------------------- MODULE NativeHeapProofs --------------------------
(***************************************************************************)
(* The safety of the memory runtime for every layout, every tier, every    *)
(* request size and every depth of scopes.                                 *)
(*                                                                         *)
(* RegionSafe is not inductive: a pop moves the heap pointer down, and     *)
(* what keeps it above the surviving blocks is that a block of an outer    *)
(* scope ends below the mark of every scope opened after it.  Regions says *)
(* this for every block and every open scope; Homes ties the scope a block *)
(* dies with to the stack.                                                 *)
(***************************************************************************)
EXTENDS NativeHeap, SequenceTheorems, TLAPS

Pooled(b) == b.hi <= PoolEnd

\* The home of a scope is the innermost heap scope at or below it, and its
\* mark lies in the region it bounds.
Homes ==
    \A i \in 1..Depth :
        /\ scopes[i].home <= i
        /\ \A j \in 1..i : scopes[j].kind = "heap" => j <= scopes[i].home
        /\ scopes[i].kind = "heap" => scopes[i].mark >= PoolEnd
        /\ scopes[i].kind = "transient" => scopes[i].mark >= PoolBase

\* A block that outlives scope i ends below the scope's mark, and a heap block
\* that dies with it starts at or above the mark.
Regions ==
    /\ \A b \in blocks : b.lo < b.hi
    /\ \A b \in blocks, i \in 1..Depth :
          /\ scopes[i].kind = "heap" /\ ~Pooled(b) =>
                IF b.until < i THEN b.hi <= scopes[i].mark
                               ELSE b.lo >= scopes[i].mark
          /\ scopes[i].kind = "transient" /\ Pooled(b) /\ b.until < i =>
                b.hi <= scopes[i].mark

Inductive ==
    /\ TypeOK /\ PoolReserved /\ MarksNested
    /\ Homes /\ Regions
    /\ RegionSafe /\ BytesBacked

-----------------------------------------------------------------------------
(* Arithmetic of the layout.                                               *)

\* AlignUp moves a natural number up, by less than the alignment.
LEMMA AlignUpBounds ==
    ASSUME NEW n \in Nat
    PROVE  AlignUp(n) \in Nat /\ n <= AlignUp(n) /\ AlignUp(n) <= n + 7
  BY DEF AlignUp

\* The pool lies above the static data and inside the initial memory.
LEMMA LayoutFacts ==
    /\ StaticEnd \in Nat /\ PoolBase \in Nat /\ PoolEnd \in Nat
    /\ InitialPages \in Nat /\ MaxPages \in Nat /\ InitialPages <= MaxPages
    /\ StaticEnd <= PoolBase /\ PoolBase < PoolEnd
    /\ PoolEnd = HeapStart
    /\ PoolEnd <= Bytes(InitialPages)
  <1>1. StaticEnd \in Nat /\ InitialPages \in Nat /\ MaxPages \in Nat
        /\ InitialPages <= MaxPages
    BY TierAssumption
  <1>2. PoolBase \in Nat /\ StaticEnd <= PoolBase
    BY <1>1, AlignUpBounds DEF PoolBase
  <1> QED
    BY <1>1, <1>2, LayoutAssumption DEF PoolEnd, HeapStart, TRANSIENT_POOL_SIZE

\* More pages are no fewer bytes.
LEMMA BytesMonotone ==
    /\ \A n \in Nat : Bytes(n) \in Nat
    /\ \A m, n \in Nat : m <= n => Bytes(m) <= Bytes(n)
  BY DEF Bytes, PageSize

\* Growing to PagesFor(end) pages makes the block that ends at end addressable,
\* and never asks for fewer pages than there are.
LEMMA GrowthSuffices ==
    ASSUME NEW end \in Nat
    PROVE  /\ PagesFor(end) \in Nat /\ end <= Bytes(PagesFor(end))
           /\ \A n \in Nat : Bytes(n) < end => n <= PagesFor(end)
  BY DEF PagesFor, PageSize, Bytes

\* The types of the scopes and of the blocks.
LEMMA Types ==
    ASSUME TypeOK
    PROVE  /\ Depth \in Nat /\ heapPtr \in Nat /\ transientPtr \in Nat /\ pages \in Nat
           /\ \A i \in 1..Depth : scopes[i].mark \in Nat /\ scopes[i].home \in Nat
                                 /\ scopes[i].kind \in {"heap", "transient"}
           /\ \A b \in blocks : b.lo \in Nat /\ b.hi \in Nat /\ b.until \in Nat
  <1>1. Depth \in Nat /\ heapPtr \in Nat /\ transientPtr \in Nat /\ pages \in Nat
    BY DEF TypeOK, Depth
  <1>2. \A i \in 1..Depth : scopes[i] \in ScopeRecord
    BY ElementOfSeq DEF TypeOK, Depth
  <1>3. \A b \in blocks : b.lo \in Nat /\ b.hi \in Nat /\ b.until \in Nat
    BY DEF TypeOK, BlockRecord
  <1> QED
    BY <1>1, <1>2, <1>3 DEF ScopeRecord

\* What is left of the scope stack after a pop.
LEMMA PoppedFacts ==
    ASSUME TypeOK, Depth > 0
    PROVE  /\ Depth \in Nat /\ Popped \in Seq(ScopeRecord)
           /\ Len(Popped) = Depth - 1
           /\ \A i \in 1..(Depth - 1) : Popped[i] = scopes[i]
           /\ scopes[Depth] \in ScopeRecord
  <1>1. scopes \in Seq(ScopeRecord) /\ Depth \in Nat /\ Depth = Len(scopes)
    BY DEF TypeOK, Depth
  <1>2. /\ Popped \in Seq(ScopeRecord)
        /\ Len(Popped) = Depth - 1
        /\ \A i \in 1..(Depth - 1) : Popped[i] = scopes[i]
    BY <1>1, SubSeqProperties, 1 \in 1..(Len(scopes) + 1),
       Depth - 1 \in 0..Len(scopes) DEF Popped
  <1>3. scopes[Depth] \in ScopeRecord
    BY <1>1, ElementOfSeq, Depth \in 1..Len(scopes)
  <1> QED
    BY <1>1, <1>2, <1>3

\* The home of the innermost scope is a scope, and no heap scope lies above it.
LEMMA HomeFacts ==
    ASSUME NEW s \in Seq(ScopeRecord),
           \A i \in 1..Len(s) :
              /\ s[i].home <= i
              /\ \A j \in 1..i : s[j].kind = "heap" => j <= s[i].home
    PROVE  /\ Home(s) \in Nat /\ Home(s) <= Len(s)
           /\ \A j \in 1..Len(s) : s[j].kind = "heap" => j <= Home(s)
  <1>1. CASE s = <<>>
    BY <1>1 DEF Home
  <1>2. CASE s # <<>>
    <2>1. Len(s) \in Nat /\ Len(s) > 0 /\ Len(s) \in 1..Len(s)
      BY <1>2
    <2>2. s[Len(s)] \in ScopeRecord
      BY <2>1
    <2> QED
      BY <1>2, <2>1, <2>2 DEF Home, ScopeRecord
  <1> QED
    BY <1>1, <1>2

\* The same, of the program's stack.
LEMMA HomeOfStack ==
    ASSUME TypeOK, Homes
    PROVE  /\ Home(scopes) \in Nat /\ Home(scopes) <= Depth /\ Depth \in Nat
           /\ \A j \in 1..Depth : scopes[j].kind = "heap" => j <= Home(scopes)
  <1>1. scopes \in Seq(ScopeRecord) /\ Depth = Len(scopes) /\ Depth \in Nat
    BY DEF TypeOK, Depth
  <1>2. \A i \in 1..Len(scopes) :
           /\ scopes[i].home <= i
           /\ \A j \in 1..i : scopes[j].kind = "heap" => j <= scopes[i].home
    BY <1>1 DEF Homes
  <1> QED
    BY <1>1, <1>2, HomeFacts

\* ... and of what is left of it after a pop.
LEMMA HomeOfPopped ==
    ASSUME TypeOK, Homes, Depth > 0
    PROVE  /\ Home(Popped) \in Nat /\ Home(Popped) <= Depth - 1
           /\ \A j \in 1..(Depth - 1) : scopes[j].kind = "heap" => j <= Home(Popped)
  <1>1. \A i \in 1..Len(Popped) :
           /\ Popped[i].home <= i
           /\ \A j \in 1..i : Popped[j].kind = "heap" => j <= Popped[i].home
    BY PoppedFacts DEF Homes
  <1> QED
    BY <1>1, PoppedFacts, HomeFacts

-----------------------------------------------------------------------------
(* What each kind of step does to the inductive invariant.                 *)

\* A block at or above the heap pointer, with the pointer moved to its end.
HeapBlockAdded(lo, hi, until, kind) ==
    /\ lo \in Nat /\ hi \in Nat /\ heapPtr <= lo /\ lo < hi /\ heapPtr' = hi
    /\ until \in {Home(scopes), Depth} /\ kind \in {"bytes", "list"}
    /\ pages' \in Nat /\ pages <= pages' /\ pages' <= MaxPages
    /\ kind = "bytes" => hi <= Bytes(pages')
    /\ blocks' = blocks \cup {Block(lo, hi, until, kind)}
    /\ allocations' \in Nat
    /\ last' \in ResultRecord
    /\ transientPtr' = transientPtr /\ scopes' = scopes

\* A new block at or above the heap pointer, inside memory and inside the
\* program's scopes, keeps the invariant.
LEMMA HeapAllocation ==
    ASSUME Inductive, NEW lo \in Nat, NEW hi \in Nat, NEW until \in Nat,
           NEW kind \in {"bytes", "list"},
           HeapBlockAdded(lo, hi, until, kind)
    PROVE  Inductive'
  <1> DEFINE c == Block(lo, hi, until, kind)
  <1> USE DEF Inductive
  <1>1. /\ Home(scopes) \in Nat /\ Home(scopes) <= Depth /\ Depth \in Nat
        /\ \A j \in 1..Depth : scopes[j].kind = "heap" => j <= Home(scopes)
    BY HomeOfStack
  <1>2. c \in BlockRecord /\ until \in Nat /\ until <= Depth /\ c.lo = lo /\ c.hi = hi
        /\ c.until = until /\ c.kind = kind /\ until \in {Home(scopes), Depth}
    BY <1>1 DEF Block, BlockRecord, HeapBlockAdded
  <1>3. /\ heapPtr <= lo /\ lo < hi /\ heapPtr' = hi
        /\ transientPtr' = transientPtr /\ scopes' = scopes
        /\ pages' \in Nat /\ pages <= pages' /\ pages' <= MaxPages
        /\ kind = "bytes" => hi <= Bytes(pages')
        /\ blocks' = blocks \cup {c}
        /\ allocations' \in Nat /\ last' \in ResultRecord
    BY DEF HeapBlockAdded
  <1>0. Depth' = Depth /\ hi > PoolEnd
    BY <1>3, Types, LayoutFacts DEF Depth, PoolReserved
  <1> HIDE DEF c
  <1>4. TypeOK'
    BY <1>0, <1>2, <1>3, LayoutFacts DEF TypeOK
  <1>5. PoolReserved'
    BY <1>0, <1>2, <1>3, Types, LayoutFacts DEF PoolReserved
  <1>6. MarksNested'
    BY <1>0, <1>3, Types DEF MarksNested
  <1>7. Homes'
    BY <1>0, <1>3 DEF Homes
  <1>8. Regions'
    <2>1. \A i \in 1..Depth : scopes[i].kind = "heap" =>
             ~(until < i) /\ scopes[i].mark <= lo
      BY <1>1, <1>2, <1>3, Types DEF MarksNested
    <2> QED
      BY <2>1, <1>0, <1>2, <1>3, Types, LayoutFacts DEF Regions, Pooled
  <1>9. RegionSafe'
    <2>1. \A a \in blocks : a.hi <= lo
      BY <1>3, Types, LayoutFacts DEF PoolReserved
    <2> QED
      BY <2>1, <1>2, <1>3 DEF RegionSafe, Disjoint
  <1>10. BytesBacked'
    <2>1. Bytes(pages) \in Nat /\ Bytes(pages') \in Nat /\ Bytes(pages) <= Bytes(pages')
      BY <1>3, Types, BytesMonotone
    <2> QED
      BY <2>1, <1>2, <1>3, Types DEF BytesBacked, MemoryBytes
  <1> QED
    BY <1>4, <1>5, <1>6, <1>7, <1>8, <1>9, <1>10

\* A block at the pool's pointer that ends inside the pool.
LEMMA PoolAllocation ==
    ASSUME Inductive,
           NEW end \in Nat, transientPtr < end, end <= PoolEnd,
           transientPtr' = end,
           blocks' = blocks \cup {Block(transientPtr, end, Depth, "bytes")},
           allocations' \in Nat, last' \in ResultRecord,
           UNCHANGED <<heapPtr, pages, scopes>>
    PROVE  Inductive'
  <1> DEFINE c == Block(transientPtr, end, Depth, "bytes")
  <1> USE DEF Inductive
  <1>1. c \in BlockRecord /\ Depth \in Nat /\ c.lo = transientPtr /\ c.hi = end
        /\ c.until = Depth /\ c.kind = "bytes"
    BY DEF Block, BlockRecord, TypeOK, Depth
  <1>2. Depth' = Depth /\ blocks' = blocks \cup {c}
    BY DEF Depth
  <1> HIDE DEF c
  <1>4. TypeOK'
    BY <1>1, <1>2 DEF TypeOK
  <1>5. PoolReserved'
    BY <1>1, <1>2, LayoutFacts DEF PoolReserved, TypeOK, BlockRecord
  <1>6. MarksNested'
    BY <1>2, Types DEF MarksNested
  <1>7. Homes'
    BY <1>2 DEF Homes
  <1>8. Regions'
    <2>1. Pooled(c) /\ c.lo < c.hi
      BY <1>1 DEF Pooled
    <2>2. \A i \in 1..Depth : ~(c.until < i)
      BY <1>1
    <2> QED
      BY <2>1, <2>2, <1>2 DEF Regions, Pooled
  <1>9. RegionSafe'
    <2>1. \A a \in blocks : a.hi <= transientPtr \/ end <= a.lo
      BY LayoutFacts DEF PoolReserved, TypeOK, BlockRecord
    <2> QED
      BY <2>1, <1>1, <1>2 DEF RegionSafe, Disjoint
  <1>10. BytesBacked'
    <2>0. pages \in Nat /\ InitialPages <= pages
      BY LayoutFacts DEF TypeOK
    <2>1. Bytes(pages) \in Nat /\ PoolEnd <= Bytes(pages)
      BY <2>0, LayoutFacts, BytesMonotone
    <2>2. MemoryBytes' = MemoryBytes /\ end <= MemoryBytes
      BY <2>1, LayoutFacts DEF MemoryBytes
    <2> QED
      BY <2>2, <1>1, <1>2 DEF BytesBacked
  <1> QED
    BY <1>4, <1>5, <1>6, <1>7, <1>8, <1>9, <1>10

\* A refused allocation or a trap, which at most moves the heap pointer up.
LEMMA NothingMoves ==
    ASSUME Inductive,
           heapPtr' \in Nat, heapPtr <= heapPtr', allocations' \in Nat,
           last' \in ResultRecord,
           UNCHANGED <<transientPtr, pages, scopes, blocks>>
    PROVE  Inductive'
  <1> USE DEF Inductive
  <1>1. Depth' = Depth
    BY DEF Depth
  <1>4. TypeOK'
    BY <1>1 DEF TypeOK
  <1>5. PoolReserved'
    BY LayoutFacts DEF PoolReserved, TypeOK, BlockRecord
  <1>6. MarksNested'
    BY <1>1, Types DEF MarksNested
  <1>7. Homes' /\ Regions' /\ RegionSafe' /\ BytesBacked'
    BY <1>1 DEF Homes, Regions, RegionSafe, BytesBacked, MemoryBytes
  <1> QED
    BY <1>4, <1>5, <1>6, <1>7

\* A scope of either kind, with the mark and the home that Open gives it.
LEMMA Opening ==
    ASSUME Inductive,
           NEW kind \in {"heap", "transient"}, NEW mark \in Nat, NEW home \in Nat,
           mark = IF kind = "heap" THEN heapPtr ELSE transientPtr,
           home = IF kind = "heap" THEN Depth + 1 ELSE Home(scopes),
           Open(kind, mark, home)
    PROVE  Inductive'
  <1> DEFINE r == [kind |-> kind, mark |-> mark, home |-> home]
  <1> USE DEF Inductive
  <1>1. /\ r \in ScopeRecord /\ r.kind = kind /\ r.mark = mark /\ r.home = home
        /\ scopes \in Seq(ScopeRecord) /\ scopes' = Append(scopes, r)
        /\ Depth = Len(scopes) /\ Depth \in Nat
    BY DEF ScopeRecord, Open, TypeOK, Depth
  <1> HIDE DEF r
  <1>2. /\ scopes' \in Seq(ScopeRecord) /\ Depth' = Depth + 1
        /\ \A i \in 1..Depth : scopes'[i] = scopes[i]
        /\ scopes'[Depth + 1] = r
    BY <1>1, AppendProperties DEF Depth
  <1>3. /\ Home(scopes) \in Nat /\ Home(scopes) <= Depth
        /\ \A j \in 1..Depth : scopes[j].kind = "heap" => j <= Home(scopes)
    BY HomeOfStack
  <1>4. last' \in ResultRecord
        /\ UNCHANGED <<heapPtr, transientPtr, pages, blocks, allocations>>
    BY DEF Open, Result, ResultRecord, Ops
  <1>5. TypeOK'
    BY <1>1, <1>2, <1>4, Types DEF TypeOK
  <1>6. PoolReserved' /\ RegionSafe' /\ BytesBacked'
    BY <1>4 DEF PoolReserved, RegionSafe, BytesBacked, MemoryBytes
  <1>7. MarksNested'
    <2>1. ASSUME NEW i \in 1..(Depth + 1), NEW j \in 1..(Depth + 1), i <= j,
                 scopes'[i].kind = scopes'[j].kind
          PROVE  /\ scopes'[i].mark <= scopes'[j].mark
                 /\ scopes'[j].mark <= (IF scopes'[j].kind = "heap"
                                        THEN heapPtr ELSE transientPtr)
      <3>1. CASE j \in 1..Depth
        BY <2>1, <3>1, <1>1, <1>2 DEF MarksNested
      <3>2. CASE j = Depth + 1 /\ i = Depth + 1
        BY <3>2, <1>1, <1>2, Types
      <3>3. CASE j = Depth + 1 /\ i \in 1..Depth
        BY <2>1, <3>3, <1>1, <1>2, Types DEF MarksNested
      <3> QED
        BY <1>1, <3>1, <3>2, <3>3
    <2> QED
      BY <2>1, <1>2, <1>4 DEF MarksNested
  <1>8. Homes'
    <2>1. ASSUME NEW i \in 1..(Depth + 1)
          PROVE  /\ scopes'[i].home <= i
                 /\ \A j \in 1..i : scopes'[j].kind = "heap" => j <= scopes'[i].home
                 /\ scopes'[i].kind = "heap" => scopes'[i].mark >= PoolEnd
                 /\ scopes'[i].kind = "transient" => scopes'[i].mark >= PoolBase
      <3>1. CASE i \in 1..Depth
        BY <3>1, <1>1, <1>2 DEF Homes
      <3>2. CASE i = Depth + 1
        BY <3>2, <1>1, <1>2, <1>3 DEF PoolReserved
      <3> QED
        BY <1>1, <3>1, <3>2
    <2> QED
      BY <2>1, <1>2 DEF Homes
  <1>9. Regions'
    <2>1. \A b \in blocks : b.until \in Nat /\ b.until < Depth + 1
      BY <1>1, Types DEF TypeOK
    <2>2. \A b \in blocks : IF Pooled(b) THEN b.hi <= transientPtr ELSE b.hi <= heapPtr
      BY Types, LayoutFacts DEF PoolReserved, Pooled, Regions
    <2>3. ASSUME NEW b \in blocks, NEW i \in 1..(Depth + 1)
          PROVE  /\ scopes'[i].kind = "heap" /\ ~Pooled(b) =>
                       IF b.until < i THEN b.hi <= scopes'[i].mark
                                      ELSE b.lo >= scopes'[i].mark
                 /\ scopes'[i].kind = "transient" /\ Pooled(b) /\ b.until < i =>
                       b.hi <= scopes'[i].mark
      <3>1. CASE i \in 1..Depth
        BY <3>1, <1>2 DEF Regions
      <3>2. CASE i = Depth + 1
        BY <3>2, <2>1, <2>2, <1>1, <1>2
      <3> QED
        BY <1>1, <3>1, <3>2
    <2> QED
      BY <2>3, <1>2, <1>4 DEF Regions, Pooled
  <1> QED
    BY <1>5, <1>6, <1>7, <1>8, <1>9

\* The innermost scope closes, and at most one string is kept at its mark.
\* Marks and surviving blocks lie below the pointers that remain.
LEMMA Closing ==
    ASSUME Inductive, Depth > 0, NEW kept,
           kept = {} \/ kept = {Block(scopes[Depth].mark, heapPtr', Home(Popped), "bytes")},
           kept # {} => /\ scopes[Depth].kind = "heap"
                        /\ scopes[Depth].mark < heapPtr'
                        /\ heapPtr' <= Bytes(pages),
           scopes' = Popped, blocks' = Survives \cup kept,
           IF scopes[Depth].kind = "heap"
           THEN /\ heapPtr' \in Nat /\ scopes[Depth].mark <= heapPtr'
                /\ transientPtr' = transientPtr
           ELSE /\ heapPtr' = heapPtr
                /\ transientPtr' \in {transientPtr, scopes[Depth].mark},
           pages' = pages, allocations' \in Nat,
           last' \in ResultRecord
    PROVE  Inductive'
  <1> DEFINE mark == scopes[Depth].mark
  <1> USE DEF Inductive
  <1>1. /\ Depth \in Nat /\ Depth' = Depth - 1 /\ scopes' \in Seq(ScopeRecord)
        /\ \A i \in 1..(Depth - 1) : scopes'[i] = scopes[i]
        /\ Depth \in 1..Depth
        /\ mark \in Nat /\ scopes[Depth].kind \in {"heap", "transient"}
    BY PoppedFacts, Types DEF Depth
  <1>2. /\ Home(Popped) \in Nat /\ Home(Popped) <= Depth - 1
        /\ \A j \in 1..(Depth - 1) : scopes[j].kind = "heap" => j <= Home(Popped)
    BY HomeOfPopped
  <1>3. \A c \in kept : /\ c \in BlockRecord /\ c.lo = mark /\ c.hi = heapPtr'
                        /\ c.until = Home(Popped) /\ c.kind = "bytes"
    BY <1>1, <1>2 DEF Block, BlockRecord
  <1>4. ASSUME NEW b \in Survives
        PROVE  /\ b \in blocks /\ b \in BlockRecord /\ b.until <= Depth - 1
               /\ b.lo \in Nat /\ b.hi \in Nat /\ b.until \in Nat
               /\ ~Pooled(b) /\ scopes[Depth].kind = "heap" => b.hi <= mark
               /\ Pooled(b) /\ scopes[Depth].kind = "transient" => b.hi <= mark
    <2>1. b \in blocks /\ b \in BlockRecord /\ b.until < Depth
      BY <1>4 DEF Survives, TypeOK
    <2>2. b.lo \in Nat /\ b.hi \in Nat /\ b.until \in Nat
      BY <2>1, Types
    <2>3. b.until <= Depth - 1
      BY <1>1, <2>1, <2>2
    <2> QED
      BY <1>1, <2>1, <2>2, <2>3 DEF Regions
  <1>5. /\ scopes[Depth].kind = "heap" => mark >= PoolEnd
        /\ scopes[Depth].kind = "transient" => mark >= PoolBase /\ mark <= transientPtr
    BY <1>1 DEF Homes, MarksNested
  <1> HIDE DEF mark
  <1>6. heapPtr' \in Nat /\ transientPtr' \in Nat /\ heapPtr' >= PoolEnd
        /\ transientPtr' >= PoolBase /\ transientPtr' <= PoolEnd
    BY <1>1, <1>5, Types, LayoutFacts DEF PoolReserved, mark
  <1>7. TypeOK'
    BY <1>1, <1>2, <1>3, <1>4, <1>6 DEF TypeOK
  <1>8. PoolReserved'
    <2>1. ASSUME NEW b \in Survives
          PROVE  \/ PoolBase <= b.lo /\ b.hi <= transientPtr'
                 \/ PoolEnd <= b.lo /\ b.hi <= heapPtr'
      <3>1. b.lo < b.hi
        BY <1>4 DEF Regions
      <3>2. CASE b.hi <= transientPtr /\ PoolBase <= b.lo
        <4>1. Pooled(b)
          BY <1>4, <3>2, Types, LayoutFacts DEF PoolReserved, Pooled
        <4> QED
          BY <1>1, <1>4, <3>2, <4>1 DEF mark
      <3>3. CASE PoolEnd <= b.lo /\ b.hi <= heapPtr
        <4>1. ~Pooled(b)
          BY <1>4, <3>1, <3>3, LayoutFacts DEF Pooled
        <4> QED
          BY <1>1, <1>4, <3>3, <4>1, <1>6 DEF mark
      <3> QED
        BY <1>4, <3>2, <3>3 DEF PoolReserved
    <2>2. \A c \in kept : PoolEnd <= c.lo /\ c.hi <= heapPtr'
      BY <1>1, <1>3, <1>5, <1>6
    <2> QED
      BY <2>1, <2>2, <1>6 DEF PoolReserved
  <1>9. MarksNested'
    <2>1. ASSUME NEW i \in 1..(Depth - 1), NEW j \in 1..(Depth - 1), i <= j,
                 scopes[i].kind = scopes[j].kind
          PROVE  /\ scopes[i].mark <= scopes[j].mark
                 /\ scopes[j].mark <= (IF scopes[j].kind = "heap"
                                        THEN heapPtr' ELSE transientPtr')
      BY <1>1, <2>1, Types DEF MarksNested, mark
    <2> QED
      BY <2>1, <1>1 DEF MarksNested
  <1>10. Homes'
    BY <1>1 DEF Homes
  <1>11. Regions'
    <2>1. ASSUME NEW b \in Survives, NEW i \in 1..(Depth - 1)
          PROVE  /\ b.lo < b.hi
                 /\ scopes[i].kind = "heap" /\ ~Pooled(b) =>
                       IF b.until < i THEN b.hi <= scopes[i].mark
                                      ELSE b.lo >= scopes[i].mark
                 /\ scopes[i].kind = "transient" /\ Pooled(b) /\ b.until < i =>
                       b.hi <= scopes[i].mark
      BY <1>1, <1>4 DEF Regions
    <2>2. ASSUME NEW c \in kept, NEW i \in 1..(Depth - 1)
          PROVE  /\ c.lo < c.hi /\ ~Pooled(c)
                 /\ scopes[i].kind = "heap" => ~(c.until < i) /\ c.lo >= scopes[i].mark
      <3>1. scopes[Depth].kind = "heap" /\ mark < heapPtr'
        BY DEF mark
      <3>2. c.lo < c.hi /\ ~Pooled(c)
        BY <1>1, <1>3, <1>5, <1>6, <3>1, LayoutFacts DEF Pooled
      <3>3. scopes[i].kind = "heap" => scopes[i].mark <= mark /\ i <= Home(Popped)
        BY <1>1, <1>2, <3>1 DEF MarksNested, mark
      <3> QED
        BY <1>1, <1>2, <1>3, <3>2, <3>3, Types
    <2>3. (\A b \in Survives : b.lo < b.hi) /\ (\A c \in kept : c.lo < c.hi)
      BY <1>3, <1>4 DEF Regions, mark
    <2> QED
      BY <2>1, <2>2, <2>3, <1>1 DEF Regions, Pooled
  <1>12. RegionSafe'
    <2>1. \A a \in Survives : \A c \in kept : a.hi <= c.lo
      BY <1>1, <1>3, <1>4, <1>5, LayoutFacts DEF Pooled, mark
    <2>2. \A c, d \in kept : c = d
      OBVIOUS
    <2> QED
      BY <2>1, <2>2, <1>4 DEF RegionSafe, Disjoint
  <1>13. BytesBacked'
    BY <1>3, <1>4 DEF BytesBacked, MemoryBytes
  <1> QED
    BY <1>7, <1>8, <1>9, <1>10, <1>11, <1>12, <1>13

-----------------------------------------------------------------------------
(* The steps of the specification.                                         *)

\* __malloc and the spill of the pool, whatever the size.
LEMMA MallocPreserves ==
    ASSUME Inductive, NEW op \in Ops, NEW size \in Nat \ {0}, NEW until,
           until \in {Home(scopes), Depth},
           MallocStep(op, size, until), UNCHANGED <<transientPtr, scopes>>
    PROVE  Inductive'
  <1> DEFINE ptr == AlignUp(heapPtr)
             end == ptr + AlignUp(size)
  <1>1. heapPtr \in Nat /\ pages \in Nat /\ pages <= MaxPages /\ allocations \in Nat
    BY DEF Inductive, TypeOK
  <1>2. /\ ptr \in Nat /\ end \in Nat /\ heapPtr <= ptr /\ ptr < end
    BY <1>1, AlignUpBounds
  <1>3. CASE Available(end) /\ Bump(ptr, end, until, "bytes") /\ last' = Result(op, ptr, 0, size)
    <2>1. /\ pages' \in Nat /\ pages <= pages' /\ pages' <= MaxPages
          /\ end <= Bytes(pages')
      BY <1>1, <1>2, <1>3, GrowthSuffices, BytesMonotone DEF Available, Bump, MemoryBytes
    <2>2. allocations' \in Nat /\ last' \in ResultRecord
      BY <1>1, <1>2, <1>3 DEF Bump, Live, Result, ResultRecord
    <2>3. HeapBlockAdded(ptr, end, until, "bytes")
      BY <1>2, <1>3, <2>1, <2>2 DEF Bump, Live, HeapBlockAdded
    <2>4. Home(scopes) \in Nat /\ Depth \in Nat
      BY HomeOfStack DEF Inductive
    <2> QED
      BY <1>1, <1>2, <1>3, <2>3, <2>4, HeapAllocation
  <1>4. CASE last' = Result(op, 0, 0, size) /\ NoneLive /\ UNCHANGED <<heapPtr, pages>>
    <2>1. last' \in ResultRecord
      BY <1>4 DEF Result, ResultRecord
    <2> QED
      BY <1>1, <1>4, <2>1, NothingMoves DEF NoneLive
  <1> QED
    BY <1>3, <1>4 DEF MallocStep

\* A list literal, placed or trapping.
LEMMA ListAllocatePreserves ==
    ASSUME Inductive, NEW capacity \in Capacities, ListAllocate(capacity)
    PROVE  Inductive'
  <1> DEFINE end == heapPtr + 16 + capacity * 4
  <1>1. /\ heapPtr \in Nat /\ capacity \in Nat /\ end \in Nat /\ heapPtr < end
        /\ pages \in Nat /\ pages <= MaxPages /\ allocations \in Nat
    BY TierAssumption DEF Inductive, TypeOK
  <1>2. heapPtr' = end /\ UNCHANGED <<transientPtr, pages, scopes>>
    BY DEF ListAllocate
  <1>3. CASE /\ Live(Block(heapPtr, end, Home(scopes), "list"))
             /\ last' = Result("list.allocate", heapPtr, 0, end - heapPtr)
    <2>1. allocations' \in Nat /\ last' \in ResultRecord
      BY <1>1, <1>3 DEF Live, Result, ResultRecord, Ops
    <2>2. blocks' = blocks \cup {Block(heapPtr, end, Home(scopes), "list")}
      BY <1>3 DEF Live
    <2>3. HeapBlockAdded(heapPtr, end, Home(scopes), "list")
      BY <1>1, <1>2, <2>1, <2>2 DEF HeapBlockAdded
    <2>4. Home(scopes) \in Nat /\ Depth \in Nat
      BY HomeOfStack DEF Inductive
    <2> QED
      BY <1>1, <1>2, <1>3, <2>3, <2>4, HeapAllocation
  <1>4. CASE NoneLive /\ last' = Result("trap", heapPtr, 0, end - heapPtr)
    <2>1. last' \in ResultRecord
      BY <1>1, <1>4 DEF Result, ResultRecord, Ops
    <2> QED
      BY <1>1, <1>2, <1>4, <2>1, NothingMoves DEF NoneLive
  <1> QED
    BY <1>3, <1>4 DEF ListAllocate

\* A list that moves to twice its slots.
LEMMA ListGrowPreserves ==
    ASSUME Inductive, NEW full \in blocks, NEW minimum \in {8, 16}, ListGrow(full, minimum)
    PROVE  Inductive'
  <1> DEFINE twice == 2 * ((full.hi - full.lo - 16) \div 4)
             slots == IF twice < minimum THEN minimum ELSE twice
             ptr   == AlignUp(heapPtr)
             end   == ptr + 16 + slots * 4
  <1>1. heapPtr \in Nat /\ pages \in Nat /\ pages <= MaxPages /\ allocations \in Nat
        /\ full.lo \in Nat /\ full.hi \in Nat
    BY Types DEF Inductive, TypeOK
  <1>2. slots \in Nat /\ slots >= 8
    <2>1. twice \in Int
      BY <1>1
    <2> HIDE DEF twice
    <2> QED
      BY <2>1
  <1>3. /\ ptr \in Nat /\ end \in Nat /\ heapPtr <= ptr /\ ptr < end
    <2> HIDE DEF slots
    <2> QED
      BY <1>1, <1>2, AlignUpBounds
  <1>4. \/ /\ Available(end)
           /\ Bump(ptr, end, Home(scopes), "list")
           /\ last' = Result("list.add", ptr, full.lo, end - ptr)
        \/ /\ last' = Result("trap", ptr, full.lo, end - ptr)
           /\ NoneLive /\ UNCHANGED <<heapPtr, pages>>
    BY DEF ListGrow
  <1>5. UNCHANGED <<transientPtr, scopes>>
    BY DEF ListGrow
  <1> HIDE DEF ptr, end
  <1>6. CASE /\ Available(end) /\ Bump(ptr, end, Home(scopes), "list")
             /\ last' = Result("list.add", ptr, full.lo, end - ptr)
    <2>1. /\ pages' \in Nat /\ pages <= pages' /\ pages' <= MaxPages
      BY <1>1, <1>3, <1>6, GrowthSuffices, BytesMonotone DEF Available, Bump, MemoryBytes
    <2>2. allocations' \in Nat /\ last' \in ResultRecord
      BY <1>1, <1>3, <1>6 DEF Bump, Live, Result, ResultRecord, Ops
    <2>3. HeapBlockAdded(ptr, end, Home(scopes), "list")
      BY <1>3, <1>5, <1>6, <2>1, <2>2 DEF Bump, Live, HeapBlockAdded
    <2>4. Home(scopes) \in Nat /\ Depth \in Nat
      BY HomeOfStack DEF Inductive
    <2> QED
      BY <1>1, <1>2, <1>3, <2>3, <2>4, HeapAllocation
  <1>7. CASE last' = Result("trap", ptr, full.lo, end - ptr) /\ NoneLive
             /\ UNCHANGED <<heapPtr, pages>>
    <2>1. last' \in ResultRecord
      BY <1>1, <1>3, <1>7 DEF Result, ResultRecord, Ops
    <2> QED
      BY <1>1, <1>5, <1>7, <2>1, NothingMoves DEF NoneLive
  <1> QED
    BY <1>4, <1>6, <1>7

\* A string of the iteration, in the pool or spilled.
LEMMA TransientAllocPreserves ==
    ASSUME Inductive, NEW size \in Requests, TransientAlloc(size)
    PROVE  Inductive'
  <1> DEFINE end == transientPtr + AlignUp(size)
  <1>1. size \in Nat \ {0} /\ transientPtr \in Nat /\ allocations \in Nat
    BY TierAssumption DEF Inductive, TypeOK
  <1>2. end \in Nat /\ transientPtr < end
    BY <1>1, AlignUpBounds
  <1>3. CASE /\ FitsPool(transientPtr, end) /\ transientPtr' = end
             /\ Live(Block(transientPtr, end, Depth, "bytes"))
             /\ last' = Result("transient", transientPtr, 0, size)
             /\ UNCHANGED <<heapPtr, pages>>
    <2>1. allocations' \in Nat /\ last' \in ResultRecord
      BY <1>1, <1>3 DEF Live, Result, ResultRecord, Ops
    <2>2. UNCHANGED scopes
      BY DEF TransientAlloc
    <2> HIDE DEF end
    <2> QED
      BY <1>2, <1>3, <2>1, <2>2, PoolAllocation DEF Live, FitsPool
  <1>4. CASE MallocStep("spill", size, Depth) /\ UNCHANGED transientPtr
    <2>1. UNCHANGED <<transientPtr, scopes>>
      BY <1>4 DEF TransientAlloc
    <2> QED
      BY <1>1, <1>4, <2>1, MallocPreserves DEF Ops
  <1> QED
    BY <1>3, <1>4 DEF TransientAlloc

\* Plain pops, the pool's exit and the exit that `continue` skips.
LEMMA PlainClosePreserves ==
    ASSUME Inductive, ScopePop \/ TransientScopeExit \/ ContinuePastExit
    PROVE  Inductive'
  <1>1. /\ Depth > 0 /\ scopes' = Popped /\ blocks' = Survives \cup {}
        /\ pages' = pages /\ allocations' = allocations
        /\ last' \in ResultRecord
    BY DEF ScopePop, TransientScopeExit, ContinuePastExit, InScope, Result, ResultRecord, Ops
  <1>2. allocations' \in Nat /\ heapPtr \in Nat /\ scopes[Depth].mark \in Nat
    BY <1>1, Types DEF Inductive, TypeOK
  <1>3. IF scopes[Depth].kind = "heap"
        THEN /\ heapPtr' \in Nat /\ scopes[Depth].mark <= heapPtr'
             /\ transientPtr' = transientPtr
        ELSE /\ heapPtr' = heapPtr
             /\ transientPtr' \in {transientPtr, scopes[Depth].mark}
    BY <1>2 DEF ScopePop, TransientScopeExit, ContinuePastExit, InScope
  <1> DEFINE kept == {}
  <1>4. /\ kept = {} \/ kept = {Block(scopes[Depth].mark, heapPtr', Home(Popped), "bytes")}
        /\ kept # {} => /\ scopes[Depth].kind = "heap"
                        /\ scopes[Depth].mark < heapPtr'
                        /\ heapPtr' <= Bytes(pages)
        /\ blocks' = Survives \cup kept
    BY <1>1
  <1> HIDE DEF kept
  <1>5. /\ Depth > 0 /\ scopes' = Popped /\ pages' = pages /\ allocations' \in Nat
        /\ last' \in ResultRecord
    BY <1>1, <1>2
  <1> QED
    BY <1>3, <1>4, <1>5, Closing

\* The string a program keeps is below the mark, above it, or nowhere near:
\* its bytes exist, and an ascending copy to the mark never reads a byte that
\* the copy has already overwritten.
LEMMA KeeperPlace ==
    ASSUME Inductive, NEW length \in KeeperLengths, ScopePopKeeping(length)
    PROVE  \E src, total \in Nat :
             /\ PopKeeping(src, total) /\ total > 0
             /\ src + total <= Bytes(pages)
             /\ scopes[Depth].mark <= src \/ src + total <= scopes[Depth].mark
  <1>1. length \in Nat
    BY TierAssumption
  <1>2. /\ scopes[Depth].kind = "heap" /\ Depth > 0 /\ Depth \in Nat
        /\ pages \in Nat /\ Bytes(pages) \in Nat
        /\ scopes[Depth].mark \in Nat /\ scopes[Depth].mark >= PoolEnd
        /\ Depth \in 1..Depth /\ PoolEnd <= Bytes(pages)
    <2>1. InScope("heap") /\ TypeOK /\ pages >= InitialPages
      BY DEF ScopePopKeeping, PopKeeping, Inductive, TypeOK
    <2>2. PoolEnd <= Bytes(pages)
      BY <2>1, Types, LayoutFacts, BytesMonotone
    <2> QED
      BY <2>1, <2>2, Types, BytesMonotone DEF InScope, Inductive, Homes
  <1>3. CASE \E b \in blocks, skip \in {0, 4} :
                /\ b.kind = "bytes" /\ b.lo + skip + 4 + length <= b.hi
                /\ PopKeeping(b.lo + skip, 4 + length)
    <2>1. PICK b \in blocks, skip \in {0, 4} :
                /\ b.kind = "bytes" /\ b.lo + skip + 4 + length <= b.hi
                /\ PopKeeping(b.lo + skip, 4 + length)
      BY <1>3
    <2>2. b.lo \in Nat /\ b.hi \in Nat /\ b.hi <= Bytes(pages)
      BY <2>1, Types DEF Inductive, BytesBacked, MemoryBytes
    <2>3. scopes[Depth].mark <= b.lo \/ b.hi <= scopes[Depth].mark
      BY <1>2, <2>2, LayoutFacts DEF Inductive, Regions, Pooled
    <2> DEFINE src   == b.lo + skip
               total == 4 + length
    <2>4. /\ src \in Nat /\ total \in Nat /\ total > 0
          /\ src + total <= Bytes(pages)
          /\ scopes[Depth].mark <= src \/ src + total <= scopes[Depth].mark
      BY <1>1, <1>2, <2>1, <2>2, <2>3
    <2>5. PopKeeping(src, total)
      BY <2>1
    <2> QED
      BY <2>4, <2>5
  <1>4. CASE 4 + length <= StaticEnd /\ PopKeeping(StaticEnd - (4 + length), 4 + length)
    <2> DEFINE src   == StaticEnd - (4 + length)
               total == 4 + length
    <2>1. /\ src \in Nat /\ total \in Nat /\ total > 0
          /\ src + total <= Bytes(pages) /\ src + total <= scopes[Depth].mark
      BY <1>1, <1>2, <1>4, LayoutFacts
    <2>2. PopKeeping(src, total)
      BY <1>4
    <2> QED
      BY <2>1, <2>2
  <1> QED
    BY <1>3, <1>4 DEF ScopePopKeeping

\* A string kept over a pop, whichever string it is.
LEMMA KeepingPreserves ==
    ASSUME Inductive, NEW length \in KeeperLengths, ScopePopKeeping(length)
    PROVE  Inductive' /\ KeeperCopySound'
  <1> DEFINE mark == scopes[Depth].mark
  <1>1. PICK src \in Nat, total \in Nat :
             /\ PopKeeping(src, total) /\ total > 0
             /\ src + total <= Bytes(pages)
             /\ mark <= src \/ src + total <= mark
    BY KeeperPlace
  <1>2. /\ InScope("heap") /\ Depth > 0 /\ scopes[Depth].kind = "heap"
        /\ pages' = pages /\ transientPtr' = transientPtr /\ allocations' = allocations + 1
        /\ mark \in Nat /\ allocations \in Nat /\ pages \in Nat
    BY <1>1, Types DEF PopKeeping, InScope, Inductive, TypeOK
  <1>3. CASE /\ src = mark \/ mark + total <= MemoryBytes
             /\ heapPtr' = mark + total
             /\ blocks' = Survives \cup
                   {Block(mark, mark + total, Home(Popped), "bytes")}
             /\ scopes' = Popped
             /\ last' = Result("scope_pop_keeping", mark, src, total)
    <2>1. last' \in ResultRecord
      BY <1>1, <1>2, <1>3 DEF Result, ResultRecord, Ops
    <2>2. /\ heapPtr' \in Nat /\ mark < heapPtr' /\ heapPtr' <= Bytes(pages)
      BY <1>1, <1>2, <1>3 DEF MemoryBytes
    <2>3. Inductive'
      <3> DEFINE kept == {Block(mark, heapPtr', Home(Popped), "bytes")}
      <3>1. blocks' = Survives \cup kept /\ kept # {}
        BY <1>3
      <3>2. mark <= heapPtr' /\ allocations' \in Nat
        BY <1>2, <2>2
      <3> HIDE DEF kept
      <3>3. kept = {} \/ kept = {Block(scopes[Depth].mark, heapPtr', Home(Popped), "bytes")}
        BY DEF kept
      <3> QED
        BY <1>2, <1>3, <2>1, <2>2, <3>1, <3>2, <3>3, Closing
    <2>4. KeeperCopySound'
      BY <1>1, <1>3 DEF KeeperCopySound, Result
    <2> QED
      BY <2>3, <2>4
  <1>4. CASE /\ last' = Result("trap", mark, src, total)
             /\ UNCHANGED <<heapPtr, blocks, scopes>>
    <2>1. last' \in ResultRecord
      BY <1>1, <1>2, <1>4 DEF Result, ResultRecord, Ops
    <2>2. heapPtr' \in Nat /\ heapPtr <= heapPtr' /\ allocations' \in Nat
      BY <1>2, <1>4, Types DEF Inductive
    <2>3. KeeperCopySound'
      BY <1>4 DEF KeeperCopySound, Result
    <2> QED
      BY <1>2, <1>4, <2>1, <2>2, <2>3, NothingMoves
  <1> QED
    BY <1>1, <1>3, <1>4 DEF PopKeeping

\* Opening a scope of either kind.
LEMMA OpeningPreserves ==
    ASSUME Inductive, ScopePush \/ TransientScopeEnter
    PROVE  Inductive'
  <1>1. Depth \in Nat /\ heapPtr \in Nat /\ transientPtr \in Nat /\ Home(scopes) \in Nat
    BY Types, HomeOfStack DEF Inductive
  <1>2. CASE ScopePush
    BY <1>1, <1>2, Opening DEF ScopePush
  <1>3. CASE TransientScopeEnter
    BY <1>1, <1>3, Opening DEF TransientScopeEnter
  <1> QED
    BY <1>2, <1>3

-----------------------------------------------------------------------------
(* The theorems.                                                           *)

\* The invariant holds of a freshly instantiated module.
LEMMA InitInductive == Init => Inductive /\ KeeperCopySound
  <1> SUFFICES ASSUME Init PROVE Inductive /\ KeeperCopySound
    OBVIOUS
  <1>1. Depth = 0
    BY DEF Init, Depth
  <1>2. TypeOK
    BY <1>1, LayoutFacts DEF Init, TypeOK, Result, ResultRecord, Ops
  <1>3. PoolReserved
    BY LayoutFacts DEF Init, PoolReserved
  <1>4. MarksNested /\ Homes /\ Regions /\ RegionSafe /\ BytesBacked
    BY <1>1 DEF Init, MarksNested, Homes, Regions, RegionSafe, BytesBacked
  <1>5. KeeperCopySound
    BY DEF Init, KeeperCopySound, Result
  <1> QED
    BY <1>2, <1>3, <1>4, <1>5 DEF Inductive

\* Every step keeps the invariant, one case per helper.
LEMMA NextInductive == Inductive /\ KeeperCopySound /\ [Next]_vars => Inductive' /\ KeeperCopySound'
  <1> SUFFICES ASSUME Inductive, KeeperCopySound, [Next]_vars
               PROVE  Inductive' /\ KeeperCopySound'
    OBVIOUS
  <1>1. CASE \E size \in Requests : Malloc(size)
    <2>1. PICK size \in Requests : Malloc(size)
      BY <1>1
    <2>2. MallocStep("malloc", size, Home(scopes)) /\ UNCHANGED <<transientPtr, scopes>>
      BY <2>1 DEF Malloc
    <2>3. Inductive'
      BY <2>2, MallocPreserves, TierAssumption DEF Ops
    <2>4. KeeperCopySound'
      BY <2>2 DEF MallocStep, Result, KeeperCopySound
    <2> QED
      BY <2>3, <2>4
  <1>2. CASE \E capacity \in Capacities : ListAllocate(capacity)
    BY <1>2, ListAllocatePreserves DEF ListAllocate, Result, KeeperCopySound
  <1>3. CASE \E full \in blocks, minimum \in {8, 16} : ListGrow(full, minimum)
    BY <1>3, ListGrowPreserves DEF ListGrow, Result, KeeperCopySound
  <1>4. CASE ScopePush \/ TransientScopeEnter
    BY <1>4, OpeningPreserves
       DEF ScopePush, TransientScopeEnter, Open, Result, KeeperCopySound
  <1>5. CASE ScopePop \/ TransientScopeExit \/ ContinuePastExit
    BY <1>5, PlainClosePreserves
       DEF ScopePop, TransientScopeExit, ContinuePastExit, Result, KeeperCopySound
  <1>6. CASE \E length \in KeeperLengths : ScopePopKeeping(length)
    BY <1>6, KeepingPreserves
  <1>7. CASE \E size \in Requests : TransientAlloc(size)
    <2>1. PICK size \in Requests : TransientAlloc(size)
      BY <1>7
    <2>2. Inductive'
      BY <2>1, TransientAllocPreserves
    <2>3. KeeperCopySound'
      BY <2>1 DEF TransientAlloc, MallocStep, Result, KeeperCopySound
    <2> QED
      BY <2>2, <2>3
  <1>8. CASE UNCHANGED vars
    <2>1. UNCHANGED <<heapPtr, transientPtr, pages, scopes, blocks, allocations, last>>
      BY <1>8 DEF vars
    <2> QED
      BY <2>1 DEF Inductive, TypeOK, PoolReserved, MarksNested, Homes, Regions, RegionSafe,
                  BytesBacked, KeeperCopySound, Depth, MemoryBytes
  <1> QED
    BY <1>1, <1>2, <1>3, <1>4, <1>5, <1>6, <1>7, <1>8 DEF Next

\* Every behaviour of the runtime keeps the inductive invariant.
THEOREM HeapInvariant == Spec => [](Inductive /\ KeeperCopySound)
  BY InitInductive, NextInductive, PTL DEF Spec

\* The runtime's variables keep their types and memory stays within the tier.
THEOREM HeapTypes == Spec => []TypeOK
  BY HeapInvariant, PTL DEF Inductive

\* No two blocks that the program still reads overlap, for every layout, tier
\* and program that brackets its scopes.
THEOREM HeapRegionSafe == Spec => []RegionSafe
  BY HeapInvariant, PTL DEF Inductive

\* Neither a rewind of the heap nor a reset of the pool crosses the boundary
\* between them.
THEOREM HeapPoolReserved == Spec => []PoolReserved
  BY HeapInvariant, PTL DEF Inductive

\* The ascending copy of scope_pop_keeping never overwrites what it has yet
\* to read, also when the keeper is older than the mark.
THEOREM HeapKeeperCopySound == Spec => []KeeperCopySound
  BY HeapInvariant, PTL

\* Every string and builder lies in memory that exists.
THEOREM HeapBytesBacked == Spec => []BytesBacked
  BY HeapInvariant, PTL DEF Inductive

\* The marks of the open scopes are in nesting order.
THEOREM HeapMarksNested == Spec => []MarksNested
  BY HeapInvariant, PTL DEF Inductive

=============================================================================
