------------------------- MODULE ModuleGraphProofs --------------------------
(***************************************************************************)
(* ModuleGraph implements BuildPlan, for every project: what is rejected   *)
(* has a missing import or a cycle, and an order that is returned holds    *)
(* every module once, imports first and the entry last.                    *)
(*                                                                         *)
(* The first part is the discovery of modules and the search for cycles:   *)
(* the cycle that is shown is one, and once the search has found none      *)
(* nothing imports the entry.  Acyclic is said without paths: every set of *)
(* nodes that is not empty has a node that imports none of the set.  The   *)
(* nodes the search has finished import finished nodes only, so that one   *)
(* more node, all of whose imports are finished, keeps the set acyclic,    *)
(* and no induction is needed.                                             *)
(*                                                                         *)
(* The second part is the plan.  Read says what discovery knows, and once  *)
(* it is over the edges are the imports of the files the entry leads to.   *)
(* Sorted says that importers are sorted before what they import and that  *)
(* degrees are exact; when the queue runs dry, the nodes left over would   *)
(* each be imported by another of them, which an acyclic graph with        *)
(* finitely many nodes rules out.                                          *)
(***************************************************************************)
EXTENDS ModuleGraph, SequenceTheorems, FiniteSetTheorems, TLAPS

Deps(f) == ToSet(dependencies[f])

Typed ==
  /\ imports \in [Files -> Seq(Files \cup {Missing})]
  /\ \A f \in Files : Len(imports[f]) <= MaxPerFile
  /\ shared \subseteq Files
  /\ phase \in {"discover", "search", "sort"} \cup Final
  /\ nodes \subseteq Files /\ Entry \in nodes
  /\ toProcess \in Seq(Files) /\ processed \subseteq nodes
  /\ current \in nodes /\ unread \in Seq(Files \cup {Missing})
  /\ dependencies \in [Files -> Seq(Files)]
  /\ unresolved \in BOOLEAN
  /\ visited \subseteq nodes /\ recStack \subseteq visited
  /\ path \in Seq(Files) /\ cycle \in Seq(Files) /\ ToSet(cycle) \subseteq nodes
  /\ cursor \in [Files -> Nat \ {0}]

\* A set of files that holds the entry and what its members import.
Spanning(C) == C \subseteq Files /\ Entry \in C /\ \A f \in C : Deps(f) \subseteq C

\* The edges are imports between nodes; a node with edges is one the entry leads to.
Edges ==
  /\ ToSet(toProcess) \subseteq nodes
  /\ ToSet(unread) \subseteq ToSet(imports[current])
  /\ \A f \in Files :
       /\ Deps(f) \subseteq ToSet(imports[f]) \cap nodes
       /\ Deps(f) # {} => f \in nodes
  /\ \A C : Spanning(C) =>
       /\ phase = "discover" => nodes \subseteq C
       /\ \A f \in Files : Deps(f) # {} => f \in C

Acyclic(S) == \A T \in SUBSET S : T # {} => \E f \in T : Deps(f) \cap T = {}

Finished == visited \ recStack

\* The path is the recursion stack, in the order of the imports followed.
Path ==
  /\ ToSet(path) = recStack
  /\ \A i, j \in 1..Len(path) : path[i] = path[j] => i = j
  /\ \A i \in 1..(Len(path) - 1) : path[i + 1] \in Deps(path[i])

\* What has been finished is closed and acyclic; the imports of a node on the path
\* that were passed are finished, or next on the path.
Searched ==
  /\ \A f \in Finished : Deps(f) \subseteq Finished
  /\ Acyclic(Finished)
  /\ \A f \in Files \ visited : cursor[f] = 1
  /\ phase = "search" =>
       \A i \in 1..Len(path) : \A k \in 1..Len(dependencies[path[i]]) :
         k < cursor[path[i]] =>
           \/ dependencies[path[i]][k] \in Finished
           \/ i < Len(path) /\ dependencies[path[i]][k] = path[i + 1]
  /\ phase = "discover" => visited = {}
  /\ phase \in {"sort", "unsorted", "ordered"} => path = <<>> /\ visited = nodes

Inductive == Typed /\ Edges /\ Path /\ Searched /\ CycleShown

USE FilesAssumption, FoldersAssumption, BoundAssumption

-----------------------------------------------------------------------------
\* The elements of a sequence.
LEMMA Elements ==
  ASSUME NEW S, NEW s \in Seq(S)
  PROVE  /\ ToSet(s) \subseteq S
         /\ \A x : x \in ToSet(s) <=> \E i \in 1..Len(s) : s[i] = x
         /\ s = <<>> <=> ToSet(s) = {}
BY DEF ToSet

\* The elements of a sequence that is one longer.
LEMMA AppendElements ==
  ASSUME NEW S, NEW s \in Seq(S), NEW e \in S
  PROVE  /\ Append(s, e) \in Seq(S)
         /\ ToSet(Append(s, e)) = ToSet(s) \cup {e}
         /\ Len(Append(s, e)) = Len(s) + 1
         /\ \A i \in 1..Len(s) : Append(s, e)[i] = s[i]
         /\ Append(s, e)[Len(s) + 1] = e
         /\ Last(Append(s, e)) = e
<1>1. /\ Append(s, e) \in Seq(S)
      /\ Len(Append(s, e)) = Len(s) + 1
      /\ \A i \in 1..Len(s) : Append(s, e)[i] = s[i]
      /\ Append(s, e)[Len(s) + 1] = e
      /\ Len(s) \in Nat
  BY AppendProperties, LenProperties
<1>2. \A x : x \in ToSet(Append(s, e)) <=> \E i \in 1..(Len(s) + 1) : Append(s, e)[i] = x
  BY <1>1, Elements
<1>3. \A x : x \in ToSet(s) <=> \E i \in 1..Len(s) : s[i] = x
  BY Elements
<1>4. ASSUME NEW x \in ToSet(Append(s, e)) PROVE x \in ToSet(s) \cup {e}
  BY <1>1, <1>2, <1>3
<1>5. ASSUME NEW x \in ToSet(s) \cup {e} PROVE x \in ToSet(Append(s, e))
  <2>1. CASE x = e
    BY <1>1, <1>2, <2>1
  <2>2. CASE x # e
    <3>1. PICK i \in 1..Len(s) : s[i] = x
      BY <1>3, <2>2
    <3>2. i \in 1..(Len(s) + 1) /\ Append(s, e)[i] = x
      BY <1>1, <3>1
    <3> QED
      BY <1>2, <3>2
  <2> QED
    BY <2>1, <2>2
<1>6. ToSet(Append(s, e)) = ToSet(s) \cup {e}
  BY <1>4, <1>5
<1> QED
  BY <1>1, <1>6 DEF Last

\* The first elements of a sequence, and what is left without its first.
LEMMA FrontAndTail ==
  ASSUME NEW S, NEW s \in Seq(S), s # <<>>
  PROVE  /\ Front(s) \in Seq(S) /\ Len(Front(s)) = Len(s) - 1
         /\ \A i \in 1..(Len(s) - 1) : Front(s)[i] = s[i]
         /\ Len(s) \in Nat \ {0} /\ Last(s) \in S /\ Last(s) = s[Len(s)]
         /\ ToSet(s) = ToSet(Front(s)) \cup {Last(s)}
         /\ Head(s) = s[1] /\ Head(s) \in S
         /\ Tail(s) \in Seq(S) /\ Len(Tail(s)) = Len(s) - 1
         /\ \A i \in 1..(Len(s) - 1) : Tail(s)[i] = s[i + 1]
         /\ ToSet(s) = ToSet(Tail(s)) \cup {Head(s)}
<1>1. Len(s) \in Nat \ {0}
  BY EmptySeq
<1>2. \A i \in 1..(Len(s) - 1) : s[i] \in S
  BY <1>1
<1>3. /\ Front(s) \in Seq(S) /\ Len(Front(s)) = Len(s) - 1
      /\ \A i \in 1..(Len(s) - 1) : Front(s)[i] = s[i]
  <2> DEFINE front == SubSeq(s, 1, Len(s) - 1)
  <2>1. /\ front \in Seq(S)
        /\ Len(front) = IF 1 <= Len(s) - 1 THEN (Len(s) - 1) - 1 + 1 ELSE 0
        /\ \A i \in 1..((Len(s) - 1) - 1 + 1) : front[i] = s[1 + i - 1]
    BY <1>1, <1>2, SubSeqProperties
  <2>2. front = Front(s)
    BY Zenon DEF Front
  <2> HIDE DEF front
  <2>3. \A i \in 1..(Len(s) - 1) : i \in 1..((Len(s) - 1) - 1 + 1) /\ 1 + i - 1 = i
    BY <1>1
  <2>4. \A i \in 1..(Len(s) - 1) : front[i] = s[i]
    BY <2>1, <2>3
  <2>5. Len(front) = Len(s) - 1
    <3>1. \A n \in Nat : n # 0 => (IF 1 <= n - 1 THEN (n - 1) - 1 + 1 ELSE 0) = n - 1
      OBVIOUS
    <3> QED
      BY <1>1, <2>1, <3>1
  <2> QED
    BY <2>1, <2>2, <2>4, <2>5
<1>4. /\ Head(s) = s[1] /\ Head(s) \in S
      /\ Tail(s) \in Seq(S) /\ Len(Tail(s)) = Len(s) - 1
      /\ \A i \in 1..(Len(s) - 1) : Tail(s)[i] = s[i + 1]
  BY <1>1, HeadTailProperties
<1>5. \A x : x \in ToSet(s) <=> \E i \in 1..Len(s) : s[i] = x
  BY Elements
<1>6. ToSet(s) = ToSet(Front(s)) \cup {Last(s)}
  <2>1. \A x : x \in ToSet(Front(s)) <=> \E i \in 1..(Len(s) - 1) : Front(s)[i] = x
    BY <1>3, Elements
  <2>2. \A x : (\E i \in 1..Len(s) : s[i] = x) <=> (\E i \in 1..(Len(s) - 1) : s[i] = x) \/ x = s[Len(s)]
    BY <1>1
  <2> QED
    BY <1>3, <1>5, <2>1, <2>2 DEF Last
<1>7. ToSet(s) = ToSet(Tail(s)) \cup {Head(s)}
  <2>1. \A x : x \in ToSet(Tail(s)) <=> \E i \in 1..(Len(s) - 1) : Tail(s)[i] = x
    BY <1>4, Elements
  <2>2. ASSUME NEW x, x \in ToSet(s), x # s[1] PROVE x \in ToSet(Tail(s))
    <3>1. PICK i \in 1..Len(s) : s[i] = x
      BY <1>5, <2>2
    <3>2. i - 1 \in 1..(Len(s) - 1) /\ Tail(s)[i - 1] = x
      BY <1>1, <1>4, <2>2, <3>1
    <3> QED
      BY <2>1, <3>2
  <2>3. ASSUME NEW x, x \in ToSet(Tail(s)) PROVE x \in ToSet(s)
    <3>1. PICK i \in 1..(Len(s) - 1) : Tail(s)[i] = x
      BY <2>1, <2>3
    <3>2. i + 1 \in 1..Len(s) /\ s[i + 1] = x
      BY <1>1, <1>4, <3>1
    <3> QED
      BY <1>5, <3>2
  <2>4. s[1] \in ToSet(s)
    BY <1>1, <1>5
  <2> QED
    BY <1>4, <2>2, <2>3, <2>4
<1> QED
  BY <1>1, <1>3, <1>4, <1>6, <1>7 DEF Last

-----------------------------------------------------------------------------
\* The edges of a node, as the indices of its imports.
LEMMA DepsIndexed ==
  ASSUME Typed, NEW f \in Files
  PROVE  /\ dependencies[f] \in Seq(Files) /\ Len(dependencies[f]) \in Nat
         /\ \A x : x \in Deps(f) <=> \E k \in 1..Len(dependencies[f]) : dependencies[f][k] = x
<1>1. dependencies[f] \in Seq(Files)
  BY DEF Typed
<1> QED
  BY <1>1, Elements, LenProperties DEF Deps

LEMMA InitInductive == Init => Inductive
<1> SUFFICES ASSUME Init PROVE Inductive
  OBVIOUS
<1>1. imports \in [Files -> Seq(Files \cup {Missing})] /\ \A f \in Files : Len(imports[f]) <= MaxPerFile
  <2>1. imports \in [Files -> SeqOf(Files \cup {Missing}, MaxPerFile)]
    BY DEF Init, Projects
  <2>2. ASSUME NEW s \in SeqOf(Files \cup {Missing}, MaxPerFile)
        PROVE  s \in Seq(Files \cup {Missing}) /\ Len(s) <= MaxPerFile
    <3>1. PICK m \in 0..MaxPerFile : s \in [1..m -> Files \cup {Missing}]
      BY DEF SeqOf
    <3>2. m \in Nat
      BY <3>1
    <3>3. s \in Seq(Files \cup {Missing})
      BY <3>1, <3>2, SeqDef
    <3>4. Len(s) = m
      BY <3>1, <3>2, <3>3, LenProperties
    <3> QED
      BY <3>3, <3>4
  <2> QED
    BY <2>1, <2>2
<1>2. /\ toProcess \in Seq(Files) /\ ToSet(toProcess) = {Entry}
      /\ <<>> \in Seq(Files) /\ <<>> \in Seq(Files \cup {Missing}) /\ ToSet(<<>>) = {}
  BY DEF Init, ToSet
<1>3. Typed
  <2>1. dependencies \in [Files -> Seq(Files)] /\ cursor \in [Files -> Nat \ {0}]
    BY <1>2 DEF Init
  <2>2. unread \in Seq(Files \cup {Missing}) /\ path \in Seq(Files) /\ cycle \in Seq(Files)
        /\ ToSet(cycle) = {}
    BY <1>2 DEF Init
  <2>3. /\ shared \subseteq Files /\ phase = "discover" /\ nodes = {Entry} /\ current = Entry
        /\ processed = {} /\ unresolved = FALSE /\ visited = {} /\ recStack = {}
    BY DEF Init
  <2> QED
    BY <1>1, <1>2, <2>1, <2>2, <2>3 DEF Typed
<1>4. \A f \in Files : Deps(f) = {}
  BY <1>2 DEF Init, Deps
<1>5. Edges
  BY <1>2, <1>4 DEF Init, Edges, Spanning
<1>6. Path /\ Searched /\ CycleShown
  BY <1>2 DEF Init, Path, Searched, CycleShown, Finished, Acyclic
<1> QED
  BY <1>3, <1>5, <1>6 DEF Inductive

\* Before the search nothing has been visited.
LEMMA NotYetSearched ==
  ASSUME Inductive, phase = "discover", UNCHANGED <<search, project>>, phase' # "sort",
         phase' \notin {"sort", "unsorted", "ordered", "cyclic"}
  PROVE  Path' /\ Searched' /\ CycleShown'
<1>1. visited = {} /\ recStack = {} /\ ToSet(path) = {} /\ path = <<>>
  BY Elements DEF Inductive, Typed, Path, Searched
<1>2. Path'
  BY <1>1 DEF Path, search
<1>3. Finished' = {}
  BY <1>1 DEF Finished, search
<1>4. Searched'
  BY <1>1, <1>3 DEF Inductive, Searched, Acyclic, search
<1> QED
  BY <1>2, <1>4 DEF CycleShown

\* Taking a module from the stack.
LEMMA TakeKeeps ==
  ASSUME Inductive, SkipProcessed \/ Process
  PROVE  Inductive'
<1> DEFINE file == Last(toProcess)
<1>1. /\ phase = "discover" /\ phase' = phase /\ unread = <<>>
      /\ toProcess # <<>> /\ toProcess' = Front(toProcess)
      /\ UNCHANGED <<project, graph, search, unresolved>>
  BY DEF SkipProcessed, Process
<1>2. /\ toProcess' \in Seq(Files) /\ ToSet(toProcess') \subseteq ToSet(toProcess)
      /\ file \in Files /\ file \in ToSet(toProcess)
  <2>1. toProcess \in Seq(Files) /\ toProcess # <<>>
    BY <1>1 DEF Inductive, Typed
  <2>2. /\ Front(toProcess) \in Seq(Files) /\ Last(toProcess) \in Files
        /\ ToSet(toProcess) = ToSet(Front(toProcess)) \cup {Last(toProcess)}
    BY <2>1, FrontAndTail
  <2> HIDE DEF file
  <2>3. toProcess' = Front(toProcess) /\ file = Last(toProcess)
    BY <1>1 DEF file
  <2> QED
    BY <2>2, <2>3
<1>3. file \in nodes
  BY <1>2 DEF Inductive, Edges
<1>4. \/ processed' = processed /\ current' = current /\ unread' = unread
      \/ processed' = processed \cup {file} /\ current' = file /\ unread' = imports[file]
  BY DEF SkipProcessed, Process
<1>5. Typed'
  <2> HIDE DEF file
  <2>0. /\ current \in nodes /\ processed \subseteq nodes
        /\ unread \in Seq(Files \cup {Missing}) /\ imports[file] \in Seq(Files \cup {Missing})
    BY <1>2 DEF Inductive, Typed
  <2>1. current' \in nodes /\ processed' \subseteq nodes /\ unread' \in Seq(Files \cup {Missing})
    BY <1>3, <1>4, <2>0
  <2> QED
    BY <1>1, <1>2, <2>1 DEF Inductive, Typed, project, graph, search
<1>6. Edges'
  <2>1. ToSet(unread') \subseteq ToSet(imports[current'])
    BY <1>4 DEF Inductive, Edges
  <2>2. \A f : Deps(f)' = Deps(f)
    BY <1>1 DEF Deps, graph
  <2>3. \A C : Spanning(C)' <=> Spanning(C)
    BY <2>2 DEF Spanning
  <2> QED
    BY <1>1, <1>2, <2>1, <2>2, <2>3 DEF Inductive, Edges, graph, project
<1>7. Path' /\ Searched' /\ CycleShown'
  BY <1>1, NotYetSearched
<1> QED
  BY <1>5, <1>6, <1>7 DEF Inductive

\* Resolving an import.
LEMMA ResolveKeeps ==
  ASSUME Inductive, Resolve
  PROVE  Inductive'
<1> DEFINE dep == Head(unread)
<1>1. /\ phase = "discover" /\ unread # <<>> /\ unread' = Tail(unread) /\ phase' = phase
      /\ UNCHANGED <<project, processed, current, search>>
  BY DEF Resolve
<1>2. /\ unread' \in Seq(Files \cup {Missing}) /\ ToSet(unread') \subseteq ToSet(unread)
      /\ dep \in Files \cup {Missing} /\ dep \in ToSet(unread)
  BY <1>1, FrontAndTail DEF Inductive, Typed
<1>3. dep \in ToSet(imports[current])
  BY <1>2 DEF Inductive, Edges
<1>4. Path' /\ Searched' /\ CycleShown'
  BY <1>1, NotYetSearched
<1>5. CASE dep = Missing
  <2>1. unresolved' = TRUE /\ UNCHANGED <<toProcess, graph>>
    BY <1>5 DEF Resolve
  <2>2. Typed'
    BY <1>1, <1>2, <2>1 DEF Inductive, Typed, project, graph, search
  <2>3. \A f : Deps(f)' = Deps(f)
    BY <2>1 DEF Deps, graph
  <2>4. \A C : Spanning(C)' <=> Spanning(C)
    BY <2>3 DEF Spanning
  <2>5. Edges'
    BY <1>1, <1>2, <2>1, <2>3, <2>4 DEF Inductive, Edges, graph, project
  <2> QED
    BY <1>4, <2>2, <2>5 DEF Inductive
<1>6. CASE dep # Missing
  <2>1. /\ nodes' = nodes \cup {dep}
        /\ dependencies' = [dependencies EXCEPT ![current] = Append(@, dep)]
        /\ toProcess' = IF dep \in processed THEN toProcess ELSE Append(toProcess, dep)
        /\ UNCHANGED unresolved
    BY <1>6 DEF Resolve
  <2>2. dep \in Files /\ current \in Files /\ current \in nodes
    BY <1>2, <1>6 DEF Inductive, Typed
  <2>3. /\ Append(dependencies[current], dep) \in Seq(Files)
        /\ ToSet(Append(dependencies[current], dep)) = Deps(current) \cup {dep}
    <3>1. dependencies[current] \in Seq(Files)
      BY <2>2 DEF Inductive, Typed
    <3> QED
      BY <2>2, <3>1, AppendElements DEF Deps
  <2>4. toProcess' \in Seq(Files) /\ ToSet(toProcess') \subseteq ToSet(toProcess) \cup {dep}
    <3>1. toProcess \in Seq(Files)
      BY DEF Inductive, Typed
    <3>2. /\ Append(toProcess, dep) \in Seq(Files)
          /\ ToSet(Append(toProcess, dep)) = ToSet(toProcess) \cup {dep}
      BY <2>2, <3>1, AppendElements
    <3> HIDE DEF dep
    <3> QED
      BY <2>1, <3>1, <3>2
  <2>5. Typed'
    <3>1. dependencies' \in [Files -> Seq(Files)]
      BY <2>1, <2>2, <2>3 DEF Inductive, Typed
    <3> QED
      BY <1>1, <1>2, <2>1, <2>2, <2>4, <3>1 DEF Inductive, Typed, project, search
  <2>6. \A f \in Files : Deps(f)' = IF f = current THEN Deps(f) \cup {dep} ELSE Deps(f)
    BY <2>1, <2>2, <2>3 DEF Inductive, Typed, Deps
  <2>7. ASSUME NEW C, Spanning(C)'
        PROVE  nodes' \subseteq C /\ \A f \in Files : Deps(f)' # {} => f \in C
    <3>1. Spanning(C)
      BY <2>6, <2>7 DEF Spanning
    <3>2. nodes \subseteq C /\ \A f \in Files : Deps(f) # {} => f \in C
      BY <1>1, <3>1 DEF Inductive, Edges
    <3>3. dep \in C
      BY <2>2, <2>6, <2>7, <3>2 DEF Spanning
    <3> QED
      BY <2>1, <2>2, <2>6, <3>2, <3>3
  <2>8. /\ ToSet(toProcess') \subseteq nodes'
        /\ ToSet(unread') \subseteq ToSet(imports'[current'])
    BY <1>1, <1>2, <2>1, <2>4 DEF Inductive, Edges, project
  <2>9. ASSUME NEW f \in Files
        PROVE  /\ Deps(f)' \subseteq ToSet(imports'[f]) \cap nodes'
               /\ Deps(f)' # {} => f \in nodes'
    <3>1. /\ Deps(f) \subseteq ToSet(imports[f]) \cap nodes
          /\ Deps(f) # {} => f \in nodes
      BY DEF Inductive, Edges
    <3> QED
      BY <1>1, <1>3, <2>1, <2>2, <2>6, <3>1 DEF project
  <2>10. Edges'
    BY <2>7, <2>8, <2>9 DEF Edges
  <2> QED
    BY <1>4, <2>5, <2>10 DEF Inductive
<1> QED
  BY <1>5, <1>6

\* The end of discovery.
LEMMA AddSharedKeeps ==
  ASSUME Inductive, AddShared
  PROVE  Inductive'
<1>1. /\ phase = "discover" /\ phase' \in {"unresolved", "search"}
      /\ nodes \subseteq nodes' /\ nodes' \subseteq nodes \cup shared
      /\ UNCHANGED <<project, discovery, dependencies, search>>
  BY DEF AddShared
<1>2. Typed'
  BY <1>1 DEF Inductive, Typed, project, discovery, search, Final
<1>3. \A f : Deps(f)' = Deps(f)
  BY <1>1 DEF Deps
<1>4. \A C : Spanning(C)' <=> Spanning(C)
  BY <1>3 DEF Spanning
<1>5. Edges'
  BY <1>1, <1>3, <1>4 DEF Inductive, Edges, project, discovery
<1>6. Path' /\ Searched' /\ CycleShown'
  BY <1>1, NotYetSearched
<1> QED
  BY <1>2, <1>5, <1>6 DEF Inductive

-----------------------------------------------------------------------------
\* One more node, all of whose imports are in a closed acyclic set.
LEMMA AcyclicGrows ==
  ASSUME NEW F, Acyclic(F), \A f \in F : Deps(f) \subseteq F,
         NEW n, Deps(n) \subseteq F, n \notin F
  PROVE  Acyclic(F \cup {n})
<1> SUFFICES ASSUME NEW T \in SUBSET (F \cup {n}), T # {}
             PROVE  \E f \in T : Deps(f) \cap T = {}
  BY DEF Acyclic
<1>1. CASE T \cap F = {}
  <2>1. T = {n}
    BY <1>1
  <2> QED
    BY <2>1
<1>2. CASE T \cap F # {}
  <2>1. PICK f \in T \cap F : Deps(f) \cap (T \cap F) = {}
    BY <1>2 DEF Acyclic
  <2>2. Deps(f) \cap T = {}
    BY <2>1
  <2> QED
    BY <2>1, <2>2
<1> QED
  BY <1>1, <1>2

\* During the search neither the project nor the graph changes.
LEMMA GraphKept ==
  ASSUME Inductive, UNCHANGED <<project, discovery, graph>>,
         phase # "discover", phase' # "discover"
  PROVE  Edges' /\ \A f : Deps(f)' = Deps(f)
<1>1. \A f : Deps(f)' = Deps(f)
  BY DEF Deps, graph
<1>2. \A C : Spanning(C)' <=> Spanning(C)
  BY <1>1 DEF Spanning
<1> QED
  BY <1>1, <1>2 DEF Inductive, Edges, project, discovery, graph

\* A node is entered, from nowhere or as an import of the end of the path.
LEMMA EnterKeeps ==
  ASSUME Inductive, phase = "search", phase' = "search", NEW node \in nodes \ visited, Enter(node),
         UNCHANGED <<project, discovery, graph, cycle>>,
         path # <<>> => node \in Deps(Last(path)),
         cursor' \in [Files -> Nat \ {0}],
         \A f \in Files \ recStack : cursor'[f] = cursor[f],
         \A i \in 1..Len(path) : \A k \in 1..Len(dependencies[path[i]]) :
           k < cursor'[path[i]] =>
             \/ dependencies[path[i]][k] \in Finished
             \/ dependencies[path[i]][k] = Append(path, node)[i + 1]
  PROVE  Inductive'
<1>1. /\ visited' = visited \cup {node} /\ recStack' = recStack \cup {node}
      /\ path' = Append(path, node)
  BY DEF Enter
<1>2. /\ path \in Seq(Files) /\ Len(path) \in Nat /\ node \in Files /\ recStack \subseteq visited
      /\ visited \subseteq nodes /\ nodes \subseteq Files
  BY LenProperties DEF Inductive, Typed
<1>3. /\ path' \in Seq(Files) /\ ToSet(path') = ToSet(path) \cup {node}
      /\ Len(path') = Len(path) + 1 /\ Last(path') = node
      /\ \A i \in 1..Len(path) : path'[i] = path[i]
      /\ path'[Len(path) + 1] = node
  BY <1>1, <1>2, AppendElements
<1>4. Typed'
  BY <1>1, <1>2, <1>3 DEF Inductive, Typed, project, discovery, graph
<1>5. Edges' /\ \A f : Deps(f)' = Deps(f)
  BY GraphKept
<1>6. Finished' = Finished
  BY <1>1 DEF Finished
<1>7. \A i \in 1..Len(path) : path[i] \in recStack
  BY <1>2, Elements DEF Inductive, Path
<1>8. Path'
  <2>1. ToSet(path') = recStack'
    BY <1>1, <1>3 DEF Inductive, Path
  <2>2. ASSUME NEW i \in 1..Len(path'), NEW j \in 1..Len(path'), path'[i] = path'[j] PROVE i = j
    <3>1. CASE i \in 1..Len(path) /\ j \in 1..Len(path)
      BY <1>3, <2>2, <3>1 DEF Inductive, Path
    <3>2. CASE i = Len(path) + 1 /\ j = Len(path) + 1
      BY <3>2
    <3>3. CASE i \in 1..Len(path) /\ j = Len(path) + 1
      <4>1. path[i] = node
        BY <1>3, <2>2, <3>3
      <4>2. path[i] \in visited
        BY <1>2, <1>7, <3>3
      <4> QED
        BY <4>1, <4>2
    <3>4. CASE j \in 1..Len(path) /\ i = Len(path) + 1
      <4>1. path[j] = node
        BY <1>3, <2>2, <3>4
      <4>2. path[j] \in visited
        BY <1>2, <1>7, <3>4
      <4> QED
        BY <4>1, <4>2
    <3> QED
      BY <1>2, <1>3, <3>1, <3>2, <3>3, <3>4
  <2>3. ASSUME NEW i \in 1..(Len(path') - 1) PROVE path'[i + 1] \in Deps(path'[i])
    <3>1. CASE i \in 1..(Len(path) - 1)
      <4>1. i \in 1..Len(path) /\ i + 1 \in 1..Len(path) /\ path[i + 1] \in Deps(path[i])
        BY <1>2, <3>1 DEF Inductive, Path
      <4> QED
        BY <1>3, <4>1
    <3>2. CASE i = Len(path)
      <4>1. path # <<>> /\ i \in 1..Len(path)
        BY <1>2, <1>3, <3>2
      <4>2. path'[i] = Last(path)
        BY <1>3, <3>2, <4>1 DEF Last
      <4> QED
        BY <1>3, <3>2, <4>1, <4>2
    <3> QED
      BY <1>2, <1>3, <3>1, <3>2
  <2> QED
    BY <1>5, <2>1, <2>2, <2>3 DEF Path
<1>9. Searched'
  <2>1. (\A f \in Finished : Deps(f) \subseteq Finished)' /\ Acyclic(Finished)'
    BY <1>5, <1>6 DEF Inductive, Searched, Acyclic
  <2>2. \A f \in Files \ visited' : cursor'[f] = 1
    BY <1>1, <1>2 DEF Inductive, Searched
  <2>3. cursor'[node] = 1
    BY <1>2 DEF Inductive, Searched
  <2>4. ASSUME NEW i \in 1..Len(path'), NEW k \in 1..Len(dependencies[path'[i]]), k < cursor'[path'[i]]
        PROVE  \/ dependencies[path'[i]][k] \in Finished
               \/ i < Len(path') /\ dependencies[path'[i]][k] = path'[i + 1]
    <3>1. CASE i \in 1..Len(path)
      <4>1. path'[i] = path[i] /\ i < Len(path')
        BY <1>2, <1>3, <3>1
      <4>2. k \in 1..Len(dependencies[path[i]]) /\ k < cursor'[path[i]]
        BY <2>4, <4>1
      <4>3. \/ dependencies[path[i]][k] \in Finished
            \/ dependencies[path[i]][k] = Append(path, node)[i + 1]
        BY <3>1, <4>2
      <4> QED
        BY <1>1, <4>1, <4>3
    <3>2. CASE i = Len(path) + 1
      <4>1. k < 1
        BY <1>3, <2>3, <2>4, <3>2
      <4> QED
        BY <4>1
    <3> QED
      BY <1>2, <1>3, <3>1, <3>2
  <2> QED
    BY <1>6, <2>1, <2>2, <2>4 DEF Searched, graph
<1> QED
  BY <1>4, <1>5, <1>8, <1>9 DEF Inductive, CycleShown

LEMMA StartSearchKeeps ==
  ASSUME Inductive, StartSearch
  PROVE  Inductive'
<1>1. /\ phase = "search" /\ phase' = phase /\ path = <<>>
      /\ UNCHANGED <<project, discovery, graph, cursor, cycle>>
  BY DEF StartSearch
<1>2. PICK node \in nodes \ visited : Enter(node)
  BY DEF StartSearch
<1>3. Len(path) = 0
  BY <1>1
<1>4. cursor' \in [Files -> Nat \ {0}] /\ \A f \in Files \ recStack : cursor'[f] = cursor[f]
  BY <1>1 DEF Inductive, Typed
<1> QED
  BY <1>1, <1>2, <1>3, <1>4, EnterKeeps

\* The end of the path, where the search is, and the import it is at.
LEMMA PathEnd ==
  ASSUME Inductive, path # <<>>
  PROVE  LET node == Last(path) IN
         /\ path \in Seq(Files) /\ Len(path) \in Nat \ {0}
         /\ node = path[Len(path)] /\ node \in recStack /\ node \in Files
         /\ recStack \subseteq Files
         /\ \A i \in 1..Len(path) : path[i] \in recStack /\ (path[i] = node <=> i = Len(path))
         /\ cursor[node] \in Nat \ {0} /\ Len(dependencies[node]) \in Nat
         /\ cursor[node] <= Len(dependencies[node]) =>
              /\ dependencies[node][cursor[node]] \in Deps(node)
              /\ dependencies[node][cursor[node]] \in nodes
<1> DEFINE node == Last(path)
<1>1. path \in Seq(Files) /\ recStack \subseteq Files /\ cursor \in [Files -> Nat \ {0}]
  BY DEF Inductive, Typed
<1>2. Len(path) \in Nat \ {0} /\ node = path[Len(path)] /\ node \in Files
  BY <1>1, FrontAndTail
<1>3. \A i \in 1..Len(path) : path[i] \in recStack
  BY <1>1, Elements DEF Inductive, Path
<1>4. \A i \in 1..Len(path) : path[i] = node <=> i = Len(path)
  BY <1>2 DEF Inductive, Path
<1>5. /\ Len(dependencies[node]) \in Nat
      /\ \A k \in 1..Len(dependencies[node]) : dependencies[node][k] \in Deps(node)
  BY <1>2, DepsIndexed DEF Inductive
<1>6. Deps(node) \subseteq nodes
  BY <1>2 DEF Inductive, Edges
<1>7. node \in recStack /\ cursor[node] \in Nat \ {0}
  BY <1>1, <1>2, <1>3
<1>8. cursor[node] <= Len(dependencies[node]) => cursor[node] \in 1..Len(dependencies[node])
  BY <1>5, <1>7
<1> HIDE DEF node
<1>9. cursor[node] <= Len(dependencies[node]) =>
        /\ dependencies[node][cursor[node]] \in Deps(node)
        /\ dependencies[node][cursor[node]] \in nodes
  BY <1>5, <1>6, <1>8
<1> QED
  BY <1>1, <1>2, <1>3, <1>4, <1>5, <1>7, <1>9 DEF node

\* Passing an import: what the loops of the nodes on the path have behind them.
LEMMA PassImport ==
  ASSUME Inductive, phase = "search", path # <<>>,
         cursor[Last(path)] <= Len(dependencies[Last(path)]),
         cursor' = [cursor EXCEPT ![Last(path)] = @ + 1]
  PROVE  LET node == Last(path)
             dep == dependencies[node][cursor[node]] IN
         /\ cursor' \in [Files -> Nat \ {0}]
         /\ \A f \in Files \ recStack : cursor'[f] = cursor[f]
         /\ \A i \in 1..Len(path) : \A k \in 1..Len(dependencies[path[i]]) :
              k < cursor'[path[i]] =>
                \/ dependencies[path[i]][k] \in Finished
                \/ i < Len(path) /\ dependencies[path[i]][k] = path[i + 1]
                \/ i = Len(path) /\ dependencies[path[i]][k] = dep
<1> DEFINE node == Last(path)
           dep == dependencies[node][cursor[node]]
<1>1. /\ path \in Seq(Files) /\ Len(path) \in Nat \ {0}
      /\ node = path[Len(path)] /\ node \in recStack /\ node \in Files
      /\ recStack \subseteq Files
      /\ \A i \in 1..Len(path) : path[i] \in recStack /\ (path[i] = node <=> i = Len(path))
      /\ cursor[node] \in Nat \ {0}
  BY PathEnd
<1>2. /\ cursor' \in [Files -> Nat \ {0}]
      /\ \A f \in Files \ {node} : cursor'[f] = cursor[f]
      /\ cursor'[node] = cursor[node] + 1
  <2>1. cursor \in [Files -> Nat \ {0}] /\ cursor' = [cursor EXCEPT ![node] = cursor[node] + 1]
    BY DEF Inductive, Typed
  <2> HIDE DEF node
  <2>2. cursor[node] + 1 \in Nat \ {0}
    BY <1>1
  <2> QED
    BY <1>1, <2>1, <2>2
<1>3. ASSUME NEW i \in 1..Len(path), NEW k \in 1..Len(dependencies[path[i]]),
             k < cursor'[path[i]]
      PROVE  \/ dependencies[path[i]][k] \in Finished
             \/ i < Len(path) /\ dependencies[path[i]][k] = path[i + 1]
             \/ i = Len(path) /\ dependencies[path[i]][k] = dep
  <2>1. CASE k < cursor[path[i]]
    BY <2>1 DEF Inductive, Searched
  <2>2. CASE ~(k < cursor[path[i]])
    <3>1. path[i] = node
      BY <1>1, <1>2, <1>3, <2>2
    <3>2. i = Len(path)
      BY <1>1, <3>1
    <3>3. k = cursor[node]
      BY <1>1, <1>2, <1>3, <2>2, <3>1
    <3> QED
      BY <3>1, <3>2, <3>3
  <2> QED
    BY <2>1, <2>2
<1> HIDE DEF node, dep
<1>4. /\ \A f \in Files \ recStack : cursor'[f] = cursor[f]
  BY <1>1, <1>2
<1> QED
  BY <1>2, <1>3, <1>4 DEF node, dep

LEMMA FollowImportKeeps ==
  ASSUME Inductive, FollowImport
  PROVE  Inductive'
<1> DEFINE node == Last(path)
           dep == dependencies[node][cursor[node]]
<1>1. /\ phase = "search" /\ path # <<>> /\ cursor[node] <= Len(dependencies[node])
      /\ cursor' = [cursor EXCEPT ![node] = @ + 1]
      /\ UNCHANGED <<project, discovery, graph>>
  BY DEF FollowImport
<1>2. /\ path \in Seq(Files) /\ Len(path) \in Nat \ {0}
      /\ node = path[Len(path)] /\ node \in recStack /\ node \in Files
      /\ \A i \in 1..Len(path) : path[i] \in recStack /\ (path[i] = node <=> i = Len(path))
      /\ dep \in Deps(node) /\ dep \in nodes
  BY <1>1, PathEnd
<1>3. /\ cursor' \in [Files -> Nat \ {0}]
      /\ \A f \in Files \ recStack : cursor'[f] = cursor[f]
      /\ \A i \in 1..Len(path) : \A k \in 1..Len(dependencies[path[i]]) :
           k < cursor'[path[i]] =>
             \/ dependencies[path[i]][k] \in Finished
             \/ i < Len(path) /\ dependencies[path[i]][k] = path[i + 1]
             \/ i = Len(path) /\ dependencies[path[i]][k] = dep
  BY <1>1, PassImport
<1>4. CASE dep \notin visited /\ Enter(dep) /\ UNCHANGED <<phase, cycle>>
  <2>1. ASSUME NEW i \in 1..Len(path), NEW k \in 1..Len(dependencies[path[i]]), k < cursor'[path[i]]
        PROVE  \/ dependencies[path[i]][k] \in Finished
               \/ dependencies[path[i]][k] = Append(path, dep)[i + 1]
    <3>1. /\ i < Len(path) => Append(path, dep)[i + 1] = path[i + 1]
          /\ i = Len(path) => Append(path, dep)[i + 1] = dep
      <4>1. dep \in Files
        BY <1>2 DEF Inductive, Typed
      <4> HIDE DEF dep
      <4> QED
        BY <1>2, <4>1, AppendElements
    <3> HIDE DEF dep, node
    <3>2. \/ dependencies[path[i]][k] \in Finished
          \/ i < Len(path) /\ dependencies[path[i]][k] = path[i + 1]
          \/ i = Len(path) /\ dependencies[path[i]][k] = dep
      BY <1>3, <2>1
    <3> QED
      BY <3>1, <3>2
  <2> HIDE DEF dep
  <2> QED
    BY <1>1, <1>2, <1>3, <1>4, <2>1, EnterKeeps
<1>5. CASE dep \in visited \ recStack /\ UNCHANGED <<phase, visited, recStack, path, cycle>>
  <2>1. Typed'
    BY <1>1, <1>3, <1>5 DEF Inductive, Typed, project, discovery, graph
  <2>2. Edges' /\ \A f : Deps(f)' = Deps(f)
    BY <1>1, <1>5, GraphKept
  <2>3. Path'
    BY <1>5, <2>2 DEF Inductive, Path
  <2>4. Finished' = Finished /\ dep \in Finished
    BY <1>5 DEF Finished
  <2>5. (\A f \in Finished : Deps(f) \subseteq Finished)' /\ Acyclic(Finished)'
    BY <2>2, <2>4 DEF Inductive, Searched, Acyclic
  <2>6. \A f \in Files \ visited' : cursor'[f] = 1
    BY <1>3, <1>5 DEF Inductive, Searched, Typed
  <2>7. \A i \in 1..Len(path') : \A k \in 1..Len(dependencies'[path'[i]]) :
          k < cursor'[path'[i]] =>
            \/ dependencies'[path'[i]][k] \in Finished'
            \/ i < Len(path') /\ dependencies'[path'[i]][k] = path'[i + 1]
    <3> HIDE DEF dep, node
    <3> QED
      BY <1>1, <1>3, <1>5, <2>4 DEF graph
  <2>8. Searched'
    BY <1>1, <1>5, <2>5, <2>6, <2>7 DEF Searched
  <2> QED
    BY <1>1, <1>5, <2>1, <2>2, <2>3, <2>8 DEF Inductive, CycleShown
<1>6. CASE /\ dep \in visited \cap recStack /\ cycle' = CycleTo(dep) /\ phase' = "cyclic"
           /\ UNCHANGED <<visited, recStack, path>>
  <2> DEFINE first == CHOOSE i \in DOMAIN path : path[i] = dep
             around == SubSeq(path, first, Len(path))
             n == Len(path) - first + 1
  <2>1. first \in 1..Len(path) /\ path[first] = dep
    <3>1. dep \in ToSet(path)
      BY <1>6 DEF Inductive, Path
    <3>2. DOMAIN path = 1..Len(path) /\ \E i \in DOMAIN path : path[i] = dep
      BY <1>2, <3>1, Elements, LenProperties
    <3> QED
      BY <3>2
  <2>2. cycle' = around \o <<dep>>
    BY <1>6 DEF CycleTo
  <2>3. n \in Nat \ {0}
    BY <1>2, <2>1
  <2>4. /\ around \in Seq(Files) /\ Len(around) = n
        /\ \A i \in 1..n : around[i] = path[first + i - 1]
    <3>1. first \in Int /\ Len(path) \in Int /\ first <= Len(path)
      BY <1>2, <2>1
    <3>2. \A i \in first..Len(path) : path[i] \in Files
      BY <1>2, <2>1
    <3>3. n = Len(path) - first + 1
      OBVIOUS
    <3> HIDE DEF first
    <3> QED
      BY <3>1, <3>2, SubSeqProperties
  <2>5. dep \in Files /\ <<dep>> \in Seq(Files) /\ Len(<<dep>>) = 1 /\ <<dep>>[1] = dep
    <3>1. dep \in Files
      BY <1>2 DEF Inductive, Typed
    <3> HIDE DEF dep
    <3> QED
      BY <3>1
  <2> HIDE DEF first, around, n, dep, node
  <2>6. /\ cycle' \in Seq(Files) /\ Len(cycle') = n + 1
        /\ \A i \in 1..n : cycle'[i] = path[first + i - 1]
        /\ cycle'[n + 1] = dep
    <3>1. /\ around \o <<dep>> \in Seq(Files)
          /\ Len(around \o <<dep>>) = n + 1
          /\ \A i \in 1..(n + 1) : (around \o <<dep>>)[i] = IF i <= n THEN around[i] ELSE <<dep>>[i - n]
      BY <2>4, <2>5, ConcatProperties
    <3>2. \A i \in 1..n : (around \o <<dep>>)[i] = around[i]
      BY <2>3, <3>1
    <3>3. (around \o <<dep>>)[n + 1] = <<dep>>[1]
      BY <2>3, <3>1
    <3> QED
      BY <2>2, <2>4, <2>5, <3>1, <3>2, <3>3
  <2>7. Typed'
    <3>1. \A i \in 1..n : path[first + i - 1] \in nodes
      <4>1. \A i \in 1..n : first + i - 1 \in 1..Len(path)
        BY <1>2, <2>1 DEF n
      <4> QED
        BY <1>2, <4>1 DEF Inductive, Typed
    <3>2. \A i \in 1..(n + 1) : i \in 1..n \/ i = n + 1
      BY <2>3
    <3>3. dep \in nodes
      BY <1>6 DEF Inductive, Typed
    <3>4. \A i \in 1..(n + 1) : cycle'[i] \in nodes
      BY <2>6, <3>1, <3>2, <3>3
    <3>5. ToSet(cycle') \subseteq nodes
      BY <2>6, <3>4, Elements
    <3> QED
      BY <1>1, <1>3, <1>6, <2>6, <3>5 DEF Inductive, Typed, project, discovery, graph, Final
  <2>8. Edges' /\ \A f : Deps(f)' = Deps(f)
    BY <1>1, <1>6, GraphKept
  <2>9. Path'
    BY <1>6, <2>8 DEF Inductive, Path
  <2>10. Finished' = Finished
    BY <1>6 DEF Finished
  <2>11. Searched'
    BY <1>1, <1>3, <1>6, <2>8, <2>10 DEF Inductive, Searched, Acyclic, Typed
  <2>12. cycle'[1] = Last(cycle')
    BY <2>1, <2>3, <2>6 DEF Last
  <2>13. ASSUME NEW i \in 1..n PROVE cycle'[i + 1] \in ToSet(imports'[cycle'[i]])
    <3>1. first + i - 1 \in 1..Len(path) /\ cycle'[i] = path[first + i - 1]
      BY <1>2, <2>1, <2>6 DEF n
    <3>2. cycle'[i + 1] \in Deps(cycle'[i])
      <4>1. CASE i < n
        <5>1. i + 1 \in 1..n /\ first + i - 1 \in 1..(Len(path) - 1)
          BY <1>2, <2>1, <2>3, <4>1 DEF n
        <5>2. cycle'[i + 1] = path[(first + i - 1) + 1]
          <6>1. cycle'[i + 1] = path[first + (i + 1) - 1]
            BY <2>6, <5>1
          <6>2. first + (i + 1) - 1 = (first + i - 1) + 1
            BY <2>1
          <6> QED
            BY <6>1, <6>2
        <5> QED
          BY <3>1, <5>1, <5>2 DEF Inductive, Path
      <4>2. CASE i = n
        BY <1>2, <2>1, <2>6, <3>1, <4>2 DEF n
      <4> QED
        BY <2>3, <4>1, <4>2
    <3>3. cycle'[i] \in Files
      BY <1>2, <3>1
    <3> QED
      BY <1>1, <3>2, <3>3 DEF Inductive, Edges, project
  <2>14. Cardinality(ToSet(cycle')) = n
    <3> DEFINE g == [i \in 1..n |-> cycle'[i]]
    <3>1. \A i, j \in 1..n : cycle'[i] = cycle'[j] => i = j
      <4>1. \A i \in 1..n : first + i - 1 \in 1..Len(path)
        BY <1>2, <2>1 DEF n
      <4> SUFFICES ASSUME NEW i \in 1..n, NEW j \in 1..n, cycle'[i] = cycle'[j] PROVE i = j
        OBVIOUS
      <4>2. first + i - 1 = first + j - 1
        BY <2>6, <4>1 DEF Inductive, Path
      <4> QED
        BY <2>1, <2>3, <4>2
    <3>2. \A x : x \in ToSet(cycle') <=> \E i \in 1..(n + 1) : cycle'[i] = x
      BY <2>6, Elements
    <3>3. \A x : x \in ToSet(cycle') <=> \E i \in 1..n : cycle'[i] = x
      <4>1. cycle'[n + 1] = cycle'[1] /\ 1 \in 1..n
        BY <2>1, <2>3, <2>6
      <4>2. \A i \in 1..(n + 1) : i \in 1..n \/ i = n + 1
        BY <2>3
      <4>3. \A i \in 1..n : i \in 1..(n + 1)
        BY <2>3
      <4> QED
        BY <3>2, <4>1, <4>2, <4>3
    <3>4. g \in Bijection(1..n, ToSet(cycle'))
      BY <3>1, <3>3 DEF Bijection, Injection, Surjection, IsInjective
    <3>5. IsFiniteSet(1..n) /\ Cardinality(1..n) = n
      BY <2>3, FS_Interval
    <3>6. ExistsBijection(1..n, ToSet(cycle'))
      BY <3>4 DEF ExistsBijection
    <3> QED
      BY <3>5, <3>6, FS_Bijection
  <2>15. Len(cycle') - 1 = n
    BY <2>3, <2>6
  <2>16. CycleShown'
    BY <2>12, <2>13, <2>14, <2>15 DEF CycleShown
  <2> QED
    BY <2>7, <2>8, <2>9, <2>11, <2>16 DEF Inductive
<1> QED
  BY <1>4, <1>5, <1>6 DEF FollowImport

\* The node at the end of the path is finished.
LEMMA LeaveKeeps ==
  ASSUME Inductive, Leave
  PROVE  Inductive'
<1> DEFINE node == Last(path)
<1>1. /\ phase = "search" /\ phase' = phase /\ path # <<>> /\ cursor[node] > Len(dependencies[node])
      /\ path' = Front(path) /\ recStack' = recStack \ {node}
      /\ UNCHANGED <<project, discovery, graph, visited, cursor, cycle>>
  BY DEF Leave
<1>2. /\ path \in Seq(Files) /\ Len(path) \in Nat \ {0}
      /\ node = path[Len(path)] /\ node \in recStack /\ node \in Files
      /\ \A i \in 1..Len(path) : path[i] \in recStack /\ (path[i] = node <=> i = Len(path))
      /\ Len(dependencies[node]) \in Nat /\ cursor[node] \in Nat
  BY <1>1, PathEnd
<1>3. /\ path' \in Seq(Files) /\ Len(path') = Len(path) - 1
      /\ \A i \in 1..(Len(path) - 1) : path'[i] = path[i]
      /\ ToSet(path) = ToSet(path') \cup {node}
  BY <1>1, <1>2, FrontAndTail
<1>4. Typed'
  BY <1>1, <1>3 DEF Inductive, Typed, project, discovery, graph
<1>5. Edges' /\ \A f : Deps(f)' = Deps(f)
  BY <1>1, GraphKept
<1>6. Path'
  <2>1. node \notin ToSet(path')
    <3>1. \A x : x \in ToSet(path') <=> \E i \in 1..(Len(path) - 1) : path'[i] = x
      BY <1>3, Elements
    <3>2. \A i \in 1..(Len(path) - 1) : path'[i] # node
      BY <1>2, <1>3
    <3> QED
      BY <3>1, <3>2
  <2>2. ToSet(path') = recStack'
    BY <1>1, <1>3, <2>1 DEF Inductive, Path
  <2>3. \A i, j \in 1..Len(path') : path'[i] = path'[j] => i = j
    BY <1>2, <1>3 DEF Inductive, Path
  <2>4. \A i \in 1..(Len(path') - 1) : path'[i + 1] \in Deps(path'[i])
    BY <1>2, <1>3 DEF Inductive, Path
  <2> QED
    BY <1>5, <2>2, <2>3, <2>4 DEF Path
<1>7. Finished' = Finished \cup {node} /\ node \notin Finished
  <2>1. node \in visited /\ visited' = visited /\ recStack' = recStack \ {node}
    BY <1>1, <1>2 DEF Inductive, Typed, discovery, graph
  <2> HIDE DEF node
  <2> QED
    BY <1>2, <2>1 DEF Finished
<1>8. Deps(node) \subseteq Finished
  <2>1. ASSUME NEW k \in 1..Len(dependencies[node]) PROVE dependencies[node][k] \in Finished
    <3>1. Len(path) \in 1..Len(path) /\ path[Len(path)] = node /\ k < cursor[node]
      BY <1>1, <1>2, <2>1
    <3> HIDE DEF node
    <3> QED
      BY <1>1, <1>2, <3>1 DEF Inductive, Searched
  <2>2. \A x : x \in Deps(node) <=> \E k \in 1..Len(dependencies[node]) : dependencies[node][k] = x
    BY <1>2, DepsIndexed DEF Inductive
  <2> QED
    BY <2>1, <2>2
<1> HIDE DEF node
<1>9. Searched'
  <2>1. (\A f \in Finished : Deps(f) \subseteq Finished)'
    BY <1>5, <1>7, <1>8 DEF Inductive, Searched
  <2>2. Acyclic(Finished)'
    <3>1. Acyclic(Finished \cup {node})
      BY <1>7, <1>8, AcyclicGrows DEF Inductive, Searched
    <3> QED
      BY <1>5, <1>7, <3>1 DEF Acyclic
  <2>3. ASSUME NEW i \in 1..Len(path'), NEW k \in 1..Len(dependencies[path'[i]]), k < cursor[path'[i]]
        PROVE  \/ dependencies[path'[i]][k] \in Finished'
               \/ i < Len(path') /\ dependencies[path'[i]][k] = path'[i + 1]
    <3>1. i \in 1..Len(path) /\ i < Len(path) /\ path'[i] = path[i]
      BY <1>2, <1>3
    <3>2. \/ dependencies[path[i]][k] \in Finished
          \/ i < Len(path) /\ dependencies[path[i]][k] = path[i + 1]
      BY <1>1, <2>3, <3>1 DEF Inductive, Searched
    <3>3. i + 1 = Len(path) => path[i + 1] = node
      BY <1>2
    <3>4. i + 1 # Len(path) => i < Len(path') /\ path'[i + 1] = path[i + 1]
      BY <1>2, <1>3, <3>1
    <3> QED
      BY <1>7, <3>1, <3>2, <3>3, <3>4
  <2> QED
    BY <1>1, <2>1, <2>2, <2>3 DEF Inductive, Searched, graph
<1> QED
  BY <1>1, <1>4, <1>5, <1>6, <1>9 DEF Inductive, CycleShown

\* The sort changes nothing that the search has found.
LEMMA SortKeeps ==
  ASSUME Inductive, StartSort \/ SortNode \/ Release \/ EndSort
  PROVE  Inductive'
<1>1. /\ phase \in {"search", "sort"} /\ phase' \in {"sort", "unsorted", "ordered"}
      /\ phase = "search" => path = <<>> /\ nodes \subseteq visited
      /\ UNCHANGED <<project, discovery, graph, search>>
  BY DEF StartSort, SortNode, Release, EndSort
<1>2. Typed'
  BY <1>1 DEF Inductive, Typed, project, discovery, graph, search, Final
<1>3. Edges' /\ \A f : Deps(f)' = Deps(f)
  BY <1>1, GraphKept
<1>4. Path'
  BY <1>1, <1>3 DEF Inductive, Path, search
<1>5. Finished' = Finished
  BY <1>1 DEF Finished, search
<1>6. phase = "search" => visited = nodes
  BY <1>1 DEF Inductive, Typed
<1>7. Searched'
  BY <1>1, <1>3, <1>5, <1>6 DEF Inductive, Searched, Acyclic, search, graph
<1>8. CycleShown'
  BY <1>1 DEF CycleShown
<1> QED
  BY <1>2, <1>3, <1>4, <1>7, <1>8 DEF Inductive

LEMMA NextInductive == Inductive /\ [Next]_vars => Inductive'
<1> SUFFICES ASSUME Inductive, [Next]_vars PROVE Inductive'
  OBVIOUS
<1>1. CASE SkipProcessed \/ Process
  BY <1>1, TakeKeeps
<1>2. CASE Resolve
  BY <1>2, ResolveKeeps
<1>3. CASE AddShared
  BY <1>3, AddSharedKeeps
<1>4. CASE StartSearch
  BY <1>4, StartSearchKeeps
<1>5. CASE FollowImport
  BY <1>5, FollowImportKeeps
<1>6. CASE Leave
  BY <1>6, LeaveKeeps
<1>7. CASE StartSort \/ SortNode \/ Release \/ EndSort
  BY <1>7, SortKeeps
<1>8. CASE UNCHANGED vars
  <2>1. UNCHANGED <<project, phase, discovery, graph, search>>
    BY <1>8 DEF vars
  <2>2. \A f : Deps(f)' = Deps(f)
    BY <2>1 DEF Deps, graph
  <2>3. \A C : Spanning(C)' <=> Spanning(C)
    BY <2>2 DEF Spanning
  <2>4. Typed' /\ Edges' /\ Path'
    BY <2>1, <2>2, <2>3 DEF Inductive, Typed, Edges, Path, project, discovery, graph, search
  <2>5. Finished' = Finished
    BY <2>1 DEF Finished, search
  <2>6. Searched' /\ CycleShown'
    BY <2>1, <2>2, <2>5 DEF Inductive, Searched, Acyclic, CycleShown, project, graph, search
  <2> QED
    BY <2>4, <2>6 DEF Inductive
<1> QED
  BY <1>1, <1>2, <1>3, <1>4, <1>5, <1>6, <1>7, <1>8 DEF Next

-----------------------------------------------------------------------------
\* The invariant that discovery and the search keep (discover_modules,
\* check_cycles), for every project.
THEOREM SearchInvariant == Spec => []Inductive
BY InitInductive, NextInductive, PTL DEF Spec

\* The cycle shown to the user is one, for every project (detect_cycle_dfs).
THEOREM CyclesAreShown == Spec => []CycleShown
<1>1. Inductive => CycleShown
  BY DEF Inductive
<1> QED
  BY <1>1, SearchInvariant, PTL

\* In a graph that the search has found free of cycles nothing imports the entry.
LEMMA NothingImportsEntry ==
  ASSUME Inductive, phase \in {"sort", "ordered"}
  PROVE  EntryUnimported
<1>1. /\ path = <<>> /\ visited = nodes /\ recStack = {}
      /\ nodes \subseteq Files /\ Entry \in nodes
  BY Elements DEF Inductive, Typed, Path, Searched
<1>2. Finished = nodes
  BY <1>1 DEF Finished
<1>3. SUFFICES ASSUME NEW f \in nodes, Entry \in Deps(f) PROVE FALSE
  BY DEF EntryUnimported, Deps
<1> DEFINE Leads(T) == T \subseteq Files /\ f \in T /\ \A g \in Files : Deps(g) \cap T # {} => g \in T
           Before == {n \in nodes : \A T : Leads(T) => n \in T}
<1>4. Entry \in Before
  <2>1. SUFFICES ASSUME NEW T, Leads(T), Entry \notin T PROVE FALSE
    BY <1>1
  <2>2. Spanning(Files \ T)
    <3>1. \A g \in Files : Deps(g) \subseteq Files
      BY <1>1 DEF Inductive, Edges
    <3> QED
      BY <1>1, <2>1, <3>1 DEF Spanning
  <2>3. f \in Files \ T
    BY <1>1, <1>3, <2>2 DEF Inductive, Edges
  <2> QED
    BY <2>1, <2>3
<1>5. PICK s \in Before : Deps(s) \cap Before = {}
  <2>1. Acyclic(nodes)
    BY <1>2 DEF Inductive, Searched
  <2>2. Before \subseteq nodes
    OBVIOUS
  <2> HIDE DEF Before
  <2> QED
    BY <1>4, <2>1, <2>2 DEF Acyclic
<1>6. s # f
  BY <1>3, <1>4, <1>5
<1>7. Leads(Before \ {s})
  <2>1. f \in Before
    BY <1>3
  <2>2. ASSUME NEW g \in Files, NEW d \in Deps(g) \cap (Before \ {s}) PROVE g \in Before \ {s}
    <3>1. g \in nodes
      BY <2>2 DEF Inductive, Edges
    <3>2. \A T : Leads(T) => g \in T
      BY <2>2
    <3>3. g # s
      BY <1>5, <2>2
    <3> QED
      BY <3>1, <3>2, <3>3
  <2>3. Before \subseteq Files
    BY <1>1
  <2> QED
    BY <1>6, <2>1, <2>2, <2>3
<1>8. s \in Before \ {s}
  BY <1>7
<1> QED
  BY <1>8

\* Once the search has found no cycle nothing imports the entry, which is why the
\* code may move it to the end of the order (parse_all_modules).
THEOREM EntryIsUnimported == Spec => []EntryUnimported
<1>1. Inductive => EntryUnimported
  BY NothingImportsEntry DEF EntryUnimported
<1> QED
  BY <1>1, SearchInvariant, PTL

-----------------------------------------------------------------------------
\* What a module that was looked at has shown; the module at hand still has
\* its unread imports to show.
Unread(f) == IF f = current THEN ToSet(unread) ELSE {}

Read ==
  /\ unread # <<>> => phase = "discover" /\ current \in processed
  /\ \A f \in Files \ processed : dependencies[f] = <<>>
  /\ \A f \in processed :
       /\ ToSet(imports[f]) \subseteq Deps(f) \cup {Missing} \cup Unread(f)
       /\ Missing \in ToSet(imports[f]) => unresolved \/ Missing \in Unread(f)
  /\ unresolved => \E f \in processed : Missing \in ToSet(imports[f])
  /\ processed \subseteq Plan!Imported
  /\ phase = "discover" => nodes \subseteq processed \cup ToSet(toProcess)
  /\ phase = "unresolved" => unresolved
  /\ phase \notin {"discover", "unresolved"} =>
       /\ ~unresolved
       /\ nodes = processed \cup shared
       /\ Entry \in processed
       /\ \A f \in processed : Deps(f) \subseteq processed

\* A module has no more edges than imports, and the search goes at most one past them.
Sized ==
  /\ \A f \in Files : cursor[f] <= MaxPerFile + 1
  /\ \A f \in Files : Len(dependencies[f]) <= Len(imports[f])
  /\ Len(dependencies[current]) + Len(unread) <= Len(imports[current])

\* The places of a sequence that hold a value.
Places(s, x) == {i \in DOMAIN s : s[i] = x}

Distinct(s) == \A i, j \in 1..Len(s) : s[i] = s[j] => i = j

\* Importers are sorted before what they import.
ImportersFirst ==
  \A j \in 1..Len(result) : \A f \in nodes :
    result[j] \in Deps(f) => \E i \in 1..(j - 1) : result[i] = f

Sorted ==
  /\ inDegree \in [Files -> Nat]
  /\ queue \in Seq(Files) /\ released \in Seq(Files) /\ result \in Seq(Files)
  /\ phase \in {"discover", "search", "unresolved", "cyclic"} =>
       queue = <<>> /\ released = <<>> /\ result = <<>>
  /\ phase # "unsorted"
  /\ phase = "sort" =>
       /\ ToSet(result) \subseteq nodes /\ ToSet(released) \subseteq nodes
       /\ Distinct(queue) /\ Distinct(result)
       /\ DegreesExact
       /\ \A f \in ToSet(result) : inDegree[f] = 0
       /\ ImportersFirst
  /\ phase = "ordered" => queue = <<>> /\ released = <<>> /\ Plan!IsPlan(result)

USE FilesAssumption, FoldersAssumption, BoundAssumption

-----------------------------------------------------------------------------
\* The plan looks at sequences as the compiler does.
LEMMA SameElements == \A s : Plan!ToSet(s) = ToSet(s) /\ Plan!Last(s) = Last(s)
BY DEF Plan!ToSet, ToSet, Plan!Last, Last

\* What a set of files leads to is closed, holds the set, and is in every closed
\* set that does.
LEMMA Reached ==
  ASSUME NEW S \in SUBSET Files, Typed
  PROVE  /\ S \subseteq Plan!ReachedFrom(S) /\ Plan!ReachedFrom(S) \subseteq Files
         /\ \A f \in Plan!ReachedFrom(S) : ToSet(imports[f]) \ {Missing} \subseteq Plan!ReachedFrom(S)
         /\ \A T \in SUBSET Files :
              /\ S \subseteq T
              /\ \A f \in T : ToSet(imports[f]) \ {Missing} \subseteq T
              => Plan!ReachedFrom(S) \subseteq T
<1>1. \A T : Plan!Closed(T) <=> \A f \in T : ToSet(imports[f]) \ {Missing} \subseteq T
  BY SameElements DEF Plan!Closed
<1>2. \A f : f \in Plan!ReachedFrom(S) <=>
        f \in Files /\ \A T \in SUBSET Files : S \subseteq T /\ Plan!Closed(T) => f \in T
  BY DEF Plan!ReachedFrom
<1>3. \A f \in Files : ToSet(imports[f]) \ {Missing} \subseteq Files
  BY Elements DEF Typed
<1>4. ASSUME NEW f \in Plan!ReachedFrom(S), NEW d \in ToSet(imports[f]) \ {Missing}
      PROVE  d \in Plan!ReachedFrom(S)
  <2>1. d \in Files
    BY <1>2, <1>3, <1>4
  <2>2. ASSUME NEW T \in SUBSET Files, S \subseteq T, Plan!Closed(T) PROVE d \in T
    <3>1. f \in T
      BY <1>2, <1>4, <2>2
    <3> QED
      BY <1>1, <1>4, <2>2, <3>1
  <2> QED
    BY <1>2, <2>1, <2>2
<1>5. S \subseteq Plan!ReachedFrom(S) /\ Plan!ReachedFrom(S) \subseteq Files
  BY <1>2
<1>6. ASSUME NEW T \in SUBSET Files, S \subseteq T,
             \A f \in T : ToSet(imports[f]) \ {Missing} \subseteq T
      PROVE  Plan!ReachedFrom(S) \subseteq T
  BY <1>1, <1>2, <1>6
<1> QED
  BY <1>4, <1>5, <1>6

\* While modules are discovered, the entry leads to every node.
LEMMA NodesImported ==
  ASSUME Inductive, phase = "discover"
  PROVE  nodes \subseteq Plan!Imported
<1>1. Typed /\ nodes \subseteq Files /\ Entry \in Files
  BY DEF Inductive, Typed
<1> DEFINE R == Plan!ReachedFrom({Entry})
<1>2. /\ Entry \in R /\ R \subseteq Files
      /\ \A f \in R : ToSet(imports[f]) \ {Missing} \subseteq R
  BY <1>1, Reached
<1>3. R = Plan!Imported
  BY DEF Plan!Imported
<1> HIDE DEF R
<1>4. Spanning(R)
  BY <1>1, <1>2 DEF Spanning, Inductive, Edges
<1> QED
  BY <1>3, <1>4 DEF Inductive, Edges

LEMMA InitRead == Init => Read
<1> SUFFICES ASSUME Init PROVE Read
  OBVIOUS
<1>1. Inductive /\ phase = "discover" /\ processed = {} /\ unread = <<>> /\ ~unresolved
  BY InitInductive DEF Init
<1>2. nodes = {Entry} /\ ToSet(toProcess) = {Entry} /\ \A f \in Files : dependencies[f] = <<>>
  BY DEF Init, ToSet
<1> QED
  BY <1>1, <1>2 DEF Read

\* What the entry leads to is settled by the project.
LEMMA ImportedKept ==
  ASSUME UNCHANGED project
  PROVE  /\ Plan!Imported' = Plan!Imported
         /\ \A S : Plan!ReachedFrom(S)' = Plan!ReachedFrom(S)
<1>1. \A S : Plan!Closed(S)' = Plan!Closed(S)
  BY DEF Plan!Closed, project
<1>2. \A S : Plan!ReachedFrom(S)' = Plan!ReachedFrom(S)
  BY <1>1 DEF Plan!ReachedFrom
<1> QED
  BY <1>2 DEF Plan!Imported

LEMMA SkipProcessedReads ==
  ASSUME Inductive, Read, SkipProcessed
  PROVE  Read'
<1>1. /\ phase = "discover" /\ toProcess # <<>> /\ Last(toProcess) \in processed
      /\ toProcess' = Front(toProcess)
      /\ UNCHANGED <<project, phase, processed, current, unread, unresolved, nodes, dependencies>>
  BY DEF SkipProcessed, graph
<1>2. toProcess \in Seq(Files)
  BY DEF Inductive, Typed
<1>3. ToSet(toProcess) = ToSet(toProcess') \cup {Last(toProcess)}
  BY <1>1, <1>2, FrontAndTail
<1>4. (\A f : Deps(f)' = Deps(f) /\ Unread(f)' = Unread(f)) /\ Plan!Imported' = Plan!Imported
  BY <1>1, ImportedKept DEF Deps, Unread
<1>5. phase' = "discover" => nodes' \subseteq processed' \cup ToSet(toProcess')
  BY <1>1, <1>3 DEF Read
<1>6. imports' = imports /\ shared' = shared
  BY <1>1 DEF project
<1>7. \A f \in processed :
        /\ ToSet(imports'[f]) \subseteq Deps(f)' \cup {Missing} \cup Unread(f)'
        /\ Missing \in ToSet(imports'[f]) => unresolved' \/ Missing \in Unread(f)'
  BY <1>1, <1>4, <1>6 DEF Read
<1> QED
  BY <1>1, <1>4, <1>5, <1>6, <1>7 DEF Read

LEMMA ProcessReads ==
  ASSUME Inductive, Read, Process
  PROVE  Read'
<1>0. PICK file : file = Last(toProcess)
  OBVIOUS
<1>a. /\ phase = "discover" /\ unread = <<>> /\ toProcess # <<>>
      /\ toProcess' = Front(toProcess)
      /\ UNCHANGED <<project, phase, unresolved, nodes, dependencies>>
  <2>1. phase = "discover" /\ unread = <<>> /\ toProcess # <<>> /\ toProcess' = Front(toProcess)
    BY DEF Process
  <2>2. UNCHANGED project /\ UNCHANGED phase /\ UNCHANGED unresolved /\ UNCHANGED graph
    <3>1. UNCHANGED phase /\ UNCHANGED unresolved
      BY DEF Process
    <3>2. UNCHANGED project
      BY DEF Process
    <3>3. UNCHANGED graph
      BY DEF Process
    <3> QED
      BY <3>1, <3>2, <3>3
  <2>3. UNCHANGED <<nodes, dependencies>>
    BY <2>2 DEF graph
  <2> QED
    BY <2>1, <2>2, <2>3
<1>b. /\ file \notin processed /\ processed' = processed \cup {file}
      /\ current' = file /\ unread' = imports[file]
  BY <1>0 DEF Process
<1>1. /\ phase = "discover" /\ unread = <<>> /\ toProcess # <<>> /\ file \notin processed
      /\ toProcess' = Front(toProcess) /\ processed' = processed \cup {file}
      /\ current' = file /\ unread' = imports[file]
      /\ UNCHANGED <<project, phase, unresolved, nodes, dependencies>>
  BY <1>a, <1>b, Zenon
<1>2. toProcess \in Seq(Files) /\ ToSet(unread) = {}
  <2>1. toProcess \in Seq(Files)
    BY DEF Inductive, Typed
  <2>2. unread = <<>> /\ unread \in Seq(Files \cup {Missing})
    BY <1>1 DEF Inductive, Typed
  <2>3. ToSet(unread) = {}
    BY <2>2, Elements
  <2> QED
    BY <2>1, <2>3
<1>3. /\ ToSet(toProcess) = ToSet(toProcess') \cup {file}
      /\ file \in ToSet(toProcess)
  BY <1>0, <1>1, <1>2, FrontAndTail
<1>4. file \in nodes /\ file \in Files
  BY <1>3 DEF Inductive, Edges, Typed
<1>5. (\A f : Deps(f)' = Deps(f)) /\ Plan!Imported' = Plan!Imported
  BY <1>1, ImportedKept DEF Deps
<1>6. (\A f \in processed : Unread(f) = {} /\ Unread(f)' = {}) /\ Unread(file)' = ToSet(imports[file])
  <2>1. \A f : Unread(f) = {}
    BY <1>2 DEF Unread
  <2>2. \A f : Unread(f)' = IF f = current' THEN ToSet(unread') ELSE {}
    BY DEF Unread
  <2> QED
    BY <1>1, <2>1, <2>2
<1>7. file \in Plan!Imported
  BY <1>1, <1>4, NodesImported
<1>8. ASSUME NEW f \in processed'
      PROVE  /\ ToSet(imports'[f]) \subseteq Deps(f)' \cup {Missing} \cup Unread(f)'
             /\ Missing \in ToSet(imports'[f]) => unresolved' \/ Missing \in Unread(f)'
  <2>1. CASE f = file
    <3>1. imports' = imports
      BY <1>1 DEF project
    <3>2. Unread(f)' = ToSet(imports[f])
      BY <1>6, <2>1
    <3> QED
      BY <3>1, <3>2
  <2>2. CASE f \in processed
    <3>1. ToSet(imports[f]) \subseteq Deps(f) \cup {Missing} \cup Unread(f)
      BY <2>2 DEF Read
    <3>2. Missing \in ToSet(imports[f]) => unresolved \/ Missing \in Unread(f)
      BY <2>2 DEF Read
    <3> QED
      BY <1>1, <1>5, <1>6, <2>2, <3>1, <3>2 DEF project
  <2> QED
    BY <1>1, <2>1, <2>2
<1>9. \A f \in Files \ processed' : dependencies'[f] = <<>>
  BY <1>1 DEF Read
<1>10. unresolved' => \E f \in processed' : Missing \in ToSet(imports'[f])
  BY <1>1 DEF Read, project
<1>11. nodes' \subseteq processed' \cup ToSet(toProcess')
  BY <1>1, <1>3 DEF Read
<1>12. processed' \subseteq Plan!Imported'
  BY <1>1, <1>5, <1>7 DEF Read
<1> QED
  BY <1>1, <1>8, <1>9, <1>10, <1>11, <1>12 DEF Read

LEMMA ResolveReads ==
  ASSUME Inductive, Read, Resolve
  PROVE  Read'
<1> DEFINE dep == Head(unread)
<1>1. /\ phase = "discover" /\ unread # <<>> /\ unread' = Tail(unread)
      /\ UNCHANGED <<project, phase, processed, current>>
  BY DEF Resolve
<1>2. current \in processed /\ current \in Files /\ unread \in Seq(Files \cup {Missing})
      /\ processed \subseteq Files /\ toProcess \in Seq(Files)
      /\ dependencies \in [Files -> Seq(Files)]
  BY <1>1 DEF Inductive, Read, Typed
<1>3. ToSet(unread) = ToSet(unread') \cup {dep} /\ dep \in Files \cup {Missing}
  BY <1>1, <1>2, FrontAndTail
<1>4. \/ /\ dep = Missing /\ unresolved' = TRUE /\ UNCHANGED <<toProcess, nodes, dependencies>>
      \/ /\ dep # Missing /\ nodes' = nodes \cup {dep} /\ unresolved' = unresolved
         /\ dependencies' = [dependencies EXCEPT ![current] = Append(@, dep)]
         /\ toProcess' = IF dep \in processed THEN toProcess ELSE Append(toProcess, dep)
  BY DEF Resolve, graph
<1>5. Plan!Imported' = Plan!Imported
  BY <1>1, ImportedKept
<1>6. \A f : Unread(f) = IF f = current THEN Unread(f)' \cup {dep} ELSE Unread(f)'
  BY <1>1, <1>3 DEF Unread
<1>7. dep \in ToSet(imports[current])
  BY <1>3 DEF Inductive, Edges
<1>8. ASSUME NEW f \in Files
      PROVE  /\ Deps(f) \subseteq Deps(f)'
             /\ f = current /\ dep # Missing => dep \in Deps(f)'
             /\ f # current => dependencies'[f] = dependencies[f]
  <2>1. CASE dep = Missing
    BY <1>4, <2>1 DEF Deps
  <2>2. CASE dep # Missing /\ f # current
    BY <1>2, <1>4, <2>2 DEF Deps
  <2>3. CASE dep # Missing /\ f = current
    <3>1. dependencies'[f] = Append(dependencies[f], dep)
      BY <1>2, <1>4, <2>3
    <3>2. dependencies[f] \in Seq(Files) /\ dep \in Files
      BY <1>2, <1>3, <2>3
    <3> HIDE DEF dep
    <3> QED
      BY <2>3, <3>1, <3>2, AppendElements DEF Deps
  <2> QED
    BY <2>1, <2>2, <2>3
<1>9. nodes' \subseteq processed' \cup ToSet(toProcess')
  <2>1. nodes \subseteq processed \cup ToSet(toProcess)
    BY <1>1 DEF Read
  <2>2. CASE dep = Missing
    BY <1>1, <1>4, <2>1, <2>2
  <2>3. CASE dep \in processed /\ dep # Missing
    BY <1>1, <1>4, <2>1, <2>3
  <2>4. CASE dep \notin processed /\ dep # Missing
    <3>1. dep \in Files /\ toProcess' = Append(toProcess, dep)
      BY <1>3, <1>4, <2>4
    <3> HIDE DEF dep
    <3>2. ToSet(toProcess') = ToSet(toProcess) \cup {dep}
      BY <1>2, <3>1, AppendElements
    <3> QED
      BY <1>1, <1>4, <2>1, <2>4, <3>2
  <2> QED
    BY <2>2, <2>3, <2>4
<1> HIDE DEF dep
<1>10. ASSUME NEW f \in processed
       PROVE  /\ ToSet(imports[f]) \subseteq Deps(f)' \cup {Missing} \cup Unread(f)'
              /\ Missing \in ToSet(imports[f]) => unresolved' \/ Missing \in Unread(f)'
  <2>1. /\ ToSet(imports[f]) \subseteq Deps(f) \cup {Missing} \cup Unread(f)
        /\ Missing \in ToSet(imports[f]) => unresolved \/ Missing \in Unread(f)
        /\ f \in Files
    BY <1>2 DEF Read
  <2>2. Deps(f) \subseteq Deps(f)' /\ (f = current /\ dep # Missing => dep \in Deps(f)')
    BY <1>8, <2>1
  <2>3. (unresolved => unresolved') /\ (dep = Missing => unresolved')
    BY <1>4
  <2> QED
    BY <1>6, <2>1, <2>2, <2>3
<1>11. unresolved' => \E f \in processed' : Missing \in ToSet(imports'[f])
  <2>1. imports' = imports
    BY <1>1 DEF project
  <2>2. CASE dep = Missing
    BY <1>1, <1>2, <1>7, <2>1, <2>2
  <2>3. CASE dep # Missing
    BY <1>1, <1>4, <2>1, <2>3 DEF Read
  <2> QED
    BY <2>2, <2>3
<1>12. \A f \in Files \ processed' : dependencies'[f] = <<>>
  BY <1>1, <1>2, <1>8 DEF Read
<1>13. processed' \subseteq Plan!Imported'
  BY <1>1, <1>5 DEF Read
<1> QED
  BY <1>1, <1>2, <1>9, <1>10, <1>11, <1>12, <1>13 DEF Read, project

LEMMA AddSharedReads ==
  ASSUME Inductive, Read, AddShared
  PROVE  Read'
<1>1. /\ phase = "discover" /\ unread = <<>> /\ toProcess = <<>>
      /\ UNCHANGED <<project, processed, current, unread, unresolved, dependencies>>
      /\ \/ unresolved /\ phase' = "unresolved" /\ nodes' = nodes
         \/ ~unresolved /\ phase' = "search" /\ nodes' = nodes \cup shared
  BY DEF AddShared, discovery
<1>2. ToSet(toProcess) = {} /\ ToSet(unread) = {}
  BY <1>1 DEF ToSet
<1>3. (\A f : Deps(f)' = Deps(f) /\ Unread(f)' = Unread(f)) /\ Plan!Imported' = Plan!Imported
  BY <1>1, ImportedKept DEF Deps, Unread
<1>4. nodes = processed
  BY <1>1, <1>2 DEF Read, Inductive, Typed
<1>5. Entry \in processed /\ \A f \in processed : Deps(f) \subseteq processed
  BY <1>4 DEF Inductive, Typed, Edges
<1> QED
  BY <1>1, <1>3, <1>4, <1>5 DEF Read, project

\* From here on nothing is read any more.
LEMMA LaterReads ==
  ASSUME Inductive, Read, phase \notin {"discover", "unresolved"},
         phase' \notin {"discover", "unresolved"},
         UNCHANGED <<project, discovery, graph>>
  PROVE  Read'
<1>1. (\A f : Deps(f)' = Deps(f) /\ Unread(f)' = Unread(f)) /\ Plan!Imported' = Plan!Imported
  BY ImportedKept DEF Deps, Unread, discovery, graph
<1> QED
  BY <1>1 DEF Read, project, discovery, graph

LEMMA NextReads ==
  ASSUME Inductive, Read, [Next]_vars
  PROVE  Read'
<1>1. CASE SkipProcessed \/ Process \/ Resolve \/ AddShared
  BY <1>1, SkipProcessedReads, ProcessReads, ResolveReads, AddSharedReads
<1>2. CASE \/ StartSearch \/ FollowImport \/ Leave
           \/ StartSort \/ SortNode \/ Release \/ EndSort
  <2>1. /\ phase \in {"search", "sort"}
        /\ phase' \in {"search", "cyclic", "sort", "unsorted", "ordered"}
        /\ UNCHANGED <<project, discovery, graph>>
    BY <1>2 DEF StartSearch, FollowImport, Leave, StartSort, SortNode, Release, EndSort
  <2> QED
    BY <2>1, LaterReads
<1>3. CASE UNCHANGED vars
  <2>1. UNCHANGED <<project, phase, discovery, graph>>
    BY <1>3 DEF vars
  <2>2. (\A f : Deps(f)' = Deps(f) /\ Unread(f)' = Unread(f)) /\ Plan!Imported' = Plan!Imported
    BY <2>1, ImportedKept DEF Deps, Unread, discovery, graph
  <2> QED
    BY <2>1, <2>2 DEF Read, project, discovery, graph
<1> QED
  BY <1>1, <1>2, <1>3 DEF Next

\* After discovery the nodes and edges are what the plan speaks of.
LEMMA Settled ==
  ASSUME Inductive, Read, phase \notin {"discover", "unresolved"}
  PROVE  /\ processed = Plan!Imported
         /\ nodes = Plan!Members
         /\ \A f \in Plan!Imported : Deps(f) = ToSet(imports[f])
         /\ \A f \in Files \ Plan!Imported : Deps(f) = {}
         /\ ~Plan!Unresolved
<1> DEFINE R == Plan!ReachedFrom({Entry})
<1>1. Typed /\ processed \subseteq Files /\ Entry \in Files
  BY DEF Inductive, Typed
<1>2. unread = <<>> /\ \A f : Unread(f) = {}
  BY DEF Read, Unread, ToSet
<1>3. \A f \in processed : ToSet(imports[f]) \subseteq Deps(f) \cup {Missing} /\ Missing \notin ToSet(imports[f])
  BY <1>2 DEF Read
<1>4. ASSUME NEW f \in processed PROVE Deps(f) = ToSet(imports[f])
  <2>1. ToSet(imports[f]) \subseteq Deps(f)
    BY <1>3
  <2>2. Deps(f) \subseteq ToSet(imports[f])
    BY <1>1 DEF Inductive, Edges
  <2> QED
    BY <2>1, <2>2
<1>5. Entry \in processed /\ \A f \in processed : ToSet(imports[f]) \ {Missing} \subseteq processed
  BY <1>4 DEF Read
<1>6. R \subseteq processed
  BY <1>1, <1>5, Reached
<1>7. R = Plan!Imported
  BY DEF Plan!Imported
<1> HIDE DEF R
<1>8. processed = Plan!Imported
  BY <1>6, <1>7 DEF Read
<1>9. nodes = Plan!Members
  BY <1>8 DEF Read, Plan!Members
<1>10. \A f \in Files \ Plan!Imported : Deps(f) = {}
  <2>1. ToSet(<<>>) = {}
    BY DEF ToSet
  <2> QED
    BY <1>8, <2>1 DEF Read, Deps
<1>11. ~Plan!Unresolved
  BY <1>3, <1>8, SameElements DEF Plan!Unresolved
<1> QED
  BY <1>4, <1>8, <1>9, <1>10, <1>11

-----------------------------------------------------------------------------
LEMMA InitSized == Init => Sized
<1> SUFFICES ASSUME Init PROVE Sized
  OBVIOUS
<1>1. \A f \in Files : Len(imports[f]) \in Nat
  BY InitInductive, LenProperties DEF Inductive, Typed
<1>2. /\ unread = <<>> /\ current = Entry
      /\ \A f \in Files : dependencies[f] = <<>> /\ cursor[f] = 1
  BY DEF Init
<1> QED
  BY <1>1, <1>2 DEF Sized

LEMMA NextSized ==
  ASSUME Inductive, Read, Sized, [Next]_vars
  PROVE  Sized'
<1>1. /\ \A f \in Files : /\ imports[f] \in Seq(Files \cup {Missing}) /\ Len(imports[f]) \in Nat
                          /\ dependencies[f] \in Seq(Files) /\ Len(dependencies[f]) \in Nat
      /\ unread \in Seq(Files \cup {Missing}) /\ Len(unread) \in Nat
      /\ current \in Files
  BY LenProperties DEF Inductive, Typed
<1>2. CASE Process
  <2>0. PICK file : file = Last(toProcess)
    OBVIOUS
  <2>1. /\ file \notin processed /\ current' = file /\ unread' = imports[file] /\ unread = <<>>
        /\ toProcess # <<>> /\ UNCHANGED <<imports, dependencies, cursor>>
    BY <1>2, <2>0 DEF Process, graph, project, search
  <2>2. file \in Files /\ dependencies[file] = <<>>
    BY <2>0, <2>1, FrontAndTail DEF Read, Inductive, Typed
  <2>3. Len(dependencies[file]) + Len(imports[file]) <= Len(imports[file])
    BY <1>1, <2>2
  <2> QED
    BY <2>1, <2>2, <2>3 DEF Sized
<1>3. CASE Resolve
  <2>0. PICK dep : dep = Head(unread)
    OBVIOUS
  <2>1. /\ unread # <<>> /\ unread' = Tail(unread) /\ UNCHANGED <<imports, current, cursor>>
        /\ \/ dependencies' = dependencies
           \/ dep # Missing /\ dependencies' = [dependencies EXCEPT ![current] = Append(@, dep)]
    BY <1>3, <2>0 DEF Resolve, graph, project, search
  <2>2. Len(unread') = Len(unread) - 1 /\ dep \in Files \cup {Missing}
    BY <1>1, <2>0, <2>1, FrontAndTail
  <2>3. /\ Len(dependencies[current]) + Len(unread) <= Len(imports[current])
        /\ Len(dependencies[current]) \in Nat /\ Len(imports[current]) \in Nat
        /\ Len(unread) \in Nat \ {0}
    BY <1>1, <2>1, EmptySeq DEF Sized
  <2>4. CASE dependencies' = dependencies
    BY <1>1, <2>1, <2>2, <2>3, <2>4 DEF Sized
  <2>5. CASE dep # Missing /\ dependencies' = [dependencies EXCEPT ![current] = Append(@, dep)]
    <3>1. /\ dependencies'[current] = Append(dependencies[current], dep)
          /\ \A f \in Files \ {current} : dependencies'[f] = dependencies[f]
      BY <1>1, <2>5 DEF Inductive, Typed
    <3>2. Len(dependencies'[current]) = Len(dependencies[current]) + 1
      BY <1>1, <2>2, <2>5, <3>1, AppendElements
    <3>3. Len(dependencies'[current]) <= Len(imports[current])
      BY <2>3, <3>2
    <3>4. Len(dependencies'[current]) + Len(unread') <= Len(imports[current])
      BY <2>2, <2>3, <3>2
    <3> QED
      BY <2>1, <3>1, <3>3, <3>4 DEF Sized
  <2> QED
    BY <2>1, <2>4, <2>5
<1>4. CASE FollowImport
  <2>0. PICK node : node = Last(path)
    OBVIOUS
  <2>1. /\ path # <<>> /\ cursor[node] <= Len(dependencies[node])
        /\ cursor' = [cursor EXCEPT ![node] = @ + 1]
        /\ UNCHANGED <<imports, dependencies, current, unread>>
    BY <1>4, <2>0 DEF FollowImport, project, graph, discovery
  <2>2. node \in Files /\ cursor[node] \in Nat
    BY <2>0, <2>1, PathEnd
  <2>3. Len(dependencies[node]) <= Len(imports[node]) /\ Len(imports[node]) <= MaxPerFile
    BY <2>2 DEF Sized, Inductive, Typed
  <2>4. cursor[node] + 1 <= MaxPerFile + 1
    BY <1>1, <2>1, <2>2, <2>3
  <2>5. \A f \in Files : cursor'[f] <= MaxPerFile + 1
    BY <2>1, <2>4 DEF Sized, Inductive, Typed
  <2> QED
    BY <2>1, <2>5 DEF Sized
<1>5. CASE ~Process /\ ~Resolve /\ ~FollowImport
  <2>1. UNCHANGED <<imports, dependencies, current, unread, cursor>>
    BY <1>5 DEF Next, SkipProcessed, AddShared, StartSearch, Leave, StartSort,
                SortNode, Release, EndSort, project, discovery, graph, search, vars
  <2> QED
    BY <2>1 DEF Sized
<1> QED
  BY <1>2, <1>3, <1>4, <1>5

-----------------------------------------------------------------------------
\* One place fewer holds the head of a sequence in its tail.
LEMMA PlacesOfTail ==
  ASSUME NEW S, NEW s \in Seq(S), s # <<>>, NEW x
  PROVE  /\ Cardinality(Places(s, x)) \in Nat /\ Cardinality(Places(Tail(s), x)) \in Nat
         /\ Cardinality(Places(s, x)) =
              Cardinality(Places(Tail(s), x)) + (IF x = Head(s) THEN 1 ELSE 0)
<1>1. /\ Len(s) \in Nat \ {0} /\ Head(s) = s[1]
      /\ Tail(s) \in Seq(S) /\ Len(Tail(s)) = Len(s) - 1
      /\ \A i \in 1..(Len(s) - 1) : Tail(s)[i] = s[i + 1]
  BY FrontAndTail
<1>2. Places(s, x) = {i \in 1..Len(s) : s[i] = x}
  BY <1>1, LenProperties DEF Places
<1>3. Places(Tail(s), x) = {i \in 1..(Len(s) - 1) : s[i + 1] = x}
  BY <1>1, LenProperties DEF Places
<1> DEFINE I == Places(s, x)
           J == Places(Tail(s), x)
           shift == [j \in J |-> j + 1]
<1>4. IsFiniteSet(I) /\ Cardinality(I) \in Nat /\ IsFiniteSet(J) /\ Cardinality(J) \in Nat
  <2>1. IsFiniteSet(1..Len(s)) /\ IsFiniteSet(1..(Len(s) - 1))
    BY <1>1, FS_Interval
  <2>2. I \subseteq 1..Len(s) /\ J \subseteq 1..(Len(s) - 1)
    BY <1>2, <1>3
  <2> QED
    BY <2>1, <2>2, FS_Subset, FS_CardinalityType
<1>5. shift \in Bijection(J, I \ {1})
  <2>1. \A j \in J : j + 1 \in I \ {1}
    BY <1>1, <1>2, <1>3
  <2>2. \A i \in I \ {1} : i - 1 \in J /\ (i - 1) + 1 = i
    BY <1>1, <1>2, <1>3
  <2>3. \A j, k \in J : j + 1 = k + 1 => j = k
    BY <1>1, <1>3
  <2> QED
    BY <2>1, <2>2, <2>3 DEF Bijection, Injection, Surjection, IsInjective
<1>6. Cardinality(I \ {1}) = Cardinality(J)
  BY <1>4, <1>5, FS_Bijection DEF ExistsBijection
<1>7. 1 \in I <=> x = Head(s)
  BY <1>1, <1>2
<1>8. Cardinality(I \ {1}) = IF 1 \in I THEN Cardinality(I) - 1 ELSE Cardinality(I)
  BY <1>4, FS_RemoveElement
<1> HIDE DEF I, J
<1>9. Cardinality(I) = Cardinality(J) + (IF x = Head(s) THEN 1 ELSE 0)
  BY <1>4, <1>6, <1>7, <1>8
<1> QED
  BY <1>4, <1>9 DEF I, J

\* No place of the empty sequence holds anything.
LEMMA PlacesOfEmpty == \A x : Cardinality(Places(<<>>, x)) = 0
BY FS_EmptySet DEF Places

\* A sequence without repetitions is as long as it has elements.
LEMMA DistinctCounted ==
  ASSUME NEW S, NEW s \in Seq(S), Distinct(s)
  PROVE  IsFiniteSet(ToSet(s)) /\ Cardinality(ToSet(s)) = Len(s)
<1> DEFINE n == Len(s)
           g == [i \in 1..n |-> s[i]]
<1>1. n \in Nat /\ \A x : x \in ToSet(s) <=> \E i \in 1..n : s[i] = x
  BY Elements, LenProperties
<1>2. g \in Bijection(1..n, ToSet(s))
  <2>1. g \in [1..n -> ToSet(s)] /\ \A y \in ToSet(s) : \E i \in 1..n : g[i] = y
    BY <1>1
  <2>2. \A i, j \in 1..n : g[i] = g[j] => i = j
    BY DEF Distinct
  <2> HIDE DEF g, n
  <2> QED
    BY <2>1, <2>2 DEF Bijection, Injection, Surjection, IsInjective
<1> HIDE DEF g, n
<1>3. IsFiniteSet(1..n) /\ Cardinality(1..n) = n
  <2>1. IsFiniteSet(1..n) /\ Cardinality(1..n) = IF 1 > n THEN 0 ELSE n - 1 + 1
    BY <1>1, FS_Interval
  <2> QED
    BY <1>1, <2>1
<1>4. IsFiniteSet(ToSet(s)) /\ Cardinality(ToSet(s)) = Cardinality(1..n)
  BY <1>2, <1>3, FS_Bijection DEF ExistsBijection
<1> QED
  BY <1>3, <1>4 DEF n

\* The edges from a set of nodes are finitely many, and those from one node are
\* as many as the places of its imports.
LEMMA EdgesSplit ==
  ASSUME Inductive, Sized, NEW from \in SUBSET nodes, NEW n \in from, NEW x
  PROVE  /\ IsFiniteSet(EdgesInto(x, from)) /\ Cardinality(EdgesInto(x, from)) \in Nat
         /\ Cardinality(EdgesInto(x, from)) =
              Cardinality(EdgesInto(x, from \ {n})) + Cardinality(Places(dependencies[n], x))
<1> DEFINE I == Places(dependencies[n], x)
           C == {<<n, i>> : i \in I}
           A == EdgesInto(x, from)
           B == EdgesInto(x, from \ {n})
           pair == [i \in I |-> <<n, i>>]
<1>1. nodes \subseteq Files /\ dependencies \in [Files -> Seq(Files)]
      /\ \A f \in Files : Len(imports[f]) <= MaxPerFile /\ Len(imports[f]) \in Nat
  BY LenProperties DEF Inductive, Typed
<1>2. \A f \in Files : DOMAIN dependencies[f] \subseteq 1..MaxPerFile
  <2> SUFFICES ASSUME NEW f \in Files PROVE DOMAIN dependencies[f] \subseteq 1..MaxPerFile
    OBVIOUS
  <2>1. dependencies[f] \in Seq(Files) /\ Len(dependencies[f]) \in Nat
        /\ DOMAIN dependencies[f] = 1..Len(dependencies[f])
    BY <1>1, LenProperties
  <2>3. Len(dependencies[f]) <= Len(imports[f])
    BY DEF Sized
  <2> QED
    BY <1>1, <2>1, <2>3
<1>3. A = B \cup C /\ B \cap C = {}
  BY <1>1, <1>2 DEF EdgesInto, Places
<1>4. IsFiniteSet(nodes \X (1..MaxPerFile))
  <2>1. IsFiniteSet(nodes)
    BY <1>1, FS_Subset
  <2>2. IsFiniteSet(1..MaxPerFile)
    BY FS_Interval
  <2> QED
    BY <2>1, <2>2, FS_Product
<1>5. IsFiniteSet(A) /\ IsFiniteSet(B) /\ IsFiniteSet(C)
  <2>1. A \subseteq nodes \X (1..MaxPerFile) /\ B \subseteq nodes \X (1..MaxPerFile)
    BY DEF EdgesInto
  <2>2. C \subseteq A
    BY <1>3
  <2> HIDE DEF A, B, C
  <2> QED
    BY <1>4, <2>1, <2>2, FS_Subset
<1>6. Cardinality(C) = Cardinality(I)
  <2>1. IsFiniteSet(I)
    <3>1. I \subseteq 1..MaxPerFile
      BY <1>1, <1>2 DEF Places
    <3>2. IsFiniteSet(1..MaxPerFile)
      BY FS_Interval
    <3> HIDE DEF I
    <3> QED
      BY <3>1, <3>2, FS_Subset
  <2>2. pair \in Bijection(I, C)
    BY DEF Bijection, Injection, Surjection, IsInjective
  <2> HIDE DEF I, C, pair
  <2> QED
    BY <2>1, <2>2, FS_Bijection DEF ExistsBijection
<1>7. Cardinality(A) = Cardinality(B) + Cardinality(C) - Cardinality(B \cap C)
  <2> HIDE DEF A, B, C
  <2> QED
    BY <1>3, <1>5, FS_Union
<1>8. Cardinality(B \cap C) = 0
  BY <1>3, FS_EmptySet
<1>9. Cardinality(A) \in Nat /\ Cardinality(B) \in Nat /\ Cardinality(C) \in Nat
  <2> HIDE DEF A, B, C
  <2> QED
    BY <1>5, FS_CardinalityType
<1> HIDE DEF A, B, C, I
<1>10. Cardinality(A) = Cardinality(B) + Cardinality(I)
  BY <1>6, <1>7, <1>8, <1>9
<1> QED
  BY <1>5, <1>9, <1>10 DEF A, B, I

\* A node has an edge from one of some nodes just when one of them imports it.
LEMMA EdgesCounted ==
  ASSUME Inductive, Sized, NEW from \in SUBSET nodes, NEW x
  PROVE  /\ Cardinality(EdgesInto(x, from)) \in Nat
         /\ Cardinality(EdgesInto(x, from)) = 0 <=> \A f \in from : x \notin Deps(f)
<1>1. CASE from = {}
  <2>1. EdgesInto(x, from) = {}
    BY <1>1 DEF EdgesInto
  <2>2. Cardinality(EdgesInto(x, from)) = 0
    BY <2>1, FS_EmptySet
  <2> QED
    BY <1>1, <2>2
<1>2. CASE from # {}
  <2>1. IsFiniteSet(EdgesInto(x, from)) /\ Cardinality(EdgesInto(x, from)) \in Nat
    BY <1>2, EdgesSplit
  <2>2. Cardinality(EdgesInto(x, from)) = 0 <=> EdgesInto(x, from) = {}
    BY <2>1, FS_EmptySet
  <2>3. EdgesInto(x, from) = {} => \A f \in from : x \notin Deps(f)
    <3> SUFFICES ASSUME NEW f \in from, x \in Deps(f) PROVE EdgesInto(x, from) # {}
      OBVIOUS
    <3>1. /\ f \in Files /\ dependencies[f] \in Seq(Files) /\ Len(dependencies[f]) \in Nat
          /\ DOMAIN dependencies[f] = 1..Len(dependencies[f])
          /\ Len(imports[f]) <= MaxPerFile /\ Len(imports[f]) \in Nat
      BY LenProperties DEF Inductive, Typed
    <3>2. PICK i \in 1..Len(dependencies[f]) : dependencies[f][i] = x
      BY <3>1, DepsIndexed DEF Inductive
    <3>3. i \in 1..MaxPerFile
      BY <3>1, <3>2 DEF Sized
    <3>4. <<f, i>> \in EdgesInto(x, from)
      BY <3>1, <3>2, <3>3 DEF EdgesInto
    <3> QED
      BY <3>4
  <2>4. ASSUME NEW edge \in EdgesInto(x, from) PROVE \E f \in from : x \in Deps(f)
    <3>1. /\ edge[1] \in from /\ edge[2] \in DOMAIN dependencies[edge[1]]
          /\ dependencies[edge[1]][edge[2]] = x
      BY DEF EdgesInto
    <3> QED
      BY <3>1 DEF Deps, ToSet
  <2> QED
    BY <2>1, <2>2, <2>3, <2>4
<1> QED
  BY <1>1, <1>2

\* The exactness of the degrees, after a step that leaves the graph alone.
LEMMA ExactNext ==
  ASSUME UNCHANGED <<nodes, dependencies>>,
         \A f \in nodes : inDegree'[f] = Cardinality(EdgesInto(f, nodes \ ToSet(result')))
                                           + Cardinality(Places(released', f)),
         ToSet(queue') = {f \in nodes : inDegree'[f] = 0} \ ToSet(result')
  PROVE  DegreesExact'
BY DEF DegreesExact, EdgesInto, Places

\* The degrees of the sort, in the terms of the lemmas.
LEMMA ExactNow ==
  ASSUME DegreesExact, phase = "sort"
  PROVE  /\ \A f \in nodes : inDegree[f] = Cardinality(EdgesInto(f, nodes \ ToSet(result)))
                                             + Cardinality(Places(released, f))
         /\ ToSet(queue) = {f \in nodes : inDegree[f] = 0} \ ToSet(result)
BY DEF DegreesExact, Places

LEMMA StartSortSorts ==
  ASSUME Inductive, Sized, Sorted, StartSort
  PROVE  Sorted'
<1>1. /\ phase = "search" /\ phase' = "sort" /\ inDegree' = Degrees
      /\ queue' \in SetToSeqs({f \in nodes : inDegree'[f] = 0})
      /\ UNCHANGED <<nodes, dependencies, released, result>>
  BY DEF StartSort, graph
<1>2. released = <<>> /\ result = <<>> /\ nodes \subseteq Files
  BY <1>1 DEF Sorted, Inductive, Typed
<1>3. \A f \in nodes : Cardinality(EdgesInto(f, nodes)) \in Nat
  BY EdgesCounted
<1>4. inDegree' \in [Files -> Nat] /\ \A f \in nodes : inDegree'[f] = Cardinality(EdgesInto(f, nodes))
  BY <1>1, <1>2, <1>3 DEF Degrees
<1> DEFINE Z == {f \in nodes : inDegree'[f] = 0}
           n == Cardinality(Z)
<1>5. /\ queue' \in [1..n -> Z] /\ \A i, j \in 1..n : i # j => queue'[i] # queue'[j]
  BY <1>1 DEF SetToSeqs
<1>6. IsFiniteSet(Z) /\ n \in Nat
  <2>1. Z \subseteq Files
    BY <1>2
  <2> HIDE DEF Z
  <2> QED
    BY <2>1, FS_Subset, FS_CardinalityType
<1>7. queue' \in Seq(Z) /\ Len(queue') = n
  <2> HIDE DEF Z, n
  <2>1. queue' \in Seq(Z)
    BY <1>5, <1>6, SeqDef
  <2> QED
    BY <1>5, <1>6, <2>1, LenProperties
<1>8. ToSet(queue') = Z
  <2> DEFINE q == queue'
  <2>1. q \in Injection(1..n, Z)
    BY <1>5 DEF Injection, IsInjective
  <2>2. IsFiniteSet(1..n) /\ Cardinality(1..n) = Cardinality(Z)
    BY <1>6, FS_Interval
  <2> HIDE DEF Z, q
  <2>3. q \in Surjection(1..n, Z)
    BY <1>6, <2>1, <2>2, FS_Injection
  <2>4. \A z \in Z : \E i \in 1..n : q[i] = z
    BY <2>3 DEF Surjection
  <2>5. q \in Seq(Z) /\ Len(q) = n
    BY <1>7 DEF q
  <2> HIDE DEF n
  <2>6. ToSet(q) \subseteq Z /\ \A x : x \in ToSet(q) <=> \E i \in 1..n : q[i] = x
    BY <2>5, Elements
  <2>7. ToSet(q) = Z
    BY <2>4, <2>6
  <2> QED
    BY <2>7 DEF q
<1>9. queue' \in Seq(Files)
  <2>1. Z \subseteq Files
    BY <1>2
  <2> HIDE DEF Z
  <2> QED
    BY <1>7, <2>1, SeqMonotonic
<1>10. ToSet(result') = {} /\ ToSet(released') = {} /\ released' = <<>> /\ result' = <<>>
  BY <1>1, <1>2 DEF ToSet
<1>11. DegreesExact'
  <2>1. \A f \in nodes : Cardinality(Places(released', f)) = 0
    BY <1>10, PlacesOfEmpty
  <2>2. nodes \ ToSet(result') = nodes
    BY <1>10
  <2>3. \A f \in nodes : inDegree'[f] = Cardinality(EdgesInto(f, nodes \ ToSet(result')))
                                           + Cardinality(Places(released', f))
    <3> SUFFICES ASSUME NEW f \in nodes
                 PROVE  inDegree'[f] = Cardinality(EdgesInto(f, nodes \ ToSet(result')))
                                        + Cardinality(Places(released', f))
      OBVIOUS
    <3>1. inDegree'[f] = Cardinality(EdgesInto(f, nodes)) /\ Cardinality(EdgesInto(f, nodes)) \in Nat
      BY <1>3, <1>4
    <3>2. Cardinality(Places(released', f)) = 0
      BY <2>1
    <3> QED
      BY <2>2, <3>1, <3>2
  <2> QED
    BY <1>1, <1>8, <1>10, <2>3, ExactNext
<1>12. Distinct(queue')
  BY <1>5, <1>7 DEF Distinct
<1>13. Distinct(result') /\ ImportersFirst'
  BY <1>10 DEF Distinct, ImportersFirst
<1> QED
  BY <1>1, <1>4, <1>9, <1>10, <1>11, <1>12, <1>13 DEF Sorted, Distinct

\* The tail of a sequence without repetitions leaves out its head.
LEMMA TailDistinct ==
  ASSUME NEW S, NEW s \in Seq(S), s # <<>>, Distinct(s)
  PROVE  Distinct(Tail(s)) /\ ToSet(Tail(s)) = ToSet(s) \ {Head(s)}
<1>1. /\ Len(s) \in Nat \ {0} /\ Head(s) = s[1]
      /\ Tail(s) \in Seq(S) /\ Len(Tail(s)) = Len(s) - 1
      /\ \A i \in 1..(Len(s) - 1) : Tail(s)[i] = s[i + 1]
      /\ ToSet(s) = ToSet(Tail(s)) \cup {Head(s)}
  BY FrontAndTail
<1>2. Distinct(Tail(s))
  <2> SUFFICES ASSUME NEW i \in 1..(Len(s) - 1), NEW j \in 1..(Len(s) - 1), Tail(s)[i] = Tail(s)[j]
               PROVE  i = j
    BY <1>1 DEF Distinct
  <2>1. i + 1 \in 1..Len(s) /\ j + 1 \in 1..Len(s) /\ s[i + 1] = s[j + 1]
    BY <1>1
  <2>2. i + 1 = j + 1
    BY <2>1 DEF Distinct
  <2> QED
    BY <2>2
<1>3. Head(s) \notin ToSet(Tail(s))
  <2> SUFFICES ASSUME NEW i \in 1..(Len(s) - 1), Tail(s)[i] = s[1] PROVE FALSE
    BY <1>1, Elements
  <2>1. i + 1 \in 1..Len(s) /\ 1 \in 1..Len(s) /\ s[i + 1] = s[1]
    BY <1>1
  <2>2. i + 1 = 1
    BY <2>1 DEF Distinct
  <2> QED
    BY <2>2
<1> QED
  BY <1>1, <1>2, <1>3

\* A value that is not in a sequence may be appended.
LEMMA AppendDistinct ==
  ASSUME NEW S, NEW s \in Seq(S), NEW e \in S, Distinct(s), e \notin ToSet(s)
  PROVE  Distinct(Append(s, e))
<1>1. /\ Len(Append(s, e)) = Len(s) + 1 /\ Len(s) \in Nat
      /\ \A i \in 1..Len(s) : Append(s, e)[i] = s[i]
      /\ Append(s, e)[Len(s) + 1] = e
      /\ \A i \in 1..Len(s) : s[i] # e
  BY AppendElements, Elements, LenProperties
<1> SUFFICES ASSUME NEW i \in 1..(Len(s) + 1), NEW j \in 1..(Len(s) + 1),
                    Append(s, e)[i] = Append(s, e)[j]
             PROVE  i = j
  BY <1>1 DEF Distinct
<1>2. CASE i \in 1..Len(s) /\ j \in 1..Len(s)
  BY <1>1, <1>2 DEF Distinct
<1>3. CASE i = Len(s) + 1 \/ j = Len(s) + 1
  BY <1>1, <1>3
<1> QED
  BY <1>1, <1>2, <1>3

LEMMA SortNodeSorts ==
  ASSUME Inductive, Sized, Sorted, SortNode
  PROVE  Sorted'
<1>0. PICK n : n = Head(queue)
  OBVIOUS
<1>1. /\ phase = "sort" /\ phase' = "sort" /\ released = <<>> /\ queue # <<>>
      /\ result' = Append(result, n) /\ queue' = Tail(queue) /\ released' = dependencies[n]
      /\ UNCHANGED <<nodes, dependencies, inDegree>>
  BY <1>0 DEF SortNode, graph
<1>2. /\ queue \in Seq(Files) /\ result \in Seq(Files) /\ inDegree \in [Files -> Nat]
      /\ ToSet(result) \subseteq nodes /\ Distinct(queue) /\ Distinct(result) /\ DegreesExact
      /\ (\A f \in ToSet(result) : inDegree[f] = 0) /\ ImportersFirst
      /\ nodes \subseteq Files /\ dependencies \in [Files -> Seq(Files)]
  <2>1. nodes \subseteq Files /\ dependencies \in [Files -> Seq(Files)]
    BY DEF Inductive, Typed
  <2> QED
    BY <1>1, <2>1 DEF Sorted
<1>3. /\ \A f \in nodes : inDegree[f] = Cardinality(EdgesInto(f, nodes \ ToSet(result)))
                                          + Cardinality(Places(released, f))
      /\ ToSet(queue) = {f \in nodes : inDegree[f] = 0} \ ToSet(result)
  BY <1>1, <1>2, ExactNow
<1>4. n \in ToSet(queue) /\ ToSet(queue') = ToSet(queue) \ {n} /\ Distinct(queue') /\ queue' \in Seq(Files)
  <2>1. /\ Tail(queue) \in Seq(Files) /\ Head(queue) \in ToSet(queue)
        /\ Distinct(Tail(queue)) /\ ToSet(Tail(queue)) = ToSet(queue) \ {Head(queue)}
    BY <1>1, <1>2, FrontAndTail, TailDistinct
  <2> QED
    BY <1>0, <1>1, <2>1
<1>5. n \in nodes /\ inDegree[n] = 0 /\ n \notin ToSet(result) /\ n \in Files
  BY <1>2, <1>3, <1>4
<1>6. /\ result' \in Seq(Files) /\ ToSet(result') = ToSet(result) \cup {n}
      /\ Len(result') = Len(result) + 1 /\ Len(result) \in Nat
      /\ \A i \in 1..Len(result) : result'[i] = result[i]
      /\ result'[Len(result) + 1] = n
      /\ Distinct(result')
  BY <1>1, <1>2, <1>5, AppendElements, AppendDistinct, LenProperties
<1>7. \A f \in nodes : Cardinality(Places(released, f)) = 0
  BY <1>1, PlacesOfEmpty
<1>8. DegreesExact'
  <2>1. n \in nodes \ ToSet(result) /\ (nodes \ ToSet(result)) \ {n} = nodes \ ToSet(result')
    BY <1>5, <1>6
  <2>2. ASSUME NEW f \in nodes
        PROVE  inDegree'[f] = Cardinality(EdgesInto(f, nodes \ ToSet(result')))
                                + Cardinality(Places(released', f))
    <3>1. /\ Cardinality(EdgesInto(f, nodes \ ToSet(result))) \in Nat
          /\ Cardinality(EdgesInto(f, nodes \ ToSet(result))) =
               Cardinality(EdgesInto(f, nodes \ ToSet(result'))) + Cardinality(Places(dependencies[n], f))
      BY <2>1, EdgesSplit
    <3>2. inDegree[f] = Cardinality(EdgesInto(f, nodes \ ToSet(result))) + Cardinality(Places(released, f))
      BY <1>3
    <3>3. Cardinality(Places(released, f)) = 0
      BY <1>7
    <3>4. inDegree'[f] = Cardinality(EdgesInto(f, nodes \ ToSet(result)))
      BY <1>1, <3>1, <3>2, <3>3
    <3> QED
      BY <1>1, <3>1, <3>4
  <2>3. ToSet(queue') = {f \in nodes : inDegree'[f] = 0} \ ToSet(result')
    BY <1>1, <1>3, <1>4, <1>6
  <2> QED
    BY <1>1, <2>2, <2>3, ExactNext
<1>9. \A f \in ToSet(result') : inDegree'[f] = 0
  BY <1>1, <1>2, <1>5, <1>6
<1>10. ImportersFirst'
  <2>1. \A f : Deps(f)' = Deps(f)
    BY <1>1 DEF Deps
  <2>2. ASSUME NEW j \in 1..Len(result'), NEW f \in nodes, result'[j] \in Deps(f)
        PROVE  \E i \in 1..(j - 1) : result'[i] = f
    <3>1. CASE j \in 1..Len(result)
      <4>1. PICK i \in 1..(j - 1) : result[i] = f
        BY <1>2, <1>6, <2>2, <3>1 DEF ImportersFirst
      <4>2. i \in 1..Len(result)
        BY <1>6, <3>1
      <4> QED
        BY <1>6, <4>1, <4>2
    <3>2. CASE j = Len(result) + 1
      <4>1. inDegree[n] = Cardinality(EdgesInto(n, nodes \ ToSet(result))) + Cardinality(Places(released, n))
        BY <1>3, <1>5
      <4>2. Cardinality(Places(released, n)) = 0
        BY <1>5, <1>7
      <4>3. Cardinality(EdgesInto(n, nodes \ ToSet(result))) \in Nat
        BY EdgesCounted
      <4>4. Cardinality(EdgesInto(n, nodes \ ToSet(result))) = 0
        BY <1>5, <4>1, <4>2, <4>3
      <4>5. f \notin nodes \ ToSet(result)
        BY <1>6, <2>2, <3>2, <4>4, EdgesCounted
      <4>6. PICK i \in 1..Len(result) : result[i] = f
        BY <1>2, <4>5, Elements
      <4> QED
        BY <1>6, <3>2, <4>6
    <3> QED
      BY <1>6, <3>1, <3>2
  <2> QED
    BY <1>1, <2>1, <2>2 DEF ImportersFirst
<1>11. released' \in Seq(Files) /\ ToSet(released') \subseteq nodes'
  BY <1>1, <1>2, <1>5 DEF Inductive, Edges, Deps
<1> QED
  BY <1>1, <1>2, <1>4, <1>5, <1>6, <1>8, <1>9, <1>10, <1>11 DEF Sorted, Distinct

LEMMA ReleaseSorts ==
  ASSUME Inductive, Sized, Sorted, Release
  PROVE  Sorted'
<1>0. PICK dep : dep = Head(released)
  OBVIOUS
<1>1. /\ phase = "sort" /\ phase' = "sort" /\ released # <<>> /\ released' = Tail(released)
      /\ inDegree' = [inDegree EXCEPT ![dep] = @ - 1]
      /\ queue' = IF inDegree'[dep] = 0 THEN Append(queue, dep) ELSE queue
      /\ UNCHANGED <<nodes, dependencies, result>>
  BY <1>0 DEF Release, Queueable, graph
<1>2. /\ queue \in Seq(Files) /\ result \in Seq(Files) /\ inDegree \in [Files -> Nat]
      /\ released \in Seq(Files) /\ ToSet(released) \subseteq nodes
      /\ ToSet(result) \subseteq nodes /\ Distinct(queue) /\ Distinct(result) /\ DegreesExact
      /\ (\A f \in ToSet(result) : inDegree[f] = 0) /\ ImportersFirst
      /\ nodes \subseteq Files
  BY <1>1 DEF Sorted, Inductive, Typed
<1>3. /\ \A f \in nodes : inDegree[f] = Cardinality(EdgesInto(f, nodes \ ToSet(result)))
                                          + Cardinality(Places(released, f))
      /\ ToSet(queue) = {f \in nodes : inDegree[f] = 0} \ ToSet(result)
  BY <1>1, <1>2, ExactNow
<1>4. /\ released' \in Seq(Files) /\ ToSet(released') \subseteq ToSet(released) /\ dep \in ToSet(released)
      /\ \A f : /\ Cardinality(Places(released, f)) \in Nat /\ Cardinality(Places(released', f)) \in Nat
                /\ Cardinality(Places(released, f)) =
                     Cardinality(Places(released', f)) + (IF f = dep THEN 1 ELSE 0)
  BY <1>0, <1>1, <1>2, FrontAndTail, PlacesOfTail
<1>5. dep \in nodes /\ dep \in Files
  BY <1>2, <1>4
<1>6. \A f \in nodes : Cardinality(EdgesInto(f, nodes \ ToSet(result))) \in Nat
  BY EdgesCounted
<1>7. inDegree[dep] \in Nat \ {0}
  <2>1. Cardinality(Places(released, dep)) = Cardinality(Places(released', dep)) + 1
    BY <1>4
  <2>2. inDegree[dep] = Cardinality(EdgesInto(dep, nodes \ ToSet(result))) + Cardinality(Places(released, dep))
    BY <1>3, <1>5
  <2>3. Cardinality(Places(released', dep)) \in Nat /\ Cardinality(EdgesInto(dep, nodes \ ToSet(result))) \in Nat
    BY <1>4, <1>5, <1>6
  <2> QED
    BY <2>1, <2>2, <2>3
<1>8. dep \notin ToSet(result) /\ dep \notin ToSet(queue)
  BY <1>2, <1>3, <1>7
<1>9. /\ inDegree' \in [Files -> Nat] /\ inDegree'[dep] = inDegree[dep] - 1
      /\ \A f \in Files \ {dep} : inDegree'[f] = inDegree[f]
  BY <1>1, <1>2, <1>5, <1>7
<1>10. /\ queue' \in Seq(Files) /\ Distinct(queue')
       /\ ToSet(queue') = ToSet(queue) \cup (IF inDegree'[dep] = 0 THEN {dep} ELSE {})
  <2>1. CASE inDegree'[dep] = 0
    BY <1>1, <1>2, <1>5, <1>8, <2>1, AppendElements, AppendDistinct
  <2>2. CASE inDegree'[dep] # 0
    BY <1>1, <1>2, <2>2
  <2> QED
    BY <2>1, <2>2
<1>11. DegreesExact'
  <2>1. ASSUME NEW f \in nodes
        PROVE  inDegree'[f] = Cardinality(EdgesInto(f, nodes \ ToSet(result')))
                                + Cardinality(Places(released', f))
    <3>1. inDegree[f] = Cardinality(EdgesInto(f, nodes \ ToSet(result))) + Cardinality(Places(released, f))
      BY <1>3
    <3>2. CASE f = dep
      <4>1. Cardinality(Places(released, f)) = Cardinality(Places(released', f)) + 1
        BY <1>4, <3>2
      <4>2. inDegree'[f] = inDegree[f] - 1
        BY <1>9, <3>2
      <4>3. Cardinality(Places(released', f)) \in Nat /\ Cardinality(EdgesInto(f, nodes \ ToSet(result))) \in Nat
        BY <1>4, <1>6
      <4> QED
        BY <1>1, <3>1, <4>1, <4>2, <4>3
    <3>3. CASE f # dep
      <4>1. Cardinality(Places(released, f)) = Cardinality(Places(released', f))
        BY <1>4, <3>3
      <4>2. inDegree'[f] = inDegree[f]
        BY <1>2, <1>9, <3>3
      <4> QED
        BY <1>1, <3>1, <4>1, <4>2
    <3> QED
      BY <3>2, <3>3
  <2>2. ToSet(queue') = {f \in nodes : inDegree'[f] = 0} \ ToSet(result')
    BY <1>1, <1>2, <1>3, <1>5, <1>7, <1>8, <1>9, <1>10
  <2> QED
    BY <1>1, <2>1, <2>2, ExactNext
<1>12. \A f \in ToSet(result') : inDegree'[f] = 0
  BY <1>1, <1>2, <1>8, <1>9
<1>13. ImportersFirst' /\ Distinct(result')
  BY <1>1, <1>2 DEF ImportersFirst, Deps
<1> QED
  BY <1>1, <1>2, <1>4, <1>9, <1>10, <1>11, <1>12, <1>13 DEF Sorted, Distinct

-----------------------------------------------------------------------------
\* After the search the nodes are acyclic.
LEMMA NodesAcyclic ==
  ASSUME Inductive, phase \in {"sort", "ordered"}
  PROVE  Acyclic(nodes) /\ \A f \in nodes : Deps(f) \subseteq nodes
<1>1. path = <<>> /\ visited = nodes /\ recStack = {}
  BY Elements DEF Inductive, Typed, Path, Searched
<1>2. Finished = nodes
  BY <1>1 DEF Finished
<1> QED
  BY <1>2 DEF Inductive, Searched

\* In an acyclic graph, some member of a set of nodes that is not empty is imported
\* by none of the set: a smallest set without such a member would lose a member
\* that imports none of it, and still be one.
LEMMA SomeNodeUnimported ==
  ASSUME NEW N, IsFiniteSet(N), Acyclic(N), NEW T \in SUBSET N, T # {}
  PROVE  \E x \in T : \A f \in T : x \notin Deps(f)
<1> DEFINE Bad == {V \in SUBSET N : V # {} /\ \A x \in V : \E f \in V : x \in Deps(f)}
<1>1. SUFFICES ASSUME Bad # {} PROVE FALSE
  OBVIOUS
<1>2. IsWellFoundedOn(StrictSubsetOrdering(N), SUBSET N)
  <2>1. FiniteSubsetsOf(N) = SUBSET N
    BY FS_FiniteSubsetsOfFinite
  <2>2. IsWellFoundedOn(StrictSubsetOrdering(N), FiniteSubsetsOf(N))
    BY FS_StrictSubsetOrderingWellFounded
  <2> QED
    BY <2>1, <2>2
<1>3. PICK V \in Bad : \A W \in Bad : <<W, V>> \notin StrictSubsetOrdering(N)
  <2>1. Bad \subseteq SUBSET N
    OBVIOUS
  <2> HIDE DEF Bad
  <2> QED
    BY <1>1, <1>2, <2>1, WFMin
<1>4. PICK s \in V : Deps(s) \cap V = {}
  BY <1>3 DEF Acyclic
<1>5. V \ {s} \in Bad
  <2>1. PICK f \in V : s \in Deps(f)
    BY <1>3, <1>4
  <2>2. f \in V \ {s}
    BY <1>4, <2>1
  <2>3. ASSUME NEW x \in V \ {s} PROVE \E g \in V \ {s} : x \in Deps(g)
    BY <1>3, <1>4
  <2> QED
    BY <1>3, <2>2, <2>3
<1>6. <<V \ {s}, V>> \in StrictSubsetOrdering(N)
  BY <1>3, <1>4 DEF StrictSubsetOrdering
<1> QED
  BY <1>3, <1>5, <1>6

\* When the queue runs dry every node is sorted.
LEMMA EveryNodeSorted ==
  ASSUME Inductive, Sized, Sorted, phase = "sort", released = <<>>, queue = <<>>
  PROVE  ToSet(result) = nodes /\ Len(result) = Cardinality(nodes) /\ Distinct(result)
<1>1. /\ result \in Seq(Files) /\ ToSet(result) \subseteq nodes /\ Distinct(result)
      /\ DegreesExact /\ nodes \subseteq Files /\ Len(result) \in Nat
  BY LenProperties DEF Sorted, Inductive, Typed
<1>2. /\ \A f \in nodes : inDegree[f] = Cardinality(EdgesInto(f, nodes \ ToSet(result)))
                                          + Cardinality(Places(released, f))
      /\ ToSet(queue) = {f \in nodes : inDegree[f] = 0} \ ToSet(result)
  BY <1>1, ExactNow
<1>3. IsFiniteSet(nodes)
  BY <1>1, FS_Subset
<1>4. ToSet(queue) = {}
  BY DEF ToSet
<1>5. nodes \ ToSet(result) = {}
  <2>1. SUFFICES ASSUME nodes \ ToSet(result) # {} PROVE FALSE
    OBVIOUS
  <2>2. PICK x \in nodes \ ToSet(result) : \A f \in nodes \ ToSet(result) : x \notin Deps(f)
    BY <1>3, <2>1, NodesAcyclic, SomeNodeUnimported
  <2>3. Cardinality(EdgesInto(x, nodes \ ToSet(result))) = 0
    BY <2>2, EdgesCounted
  <2>4. Cardinality(Places(released, x)) = 0
    BY PlacesOfEmpty
  <2>5. inDegree[x] = 0
    BY <1>2, <2>3, <2>4
  <2> QED
    BY <1>2, <1>4, <2>5
<1>6. ToSet(result) = nodes
  BY <1>1, <1>5
<1>7. Len(result) = Cardinality(nodes)
  BY <1>1, <1>6, DistinctCounted
<1> QED
  BY <1>1, <1>6, <1>7

\* Reversing an order and moving the entry last, index by index.
LEMMA EntryMoved ==
  ASSUME NEW r \in Seq(Files), Distinct(r), Entry \in ToSet(r)
  PROVE  LET o == EntryLast(Reverse(r))
             n == Len(r) IN
         /\ o \in Seq(Files) /\ Len(o) = n /\ n \in Nat \ {0} /\ o[n] = Entry
         /\ \E k \in 1..n : /\ r[n - k + 1] = Entry
                            /\ \A i \in 1..(n - 1) :
                                 o[i] = IF i < k THEN r[n - i + 1] ELSE r[n - i]
<1>0. PICK n : n = Len(r)
  OBVIOUS
<1>1. n \in Nat \ {0} /\ \A x : x \in ToSet(r) <=> \E i \in 1..n : r[i] = x
  BY <1>0, Elements, EmptySeq
<1>2. \A i \in 1..n : r[i] \in Files
  BY <1>0
<1>3. PICK v : v = Reverse(r)
  OBVIOUS
<1>4. v = [i \in 1..n |-> r[(n - i) + 1]]
  BY <1>0, <1>3 DEF Reverse
<1>5. v \in [1..n -> Files]
  BY <1>1, <1>2, <1>4
<1>6. v \in Seq(Files) /\ Len(v) = n
  <2>1. v \in Seq(Files)
    BY <1>1, <1>5, SeqDef
  <2> QED
    BY <1>1, <1>5, <2>1, LenProperties
<1>7. PICK k : k = CHOOSE i \in DOMAIN v : v[i] = Entry
  OBVIOUS
<1>8. k \in 1..n /\ v[k] = Entry
  <2>1. PICK j \in 1..n : r[j] = Entry
    BY <1>1
  <2>2. n - j + 1 \in 1..n /\ (n - (n - j + 1)) + 1 = j
    BY <1>1
  <2>3. v[n - j + 1] = Entry
    BY <1>4, <2>1, <2>2
  <2>4. DOMAIN v = 1..n /\ \E i \in DOMAIN v : v[i] = Entry
    BY <1>5, <2>2, <2>3
  <2> QED
    BY <1>7, <2>4
<1>9. PICK a, b : a = SubSeq(v, 1, k - 1) /\ b = SubSeq(v, k + 1, n)
  OBVIOUS
<1>10. EntryLast(v) = (a \o b) \o <<Entry>>
  BY <1>6, <1>7, <1>9 DEF EntryLast, RemoveAt
<1>11. a \in Seq(Files) /\ Len(a) = k - 1 /\ \A i \in 1..(k - 1) : a[i] = v[i]
  <2>1. \A i \in 1..(k - 1) : v[i] \in Files
    BY <1>1, <1>5, <1>8
  <2>2. 1 \in Int /\ k - 1 \in Int
    BY <1>8
  <2>3. /\ a \in Seq(Files)
        /\ Len(a) = IF 1 <= k - 1 THEN (k - 1) - 1 + 1 ELSE 0
        /\ \A i \in 1..((k - 1) - 1 + 1) : a[i] = v[1 + i - 1]
    BY <1>9, <2>1, <2>2, SubSeqProperties
  <2>4. (k - 1) - 1 + 1 = k - 1 /\ \A i \in 1..(k - 1) : 1 + i - 1 = i
    BY <1>8
  <2>5. \A m \in Nat : m # 0 => (IF 1 <= m - 1 THEN (m - 1) - 1 + 1 ELSE 0) = m - 1
    OBVIOUS
  <2>6. k \in Nat /\ k # 0
    BY <1>8
  <2>7. Len(a) = k - 1
    BY <2>3, <2>5, <2>6
  <2>8. \A i \in 1..(k - 1) : a[i] = v[i]
    BY <2>3, <2>4
  <2> QED
    BY <2>3, <2>7, <2>8
<1>12. b \in Seq(Files) /\ Len(b) = n - k /\ \A i \in 1..(n - k) : b[i] = v[k + i]
  <2>1. \A i \in (k + 1)..n : v[i] \in Files
    BY <1>1, <1>5, <1>8
  <2>2. k + 1 \in Int /\ n \in Int
    BY <1>1, <1>8
  <2>3. /\ b \in Seq(Files)
        /\ Len(b) = IF k + 1 <= n THEN n - (k + 1) + 1 ELSE 0
        /\ \A i \in 1..(n - (k + 1) + 1) : b[i] = v[(k + 1) + i - 1]
    BY <1>9, <2>1, <2>2, SubSeqProperties
  <2>4. n - (k + 1) + 1 = n - k /\ \A i \in 1..(n - k) : (k + 1) + i - 1 = k + i
    BY <1>1, <1>8
  <2>5. \A m, l \in Nat : l <= m => (IF l + 1 <= m THEN m - (l + 1) + 1 ELSE 0) = m - l
    OBVIOUS
  <2>6. k \in Nat /\ n \in Nat /\ k <= n
    BY <1>1, <1>8
  <2>7. Len(b) = n - k
    BY <2>3, <2>5, <2>6
  <2>8. \A i \in 1..(n - k) : b[i] = v[k + i]
    BY <2>3, <2>4
  <2> QED
    BY <2>3, <2>7, <2>8
<1>13. PICK c : c = a \o b
  OBVIOUS
<1>14. c \in Seq(Files) /\ Len(c) = n - 1 /\ \A i \in 1..(n - 1) : c[i] = IF i < k THEN v[i] ELSE v[i + 1]
  <2>1. /\ c \in Seq(Files) /\ Len(c) = Len(a) + Len(b)
        /\ \A i \in 1..(Len(a) + Len(b)) : c[i] = IF i <= Len(a) THEN a[i] ELSE b[i - Len(a)]
    BY <1>11, <1>12, <1>13, ConcatProperties
  <2>2. Len(a) + Len(b) = n - 1
    BY <1>1, <1>8, <1>11, <1>12
  <2>3. ASSUME NEW i \in 1..(n - 1) PROVE c[i] = IF i < k THEN v[i] ELSE v[i + 1]
    <3>1. CASE i < k
      <4>1. i \in 1..(k - 1) /\ i <= Len(a)
        BY <1>8, <1>11, <3>1
      <4> QED
        BY <1>11, <2>1, <2>2, <3>1, <4>1
    <3>2. CASE ~(i < k)
      <4>1. i - (k - 1) \in 1..(n - k) /\ ~(i <= k - 1) /\ k + (i - (k - 1)) = i + 1
        BY <1>1, <1>8, <3>2
      <4>2. c[i] = b[i - (k - 1)]
        BY <1>11, <2>1, <2>2, <4>1
      <4> QED
        BY <1>12, <3>2, <4>1, <4>2
    <3> QED
      BY <3>1, <3>2
  <2> QED
    BY <2>1, <2>2, <2>3
<1>15. PICK o : o = EntryLast(Reverse(r))
  OBVIOUS
<1>16. o = Append(c, Entry)
  BY <1>3, <1>10, <1>13, <1>14, <1>15, AppendIsConcat
<1>17. o \in Seq(Files) /\ Len(o) = (n - 1) + 1 /\ o[(n - 1) + 1] = Entry /\ \A i \in 1..(n - 1) : o[i] = c[i]
  BY <1>14, <1>16, AppendElements
<1>18. (n - 1) + 1 = n
  BY <1>1
<1>19. \A i \in 1..n : v[i] = r[(n - i) + 1]
  BY <1>4
<1>20. \A i \in 1..(n - 1) : i \in 1..n /\ i + 1 \in 1..n /\ (n - (i + 1)) + 1 = n - i
  BY <1>1
<1>21. \A i \in 1..(n - 1) : o[i] = IF i < k THEN r[n - i + 1] ELSE r[n - i]
  BY <1>14, <1>17, <1>19, <1>20
<1>22. r[n - k + 1] = Entry
  BY <1>8, <1>19
<1> QED
  BY <1>0, <1>1, <1>8, <1>15, <1>17, <1>18, <1>21, <1>22

\* The order that the sort returns is a plan.
LEMMA OrderIsPlan ==
  ASSUME Inductive, Read, Sized, Sorted, phase = "sort", released = <<>>, queue = <<>>
  PROVE  /\ Plan!IsPlan(EntryLast(Reverse(result))) /\ EntryLast(Reverse(result)) \in Seq(Files)
         /\ Len(EntryLast(Reverse(result))) = Cardinality(nodes)
         /\ ToSet(EntryLast(Reverse(result))) = nodes
<1>0. PICK o, n : o = EntryLast(Reverse(result)) /\ n = Len(result)
  OBVIOUS
<1>1. /\ ToSet(result) = nodes /\ n = Cardinality(nodes) /\ Distinct(result)
      /\ result \in Seq(Files) /\ Entry \in nodes /\ nodes \subseteq Files
  BY <1>0, EveryNodeSorted DEF Sorted, Inductive, Typed
<1>2. /\ o \in Seq(Files) /\ Len(o) = n /\ n \in Nat \ {0} /\ o[n] = Entry
      /\ \E k \in 1..n : /\ result[n - k + 1] = Entry
                         /\ \A i \in 1..(n - 1) :
                              o[i] = IF i < k THEN result[n - i + 1] ELSE result[n - i]
  BY <1>0, <1>1, EntryMoved
<1>3. PICK k \in 1..n : /\ result[n - k + 1] = Entry
                        /\ \A i \in 1..(n - 1) :
                             o[i] = IF i < k THEN result[n - i + 1] ELSE result[n - i]
  BY <1>2
\* The place in the sort's result of what o holds at i.
<1> DEFINE place(i) == IF i = n THEN n - k + 1 ELSE IF i < k THEN n - i + 1 ELSE n - i
<1>4. \A i \in 1..n : place(i) \in 1..n /\ result[place(i)] = o[i]
  <2> SUFFICES ASSUME NEW i \in 1..n PROVE place(i) \in 1..n /\ result[place(i)] = o[i]
    OBVIOUS
  <2>1. CASE i = n
    BY <1>2, <1>3, <2>1
  <2>2. CASE i # n /\ i < k
    <3>1. i \in 1..(n - 1) /\ n - i + 1 \in 1..n
      BY <1>2, <2>2
    <3> QED
      BY <1>3, <2>2, <3>1
  <2>3. CASE i # n /\ ~(i < k)
    <3>1. i \in 1..(n - 1) /\ n - i \in 1..n
      BY <1>2, <1>3, <2>3
    <3> QED
      BY <1>3, <2>3, <3>1
  <2> QED
    BY <2>1, <2>2, <2>3
<1>5. \A i, j \in 1..n : place(i) = place(j) => i = j
  BY <1>2, <1>3
<1>6. \A i, j \in 1..(n - 1) : place(i) > place(j) => i < j
  BY <1>2, <1>3
<1>7. \A j \in 1..n : \E i \in 1..n : place(i) = j
  <2> SUFFICES ASSUME NEW j \in 1..n PROVE \E i \in 1..n : place(i) = j
    OBVIOUS
  <2>1. CASE j = n - k + 1
    <3>1. place(n) = j /\ n \in 1..n
      BY <1>2, <2>1
    <3> QED
      BY <3>1
  <2>2. CASE j > n - k + 1
    <3>1. n - j + 1 \in 1..n /\ n - j + 1 < k /\ n - j + 1 # n /\ n - (n - j + 1) + 1 = j
      BY <1>2, <1>3, <2>2
    <3>2. place(n - j + 1) = j
      BY <3>1
    <3> QED
      BY <3>1, <3>2
  <2>3. CASE j < n - k + 1
    <3>1. n - j \in 1..n /\ ~(n - j < k) /\ n - j # n /\ n - (n - j) = j
      BY <1>2, <1>3, <2>3
    <3>2. place(n - j) = j
      BY <3>1
    <3> QED
      BY <3>1, <3>2
  <2> QED
    BY <1>2, <1>3, <2>1, <2>2, <2>3
<1> HIDE DEF place
<1>8. Len(result) = n /\ \A x : x \in nodes <=> \E i \in 1..n : result[i] = x
  BY <1>0, <1>1, Elements
<1>9. DOMAIN o = 1..n /\ \A x : x \in ToSet(o) <=> \E i \in 1..n : o[i] = x
  BY <1>2, Elements, LenProperties
<1>10. ToSet(o) = nodes
  <2>1. ASSUME NEW x \in nodes PROVE x \in ToSet(o)
    <3>1. PICK j \in 1..n : result[j] = x
      BY <1>8
    <3>2. PICK i \in 1..n : place(i) = j
      BY <1>7
    <3> QED
      BY <1>4, <1>9, <3>1, <3>2
  <2>2. ASSUME NEW x \in ToSet(o) PROVE x \in nodes
    BY <1>4, <1>8, <1>9, <2>2
  <2> QED
    BY <2>1, <2>2
<1>11. \A i, j \in 1..n : o[i] = o[j] => i = j
  BY <1>1, <1>4, <1>5, <1>8 DEF Distinct
<1>12. ASSUME NEW i \in 1..n, NEW j \in 1..n, o[i] \in Plan!Imported, o[j] \in ToSet(imports[o[i]])
       PROVE  j < i
  <2>1. o[j] \in Deps(o[i]) /\ o[i] \in nodes
    BY <1>9, <1>10, <1>12, Settled
  <2>2. o[j] # Entry
    BY <2>1, NothingImportsEntry DEF EntryUnimported, Deps
  <2>3. j # n
    BY <1>2, <2>2
  <2>4. CASE i = n
    BY <1>2, <2>3, <2>4
  <2>5. CASE i # n
    <3>1. ImportersFirst
      BY DEF Sorted
    <3>2. PICK m \in 1..(place(j) - 1) : result[m] = o[i]
      BY <1>4, <1>8, <2>1, <3>1 DEF ImportersFirst
    <3>3. m \in 1..n /\ place(i) \in 1..n /\ place(j) \in 1..n
      <4>1. place(i) \in 1..n /\ place(j) \in 1..n
        BY <1>4
      <4> QED
        BY <1>2, <4>1
    <3>4. m = place(i)
      BY <1>1, <1>4, <1>8, <3>2, <3>3 DEF Distinct
    <3>5. place(j) > place(i)
      BY <3>2, <3>3, <3>4
    <3>6. i \in 1..(n - 1) /\ j \in 1..(n - 1)
      BY <1>2, <2>3, <2>5
    <3> QED
      BY <1>6, <3>5, <3>6
  <2> QED
    BY <2>4, <2>5
<1>13. Plan!IsPlan(o)
  <2>1. Plan!ToSet(o) = Plan!Members
    BY <1>10, Settled, SameElements
  <2>2. Plan!Last(o) = Entry
    BY <1>2, SameElements DEF Last
  <2>3. \A i, j \in DOMAIN o : o[i] \in Plan!Imported /\ o[j] \in Plan!ToSet(imports[o[i]]) => j < i
    BY <1>9, <1>12, SameElements
  <2> QED
    BY <1>9, <1>11, <2>1, <2>2, <2>3 DEF Plan!IsPlan
<1> QED
  BY <1>0, <1>1, <1>2, <1>10, <1>13

LEMMA EndSortSorts ==
  ASSUME Inductive, Read, Sized, Sorted, EndSort
  PROVE  Sorted' /\ phase' = "ordered" /\ Plan!IsPlan(result')
<1>1. /\ phase = "sort" /\ released = <<>> /\ queue = <<>>
      /\ UNCHANGED <<project, inDegree, queue, released>>
  BY DEF EndSort
<1>2. Len(result) = Cardinality(nodes)
  BY <1>1, EveryNodeSorted
<1>3. phase' = "ordered" /\ result' = EntryLast(Reverse(result))
  BY <1>2 DEF EndSort
<1>4. Plan!IsPlan(result') /\ result' \in Seq(Files)
  BY <1>1, <1>3, OrderIsPlan
<1>5. \A o : Plan!IsPlan(o)' <=> Plan!IsPlan(o)
  BY <1>1, ImportedKept DEF Plan!IsPlan, Plan!Members, project
<1>6. Plan!IsPlan(result)'
  <2>1. PICK o : o = result'
    OBVIOUS
  <2>2. Plan!IsPlan(o)'
    BY <1>4, <1>5, <2>1
  <2> QED
    BY <2>1, <2>2 DEF Plan!IsPlan
<1> QED
  BY <1>1, <1>3, <1>4, <1>6 DEF Sorted

LEMMA NextSorts ==
  ASSUME Inductive, Read, Sized, Sorted, [Next]_vars
  PROVE  Sorted'
<1>1. CASE StartSort \/ SortNode \/ Release \/ EndSort
  BY <1>1, StartSortSorts, SortNodeSorts, ReleaseSorts, EndSortSorts
<1>2. CASE \/ SkipProcessed \/ Process \/ Resolve \/ AddShared
           \/ StartSearch \/ FollowImport \/ Leave
  <2>1. /\ phase \in {"discover", "search"} /\ phase' \in {"discover", "search", "unresolved", "cyclic"}
        /\ UNCHANGED <<inDegree, queue, released, result>>
    BY <1>2 DEF SkipProcessed, Process, Resolve, AddShared, StartSearch, FollowImport, Leave, sort
  <2> QED
    BY <2>1 DEF Sorted
<1>3. CASE UNCHANGED vars
  <2>1. UNCHANGED <<project, phase, graph, inDegree, queue, released, result>>
    BY <1>3 DEF vars, sort
  <2>2. \A o : Plan!IsPlan(o)' <=> Plan!IsPlan(o)
    BY <2>1, ImportedKept DEF Plan!IsPlan, Plan!Members, project
  <2>3. Plan!IsPlan(result)' <=> Plan!IsPlan(result)
    BY <2>1, ImportedKept DEF Plan!IsPlan, Plan!Members, project
  <2>4. DegreesExact' <=> DegreesExact
    BY <2>1 DEF DegreesExact, EdgesInto, graph
  <2>5. ImportersFirst' <=> ImportersFirst
    BY <2>1 DEF ImportersFirst, Deps, graph
  <2> QED
    BY <2>1, <2>3, <2>4, <2>5 DEF Sorted, Distinct, graph
<1> QED
  BY <1>1, <1>2, <1>3 DEF Next

-----------------------------------------------------------------------------
\* A set of natural numbers that is not empty has a least member.
LEMMA LeastNumber ==
  ASSUME NEW B \in SUBSET Nat, B # {}
  PROVE  \E m \in B : \A k \in B : m <= k
<1> DEFINE R == {ss \in Nat \X Nat : ss[1] < ss[2]}
<1>1. IsWellFoundedOn(R, Nat)
  BY NatLessThanWellFounded DEF OpToRel
<1>2. PICK m \in B : \A k \in B : <<k, m>> \notin R
  <2> HIDE DEF R
  <2>1. PICK N : N = Nat
    OBVIOUS
  <2>2. IsWellFoundedOn(R, N) /\ B \subseteq N
    BY <1>1, <2>1
  <2> QED
    BY <2>2, WFMin
<1>3. \A k \in B : ~(k < m)
  BY <1>2
<1> QED
  BY <1>3

\* A file on the cycle that is shown leads back to itself.
LEMMA ShownIsCycle ==
  ASSUME Inductive, phase = "cyclic", Last(cycle) \in Plan!Imported
  PROVE  Plan!Cyclic
<1>0. PICK f, n : f = cycle[1] /\ n = Len(cycle)
  OBVIOUS
<1>1. /\ cycle \in Seq(Files) /\ n \in Nat /\ Typed
      /\ cycle[1] = Last(cycle)
      /\ \A i \in 1..(n - 1) : cycle[i + 1] \in ToSet(imports[cycle[i]])
      /\ Cardinality(ToSet(cycle)) = n - 1
  BY <1>0, LenProperties DEF Inductive, Typed, CycleShown
<1>2. n > 1
  <2>0. \A x : x \in ToSet(cycle) <=> \E i \in 1..n : cycle[i] = x
    BY <1>0, <1>1, Elements
  <2>1. n # 0
    <3>1. ASSUME n = 0 PROVE ToSet(cycle) = {}
      BY <2>0, <3>1
    <3>2. ToSet(cycle) = {} => n - 1 = 0
      BY <1>1, FS_EmptySet
    <3> QED
      BY <3>1, <3>2
  <2>2. n # 1
    <3>1. ASSUME n = 1 PROVE ToSet(cycle) = {cycle[1]}
      BY <2>0, <3>1
    <3>2. Cardinality({cycle[1]}) = 1
      BY FS_Singleton
    <3>3. ToSet(cycle) = {cycle[1]} => n - 1 = 1
      BY <1>1, <3>2
    <3> QED
      BY <3>1, <3>3
  <2>3. n \in Nat
    BY <1>1
  <2> QED
    BY <2>1, <2>2, <2>3
<1>3. f \in Files /\ f = cycle[n] /\ \A i \in 1..n : cycle[i] \in Files
  BY <1>0, <1>1, <1>2 DEF Last
<1> DEFINE S == ToSet(imports[f]) \cap Files
           R == Plan!ReachedFrom(S)
<1>4. S \subseteq R /\ \A g \in R : ToSet(imports[g]) \ {Missing} \subseteq R
  BY <1>1, Reached
<1> HIDE DEF R
<1>5. {i \in 2..n : cycle[i] \notin R} = {}
  <2> SUFFICES ASSUME {i \in 2..n : cycle[i] \notin R} # {} PROVE FALSE
    OBVIOUS
  <2>1. PICK m \in {i \in 2..n : cycle[i] \notin R} : \A k \in {i \in 2..n : cycle[i] \notin R} : m <= k
    <3>1. {i \in 2..n : cycle[i] \notin R} \in SUBSET Nat
      BY <1>1
    <3> QED
      BY <3>1, LeastNumber
  <2>2. m - 1 \in 1..(n - 1) /\ (m - 1) + 1 = m /\ cycle[m] \in Files
    BY <1>1, <1>3, <2>1
  <2>3. cycle[m] \in ToSet(imports[cycle[m - 1]])
    BY <1>1, <2>2
  <2>4. CASE m = 2
    BY <1>0, <1>4, <2>1, <2>2, <2>3, <2>4
  <2>5. CASE m # 2
    <3>1. m - 1 \in 2..n /\ ~(m <= m - 1)
      BY <1>1, <2>1, <2>5
    <3>2. cycle[m - 1] \in R
      BY <2>1, <3>1
    <3> QED
      BY <1>4, <2>1, <2>2, <2>3, <3>2
  <2> QED
    BY <2>4, <2>5
<1>6. f \in R
  BY <1>1, <1>2, <1>3, <1>5
<1>7. Plan!InCycle(f)
  BY <1>6, SameElements DEF R, Plan!InCycle
<1> QED
  BY <1>0, <1>1, <1>7 DEF Plan!Cyclic

\* A project whose graph the search has found acyclic has no cycle: among the files
\* that lead to one on a cycle, each would import another.
LEMMA NoCycle ==
  ASSUME Inductive, Read, phase \in {"sort", "ordered"}
  PROVE  ~Plan!Cyclic
<1> SUFFICES ASSUME NEW f \in Plan!Imported, Plan!InCycle(f) PROVE FALSE
  BY DEF Plan!Cyclic
<1>1. /\ Plan!Imported \subseteq nodes /\ nodes \subseteq Files /\ Typed /\ Acyclic(nodes)
      /\ \A g \in Plan!Imported : Deps(g) = ToSet(imports[g])
      /\ processed = Plan!Imported
  BY Settled, NodesAcyclic DEF Inductive, Typed, Plan!Members
<1>2. \A g \in Plan!Imported : Deps(g) \subseteq Plan!Imported
  BY <1>1 DEF Read
<1>3. f \in Plan!ReachedFrom(ToSet(imports[f]) \cap Files)
  BY SameElements DEF Plan!InCycle
<1> DEFINE Leads(g) == f \in Plan!ReachedFrom({g})
           W == {g \in Files : ~Leads(g)}
           S == {g \in Plan!Imported : Leads(g)}
<1>4. \A g \in Files : g \in Plan!ReachedFrom({g})
  BY <1>1, Reached
<1>5. ASSUME NEW g \in W, NEW d \in ToSet(imports[g]) \ {Missing} PROVE d \in W
  <2>1. d \in Files
    BY <1>1, <1>5, Elements DEF Typed
  <2>2. {g} \in SUBSET Files /\ {d} \in SUBSET Files
    BY <2>1
  <2>3. d \in Plan!ReachedFrom({g}) /\ Plan!ReachedFrom({g}) \subseteq Files
    BY <1>1, <1>4, <1>5, <2>2, Reached
  <2>4. Plan!ReachedFrom({d}) \subseteq Plan!ReachedFrom({g})
    BY <1>1, <2>2, <2>3, Reached
  <2> QED
    BY <2>1, <2>4
<1>6. f \in S /\ S \subseteq nodes
  BY <1>1, <1>4
<1>7. PICK s \in S : Deps(s) \cap S = {}
  BY <1>1, <1>6 DEF Acyclic
<1>8. s \in Files /\ s \in Plan!Imported /\ ToSet(imports[s]) \subseteq W
  BY <1>1, <1>2, <1>7
<1>9. CASE s = f
  <2>1. W \in SUBSET Files /\ ToSet(imports[f]) \cap Files \subseteq W
    BY <1>8, <1>9
  <2>2. \A g \in W : ToSet(imports[g]) \ {Missing} \subseteq W
    BY <1>5
  <2> HIDE DEF W
  <2>3. Plan!ReachedFrom(ToSet(imports[f]) \cap Files) \subseteq W
    BY <1>1, <2>1, <2>2, Reached
  <2>4. f \in W
    BY <1>3, <2>3
  <2> QED
    BY <1>6, <2>4 DEF W
<1>10. CASE s # f
  <2>1. /\ W \cup {s} \in SUBSET Files /\ {s} \in SUBSET Files
        /\ \A g \in W \cup {s} : ToSet(imports[g]) \ {Missing} \subseteq W \cup {s}
    BY <1>5, <1>8
  <2> HIDE DEF W
  <2>2. Plan!ReachedFrom({s}) \subseteq W \cup {s}
    <3>1. PICK T : T = W \cup {s}
      OBVIOUS
    <3>2. {s} \subseteq T /\ T \in SUBSET Files /\ \A g \in T : ToSet(imports[g]) \ {Missing} \subseteq T
      BY <2>1, <3>1
    <3> QED
      BY <1>1, <2>1, <3>1, <3>2, Reached
  <2>3. f \in Plan!ReachedFrom({s})
    BY <1>7
  <2> QED
    BY <1>6, <1>10, <2>2, <2>3 DEF W
<1> QED
  BY <1>9, <1>10

-----------------------------------------------------------------------------
\* The entry leads to the cycle that is shown.
Led == phase = "cyclic" => Last(cycle) \in Plan!Imported

LEMMA FollowImportLeads ==
  ASSUME Inductive, Read, FollowImport, phase' = "cyclic"
  PROVE  Last(cycle') \in Plan!Imported
<1>0. PICK node, dep : node = Last(path) /\ dep = dependencies[node][cursor[node]]
  OBVIOUS
<1>1. /\ phase = "search" /\ path # <<>> /\ cursor[node] <= Len(dependencies[node])
      /\ dep \in recStack /\ cycle' = CycleTo(dep)
  BY <1>0 DEF FollowImport
<1>2. dep \in Deps(node) /\ node \in Files
  BY <1>0, <1>1, PathEnd
<1>3. node \in Plan!Imported /\ processed = Plan!Imported
  BY <1>1, <1>2, Settled
<1>4. dep \in Plan!Imported /\ dep \in Files
  BY <1>1, <1>2, <1>3 DEF Read, Inductive, Typed
<1>5. PICK i : i = CHOOSE j \in DOMAIN path : path[j] = dep
  OBVIOUS
<1>6. path \in Seq(Files) /\ Len(path) \in Nat /\ DOMAIN path = 1..Len(path)
  BY LenProperties DEF Inductive, Typed
<1>7. i \in 1..Len(path)
  BY <1>1, <1>5, <1>6, Elements DEF Inductive, Path
<1>8. PICK a : a = SubSeq(path, i, Len(path))
  OBVIOUS
<1>9. a \in Seq(Files)
  <2>1. \A k \in i..Len(path) : path[k] \in Files
    BY <1>6, <1>7
  <2>2. i \in Int /\ Len(path) \in Int
    BY <1>6, <1>7
  <2> QED
    BY <1>8, <2>1, <2>2, SubSeqProperties
<1>10. cycle' = a \o <<dep>>
  BY <1>1, <1>5, <1>8 DEF CycleTo
<1>11. a \o <<dep>> = Append(a, dep)
  BY <1>4, <1>9, AppendIsConcat
<1>12. Last(Append(a, dep)) = dep
  BY <1>4, <1>9, AppendElements
<1>13. Last(cycle') = dep
  BY <1>10, <1>11, <1>12
<1> QED
  BY <1>4, <1>13

LEMMA NextLed ==
  ASSUME Inductive, Read, Led, [Next]_vars
  PROVE  Led'
<1> SUFFICES ASSUME phase' = "cyclic" PROVE Last(cycle)' \in Plan!Imported'
  BY DEF Led
<1>1. CASE FollowImport
  <2>1. UNCHANGED project
    BY <1>1 DEF FollowImport
  <2>2. Last(cycle') \in Plan!Imported
    BY <1>1, FollowImportLeads
  <2> QED
    BY <2>1, <2>2, ImportedKept DEF Last
<1>2. CASE UNCHANGED vars
  <2>1. UNCHANGED <<project, phase, cycle>>
    BY <1>2 DEF vars, search
  <2> QED
    BY <2>1, ImportedKept DEF Led, Last
<1>3. CASE ~FollowImport /\ Next
  BY <1>3 DEF Next, SkipProcessed, Process, Resolve, AddShared, StartSearch, Leave, StartSort,
              SortNode, Release, EndSort
<1> QED
  BY <1>1, <1>2, <1>3

\* Whether the project has a cycle is settled by the project.
LEMMA CyclicKept ==
  ASSUME UNCHANGED project
  PROVE  Plan!Cyclic' <=> Plan!Cyclic
<1>1. \A f : Plan!InCycle(f)' <=> Plan!InCycle(f)
  <2> SUFFICES ASSUME NEW f PROVE Plan!InCycle(f)' <=> Plan!InCycle(f)
    OBVIOUS
  <2>1. PICK S : S = Plan!ToSet(imports[f]) \cap Files
    OBVIOUS
  <2>2. S = (Plan!ToSet(imports[f]) \cap Files)'
    BY <2>1 DEF project
  <2>3. Plan!InCycle(f) <=> f \in Plan!ReachedFrom(S)
    BY <2>1 DEF Plan!InCycle
  <2>4. Plan!InCycle(f)' <=> f \in Plan!ReachedFrom(S)'
    BY <2>2 DEF Plan!InCycle
  <2> QED
    BY <2>3, <2>4, ImportedKept
<1> QED
  BY <1>1, ImportedKept DEF Plan!Cyclic

Sound == Inductive /\ Read /\ Sized /\ Sorted /\ Led

\* What the state says of the project when a cycle was found.
Verdict == phase = "cyclic" => Plan!Cyclic

LEMMA InitSound == Init => Sound /\ Plan!Init
<1> SUFFICES ASSUME Init PROVE Sound /\ Plan!Init
  OBVIOUS
<1>1. Inductive /\ Read /\ Sized
  BY InitInductive, InitRead, InitSized
<1>2. Sorted /\ Led
  BY DEF Init, Sorted, Led
<1>3. Plan!Init
  BY DEF Init, Plan!Init, Final
<1> QED
  BY <1>1, <1>2, <1>3 DEF Sound

LEMMA NextSound == Sound /\ [Next]_vars => Sound'
BY NextInductive, NextReads, NextSized, NextSorts, NextLed DEF Sound

\* Each step rejects or accepts as the plan says, or is none of its business.
LEMMA StepPlans == Sound /\ Verdict' /\ [Next]_vars => [Plan!Next]_(Plan!vars)
<1> SUFFICES ASSUME Sound, Verdict', [Next]_vars PROVE [Plan!Next]_(Plan!vars)
  OBVIOUS
<1>1. Inductive /\ Read /\ Sized /\ Sorted
  BY DEF Sound
<1>2. CASE \/ SkipProcessed \/ Process \/ Resolve \/ StartSearch \/ Leave
           \/ StartSort \/ SortNode \/ Release
  <2>1. phase \notin Final /\ phase' \notin Final /\ UNCHANGED project
    BY <1>2 DEF SkipProcessed, Process, Resolve, StartSearch, Leave, StartSort, SortNode, Release, Final
  <2> QED
    BY <2>1 DEF Plan!vars, Final, project
<1>3. CASE AddShared
  <2>1. phase \notin Final /\ UNCHANGED project /\ phase' \in {"unresolved", "search"}
    BY <1>3 DEF AddShared, Final
  <2>2. CASE phase' = "unresolved"
    <3>1. unresolved
      BY <1>3, <2>2 DEF AddShared
    <3>2. Plan!Unresolved
      BY <1>1, <3>1, SameElements DEF Read, Plan!Unresolved
    <3>3. Plan!Next
      BY <2>1, <2>2, <3>2 DEF Plan!Next, Plan!Reject, Final, project
    <3> QED
      BY <3>3
  <2>3. CASE phase' = "search"
    BY <2>1, <2>3 DEF Plan!vars, Final, project
  <2> QED
    BY <2>1, <2>2, <2>3
<1>4. CASE FollowImport
  <2>1. phase = "search" /\ UNCHANGED <<project, discovery, graph>> /\ phase' \in {"search", "cyclic"}
    BY <1>4 DEF FollowImport
  <2>2. CASE phase' = "cyclic"
    <3>1. Plan!Cyclic'
      BY <2>2 DEF Verdict
    <3>2. Plan!Cyclic
      BY <2>1, <3>1, CyclicKept
    <3>3. ~Plan!Unresolved
      BY <1>1, <2>1, Settled
    <3>4. Plan!Next
      BY <2>1, <2>2, <3>2, <3>3 DEF Plan!Next, Plan!Reject, Final, project
    <3> QED
      BY <3>4
  <2>3. CASE phase' = "search"
    BY <2>1, <2>3 DEF Plan!vars, Final, project
  <2> QED
    BY <2>1, <2>2, <2>3
<1>5. CASE EndSort
  <2>1. phase = "sort" /\ UNCHANGED project
    BY <1>5 DEF EndSort
  <2>2. phase' = "ordered" /\ Plan!IsPlan(result')
    BY <1>1, <1>5, EndSortSorts
  <2>3. ~Plan!Unresolved /\ ~Plan!Cyclic
    BY <1>1, <2>1, Settled, NoCycle
  <2>4. Plan!Next
    BY <2>1, <2>2, <2>3 DEF Plan!Next, Plan!Accept, Final, project
  <2> QED
    BY <2>4
<1>6. CASE UNCHANGED vars
  BY <1>6 DEF vars, project, sort, Plan!vars
<1> QED
  BY <1>2, <1>3, <1>4, <1>5, <1>6 DEF Next

\* The invariant of the whole build, for every project.
THEOREM BuildInvariant == Spec => []Sound
<1>1. Init => Sound
  BY InitSound
<1> QED
  BY <1>1, NextSound, PTL DEF Spec

\* For every project the build decides as the plan says (build_from_file up to
\* set_compilation_order).
THEOREM BuildImplementsPlan == Spec => ImplementsPlan
<1>1. Init => Plan!Init
  BY InitSound
<1>2. Sound => Verdict
  BY ShownIsCycle DEF Sound, Led, Verdict
<1> QED
  BY <1>1, <1>2, StepPlans, BuildInvariant, PTL DEF Spec, ImplementsPlan, Plan!Spec

-----------------------------------------------------------------------------
\* A sequence of some of its values.
LEMMA Narrowed ==
  ASSUME NEW S, NEW s \in Seq(S), NEW T, ToSet(s) \subseteq T
  PROVE  s \in Seq(T)
<1>1. Len(s) \in Nat /\ s \in [1..Len(s) -> S] /\ \A i \in 1..Len(s) : s[i] \in T
  BY Elements, LenProperties
<1>2. s \in [1..Len(s) -> T]
  BY <1>1
<1> QED
  BY <1>1, <1>2, SeqDef

\* Nothing is queued or sorted twice.
LEMMA SortedOnce ==
  ASSUME Sound
  PROVE  /\ ToSet(queue) \subseteq nodes /\ ToSet(released) \subseteq nodes
         /\ ToSet(result) \subseteq nodes
         /\ Len(queue) + Len(result) <= Cardinality(nodes)
<1>1. /\ Inductive /\ Read /\ Sized /\ Sorted /\ nodes \subseteq Files
      /\ queue \in Seq(Files) /\ result \in Seq(Files) /\ released \in Seq(Files)
  BY DEF Sound, Inductive, Typed, Sorted
<1>2. IsFiniteSet(nodes) /\ Cardinality(nodes) \in Nat
  BY <1>1, FS_Subset, FS_CardinalityType
<1>3. Len(<<>>) = 0 /\ ToSet(<<>>) = {}
  BY DEF ToSet
<1>4. CASE phase = "sort"
  <2>1. /\ Distinct(queue) /\ Distinct(result) /\ ToSet(result) \subseteq nodes
        /\ ToSet(released) \subseteq nodes
        /\ ToSet(queue) = {f \in nodes : inDegree[f] = 0} \ ToSet(result)
    BY <1>1, <1>4, ExactNow DEF Sorted
  <2>2. /\ IsFiniteSet(ToSet(queue)) /\ Cardinality(ToSet(queue)) = Len(queue)
        /\ IsFiniteSet(ToSet(result)) /\ Cardinality(ToSet(result)) = Len(result)
        /\ Len(queue) \in Nat /\ Len(result) \in Nat
    BY <1>1, <2>1, DistinctCounted, LenProperties
  <2>3. ToSet(queue) \cap ToSet(result) = {} /\ ToSet(queue) \cup ToSet(result) \subseteq nodes
    BY <2>1
  <2>4. Cardinality(ToSet(queue) \cup ToSet(result)) =
          Cardinality(ToSet(queue)) + Cardinality(ToSet(result)) - Cardinality(ToSet(queue) \cap ToSet(result))
    BY <2>2, FS_Union
  <2>5. Cardinality(ToSet(queue) \cap ToSet(result)) = 0
    BY <2>3, FS_EmptySet
  <2>6. Cardinality(ToSet(queue) \cup ToSet(result)) <= Cardinality(nodes)
    BY <1>2, <2>3, FS_Subset
  <2> QED
    BY <2>1, <2>2, <2>4, <2>5, <2>6
<1>5. CASE phase = "ordered"
  <2>1. queue = <<>> /\ released = <<>> /\ Plan!IsPlan(result)
    BY <1>1, <1>5 DEF Sorted
  <2>2. ToSet(result) = nodes
    BY <1>1, <1>5, <2>1, Settled, SameElements DEF Plan!IsPlan
  <2>3. Distinct(result)
    BY <1>1, <2>1, LenProperties DEF Plan!IsPlan, Distinct
  <2>4. Cardinality(nodes) = Len(result)
    BY <1>1, <2>2, <2>3, DistinctCounted
  <2> QED
    BY <1>2, <1>3, <2>1, <2>2, <2>4
<1>6. CASE phase \notin {"sort", "ordered"}
  <2>1. queue = <<>> /\ released = <<>> /\ result = <<>>
    BY <1>1, <1>6 DEF Sorted, Inductive, Typed, Final
  <2> QED
    BY <1>2, <1>3, <2>1
<1> QED
  BY <1>4, <1>5, <1>6

\* The types of the module, for every project.
LEMMA SoundTypes == Sound => TypeOK
<1> SUFFICES ASSUME Sound PROVE TypeOK
  OBVIOUS
<1>1. Inductive /\ Typed /\ Edges /\ Path /\ Sized /\ Sorted
  BY DEF Sound, Inductive
<1>2. toProcess \in Seq(nodes) /\ path \in Seq(nodes) /\ cycle \in Seq(nodes)
  BY <1>1, Narrowed DEF Typed, Edges, Path
<1>3. queue \in Seq(nodes) /\ released \in Seq(nodes) /\ result \in Seq(nodes)
  BY <1>1, SortedOnce, Narrowed DEF Sorted
<1>4. dependencies \in [Files -> Seq(nodes)]
  <2>1. \A f \in Files : dependencies[f] \in Seq(Files) /\ ToSet(dependencies[f]) \subseteq nodes
    BY <1>1 DEF Typed, Edges, Deps
  <2>2. \A f \in Files : dependencies[f] \in Seq(nodes)
    BY <2>1, Narrowed
  <2> QED
    BY <1>1, <2>2 DEF Typed
<1>5. cursor \in [Files -> 1..(MaxPerFile + 1)]
  <2>1. \A f \in Files : cursor[f] \in Nat \ {0} /\ cursor[f] <= MaxPerFile + 1
    BY <1>1 DEF Typed, Sized
  <2>2. \A f \in Files : cursor[f] \in 1..(MaxPerFile + 1)
    BY <2>1
  <2> QED
    BY <1>1, <2>2 DEF Typed
<1>6. Len(queue) + Len(result) <= Cardinality(nodes)
  BY SortedOnce
<1> QED
  BY <1>1, <1>2, <1>3, <1>4, <1>5, <1>6 DEF TypeOK, Typed, Sorted

\* Types hold, the degrees of the sort never fall below zero and no module is
\* sorted twice, for every project (topological_sort).
THEOREM TypesHold == Spec => []TypeOK
BY SoundTypes, BuildInvariant, PTL

\* While nodes are sorted each degree counts the imports that are left, for every
\* project (topological_sort).
THEOREM DegreesAreExact == Spec => []DegreesExact
<1>1. Sound => DegreesExact
  BY DEF Sound, Sorted, DegreesExact
<1> QED
  BY <1>1, BuildInvariant, PTL
=============================================================================
