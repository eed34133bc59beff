---------------------------- MODULE ModuleGraph -----------------------------
(***************************************************************************)
(* How a multi-file build finds its modules and sorts them                 *)
(* (compilation/multi_file_compiler.rs, compilation/module_graph.rs):      *)
(* imports are followed from the entry, the files of the shared folders    *)
(* are added, a depth-first search looks for cycles, and Kahn's algorithm  *)
(* sorts what is left.  The iteration order of the hash sets and maps is   *)
(* a free choice.                                                          *)
(*                                                                         *)
(* A file stands for its canonical path, which is what modules are told    *)
(* apart by; two imports with different names may lead to one file.  The   *)
(* imports of a file are those that are left after built-in modules and    *)
(* repeated names are dropped; one that is not found, or a file that does  *)
(* not parse, is an import of Missing.                                     *)
(***************************************************************************)
EXTENDS Integers, Sequences, FiniteSets, SequencesExt

CONSTANTS Files,           \* the source files there may be
          Entry,           \* the file the build starts from
          Missing,         \* what an import stands for that names no file
          SharedFolders,   \* the contents the shared folders may have
          MaxPerFile,      \* bound: imports of a file
          MaxImports       \* bound: imports of all files together

ASSUME FilesAssumption == IsFiniteSet(Files) /\ Entry \in Files /\ Missing \notin Files
ASSUME FoldersAssumption == SharedFolders \subseteq SUBSET Files
ASSUME BoundAssumption == MaxPerFile \in Nat /\ MaxImports \in Nat

VARIABLES imports,       \* the imports of each file, in the order of its text
          shared,        \* the files in the shared folders
          phase,         \* what build_from_file is doing, or how it ended
          toProcess,     \* discovery: the modules still to look at (a stack)
          processed,     \* discovery: the modules looked at
          current,       \* discovery: the one being looked at
          unread,        \* discovery: its imports that are not resolved yet
          unresolved,    \* discovery: whether an error was collected
          nodes,         \* the graph's nodes, and the modules of the unit
          dependencies,  \* the modules each module imports, in order
          visited,       \* search: the nodes entered so far
          recStack,      \* search: the nodes entered and not yet left
          path,          \* search: the chain of imports being followed
          cursor,        \* search: the import each node of path is at
          cycle,         \* search: the cycle that is reported
          inDegree,      \* sort: how many imports lead to a node
          queue,         \* sort: the nodes no unsorted node imports
          released,      \* sort: imports of the last node still to take away
          result         \* sort: the order, importers first until it is reversed

project == <<imports, shared>>
discovery == <<toProcess, processed, current, unread, unresolved>>
graph == <<nodes, dependencies>>
search == <<visited, recStack, path, cursor, cycle>>
sort == <<inDegree, queue, released, result>>
vars == <<project, phase, discovery, graph, search, sort>>

Final == {"unresolved", "cyclic", "unsorted", "ordered"}

Projects ==
  {p \in [Files -> SeqOf(Files \cup {Missing}, MaxPerFile)] :
     FoldFunctionOnSet(+, 0, [f \in Files |-> Len(p[f])], Files) <= MaxImports}

Init ==
  /\ imports \in Projects
  /\ shared \in SharedFolders
  /\ phase = "discover"
  /\ toProcess = <<Entry>>
  /\ processed = {} /\ current = Entry /\ unread = <<>>
  /\ unresolved = FALSE
  /\ nodes = {Entry}
  /\ dependencies = [f \in Files |-> <<>>]
  /\ visited = {} /\ recStack = {} /\ path = <<>> /\ cycle = <<>>
  /\ cursor = [f \in Files |-> 1]
  /\ inDegree = [f \in Files |-> 0]
  /\ queue = <<>> /\ released = <<>> /\ result = <<>>

-----------------------------------------------------------------------------
\* A module that two others wait for comes up twice on the stack.
SkipProcessed ==
  /\ phase = "discover" /\ unread = <<>>
  /\ toProcess # <<>> /\ Last(toProcess) \in processed
  /\ toProcess' = Front(toProcess)
  /\ UNCHANGED <<project, phase, processed, current, unread, unresolved, graph, search, sort>>

\* The next module is taken from the stack and read.
Process ==
  LET file == Last(toProcess) IN
  /\ phase = "discover" /\ unread = <<>>
  /\ toProcess # <<>> /\ file \notin processed
  /\ toProcess' = Front(toProcess)
  /\ processed' = processed \cup {file}
  /\ current' = file
  /\ unread' = imports[file]
  /\ UNCHANGED <<project, phase, unresolved, graph, search, sort>>

\* An import that is found becomes an edge; the module it leads to goes on the
\* stack if it was not looked at before.
Resolve ==
  LET dep == Head(unread) IN
  /\ phase = "discover" /\ unread # <<>>
  /\ unread' = Tail(unread)
  /\ \/ /\ dep = Missing
        /\ unresolved' = TRUE
        /\ UNCHANGED <<toProcess, graph>>
     \/ /\ dep # Missing
        /\ nodes' = nodes \cup {dep}
        /\ dependencies' = [dependencies EXCEPT ![current] = Append(@, dep)]
        /\ toProcess' = IF dep \in processed THEN toProcess ELSE Append(toProcess, dep)
        /\ UNCHANGED unresolved
  /\ UNCHANGED <<project, phase, processed, current, search, sort>>

\* Errors end the build; otherwise the shared files join as bare nodes, whatever
\* they import.
AddShared ==
  /\ phase = "discover" /\ unread = <<>>
  /\ toProcess = <<>>
  /\ \/ /\ unresolved
        /\ phase' = "unresolved"
        /\ UNCHANGED nodes
     \/ /\ ~unresolved
        /\ phase' = "search"
        /\ nodes' = nodes \cup shared
  /\ UNCHANGED <<project, discovery, dependencies, search, sort>>

-----------------------------------------------------------------------------
\* Mutant: recStack.insert is forgotten.
FaultEnter(node) ==
  /\ visited' = visited \cup {node}
  /\ path' = Append(path, node)
  /\ UNCHANGED recStack

Enter(node) ==
  /\ visited' = visited \cup {node}
  /\ recStack' = recStack \cup {node}
  /\ path' = Append(path, node)

\* check_cycles starts a search at every node none has reached.
StartSearch ==
  /\ phase = "search"
  /\ path = <<>>
  /\ \E node \in nodes \ visited : Enter(node)
  /\ UNCHANGED <<project, phase, discovery, graph, cursor, cycle, sort>>

\* Mutant: the whole path is shown, not the part that goes round.
FaultCycleTo(dep) == path \o <<dep>>

\* The part of the path that starts at dep, which is on it once.
CycleTo(dep) ==
  SubSeq(path, CHOOSE i \in DOMAIN path : path[i] = dep, Len(path)) \o <<dep>>

\* The next import of the node at the end of the path: followed, passed over, or
\* found to lead back to the path.
FollowImport ==
  LET node == Last(path)
      dep == dependencies[node][cursor[node]] IN
  /\ phase = "search"
  /\ path # <<>> /\ cursor[node] <= Len(dependencies[node])
  /\ cursor' = [cursor EXCEPT ![node] = @ + 1]
  /\ \/ /\ dep \notin visited
        /\ Enter(dep)
        /\ UNCHANGED <<phase, cycle>>
     \/ /\ dep \in visited \ recStack
        /\ UNCHANGED <<phase, visited, recStack, path, cycle>>
     \/ /\ dep \in visited \cap recStack
        /\ cycle' = CycleTo(dep)
        /\ phase' = "cyclic"
        /\ UNCHANGED <<visited, recStack, path>>
  /\ UNCHANGED <<project, discovery, graph, sort>>

\* Mutant: path.pop is forgotten.
FaultLeave ==
  /\ phase = "search"
  /\ path # <<>> /\ cursor[Last(path)] > Len(dependencies[Last(path)])
  /\ recStack' = recStack \ {Last(path)}
  /\ UNCHANGED <<project, phase, discovery, graph, visited, path, cursor, cycle, sort>>

Leave ==
  /\ phase = "search"
  /\ path # <<>> /\ cursor[Last(path)] > Len(dependencies[Last(path)])
  /\ path' = Front(path)
  /\ recStack' = recStack \ {Last(path)}
  /\ UNCHANGED <<project, phase, discovery, graph, visited, cursor, cycle, sort>>

-----------------------------------------------------------------------------
\* The imports that lead from one of some nodes to a node; a file imported
\* under two names is two of them.
EdgesInto(node, from) ==
  {edge \in from \X (1..MaxPerFile) :
     LET deps == dependencies[edge[1]] IN edge[2] \in DOMAIN deps /\ deps[edge[2]] = node}

Degrees == [f \in Files |-> IF f \in nodes THEN Cardinality(EdgesInto(f, nodes)) ELSE 0]

\* No search found a cycle: the nodes that nothing imports come first.
StartSort ==
  /\ phase = "search"
  /\ path = <<>> /\ nodes \subseteq visited
  /\ phase' = "sort"
  /\ inDegree' = Degrees
  /\ queue' \in SetToSeqs({f \in nodes : inDegree'[f] = 0})
  /\ UNCHANGED <<project, discovery, graph, search, released, result>>

\* The first node of the queue is sorted; its imports are to be taken away.
SortNode ==
  /\ phase = "sort" /\ released = <<>>
  /\ queue # <<>>
  /\ result' = Append(result, Head(queue))
  /\ queue' = Tail(queue)
  /\ released' = dependencies[Head(queue)]
  /\ UNCHANGED <<project, phase, discovery, graph, search, inDegree>>

\* Mutant: a node is queued when one import is left.
FaultQueueable(degree) == degree = 1

Queueable(degree) == degree = 0

\* One import of the sorted node is taken away.
Release ==
  LET dep == Head(released) IN
  /\ phase = "sort" /\ released # <<>>
  /\ released' = Tail(released)
  /\ inDegree' = [inDegree EXCEPT ![dep] = @ - 1]
  /\ queue' = IF Queueable(inDegree'[dep]) THEN Append(queue, dep) ELSE queue
  /\ UNCHANGED <<project, phase, discovery, graph, search, result>>

\* Mutant: the entry stays where the sort put it.
FaultEntryLast(order) == order

EntryLast(order) ==
  RemoveAt(order, CHOOSE i \in DOMAIN order : order[i] = Entry) \o <<Entry>>

EndSort ==
  /\ phase = "sort" /\ released = <<>>
  /\ queue = <<>>
  /\ IF Len(result) = Cardinality(nodes)
     THEN phase' = "ordered" /\ result' = EntryLast(Reverse(result))
     ELSE phase' = "unsorted" /\ UNCHANGED result
  /\ UNCHANGED <<project, discovery, graph, search, inDegree, queue, released>>

Next ==
  \/ SkipProcessed \/ Process \/ Resolve \/ AddShared
  \/ StartSearch \/ FollowImport \/ Leave
  \/ StartSort \/ SortNode \/ Release \/ EndSort

Spec == Init /\ [][Next]_vars

\* One thread runs the build; nothing in it waits.
FairSpec == Spec /\ WF_vars(Next)

-----------------------------------------------------------------------------
\* Types; the degrees never fall below zero, where the code's usize would wrap
\* (topological_sort), and no module is sorted twice.
TypeOK ==
  /\ phase \in {"discover", "search", "sort"} \cup Final
  /\ nodes \subseteq Files /\ processed \subseteq nodes
  /\ toProcess \in Seq(nodes) /\ current \in nodes
  /\ dependencies \in [Files -> Seq(nodes)]
  /\ visited \subseteq nodes /\ recStack \subseteq visited
  /\ path \in Seq(nodes) /\ cycle \in Seq(nodes)
  /\ cursor \in [Files -> 1..(MaxPerFile + 1)]
  /\ inDegree \in [Files -> Nat]
  /\ queue \in Seq(nodes) /\ released \in Seq(nodes) /\ result \in Seq(nodes)
  /\ Len(queue) + Len(result) <= Cardinality(nodes)

\* The build decides as the project gives reason: it rejects a project only for an
\* import that is missing or a cycle that the entry leads to, and otherwise its
\* order holds every module once, with imports first and the entry last; "not all
\* nodes processed" is never reported (build_from_file up to set_compilation_order).
Plan == INSTANCE BuildPlan WITH
          verdict <- IF phase \in Final THEN phase ELSE "none",
          order <- IF phase = "ordered" THEN result ELSE <<>>
ImplementsPlan == Plan!Spec

\* The cycle shown to the user is one: each file in it imports the next, it ends
\* where it began, and nothing in it is named twice (detect_cycle_dfs).
CycleShown ==
  phase = "cyclic" =>
    /\ cycle[1] = Last(cycle)
    /\ \A i \in 1..(Len(cycle) - 1) : cycle[i + 1] \in ToSet(imports[cycle[i]])
    /\ Cardinality(ToSet(cycle)) = Len(cycle) - 1

\* "Nothing imports the entry, so moving it last keeps the order valid"
\* (parse_all_modules): no edge leads to it once the search has found no cycle.
EntryUnimported ==
  phase \in {"sort", "ordered"} => \A f \in nodes : Entry \notin ToSet(dependencies[f])

\* While nodes are sorted, a degree counts the imports by nodes not yet sorted and
\* those of the last sorted node that are still to be taken away, and the queue
\* holds the nodes of degree zero that are not sorted (topological_sort, a file
\* imported under two names included).
DegreesExact ==
  phase = "sort" =>
    /\ \A f \in nodes :
         inDegree[f] = Cardinality(EdgesInto(f, nodes \ ToSet(result)))
                         + Cardinality({i \in DOMAIN released : released[i] = f})
    /\ ToSet(queue) = {f \in nodes : inDegree[f] = 0} \ ToSet(result)

\* Every build comes to an end, cycles or not (discover_modules, check_cycles).
BuildEnds == <>(phase \in Final)
=============================================================================
