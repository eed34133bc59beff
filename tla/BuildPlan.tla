----------------------------- MODULE BuildPlan ------------------------------
(***************************************************************************)
(* What the multi-file compiler promises of a project: it either rejects   *)
(* it for a reason that the project gives, or compiles every file that     *)
(* belongs to it, each after the files it imports and the entry last.  How *)
(* files are found and sorted is not said here; ModuleGraph implements it. *)
(***************************************************************************)
EXTENDS Naturals, Sequences, SequencesExt

CONSTANTS Files,      \* the source files there may be
          Entry,      \* the file the build starts from
          Missing     \* what an import stands for that names no file

VARIABLES imports,    \* the files each file imports, in the order of its text
          shared,     \* the files in the project's shared folders
          verdict,    \* "none" until the compiler has decided
          order       \* the order of compilation

vars == <<imports, shared, verdict, order>>

\* f and the files that S leads to by imports.
Closed(S) == \A f \in S : ToSet(imports[f]) \ {Missing} \subseteq S
ReachedFrom(S) ==
  {f \in Files : \A T \in SUBSET Files : S \subseteq T /\ Closed(T) => f \in T}

Imported == ReachedFrom({Entry})
Members == Imported \cup shared

InCycle(f) == f \in ReachedFrom(ToSet(imports[f]) \cap Files)

Unresolved == \E f \in Imported : Missing \in ToSet(imports[f])
Cyclic == \E f \in Imported : InCycle(f)

\* Every file that belongs to the project once, the entry at the end, and what
\* the entry leads to in the order of its imports.
IsPlan(o) ==
  /\ ToSet(o) = Members
  /\ \A i, j \in DOMAIN o : o[i] = o[j] => i = j
  /\ Last(o) = Entry
  /\ \A i, j \in DOMAIN o :
       o[i] \in Imported /\ o[j] \in ToSet(imports[o[i]]) => j < i

Reject ==
  /\ \/ verdict' = "unresolved" /\ Unresolved
     \/ verdict' = "cyclic" /\ ~Unresolved /\ Cyclic
  /\ order' = <<>>

Accept ==
  /\ ~Unresolved /\ ~Cyclic
  /\ verdict' = "ordered"
  /\ IsPlan(order')

Init == verdict = "none" /\ order = <<>>

Next ==
  /\ verdict = "none"
  /\ Reject \/ Accept
  /\ UNCHANGED <<imports, shared>>

Spec == Init /\ [][Next]_vars
=============================================================================
