---------------------------- MODULE ReportOutbox ----------------------------
(***************************************************************************)
(* What the offline queue of error reports promises, whoever runs the      *)
(* compiler and however often: a report that was stored waits until the    *)
(* error service has accepted it.  Only a queue whose capacity the stored  *)
(* reports have used up may give one up, and a process that ends while it  *)
(* stores a report may spoil it.  The module knows neither files nor       *)
(* processes; PendingReports implements it.                                *)
(***************************************************************************)
EXTENDS FiniteSets, Naturals

CONSTANTS Reports,   \* the reports there may be
          Cap        \* the capacity of the queue (MAX_PENDING_REPORTS)

VARIABLES stored,    \* the reports that were ever put into the queue
          waiting,   \* the reports in the queue that can be sent
          spoiled,   \* those of which only the name is left
          accepted   \* the reports the error service has accepted

vars == <<stored, waiting, spoiled, accepted>>

Init == stored = {} /\ waiting = {} /\ spoiled = {} /\ accepted = {}

Store(r) ==
  /\ stored' = stored \cup {r}
  /\ waiting' = waiting \cup {r}
  /\ spoiled' = spoiled \ {r}
  /\ UNCHANGED accepted

\* The process ended while it stored r.
Spoil(r) ==
  /\ stored' = stored \cup {r}
  /\ waiting' = waiting \ {r}
  /\ spoiled' = spoiled \cup {r}
  /\ UNCHANGED accepted

Accept(r) ==
  /\ accepted' = accepted \cup {r}
  /\ UNCHANGED <<stored, waiting, spoiled>>

\* A report leaves the queue: the service has it, or the queue was full.
Drop(r) ==
  /\ r \in accepted \/ Cardinality(stored) >= Cap
  /\ waiting' = waiting \ {r}
  /\ spoiled' = spoiled \ {r}
  /\ UNCHANGED <<stored, accepted>>

Next == \E r \in Reports : Store(r) \/ Spoil(r) \/ Accept(r) \/ Drop(r)

Spec == Init /\ [][Next]_vars

\* As long as fewer reports were stored than the queue holds, none is lost:
\* each can still be sent, or the service has it, or a process ended while it
\* wrote it.
NothingLost ==
  Cardinality(stored) < Cap => stored \subseteq waiting \cup accepted \cup spoiled
=============================================================================
