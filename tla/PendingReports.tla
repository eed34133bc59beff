--------------------------- MODULE PendingReports ---------------------------
(***************************************************************************)
(* The delivery of error reports (src/src/telemetry): any number of        *)
(* invocations of the compiler, and the background threads of a failed     *)
(* compilation and of the MCP server, share ~/.cleen/telemetry without a   *)
(* lock.  A report is posted to the error service; when that fails it is   *)
(* written to a directory of pending reports, which a later flush posts    *)
(* again.  A server that limits the rate opens a window, kept in a file,   *)
(* in which nobody posts.                                                  *)
(*                                                                         *)
(* A step is one access to the file system or one request.  Reports are    *)
(* numbered in the order of their timestamps.  The record of reported      *)
(* errors (reported_errors.json) is left out: it decides nothing here,     *)
(* the retry of unconfirmed reports being cut off by the guard on          *)
(* reproductions.                                                          *)
(***************************************************************************)
EXTENDS FiniteSets, Integers

CONSTANTS Procs,      \* the threads that submit or flush
          MaxReports, \* bound: reports made
          Cap,        \* MAX_PENDING_REPORTS
          PerCycle,   \* reports a flush sends at most
          MaxFaults,  \* bound: requests that do not end well
          MaxCrashes  \* bound: processes that end in the middle

ASSUME ProcsAreFinite == IsFiniteSet(Procs)
ASSUME CapIsPositive == Cap \in Nat \ {0}
ASSUME ReportsAreNumbered == MaxReports \in Nat
ASSUME CycleIsPositive == PerCycle \in Nat \ {0}
ASSUME BoundsAreNumbers == MaxFaults \in Nat /\ MaxCrashes \in Nat

Reports == 1..MaxReports

VARIABLES created,   \* reports made so far
          accepted,  \* the reports the error service has
          pending,   \* the files of the directory
          torn,      \* those among them that hold no readable report
          older,     \* <<f, g>>: f was modified before g
          window,    \* the file retry_after: absent, not yet over, or over
          proc,      \* what each thread is doing
          stored,    \* history: the reports that were ever written to the directory
          faults,
          crashes

vars == <<created, accepted, pending, torn, older, window, proc, stored, faults, crashes>>
directory == <<pending, torn, older, stored>>
bounds == <<created, faults, crashes>>

Steps == {"idle", "list", "next", "check", "clear", "post", "settle", "enforce", "evict", "write"}

Job(step, flush, r) ==
  [at |-> step, flush |-> flush, report |-> r, todo |-> {}, victims |-> {}, sent |-> 0]

Resting == Job("idle", FALSE, 0)

TypeOK ==
  /\ created \in 0..MaxReports
  /\ accepted \subseteq Reports
  /\ pending \subseteq Reports
  /\ torn \subseteq pending
  /\ older \subseteq pending \X pending
  /\ window \in {"none", "open", "over"}
  /\ proc \in [Procs -> [at : Steps, flush : BOOLEAN, report : 0..MaxReports,
                         todo : SUBSET Reports, victims : SUBSET Reports, sent : 0..PerCycle]]
  /\ stored \subseteq Reports
  /\ faults \in 0..MaxFaults
  /\ crashes \in 0..MaxCrashes

Init ==
  /\ created = 0 /\ accepted = {} /\ pending = {} /\ torn = {} /\ older = {}
  /\ window = "none" /\ stored = {} /\ faults = 0 /\ crashes = 0
  /\ proc = [p \in Procs |-> Resting]

Goto(p, step) == proc' = [proc EXCEPT ![p].at = step]
Rest(p) == proc' = [proc EXCEPT ![p] = Resting]

-----------------------------------------------------------------------------
\* The directory.

\* The file of r is gone.
Unlink(r) ==
  /\ pending' = pending \ {r}
  /\ torn' = torn \ {r}
  /\ older' = {fg \in older : r \notin {fg[1], fg[2]}}
  /\ UNCHANGED stored

\* r is written to its file, which becomes the newest one.
Put(r) ==
  /\ pending' = pending \cup {r}
  /\ older' = {fg \in older : r \notin {fg[1], fg[2]}} \cup ((pending \ {r}) \X {r})
  /\ stored' = stored \cup {r}

\* The k files that were modified first.
Oldest(k) ==
  {V \in SUBSET pending :
     /\ Cardinality(V) = k
     /\ \A v \in V, f \in pending \ V : <<v, f>> \in older}

\* Mutant: no room is made for the report about to be written.
FaultExcess == IF Cardinality(pending) < Cap THEN 0 ELSE Cardinality(pending) - Cap

\* Mutant: the directory counts as full one report too early.
FaultExcessEarly == IF Cardinality(pending) + 1 < Cap THEN 0 ELSE Cardinality(pending) - Cap + 2

\* How many files have to go so that one more fits.
Excess == IF Cardinality(pending) < Cap THEN 0 ELSE Cardinality(pending) - Cap + 1

-----------------------------------------------------------------------------
\* Jobs.

\* A compiler error is reported: the thread starts to submit a new report.
Report(p) ==
  /\ proc[p].at = "idle"
  /\ created < MaxReports
  /\ created' = created + 1
  /\ proc' = [proc EXCEPT ![p] = Job("check", FALSE, created + 1)]
  /\ UNCHANGED <<accepted, directory, window, faults, crashes>>

\* A flush starts, unless the server asked for silence.
Flush(p) ==
  /\ proc[p].at = "idle"
  /\ window # "open"
  /\ proc' = [proc EXCEPT ![p] = Job(IF window = "over" THEN "clear" ELSE "list", TRUE, 0)]
  /\ UNCHANGED <<accepted, directory, window, bounds>>

\* The flush reads the directory; a torn file is no report.
List(p) ==
  /\ proc[p].at = "list"
  /\ proc' = [proc EXCEPT ![p].at = "next", ![p].todo = pending \ torn]
  /\ UNCHANGED <<accepted, directory, window, bounds>>

\* The flush turns to the oldest report that is left.
TakeNext(p) ==
  /\ proc[p].at = "next"
  /\ proc[p].sent < PerCycle
  /\ \E r \in proc[p].todo :
       /\ \A s \in proc[p].todo : r <= s
       /\ proc' = [proc EXCEPT ![p].at = "check", ![p].report = r, ![p].todo = @ \ {r}]
  /\ UNCHANGED <<accepted, directory, window, bounds>>

\* Nothing is left, or this cycle has sent its share.
EndFlush(p) ==
  /\ proc[p].at = "next"
  /\ proc[p].todo = {} \/ proc[p].sent = PerCycle
  /\ Rest(p)
  /\ UNCHANGED <<accepted, directory, window, bounds>>

\* Mutant: the file of an accepted report stays.
FaultSettle(p) ==
  /\ proc[p].at = "settle"
  /\ proc' = [proc EXCEPT ![p].at = "next", ![p].report = 0, ![p].sent = @ + 1]
  /\ UNCHANGED <<accepted, directory, window, bounds>>

\* A report that was accepted leaves the directory.
Settle(p) ==
  /\ proc[p].at = "settle"
  /\ Unlink(proc[p].report)
  /\ proc' = [proc EXCEPT ![p].at = "next", ![p].report = 0, ![p].sent = @ + 1]
  /\ UNCHANGED <<accepted, window, bounds>>

-----------------------------------------------------------------------------
\* The submission of one report.

\* The file with the window is read: no request is made before its end.
Check(p) ==
  /\ proc[p].at = "check"
  /\ Goto(p, CASE window = "none" -> "post" [] window = "over" -> "clear" [] OTHER -> "enforce")
  /\ UNCHANGED <<accepted, directory, window, bounds>>

\* The file with the window that was found to be over is removed, whatever it
\* holds by now.
Clear(p) ==
  /\ proc[p].at = "clear"
  /\ window' = "none"
  /\ Goto(p, IF proc[p].report = 0 THEN "list" ELSE "post")
  /\ UNCHANGED <<accepted, directory, bounds>>

\* The service accepts the report.
PostAccepted(p) ==
  /\ proc[p].at = "post"
  /\ accepted' = accepted \cup {proc[p].report}
  /\ IF proc[p].flush THEN Goto(p, "settle") ELSE Rest(p)
  /\ UNCHANGED <<directory, window, bounds>>

\* The request fails: it never arrives, it is refused, or its answer is lost.
PostFailed(p) ==
  /\ proc[p].at = "post"
  /\ faults < MaxFaults
  /\ faults' = faults + 1
  /\ accepted' \in {accepted, accepted \cup {proc[p].report}}
  /\ Goto(p, "enforce")
  /\ UNCHANGED <<directory, window, created, crashes>>

\* The service asks for silence.
PostLimited(p) ==
  /\ proc[p].at = "post"
  /\ faults < MaxFaults
  /\ faults' = faults + 1
  /\ window' = "open"
  /\ Goto(p, "enforce")
  /\ UNCHANGED <<accepted, directory, created, crashes>>

\* Before the report is stored the directory is listed for files to give up.
Enforce(p) ==
  /\ proc[p].at = "enforce"
  /\ \E V \in Oldest(Excess) :
       proc' = [proc EXCEPT ![p].victims = V, ![p].at = IF V = {} THEN "write" ELSE "evict"]
  /\ UNCHANGED <<accepted, directory, window, bounds>>

\* One of the files found is removed, the oldest first.
Evict(p) ==
  /\ proc[p].at = "evict"
  /\ \E v \in proc[p].victims :
       /\ \A w \in proc[p].victims : <<w, v>> \notin older
       /\ Unlink(v)
       /\ proc' = [proc EXCEPT ![p].victims = @ \ {v},
                               ![p].at = IF proc[p].victims = {v} THEN "write" ELSE "evict"]
  /\ UNCHANGED <<accepted, window, bounds>>

\* The report is stored, which ends the job: a flush stops at its first failure.
Write(p) ==
  /\ proc[p].at = "write"
  /\ Put(proc[p].report)
  /\ torn' = torn \ {proc[p].report}
  /\ Rest(p)
  /\ UNCHANGED <<accepted, window, bounds>>

-----------------------------------------------------------------------------
\* The process ends: main returns while a background thread is at work.
Crash(p) ==
  /\ proc[p].at # "idle"
  /\ crashes < MaxCrashes
  /\ crashes' = crashes + 1
  /\ Rest(p)
  /\ UNCHANGED <<accepted, directory, window, created, faults>>

\* It ends, or the disk is full, between the truncation of the file and the
\* text that goes into it.
CrashInWrite(p) ==
  /\ proc[p].at = "write"
  /\ crashes < MaxCrashes
  /\ crashes' = crashes + 1
  /\ Put(proc[p].report)
  /\ torn' = torn \cup {proc[p].report}
  /\ Rest(p)
  /\ UNCHANGED <<accepted, window, created, faults>>

\* The window the server asked for comes to its end.
Elapse ==
  /\ window = "open"
  /\ window' = "over"
  /\ UNCHANGED <<accepted, directory, proc, bounds>>

Advance(p) ==
  \/ List(p) \/ TakeNext(p) \/ EndFlush(p) \/ Settle(p)
  \/ Check(p) \/ Clear(p) \/ PostAccepted(p) \/ PostFailed(p) \/ PostLimited(p)
  \/ Enforce(p) \/ Evict(p) \/ Write(p)

Next ==
  \/ Elapse
  \/ \E p \in Procs : Report(p) \/ Flush(p) \/ Advance(p) \/ Crash(p) \/ CrashInWrite(p)

Spec == Init /\ [][Next]_vars

\* Threads run, windows end, and flushes are started again and again: at every
\* start of the MCP server, after every update, and on request.
FairSpec ==
  /\ Spec
  /\ WF_vars(Elapse)
  /\ \A p \in Procs : WF_vars(Advance(p)) /\ WF_vars(Flush(p))

-----------------------------------------------------------------------------
\* What the directory promises: a stored report waits in it until the service
\* has accepted it, unless a full directory or a write cut short took it
\* (enqueue, dequeue and enforce_cap, at whatever moment other threads run).
Outbox == INSTANCE ReportOutbox WITH waiting <- pending \ torn, spoiled <- torn
ImplementsOutbox == Outbox!Spec

\* No report is lost while fewer were stored than the directory holds, although
\* every thread decides on a listing that may be stale (enforce_cap, flush).
NothingLost == Outbox!NothingLost

\* Threads that list the directory at the same time all find room in it and all
\* write: the cap is exceeded by what they write at once, and by no more,
\* however long they go on (enforce_cap, enqueue).
QueueBounded == Cardinality(pending) <= Cap - 1 + Cardinality(Procs)

\* No report that can be sent stays for ever: once the service answers again,
\* what a flush leaves behind, because it broke off or had sent PerCycle reports,
\* is sent by a later one, until nothing is left (flush, flush_pending_telemetry).
PendingSettles == []<>(pending \ torn = {})
=============================================================================
