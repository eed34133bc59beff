------------------------ MODULE PendingReportsProofs ------------------------
(***************************************************************************)
(* PendingReports implements ReportOutbox, for any number of threads,      *)
(* reports and files.  The argument: a thread that is about to remove the  *)
(* file of a report knows that the service has it, and a thread that is    *)
(* about to give a file up knows that as many reports were stored as the   *)
(* directory holds.  Both facts stay true whatever the other threads do,   *)
(* since neither set ever shrinks, and this is why a stale listing does no *)
(* harm to reports that fit into the directory.                            *)
(*                                                                         *)
(* How far the directory can outgrow its cap is a matter of the threads    *)
(* that have listed it and not written yet.  Whichever of them go on to    *)
(* the end while nobody lists again, what they leave is bounded: a thread  *)
(* that lists has, at that moment, named all files but Cap - 1 as its      *)
(* victims, and each of the threads adds one file.  Removals by others,    *)
(* which make a listing stale, take from the directory what they take from *)
(* the victims.                                                            *)
(***************************************************************************)
EXTENDS PendingReports, FiniteSetTheorems, TLAPS

\* What a thread has made sure of when it is at a step.
Sure ==
  \A p \in Procs :
    /\ proc[p].at \in {"check", "post", "settle", "enforce", "evict", "write"} => proc[p].report # 0
    /\ proc[p].at # "next" => proc[p].sent < PerCycle
    /\ proc[p].at = "settle" => proc[p].report \in accepted
    /\ proc[p].at = "evict" => Cardinality(stored) >= Cap

\* Every file was written by someone.
Written == pending \subseteq stored

Inductive == TypeOK /\ Sure /\ Written

\* The threads that have listed the directory and will write, and the files
\* that some of them are still going to give up.
Committed == {p \in Procs : proc[p].at \in {"evict", "write"}}
Given(S) == UNION {proc[p].victims : p \in S}

\* Whichever of these threads go on to the end, they leave no more files than
\* the cap, one less, and a file for every thread.
Room ==
  \A S \in SUBSET Committed :
    Cardinality(pending \ Given(S)) + Cardinality(S) <= Cap - 1 + Cardinality(Procs)

\* A thread that is about to write has nothing left to give up.
Emptied == \A p \in Procs : proc[p].at = "write" => proc[p].victims = {}

Roomy == Room /\ Emptied

Jobs == [at : Steps, flush : BOOLEAN, report : 0..MaxReports,
         todo : SUBSET Reports, victims : SUBSET Reports, sent : 0..PerCycle]

USE ProcsAreFinite, CapIsPositive, ReportsAreNumbered, CycleIsPositive, BoundsAreNumbers

-----------------------------------------------------------------------------
\* Any set of reports is finite, and a larger set has no fewer.
LEMMA SetsOfReports ==
  ASSUME NEW S, S \subseteq Reports, NEW T, T \subseteq S
  PROVE  /\ IsFiniteSet(S)
         /\ Cardinality(T) \in Nat
         /\ Cardinality(S) \in Nat
         /\ Cardinality(T) <= Cardinality(S)
<1>1. IsFiniteSet(Reports)
  BY FS_Interval DEF Reports
<1>2. IsFiniteSet(S)
  BY <1>1, FS_Subset
<1>3. IsFiniteSet(T) /\ Cardinality(T) <= Cardinality(S)
  BY <1>2, FS_Subset
<1> QED
  BY <1>2, <1>3, FS_CardinalityType

\* The outbox counts as the directory does.
LEMMA SameCount == \A S : Outbox!Cardinality(S) = Cardinality(S)
BY DEF Outbox!Cardinality, Cardinality

\* A thread at rest is a thread.
LEMMA RestingTyped == Resting \in Jobs /\ Resting.at = "idle" /\ Resting.sent = 0 /\ 0 < PerCycle
BY DEF Resting, Job, Jobs, Steps, Reports

\* Files are only given up when the directory is full.
LEMMA VictimsMeanFull ==
  ASSUME TypeOK, Written, NEW V \in Oldest(Excess), V # {}
  PROVE  Cardinality(stored) >= Cap
<1>1. V \subseteq pending /\ Cardinality(V) = Excess
  BY DEF Oldest
<1>2. IsFiniteSet(V) /\ Cardinality(V) # 0
  BY <1>1, SetsOfReports, FS_EmptySet DEF TypeOK
<1>3. Cardinality(pending) \in Nat /\ Cardinality(stored) \in Nat
      /\ Cardinality(pending) <= Cardinality(stored)
  BY SetsOfReports DEF TypeOK, Written
<1> QED
  BY <1>1, <1>2, <1>3 DEF Excess

\* Stored reports and accepted reports are never forgotten.
LEMMA Monotone ==
  ASSUME TypeOK, Next
  PROVE  accepted \subseteq accepted' /\ stored \subseteq stored'
<1>1. CASE Elapse
  BY <1>1 DEF Elapse, directory
<1>2. ASSUME NEW p \in Procs, Report(p) \/ Flush(p) \/ Crash(p) \/ CrashInWrite(p)
      PROVE  accepted \subseteq accepted' /\ stored \subseteq stored'
  BY <1>2 DEF Report, Flush, Crash, CrashInWrite, Put, directory
<1>3. ASSUME NEW p \in Procs, Advance(p)
      PROVE  accepted \subseteq accepted' /\ stored \subseteq stored'
  <2>1. CASE List(p) \/ TakeNext(p) \/ EndFlush(p) \/ Check(p) \/ Clear(p) \/ Enforce(p)
    BY <2>1 DEF List, TakeNext, EndFlush, Check, Clear, Enforce, directory
  <2>2. CASE PostAccepted(p) \/ PostFailed(p) \/ PostLimited(p)
    BY <2>2 DEF PostAccepted, PostFailed, PostLimited, directory
  <2>3. CASE Settle(p) \/ Evict(p) \/ Write(p)
    BY <2>3 DEF Settle, Evict, Write, Unlink, Put
  <2> QED
    BY <1>3, <2>1, <2>2, <2>3 DEF Advance
<1> QED
  BY <1>1, <1>2, <1>3 DEF Next

-----------------------------------------------------------------------------
\* A step of one thread: it leaves the others alone and is itself sure of what
\* its next step needs.
LEMMA ThreadStep ==
  ASSUME Inductive, NEW p \in Procs, NEW job \in Jobs,
         proc' = [proc EXCEPT ![p] = job],
         accepted \subseteq accepted', stored \subseteq stored', stored' \subseteq Reports,
         job.at \in {"check", "post", "settle", "enforce", "evict", "write"} => job.report # 0,
         job.at # "next" => job.sent < PerCycle,
         job.at = "settle" => job.report \in accepted',
         job.at = "evict" => Cardinality(stored') >= Cap
  PROVE  proc' \in [Procs -> Jobs] /\ Sure'
<1>1. proc \in [Procs -> Jobs]
  BY DEF Inductive, TypeOK, Jobs
<1>2. proc' \in [Procs -> Jobs]
  BY <1>1
<1>3. Cardinality(stored) \in Nat /\ Cardinality(stored') \in Nat
      /\ Cardinality(stored) <= Cardinality(stored')
  BY SetsOfReports
<1>4. ASSUME NEW q \in Procs
      PROVE  /\ proc'[q].at \in {"check", "post", "settle", "enforce", "evict", "write"}
                  => proc'[q].report # 0
             /\ proc'[q].at # "next" => proc'[q].sent < PerCycle
             /\ proc'[q].at = "settle" => proc'[q].report \in accepted'
             /\ proc'[q].at = "evict" => Cardinality(stored') >= Cap
  <2>1. CASE q = p
    BY <2>1, <1>1
  <2>2. CASE q # p
    <3>1. proc'[q] = proc[q]
      BY <2>2, <1>1
    <3> QED
      BY <3>1, <1>3 DEF Inductive, Sure
  <2> QED
    BY <2>1, <2>2
<1> QED
  BY <1>2, <1>4 DEF Sure

\* A file is written, or goes.
LEMMA PutTyped ==
  ASSUME TypeOK, Written, NEW r \in Reports, Put(r)
  PROVE  /\ pending' \subseteq Reports /\ pending \subseteq pending' /\ r \in pending'
         /\ older' \subseteq pending' \X pending'
         /\ stored \subseteq stored' /\ stored' \subseteq Reports /\ Written'
BY DEF TypeOK, Written, Put

LEMMA UnlinkTyped ==
  ASSUME TypeOK, Written, NEW r, Unlink(r)
  PROVE  /\ pending' \subseteq Reports /\ torn' \subseteq pending'
         /\ older' \subseteq pending' \X pending'
         /\ stored' = stored /\ stored \subseteq Reports /\ Written'
BY DEF TypeOK, Written, Unlink

\* What is left to show of a step: the thread's new job is one, and what the
\* step does to the rest of the state is typed.
LEMMA Typed ==
  ASSUME proc' \in [Procs -> Jobs], created' \in 0..MaxReports, accepted' \subseteq Reports,
         pending' \subseteq Reports, torn' \subseteq pending', older' \subseteq pending' \X pending',
         window' \in {"none", "open", "over"}, stored' \subseteq Reports,
         faults' \in 0..MaxFaults, crashes' \in 0..MaxCrashes
  PROVE  TypeOK'
BY DEF TypeOK, Jobs

-----------------------------------------------------------------------------
\* The initial state.
LEMMA InitInductive == Init => Inductive
<1> SUFFICES ASSUME Init PROVE Inductive
  OBVIOUS
<1>1. proc \in [Procs -> Jobs]
  BY RestingTyped DEF Init
<1>2. TypeOK
  BY <1>1 DEF Init, TypeOK, Jobs
<1>3. Sure
  BY RestingTyped DEF Init, Sure
<1> QED
  BY <1>2, <1>3 DEF Init, Inductive, Written

\* The steps of a thread that do not touch the directory.
LEMMA QuietStep ==
  ASSUME Inductive, Next, NEW p \in Procs,
         Report(p) \/ Flush(p) \/ List(p) \/ TakeNext(p) \/ EndFlush(p) \/ Check(p) \/ Clear(p)
         \/ PostAccepted(p) \/ PostFailed(p) \/ PostLimited(p) \/ Enforce(p) \/ Crash(p)
  PROVE  Inductive'
<1> USE DEF Inductive
<1>1. proc \in [Procs -> Jobs] /\ proc[p] \in Jobs
  BY DEF TypeOK, Jobs
<1>2. accepted \subseteq accepted' /\ stored \subseteq stored'
  BY Monotone
<1>3. UNCHANGED directory /\ stored' \subseteq Reports
  BY DEF Report, Flush, List, TakeNext, EndFlush, Check, Clear, PostAccepted, PostFailed,
         PostLimited, Enforce, Crash, directory, TypeOK
<1>4. /\ created' \in 0..MaxReports /\ faults' \in 0..MaxFaults /\ crashes' \in 0..MaxCrashes
      /\ window' \in {"none", "open", "over"}
  <2>1. \/ UNCHANGED bounds
        \/ created < MaxReports /\ created' = created + 1 /\ UNCHANGED <<faults, crashes>>
        \/ faults < MaxFaults /\ faults' = faults + 1 /\ UNCHANGED <<created, crashes>>
        \/ crashes < MaxCrashes /\ crashes' = crashes + 1 /\ UNCHANGED <<created, faults>>
    <3>1. CASE Report(p)
      BY <3>1 DEF Report
    <3>2. CASE PostFailed(p) \/ PostLimited(p)
      BY <3>2 DEF PostFailed, PostLimited
    <3>3. CASE Crash(p)
      BY <3>3 DEF Crash
    <3>4. CASE Flush(p) \/ List(p) \/ TakeNext(p) \/ EndFlush(p) \/ Check(p) \/ Clear(p)
               \/ PostAccepted(p) \/ Enforce(p)
      BY <3>4 DEF Flush, List, TakeNext, EndFlush, Check, Clear, PostAccepted, Enforce
    <3> QED
      BY <3>1, <3>2, <3>3, <3>4
  <2>2. window' \in {window, "none", "open"}
    BY DEF Report, Flush, List, TakeNext, EndFlush, Check, Clear, PostAccepted, PostFailed,
           PostLimited, Enforce, Crash
  <2> QED
    BY <2>1, <2>2 DEF TypeOK, bounds
<1>5. proc[p].at = "post" => proc[p].report \in Reports
  BY <1>1 DEF Sure, Jobs, Reports
<1>6. accepted' \subseteq Reports
  BY <1>5 DEF Report, Flush, List, TakeNext, EndFlush, Check, Clear, PostAccepted, PostFailed,
         PostLimited, Enforce, Crash, TypeOK
<1>7. SUFFICES \E job \in Jobs :
        /\ proc' = [proc EXCEPT ![p] = job]
        /\ job.at \in {"check", "post", "settle", "enforce", "evict", "write"} => job.report # 0
        /\ job.at # "next" => job.sent < PerCycle
        /\ job.at = "settle" => job.report \in accepted'
        /\ job.at = "evict" => Cardinality(stored') >= Cap
  <2>1. proc' \in [Procs -> Jobs] /\ Sure'
    BY <1>2, <1>3, <1>7, ThreadStep
  <2>2. TypeOK'
    BY <1>3, <1>4, <1>6, <2>1, Typed DEF TypeOK, directory
  <2> QED
    BY <1>3, <2>1, <2>2 DEF Written, directory
<1>8. CASE EndFlush(p) \/ Crash(p)
  <2> USE RestingTyped
  <2> WITNESS Resting \in Jobs
  <2> QED
    BY <1>8, RestingTyped DEF EndFlush, Crash, Rest
<1>9. CASE Report(p)
  <2> DEFINE job == Job("check", FALSE, created + 1)
  <2>1. job \in Jobs /\ job.at = "check" /\ job.report # 0 /\ job.sent = 0
    BY <1>4, <1>9 DEF Report, Job, Jobs, Steps, Reports, TypeOK
  <2>2. proc' = [proc EXCEPT ![p] = job]
    BY <1>9 DEF Report
  <2> HIDE DEF job
  <2> QED
    BY <2>1, <2>2, RestingTyped
<1>10. CASE Flush(p)
  <2> DEFINE job == Job(IF window = "over" THEN "clear" ELSE "list", TRUE, 0)
  <2>1. job \in Jobs /\ job.at \in {"clear", "list"} /\ job.sent = 0
    BY DEF Resting, Job, Jobs, Steps, Reports
  <2>2. proc' = [proc EXCEPT ![p] = job]
    BY <1>10 DEF Flush
  <2> HIDE DEF job
  <2> QED
    BY <2>1, <2>2, RestingTyped
<1>11. CASE List(p)
  <2> DEFINE job == [proc[p] EXCEPT !.at = "next", !.todo = pending \ torn]
  <2>1. job \in Jobs /\ job.at = "next" /\ proc' = [proc EXCEPT ![p] = job]
    BY <1>1, <1>11 DEF List, Jobs, Steps, TypeOK
  <2> QED
    BY <2>1
<1>12. CASE TakeNext(p)
  <2>1. PICK r \in proc[p].todo :
          proc' = [proc EXCEPT ![p].at = "check", ![p].report = r, ![p].todo = @ \ {r}]
    BY <1>12 DEF TakeNext
  <2> DEFINE job == [proc[p] EXCEPT !.at = "check", !.report = r, !.todo = @ \ {r}]
  <2>2. job \in Jobs /\ job.at = "check" /\ job.report # 0 /\ job.sent = proc[p].sent
    BY <1>1, <2>1 DEF Jobs, Steps, Reports
  <2>3. proc' = [proc EXCEPT ![p] = job] /\ proc[p].sent < PerCycle
    BY <1>1, <1>12, <2>1 DEF TakeNext, Jobs
  <2> QED
    BY <2>2, <2>3
<1>13. CASE Check(p) \/ Clear(p) \/ PostFailed(p) \/ PostLimited(p)
  <2>1. PICK step \in {"post", "clear", "enforce", "list"} : Goto(p, step) /\ (step \in {"post", "enforce"} => proc[p].report # 0)
    BY <1>13 DEF Check, Clear, PostFailed, PostLimited, Goto, Sure, TypeOK
  <2>2. proc[p].sent < PerCycle
    BY <1>13 DEF Check, Clear, PostFailed, PostLimited, Sure
  <2> DEFINE job == [proc[p] EXCEPT !.at = step]
  <2>3. /\ job \in Jobs /\ job.at = step
        /\ job.report = proc[p].report /\ job.sent = proc[p].sent
        /\ proc' = [proc EXCEPT ![p] = job]
    BY <1>1, <2>1 DEF Goto, Jobs, Steps
  <2> QED
    BY <2>1, <2>2, <2>3
<1>14. CASE PostAccepted(p)
  <2>1. CASE proc[p].flush
    <3> DEFINE job == [proc[p] EXCEPT !.at = "settle"]
    <3>1. /\ job \in Jobs /\ job.at = "settle"
          /\ job.report = proc[p].report /\ job.sent = proc[p].sent
          /\ proc' = [proc EXCEPT ![p] = job]
      BY <1>1, <1>14, <2>1 DEF PostAccepted, Goto, Jobs, Steps
    <3>2. proc[p].report # 0 /\ proc[p].sent < PerCycle /\ proc[p].report \in accepted'
      BY <1>14 DEF PostAccepted, Sure
    <3> HIDE DEF job
    <3> QED
      BY <3>1, <3>2
  <2>2. CASE ~proc[p].flush
    <3> USE RestingTyped
    <3> WITNESS Resting \in Jobs
    <3> QED
      BY <1>14, <2>2, RestingTyped DEF PostAccepted, Rest
  <2> QED
    BY <2>1, <2>2
<1>15. CASE Enforce(p)
  <2>1. PICK V \in Oldest(Excess) :
          proc' = [proc EXCEPT ![p].victims = V, ![p].at = IF V = {} THEN "write" ELSE "evict"]
    BY <1>15 DEF Enforce
  <2> DEFINE job == [proc[p] EXCEPT !.victims = V, !.at = IF V = {} THEN "write" ELSE "evict"]
  <2>2. V \subseteq Reports
    BY DEF Oldest, TypeOK
  <2>3. /\ job \in Jobs /\ job.at = (IF V = {} THEN "write" ELSE "evict")
        /\ job.report = proc[p].report /\ job.sent = proc[p].sent
        /\ proc' = [proc EXCEPT ![p] = job]
    BY <1>1, <2>1, <2>2 DEF Jobs, Steps
  <2>4. V # {} => Cardinality(stored') >= Cap
    BY <1>3, VictimsMeanFull DEF directory
  <2>5. proc[p].report # 0 /\ proc[p].sent < PerCycle
    BY <1>15 DEF Enforce, Sure
  <2> HIDE DEF job
  <2> QED
    BY <2>3, <2>4, <2>5
<1> QED
  BY <1>8, <1>9, <1>10, <1>11, <1>12, <1>13, <1>14, <1>15

\* The steps of a thread that change the directory.
LEMMA FileStep ==
  ASSUME Inductive, Next, NEW p \in Procs,
         Settle(p) \/ Evict(p) \/ Write(p) \/ CrashInWrite(p)
  PROVE  Inductive'
<1> USE DEF Inductive
<1>1. proc \in [Procs -> Jobs] /\ proc[p] \in Jobs
  BY DEF TypeOK, Jobs
<1>2. accepted' = accepted /\ stored \subseteq stored'
  BY Monotone DEF Settle, Evict, Write, CrashInWrite
<1>3. CASE Settle(p)
  <2> DEFINE job == [proc[p] EXCEPT !.at = "next", !.report = 0, !.sent = @ + 1]
  <2>1. Unlink(proc[p].report) /\ proc[p].sent < PerCycle
    BY <1>3 DEF Settle, Sure
  <2>2. job \in Jobs /\ job.at = "next"
    <3>1. proc[p].sent + 1 \in 0..PerCycle /\ 0 \in 0..MaxReports
      BY <1>1, <2>1 DEF Jobs
    <3> QED
      BY <1>1, <3>1 DEF Jobs, Steps
  <2>3. proc' = [proc EXCEPT ![p] = job]
    BY <1>1, <1>3 DEF Settle, Jobs
  <2> HIDE DEF job
  <2>4. stored' \subseteq Reports
    BY <2>1, UnlinkTyped
  <2>5. proc' \in [Procs -> Jobs] /\ Sure'
    BY <1>2, <2>2, <2>3, <2>4, ThreadStep
  <2>6. TypeOK'
    BY <1>2, <1>3, <2>1, <2>5, UnlinkTyped, Typed DEF Settle, bounds, TypeOK
  <2> QED
    BY <2>1, <2>5, <2>6, UnlinkTyped
<1>4. CASE Evict(p)
  <2>1. PICK v \in proc[p].victims :
          /\ Unlink(v)
          /\ proc' = [proc EXCEPT ![p].victims = @ \ {v},
                                  ![p].at = IF proc[p].victims = {v} THEN "write" ELSE "evict"]
    BY <1>4 DEF Evict
  <2> DEFINE job == [proc[p] EXCEPT !.victims = @ \ {v},
                                    !.at = IF proc[p].victims = {v} THEN "write" ELSE "evict"]
  <2>2. /\ job \in Jobs /\ job.at \in {"write", "evict"}
        /\ job.report = proc[p].report /\ job.sent = proc[p].sent
        /\ proc' = [proc EXCEPT ![p] = job]
    BY <1>1, <2>1 DEF Jobs, Steps
  <2>3. proc[p].report # 0 /\ proc[p].sent < PerCycle /\ Cardinality(stored) >= Cap
    BY <1>4 DEF Evict, Sure
  <2> HIDE DEF job
  <2>4. stored' = stored /\ stored' \subseteq Reports
    BY <2>1, UnlinkTyped
  <2>5. proc' \in [Procs -> Jobs] /\ Sure'
    BY <1>2, <2>2, <2>3, <2>4, ThreadStep
  <2>6. TypeOK'
    BY <1>2, <1>4, <2>1, <2>5, UnlinkTyped, Typed DEF Evict, bounds, TypeOK
  <2> QED
    BY <2>1, <2>5, <2>6, UnlinkTyped
<1>5. CASE Write(p) \/ CrashInWrite(p)
  <2>1. proc[p].report \in Reports
    BY <1>1, <1>5 DEF Write, CrashInWrite, Sure, Jobs, Reports
  <2>2. Put(proc[p].report) /\ Rest(p)
    BY <1>5 DEF Write, CrashInWrite
  <2>3. stored' \subseteq Reports /\ pending \subseteq pending' /\ proc[p].report \in pending' /\ Written'
    BY <2>1, <2>2, PutTyped
  <2>4. proc' \in [Procs -> Jobs] /\ Sure'
    BY <1>2, <2>2, <2>3, RestingTyped, ThreadStep DEF Rest
  <2>5. torn' \subseteq pending'
    BY <1>5, <2>3 DEF Write, CrashInWrite, TypeOK
  <2>6. created' \in 0..MaxReports /\ faults' \in 0..MaxFaults /\ crashes' \in 0..MaxCrashes
    BY <1>5 DEF Write, CrashInWrite, bounds, TypeOK
  <2>7. window' = window
    BY <1>5 DEF Write, CrashInWrite
  <2>8. TypeOK'
    BY <1>2, <2>1, <2>2, <2>4, <2>5, <2>6, <2>7, PutTyped, Typed DEF TypeOK
  <2> QED
    BY <2>3, <2>4, <2>8
<1> QED
  BY <1>3, <1>4, <1>5

\* Every step keeps the inductive invariant.
LEMMA StepInductive == Inductive /\ [Next]_vars => Inductive'
<1> SUFFICES ASSUME Inductive, [Next]_vars PROVE Inductive'
  OBVIOUS
<1>1. CASE UNCHANGED vars
  BY <1>1 DEF vars, Inductive, TypeOK, Sure, Written
<1>2. CASE Elapse
  BY <1>2 DEF Elapse, directory, bounds, Inductive, TypeOK, Sure, Written
<1>3. ASSUME NEW p \in Procs,
             Report(p) \/ Flush(p) \/ Advance(p) \/ Crash(p) \/ CrashInWrite(p)
      PROVE  Inductive'
  <2>1. Next
    BY <1>3 DEF Next
  <2> QED
    BY <1>3, <2>1, QuietStep, FileStep DEF Advance
<1> QED
  BY <1>1, <1>2, <1>3 DEF Next

-----------------------------------------------------------------------------
\* The refinement: each step is a step of the outbox or none.
LEMMA StepRefines == Inductive /\ [Next]_vars => [Outbox!Next]_(Outbox!vars)
<1> SUFFICES ASSUME Inductive, [Next]_vars PROVE [Outbox!Next]_(Outbox!vars)
  OBVIOUS
<1> USE DEF Outbox!vars, Inductive
<1>1. CASE UNCHANGED vars \/ Elapse
  BY <1>1 DEF vars, Elapse, directory
<1>2. ASSUME NEW p \in Procs,
             Report(p) \/ Flush(p) \/ Advance(p) \/ Crash(p) \/ CrashInWrite(p)
      PROVE  [Outbox!Next]_(Outbox!vars)
  <2>1. proc[p] \in Jobs
    BY DEF TypeOK, Jobs
  <2>2. CASE Report(p) \/ Flush(p) \/ List(p) \/ TakeNext(p) \/ EndFlush(p) \/ Check(p) \/ Clear(p)
             \/ PostLimited(p) \/ Enforce(p) \/ Crash(p)
    BY <2>2 DEF Report, Flush, List, TakeNext, EndFlush, Check, Clear, PostLimited, Enforce,
                Crash, directory
  <2>3. CASE PostAccepted(p) \/ PostFailed(p)
    <3>1. proc[p].report \in Reports
      BY <2>1, <2>3 DEF PostAccepted, PostFailed, Sure, Jobs, Reports
    <3>2. UNCHANGED accepted \/ accepted' = accepted \cup {proc[p].report}
      BY <2>3 DEF PostAccepted, PostFailed
    <3> QED
      BY <2>3, <3>1, <3>2 DEF PostAccepted, PostFailed, directory, Outbox!Next, Outbox!Accept
  <2>4. CASE Settle(p)
    <3>1. proc[p].report \in accepted /\ proc[p].report \in Reports
      BY <2>4 DEF Settle, Sure, TypeOK
    <3> QED
      BY <2>4, <3>1 DEF Settle, Unlink, Outbox!Next, Outbox!Drop
  <2>5. CASE Evict(p)
    <3>1. PICK v \in proc[p].victims : Unlink(v)
      BY <2>5 DEF Evict
    <3>2. v \in Reports /\ Cardinality(stored) >= Cap
      BY <2>1, <2>5 DEF Evict, Sure, Jobs
    <3>3. UNCHANGED accepted
      BY <2>5 DEF Evict
    <3> QED
      BY <3>1, <3>2, <3>3, SameCount DEF Unlink, Outbox!Next, Outbox!Drop
  <2>6. CASE Write(p) \/ CrashInWrite(p)
    <3>1. proc[p].report \in Reports
      BY <2>1, <2>6 DEF Write, CrashInWrite, Sure, Jobs, Reports
    <3>2. Outbox!Store(proc[p].report) \/ Outbox!Spoil(proc[p].report)
      BY <2>6 DEF Write, CrashInWrite, Put, Outbox!Store, Outbox!Spoil, TypeOK
    <3> QED
      BY <3>1, <3>2 DEF Outbox!Next
  <2> QED
    BY <1>2, <2>2, <2>3, <2>4, <2>5, <2>6 DEF Advance
<1> QED
  BY <1>1, <1>2 DEF Next

\* The outbox keeps its promise.
LEMMA StepLosesNothing ==
  Inductive /\ Inductive' /\ NothingLost /\ [Outbox!Next]_(Outbox!vars) => NothingLost'
<1> SUFFICES ASSUME Inductive, Inductive', NothingLost, [Outbox!Next]_(Outbox!vars),
                    Cardinality(stored') < Cap
             PROVE  stored' \subseteq (pending' \ torn') \cup accepted' \cup torn'
  BY SameCount DEF NothingLost, Outbox!NothingLost
<1>1. stored \subseteq stored'
  BY DEF Outbox!Next, Outbox!Store, Outbox!Spoil, Outbox!Accept, Outbox!Drop, Outbox!vars
<1>2. Cardinality(stored) < Cap
  BY <1>1, SetsOfReports DEF Inductive, TypeOK
<1>3. stored \subseteq (pending \ torn) \cup accepted \cup torn
  BY <1>2, SameCount DEF NothingLost, Outbox!NothingLost
<1>4. CASE UNCHANGED Outbox!vars
  BY <1>3, <1>4 DEF Outbox!vars
<1>5. ASSUME NEW r \in Reports, Outbox!Store(r) \/ Outbox!Spoil(r) \/ Outbox!Accept(r)
      PROVE  stored' \subseteq (pending' \ torn') \cup accepted' \cup torn'
  BY <1>3, <1>5 DEF Outbox!Store, Outbox!Spoil, Outbox!Accept
<1>6. ASSUME NEW r \in Reports, Outbox!Drop(r)
      PROVE  stored' \subseteq (pending' \ torn') \cup accepted' \cup torn'
  <2>1. Cardinality(stored) \in Nat
    BY SetsOfReports DEF Inductive, TypeOK
  <2>2. r \in accepted
    BY <1>2, <1>6, <2>1, SameCount DEF Outbox!Drop
  <2> QED
    BY <1>3, <1>6, <2>2 DEF Outbox!Drop
<1> QED
  BY <1>4, <1>5, <1>6 DEF Outbox!Next

-----------------------------------------------------------------------------
\* The bound on the directory.

\* What some threads leave is a finite set of files, and they are finitely many.
LEMMA CountsTyped ==
  ASSUME TypeOK, NEW S, S \subseteq Procs, NEW T, T \subseteq pending
  PROVE  /\ IsFiniteSet(S) /\ Cardinality(S) \in Nat /\ Cardinality(S) <= Cardinality(Procs)
         /\ IsFiniteSet(T) /\ Cardinality(T) \in Nat /\ Cardinality(T) <= Cardinality(pending)
         /\ Cardinality(pending) \in Nat /\ Cardinality(Procs) \in Nat
<1>1. IsFiniteSet(S) /\ Cardinality(S) <= Cardinality(Procs)
  BY FS_Subset
<1>2. pending \subseteq Reports
  BY DEF TypeOK
<1>3. IsFiniteSet(pending)
  BY <1>2, SetsOfReports
<1>4. IsFiniteSet(T) /\ Cardinality(T) <= Cardinality(pending)
  BY <1>3, FS_Subset
<1> QED
  BY <1>1, <1>3, <1>4, FS_CardinalityType

\* To keep Room it is enough that whatever a set of threads leaves after the
\* step, some set of threads would have left before it.
LEMMA RoomKept ==
  ASSUME TypeOK, TypeOK', Room,
         \A S \in SUBSET Committed' : \E T \in SUBSET Committed :
           Cardinality(pending' \ Given(S)') + Cardinality(S)
             <= Cardinality(pending \ Given(T)) + Cardinality(T)
  PROVE  Room'
<1> SUFFICES ASSUME NEW S \in SUBSET Committed'
             PROVE  Cardinality(pending' \ Given(S)') + Cardinality(S) <= Cap - 1 + Cardinality(Procs)
  BY DEF Room
<1>1. PICK T \in SUBSET Committed :
        Cardinality(pending' \ Given(S)') + Cardinality(S)
          <= Cardinality(pending \ Given(T)) + Cardinality(T)
  OBVIOUS
<1>2. S \subseteq Procs /\ T \subseteq Procs
  BY DEF Committed
<1>3. Cardinality(pending \ Given(T)) + Cardinality(T) <= Cap - 1 + Cardinality(Procs)
  BY DEF Room
<1>4. Cardinality(pending \ Given(T)) \in Nat /\ Cardinality(T) \in Nat
      /\ Cardinality(S) \in Nat /\ Cardinality(Procs) \in Nat
  BY <1>2, CountsTyped
<1>5. IsFiniteSet(pending' \ Given(S)')
  BY SetsOfReports DEF TypeOK
<1>6. Cardinality(pending' \ Given(S)') \in Nat
  BY <1>5, FS_CardinalityType
<1> QED
  BY <1>1, <1>3, <1>4, <1>6

\* Other threads give up what they were going to give up.
LEMMA OthersGive ==
  ASSUME TypeOK, NEW p \in Procs, NEW job \in Jobs, proc' = [proc EXCEPT ![p] = job],
         NEW S, S \subseteq Procs, p \notin S
  PROVE  Given(S)' = Given(S)
<1>1. \A q \in S : proc'[q] = proc[q]
  BY DEF TypeOK
<1> QED
  BY <1>1 DEF Given

\* A thread takes a step after which it has not listed the directory, and no
\* file is added.
LEMMA IdleStep ==
  ASSUME TypeOK, TypeOK', Roomy, NEW p \in Procs, NEW job \in Jobs,
         proc' = [proc EXCEPT ![p] = job], job.at \notin {"evict", "write"},
         pending' \subseteq pending
  PROVE  Roomy'
<1>1. \A q \in Procs : proc'[q] = IF q = p THEN job ELSE proc[q]
  BY DEF TypeOK
<1>2. Emptied'
  BY <1>1 DEF Roomy, Emptied
<1>3. Room'
  <2> SUFFICES ASSUME NEW S \in SUBSET Committed'
               PROVE  \E T \in SUBSET Committed :
                        Cardinality(pending' \ Given(S)') + Cardinality(S)
                          <= Cardinality(pending \ Given(T)) + Cardinality(T)
    BY RoomKept DEF Roomy
  <2>1. S \in SUBSET Committed /\ p \notin S /\ S \subseteq Procs
    BY <1>1 DEF Committed
  <2>2. Given(S)' = Given(S)
    BY <2>1, OthersGive
  <2>3. pending' \ Given(S)' \subseteq pending \ Given(S) /\ pending \ Given(S) \subseteq Reports
    BY <2>2 DEF TypeOK
  <2>4. Cardinality(pending' \ Given(S)') <= Cardinality(pending \ Given(S))
        /\ Cardinality(pending' \ Given(S)') \in Nat /\ Cardinality(pending \ Given(S)) \in Nat
    BY <2>3, SetsOfReports
  <2>5. Cardinality(S) \in Nat
    BY <2>1, CountsTyped
  <2>6. Cardinality(pending' \ Given(S)') + Cardinality(S)
          <= Cardinality(pending \ Given(S)) + Cardinality(S)
    BY <2>4, <2>5
  <2> QED
    BY <2>1, <2>6
<1> QED
  BY <1>2, <1>3 DEF Roomy

\* A thread that lists the directory gives up all files but Cap - 1.
LEMMA ListingLeaves ==
  ASSUME TypeOK, NEW V \in Oldest(Excess)
  PROVE  Cardinality(pending \ V) \in Nat /\ Cardinality(pending \ V) <= Cap - 1
<1>1. V \subseteq pending /\ Cardinality(V) = Excess
  BY DEF Oldest
<1>2. IsFiniteSet(pending) /\ IsFiniteSet(V) /\ IsFiniteSet(pending \ V)
  BY <1>1, SetsOfReports DEF TypeOK
<1>3. Cardinality(pending \ V) = Cardinality(pending) - Cardinality(pending \cap V)
  BY <1>2, FS_Difference
<1>4. pending \cap V = V
  BY <1>1
<1>5. Cardinality(pending) \in Nat /\ Cardinality(pending \ V) \in Nat
  BY <1>2, FS_CardinalityType
<1> QED
  BY <1>1, <1>3, <1>4, <1>5 DEF Excess

LEMMA EnforceRoomy ==
  ASSUME TypeOK, TypeOK', Roomy, NEW p \in Procs, Enforce(p)
  PROVE  Roomy'
<1>1. PICK V \in Oldest(Excess) :
        proc' = [proc EXCEPT ![p].victims = V, ![p].at = IF V = {} THEN "write" ELSE "evict"]
  BY DEF Enforce
<1>2. pending' = pending
  BY DEF Enforce, directory
<1> DEFINE job == [proc[p] EXCEPT !.victims = V, !.at = IF V = {} THEN "write" ELSE "evict"]
<1>3. proc[p] \in Jobs /\ V \subseteq Reports
  BY DEF TypeOK, Jobs, Oldest
<1>4. job \in Jobs /\ job.victims = V /\ (job.at = "write" => V = {})
      /\ proc' = [proc EXCEPT ![p] = job]
  BY <1>1, <1>3 DEF Jobs, Steps, TypeOK
<1> HIDE DEF job
<1>5. \A q \in Procs : proc'[q] = IF q = p THEN job ELSE proc[q]
  BY <1>4 DEF TypeOK
<1>6. Emptied'
  BY <1>4, <1>5 DEF Roomy, Emptied
<1>7. ASSUME NEW S \in SUBSET Committed'
      PROVE  Cardinality(pending' \ Given(S)') + Cardinality(S) <= Cap - 1 + Cardinality(Procs)
  <2>1. S \subseteq Procs
    BY DEF Committed
  <2>2. Cardinality(S) \in Nat /\ Cardinality(S) <= Cardinality(Procs) /\ Cardinality(Procs) \in Nat
    BY <2>1, CountsTyped
  <2>3. CASE p \in S
    <3>1. V \subseteq Given(S)'
      BY <1>4, <1>5, <2>1, <2>3 DEF Given
    <3>2. pending' \ Given(S)' \subseteq pending \ V /\ pending \ V \subseteq Reports
      BY <1>2, <3>1 DEF TypeOK
    <3>3. Cardinality(pending' \ Given(S)') \in Nat
          /\ Cardinality(pending' \ Given(S)') <= Cardinality(pending \ V)
      BY <3>2, SetsOfReports
    <3> QED
      BY <2>2, <3>3, ListingLeaves
  <2>4. CASE p \notin S
    <3>1. S \in SUBSET Committed
      BY <1>5, <2>4 DEF Committed
    <3>2. Given(S)' = Given(S)
      BY <1>4, <2>1, <2>4, OthersGive
    <3> QED
      BY <1>2, <3>1, <3>2 DEF Roomy, Room
  <2> QED
    BY <2>3, <2>4
<1> QED
  BY <1>6, <1>7 DEF Roomy, Room

\* A thread that gives one file up has one less to give up, whoever removed it.
LEMMA EvictRoomy ==
  ASSUME TypeOK, TypeOK', Roomy, NEW p \in Procs, Evict(p)
  PROVE  Roomy'
<1>1. PICK v \in proc[p].victims :
        /\ Unlink(v)
        /\ proc' = [proc EXCEPT ![p].victims = @ \ {v},
                                ![p].at = IF proc[p].victims = {v} THEN "write" ELSE "evict"]
  BY DEF Evict
<1>2. pending' = pending \ {v}
  BY <1>1 DEF Unlink
<1> DEFINE job == [proc[p] EXCEPT !.victims = @ \ {v},
                                  !.at = IF proc[p].victims = {v} THEN "write" ELSE "evict"]
<1>3. proc[p] \in Jobs
  BY DEF TypeOK, Jobs
<1>4. /\ job \in Jobs /\ job.victims = proc[p].victims \ {v}
      /\ job.at = "write" => job.victims = {}
      /\ proc' = [proc EXCEPT ![p] = job]
  BY <1>1, <1>3 DEF Jobs, Steps, TypeOK
<1> HIDE DEF job
<1>5. \A q \in Procs : proc'[q] = IF q = p THEN job ELSE proc[q]
  BY <1>4 DEF TypeOK
<1>6. Emptied'
  BY <1>4, <1>5 DEF Roomy, Emptied
<1>7. Room'
  <2> SUFFICES ASSUME NEW S \in SUBSET Committed'
               PROVE  \E T \in SUBSET Committed :
                        Cardinality(pending' \ Given(S)') + Cardinality(S)
                          <= Cardinality(pending \ Given(T)) + Cardinality(T)
    BY RoomKept DEF Roomy
  <2>1. S \in SUBSET Committed /\ S \subseteq Procs
    BY <1>5 DEF Committed, Evict
  <2>2. Given(S) \subseteq Given(S)' \cup {v}
    BY <1>4, <1>5, <2>1 DEF Given
  <2>3. pending' \ Given(S)' \subseteq pending \ Given(S) /\ pending \ Given(S) \subseteq Reports
    BY <1>2, <2>2 DEF TypeOK
  <2>4. Cardinality(pending' \ Given(S)') <= Cardinality(pending \ Given(S))
        /\ Cardinality(pending' \ Given(S)') \in Nat /\ Cardinality(pending \ Given(S)) \in Nat
    BY <2>3, SetsOfReports
  <2>5. Cardinality(S) \in Nat
    BY <2>1, CountsTyped
  <2>6. Cardinality(pending' \ Given(S)') + Cardinality(S)
          <= Cardinality(pending \ Given(S)) + Cardinality(S)
    BY <2>4, <2>5
  <2> QED
    BY <2>1, <2>6
<1> QED
  BY <1>6, <1>7 DEF Roomy

\* A thread that writes adds a file and is one writer less.
LEMMA WriteRoomy ==
  ASSUME TypeOK, TypeOK', Roomy, NEW p \in Procs, Write(p) \/ CrashInWrite(p)
  PROVE  Roomy'
<1>1. proc[p].at = "write" /\ Rest(p) /\ pending' = pending \cup {proc[p].report}
  BY DEF Write, CrashInWrite, Put
<1>2. proc[p].victims = {} /\ p \in Committed
  BY <1>1 DEF Roomy, Emptied, Committed
<1>3. \A q \in Procs : proc'[q] = IF q = p THEN Resting ELSE proc[q]
  BY <1>1 DEF Rest, TypeOK
<1>4. Emptied'
  BY <1>3, RestingTyped DEF Roomy, Emptied
<1>5. Room'
  <2> SUFFICES ASSUME NEW S \in SUBSET Committed'
               PROVE  \E T \in SUBSET Committed :
                        Cardinality(pending' \ Given(S)') + Cardinality(S)
                          <= Cardinality(pending \ Given(T)) + Cardinality(T)
    BY RoomKept DEF Roomy
  <2>1. S \in SUBSET Committed /\ p \notin S /\ S \subseteq Procs
    BY <1>3, RestingTyped DEF Committed
  <2>2. Given(S)' = Given(S)
    BY <1>1, <2>1, OthersGive, RestingTyped DEF Rest
  <2> DEFINE T == S \cup {p}
  <2>3. T \in SUBSET Committed
    BY <1>2, <2>1
  <2>4. Given(T) = Given(S)
    BY <1>2 DEF Given
  <2>5. IsFiniteSet(S) /\ Cardinality(S) \in Nat
    BY <2>1, CountsTyped
  <2>6. Cardinality(T) = Cardinality(S) + 1
    BY <2>1, <2>5, FS_AddElement
  <2> DEFINE left == pending \ Given(S)
             r == proc[p].report
  <2>7. pending' \ Given(S)' \subseteq left \cup {r}
    BY <1>1, <2>2
  <2>8. IsFiniteSet(left)
    BY SetsOfReports DEF TypeOK
  <2>9. Cardinality(pending \ Given(T)) = Cardinality(left)
    BY <2>4
  <2> HIDE DEF left, r, T
  <2>10. IsFiniteSet(left \cup {r}) /\ Cardinality(left \cup {r}) <= Cardinality(left) + 1
    <3>1. Cardinality(left) \in Nat
      BY <2>8, FS_CardinalityType
    <3>2. /\ IsFiniteSet(left \cup {r})
          /\ Cardinality(left \cup {r}) = IF r \in left THEN Cardinality(left) ELSE Cardinality(left) + 1
      BY <2>8, FS_AddElement
    <3> QED
      BY <3>1, <3>2
  <2>11. /\ Cardinality(pending' \ Given(S)') <= Cardinality(left \cup {r})
         /\ IsFiniteSet(pending' \ Given(S)')
    BY <2>7, <2>10, FS_Subset
  <2>12. /\ Cardinality(pending' \ Given(S)') \in Nat
         /\ Cardinality(left \cup {r}) \in Nat /\ Cardinality(left) \in Nat
    BY <2>8, <2>10, <2>11, FS_CardinalityType
  <2>13. Cardinality(pending' \ Given(S)') + Cardinality(S)
           <= Cardinality(pending \ Given(T)) + Cardinality(T)
    BY <2>5, <2>6, <2>9, <2>10, <2>11, <2>12
  <2> QED
    BY <2>3, <2>13
<1> QED
  BY <1>4, <1>5 DEF Roomy

\* Every step keeps the bound.
LEMMA StepRoomy == Inductive /\ Inductive' /\ Roomy /\ [Next]_vars => Roomy'
<1> SUFFICES ASSUME Inductive, Inductive', Roomy, [Next]_vars PROVE Roomy'
  OBVIOUS
<1>1. TypeOK /\ TypeOK'
  BY DEF Inductive
<1>2. CASE UNCHANGED vars \/ Elapse
  BY <1>2 DEF vars, Elapse, directory, Roomy, Room, Emptied, Committed, Given
<1>3. ASSUME NEW p \in Procs, Enforce(p) \/ Evict(p) \/ Write(p) \/ CrashInWrite(p)
      PROVE  Roomy'
  BY <1>1, <1>3, EnforceRoomy, EvictRoomy, WriteRoomy
<1>4. ASSUME NEW p \in Procs,
             Report(p) \/ Flush(p) \/ List(p) \/ TakeNext(p) \/ EndFlush(p) \/ Settle(p) \/ Check(p)
             \/ Clear(p) \/ PostAccepted(p) \/ PostFailed(p) \/ PostLimited(p) \/ Crash(p)
      PROVE  Roomy'
  <2>1. pending' \subseteq pending
    BY <1>4 DEF Report, Flush, List, TakeNext, EndFlush, Settle, Unlink, Check, Clear, PostAccepted,
                PostFailed, PostLimited, Crash, directory
  <2>2. proc \in [Procs -> Jobs] /\ proc' \in [Procs -> Jobs]
    BY <1>1 DEF TypeOK, Jobs
  <2>3. proc' = [proc EXCEPT ![p] = proc'[p]]
    <3>1. \A q \in Procs : q # p => proc'[q] = proc[q]
      BY <1>4, <2>2 DEF Report, Flush, List, TakeNext, EndFlush, Settle, Check, Clear, PostAccepted,
                        PostFailed, PostLimited, Crash, Goto, Rest
    <3> QED
      BY <2>2, <3>1
  <2>4. proc'[p].at \notin {"evict", "write"}
    <3>1. CASE Report(p) \/ Flush(p)
      BY <2>2, <3>1 DEF Report, Flush, Job
    <3>2. CASE EndFlush(p) \/ Crash(p)
      BY <2>2, <3>2, RestingTyped DEF EndFlush, Crash, Rest
    <3>3. CASE List(p) \/ Settle(p)
      BY <2>2, <3>3 DEF List, Settle, Jobs
    <3>4. CASE TakeNext(p)
      BY <2>2, <3>4 DEF TakeNext, Jobs
    <3>5. CASE Check(p) \/ Clear(p) \/ PostFailed(p) \/ PostLimited(p)
      <4>1. \E step \in {"post", "clear", "enforce", "list"} : Goto(p, step)
        BY <3>5 DEF Check, Clear, PostFailed, PostLimited, Goto
      <4> QED
        BY <2>2, <4>1 DEF Goto, Jobs
    <3>6. CASE PostAccepted(p)
      BY <2>2, <3>6, RestingTyped DEF PostAccepted, Goto, Rest, Jobs
    <3> QED
      BY <1>4, <3>1, <3>2, <3>3, <3>4, <3>5, <3>6
  <2>5. proc'[p] \in Jobs
    BY <2>2
  <2> QED
    BY <1>1, <2>1, <2>3, <2>4, <2>5, IdleStep
<1> QED
  BY <1>2, <1>3, <1>4 DEF Next, Advance

-----------------------------------------------------------------------------
\* The inductive invariant of the delivery: what each thread has made sure of
\* stays true whatever the others do.
THEOREM Invariance == Spec => []Inductive
<1> QED
  BY InitInductive, StepInductive, PTL DEF Spec

\* The state of the directory, of the window and of every thread is typed.
THEOREM TypeCorrect == Spec => []TypeOK
<1>1. Inductive => TypeOK
  BY DEF Inductive
<1> QED
  BY Invariance, <1>1, PTL

\* The directory, with any number of threads at work on it, is an outbox: a
\* stored report leaves it when the service has it or when it overflows.
THEOREM Implementation == Spec => ImplementsOutbox
<1>1. Init => Outbox!Init
  BY DEF Init, Outbox!Init
<1> QED
  BY Invariance, <1>1, StepRefines, PTL DEF Spec, ImplementsOutbox, Outbox!Spec

\* No report is lost while fewer were stored than the directory holds.
THEOREM Delivery == Spec => []NothingLost
<1>1. Init => NothingLost
  BY DEF Init, NothingLost, Outbox!NothingLost
<1>2. Inductive /\ Inductive' /\ NothingLost /\ [Next]_vars => NothingLost'
  BY StepRefines, StepLosesNothing
<1> QED
  BY Invariance, <1>1, <1>2, PTL DEF Spec

\* However many threads list, evict and write at the same time, and however
\* stale their listings are, the directory never holds more than Cap - 1 files
\* and one for every thread.
THEOREM Bounded == Spec => []QueueBounded
<1>1. Init => Roomy
  <2> SUFFICES ASSUME Init PROVE Roomy
    OBVIOUS
  <2>1. Committed = {} /\ pending = {}
    BY RestingTyped DEF Init, Committed
  <2>2. Cardinality({}) = 0 /\ Cardinality(Procs) \in Nat
    BY FS_EmptySet, FS_CardinalityType
  <2>3. \A S \in SUBSET Committed : Cardinality(S) = 0 /\ Cardinality(pending \ Given(S)) = 0
    <3> SUFFICES ASSUME NEW S \in SUBSET Committed
                 PROVE  S = {} /\ pending \ Given(S) = {}
      BY <2>2
    <3> QED
      BY <2>1
  <2>4. Room
    BY <2>2, <2>3 DEF Room
  <2>5. Emptied
    BY RestingTyped DEF Init, Emptied
  <2> QED
    BY <2>4, <2>5 DEF Roomy
<1>2. Inductive /\ Roomy => QueueBounded
  <2> SUFFICES ASSUME Inductive, Roomy PROVE QueueBounded
    OBVIOUS
  <2>1. Cardinality(pending \ Given({})) + Cardinality({}) <= Cap - 1 + Cardinality(Procs)
    BY DEF Roomy, Room
  <2>2. pending \ Given({}) = pending
    BY DEF Given
  <2>3. Cardinality({}) = 0 /\ Cardinality(pending) \in Nat
    BY FS_EmptySet, SetsOfReports DEF Inductive, TypeOK
  <2>4. Cardinality(pending) <= Cap - 1 + Cardinality(Procs)
    BY <2>1, <2>2, <2>3
  <2> QED
    BY <2>4 DEF QueueBounded
<1> QED
  BY Invariance, <1>1, <1>2, StepRoomy, PTL DEF Spec
=============================================================================
