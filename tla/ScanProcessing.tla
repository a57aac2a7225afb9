--------------------------- MODULE ScanProcessing ---------------------------
(***************************************************************************)
(* A delivery-note scan (rust-api/src/procedures/delivery_notes.rs): a row *)
(* of __delivery_note_scans, one OCR job per document in the job table,    *)
(* the documents in the object store, and the tasks of the API that drive  *)
(* the scan.  startScan spawns one task, and so does every poll of the     *)
(* scan list, scan.status and scan.complete while the scan is unfinished;  *)
(* a lease in the row (15 s while OCR is awaited, 10..15 min while the     *)
(* model is asked) is to keep all but one of them out.                     *)
(*                                                                         *)
(* The lease is "live" or "expired" as in JobQueue.tla.  It expires by     *)
(* itself when no task is at work; that it expires under a task (a stall   *)
(* of 15 s, a model that takes 15 min) is a fault, as are a failing        *)
(* database and a dying API.  The runners are those of JobQueue.tla.       *)
(***************************************************************************)
EXTENDS JobQueue, Sequences, FiniteSets

CONSTANTS
    Docs,       \* the OCR jobs of the scan's documents, in their order
    Tasks,      \* tokio tasks that may run at the same time
    MaxFaults

ASSUME ScanAssumption ==
    /\ Docs \in Seq(Jobs) /\ Len(Docs) > 0
    /\ Jobs = {Docs[i] : i \in 1..Len(Docs)}
    /\ MaxFaults \in Nat

VARIABLES
    scan,       \* the row: state and processor_lease_expires_at
    sources,    \* the jobs whose document is still in the object store
    start,      \* startScan: "enqueuing", "done", or "dead" halfway
    task,       \* [Tasks -> Task]
    faults,
    intruded,   \* history: a task has worked on the scan without its lease
    unmarked    \* history: a task went on to clean up after an unfinished scan

svars == <<jobs, scan, sources, start, task, faults, intruded, unmarked>>

OpenStates == {"queued", "ocr", "matching"}
Scan == [state : OpenStates \cup {"none", "completed", "failed"}, lease : Leases]

\* doc is the document a task waits for, seen the state of its job.
Task == [step : {"idle", "spawned", "waiting", "renewing", "recognized", "analyzing",
                 "analyzed", "failing", "cleaning"},
         doc  : 1..Len(Docs),
         seen : States]

Idle == [step |-> "idle", doc |-> 1, seen |-> "absent"]

\* A task that has claimed the scan and has not yet let go of it.
Working(t) == task[t].step \in {"waiting", "renewing", "recognized", "analyzing", "analyzed",
                                "failing"}

SInit ==
    /\ Init
    /\ scan     = [state |-> "none", lease |-> "none"]
    /\ sources  = Jobs
    /\ start    = "enqueuing"
    /\ task     = [t \in Tasks |-> Idle]
    /\ faults   = 0
    /\ intruded = FALSE
    /\ unmarked = FALSE

Fault == faults < MaxFaults /\ faults' = faults + 1

Goto(t, step) == task' = [task EXCEPT ![t].step = step]

-----------------------------------------------------------------------------
(* startScan and polling                                                   *)

EnqueueDocument(i) ==
    /\ start = "enqueuing"
    /\ \A k \in 1..(i - 1) : jobs[Docs[k]].state # "absent"
    /\ Enqueue(Docs[i])
    /\ UNCHANGED <<scan, sources, start, task, faults, intruded, unmarked>>

InsertScan(t) ==
    /\ start = "enqueuing"
    /\ \A j \in Jobs : jobs[j].state # "absent"
    /\ task[t].step = "idle"
    /\ scan'  = [scan EXCEPT !.state = "queued"]
    /\ start' = "done"
    /\ Goto(t, "spawned")
    /\ UNCHANGED <<jobs, sources, faults, intruded, unmarked>>

\* The API dies, or the database fails, between two inserts: no row refers to the jobs.
StartDies ==
    /\ start = "enqueuing"
    /\ Fault
    /\ start' = "dead"
    /\ UNCHANGED <<jobs, scan, sources, task, intruded, unmarked>>

Poll(t) ==
    /\ scan.state \in OpenStates
    /\ task[t].step = "idle"
    /\ Goto(t, "spawned")
    /\ UNCHANGED <<jobs, scan, sources, start, faults, intruded, unmarked>>

-----------------------------------------------------------------------------
(* process_scan                                                            *)

\* Mutant: the lease is not looked at.
ClaimAnyway(t) ==
    /\ task[t].step = "spawned"
    /\ IF scan.state \in OpenStates
       THEN scan' = [scan EXCEPT !.lease = "live"] /\ Goto(t, "waiting")
       ELSE UNCHANGED scan /\ task' = [task EXCEPT ![t] = Idle]
    /\ UNCHANGED <<jobs, sources, start, faults, intruded, unmarked>>

\* Mutant: the state is not looked at.
ClaimFinishedToo(t) ==
    /\ task[t].step = "spawned"
    /\ IF scan.lease # "live"
       THEN scan' = [scan EXCEPT !.lease = "live"] /\ Goto(t, "waiting")
       ELSE UNCHANGED scan /\ task' = [task EXCEPT ![t] = Idle]
    /\ UNCHANGED <<jobs, sources, start, faults, intruded, unmarked>>

\* Mutant: a lease that has run out is never taken over.
ClaimUnleased(t) ==
    /\ task[t].step = "spawned"
    /\ IF scan.state \in OpenStates /\ scan.lease = "none"
       THEN scan' = [scan EXCEPT !.lease = "live"] /\ Goto(t, "waiting")
       ELSE UNCHANGED scan /\ task' = [task EXCEPT ![t] = Idle]
    /\ UNCHANGED <<jobs, sources, start, faults, intruded, unmarked>>

Claim(t) ==
    /\ task[t].step = "spawned"
    /\ IF scan.state \in OpenStates /\ scan.lease # "live"
       THEN scan' = [scan EXCEPT !.lease = "live"] /\ Goto(t, "waiting")
       ELSE UNCHANGED scan /\ task' = [task EXCEPT ![t] = Idle]
    /\ UNCHANGED <<jobs, sources, start, faults, intruded, unmarked>>

\* Mutant: the last document is not recognised as the last.
ReadPastTheEnd(t) ==
    /\ task[t].step = "waiting"
    /\ LET i     == task[t].doc
           state == jobs[Docs[i]].state
       IN  CASE state \in {"pending", "processing"} ->
                   task' = [task EXCEPT ![t].step = "renewing", ![t].seen = state]
             [] state \in {"succeeded", "failed"} ->
                   IF i <= Len(Docs) THEN task' = [task EXCEPT ![t].doc = i + 1]
                                     ELSE Goto(t, "recognized")
             [] OTHER -> Goto(t, "failing")
    /\ UNCHANGED <<jobs, scan, sources, start, faults, intruded, unmarked>>

\* wait_for_scan_ocr reads the job and acts on what it read.  A job that is gone fails
\* the scan.
ReadJob(t) ==
    /\ task[t].step = "waiting"
    /\ LET i     == task[t].doc
           state == jobs[Docs[i]].state
       IN  CASE state \in {"pending", "processing"} ->
                   task' = [task EXCEPT ![t].step = "renewing", ![t].seen = state]
             [] state \in {"succeeded", "failed"} ->
                   IF i < Len(Docs) THEN task' = [task EXCEPT ![t].doc = i + 1]
                                    ELSE Goto(t, "recognized")
             [] OTHER -> Goto(t, "failing")
    /\ UNCHANGED <<jobs, scan, sources, start, faults, intruded, unmarked>>

\* Neither the scan's state nor the lease is part of the guard.
RenewWhileWaiting(t) ==
    /\ task[t].step = "renewing"
    /\ scan' = [state |-> IF task[t].seen = "processing" THEN "ocr" ELSE "queued",
                lease |-> "live"]
    /\ task' = [task EXCEPT ![t].step = "waiting", ![t].seen = "absent"]
    /\ UNCHANGED <<jobs, sources, start, faults, intruded, unmarked>>

StartMatching(t) ==
    /\ task[t].step = "recognized"
    /\ scan' = [state |-> "matching", lease |-> "live"]
    /\ Goto(t, "analyzing")
    /\ UNCHANGED <<jobs, sources, start, faults, intruded, unmarked>>

\* analyze_stored_scan renews the lease before every section, if the scan is still
\* being matched.
RenewWhileMatching(t) ==
    /\ task[t].step = "analyzing"
    /\ scan.state = "matching"
    /\ scan' = [scan EXCEPT !.lease = "live"]
    /\ UNCHANGED <<jobs, sources, start, task, faults, intruded, unmarked>>

\* Mutant: the originals are deleted as soon as they were read.
AnalyzeAndDelete(t) ==
    /\ task[t].step = "analyzing"
    /\ \/ sources = Jobs /\ Goto(t, "analyzed") /\ sources' = {}
       \/ Goto(t, "failing") /\ UNCHANGED sources
    /\ UNCHANGED <<jobs, scan, start, faults, intruded, unmarked>>

\* It fails when an original cannot be downloaded or the model does not answer well.
Analyze(t) ==
    /\ task[t].step = "analyzing"
    /\ \/ sources = Jobs /\ Goto(t, "analyzed")
       \/ Goto(t, "failing")
    /\ UNCHANGED <<jobs, scan, sources, start, faults, intruded, unmarked>>

SaveResult(t) ==
    /\ task[t].step = "analyzed"
    /\ scan' = [state |-> "completed", lease |-> "none"]
    /\ Goto(t, "cleaning")
    /\ UNCHANGED <<jobs, sources, start, faults, intruded, unmarked>>

MarkScanFailed(t) ==
    /\ task[t].step = "failing"
    /\ scan' = IF scan.state = "completed" THEN scan
                                           ELSE [state |-> "failed", lease |-> "none"]
    /\ Goto(t, "cleaning")
    /\ UNCHANGED <<jobs, sources, start, faults, intruded, unmarked>>

\* The UPDATE of mark_scan_failed fails: its error is ignored, and the clean-up follows
\* although the scan is still open.
MarkLost(t) ==
    /\ task[t].step = "failing"
    /\ Fault
    /\ Goto(t, "cleaning")
    /\ unmarked' = (unmarked \/ scan.state \in OpenStates)
    /\ UNCHANGED <<jobs, scan, sources, start, intruded>>

\* Mutant: only the job that the column job_id names is deleted.
CleanUpFirst(t) ==
    /\ task[t].step = "cleaning"
    /\ jobs' = [jobs EXCEPT ![Docs[1]] = IF @.state \in {"succeeded", "failed"}
                                         THEN [Unborn EXCEPT !.state = "deleted"] ELSE @]
    /\ sources' = {}
    /\ task' = [task EXCEPT ![t] = Idle]
    /\ UNCHANGED <<scan, start, faults, intruded, unmarked>>

\* delete_finished, for some of the jobs.
DeleteAmong(some) ==
    jobs' = [j \in Jobs |-> IF j \in some /\ jobs[j].state \in {"succeeded", "failed"}
                            THEN [Unborn EXCEPT !.state = "deleted"]
                            ELSE jobs[j]]

\* The end of process_scan and cleanup_scan_files: finished jobs are deleted, the
\* documents whatever became of their jobs.
CleanUp(t) ==
    /\ task[t].step = "cleaning"
    /\ DeleteAmong(Jobs)
    /\ sources' = {}
    /\ task' = [task EXCEPT ![t] = Idle]
    /\ UNCHANGED <<scan, start, faults, intruded, unmarked>>

TaskStep(t) ==
    \/ Claim(t) \/ ReadJob(t) \/ RenewWhileWaiting(t)
    \/ StartMatching(t) \/ Analyze(t) \/ SaveResult(t)
    \/ MarkScanFailed(t) \/ CleanUp(t)

\* The database fails under a query, or a runner has sent an OCR result that is not
\* valid: the task goes on to mark the scan as failed, also when it was the claim that
\* failed.
TaskFails(t) ==
    /\ Working(t) \/ task[t].step = "spawned"
    /\ task[t].step # "failing"
    /\ Fault
    /\ Goto(t, "failing")
    /\ intruded' = (intruded \/ task[t].step = "spawned")
    /\ UNCHANGED <<jobs, scan, sources, start, unmarked>>

\* Queries and deletions of the clean-up fail, or the API dies during it: every error is
\* ignored, and some jobs and documents are left over.
CleanUpPartly(t) ==
    /\ task[t].step = "cleaning"
    /\ Fault
    /\ \E some \in SUBSET Jobs : DeleteAmong(some)
    /\ sources' \in SUBSET sources
    /\ task' = [task EXCEPT ![t] = Idle]
    /\ UNCHANGED <<scan, start, intruded, unmarked>>

\* The API dies, and the task with it.
TaskDies(t) ==
    /\ task[t].step # "idle"
    /\ Fault
    /\ task' = [task EXCEPT ![t] = Idle]
    /\ UNCHANGED <<jobs, scan, sources, start, intruded, unmarked>>

ScanLeaseExpires ==
    /\ scan.lease = "live"
    /\ scan' = [scan EXCEPT !.lease = "expired"]
    /\ \/ (\A t \in Tasks : ~Working(t)) /\ UNCHANGED <<faults, intruded>>
       \/ (\E t \in Tasks : Working(t)) /\ Fault /\ intruded' = TRUE
    /\ UNCHANGED <<jobs, sources, start, task, unmarked>>

-----------------------------------------------------------------------------
(* The runners                                                             *)

TakeJob(j) ==
    /\ \E r \in Runners : Acquire(j, r)
    /\ UNCHANGED <<scan, sources, start, task, faults, intruded, unmarked>>

Recognize(j) ==
    /\ \E r \in Runners :
          \/ j \in sources /\ Complete(j, r)
          \/ Fail(j, r, "reported", FALSE)
    /\ UNCHANGED <<scan, sources, start, task, faults, intruded, unmarked>>

LoseRunner(r) ==
    /\ Fault
    /\ \E j \in Jobs : HeldBy(j, r)
    /\ ReleaseRunnerJobs(r)
    /\ UNCHANGED <<scan, sources, start, task, intruded, unmarked>>

LoseLease(j) ==
    /\ Fault
    /\ LeaseExpires(j)
    /\ UNCHANGED <<scan, sources, start, task, intruded, unmarked>>

SNext ==
    \/ \E i \in 1..Len(Docs) : EnqueueDocument(i)
    \/ StartDies
    \/ \E t \in Tasks :
          \/ InsertScan(t) \/ Poll(t)
          \/ TaskStep(t) \/ RenewWhileMatching(t)
          \/ TaskFails(t) \/ MarkLost(t) \/ CleanUpPartly(t) \/ TaskDies(t)
    \/ ScanLeaseExpires
    \/ \E j \in Jobs : TakeJob(j) \/ Recognize(j) \/ LoseLease(j)
    \/ \E r \in Runners : LoseRunner(r)

\* Fairness: the client's list of scans polls every 2 s while a scan is unfinished, the
\* API runs its tasks and startScan, runners take jobs and report on them (their calls
\* time out), and an abandoned lease runs out.
SFairness ==
    /\ \A t \in Tasks : WF_svars(TaskStep(t))
    /\ WF_svars(\E t \in Tasks : Poll(t))
    /\ \A j \in Jobs : WF_svars(TakeJob(j)) /\ WF_svars(Recognize(j))
    /\ WF_svars(ScanLeaseExpires /\ UNCHANGED faults)

ScanSpec     == SInit /\ [][SNext]_svars
FairScanSpec == ScanSpec /\ SFairness

-----------------------------------------------------------------------------
(* Properties                                                              *)

ScanTypeOK ==
    /\ TypeOK
    /\ scan \in Scan
    /\ sources \subseteq Jobs
    /\ start \in {"enqueuing", "done", "dead"}
    /\ task \in [Tasks -> Task]
    /\ faults \in 0..MaxFaults
    /\ intruded \in BOOLEAN
    /\ unmarked \in BOOLEAN

\* However many polls spawn tasks, one of them works on the scan, unless a lease has
\* run out under a task.
OneTaskWorks == intruded \/ Cardinality({t \in Tasks : Working(t)}) <= 1

\* What the user is told stays true: a scan reported as completed or failed is not
\* reopened -- unless a task works on it without the lease, or fails before claiming it.
FinishedScansStay ==
    [][scan.state \in {"completed", "failed"} => intruded \/ scan'.state = scan.state]_svars

\* No document is pulled away from under a task that may still need it: the documents
\* of an open scan are all there, whatever fails, unless the failure could not be written
\* to the scan (its error is ignored and the clean-up runs all the same) or a task has
\* worked without the lease.
DocumentsOutliveTheScan ==
    intruded \/ unmarked \/ sources = Jobs \/ scan.state \in {"completed", "failed"}

\* When nothing has gone wrong, a scan leaves no row in the job table behind.
JobsAreCollected ==
    faults = 0 /\ scan.state \in {"completed", "failed"} /\ (\A t \in Tasks : task[t] = Idle)
        => \A j \in Jobs : jobs[j].state = "deleted"

\* A scan that was stored ends, although tasks die, leases lapse and runners disappear.
EveryScanEnds == scan.state = "queued" ~> scan.state \in {"completed", "failed"}
=============================================================================
