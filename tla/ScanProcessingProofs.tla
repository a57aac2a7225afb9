------------------------ MODULE ScanProcessingProofs ------------------------
(***************************************************************************)
(* Proofs about delivery-note scans, for any number of documents, tasks,   *)
(* runners and faults: the safety properties of ScanProcessing.tla.        *)
(*                                                                         *)
(* The inductive invariant says what the lease keeps apart (LeaseExcludes) *)
(* and, for histories without a fault, how far the scan's jobs have come   *)
(* at each step of a task (JobsKeepUp).                                    *)
(***************************************************************************)
EXTENDS ScanProcessing, JobQueueProofs, FiniteSetTheorems

Over == scan.state \in {"completed", "failed"}

Ended(j) == jobs[j].state \in {"succeeded", "failed"}

\* A task that has claimed the scan and is not through with it.
Busy(t) == Working(t) \/ task[t].step = "cleaning"

\* Tasks come after the row, and every task begins with the first document.
RowFirst ==
    /\ start # "done" => scan.state = "none" /\ \A t \in Tasks : task[t].step = "idle"
    /\ \A t \in Tasks : task[t].step \in {"idle", "spawned"} => task[t].doc = 1

\* What the lease is for: one task is at it, with a live lease on an unfinished scan,
\* and it cleans up alone unless its failure was not written down.
LeaseExcludes ==
    ~intruded =>
        /\ \A t, u \in Tasks : Working(t) /\ Working(u) => t = u
        /\ \A t \in Tasks : Working(t) => scan.lease = "live" /\ scan.state \in OpenStates
        /\ ~unmarked => /\ \A t, u \in Tasks : Busy(t) /\ Busy(u) => t = u
                        /\ \A t \in Tasks : task[t].step = "cleaning" => Over

\* What a task knows of the jobs, as long as nothing has gone wrong.
JobsKeepUp ==
    faults = 0 =>
        /\ ~intruded /\ ~unmarked
        /\ start = "done" => \A j \in Jobs : jobs[j].state # "absent"
        /\ ~Over => \A j \in Jobs : jobs[j].state # "deleted"
        /\ \A t \in Tasks : task[t].step \in {"waiting", "renewing"} =>
              \A k \in 1..(task[t].doc - 1) : Ended(Docs[k])
        /\ \A t \in Tasks : Busy(t) /\ task[t].step \notin {"waiting", "renewing"} =>
              \A j \in Jobs : Ended(j)
        /\ Over /\ (\A t \in Tasks : task[t].step # "cleaning") =>
              \A j \in Jobs : jobs[j].state = "deleted"

SInv ==
    /\ IInv /\ ScanTypeOK
    /\ RowFirst /\ LeaseExcludes /\ DocumentsOutliveTheScan /\ JobsKeepUp

-----------------------------------------------------------------------------
(* Tasks and jobs                                                          *)

\* A step that goes elsewhere changes one task, and of that task the step only.
LEMMA GotoType ==
  ASSUME task \in [Tasks -> Task], NEW t \in Tasks, NEW step, Goto(t, step),
         step \in {"spawned", "waiting", "recognized", "analyzing", "analyzed", "failing",
                   "cleaning"}
  PROVE  /\ task' \in [Tasks -> Task]
         /\ task'[t].step = step /\ task'[t].doc = task[t].doc
         /\ \A u \in Tasks : u # t => task'[u] = task[u]
<1>1. task[t] \in Task
  OBVIOUS
<1>2. [task[t] EXCEPT !.step = step] \in Task
  BY <1>1 DEF Task
<1>3. task' = [task EXCEPT ![t] = [task[t] EXCEPT !.step = step]]
  BY DEF Goto
<1>4. /\ [task[t] EXCEPT !.step = step].step = step
      /\ [task[t] EXCEPT !.step = step].doc = task[t].doc
  BY <1>1 DEF Task
<1> QED
  BY <1>2, <1>3, <1>4

\* The same for a step that replaces the whole record of the task.
LEMMA ReplaceType ==
  ASSUME task \in [Tasks -> Task], NEW t \in Tasks, NEW new \in Task,
         task' = [task EXCEPT ![t] = new]
  PROVE  /\ task' \in [Tasks -> Task] /\ task'[t] = new
         /\ \A u \in Tasks : u # t => task'[u] = task[u]
  OBVIOUS

\* A scan has a first document, and the record of an idle task is a task's.
LEMMA IdleType == Idle \in Task /\ Len(Docs) \in Nat /\ Len(Docs) > 0
  BY ScanAssumption DEF Idle, Task, States

\* What the operations of a runner and of startScan do to the jobs: what has a result
\* keeps it, and nothing is deleted.
JobsGrow ==
    \A j \in Jobs :
        /\ jobs[j].state # "absent" => jobs'[j].state # "absent"
        /\ Ended(j) => jobs'[j].state = jobs[j].state
        /\ jobs'[j].state = "deleted" => jobs[j].state = "deleted"
        /\ jobs[j].state = "deleted" => jobs'[j].state = "deleted"

JobsMove ==
    /\ UNCHANGED <<scan, sources, start, task, intruded, unmarked>>
    /\ faults' \in 0..MaxFaults /\ faults' >= faults
    /\ JobsGrow

\* Any operation of the job table but a deletion lets the jobs grow only.
LEMMA GrowingSteps ==
  ASSUME IInv, NEW j \in Jobs, NEW r \in Runners,
         \/ Enqueue(j) \/ Acquire(j, r) \/ Complete(j, r) \/ Fail(j, r, "reported", FALSE)
         \/ ReleaseRunnerJobs(r) \/ LeaseExpires(j)
  PROVE  QueueStep /\ JobsGrow
<1>1. jobs \in [Jobs -> Row]
  BY DEF IInv, QueueInv, TypeOK
<1>2. \A k \in Jobs : jobs[k] \in Row /\ Unowned(jobs[k]).state = jobs[k].state
  BY <1>1, UnownedType
<1>3. QueueStep
  BY DEF QueueStep
<1> SUFFICES JobsGrow
  BY <1>3
<1>one. ASSUME NEW row, jobs' = [jobs EXCEPT ![j] = row],
               row.state \notin {"absent", "deleted"}, ~Ended(j),
               jobs[j].state # "deleted"
        PROVE  JobsGrow
  BY <1>one, <1>1 DEF JobsGrow, Ended
<1>4. CASE Enqueue(j)
  BY <1>4, <1>one DEF Enqueue, Unborn, Ended
<1>5. CASE Acquire(j, r)
  <2>1. [jobs[j] EXCEPT !.state = "processing", !.attempts = CountAttempt(j),
                        !.runner = r, !.lease = "live"].state = "processing"
    BY <1>2 DEF Row
  <2> QED
    BY <1>5, <1>one, <2>1 DEF Acquire, Open, Ended
<1>6. CASE Complete(j, r)
  <2>1. Unowned(jobs[j]) \in Row
    BY <1>2, UnownedType
  <2>2. [Unowned(jobs[j]) EXCEPT !.state = "succeeded"].state = "succeeded"
    BY ONLY <2>1 DEF Row
  <2> QED
    BY <1>6, <1>one, <2>2 DEF Complete, HeldBy, Ended
<1>7. CASE Fail(j, r, "reported", FALSE)
  <2> DEFINE state == IF jobs[j].attempts < MaxAttempts[j] THEN "pending" ELSE "failed"
             due   == jobs[j].attempts < MaxAttempts[j] => FALSE
             row   == [Unowned(jobs[j]) EXCEPT !.state = state, !.due = due,
                                               !.error = "reported"]
  <2>1. Unowned(jobs[j]) \in Row
    BY <1>2, UnownedType
  <2>2. jobs' = [jobs EXCEPT ![j] = row] /\ jobs[j].state = "processing"
    BY <1>7 DEF Fail, HeldBy
  <2>3. state \notin {"absent", "deleted"}
    OBVIOUS
  <2> HIDE DEF state, due
  <2>4. row.state = state
    BY ONLY <2>1 DEF Row
  <2> HIDE DEF row
  <2> QED
    BY <2>2, <2>3, <2>4, <1>one DEF Ended
<1>8. CASE ReleaseRunnerJobs(r)
  <2>1. \A k \in Jobs : [Unowned(jobs[k]) EXCEPT !.state = "pending", !.due = TRUE].state
                           = "pending"
    <3>1. \A k \in Jobs : Unowned(jobs[k]) \in Row
      BY <1>2, UnownedType
    <3> QED
      BY <3>1 DEF Row
  <2> HIDE DEF Unowned
  <2> QED
    BY <1>8, <2>1 DEF ReleaseRunnerJobs, JobsGrow, Ended
<1>9. CASE LeaseExpires(j)
  BY <1>9, <1>1 DEF LeaseExpires, JobsGrow, Ended, Row
<1> QED
  BY <1>4, <1>5, <1>6, <1>7, <1>8, <1>9
-----------------------------------------------------------------------------
(* What a step does to the job table                                       *)

\* The end of a task, complete or not.
Cleans(t) == CleanUp(t) \/ CleanUpPartly(t)

\* It deletes jobs that have a result, all of them if nothing fails, and no other.
LEMMA CleanUpJobs ==
  ASSUME IInv, NEW some \in SUBSET Jobs, DeleteAmong(some)
  PROVE  /\ IInv'
         /\ \A j \in some : Ended(j) => jobs'[j].state = "deleted"
<1> DEFINE gone == [Unborn EXCEPT !.state = "deleted"]
<1>1. jobs \in [Jobs -> Row] /\ \A j \in Jobs : RowInv(jobs[j], j)
  BY IInvByRows
<1>2. gone.state = "deleted" /\ \A j \in Jobs : RowInv(gone, j)
  BY UnbornType DEF RowInv, Unborn, Row, States
<1>3. jobs' = [j \in Jobs |-> IF j \in some /\ Ended(j) THEN gone ELSE jobs[j]]
  BY DEF DeleteAmong, Ended
<1> HIDE DEF gone
<1>4. jobs' \in [Jobs -> Row] /\ \A j \in Jobs : RowInv(jobs'[j], j)
  BY <1>1, <1>2, <1>3 DEF RowInv
<1>5. IInv'
  BY <1>4 DEF IInv, QueueInv, TypeOK, OwnershipIsConsistent, FailedJobsAreExhausted,
              UnbornRowsAreFresh, RowInv
<1> QED
  BY <1>2, <1>3, <1>5

TaskMoves(t) ==
    \/ InsertScan(t) \/ Poll(t) \/ RenewWhileMatching(t) \/ TaskFails(t) \/ TaskDies(t)
    \/ Claim(t) \/ ReadJob(t) \/ RenewWhileWaiting(t) \/ StartMatching(t) \/ Analyze(t)
    \/ SaveResult(t) \/ MarkScanFailed(t) \/ MarkLost(t)

\* A step is one of the job table, one of startScan, one of a task, the end of a task,
\* or the lapse of the scan's lease; and each keeps the invariant of the job table.
LEMMA Steps ==
  ASSUME SInv, [SNext]_svars
  PROVE  /\ IInv'
         /\ \/ JobsMove
            \/ StartDies /\ UNCHANGED jobs
            \/ ScanLeaseExpires /\ UNCHANGED jobs
            \/ \E t \in Tasks : TaskMoves(t) /\ UNCHANGED jobs
            \/ \E t \in Tasks : Cleans(t)
<1>1. IInv /\ faults \in 0..MaxFaults /\ MaxFaults \in Nat
  BY ScanAssumption DEF SInv, ScanTypeOK
<1>2. /\ JobsGrow /\ QueueStep /\ UNCHANGED <<scan, sources, start, task, faults, intruded, unmarked>>
         => IInv' /\ JobsMove
      /\ JobsGrow /\ QueueStep /\ Fault /\ UNCHANGED <<scan, sources, start, task, intruded, unmarked>>
         => IInv' /\ JobsMove
  BY <1>1, NextIInv DEF JobsMove, Fault
<1>3. UNCHANGED jobs => IInv'
  BY <1>1, NextIInv
<1>4. CASE UNCHANGED svars
  <2>1. JobsGrow
    BY <1>4 DEF JobsGrow, svars
  <2> QED
    BY <1>1, <1>3, <1>4, <2>1 DEF svars, JobsMove
<1>5. ASSUME NEW i \in 1..Len(Docs), EnqueueDocument(i) PROVE IInv' /\ JobsMove
  <2>1. Docs[i] \in Jobs /\ Enqueue(Docs[i])
    BY <1>5, ScanAssumption DEF EnqueueDocument
  <2>2. QueueStep
    BY <2>1 DEF QueueStep
  <2>3. JobsGrow
    BY <1>1, <2>1 DEF IInv, QueueInv, TypeOK, JobsGrow, Enqueue, Unborn, Ended
  <2> QED
    BY <1>2, <1>5, <2>2, <2>3 DEF EnqueueDocument
<1>6. ASSUME NEW j \in Jobs, TakeJob(j) PROVE IInv' /\ JobsMove
  BY <1>1, <1>2, <1>6, GrowingSteps DEF TakeJob
<1>7. ASSUME NEW j \in Jobs, Recognize(j) PROVE IInv' /\ JobsMove
  BY <1>1, <1>2, <1>7, GrowingSteps DEF Recognize
<1>8. ASSUME NEW j \in Jobs, LoseLease(j) PROVE IInv' /\ JobsMove
  <2>1. QueueStep
    BY <1>8 DEF LoseLease, QueueStep
  <2>2. JobsGrow
    BY <1>1, <1>8 DEF LoseLease, LeaseExpires, JobsGrow, Ended, IInv, QueueInv, TypeOK, Row
  <2> QED
    BY <1>2, <1>8, <2>1, <2>2 DEF LoseLease
<1>9. ASSUME NEW r \in Runners, LoseRunner(r) PROVE IInv' /\ JobsMove
  BY <1>1, <1>2, <1>9, GrowingSteps DEF LoseRunner
<1>10. ASSUME NEW t \in Tasks,
              InsertScan(t) \/ Poll(t) \/ TaskStep(t) \/ RenewWhileMatching(t)
                 \/ TaskFails(t) \/ MarkLost(t) \/ CleanUpPartly(t) \/ TaskDies(t)
       PROVE  IInv' /\ ((TaskMoves(t) /\ UNCHANGED jobs) \/ Cleans(t))
  <2>1. CASE Cleans(t)
    <3>1. PICK some \in SUBSET Jobs : DeleteAmong(some)
      BY <2>1 DEF Cleans, CleanUp, CleanUpPartly
    <3> QED
      BY <1>1, <2>1, <3>1, CleanUpJobs
  <2>2. CASE ~Cleans(t)
    <3>1. TaskMoves(t)
      BY <1>10, <2>2 DEF TaskMoves, TaskStep, Cleans
    <3>2. UNCHANGED jobs
      BY <3>1 DEF TaskMoves, InsertScan, Poll, RenewWhileMatching, TaskFails, TaskDies, Claim,
                  ReadJob, RenewWhileWaiting, StartMatching, Analyze, SaveResult,
                  MarkScanFailed, MarkLost
    <3> QED
      BY <1>3, <3>1, <3>2
  <2> QED
    BY <2>1, <2>2
<1>11. StartDies \/ ScanLeaseExpires => UNCHANGED jobs
  BY DEF StartDies, ScanLeaseExpires
<1>12. CASE SNext
  BY <1>3, <1>5, <1>6, <1>7, <1>8, <1>9, <1>10, <1>11, <1>12 DEF SNext
<1> QED
  BY <1>4, <1>12
-----------------------------------------------------------------------------
(* What a task's step does to the task                                     *)

Changes(t, step, doc) ==
    /\ task' \in [Tasks -> Task]
    /\ task'[t].step = step /\ task'[t].doc = doc
    /\ \A u \in Tasks : u # t => task'[u] = task[u]

GoesTo(t, step) == Changes(t, step, task[t].doc)
Drops(t)        == Changes(t, "idle", 1)

\* A task reads a job: it waits, reads on, is through, or finds the job gone.
Reads(t) ==
    LET i == task[t].doc
    IN  /\ task[t].step = "waiting"
        /\ \/ GoesTo(t, "renewing")
           \/ Ended(Docs[i]) /\ i < Len(Docs) /\ Changes(t, "waiting", i + 1)
           \/ Ended(Docs[i]) /\ i = Len(Docs) /\ GoesTo(t, "recognized")
           \/ jobs[Docs[i]].state \in {"absent", "deleted"} /\ GoesTo(t, "failing")

\* Every step of a task leaves the others alone and leads where it should.
LEMMA TaskEffects ==
  ASSUME SInv, NEW t \in Tasks
  PROVE  /\ InsertScan(t) \/ Poll(t) => GoesTo(t, "spawned")
         /\ Claim(t) => \/ scan.state \in OpenStates /\ scan.lease # "live"
                              /\ GoesTo(t, "waiting")
                        \/ scan' = scan /\ Drops(t)
         /\ ReadJob(t) => Reads(t)
         /\ RenewWhileWaiting(t) => GoesTo(t, "waiting")
         /\ StartMatching(t) => GoesTo(t, "analyzing")
         /\ RenewWhileMatching(t) => GoesTo(t, "analyzing")
         /\ Analyze(t) => GoesTo(t, "analyzed") \/ GoesTo(t, "failing")
         /\ SaveResult(t) \/ MarkScanFailed(t) \/ MarkLost(t) => GoesTo(t, "cleaning")
         /\ TaskFails(t) => GoesTo(t, "failing")
         /\ Cleans(t) \/ TaskDies(t) => Drops(t)
<1>1. task \in [Tasks -> Task] /\ task[t] \in Task /\ task[t].doc \in 1..Len(Docs)
      /\ Len(Docs) \in Nat
  BY IdleType DEF SInv, ScanTypeOK, Task
<1>2. Idle \in Task /\ Idle.step = "idle" /\ Idle.doc = 1
  BY IdleType DEF Idle
<1>3. ASSUME NEW s \in {"spawned", "waiting", "recognized", "analyzing", "analyzed", "failing",
                        "cleaning"},
             Goto(t, s)
      PROVE  GoesTo(t, s)
  BY <1>1, <1>3, GotoType DEF GoesTo, Changes
<1>4. ASSUME task' = [task EXCEPT ![t] = Idle] PROVE Drops(t)
  BY <1>1, <1>2, <1>4, ReplaceType DEF Drops, Changes
<1>5. ReadJob(t) => Reads(t)
  <2> DEFINE i == task[t].doc
             seen == jobs[Docs[i]].state
  <2>1. SUFFICES ASSUME ReadJob(t) PROVE Reads(t)
    OBVIOUS
  <2>2. i \in 1..Len(Docs) /\ Docs[i] \in Jobs /\ seen \in States
    BY <1>1, ScanAssumption DEF SInv, ScanTypeOK, TypeOK, Row
  <2>3. CASE seen \in {"pending", "processing"}
    <3> DEFINE new == [task[t] EXCEPT !.step = "renewing", !.seen = seen]
    <3>1. task' = [task EXCEPT ![t] = new]
      BY <2>1, <2>3 DEF ReadJob
    <3>2. new \in Task /\ new.step = "renewing" /\ new.doc = i
      BY <1>1, <2>2 DEF Task
    <3> HIDE DEF new
    <3>3. Changes(t, "renewing", i)
      BY <1>1, <3>1, <3>2, ReplaceType DEF Changes
    <3> QED
      BY <2>1, <3>3 DEF ReadJob, Reads, GoesTo
  <2>4. CASE seen \in {"succeeded", "failed"} /\ i < Len(Docs)
    <3> DEFINE new == [task[t] EXCEPT !.doc = i + 1]
    <3>1. task' = [task EXCEPT ![t] = new]
      BY <2>1, <2>4 DEF ReadJob
    <3>2. new \in Task /\ new.step = task[t].step /\ new.doc = i + 1
      BY <1>1, <2>2, <2>4 DEF Task
    <3> HIDE DEF new
    <3>3. Changes(t, "waiting", i + 1)
      BY <1>1, <2>1, <3>1, <3>2, ReplaceType DEF Changes, ReadJob
    <3> QED
      BY <2>1, <2>4, <3>3 DEF ReadJob, Reads, Ended
  <2>5. CASE seen \in {"succeeded", "failed"} /\ ~(i < Len(Docs))
    <3>1. Goto(t, "recognized")
      BY <2>1, <2>5 DEF ReadJob
    <3> QED
      BY <1>1, <1>3, <2>1, <2>2, <2>5, <3>1 DEF ReadJob, Reads, Ended
  <2>6. CASE seen \in {"absent", "deleted"}
    <3>1. Goto(t, "failing")
      BY <2>1, <2>6 DEF ReadJob
    <3> QED
      BY <1>3, <2>1, <2>6, <3>1 DEF ReadJob, Reads
  <2> QED
    BY <2>2, <2>3, <2>4, <2>5, <2>6 DEF States
<1>6. RenewWhileWaiting(t) => GoesTo(t, "waiting")
  <2> DEFINE new == [task[t] EXCEPT !.step = "waiting", !.seen = "absent"]
  <2>1. SUFFICES ASSUME RenewWhileWaiting(t) PROVE GoesTo(t, "waiting")
    OBVIOUS
  <2>2. task' = [task EXCEPT ![t] = new]
    BY <2>1 DEF RenewWhileWaiting
  <2>3. new \in Task /\ new.step = "waiting" /\ new.doc = task[t].doc
    BY <1>1 DEF Task, States
  <2> HIDE DEF new
  <2> QED
    BY <1>1, <2>2, <2>3, ReplaceType DEF GoesTo, Changes
<1>7. InsertScan(t) \/ Poll(t) => GoesTo(t, "spawned")
  BY <1>3 DEF InsertScan, Poll
<1>8. Claim(t) => \/ scan.state \in OpenStates /\ scan.lease # "live" /\ GoesTo(t, "waiting")
                  \/ scan' = scan /\ Drops(t)
  BY <1>3, <1>4 DEF Claim
<1>9. StartMatching(t) => GoesTo(t, "analyzing")
  BY <1>3 DEF StartMatching
<1>10. RenewWhileMatching(t) => GoesTo(t, "analyzing")
  BY <1>1 DEF RenewWhileMatching, GoesTo, Changes
<1>11. Analyze(t) => GoesTo(t, "analyzed") \/ GoesTo(t, "failing")
  BY <1>3 DEF Analyze
<1>12. SaveResult(t) \/ MarkScanFailed(t) \/ MarkLost(t) => GoesTo(t, "cleaning")
  BY <1>3 DEF SaveResult, MarkScanFailed, MarkLost
<1>13. TaskFails(t) => GoesTo(t, "failing")
  BY <1>3 DEF TaskFails
<1>14. Cleans(t) \/ TaskDies(t) => Drops(t)
  BY <1>4 DEF Cleans, CleanUp, CleanUpPartly, TaskDies
<1> QED
  BY <1>5, <1>6, <1>7, <1>8, <1>9, <1>10, <1>11, <1>12, <1>13, <1>14

-----------------------------------------------------------------------------
(* The invariant                                                           *)

LEMMA InitSInv == SInit => SInv
<1> SUFFICES ASSUME SInit PROVE SInv
  OBVIOUS
<1>1. IInv /\ TypeOK
  BY InitIInv DEF SInit, IInv, QueueInv
<1>2. task = [t \in Tasks |-> Idle] /\ \A t \in Tasks : task[t] = Idle
  BY DEF SInit
<1>3. ScanTypeOK
  <2>1. task \in [Tasks -> Task]
    BY <1>2, IdleType
  <2>2. scan \in Scan
    BY DEF SInit, Scan, Leases
  <2>3. faults \in 0..MaxFaults
    BY ScanAssumption DEF SInit
  <2> QED
    BY <1>1, <2>1, <2>2, <2>3 DEF SInit, ScanTypeOK
<1>4. \A t \in Tasks : task[t].step = "idle" /\ task[t].doc = 1
  BY <1>2 DEF Idle
<1>5. RowFirst /\ LeaseExcludes /\ DocumentsOutliveTheScan
  BY <1>4 DEF SInit, RowFirst, LeaseExcludes, DocumentsOutliveTheScan, Busy, Working
<1>6. \A j \in Jobs : jobs[j].state = "absent"
  BY DEF SInit, Init, Unborn
<1>7. JobsKeepUp
  BY <1>4, <1>6 DEF SInit, JobsKeepUp, Over, Busy, Working
<1> QED
  BY <1>1, <1>3, <1>5, <1>7 DEF SInv

LEMMA TypeStep == SInv /\ [SNext]_svars => IInv' /\ ScanTypeOK'
<1> SUFFICES ASSUME SInv, [SNext]_svars PROVE IInv' /\ ScanTypeOK'
  OBVIOUS
<1>1. IInv' /\ TypeOK'
  BY Steps DEF IInv, QueueInv
<1>2. /\ scan \in Scan /\ sources \subseteq Jobs /\ start \in {"enqueuing", "done", "dead"}
      /\ task \in [Tasks -> Task] /\ faults \in 0..MaxFaults /\ intruded \in BOOLEAN
      /\ MaxFaults \in Nat /\ unmarked \in BOOLEAN
  BY ScanAssumption DEF SInv, ScanTypeOK
<1>3. Fault => faults' \in 0..MaxFaults
  BY <1>2 DEF Fault
<1>4. CASE JobsMove
  BY <1>1, <1>2, <1>4 DEF JobsMove, ScanTypeOK
<1>5. CASE StartDies
  BY <1>1, <1>2, <1>3, <1>5 DEF StartDies, ScanTypeOK
<1>6. CASE ScanLeaseExpires
  <2>1. scan' \in Scan
    BY <1>2, <1>6 DEF ScanLeaseExpires, Scan, Leases
  <2> QED
    BY <1>1, <1>2, <1>3, <1>6, <2>1 DEF ScanLeaseExpires, ScanTypeOK
<1>7. ASSUME NEW t \in Tasks, TaskMoves(t) \/ Cleans(t) PROVE ScanTypeOK'
  <2>1. task' \in [Tasks -> Task]
    BY <1>7, TaskEffects DEF TaskMoves, GoesTo, Drops, Reads, Changes
  <2>2. scan' \in Scan
    <3>1. \A s \in OpenStates \cup {"none", "completed", "failed"}, l \in Leases :
             [scan EXCEPT !.state = s] \in Scan /\ [scan EXCEPT !.lease = l] \in Scan
      BY <1>2 DEF Scan
    <3>2. {"queued", "ocr", "matching"} = OpenStates /\ "live" \in Leases /\ "none" \in Leases
      BY DEF OpenStates, Leases
    <3>3. RenewWhileWaiting(t) \/ StartMatching(t) \/ SaveResult(t) \/ MarkScanFailed(t)
             => scan' \in Scan
      <4>1. /\ [state |-> "ocr", lease |-> "live"] \in Scan
            /\ [state |-> "queued", lease |-> "live"] \in Scan
            /\ [state |-> "matching", lease |-> "live"] \in Scan
            /\ [state |-> "completed", lease |-> "none"] \in Scan
            /\ [state |-> "failed", lease |-> "none"] \in Scan
        BY DEF Scan, OpenStates, Leases
      <4> QED
        BY <1>2, <4>1 DEF RenewWhileWaiting, StartMatching, SaveResult, MarkScanFailed
    <3>4. InsertScan(t) \/ RenewWhileMatching(t) \/ Claim(t) => scan' \in Scan
      BY <1>2, <3>1, <3>2 DEF InsertScan, RenewWhileMatching, Claim
    <3>5. Poll(t) \/ TaskFails(t) \/ MarkLost(t) \/ TaskDies(t) \/ ReadJob(t) \/ Analyze(t)
            \/ Cleans(t) => scan' \in Scan
      BY <1>2 DEF Poll, TaskFails, MarkLost, TaskDies, ReadJob, Analyze, Cleans, CleanUp,
                  CleanUpPartly
    <3> QED
      BY <1>7, <3>3, <3>4, <3>5 DEF TaskMoves
  <2>3. /\ sources' \subseteq Jobs /\ start' \in {"enqueuing", "done", "dead"}
        /\ faults' \in 0..MaxFaults /\ intruded' \in BOOLEAN /\ unmarked' \in BOOLEAN
    BY <1>2, <1>3, <1>7
    DEF TaskMoves, InsertScan, Poll, RenewWhileMatching, TaskFails, TaskDies, Claim,
        ReadJob, RenewWhileWaiting, StartMatching, Analyze, SaveResult, MarkScanFailed, MarkLost,
        Cleans, CleanUp, CleanUpPartly
  <2> QED
    BY <1>1, <2>1, <2>2, <2>3 DEF ScanTypeOK
<1> QED
  BY <1>1, <1>4, <1>5, <1>6, <1>7, Steps
\* The steps of a task, by what they do to the scan and to the task itself.
Quiet == UNCHANGED <<jobs, sources, faults, intruded, unmarked>>

Spawns(t) ==
    /\ Quiet /\ task[t].step = "idle" /\ GoesTo(t, "spawned")
    /\ start' = "done" /\ scan'.state \in OpenStates /\ scan'.lease = scan.lease
    /\ \/ start = "done" /\ scan.state \in OpenStates
       \/ start # "done" /\ \A j \in Jobs : jobs[j].state # "absent"

Claims(t) ==
    /\ Quiet /\ start' = start /\ task[t].step = "spawned" /\ GoesTo(t, "waiting")
    /\ scan.state \in OpenStates /\ scan.lease # "live"
    /\ scan'.state = scan.state /\ scan'.lease = "live"

Refused(t) ==
    Quiet /\ start' = start /\ scan' = scan /\ task[t].step = "spawned" /\ Drops(t)

Proceeds(t) ==
    /\ Quiet /\ start' = start /\ Working(t)
    /\ intruded \/ (scan'.state \in OpenStates /\ scan'.lease = "live")
    /\ \/ Reads(t)
       \/ task[t].step = "renewing" /\ GoesTo(t, "waiting")
       \/ task[t].step \in {"recognized", "analyzing"}
             /\ \E s \in {"analyzing", "analyzed", "failing"} : GoesTo(t, s)

Finishes(t) ==
    /\ Quiet /\ start' = start /\ task[t].step \in {"analyzed", "failing"}
    /\ scan'.state \in {"completed", "failed"} /\ GoesTo(t, "cleaning")

Breaks(t) ==
    /\ faults' # 0 /\ UNCHANGED <<jobs, scan, sources, start>> /\ (unmarked => unmarked')
    /\ \/ task[t].step # "idle" /\ Drops(t) /\ intruded' = intruded
       \/ /\ task[t].step = "failing" /\ GoesTo(t, "cleaning")
          /\ intruded' = intruded /\ (intruded \/ unmarked')
       \/ Working(t) /\ GoesTo(t, "failing") /\ intruded' = intruded
       \/ task[t].step = "spawned" /\ GoesTo(t, "failing") /\ intruded'

\* Every step of a task but its end is one of these.
LEMMA KindsOfSteps ==
  ASSUME SInv, NEW t \in Tasks, TaskMoves(t), UNCHANGED jobs
  PROVE  \/ Spawns(t) \/ Claims(t) \/ Refused(t) \/ Proceeds(t) \/ Finishes(t) \/ Breaks(t)
<1>1. /\ scan \in Scan /\ start \in {"enqueuing", "done", "dead"}
      /\ faults \in 0..MaxFaults /\ MaxFaults \in Nat /\ intruded \in BOOLEAN
  BY ScanAssumption DEF SInv, ScanTypeOK
<1>2. /\ DOMAIN scan = {"state", "lease"} /\ scan = [state |-> scan.state, lease |-> scan.lease]
      /\ \A s : [scan EXCEPT !.state = s].state = s /\ [scan EXCEPT !.state = s].lease = scan.lease
      /\ \A l : [scan EXCEPT !.lease = l].lease = l /\ [scan EXCEPT !.lease = l].state = scan.state
  BY <1>1 DEF Scan
<1>3. Working(t) => intruded \/ (scan.lease = "live" /\ scan.state \in OpenStates)
  BY <1>1 DEF SInv, LeaseExcludes
<1>4. scan.state \in OpenStates => start = "done"
  BY DEF SInv, RowFirst, OpenStates
<1>5. Fault => faults' # 0
  BY <1>1 DEF Fault
<1>6. ASSUME InsertScan(t) \/ Poll(t) PROVE Spawns(t)
  <2>1. GoesTo(t, "spawned")
    BY <1>6, TaskEffects
  <2>2. CASE InsertScan(t)
    BY <1>2, <2>1, <2>2 DEF InsertScan, Spawns, Quiet, OpenStates
  <2>3. CASE Poll(t)
    BY <1>4, <2>1, <2>3 DEF Poll, Spawns, Quiet
  <2> QED
    BY <1>6, <2>2, <2>3
<1>7. ASSUME Claim(t) PROVE Claims(t) \/ Refused(t)
  <2>1. \/ scan.state \in OpenStates /\ scan.lease # "live" /\ GoesTo(t, "waiting")
        \/ scan' = scan /\ Drops(t)
    BY <1>7, TaskEffects
  <2>2. Quiet /\ start' = start /\ task[t].step = "spawned"
    BY <1>7 DEF Claim, Quiet
  <2>3. scan.state \in OpenStates /\ scan.lease # "live" => scan' = [scan EXCEPT !.lease = "live"]
    BY <1>7 DEF Claim
  <2> QED
    BY <1>2, <2>1, <2>2, <2>3 DEF Claims, Refused
<1>8. ASSUME ReadJob(t) \/ RenewWhileWaiting(t) \/ StartMatching(t) \/ RenewWhileMatching(t)
                \/ Analyze(t)
      PROVE  Proceeds(t)
  <2>1. Quiet /\ start' = start /\ Working(t)
    BY <1>8 DEF ReadJob, RenewWhileWaiting, StartMatching, RenewWhileMatching, Analyze, Quiet,
                Working
  <2>2. intruded \/ (scan'.state \in OpenStates /\ scan'.lease = "live")
    <3>1. CASE ReadJob(t) \/ Analyze(t)
      BY <1>3, <2>1, <3>1 DEF ReadJob, Analyze
    <3>2. CASE RenewWhileWaiting(t) \/ StartMatching(t)
      BY <3>2 DEF RenewWhileWaiting, StartMatching, OpenStates
    <3>3. CASE RenewWhileMatching(t)
      BY <1>2, <3>3 DEF RenewWhileMatching, OpenStates
    <3> QED
      BY <1>8, <3>1, <3>2, <3>3
  <2>3. \/ Reads(t)
        \/ task[t].step = "renewing" /\ GoesTo(t, "waiting")
        \/ task[t].step \in {"recognized", "analyzing"}
              /\ \E s \in {"analyzing", "analyzed", "failing"} : GoesTo(t, s)
    BY <1>8, TaskEffects DEF RenewWhileWaiting, StartMatching, RenewWhileMatching, Analyze
  <2> QED
    BY <2>1, <2>2, <2>3 DEF Proceeds
<1>9. ASSUME SaveResult(t) \/ MarkScanFailed(t) PROVE Finishes(t)
  BY <1>9, TaskEffects DEF SaveResult, MarkScanFailed, Finishes, Quiet
<1>a. ASSUME MarkLost(t) PROVE Breaks(t)
  <2>1. Working(t)
    BY <1>a DEF MarkLost, Working
  <2> QED
    BY <1>3, <1>5, <1>a, <2>1, TaskEffects DEF MarkLost, Breaks
<1>10. ASSUME TaskFails(t) PROVE Breaks(t)
  BY <1>1, <1>5, <1>10, TaskEffects DEF TaskFails, Breaks, Working
<1>11. ASSUME TaskDies(t) PROVE Breaks(t)
  BY <1>5, <1>11, TaskEffects DEF TaskDies, Breaks
<1> QED
  BY <1>6, <1>7, <1>8, <1>9, <1>a, <1>10, <1>11 DEF TaskMoves

\* The row precedes its tasks.
LEMMA RowFirstStep == SInv /\ [SNext]_svars => RowFirst'
<1> SUFFICES ASSUME SInv, [SNext]_svars PROVE RowFirst'
  OBVIOUS
<1>1. RowFirst
  BY DEF SInv
<1>2. CASE JobsMove
  BY <1>1, <1>2 DEF JobsMove, RowFirst
<1>3. CASE StartDies
  BY <1>1, <1>3 DEF StartDies, RowFirst
<1>4. CASE ScanLeaseExpires
  <2>1. scan'.state = scan.state
    BY <1>4 DEF ScanLeaseExpires, SInv, ScanTypeOK, Scan
  <2> QED
    BY <1>1, <1>4, <2>1 DEF ScanLeaseExpires, RowFirst
<1>5. ASSUME NEW t \in Tasks, Cleans(t) PROVE RowFirst'
  <2>1. Drops(t)
    BY <1>5, TaskEffects
  <2> QED
    BY <1>1, <1>5, <2>1 DEF Cleans, CleanUp, CleanUpPartly, Drops, Changes, RowFirst
<1>6. ASSUME NEW t \in Tasks, TaskMoves(t), UNCHANGED jobs PROVE RowFirst'
  <2>1. CASE Spawns(t)
    BY <1>1, <2>1 DEF Spawns, GoesTo, Changes, RowFirst
  <2>2. CASE Claims(t)
    BY <1>1, <2>2 DEF Claims, GoesTo, Changes, RowFirst
  <2>3. CASE Refused(t)
    BY <1>1, <2>3 DEF Refused, Drops, Changes, RowFirst
  <2>4. CASE Proceeds(t)
    BY <1>1, <2>4 DEF Proceeds, Reads, GoesTo, Changes, RowFirst, Working
  <2>5. CASE Finishes(t)
    BY <1>1, <2>5 DEF Finishes, GoesTo, Changes, RowFirst
  <2>6. CASE Breaks(t)
    BY <1>1, <2>6 DEF Breaks, Drops, GoesTo, Changes, RowFirst, Working
  <2> QED
    BY <1>6, <2>1, <2>2, <2>3, <2>4, <2>5, <2>6, KindsOfSteps
<1> QED
  BY <1>2, <1>3, <1>4, <1>5, <1>6, Steps
\* One task works at a time, on an unfinished scan it holds the lease of.
LEMMA LeaseStep == SInv /\ [SNext]_svars => LeaseExcludes'
<1> SUFFICES ASSUME SInv, [SNext]_svars PROVE LeaseExcludes'
  OBVIOUS
<1>1. LeaseExcludes /\ RowFirst /\ intruded \in BOOLEAN /\ intruded' \in BOOLEAN
  BY TypeStep DEF SInv, ScanTypeOK
<1>2. CASE JobsMove
  BY <1>1, <1>2 DEF JobsMove, LeaseExcludes, Busy, Working, Over
<1>3. CASE StartDies
  BY <1>1, <1>3 DEF StartDies, LeaseExcludes, Busy, Working, Over
<1>4. CASE ScanLeaseExpires
  <2>1. scan'.state = scan.state
    BY <1>4 DEF ScanLeaseExpires, SInv, ScanTypeOK, Scan
  <2> QED
    BY <1>1, <1>4, <2>1 DEF ScanLeaseExpires, LeaseExcludes, Busy, Working, Over
<1>5. ASSUME NEW t \in Tasks, Cleans(t) PROVE LeaseExcludes'
  <2>1. Drops(t)
    BY <1>5, TaskEffects
  <2> QED
    BY <1>1, <1>5, <2>1 DEF Cleans, CleanUp, CleanUpPartly, Drops, Changes, LeaseExcludes,
                            Busy, Working, Over
<1>6. ASSUME NEW t \in Tasks, TaskMoves(t), UNCHANGED jobs PROVE LeaseExcludes'
  <2>1. CASE Spawns(t)
    BY <1>1, <2>1
    DEF Spawns, Quiet, GoesTo, Changes, RowFirst, LeaseExcludes, Busy, Working, Over, OpenStates
  <2>2. CASE Claims(t)
    BY <1>1, <2>2
    DEF Claims, Quiet, GoesTo, Changes, LeaseExcludes, Busy, Working, Over, OpenStates
  <2>3. CASE Refused(t)
    BY <1>1, <2>3 DEF Refused, Quiet, Drops, Changes, LeaseExcludes, Busy, Working, Over
  <2>4. CASE Proceeds(t)
    <3>1. Busy(t) /\ Working(t) /\ intruded' = intruded /\ unmarked' = unmarked
      BY <2>4 DEF Proceeds, Busy, Quiet
    <3>2. task'[t].step \in {"waiting", "renewing", "recognized", "analyzing", "analyzed",
                             "failing"}
      BY <2>4 DEF Proceeds, Reads, GoesTo, Changes
    <3>3. \A u \in Tasks : u # t => task'[u] = task[u]
      BY <2>4 DEF Proceeds, Reads, GoesTo, Changes
    <3>4. intruded \/ (scan'.state \in OpenStates /\ scan'.lease = "live")
      BY <2>4 DEF Proceeds
    <3> QED
      BY <1>1, <3>1, <3>2, <3>3, <3>4 DEF LeaseExcludes, Busy, Working
  <2>5. CASE Finishes(t)
    BY <1>1, <2>5 DEF Finishes, Quiet, GoesTo, Changes, LeaseExcludes, Busy, Working, Over
  <2>6. CASE Breaks(t)
    <3>1. \A u \in Tasks : u # t => task'[u] = task[u]
      BY <2>6 DEF Breaks, Drops, GoesTo, Changes
    <3>2. scan' = scan
      BY <2>6 DEF Breaks
    <3>3. CASE intruded' = intruded
      <4>1. \/ task'[t].step = "idle" \/ (Working(t) /\ task'[t].step = "failing")
            \/ intruded \/ (unmarked' /\ task'[t].step = "cleaning")
        BY <2>6, <3>3 DEF Breaks, Drops, GoesTo, Changes
      <4>2. unmarked => unmarked'
        BY <2>6 DEF Breaks
      <4> QED
        BY <1>1, <3>1, <3>2, <3>3, <4>1, <4>2 DEF LeaseExcludes, Busy, Working, Over
    <3>4. CASE intruded'
      BY <3>4 DEF LeaseExcludes
    <3> QED
      BY <2>6, <3>3, <3>4 DEF Breaks
  <2> QED
    BY <1>6, <2>1, <2>2, <2>3, <2>4, <2>5, <2>6, KindsOfSteps
<1> QED
  BY <1>2, <1>3, <1>4, <1>5, <1>6, Steps

\* A scan that is over stays so, unless a task works on it without the lease.
LEMMA OverStays ==
  ASSUME SInv, [SNext]_svars, Over
  PROVE  intruded \/ scan'.state = scan.state
<1>1. LeaseExcludes /\ RowFirst /\ intruded \in BOOLEAN /\ scan.state \notin OpenStates
      /\ scan.state # "none"
  BY DEF SInv, ScanTypeOK, Over, OpenStates
<1>2. CASE JobsMove \/ StartDies
  BY <1>2 DEF JobsMove, StartDies
<1>3. CASE ScanLeaseExpires
  BY <1>3 DEF ScanLeaseExpires, SInv, ScanTypeOK, Scan
<1>4. ASSUME NEW t \in Tasks, Cleans(t) PROVE scan' = scan
  BY <1>4 DEF Cleans, CleanUp, CleanUpPartly
<1>5. ASSUME NEW t \in Tasks, TaskMoves(t), UNCHANGED jobs
      PROVE  intruded \/ scan'.state = scan.state
  <2>1. Working(t) => intruded
    BY <1>1 DEF LeaseExcludes
  <2>2. ~Spawns(t) /\ ~Claims(t)
    BY <1>1 DEF Spawns, Claims, RowFirst
  <2>3. Refused(t) \/ Breaks(t) => scan' = scan
    BY DEF Refused, Breaks
  <2>4. Proceeds(t) \/ Finishes(t) => Working(t)
    BY DEF Proceeds, Finishes, Working
  <2> QED
    BY <1>5, <2>1, <2>2, <2>3, <2>4, KindsOfSteps
<1> QED
  BY <1>2, <1>3, <1>4, <1>5, Steps

\* The documents are deleted by the task that ended the scan, or after it.
LEMMA DocumentsStep == SInv /\ [SNext]_svars => DocumentsOutliveTheScan'
<1> SUFFICES ASSUME SInv, [SNext]_svars PROVE DocumentsOutliveTheScan'
  OBVIOUS
<1>1. /\ DocumentsOutliveTheScan /\ LeaseExcludes
      /\ intruded \in BOOLEAN /\ intruded' \in BOOLEAN
      /\ unmarked \in BOOLEAN /\ unmarked' \in BOOLEAN
  BY TypeStep DEF SInv, ScanTypeOK
<1>2. (intruded => intruded') /\ (unmarked => unmarked')
  <2>1. JobsMove \/ StartDies \/ ScanLeaseExpires \/ (\E t \in Tasks : Cleans(t))
           => (intruded => intruded') /\ (unmarked => unmarked')
    BY DEF JobsMove, StartDies, ScanLeaseExpires, Cleans, CleanUp, CleanUpPartly
  <2>2. ASSUME NEW t \in Tasks, TaskMoves(t), UNCHANGED jobs
        PROVE  (intruded => intruded') /\ (unmarked => unmarked')
    BY <2>2, KindsOfSteps
    DEF Spawns, Claims, Refused, Proceeds, Finishes, Breaks, Quiet
  <2> QED
    BY <2>1, <2>2, Steps
<1>3. CASE sources' = sources
  BY <1>1, <1>2, <1>3, OverStays DEF DocumentsOutliveTheScan, Over
<1>4. ASSUME NEW t \in Tasks, Cleans(t) PROVE DocumentsOutliveTheScan'
  BY <1>1, <1>4 DEF Cleans, CleanUp, CleanUpPartly, LeaseExcludes, Over,
                    DocumentsOutliveTheScan
<1>5. ASSUME NEW t \in Tasks, TaskMoves(t), UNCHANGED jobs PROVE sources' = sources
  BY <1>5, KindsOfSteps DEF Spawns, Claims, Refused, Proceeds, Finishes, Breaks, Quiet
<1>6. JobsMove \/ StartDies \/ ScanLeaseExpires => sources' = sources
  BY DEF JobsMove, StartDies, ScanLeaseExpires
<1> QED
  BY <1>3, <1>4, <1>5, <1>6, Steps
\* Without a fault, the jobs keep up with the tasks that wait for them.
LEMMA KeepUpStep == SInv /\ [SNext]_svars => JobsKeepUp'
<1> SUFFICES ASSUME SInv, [SNext]_svars, faults' = 0 PROVE JobsKeepUp'
  BY DEF JobsKeepUp
<1>1. /\ intruded \in BOOLEAN /\ intruded' \in BOOLEAN /\ unmarked \in BOOLEAN /\ RowFirst /\ LeaseExcludes
      /\ faults \in 0..MaxFaults /\ MaxFaults \in Nat
      /\ task \in [Tasks -> Task] /\ Len(Docs) \in Nat
      /\ Jobs = {Docs[i] : i \in 1..Len(Docs)}
  BY TypeStep, ScanAssumption, IdleType DEF SInv, ScanTypeOK
<1>2. ~Fault /\ faults = 0
  <2>1. ~Fault
    BY <1>1 DEF Fault
  <2>2. \A t \in Tasks : ~Breaks(t)
    BY DEF Breaks
  <2>3. JobsMove \/ StartDies \/ ScanLeaseExpires \/ (\E t \in Tasks : Cleans(t))
           => faults = 0
    <3>1. JobsMove => faults = 0
      BY <1>1 DEF JobsMove
    <3>2. StartDies \/ ScanLeaseExpires => faults = 0
      BY <2>1 DEF StartDies, ScanLeaseExpires
    <3>3. ASSUME NEW t \in Tasks, Cleans(t) PROVE faults = 0
      BY <2>1, <3>3 DEF Cleans, CleanUp, CleanUpPartly
    <3> QED
      BY <3>1, <3>2, <3>3
  <2>4. (\E t \in Tasks : TaskMoves(t) /\ UNCHANGED jobs) => faults = 0
    BY <2>2, KindsOfSteps DEF Spawns, Claims, Refused, Proceeds, Finishes, Quiet
  <2> QED
    BY <2>1, <2>3, <2>4, Steps
<1>3. /\ ~intruded /\ ~unmarked
      /\ start = "done" => \A j \in Jobs : jobs[j].state # "absent"
      /\ ~Over => \A j \in Jobs : jobs[j].state # "deleted"
      /\ \A t \in Tasks : task[t].step \in {"waiting", "renewing"} =>
            \A k \in 1..(task[t].doc - 1) : Ended(Docs[k])
      /\ \A t \in Tasks : Busy(t) /\ task[t].step \notin {"waiting", "renewing"} =>
            \A j \in Jobs : Ended(j)
      /\ Over /\ (\A t \in Tasks : task[t].step # "cleaning") =>
            \A j \in Jobs : jobs[j].state = "deleted"
  BY <1>2 DEF SInv, JobsKeepUp
<1>4. \A t \in Tasks : \A k \in 1..(task[t].doc - 1) : k \in 1..Len(Docs) /\ Docs[k] \in Jobs
  BY <1>1 DEF Task
<1>5. CASE JobsMove
  <2>1. \A j \in Jobs : Ended(j) => Ended(j)'
    BY <1>5 DEF JobsMove, JobsGrow, Ended
  <2>2. /\ task' = task /\ scan' = scan /\ start' = start /\ intruded' = intruded
        /\ unmarked' = unmarked
    BY <1>5 DEF JobsMove
  <2>3. /\ \A j \in Jobs : jobs[j].state # "absent" => jobs'[j].state # "absent"
        /\ \A j \in Jobs : jobs'[j].state = "deleted" <=> jobs[j].state = "deleted"
    BY <1>5 DEF JobsMove, JobsGrow
  <2> QED
    BY <1>3, <1>4, <2>1, <2>2, <2>3 DEF JobsKeepUp, Busy, Working, Over
<1>6. CASE StartDies
  BY <1>2, <1>6 DEF StartDies
<1>7. CASE ScanLeaseExpires /\ UNCHANGED jobs
  <2>1. scan'.state = scan.state
    BY <1>7 DEF ScanLeaseExpires, SInv, ScanTypeOK, Scan
  <2>2. intruded' = intruded /\ unmarked' = unmarked /\ task' = task /\ start' = start
    BY <1>2, <1>7 DEF ScanLeaseExpires
  <2> QED
    BY <1>3, <1>7, <2>1, <2>2 DEF JobsKeepUp, Busy, Working, Over, Ended
<1>8. ASSUME NEW t \in Tasks, Cleans(t) PROVE JobsKeepUp'
  <2>1. /\ Drops(t) /\ task[t].step = "cleaning" /\ scan' = scan /\ start' = start
        /\ intruded' = intruded /\ unmarked' = unmarked /\ DeleteAmong(Jobs)
    BY <1>2, <1>8, TaskEffects DEF Cleans, CleanUp, CleanUpPartly
  <2>2. Over /\ \A j \in Jobs : Ended(j)
    BY <1>1, <1>3, <2>1 DEF LeaseExcludes, Busy
  <2>3. \A j \in Jobs : jobs'[j].state = "deleted"
    BY <2>1, <2>2, CleanUpJobs DEF SInv
  <2>4. \A u \in Tasks : ~Busy(u)'
    BY <1>1, <1>3, <2>1 DEF LeaseExcludes, Busy, Working, Drops, Changes
  <2>5. \A u \in Tasks : task'[u].step \notin {"waiting", "renewing"}
    BY <2>4 DEF Busy, Working
  <2> QED
    BY <1>3, <2>1, <2>2, <2>3, <2>4, <2>5 DEF JobsKeepUp, Over
<1>9. ASSUME NEW t \in Tasks, TaskMoves(t), UNCHANGED jobs PROVE JobsKeepUp'
  <2>1. \A j \in Jobs : jobs'[j] = jobs[j] /\ (Ended(j)' <=> Ended(j))
    BY <1>9 DEF Ended
  <2>2. CASE Spawns(t)
    <3>1. intruded' = intruded /\ unmarked' = unmarked /\ GoesTo(t, "spawned") /\ ~Over'
      BY <2>2 DEF Spawns, Quiet, Over, OpenStates
    <3>2. ~Over
      BY <1>1, <2>2 DEF Spawns, Over, OpenStates, RowFirst
    <3>3. \A j \in Jobs : jobs[j].state # "absent"
      BY <1>3, <2>2 DEF Spawns
    <3> QED
      BY <1>3, <1>4, <2>1, <3>1, <3>2, <3>3 DEF JobsKeepUp, GoesTo, Changes, Busy, Working
  <2>3. CASE Claims(t)
    <3>1. /\ intruded' = intruded /\ unmarked' = unmarked /\ start' = start
          /\ GoesTo(t, "waiting") /\ ~Over' /\ ~Over
      BY <2>3 DEF Claims, Quiet, Over, OpenStates
    <3>2. task'[t].doc = 1
      BY <1>1, <2>3 DEF Claims, GoesTo, Changes, RowFirst
    <3> QED
      BY <1>3, <1>4, <2>1, <3>1, <3>2 DEF JobsKeepUp, GoesTo, Changes, Busy, Working
  <2>4. CASE Refused(t)
    BY <1>3, <1>4, <2>1, <2>4 DEF Refused, Quiet, JobsKeepUp, Drops, Changes, Busy, Working, Over
  <2>5. CASE Proceeds(t)
    <3>1. /\ intruded' = intruded /\ unmarked' = unmarked /\ start' = start
          /\ ~Over' /\ ~Over
      BY <1>1, <1>3, <2>5 DEF Proceeds, Quiet, Over, OpenStates, LeaseExcludes
    <3>2. start = "done" /\ \A j \in Jobs : jobs[j].state \notin {"absent", "deleted"}
      BY <1>1, <1>3, <2>5, <3>1 DEF Proceeds, RowFirst, Working
    <3>3. \A u \in Tasks : u # t => task'[u] = task[u]
      BY <2>5 DEF Proceeds, Reads, GoesTo, Changes
    <3>4. task[t].doc \in 1..Len(Docs) /\ Docs[task[t].doc] \in Jobs
      BY <1>1 DEF Task
    <3>5. /\ task'[t].step \in {"waiting", "renewing"} =>
                \A k \in 1..(task'[t].doc - 1) : Ended(Docs[k])
          /\ task'[t].step \notin {"waiting", "renewing"} => \A j \in Jobs : Ended(j)
      <4>1. CASE Reads(t)
        <5>1. CASE GoesTo(t, "renewing")
          BY <1>3, <4>1, <5>1 DEF Reads, GoesTo, Changes
        <5>2. CASE /\ Ended(Docs[task[t].doc]) /\ task[t].doc < Len(Docs)
                   /\ Changes(t, "waiting", task[t].doc + 1)
          <6>1. \A k \in 1..(task[t].doc - 1) : Ended(Docs[k])
            BY <1>3, <4>1 DEF Reads
          <6>2. \A k \in 1..task[t].doc : k = task[t].doc \/ k \in 1..(task[t].doc - 1)
            BY <3>4
          <6>3. task'[t].step = "waiting" /\ task'[t].doc - 1 = task[t].doc
            BY <3>4, <5>2 DEF Changes
          <6> QED
            BY <5>2, <6>1, <6>2, <6>3
        <5>3. CASE /\ Ended(Docs[task[t].doc]) /\ task[t].doc = Len(Docs)
                   /\ GoesTo(t, "recognized")
          <6>1. \A k \in 1..(task[t].doc - 1) : Ended(Docs[k])
            BY <1>3, <4>1 DEF Reads
          <6>2. \A k \in 1..Len(Docs) : k = task[t].doc \/ k \in 1..(task[t].doc - 1)
            BY <1>1, <5>3
          <6>3. \A j \in Jobs : \E k \in 1..Len(Docs) : j = Docs[k]
            BY <1>1
          <6>4. task'[t].step = "recognized"
            BY <5>3 DEF GoesTo, Changes
          <6> QED
            BY <5>3, <6>1, <6>2, <6>3, <6>4
        <5>4. jobs[Docs[task[t].doc]].state \notin {"absent", "deleted"}
          BY <3>2, <3>4
        <5> QED
          BY <4>1, <5>1, <5>2, <5>3, <5>4 DEF Reads
      <4>2. CASE task[t].step = "renewing" /\ GoesTo(t, "waiting")
        BY <1>3, <4>2 DEF GoesTo, Changes
      <4>3. CASE /\ task[t].step \in {"recognized", "analyzing"}
                 /\ \E s \in {"analyzing", "analyzed", "failing"} : GoesTo(t, s)
        BY <1>3, <4>3 DEF GoesTo, Changes, Busy, Working
      <4> QED
        BY <2>5, <4>1, <4>2, <4>3 DEF Proceeds
    <3>6. \A k \in 1..Len(Docs) : Docs[k] \in Jobs
      BY <1>1
    <3>7. task'[t].doc \in 1..Len(Docs)
      BY <1>9, TypeStep DEF ScanTypeOK, Task
    <3>8. \A k \in 1..(task'[t].doc - 1) : Docs[k] \in Jobs
      BY <1>1, <3>6, <3>7
    <3>9. \A u \in Tasks : task'[u].step \in {"waiting", "renewing"} =>
             \A k \in 1..(task'[u].doc - 1) : Ended(Docs[k])'
      <4> SUFFICES ASSUME NEW u \in Tasks, task'[u].step \in {"waiting", "renewing"},
                          NEW k \in 1..(task'[u].doc - 1)
                   PROVE  Ended(Docs[k])'
        OBVIOUS
      <4>1. CASE u = t
        BY <2>1, <3>5, <3>8, <4>1
      <4>2. CASE u # t
        BY <1>3, <1>4, <2>1, <3>3, <4>2
      <4> QED
        BY <4>1, <4>2
    <3>10. \A u \in Tasks : Busy(u)' /\ task'[u].step \notin {"waiting", "renewing"} =>
              \A j \in Jobs : Ended(j)'
      BY <1>3, <2>1, <3>3, <3>5 DEF Busy, Working
    <3> QED
      BY <1>3, <2>1, <3>1, <3>2, <3>9, <3>10 DEF JobsKeepUp
  <2>6. CASE Finishes(t)
    <3>1. /\ intruded' = intruded /\ unmarked' = unmarked /\ start' = start
          /\ GoesTo(t, "cleaning")
          /\ task'[t].step = "cleaning" /\ Over'
      BY <2>6 DEF Finishes, Quiet, GoesTo, Changes, Over
    <3>2. Busy(t) /\ task[t].step \notin {"waiting", "renewing"}
      BY <2>6 DEF Finishes, Busy, Working
    <3>3. \A j \in Jobs : Ended(j)'
      BY <1>3, <2>1, <3>2
    <3>4. \A u \in Tasks : task'[u].step \in {"waiting", "renewing"} =>
             \A k \in 1..(task'[u].doc - 1) : Ended(Docs[k])'
      BY <1>3, <1>4, <2>1, <3>1 DEF GoesTo, Changes
    <3> QED
      BY <1>3, <2>1, <3>1, <3>3, <3>4 DEF JobsKeepUp
  <2>7. ~Breaks(t)
    BY DEF Breaks
  <2> QED
    BY <1>9, <2>2, <2>3, <2>4, <2>5, <2>6, <2>7, KindsOfSteps
<1> QED
  BY <1>5, <1>6, <1>7, <1>8, <1>9, Steps

LEMMA StepSInv == SInv /\ [SNext]_svars => SInv'
  BY TypeStep, RowFirstStep, LeaseStep, DocumentsStep, KeepUpStep DEF SInv

-----------------------------------------------------------------------------
(* The theorems                                                            *)

\* Every reachable state of a scan, its jobs and its tasks satisfies the inductive
\* invariant.
THEOREM ScanInvariant == ScanSpec => []SInv
  BY InitSInv, StepSInv, PTL DEF ScanSpec

\* The scan, its jobs and its tasks always have their types.
THEOREM ScanTypeCorrect == ScanSpec => []ScanTypeOK
<1>1. SInv => ScanTypeOK
  BY DEF SInv
<1> QED
  BY <1>1, ScanInvariant, PTL

\* However many polls spawn a task, at most one works on the scan (claim_scan: the
\* conditional UPDATE of the lease), unless a lease has run out under a task.
THEOREM TasksExcludeEachOther == ScanSpec => []OneTaskWorks
<1>1. SInv => OneTaskWorks
  <2> DEFINE W == {t \in Tasks : Working(t)}
  <2> SUFFICES ASSUME SInv, ~intruded PROVE Cardinality(W) <= 1
    BY DEF SInv, ScanTypeOK, OneTaskWorks
  <2>1. \A t, u \in W : t = u
    BY DEF SInv, LeaseExcludes, Busy
  <2>2. CASE W = {}
    BY <2>2, FS_EmptySet
  <2>3. ASSUME NEW t \in W PROVE Cardinality(W) <= 1
    <3>1. W = {t}
      BY <2>1
    <3> QED
      BY <3>1, FS_Singleton
  <2> QED
    BY <2>2, <2>3
<1> QED
  BY <1>1, ScanInvariant, PTL

\* No document is deleted while a task may still have to read it: cleanup_scan_files
\* runs after the scan is completed or failed, unless the failure could not be written
\* or a task has worked without the lease.
THEOREM DocumentsAreKept == ScanSpec => []DocumentsOutliveTheScan
<1>1. SInv => DocumentsOutliveTheScan
  BY DEF SInv
<1> QED
  BY <1>1, ScanInvariant, PTL

\* A scan reported as completed or failed is not reopened by another task, though the
\* renewals of the lease do not look at its state.
THEOREM FinishedScansAreFinal == ScanSpec => FinishedScansStay
<1>1. SInv /\ [SNext]_svars
         => [scan.state \in {"completed", "failed"} => intruded \/ scan'.state = scan.state]_svars
  BY OverStays DEF Over
<1> QED
  BY <1>1, ScanInvariant, PTL DEF ScanSpec, FinishedScansStay

\* Without faults, a scan that is over leaves no job behind once its tasks are through.
THEOREM ScansLeaveNoJobs == ScanSpec => []JobsAreCollected
<1>1. SInv => JobsAreCollected
  <2> SUFFICES ASSUME JobsKeepUp, faults = 0, Over, \A t \in Tasks : task[t] = Idle
               PROVE  \A j \in Jobs : jobs[j].state = "deleted"
    BY DEF SInv, JobsAreCollected, Over
  <2>1. \A t \in Tasks : task[t].step # "cleaning"
    BY DEF Idle
  <2> QED
    BY <2>1 DEF JobsKeepUp
<1> QED
  BY <1>1, ScanInvariant, PTL
=============================================================================
