--------------------------- MODULE JobQueueProofs ---------------------------
(***************************************************************************)
(* Proofs about the job table, for every set of jobs and runners and every *)
(* max_attempts: the invariants and action properties of JobQueue.tla, and *)
(* that the table implements LeasedWork.                                   *)
(*                                                                         *)
(* The inductive invariant is QueueInv together with one fact about rows   *)
(* that were not inserted yet; without it Enqueue might reset attempts.    *)
(***************************************************************************)
EXTENDS JobQueue, TLAPS

\* A row that was not inserted yet has no attempts to its name.
UnbornRowsAreFresh ==
    \A j \in Jobs : jobs[j].state = "absent" => jobs[j].attempts = 0

IInv == QueueInv /\ UnbornRowsAreFresh

-----------------------------------------------------------------------------
(* Rows                                                                    *)

\* The row every column of which has its default is a row.
LEMMA UnbornType == Unborn \in Row
  BY DEF Unborn, Row, States, Leases, Errors

\* Resetting the owner keeps a row a row, and leaves the other columns alone.
LEMMA UnownedType ==
  ASSUME NEW row \in Row
  PROVE  /\ Unowned(row) \in Row
         /\ Unowned(row).state = row.state
         /\ Unowned(row).attempts = row.attempts
         /\ Unowned(row).error = row.error
         /\ Unowned(row).due = row.due
         /\ Unowned(row).runner = NoRunner
         /\ Unowned(row).lease = "none"
  BY DEF Unowned, Row, Leases

\* The counter of attempts is a number, and counting never lowers it.
LEMMA CountAttemptGrows ==
  ASSUME TypeOK, NEW j \in Jobs
  PROVE  CountAttempt(j) \in Nat /\ CountAttempt(j) >= jobs[j].attempts
  BY QueueAssumption DEF TypeOK, Row, CountAttempt

-----------------------------------------------------------------------------
(* The invariant                                                           *)

LEMMA InitIInv == Init => IInv
  BY UnbornType, QueueAssumption
  DEF Init, IInv, QueueInv, TypeOK, OwnershipIsConsistent, FailedJobsAreExhausted,
      UnbornRowsAreFresh, Unborn

\* Every operation replaces some rows by rows for which the invariant holds.  This
\* states, for one row, what an operation may make of it.
RowInv(row, j) ==
    /\ row \in Row
    /\ row.state = "processing" <=> row.runner # NoRunner
    /\ row.state = "processing" <=> row.lease # "none"
    /\ row.state = "failed" /\ row.error # "project_file_deleted"
          => row.attempts >= MaxAttempts[j]
    /\ row.state = "absent" => row.attempts = 0

\* The invariant is a statement about each row by itself.
LEMMA IInvByRows ==
  IInv <=> jobs \in [Jobs -> Row] /\ \A j \in Jobs : RowInv(jobs[j], j)
  BY DEF IInv, QueueInv, TypeOK, OwnershipIsConsistent, FailedJobsAreExhausted,
         UnbornRowsAreFresh, RowInv

\* Giving up the owner and leaving "processing" makes a good row of a good row,
\* provided a failed row was withdrawn or is exhausted.
LEMMA UnownedRowInv ==
  ASSUME NEW j \in Jobs, NEW row \in Row,
         NEW state \in {"pending", "succeeded", "failed"},
         NEW due \in BOOLEAN, NEW error \in Errors,
         state = "failed" => error = "project_file_deleted" \/ row.attempts >= MaxAttempts[j]
  PROVE  /\ state # "failed" => RowInv([Unowned(row) EXCEPT !.state = state], j)
         /\ state # "failed" => RowInv([Unowned(row) EXCEPT !.state = state, !.due = due], j)
         /\ error = "project_file_deleted"
               => RowInv([Unowned(row) EXCEPT !.state = state, !.error = error], j)
         /\ RowInv([Unowned(row) EXCEPT !.state = state, !.due = due, !.error = error], j)
<1>1. /\ Unowned(row) \in Row /\ Unowned(row).runner = NoRunner
      /\ Unowned(row).lease = "none" /\ Unowned(row).attempts = row.attempts
  BY UnownedType
<1> HIDE DEF Unowned
<1> QED
  BY <1>1 DEF RowInv, Row, States

\* Every operation keeps the invariant.
LEMMA NextIInv == IInv /\ [QueueStep]_jobs => IInv'
<1> SUFFICES ASSUME IInv, [QueueStep]_jobs PROVE IInv'
  OBVIOUS
<1>t. jobs \in [Jobs -> Row] /\ \A j \in Jobs : RowInv(jobs[j], j)
  BY IInvByRows
<1>ty. TypeOK
  BY DEF IInv, QueueInv
<1> DEFINE Kept == jobs' \in [Jobs -> Row] /\ \A k \in Jobs : RowInv(jobs'[k], k)
<1> SUFFICES Kept
  BY DEF IInv, QueueInv, TypeOK, OwnershipIsConsistent, FailedJobsAreExhausted,
         UnbornRowsAreFresh, RowInv
<1>one. ASSUME NEW j \in Jobs, NEW row, RowInv(row, j), jobs' = [jobs EXCEPT ![j] = row]
        PROVE  Kept
  BY <1>one, <1>t DEF RowInv
<1>1. ASSUME NEW j \in Jobs, Enqueue(j) PROVE Kept
  <2>1. RowInv([Unborn EXCEPT !.state = "pending", !.due = TRUE], j)
    BY UnbornType DEF RowInv, Unborn, Row, States
  <2> QED
    BY <1>1, <1>one, <2>1 DEF Enqueue
<1>2. ASSUME NEW j \in Jobs, DeleteFinished(j) PROVE Kept
  <2>1. RowInv([Unborn EXCEPT !.state = "deleted"], j)
    BY UnbornType DEF RowInv, Unborn, Row, States
  <2> QED
    BY <1>2, <1>one, <2>1 DEF DeleteFinished
<1>3. ASSUME NEW j \in Jobs, LeaseExpires(j) PROVE Kept
  BY <1>3, <1>t DEF LeaseExpires, RowInv, Row, Leases
<1>4. ASSUME NEW j \in Jobs, BecomesDue(j) PROVE Kept
  BY <1>4, <1>t DEF BecomesDue, RowInv, Row
<1>5. ASSUME NEW j \in Jobs, NEW r \in Runners, Acquire(j, r) PROVE Kept
  <2>1. CountAttempt(j) \in Nat
    BY <1>ty, CountAttemptGrows
  <2>2. jobs[j] \in Row /\ RowInv(jobs[j], j)
    BY <1>t
  <2> HIDE DEF CountAttempt
  <2>3. RowInv([jobs[j] EXCEPT !.state = "processing", !.attempts = CountAttempt(j),
                               !.runner = r, !.lease = "live"], j)
    BY <2>1, <2>2, QueueAssumption DEF RowInv, Row, States, Leases
  <2> QED
    BY <1>5, <1>one, <2>3 DEF Acquire
<1>6. ASSUME NEW j \in Jobs, NEW r \in Runners, Complete(j, r) PROVE Kept
  <2>1. RowInv([Unowned(jobs[j]) EXCEPT !.state = "succeeded"], j)
    BY <1>t, UnownedRowInv DEF Errors
  <2> QED
    BY <1>6, <1>one, <2>1 DEF Complete
<1>7. ASSUME NEW j \in Jobs, NEW r \in Runners,
             NEW error \in {"reported", "unprepared"}, NEW retryNow \in BOOLEAN,
             Fail(j, r, error, retryNow)
      PROVE  Kept
  <2> DEFINE retry == jobs[j].attempts < MaxAttempts[j]
             state == IF retry THEN "pending" ELSE "failed"
             due   == retry => retryNow
  <2>1. jobs[j] \in Row /\ jobs[j].attempts \in Nat /\ MaxAttempts[j] \in Nat
    BY <1>t, QueueAssumption DEF Row
  <2>2. /\ state \in {"pending", "succeeded", "failed"} /\ due \in BOOLEAN /\ error \in Errors
        /\ state = "failed" => jobs[j].attempts >= MaxAttempts[j]
    BY <2>1 DEF Errors
  <2>3. jobs' = [jobs EXCEPT ![j] = [Unowned(jobs[j]) EXCEPT !.state = state,
                                        !.due = due, !.error = error]]
    BY <1>7 DEF Fail
  <2> HIDE DEF state, due
  <2>4. RowInv([Unowned(jobs[j]) EXCEPT !.state = state, !.due = due, !.error = error], j)
    BY <2>1, <2>2, UnownedRowInv
  <2> QED
    BY <1>one, <2>3, <2>4
<1>8. ASSUME NEW r \in Runners, NEW S \in {{j} : j \in Jobs} \cup {Jobs}, Heartbeat(S, r)
      PROVE  Kept
  BY <1>8, <1>t DEF Heartbeat, RowInv, Row, Leases
<1>9. ASSUME NEW r \in Runners, ReleaseRunnerJobs(r) PROVE Kept
  <2>1. \A j \in Jobs :
           RowInv([Unowned(jobs[j]) EXCEPT !.state = "pending", !.due = TRUE], j)
    BY <1>t, UnownedRowInv DEF Errors
  <2> HIDE DEF Unowned
  <2> QED
    BY <1>9, <1>t, <2>1 DEF ReleaseRunnerJobs, RowInv
<1>10. ASSUME NEW S \in FileJobs, CancelFileJobs(S) PROVE Kept
  <2>1. \A j \in Jobs :
           RowInv([Unowned(jobs[j]) EXCEPT !.state = "failed",
                                           !.error = "project_file_deleted"], j)
    BY <1>t, UnownedRowInv DEF Errors
  <2> HIDE DEF Unowned
  <2> QED
    BY <1>10, <1>t, <2>1 DEF CancelFileJobs, RowInv
<1>11. CASE UNCHANGED jobs
  BY <1>11, <1>t
<1> QED
  BY <1>1, <1>2, <1>3, <1>4, <1>5, <1>6, <1>7, <1>8, <1>9, <1>10, <1>11 DEF QueueStep

\* The inductive invariant holds in every reachable state of the table.
THEOREM IInvHolds == QueueSpec => []IInv
  BY InitIInv, NextIInv, PTL DEF QueueSpec

\* Every row keeps its type, for any number of jobs, runners and attempts.
THEOREM TypeCorrect == QueueSpec => []TypeOK
  BY IInvHolds, PTL DEF IInv, QueueInv

\* A row names a runner and carries a lease exactly while it is processing.
THEOREM OwnershipHolds == QueueSpec => []OwnershipIsConsistent
  BY IInvHolds, PTL DEF IInv, QueueInv

\* The queue gives up only jobs that are exhausted or were withdrawn with their file.
THEOREM ExhaustionHolds == QueueSpec => []FailedJobsAreExhausted
  BY IInvHolds, PTL DEF IInv, QueueInv

-----------------------------------------------------------------------------
(* Action properties                                                       *)

\* A live lease passes to no other runner in one step (job_queue.rs, acquire).
THEOREM LeasesAreExclusive == QueueSpec => NoTakeoverOfLiveLease
<1>1. IInv /\ [QueueStep]_jobs
         => [\A j \in Jobs : jobs[j].lease = "live"
                => jobs'[j].runner \in {jobs[j].runner, NoRunner}]_jobs
  <2> SUFFICES ASSUME IInv, QueueStep, NEW k \in Jobs, jobs[k].lease = "live"
               PROVE  jobs'[k].runner \in {jobs[k].runner, NoRunner}
    OBVIOUS
  <2>t. jobs \in [Jobs -> Row] /\ jobs[k] \in Row /\ jobs[k].state = "processing"
    BY DEF IInv, QueueInv, TypeOK, OwnershipIsConsistent
  <2>1. ASSUME NEW j \in Jobs, Enqueue(j) \/ DeleteFinished(j) \/ LeaseExpires(j) \/ BecomesDue(j)
        PROVE  jobs'[k].runner \in {jobs[k].runner, NoRunner}
    BY <2>1, <2>t DEF Enqueue, DeleteFinished, LeaseExpires, BecomesDue, Unborn, Row
  <2>2. ASSUME NEW j \in Jobs, NEW r \in Runners, Acquire(j, r)
        PROVE  jobs'[k].runner \in {jobs[k].runner, NoRunner}
    BY <2>2, <2>t DEF Acquire, Open
  <2>u. \A j \in Jobs : Unowned(jobs[j]) \in Row /\ Unowned(jobs[j]).runner = NoRunner
    BY UnownedType DEF IInv, QueueInv, TypeOK
  <2> HIDE DEF Unowned
  <2>3. ASSUME NEW j \in Jobs, NEW r \in Runners, NEW error, NEW retryNow,
               Complete(j, r) \/ Fail(j, r, error, retryNow)
        PROVE  jobs'[k].runner \in {jobs[k].runner, NoRunner}
    <3>1. CASE Complete(j, r)
      BY <3>1, <2>t, <2>u DEF Complete, Row
    <3>2. CASE Fail(j, r, error, retryNow)
      BY <3>2, <2>t, <2>u DEF Fail, Row
    <3> QED
      BY <2>3, <3>1, <3>2
  <2>4. ASSUME NEW r \in Runners, NEW S, Heartbeat(S, r) \/ ReleaseRunnerJobs(r)
        PROVE  jobs'[k].runner \in {jobs[k].runner, NoRunner}
    <3>1. CASE Heartbeat(S, r)
      BY <3>1, <2>t DEF Heartbeat, Row
    <3>2. CASE ReleaseRunnerJobs(r)
      BY <3>2, <2>t, <2>u DEF ReleaseRunnerJobs, Row
    <3> QED
      BY <2>4, <3>1, <3>2
  <2>5. ASSUME NEW S \in FileJobs, CancelFileJobs(S)
        PROVE  jobs'[k].runner \in {jobs[k].runner, NoRunner}
    BY <2>5, <2>t, <2>u DEF CancelFileJobs, Row
  <2> QED
    BY <2>1, <2>2, <2>3, <2>4, <2>5 DEF QueueStep
<1> QED
  BY <1>1, IInvHolds, PTL DEF QueueSpec, NoTakeoverOfLiveLease

\* What one step makes of a finished job.
LEMMA FinishedStep ==
  ASSUME IInv, QueueStep, NEW k \in Jobs, jobs[k].state \in {"succeeded", "failed", "deleted"}
  PROVE  jobs'[k].state \in {jobs[k].state, "deleted"}
<1>t. jobs \in [Jobs -> Row] /\ jobs[k] \in Row
  BY DEF IInv, QueueInv, TypeOK
<1>1. ASSUME NEW j \in Jobs, Enqueue(j) \/ DeleteFinished(j) \/ LeaseExpires(j) \/ BecomesDue(j)
      PROVE  jobs'[k].state \in {jobs[k].state, "deleted"}
  BY <1>1, <1>t DEF Enqueue, DeleteFinished, LeaseExpires, BecomesDue, Unborn, Row
<1>2. ASSUME NEW j \in Jobs, NEW r \in Runners, NEW error, NEW retryNow,
             Acquire(j, r) \/ Complete(j, r) \/ Fail(j, r, error, retryNow)
      PROVE  jobs'[k].state \in {jobs[k].state, "deleted"}
  BY <1>2, <1>t DEF Acquire, Open, Complete, Fail, HeldBy
<1>3. ASSUME NEW r \in Runners, NEW S, Heartbeat(S, r) \/ ReleaseRunnerJobs(r)
      PROVE  jobs'[k].state \in {jobs[k].state, "deleted"}
  BY <1>3, <1>t DEF Heartbeat, ReleaseRunnerJobs
<1>4. ASSUME NEW S \in FileJobs, CancelFileJobs(S)
      PROVE  jobs'[k].state \in {jobs[k].state, "deleted"}
  BY <1>4, <1>t DEF CancelFileJobs
<1> QED
  BY <1>1, <1>2, <1>3, <1>4 DEF QueueStep

\* A finished job stays finished whatever still arrives for it.
THEOREM FinishedStaysFinished == QueueSpec => FinishedIsFinal
<1>1. IInv /\ [QueueStep]_jobs
         => [\A j \in Jobs : jobs[j].state \in {"succeeded", "failed", "deleted"}
                => jobs'[j].state \in {jobs[j].state, "deleted"}]_jobs
  BY FinishedStep
<1> QED
  BY <1>1, IInvHolds, PTL DEF QueueSpec, FinishedIsFinal

\* What one step makes of the attempts of a job.
LEMMA AttemptsStep ==
  ASSUME IInv, QueueStep, NEW k \in Jobs, jobs'[k].state # "deleted"
  PROVE  jobs'[k].attempts >= jobs[k].attempts
<1>t. /\ jobs \in [Jobs -> Row] /\ \A j \in Jobs : jobs[j] \in Row
      /\ \A j \in Jobs : jobs[j].attempts \in Nat
      /\ \A j \in Jobs : jobs[j].state = "absent" => jobs[j].attempts = 0
  BY DEF IInv, QueueInv, TypeOK, UnbornRowsAreFresh, Row
<1>u. \A j \in Jobs : Unowned(jobs[j]) \in Row /\ Unowned(jobs[j]).attempts = jobs[j].attempts
  BY <1>t, UnownedType
<1> HIDE DEF Unowned
<1>1. ASSUME NEW j \in Jobs, Enqueue(j) \/ DeleteFinished(j) \/ LeaseExpires(j) \/ BecomesDue(j)
      PROVE  jobs'[k].attempts >= jobs[k].attempts
  <2>1. CASE Enqueue(j)
    BY <2>1, <1>t DEF Enqueue, Unborn
  <2>2. CASE DeleteFinished(j)
    BY <2>2, <1>t DEF DeleteFinished, Unborn
  <2>3. CASE LeaseExpires(j)
    BY <2>3, <1>t DEF LeaseExpires, Row
  <2>4. CASE BecomesDue(j)
    BY <2>4, <1>t DEF BecomesDue, Row
  <2> QED
    BY <1>1, <2>1, <2>2, <2>3, <2>4
<1>2. ASSUME NEW j \in Jobs, NEW r \in Runners, Acquire(j, r)
      PROVE  jobs'[k].attempts >= jobs[k].attempts
  <2>1. CountAttempt(j) \in Nat /\ CountAttempt(j) >= jobs[j].attempts
    BY CountAttemptGrows DEF IInv, QueueInv
  <2> QED
    BY <1>2, <1>t, <2>1 DEF Acquire, Row
<1>3. ASSUME NEW j \in Jobs, NEW r \in Runners, NEW error, NEW retryNow,
             Complete(j, r) \/ Fail(j, r, error, retryNow)
      PROVE  jobs'[k].attempts = jobs[k].attempts
  <2>1. CASE Complete(j, r)
    BY <2>1, <1>t, <1>u DEF Complete, Row
  <2>2. CASE Fail(j, r, error, retryNow)
    BY <2>2, <1>t, <1>u DEF Fail, Row
  <2> QED
    BY <1>3, <2>1, <2>2
<1>4. ASSUME NEW r \in Runners, NEW S, Heartbeat(S, r) \/ ReleaseRunnerJobs(r)
      PROVE  jobs'[k].attempts = jobs[k].attempts
  <2>1. CASE Heartbeat(S, r)
    BY <2>1, <1>t DEF Heartbeat, Row
  <2>2. CASE ReleaseRunnerJobs(r)
    BY <2>2, <1>t, <1>u DEF ReleaseRunnerJobs, Row
  <2> QED
    BY <1>4, <2>1, <2>2
<1>5. ASSUME NEW S \in FileJobs, CancelFileJobs(S)
      PROVE  jobs'[k].attempts = jobs[k].attempts
  BY <1>5, <1>t, <1>u DEF CancelFileJobs, Row
<1> QED
  BY <1>1, <1>2, <1>3, <1>4, <1>5, <1>t DEF QueueStep

\* No operation gives an attempt back, unless it deletes the row.
THEOREM AttemptsOnlyGrow == QueueSpec => AttemptsNeverReturned
<1>1. IInv /\ [QueueStep]_jobs
         => [\A j \in Jobs : jobs'[j].state # "deleted"
                => jobs'[j].attempts >= jobs[j].attempts]_jobs
  BY AttemptsStep
<1> QED
  BY <1>1, IInvHolds, PTL DEF QueueSpec, AttemptsNeverReturned

-----------------------------------------------------------------------------
(* What each operation writes, column by column.  The modules that compose *)
(* the table with the processes that use it cite these instead of the      *)
(* operations.                                                             *)

Others(S) == \A k \in Jobs \ S : jobs'[k] = jobs[k]

LEMMA EnqueueWrites ==
  ASSUME TypeOK, NEW j \in Jobs, Enqueue(j)
  PROVE  /\ Others({j}) /\ jobs[j].state = "absent"
         /\ jobs'[j].state = "pending" /\ jobs'[j].error = "none" /\ jobs'[j].due
  BY DEF TypeOK, Enqueue, Unborn, Others

LEMMA AcquireWrites ==
  ASSUME TypeOK, NEW j \in Jobs, NEW r \in Runners, Acquire(j, r)
  PROVE  /\ Others({j}) /\ jobs[j].state \in {"pending", "processing"} /\ jobs[j].due
         /\ jobs[j].state = "processing" => jobs[j].lease # "live"
         /\ jobs'[j].state = "processing" /\ jobs'[j].runner = r /\ jobs'[j].lease = "live"
         /\ jobs'[j].error = jobs[j].error /\ jobs'[j].attempts > 0
<1>1. jobs \in [Jobs -> Row] /\ jobs[j] \in Row /\ jobs[j].attempts \in Nat
  BY DEF TypeOK, Row
<1>2. CountAttempt(j) > 0
  BY <1>1, QueueAssumption DEF CountAttempt
<1> HIDE DEF CountAttempt
<1> DEFINE row == [jobs[j] EXCEPT !.state = "processing", !.attempts = CountAttempt(j),
                                  !.runner = r, !.lease = "live"]
<1>3. jobs' = [jobs EXCEPT ![j] = row]
  BY DEF Acquire
<1>4. /\ row.state = "processing" /\ row.runner = r /\ row.lease = "live"
      /\ row.error = jobs[j].error /\ row.attempts = CountAttempt(j)
  BY <1>1 DEF Row
<1> HIDE DEF row
<1>5. jobs'[j] = row /\ Others({j})
  BY <1>1, <1>3 DEF Others
<1> QED
  BY <1>2, <1>4, <1>5 DEF Acquire, Open

LEMMA CompleteWrites ==
  ASSUME TypeOK, NEW j \in Jobs, NEW r \in Runners, Complete(j, r)
  PROVE  /\ Others({j}) /\ HeldBy(j, r)
         /\ jobs'[j].state = "succeeded" /\ jobs'[j].error = jobs[j].error
<1>1. jobs \in [Jobs -> Row] /\ jobs[j] \in Row
  BY DEF TypeOK
<1> DEFINE row == [Unowned(jobs[j]) EXCEPT !.state = "succeeded"]
<1>2. row.state = "succeeded" /\ row.error = jobs[j].error
  BY <1>1, UnownedType DEF Row
<1>3. jobs' = [jobs EXCEPT ![j] = row]
  BY DEF Complete
<1> HIDE DEF row
<1>4. jobs'[j] = row /\ Others({j})
  BY <1>1, <1>3 DEF Others
<1> QED
  BY <1>2, <1>4 DEF Complete

LEMMA FailWrites ==
  ASSUME TypeOK, NEW j \in Jobs, NEW r \in Runners, NEW error, Fail(j, r, error, FALSE)
  PROVE  /\ Others({j}) /\ HeldBy(j, r)
         /\ \/ jobs'[j].state = "pending" /\ ~jobs'[j].due
            \/ jobs'[j].state = "failed"
         /\ jobs'[j].error = error
<1>1. jobs \in [Jobs -> Row] /\ jobs[j] \in Row
  BY DEF TypeOK
<1> DEFINE retry == jobs[j].attempts < MaxAttempts[j]
           state == IF retry THEN "pending" ELSE "failed"
           due   == retry => FALSE
           row   == [Unowned(jobs[j]) EXCEPT !.state = state, !.due = due, !.error = error]
<1>2. jobs' = [jobs EXCEPT ![j] = row]
  BY DEF Fail
<1>3. (state = "pending" /\ ~due) \/ state = "failed"
  OBVIOUS
<1> HIDE DEF state, due
<1>4. row.state = state /\ row.due = due /\ row.error = error
  BY <1>1, UnownedType DEF Row
<1> HIDE DEF row
<1>5. jobs'[j] = row /\ Others({j})
  BY <1>1, <1>2 DEF Others
<1> QED
  BY <1>3, <1>4, <1>5 DEF Fail

LEMMA ReleaseWrites ==
  ASSUME TypeOK, NEW r, ReleaseRunnerJobs(r), NEW j \in Jobs
  PROVE  \/ jobs'[j] = jobs[j]
         \/ /\ jobs[j].state = "processing" /\ jobs[j].runner = r
            /\ jobs'[j].state = "pending" /\ jobs'[j].error = jobs[j].error
<1>1. jobs[j] \in Row
  BY DEF TypeOK
<1> DEFINE row == [Unowned(jobs[j]) EXCEPT !.state = "pending", !.due = TRUE]
<1>2. row.state = "pending" /\ row.error = jobs[j].error
  BY <1>1, UnownedType DEF Row
<1> HIDE DEF row
<1>3. jobs'[j] = IF jobs[j].state = "processing" /\ jobs[j].runner = r THEN row ELSE jobs[j]
  BY DEF ReleaseRunnerJobs, row
<1> QED
  BY <1>2, <1>3

LEMMA CancelWrites ==
  ASSUME TypeOK, NEW S, CancelFileJobs(S), NEW j \in Jobs
  PROVE  \/ jobs'[j] = jobs[j]
         \/ /\ j \in S /\ jobs[j].state \in {"pending", "processing"}
            /\ jobs'[j].state = "failed" /\ jobs'[j].error = "project_file_deleted"
<1>1. jobs[j] \in Row
  BY DEF TypeOK
<1> DEFINE row == [Unowned(jobs[j]) EXCEPT !.state = "failed", !.error = "project_file_deleted"]
<1>2. row.state = "failed" /\ row.error = "project_file_deleted"
  BY <1>1, UnownedType DEF Row
<1> HIDE DEF row
<1>3. jobs'[j] = IF j \in S /\ jobs[j].state \in {"pending", "processing"} THEN row ELSE jobs[j]
  BY DEF CancelFileJobs, row
<1> QED
  BY <1>2, <1>3

LEMMA HeartbeatWrites ==
  ASSUME TypeOK, NEW S, NEW r, Heartbeat(S, r), NEW j \in Jobs
  PROVE  /\ jobs'[j].state = jobs[j].state /\ jobs'[j].runner = jobs[j].runner
         /\ jobs'[j].error = jobs[j].error /\ jobs'[j].due = jobs[j].due
         /\ jobs'[j].attempts = jobs[j].attempts
         /\ jobs'[j].lease \in {jobs[j].lease, "live"}
<1>1. jobs[j] \in Row
  BY DEF TypeOK
<1> DEFINE row == [jobs[j] EXCEPT !.lease = "live"]
<1>2. /\ row.state = jobs[j].state /\ row.runner = jobs[j].runner /\ row.error = jobs[j].error
      /\ row.due = jobs[j].due /\ row.attempts = jobs[j].attempts /\ row.lease = "live"
  BY <1>1 DEF Row
<1> HIDE DEF row
<1>3. jobs'[j] \in {row, jobs[j]}
  BY DEF Heartbeat, row
<1> QED
  BY <1>2, <1>3

LEMMA TimeWrites ==
  ASSUME TypeOK, NEW j \in Jobs, LeaseExpires(j) \/ BecomesDue(j)
  PROVE  /\ Others({j})
         /\ jobs'[j].state = jobs[j].state /\ jobs'[j].runner = jobs[j].runner
         /\ jobs'[j].error = jobs[j].error /\ jobs'[j].attempts = jobs[j].attempts
         /\ LeaseExpires(j) => jobs'[j].due = jobs[j].due
         /\ BecomesDue(j) => jobs'[j].lease = jobs[j].lease
<1>1. jobs \in [Jobs -> Row] /\ jobs[j] \in Row
  BY DEF TypeOK
<1>2. CASE LeaseExpires(j)
  <2> DEFINE row == [jobs[j] EXCEPT !.lease = "expired"]
  <2>1. jobs' = [jobs EXCEPT ![j] = row]
    BY <1>2 DEF LeaseExpires
  <2>2. /\ row.state = jobs[j].state /\ row.runner = jobs[j].runner /\ row.error = jobs[j].error
        /\ row.due = jobs[j].due /\ row.attempts = jobs[j].attempts
    BY <1>1 DEF Row
  <2> HIDE DEF row
  <2>3. jobs'[j] = row /\ Others({j})
    BY <1>1, <2>1 DEF Others
  <2>4. ~BecomesDue(j) \/ jobs'[j].lease = jobs[j].lease
    BY <1>1, <1>2, <2>1, <2>3 DEF LeaseExpires, BecomesDue, Row
  <2> QED
    BY <2>2, <2>3, <2>4
<1>3. CASE BecomesDue(j)
  <2> DEFINE row == [jobs[j] EXCEPT !.due = TRUE]
  <2>1. jobs' = [jobs EXCEPT ![j] = row]
    BY <1>3 DEF BecomesDue
  <2>2. /\ row.state = jobs[j].state /\ row.runner = jobs[j].runner /\ row.error = jobs[j].error
        /\ row.lease = jobs[j].lease /\ row.attempts = jobs[j].attempts
    BY <1>1 DEF Row
  <2> HIDE DEF row
  <2>3. jobs'[j] = row /\ Others({j})
    BY <1>1, <2>1 DEF Others
  <2> QED
    BY <1>1, <2>2, <2>3 DEF LeaseExpires, BecomesDue, Row
<1> QED
  BY <1>2, <1>3

-----------------------------------------------------------------------------
(* The table implements LeasedWork.  Every operation changes the phases of *)
(* a set of rows to one new phase and their holders to one new holder, so  *)
(* each step below names that set and shows what becomes of a single row.  *)

\* phaseOf and holderOf, for one row.
PhaseOf(row) ==
    CASE row.state = "absent"     -> "unborn"
      [] row.state = "pending"    -> "open"
      [] row.state = "processing" -> IF row.lease = "expired" THEN "open" ELSE "held"
      [] row.state = "succeeded"  -> "completed"
      [] row.state = "failed"     -> "dropped"
      [] row.state = "deleted"    -> "purged"

HolderOf(row) == IF PhaseOf(row) = "held" THEN row.runner ELSE NoRunner

\* The mapped variables and their next values, row by row.
LEMMA PhasesByRow ==
  /\ phaseOf = [j \in Jobs |-> PhaseOf(jobs[j])]
  /\ holderOf = [j \in Jobs |-> HolderOf(jobs[j])]
  /\ phaseOf' = [j \in Jobs |-> PhaseOf(jobs'[j])]
  /\ holderOf' = [j \in Jobs |-> HolderOf(jobs'[j])]
  BY DEF phaseOf, holderOf, PhaseOf, HolderOf

\* The phase of a row whose state is known.
LEMMA PhaseOfState ==
  ASSUME NEW row
  PROVE  /\ row.state = "absent" => PhaseOf(row) = "unborn"
         /\ row.state = "pending" => PhaseOf(row) = "open"
         /\ row.state = "processing" /\ row.lease = "expired" => PhaseOf(row) = "open"
         /\ row.state = "processing" /\ row.lease # "expired" => PhaseOf(row) = "held"
         /\ row.state = "succeeded" => PhaseOf(row) = "completed"
         /\ row.state = "failed" => PhaseOf(row) = "dropped"
         /\ row.state = "deleted" => PhaseOf(row) = "purged"
  BY DEF PhaseOf

\* The rows of S, and no others, take phase p and holder h.
MoveRows(S, p, h) ==
    /\ \A j \in S : PhaseOf(jobs'[j]) = p /\ HolderOf(jobs'[j]) = h
    /\ \A j \in Jobs \ S : PhaseOf(jobs'[j]) = PhaseOf(jobs[j])
                        /\ HolderOf(jobs'[j]) = HolderOf(jobs[j])

\* The same of the mapped variables, in the form the actions of LeasedWork have.
MoveTo(S, p, h) ==
    /\ phaseOf'  = [j \in Jobs |-> IF j \in S THEN p ELSE phaseOf[j]]
    /\ holderOf' = [j \in Jobs |-> IF j \in S THEN h ELSE holderOf[j]]

\* Moving rows moves the mapped variables.
LEMMA Moves ==
  ASSUME NEW S \in SUBSET Jobs, NEW p, NEW h, MoveRows(S, p, h)
  PROVE  MoveTo(S, p, h)
<1> HIDE DEF PhaseOf, HolderOf
<1> QED
  BY PhasesByRow DEF MoveRows, MoveTo

\* The table starts as LeasedWork does.
LEMMA InitImplements == Init => Abstract!Init
<1> SUFFICES ASSUME Init PROVE phaseOf = [j \in Jobs |-> "unborn"]
                            /\ holderOf = [j \in Jobs |-> NoRunner]
  BY DEF Abstract!Init
<1>1. \A j \in Jobs : PhaseOf(jobs[j]) = "unborn"
  BY PhaseOfState DEF Init, Unborn
<1> QED
  BY <1>1, PhasesByRow DEF HolderOf

\* Every step of the table is a step of LeasedWork, or leaves its variables alone.
LEMMA NextImplements == IInv /\ [QueueStep]_jobs => [Abstract!Next]_(Abstract!workVars)
<1> SUFFICES ASSUME IInv, [QueueStep]_jobs PROVE [Abstract!Next]_(Abstract!workVars)
  OBVIOUS
<1>t. /\ jobs \in [Jobs -> Row] /\ \A j \in Jobs : jobs[j] \in Row
      /\ \A j \in Jobs : jobs[j].state = "processing" <=> jobs[j].lease # "none"
      /\ \A j \in Jobs : jobs[j].lease \in Leases
  BY DEF IInv, QueueInv, TypeOK, OwnershipIsConsistent, Row
<1>u. \A j \in Jobs : Unowned(jobs[j]) \in Row /\ Unowned(jobs[j]).state = jobs[j].state
  BY <1>t, UnownedType
<1> HIDE DEF Unowned
<1>p. \A j \in Jobs : phaseOf[j] = PhaseOf(jobs[j]) /\ holderOf[j] = HolderOf(jobs[j])
  BY PhasesByRow
<1>f. \A q, j : /\ [phaseOf EXCEPT ![j] = q]
                     = [k \in Jobs |-> IF k \in {j} THEN q ELSE phaseOf[k]]
                /\ [holderOf EXCEPT ![j] = q]
                     = [k \in Jobs |-> IF k \in {j} THEN q ELSE holderOf[k]]
  BY PhasesByRow
<1>1. ASSUME NEW j \in Jobs, Enqueue(j) PROVE Abstract!Submit(j)
  <2>1. /\ jobs[j].state = "absent" /\ jobs'[j].state = "pending"
        /\ \A k \in Jobs \ {j} : jobs'[k] = jobs[k]
    BY <1>1, <1>t DEF Enqueue, Unborn
  <2>2. /\ PhaseOf(jobs[j]) = "unborn" /\ HolderOf(jobs[j]) = NoRunner
        /\ PhaseOf(jobs'[j]) = "open" /\ HolderOf(jobs'[j]) = NoRunner
    BY <2>1, PhaseOfState DEF HolderOf
  <2> HIDE DEF PhaseOf, HolderOf
  <2>3. MoveRows({j}, "open", NoRunner)
    BY <2>1, <2>2 DEF MoveRows
  <2>4. MoveTo({j}, "open", NoRunner)
    BY <2>3, Moves, Zenon
  <2> QED
    BY <1>f, <1>p, <2>2, <2>4, PhasesByRow DEF Abstract!Submit, MoveTo
<1>2. ASSUME NEW j \in Jobs, DeleteFinished(j) PROVE Abstract!Purge(j)
  <2>1. /\ jobs[j].state \in {"succeeded", "failed"} /\ jobs'[j].state = "deleted"
        /\ \A k \in Jobs \ {j} : jobs'[k] = jobs[k]
    BY <1>2, <1>t DEF DeleteFinished, Unborn
  <2>2. /\ PhaseOf(jobs[j]) \in {"completed", "dropped"} /\ HolderOf(jobs[j]) = NoRunner
        /\ PhaseOf(jobs'[j]) = "purged" /\ HolderOf(jobs'[j]) = NoRunner
    BY <2>1, PhaseOfState DEF HolderOf
  <2> HIDE DEF PhaseOf, HolderOf
  <2>3. MoveRows({j}, "purged", NoRunner)
    BY <2>1, <2>2 DEF MoveRows
  <2>4. MoveTo({j}, "purged", NoRunner)
    BY <2>3, Moves, Zenon
  <2> QED
    BY <1>f, <1>p, <2>2, <2>4, PhasesByRow DEF Abstract!Purge, MoveTo
<1>3. ASSUME NEW j \in Jobs, LeaseExpires(j) PROVE Abstract!Return({j})
  <2>1. /\ jobs[j].state = "processing" /\ jobs[j].lease = "live"
        /\ jobs'[j].state = "processing" /\ jobs'[j].lease = "expired"
        /\ \A k \in Jobs \ {j} : jobs'[k] = jobs[k]
    BY <1>3, <1>t DEF LeaseExpires, Row
  <2>2. /\ PhaseOf(jobs[j]) = "held"
        /\ PhaseOf(jobs'[j]) = "open" /\ HolderOf(jobs'[j]) = NoRunner
    BY <2>1, PhaseOfState DEF HolderOf
  <2> HIDE DEF PhaseOf, HolderOf
  <2>3. MoveRows({j}, "open", NoRunner)
    BY <2>1, <2>2 DEF MoveRows
  <2>4. MoveTo({j}, "open", NoRunner)
    BY <2>3, Moves, Zenon
  <2> QED
    BY <1>p, <2>2, <2>4 DEF Abstract!Return, MoveTo
<1>4. ASSUME NEW j \in Jobs, BecomesDue(j) PROVE UNCHANGED Abstract!workVars
  <2>1. \A k \in Jobs : /\ jobs'[k].state = jobs[k].state /\ jobs'[k].lease = jobs[k].lease
                        /\ jobs'[k].runner = jobs[k].runner
    BY <1>4, <1>t DEF BecomesDue, Row
  <2>2. \A k \in Jobs : PhaseOf(jobs'[k]) = PhaseOf(jobs[k])
                     /\ HolderOf(jobs'[k]) = HolderOf(jobs[k])
    BY <2>1 DEF PhaseOf, HolderOf
  <2> HIDE DEF PhaseOf, HolderOf
  <2> QED
    BY <2>2, PhasesByRow DEF Abstract!workVars
<1>5. ASSUME NEW j \in Jobs, NEW r \in Runners, Acquire(j, r) PROVE Abstract!Take({j}, r)
  <2>1. /\ \/ jobs[j].state = "pending"
           \/ jobs[j].state = "processing" /\ jobs[j].lease = "expired"
        /\ jobs'[j].state = "processing" /\ jobs'[j].lease = "live" /\ jobs'[j].runner = r
        /\ \A k \in Jobs \ {j} : jobs'[k] = jobs[k]
    <3> HIDE DEF CountAttempt
    <3> QED
      BY <1>5, <1>t DEF Acquire, Open, Row, Leases
  <2>2. /\ PhaseOf(jobs[j]) = "open"
        /\ PhaseOf(jobs'[j]) = "held" /\ HolderOf(jobs'[j]) = r
    BY <2>1, PhaseOfState DEF HolderOf
  <2> HIDE DEF PhaseOf, HolderOf
  <2>3. MoveRows({j}, "held", r)
    BY <2>1, <2>2 DEF MoveRows
  <2>4. MoveTo({j}, "held", r)
    BY <2>3, Moves, Zenon
  <2> QED
    BY <1>p, <2>2, <2>4 DEF Abstract!Take, MoveTo
<1>6. ASSUME NEW j \in Jobs, NEW r \in Runners, Complete(j, r) PROVE Abstract!Complete(j)
  <2>1. /\ jobs[j].state = "processing" /\ jobs[j].lease # "expired"
        /\ jobs'[j].state = "succeeded"
        /\ \A k \in Jobs \ {j} : jobs'[k] = jobs[k]
    BY <1>6, <1>t, <1>u DEF Complete, HeldBy, Row
  <2>2. /\ PhaseOf(jobs[j]) = "held"
        /\ PhaseOf(jobs'[j]) = "completed" /\ HolderOf(jobs'[j]) = NoRunner
    BY <2>1, PhaseOfState DEF HolderOf
  <2> HIDE DEF PhaseOf, HolderOf
  <2>3. MoveRows({j}, "completed", NoRunner)
    BY <2>1, <2>2 DEF MoveRows
  <2>4. MoveTo({j}, "completed", NoRunner)
    BY <2>3, Moves, Zenon
  <2> QED
    BY <1>f, <1>p, <2>2, <2>4, PhasesByRow DEF Abstract!Complete, MoveTo
<1>7. ASSUME NEW j \in Jobs, NEW r \in Runners, NEW error, NEW retryNow,
             Fail(j, r, error, retryNow)
      PROVE  Abstract!Return({j}) \/ Abstract!Drop({j})
  <2>1. /\ jobs[j].state = "processing" /\ jobs[j].lease # "expired"
        /\ jobs'[j].state \in {"pending", "failed"}
        /\ \A k \in Jobs \ {j} : jobs'[k] = jobs[k]
    BY <1>7, <1>t, <1>u DEF Fail, HeldBy, Row
  <2>2. PhaseOf(jobs[j]) = "held" /\ phaseOf[j] = "held"
    BY <1>p, <2>1, PhaseOfState
  <2>3. CASE jobs'[j].state = "pending"
    <3>1. PhaseOf(jobs'[j]) = "open" /\ HolderOf(jobs'[j]) = NoRunner
      BY <2>3, PhaseOfState DEF HolderOf
    <3> HIDE DEF PhaseOf, HolderOf
    <3>2. MoveRows({j}, "open", NoRunner)
      BY <2>1, <3>1 DEF MoveRows
    <3>3. MoveTo({j}, "open", NoRunner)
      BY <3>2, Moves, Zenon
    <3> QED
      BY <2>2, <3>3 DEF Abstract!Return, MoveTo
  <2>4. CASE jobs'[j].state = "failed"
    <3>1. PhaseOf(jobs'[j]) = "dropped" /\ HolderOf(jobs'[j]) = NoRunner
      BY <2>4, PhaseOfState DEF HolderOf
    <3> HIDE DEF PhaseOf, HolderOf
    <3>2. MoveRows({j}, "dropped", NoRunner)
      BY <2>1, <3>1 DEF MoveRows
    <3>3. MoveTo({j}, "dropped", NoRunner)
      BY <3>2, Moves, Zenon
    <3> QED
      BY <2>2, <3>3 DEF Abstract!Drop, MoveTo
  <2> QED
    BY <2>1, <2>3, <2>4
<1>8. ASSUME NEW r \in Runners, NEW S, Heartbeat(S, r)
      PROVE  \E T \in SUBSET Jobs : Abstract!Take(T, r)
  <2> DEFINE T == {j \in Jobs : /\ j \in S /\ jobs[j].state = "processing"
                                /\ jobs[j].runner = r /\ jobs[j].lease = "expired"}
  <2>1. \A j \in T : /\ jobs[j].state = "processing" /\ jobs[j].lease = "expired"
                     /\ jobs'[j].state = "processing" /\ jobs'[j].lease = "live"
                     /\ jobs'[j].runner = r
    BY <1>8, <1>t DEF Heartbeat, Row
  <2>2. \A j \in Jobs \ T :
           \/ jobs'[j] = jobs[j]
           \/ /\ jobs[j].state = "processing" /\ jobs[j].lease # "expired"
              /\ jobs'[j].state = "processing" /\ jobs'[j].lease # "expired"
              /\ jobs'[j].runner = jobs[j].runner
    BY <1>8, <1>t DEF Heartbeat, Row
  <2>3. T \in SUBSET Jobs
    OBVIOUS
  <2> HIDE DEF T
  <2>4. \A j \in T : /\ PhaseOf(jobs[j]) = "open"
                     /\ PhaseOf(jobs'[j]) = "held" /\ HolderOf(jobs'[j]) = r
    BY <2>1, PhaseOfState DEF HolderOf
  <2>5. \A j \in Jobs \ T : /\ PhaseOf(jobs'[j]) = PhaseOf(jobs[j])
                            /\ HolderOf(jobs'[j]) = HolderOf(jobs[j])
    <3> TAKE j \in Jobs \ T
    <3>1. CASE jobs'[j] = jobs[j]
      BY <3>1, Zenon
    <3>2. CASE /\ jobs[j].state = "processing" /\ jobs[j].lease # "expired"
               /\ jobs'[j].state = "processing" /\ jobs'[j].lease # "expired"
               /\ jobs'[j].runner = jobs[j].runner
      BY <3>2, PhaseOfState DEF HolderOf
    <3> QED
      BY <2>2, <3>1, <3>2
  <2> HIDE DEF PhaseOf, HolderOf
  <2>6. MoveRows(T, "held", r)
    BY <2>4, <2>5 DEF MoveRows
  <2>7. MoveTo(T, "held", r)
    BY <2>3, <2>6, Moves, Zenon
  <2>8. Abstract!Take(T, r)
    BY <1>p, <2>3, <2>4, <2>7 DEF Abstract!Take, MoveTo
  <2> QED
    BY <2>3, <2>8
<1>9. ASSUME NEW r \in Runners, ReleaseRunnerJobs(r)
      PROVE  \E T \in SUBSET Jobs : Abstract!Return(T)
  <2> DEFINE T == {j \in Jobs : /\ jobs[j].state = "processing" /\ jobs[j].runner = r
                                /\ jobs[j].lease # "expired"}
  <2>1. \A j \in T : /\ jobs[j].state = "processing" /\ jobs[j].lease # "expired"
                     /\ jobs'[j].state = "pending"
    BY <1>9, <1>t, <1>u DEF ReleaseRunnerJobs, Row
  <2>2. \A j \in Jobs \ T :
           \/ jobs'[j] = jobs[j]
           \/ /\ jobs[j].state = "processing" /\ jobs[j].lease = "expired"
              /\ jobs'[j].state = "pending"
    BY <1>9, <1>t, <1>u DEF ReleaseRunnerJobs, Row
  <2>3. T \in SUBSET Jobs
    OBVIOUS
  <2> HIDE DEF T
  <2>4. \A j \in T : /\ PhaseOf(jobs[j]) = "held"
                     /\ PhaseOf(jobs'[j]) = "open" /\ HolderOf(jobs'[j]) = NoRunner
    BY <2>1, PhaseOfState DEF HolderOf
  <2>5. \A j \in Jobs \ T : /\ PhaseOf(jobs'[j]) = PhaseOf(jobs[j])
                            /\ HolderOf(jobs'[j]) = HolderOf(jobs[j])
    <3> TAKE j \in Jobs \ T
    <3>1. CASE jobs'[j] = jobs[j]
      BY <3>1, Zenon
    <3>2. CASE /\ jobs[j].state = "processing" /\ jobs[j].lease = "expired"
               /\ jobs'[j].state = "pending"
      BY <3>2, PhaseOfState DEF HolderOf
    <3> QED
      BY <2>2, <3>1, <3>2
  <2> HIDE DEF PhaseOf, HolderOf
  <2>6. MoveRows(T, "open", NoRunner)
    BY <2>4, <2>5 DEF MoveRows
  <2>7. MoveTo(T, "open", NoRunner)
    BY <2>3, <2>6, Moves, Zenon
  <2>8. Abstract!Return(T)
    BY <1>p, <2>3, <2>4, <2>7 DEF Abstract!Return, MoveTo
  <2> QED
    BY <2>3, <2>8
<1>10. ASSUME NEW S, CancelFileJobs(S)
       PROVE  \E T \in SUBSET Jobs : Abstract!Drop(T)
  <2> DEFINE T == {j \in Jobs : j \in S /\ jobs[j].state \in {"pending", "processing"}}
  <2>1. \A j \in T : jobs[j].state \in {"pending", "processing"} /\ jobs'[j].state = "failed"
    BY <1>10, <1>t, <1>u DEF CancelFileJobs, Row
  <2>2. \A j \in Jobs \ T : jobs'[j] = jobs[j]
    BY <1>10, <1>t DEF CancelFileJobs
  <2>3. T \in SUBSET Jobs
    OBVIOUS
  <2> HIDE DEF T
  <2>4. \A j \in T : /\ PhaseOf(jobs[j]) \in {"open", "held"}
                     /\ PhaseOf(jobs'[j]) = "dropped" /\ HolderOf(jobs'[j]) = NoRunner
    BY <2>1, PhaseOfState DEF HolderOf
  <2> HIDE DEF PhaseOf, HolderOf
  <2>5. MoveRows(T, "dropped", NoRunner)
    BY <2>2, <2>4 DEF MoveRows
  <2>6. MoveTo(T, "dropped", NoRunner)
    BY <2>3, <2>5, Moves, Zenon
  <2>7. Abstract!Drop(T)
    BY <1>p, <2>3, <2>4, <2>6 DEF Abstract!Drop, MoveTo
  <2> QED
    BY <2>3, <2>7
<1>11. CASE UNCHANGED jobs
  BY <1>11 DEF Abstract!workVars, phaseOf, holderOf
<1>12. \A j \in Jobs : {j} \in SUBSET Jobs
  OBVIOUS
<1> QED
  BY <1>1, <1>2, <1>3, <1>4, <1>5, <1>6, <1>7, <1>8, <1>9, <1>10, <1>11, <1>12, Zenon
  DEF QueueStep, Abstract!Next

\* The job table implements the work queue it promises to be: no row is held twice,
\* and none leaves "completed" or "dropped".
THEOREM QueueImplementsLeasedWork == QueueSpec => ImplementsLeasedWork
<1>1. IInv /\ [QueueStep]_jobs => [Abstract!Next]_(Abstract!workVars)
  BY NextImplements
<1>2. Init => Abstract!Init
  BY InitImplements
<1> QED
  BY <1>1, <1>2, IInvHolds, PTL DEF QueueSpec, ImplementsLeasedWork, Abstract!Spec
=============================================================================
