------------------------------ MODULE JobQueue ------------------------------
(***************************************************************************)
(* The __jobs table of the master database and the operations of           *)
(* rust-api/src/job_queue.rs on it.  Every operation is one guarded UPDATE *)
(* (fail: one transaction), so every operation is one action.              *)
(*                                                                         *)
(* Time.  The code only ever compares lease_expires_at and available_at    *)
(* with NOW(), so the row keeps the outcome of the comparison: lease is    *)
(* "none" (NULL), "live" or "expired", and due says available_at <= NOW(). *)
(* LeaseExpires and BecomesDue are the passing of time; lease lengths      *)
(* (5..900 s) and retry delays (0..24 h) are arbitrary.                    *)
(*                                                                         *)
(* attempts is compared with max_attempts only, so it saturates one above  *)
(* it: the state space is finite without bounding the history.             *)
(***************************************************************************)
EXTENDS Integers

CONSTANTS
    Jobs,         \* row ids; BIGSERIAL never hands one out twice
    Runners,      \* values of acquired_by_runner_id
    NoRunner,     \* NULL in acquired_by_runner_id
    MaxAttempts,  \* max_attempts of each row
    FileJobs      \* the sets of rows that one project file's payloads name

ASSUME QueueAssumption ==
    /\ NoRunner \notin Runners
    /\ MaxAttempts \in [Jobs -> 1..20]
    /\ FileJobs \subseteq SUBSET Jobs

VARIABLE jobs     \* [Jobs -> Row]

States  == {"absent", "pending", "processing", "succeeded", "failed", "deleted"}
Leases  == {"none", "live", "expired"}
Errors  == {"none", "reported", "unprepared", "project_file_deleted"}

Row == [state    : States,
        attempts : Nat,
        runner   : Runners \cup {NoRunner},
        lease    : Leases,
        due      : BOOLEAN,
        error    : Errors]

Unborn == [state |-> "absent", attempts |-> 0, runner |-> NoRunner,
           lease |-> "none", due |-> FALSE, error |-> "none"]

Init == jobs = [j \in Jobs |-> Unborn]

\* Mutant: the lease outlives its owner.
KeepLease(row) == [row EXCEPT !.runner = NoRunner]

\* The columns complete, fail, release and cancel all reset.
Unowned(row) == [row EXCEPT !.runner = NoRunner, !.lease = "none"]

\* Mutant: the attempts left are counted down from 0.
CountDown(j) == jobs[j].attempts - 1

CountAttempt(j) ==
    IF jobs[j].attempts > MaxAttempts[j] THEN jobs[j].attempts
                                         ELSE jobs[j].attempts + 1

\* Mutant: a job is open whoever has a lease on it.
OpenDespiteLease(j) == jobs[j].due /\ jobs[j].state \in {"pending", "processing"}

\* Mutant: a job whose runner died is never offered again.
OpenIfPending(j) == jobs[j].due /\ jobs[j].state = "pending"

\* The WHERE clause list_open and acquire share.
Open(j) ==
    /\ jobs[j].due
    /\ \/ jobs[j].state = "pending"
       \/ jobs[j].state = "processing" /\ jobs[j].lease # "live"

\* Mutant: the lease is not checked when a runner reports.
HeldWithoutLease(j, r) == jobs[j].state = "processing" /\ jobs[j].runner = r

\* Mutant: any runner may report.
HeldByAnyone(j, r) == jobs[j].state = "processing" /\ jobs[j].lease # "expired"

\* The WHERE clause complete and fail share.
HeldBy(j, r) ==
    /\ jobs[j].state = "processing"
    /\ jobs[j].runner = r
    /\ jobs[j].lease # "expired"

-----------------------------------------------------------------------------
(* Operations                                                              *)

Enqueue(j) ==
    /\ jobs[j].state = "absent"
    /\ jobs' = [jobs EXCEPT ![j] = [Unborn EXCEPT !.state = "pending", !.due = TRUE]]

\* Neither attempts nor the former owner is part of the guard: an abandoned job
\* is taken over even when its attempts already reached max_attempts.
Acquire(j, r) ==
    /\ Open(j)
    /\ jobs' = [jobs EXCEPT ![j] = [@ EXCEPT !.state = "processing",
                                             !.attempts = CountAttempt(j),
                                             !.runner = r,
                                             !.lease = "live"]]

\* The lease is not part of the guard: a heartbeat revives an expired lease that
\* nobody has taken over.  S is one job, or all of them when no jobId is given.
Heartbeat(S, r) ==
    jobs' = [j \in Jobs |->
                IF j \in S /\ jobs[j].state = "processing" /\ jobs[j].runner = r
                THEN [jobs[j] EXCEPT !.lease = "live"]
                ELSE jobs[j]]

Complete(j, r) ==
    /\ HeldBy(j, r)
    /\ jobs' = [jobs EXCEPT ![j] = [Unowned(@) EXCEPT !.state = "succeeded"]]

\* Mutant: the last attempt is never made.
FailOneEarly(j, r, error, retryNow) ==
    /\ HeldBy(j, r)
    /\ LET retry == jobs[j].attempts + 1 < MaxAttempts[j]
       IN  jobs' = [jobs EXCEPT ![j] =
                      [Unowned(@) EXCEPT !.state = IF retry THEN "pending" ELSE "failed",
                                         !.due   = retry => retryNow,
                                         !.error = error]]

\* error becomes last_error; with retryNow, retry_after_seconds is 0 and the job is
\* due again at once.
Fail(j, r, error, retryNow) ==
    /\ HeldBy(j, r)
    /\ LET retry == jobs[j].attempts < MaxAttempts[j]
       IN  jobs' = [jobs EXCEPT ![j] =
                      [Unowned(@) EXCEPT !.state = IF retry THEN "pending" ELSE "failed",
                                         !.due   = retry => retryNow,
                                         !.error = error]]

\* Mutant: a released job gets its attempt back.
ReleaseReturningAttempt(r) ==
    jobs' = [j \in Jobs |->
                IF jobs[j].state = "processing" /\ jobs[j].runner = r
                THEN [Unowned(jobs[j]) EXCEPT !.state = "pending", !.due = TRUE,
                                              !.attempts = @ - 1]
                ELSE jobs[j]]

\* Keyed on the runner's identity, whatever connection acquired the job.
ReleaseRunnerJobs(r) ==
    jobs' = [j \in Jobs |->
                IF jobs[j].state = "processing" /\ jobs[j].runner = r
                THEN [Unowned(jobs[j]) EXCEPT !.state = "pending", !.due = TRUE]
                ELSE jobs[j]]

\* Mutant: finished jobs are cancelled too.
CancelFinishedToo(S) ==
    jobs' = [j \in Jobs |->
                IF j \in S /\ jobs[j].state \notin {"absent", "deleted"}
                THEN [Unowned(jobs[j]) EXCEPT !.state = "failed",
                                              !.error = "project_file_deleted"]
                ELSE jobs[j]]

CancelFileJobs(S) ==
    jobs' = [j \in Jobs |->
                IF j \in S /\ jobs[j].state \in {"pending", "processing"}
                THEN [Unowned(jobs[j]) EXCEPT !.state = "failed",
                                              !.error = "project_file_deleted"]
                ELSE jobs[j]]

DeleteFinished(j) ==
    /\ jobs[j].state \in {"succeeded", "failed"}
    /\ jobs' = [jobs EXCEPT ![j] = [Unborn EXCEPT !.state = "deleted"]]

LeaseExpires(j) ==
    /\ jobs[j].lease = "live"
    /\ jobs' = [jobs EXCEPT ![j].lease = "expired"]

BecomesDue(j) ==
    /\ jobs[j].state \in {"pending", "failed"}
    /\ ~jobs[j].due
    /\ jobs' = [jobs EXCEPT ![j].due = TRUE]

-----------------------------------------------------------------------------
(* The table under any number of runners, none of which can be trusted to  *)
(* call only for the jobs it believes it holds.                            *)

QueueStep ==
    \/ \E j \in Jobs : Enqueue(j) \/ DeleteFinished(j) \/ LeaseExpires(j) \/ BecomesDue(j)
    \/ \E j \in Jobs, r \in Runners :
          \/ Acquire(j, r)
          \/ Complete(j, r)
          \/ \E error \in {"reported", "unprepared"}, retryNow \in BOOLEAN :
                Fail(j, r, error, retryNow)
    \/ \E r \in Runners :
          \/ \E S \in {{j} : j \in Jobs} \cup {Jobs} : Heartbeat(S, r)
          \/ ReleaseRunnerJobs(r)
    \/ \E S \in FileJobs : CancelFileJobs(S)

QueueSpec == Init /\ [][QueueStep]_jobs

-----------------------------------------------------------------------------
(* Properties                                                              *)

TypeOK == jobs \in [Jobs -> Row]

\* Ownership is all or nothing: a row names a runner and carries a lease exactly
\* while it is processing, so no operation can leave a job that looks owned to
\* heartbeat and release but unowned to acquire (job_queue.rs: every UPDATE that
\* leaves 'processing' resets three columns, and none is checked by the schema).
OwnershipIsConsistent ==
    \A j \in Jobs :
        /\ jobs[j].state = "processing" <=> jobs[j].runner # NoRunner
        /\ jobs[j].state = "processing" <=> jobs[j].lease # "none"

\* A job the queue gave up was either withdrawn with its file or has used up its
\* attempts -- also when attempts were spent by lapsed leases and closed sockets.
FailedJobsAreExhausted ==
    \A j \in Jobs :
        jobs[j].state = "failed" /\ jobs[j].error # "project_file_deleted"
            => jobs[j].attempts >= MaxAttempts[j]

QueueInv ==
    /\ TypeOK
    /\ OwnershipIsConsistent
    /\ FailedJobsAreExhausted

\* While a lease is live nobody but its owner can be in possession: the row keeps
\* its owner or loses it, it never passes to another runner in one step.
NoTakeoverOfLiveLease ==
    [][\A j \in Jobs : jobs[j].lease = "live"
          => jobs'[j].runner \in {jobs[j].runner, NoRunner}]_jobs

\* A finished job stays finished, whatever late heartbeat, report, release or
\* cancellation still arrives for it.
FinishedIsFinal ==
    [][\A j \in Jobs : jobs[j].state \in {"succeeded", "failed", "deleted"}
          => jobs'[j].state \in {jobs[j].state, "deleted"}]_jobs

\* An attempt is never given back: not by releasing the runner's jobs, not by a
\* retry.  (Only the deletion of the row forgets it.)
AttemptsNeverReturned ==
    [][\A j \in Jobs : jobs'[j].state # "deleted"
          => jobs'[j].attempts >= jobs[j].attempts]_jobs

-----------------------------------------------------------------------------
(* The queue implements LeasedWork: a job whose lease has lapsed counts as *)
(* open, since anyone may take it and its owner cannot report on it.       *)

phaseOf == [j \in Jobs |->
    CASE jobs[j].state = "absent"     -> "unborn"
      [] jobs[j].state = "pending"    -> "open"
      [] jobs[j].state = "processing" -> IF jobs[j].lease = "expired" THEN "open" ELSE "held"
      [] jobs[j].state = "succeeded"  -> "completed"
      [] jobs[j].state = "failed"     -> "dropped"
      [] jobs[j].state = "deleted"    -> "purged"]

holderOf == [j \in Jobs |->
    IF phaseOf[j] = "held" THEN jobs[j].runner ELSE NoRunner]

Abstract == INSTANCE LeasedWork WITH phase <- phaseOf, holder <- holderOf

ImplementsLeasedWork == Abstract!Spec
=============================================================================
