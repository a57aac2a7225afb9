----------------------------- MODULE JobRunners -----------------------------
(***************************************************************************)
(* The job table together with the processes that use it for thumbnails:   *)
(*   - the WebSocket handler of the API (rust-api/src/job_runners.rs), one *)
(*     sequential task per connection, with its context.acquired_jobs;     *)
(*   - the media hooks (job_runner_media.rs): thumbnail_status of the      *)
(*     project file, in the tenant's database, updated by id alone;        *)
(*   - the Go runner (sortsys-v2-job_runner/internal/runner), which works  *)
(*     on one job at a time and keeps its runner id across connections;    *)
(*   - the procedures that create and withdraw the jobs                    *)
(*     (procedures/project_files.rs).                                      *)
(* The queue is in the master database and the media state in the tenant   *)
(* database, so a handler that touches both takes two steps; anything may  *)
(* happen between them.                                                    *)
(*                                                                         *)
(* What may go wrong (a lost connection, a dead API process, a failing     *)
(* tenant database, a heartbeat that comes too late) draws on a budget of  *)
(* MaxFaults; a job that fails or cannot be prepared does not.             *)
(***************************************************************************)
EXTENDS JobQueue, Sequences

CONSTANTS
    Files,       \* project files with a thumbnail
    FileOf,      \* the file each job is for
    Conns,       \* connections the API serves at the same time
    NoConn,
    NoJob,
    MaxFaults

ASSUME RunnersAssumption ==
    /\ FileOf \in [Jobs -> Files]
    /\ FileJobs = {{j \in Jobs : FileOf[j] = f} : f \in Files}
    /\ NoConn \notin Conns
    /\ NoJob \notin Jobs
    /\ MaxFaults \in Nat

VARIABLES
    thumb,       \* [Files -> Thumb]: thumbnail_status, or "gone" without a row
    procs,       \* [Files -> SUBSET Procs]: half-finished procedure calls
    runner,      \* [Runners -> RunnerState]: the Go processes
    conn,        \* [Conns -> ConnState]: the sockets and their contexts
    faults       \* faults so far

vars == <<jobs, thumb, procs, runner, conn, faults>>

Thumb == {"none", "queued", "processing", "ready", "failed", "gone"}
Procs == {"complete_upload", "delete"}

RunnerState == [phase : {"offline", "idle", "acquiring", "working", "reporting"},
                conn  : Conns \cup {NoConn},
                job   : Jobs \cup {NoJob}]

Message == [kind : {"acquire", "heartbeat", "complete", "fail"}, job : Jobs]

\* step is the handler's position between two awaits that change state: "serving"
\* waits for the next message, "free" is no connection at all.  held is acquired_jobs,
\* reset the part of it that the loop of release_socket_jobs has been through.
Steps == {"free", "serving", "acquired", "unprepared", "completed",
          "requeued", "failed", "closing"}

ConnState == [runner : Runners \cup {NoRunner},
              up     : BOOLEAN,
              inbox  : Seq(Message),
              held   : SUBSET Jobs,
              reset  : SUBSET Jobs,
              step   : Steps,
              job    : Jobs \cup {NoJob}]

Free    == [runner |-> NoRunner, up |-> FALSE, inbox |-> <<>>, held |-> {},
            reset |-> {}, step |-> "free", job |-> NoJob]
Offline == [phase |-> "offline", conn |-> NoConn, job |-> NoJob]

RInit ==
    /\ Init
    /\ thumb  = [f \in Files |-> "none"]
    /\ procs  = [f \in Files |-> {}]
    /\ runner = [r \in Runners |-> Offline]
    /\ conn   = [c \in Conns |-> Free]
    /\ faults = 0

Fault == faults < MaxFaults /\ faults' = faults + 1

\* UPDATE project_files ... WHERE id: nothing happens to a deleted file.
SetThumb(f, status) ==
    thumb' = [thumb EXCEPT ![f] = IF @ = "gone" THEN @ ELSE status]

\* A media hook that may fail: the status is written, or the hook returns an error.
TryThumb(f, status, ok) ==
    \/ ok /\ SetThumb(f, status) /\ UNCHANGED faults
    \/ ~ok /\ Fault /\ UNCHANGED thumb

-----------------------------------------------------------------------------
(* Procedures: complete_upload and delete of project_files.rs              *)

CompleteUpload(f) ==
    /\ thumb[f] # "gone"
    /\ "complete_upload" \notin procs[f]
    /\ \E j \in Jobs : FileOf[j] = f /\ jobs[j].state = "absent"    \* |Jobs| bounds the calls
    /\ SetThumb(f, "queued")
    /\ procs' = [procs EXCEPT ![f] = @ \cup {"complete_upload"}]
    /\ UNCHANGED <<jobs, runner, conn, faults>>

EnqueueThumbnail(f) ==
    /\ "complete_upload" \in procs[f]
    /\ procs' = [procs EXCEPT ![f] = @ \ {"complete_upload"}]
    /\ \/ \E j \in Jobs : FileOf[j] = f /\ Enqueue(j)
          /\ UNCHANGED <<thumb, faults>>
       \/ Fault /\ SetThumb(f, "failed") /\ UNCHANGED jobs     \* the insert failed
       \/ Fault /\ UNCHANGED <<jobs, thumb>>                   \* the API died
    /\ UNCHANGED <<runner, conn>>

DeleteFile(f) ==
    /\ thumb[f] # "gone"
    /\ "delete" \notin procs[f]
    /\ CancelFileJobs({j \in Jobs : FileOf[j] = f})
    /\ procs' = [procs EXCEPT ![f] = @ \cup {"delete"}]
    /\ UNCHANGED <<thumb, runner, conn, faults>>

\* After the objects are gone; an object store that fails leaves the row behind.
DeleteRow(f) ==
    /\ "delete" \in procs[f]
    /\ procs' = [procs EXCEPT ![f] = @ \ {"delete"}]
    /\ \/ thumb' = [thumb EXCEPT ![f] = "gone"] /\ UNCHANGED faults
       \/ Fault /\ UNCHANGED thumb
    /\ UNCHANGED <<jobs, runner, conn>>

-----------------------------------------------------------------------------
(* The Go runner                                                           *)

Connect(r) ==
    /\ runner[r].phase = "offline"
    /\ \E c \in Conns :
          /\ conn[c].step = "free"
          /\ conn'   = [conn EXCEPT ![c] = [Free EXCEPT !.runner = r, !.up = TRUE,
                                                        !.step = "serving"]]
          /\ runner' = [runner EXCEPT ![r] = [phase |-> "idle", conn |-> c, job |-> NoJob]]
    /\ UNCHANGED <<jobs, thumb, procs, faults>>

Send(r, kind, j) ==
    conn' = [conn EXCEPT ![runner[r].conn].inbox = Append(@, [kind |-> kind, job |-> j])]

\* Poll, then try one of the open jobs; by the time the request is served the
\* answer to the poll may be stale.
RequestJob(r, j) ==
    /\ runner[r].phase = "idle"
    /\ Open(j)
    /\ Send(r, "acquire", j)
    /\ runner' = [runner EXCEPT ![r].phase = "acquiring", ![r].job = j]
    /\ UNCHANGED <<jobs, thumb, procs, faults>>

Beats(c, j) == \E i \in DOMAIN conn[c].inbox :
                  conn[c].inbox[i] = [kind |-> "heartbeat", job |-> j]

\* heartbeatLoop: at most one call is outstanding, and it outlives the report.
SendHeartbeat(r) ==
    /\ runner[r].phase \in {"working", "reporting"}
    /\ ~Beats(runner[r].conn, runner[r].job)
    /\ Send(r, "heartbeat", runner[r].job)
    /\ UNCHANGED <<jobs, thumb, procs, runner, faults>>

Report(r, kind) ==
    /\ runner[r].phase = "working"
    /\ Send(r, kind, runner[r].job)
    /\ runner' = [runner EXCEPT ![r].phase = "reporting"]
    /\ UNCHANGED <<jobs, thumb, procs, faults>>

\* The runner learns the outcome of its call, if its end still stands.
Reply(c, phase) ==
    runner' = IF conn[c].up
              THEN [runner EXCEPT ![conn[c].runner].phase = phase,
                                  ![conn[c].runner].job = IF phase = "working" THEN @ ELSE NoJob]
              ELSE runner

-----------------------------------------------------------------------------
(* The WebSocket handler                                                   *)

\* The next message of connection c, if the handler is waiting for one.
Receives(c, kind, j) ==
    /\ conn[c].step = "serving"
    /\ conn[c].inbox # <<>>
    /\ Head(conn[c].inbox) = [kind |-> kind, job |-> j]

Proceed(c, step, j) ==
    conn' = [conn EXCEPT ![c].inbox = Tail(@), ![c].step = step, ![c].job = j]

Done(c, held) ==
    conn' = [conn EXCEPT ![c].step = "serving", ![c].job = NoJob, ![c].held = held]

HandleAcquire(c, j) ==
    /\ Receives(c, "acquire", j)
    /\ \/ /\ Acquire(j, conn[c].runner)
          /\ Proceed(c, "acquired", j)
          /\ UNCHANGED runner
       \/ /\ ~Open(j)
          /\ Proceed(c, "serving", NoJob)
          /\ Reply(c, "idle")
          /\ UNCHANGED jobs
    /\ UNCHANGED <<thumb, procs, faults>>

\* Mutant: the context does not list the job it hands out.
HandOutUnlisted(c, j) ==
    /\ conn[c].step = "acquired" /\ conn[c].job = j
    /\ SetThumb(FileOf[j], "processing")
    /\ Done(c, conn[c].held)
    /\ Reply(c, "working")
    /\ UNCHANGED <<jobs, procs, faults>>

\* prepare succeeded, mark_processing succeeded: the runner gets the job.
HandOut(c, j) ==
    /\ conn[c].step = "acquired" /\ conn[c].job = j
    /\ SetThumb(FileOf[j], "processing")
    /\ Done(c, conn[c].held \cup {j})
    /\ Reply(c, "working")
    /\ UNCHANGED <<jobs, procs, faults>>

\* prepare succeeded, mark_processing failed: `?` returns before the job enters
\* acquired_jobs, and the runner answers the error by closing the connection.
HandOutFails(c, j) ==
    /\ conn[c].step = "acquired" /\ conn[c].job = j
    /\ Fault
    /\ conn' = [conn EXCEPT ![c].step = "serving", ![c].job = NoJob, ![c].up = FALSE]
    /\ runner' = IF conn[c].up THEN [runner EXCEPT ![conn[c].runner] = Offline] ELSE runner
    /\ UNCHANGED <<jobs, thumb, procs>>

\* prepare failed: the attempt is given up, then the media state.  Whether fail found
\* the job, or failed itself, is ignored.
PrepareFails(c, j) ==
    /\ conn[c].step = "acquired" /\ conn[c].job = j
    /\ \/ Fail(j, conn[c].runner, "unprepared", FALSE) /\ UNCHANGED faults
       \/ ~HeldBy(j, conn[c].runner) /\ UNCHANGED <<jobs, faults>>
       \/ Fault /\ UNCHANGED jobs
    /\ conn' = [conn EXCEPT ![c].step = "unprepared"]
    /\ UNCHANGED <<thumb, procs, runner>>

\* mark_failed(.., true, ..) whatever fail decided; its error is ignored.
MarkUnprepared(c, j) ==
    /\ conn[c].step = "unprepared" /\ conn[c].job = j
    /\ \E ok \in BOOLEAN : TryThumb(FileOf[j], "queued", ok)
    /\ Done(c, conn[c].held)
    /\ Reply(c, "idle")
    /\ UNCHANGED <<jobs, procs>>

HandleHeartbeat(c, j) ==
    /\ Receives(c, "heartbeat", j)
    /\ Heartbeat({j}, conn[c].runner)
    /\ Proceed(c, "serving", NoJob)
    /\ UNCHANGED <<thumb, procs, runner, faults>>

\* A report on a job the runner no longer holds is answered by a conflict, which
\* the runner logs; acquired_jobs keeps the job.
Refuse(c, j) ==
    /\ \E kind \in {"complete", "fail"} : Receives(c, kind, j)
    /\ ~HeldBy(j, conn[c].runner)
    /\ Proceed(c, "serving", NoJob)
    /\ Reply(c, "idle")
    /\ UNCHANGED <<jobs, thumb, procs, faults>>

\* Mutant: the outcome of the guarded UPDATE is ignored.
HandleCompleteUnchecked(c, j) ==
    /\ Receives(c, "complete", j)
    /\ \/ Complete(j, conn[c].runner)
       \/ ~HeldBy(j, conn[c].runner) /\ UNCHANGED jobs
    /\ Proceed(c, "completed", j)
    /\ UNCHANGED <<thumb, procs, runner, faults>>

HandleComplete(c, j) ==
    /\ Receives(c, "complete", j)
    /\ Complete(j, conn[c].runner)
    /\ Proceed(c, "completed", j)
    /\ UNCHANGED <<thumb, procs, runner, faults>>

\* The runner's retryAfterSec is at least 5, so a retry is never due at once.
HandleFail(c, j) ==
    /\ Receives(c, "fail", j)
    /\ Fail(j, conn[c].runner, "reported", FALSE)
    /\ Proceed(c, IF jobs'[j].state = "pending" THEN "requeued" ELSE "failed", j)
    /\ UNCHANGED <<thumb, procs, runner, faults>>

\* Mutant: the media state is given the state of the job.
VerdictOfJob(step) == CASE step = "completed" -> "succeeded"
                        [] step = "requeued"  -> "queued"
                        [] step = "failed"    -> "failed"

\* Mutant: every failed report is taken for a retry.
VerdictRetry(step) == IF step = "completed" THEN "ready" ELSE "queued"

Verdict(step) == CASE step = "completed" -> "ready"
                   [] step = "requeued"  -> "queued"
                   [] step = "failed"    -> "failed"

\* The media hook after a report; when it fails the runner is told so, but the job
\* is already finished and stays in acquired_jobs.
FinishReport(c, j) ==
    /\ conn[c].step \in {"completed", "requeued", "failed"} /\ conn[c].job = j
    /\ \E ok \in BOOLEAN :
          /\ TryThumb(FileOf[j], Verdict(conn[c].step), ok)
          /\ Done(c, IF ok THEN conn[c].held \ {j} ELSE conn[c].held)
    /\ Reply(c, "idle")
    /\ UNCHANGED <<jobs, procs>>

\* The master database fails under a message: an error goes back, on which a runner
\* that asked for a job closes the connection and any other carries on.
QueueError(c, kind, j) ==
    /\ Receives(c, kind, j)
    /\ Fault
    /\ conn' = [conn EXCEPT ![c].inbox = Tail(@), ![c].up = @ /\ kind # "acquire"]
    /\ \/ kind = "acquire" /\ conn[c].up /\ runner' = [runner EXCEPT ![conn[c].runner] = Offline]
       \/ kind \in {"complete", "fail"} /\ Reply(c, "idle")
       \/ (kind = "heartbeat" \/ ~conn[c].up) /\ UNCHANGED runner
    /\ UNCHANGED <<jobs, thumb, procs>>

NoticeClose(c) ==
    /\ conn[c].step = "serving" /\ ~conn[c].up /\ conn[c].inbox = <<>>
    /\ conn' = [conn EXCEPT ![c].step = "closing"]
    /\ UNCHANGED <<jobs, thumb, procs, runner, faults>>

\* release_socket_jobs, the loop: mark_failed(.., true, ..) for every acquired job,
\* whoever holds it by now; errors are ignored.
ResetAcquired(c, j) ==
    /\ conn[c].step = "closing" /\ j \in conn[c].held \ conn[c].reset
    /\ \E ok \in BOOLEAN : TryThumb(FileOf[j], "queued", ok)
    /\ conn' = [conn EXCEPT ![c].reset = @ \cup {j}]
    /\ UNCHANGED <<jobs, procs, runner>>

\* release_socket_jobs, after the loop; an error is ignored here too.
ReleaseAndClose(c) ==
    /\ conn[c].step = "closing" /\ conn[c].held \subseteq conn[c].reset
    /\ \/ ReleaseRunnerJobs(conn[c].runner) /\ UNCHANGED faults
       \/ Fault /\ UNCHANGED jobs
    /\ conn' = [conn EXCEPT ![c] = Free]
    /\ UNCHANGED <<thumb, procs, runner>>

Serve(c) ==
    \/ \E j \in Jobs :
          \/ HandleAcquire(c, j)
          \/ HandOut(c, j)
          \/ PrepareFails(c, j)
          \/ MarkUnprepared(c, j)
          \/ HandleHeartbeat(c, j)
          \/ Refuse(c, j)
          \/ HandleComplete(c, j)
          \/ HandleFail(c, j)
          \/ FinishReport(c, j)
          \/ ResetAcquired(c, j)
    \/ NoticeClose(c)
    \/ ReleaseAndClose(c)

-----------------------------------------------------------------------------
(* Faults and time                                                         *)

\* The client end goes away; a suffix of what it sent may be lost with it.
LoseConnection(c) ==
    /\ conn[c].up
    /\ Fault
    /\ \E n \in 0..Len(conn[c].inbox) :
          conn' = [conn EXCEPT ![c].up = FALSE, ![c].inbox = SubSeq(@, 1, n)]
    /\ runner' = [runner EXCEPT ![conn[c].runner] = Offline]
    /\ UNCHANGED <<jobs, thumb, procs>>

\* The API process dies: nothing is released, the client sees the close.
ServerDies(c) ==
    /\ conn[c].step # "free"
    /\ Fault
    /\ conn' = [conn EXCEPT ![c] = Free]
    /\ runner' = IF conn[c].up THEN [runner EXCEPT ![conn[c].runner] = Offline] ELSE runner
    /\ UNCHANGED <<jobs, thumb, procs>>

Handled(j) == \E c \in Conns : conn[c].job = j

\* Some runner process still renews j, or is about to be handed it.
Attended(j) ==
    \/ \E r \in Runners :
          /\ jobs[j].runner = r
          /\ runner[r].phase \in {"acquiring", "working", "reporting"}
          /\ runner[r].job = j
    \/ Handled(j)

\* An unattended lease lapses by itself; an attended one only if the heartbeats
\* are too late.
Lapse(j) ==
    /\ LeaseExpires(j)
    /\ \/ ~Attended(j) /\ UNCHANGED faults
       \/ Attended(j) /\ Fault
    /\ UNCHANGED <<thumb, procs, runner, conn>>

\* A retry is due after 60 s (preparation) or at least 5 s (report): while the
\* handler that set it is still busy with the media state, only by a fault.
Delay(j) ==
    /\ BecomesDue(j)
    /\ \/ ~Handled(j) /\ UNCHANGED faults
       \/ Handled(j) /\ Fault
    /\ UNCHANGED <<thumb, procs, runner, conn>>

RNext ==
    \/ \E f \in Files : CompleteUpload(f) \/ EnqueueThumbnail(f) \/ DeleteFile(f) \/ DeleteRow(f)
    \/ \E r \in Runners :
          \/ Connect(r)
          \/ \E j \in Jobs : RequestJob(r, j)
          \/ SendHeartbeat(r)
          \/ \E kind \in {"complete", "fail"} : Report(r, kind)
    \/ \E c \in Conns :
          \/ Serve(c)
          \/ \E j \in Jobs :
                \/ HandOutFails(c, j)
                \/ \E kind \in {"acquire", "heartbeat", "complete", "fail"} : QueueError(c, kind, j)
          \/ LoseConnection(c)
          \/ ServerDies(c)
    \/ \E j \in Jobs : Lapse(j) \/ Delay(j)

\* Fairness: the handler tasks are scheduled and their awaits return; a runner
\* reconnects, polls, and finishes what it works on (its HTTP calls time out after
\* 45 s); procedures run to their end; time passes.
Fairness ==
    /\ \A c \in Conns : WF_vars(Serve(c))
    /\ \A r \in Runners :
          /\ WF_vars(Connect(r))
          /\ WF_vars(\E j \in Jobs : RequestJob(r, j))
          /\ WF_vars(\E kind \in {"complete", "fail"} : Report(r, kind))
    /\ \A f \in Files : WF_vars(EnqueueThumbnail(f))
    /\ \A j \in Jobs : WF_vars(Lapse(j) /\ ~Attended(j)) /\ WF_vars(Delay(j) /\ ~Handled(j))

Spec     == RInit /\ [][RNext]_vars
FairSpec == Spec /\ Fairness

-----------------------------------------------------------------------------
(* Properties                                                              *)

RTypeOK ==
    /\ TypeOK
    /\ thumb \in [Files -> Thumb]
    /\ procs \in [Files -> SUBSET Procs]
    /\ runner \in [Runners -> RunnerState]
    /\ conn \in [Conns -> ConnState]
    /\ faults \in 0..MaxFaults

\* A runner that works on a job does so over a connection whose context lists the
\* job, so closing that connection will bring the file's status back to "queued"
\* (job_runners.rs: acquired_jobs is filled before the job is handed out and
\* emptied only with the answer to the report).
WorkersAreListed ==
    \A r \in Runners :
        runner[r].phase \in {"working", "reporting"}
            => LET c == runner[r].conn
               IN  conn[c].up /\ conn[c].runner = r /\ runner[r].job \in conn[c].held

\* As long as nothing has gone wrong, a runner that works on a job is its owner and
\* its lease is live, unless the file was deleted under it: no other runner, no
\* poll, and no closing connection takes the job away.
WorkersHoldTheirLease ==
    \A r \in Runners :
        faults = 0 /\ runner[r].phase = "working"
            => LET j == runner[r].job
               IN  HeldBy(j, r) \/ jobs[j].error = "project_file_deleted"

\* A thumbnail is shown as ready only when a job of the file has succeeded: the queue
\* has accepted the result before the media state says so, also for late reports.
ReadyOnlyAfterSuccess ==
    \A f \in Files : thumb[f] = "ready"
        => \E j \in Jobs : FileOf[j] = f /\ jobs[j].state = "succeeded"

\* As long as nothing has gone wrong, a status that promises progress has something
\* behind it: an unfinished job, or a procedure or a handler about to move on.  The
\* one exception is a job that could not be prepared in its last attempt, which
\* job_runners.rs:242-243 marks "queued" although fail has given it up.
ProgressHasASource ==
    \A f \in Files :
        faults = 0 /\ thumb[f] \in {"queued", "processing"}
            => \/ procs[f] # {}
               \/ \E j \in Jobs : FileOf[j] = f /\ jobs[j].state \in {"pending", "processing"}
               \/ \E c \in Conns : conn[c].job # NoJob /\ FileOf[conn[c].job] = f
               \/ \E j \in Jobs : FileOf[j] = f /\ jobs[j].state = "failed"
                                               /\ jobs[j].error = "unprepared"

\* A report from a connection whose runner no longer owns the job changes no row,
\* however long it was under way (job_queue.rs:3-4: completing stays safe when
\* several runners operate concurrently).
LateReportsAreRefused ==
    [][\A c \in Conns, j \in Jobs :
          /\ \E kind \in {"complete", "fail"} : Receives(c, kind, j)
          /\ jobs[j].runner # conn[c].runner
          /\ conn'[c].inbox # conn[c].inbox
          => jobs' = jobs]_vars

\* Every job that was enqueued is finished in the end, although runners disappear,
\* leases lapse and attempts fail on the way.
EveryJobFinishes ==
    \A j \in Jobs : jobs[j].state = "pending" ~> jobs[j].state \in {"succeeded", "failed"}

\* job_runners.rs:4-5, "Work still owned when a socket closes is returned to the
\* queue": the step that closes a connection c returns no job which c's context does
\* not list and the runner holding it was handed over another open connection.
CloseReturnsOwnJobsOnly ==
    [][\A c \in Conns, j \in Jobs :
          /\ conn[c].step = "closing" /\ conn'[c].step = "free"
          /\ j \notin conn[c].held
          /\ jobs[j].state = "processing" /\ jobs'[j].state = "pending"
          => \A d \in Conns \ {c} :
                ~(conn[d].up /\ conn[d].runner = jobs[j].runner /\ j \in conn[d].held)]_vars
=============================================================================
