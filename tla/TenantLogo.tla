----------------------------- MODULE TenantLogo -----------------------------
(***************************************************************************)
(* The tenant's logo: one JSON document in global_settings that every      *)
(* upload replaces with a new generation, and that three parties rewrite   *)
(* by loading it, changing it and saving it whole, with nothing to keep    *)
(* them apart:                                                             *)
(*   - the procedures createUpload and completeUpload                      *)
(*     (rust-api/src/procedures/settings_logo.rs);                         *)
(*   - the media hooks of the job runners' connections, set_logo_status    *)
(*     (rust-api/src/job_runner_media.rs);                                 *)
(* together with the two objects of a generation: the uploaded source and  *)
(* the converted image.                                                    *)
(*                                                                         *)
(* The connection of a runner is reduced to the position of its handler:   *)
(* messages, and two connections of one runner, are in JobRunners.tla.     *)
(* Faults (a failing database, a dying API, a lost connection, a lapsed    *)
(* lease under a runner at work) draw on MaxFaults.                        *)
(***************************************************************************)
EXTENDS JobQueue, FiniteSets

CONSTANTS
    Gens,       \* generation ids, never handed out twice
    NoGen,
    GenOf,      \* the generation each job's payload names
    Callers,    \* completeUpload calls that may run at the same time
    NoJob,
    MaxFaults

ASSUME LogoAssumption ==
    /\ NoGen \notin Gens
    /\ GenOf \in [Jobs -> Gens]
    /\ NoJob \notin Jobs
    /\ MaxFaults \in Nat

VARIABLES
    logo,       \* the document: generationId and status
    source,     \* [Gens -> Sources]: the uploaded object
    image,      \* [Gens -> BOOLEAN]: whether the converted object exists
    call,       \* [Callers -> Call]: completeUpload calls under way
    handler,    \* [Runners -> Handler]: the handlers of the runners' connections
    faults,
    raced       \* history: a save has undone a change made after its load

lvars == <<jobs, logo, source, image, call, handler, faults, raced>>

Logo    == [gen : Gens \cup {NoGen},
            status : {"none", "uploading", "queued", "processing", "ready", "failed"}]
Sources == {"unborn", "expected", "present", "deleted"}

\* completeUpload between its awaits; copy is the document it has loaded.
Call == [step : {"idle", "loaded", "saved", "unqueued", "reloaded"},
         gen  : Gens \cup {NoGen},
         copy : Logo]

\* A handler is in a media hook ("load", "save"), which will write status for job and
\* go on at "after"; or between hooks.  held is acquired_jobs.
Handler == [step   : {"idle", "acquired", "load", "save", "working", "converted",
                      "cleaning", "closing"},
            job    : Jobs \cup {NoJob},
            held   : SUBSET Jobs,
            status : {"none", "processing", "queued", "failed", "ready"},
            after  : {"none", "working", "idle", "cleaning", "closing"},
            copy   : Logo]

NoLogo     == [gen |-> NoGen, status |-> "none"]
IdleCall   == [step |-> "idle", gen |-> NoGen, copy |-> NoLogo]
IdleRunner == [step |-> "idle", job |-> NoJob, held |-> {}, status |-> "none",
               after |-> "none", copy |-> NoLogo]

LInit ==
    /\ Init
    /\ logo    = NoLogo
    /\ source  = [g \in Gens |-> "unborn"]
    /\ image   = [g \in Gens |-> FALSE]
    /\ call    = [c \in Callers |-> IdleCall]
    /\ handler = [r \in Runners |-> IdleRunner]
    /\ faults  = 0
    /\ raced   = FALSE

Fault == faults < MaxFaults /\ faults' = faults + 1

\* INSERT ... ON CONFLICT DO UPDATE with the loaded document, status changed.
Save(copy, status) ==
    /\ logo'  = [copy EXCEPT !.status = status]
    /\ raced' = (raced \/ copy # logo)

-----------------------------------------------------------------------------
(* Procedures                                                              *)

CreateUpload(g) ==
    /\ source[g] = "unborn"
    /\ source' = [source EXCEPT ![g] = "expected"]
    /\ logo'   = [gen |-> g, status |-> "uploading"]
    /\ UNCHANGED <<jobs, image, call, handler, faults, raced>>

\* The client's PUT; the API never checks that it happened.
PutSource(g) ==
    /\ source[g] = "expected"
    /\ source' = [source EXCEPT ![g] = "present"]
    /\ UNCHANGED <<jobs, logo, image, call, handler, faults, raced>>

\* Mutant: an upload may be completed twice.
LoadCompletedToo(c, g) ==
    /\ call[c].step = "idle"
    /\ logo.gen = g
    /\ call' = [call EXCEPT ![c] = [step |-> "loaded", gen |-> g, copy |-> logo]]
    /\ UNCHANGED <<jobs, logo, source, image, handler, faults, raced>>

LoadPending(c, g) ==
    /\ call[c].step = "idle"
    /\ logo.status = "uploading" /\ logo.gen = g
    /\ call' = [call EXCEPT ![c] = [step |-> "loaded", gen |-> g, copy |-> logo]]
    /\ UNCHANGED <<jobs, logo, source, image, handler, faults, raced>>

SaveQueued(c) ==
    /\ call[c].step = "loaded"
    /\ Save(call[c].copy, "queued")
    /\ call' = [call EXCEPT ![c].step = "saved"]
    /\ UNCHANGED <<jobs, source, image, handler, faults>>

EnqueueLogo(c) ==
    /\ call[c].step = "saved"
    /\ \/ /\ \E j \in Jobs : GenOf[j] = call[c].gen /\ Enqueue(j)
          /\ call' = [call EXCEPT ![c] = IdleCall]
          /\ UNCHANGED faults
       \/ /\ Fault
          /\ call' = [call EXCEPT ![c].step = "unqueued"]
          /\ UNCHANGED jobs
    /\ UNCHANGED <<logo, source, image, handler, raced>>

\* The insert failed: the failure is recorded if the generation is still the active one.
LoadActive(c) ==
    /\ call[c].step = "unqueued"
    /\ call' = [call EXCEPT ![c] = IF logo.gen = @.gen
                                   THEN [@ EXCEPT !.step = "reloaded", !.copy = logo]
                                   ELSE IdleCall]
    /\ UNCHANGED <<jobs, logo, source, image, handler, faults, raced>>

SaveFailed(c) ==
    /\ call[c].step = "reloaded"
    /\ Save(call[c].copy, "failed")
    /\ call' = [call EXCEPT ![c] = IdleCall]
    /\ UNCHANGED <<jobs, source, image, handler, faults>>

\* A database error ends the call with an answer, the death of the API without one.
CallEnds(c) ==
    /\ call[c].step # "idle"
    /\ Fault
    /\ call' = [call EXCEPT ![c] = IdleCall]
    /\ UNCHANGED <<jobs, logo, source, image, handler, raced>>

-----------------------------------------------------------------------------
(* The runners' handlers                                                   *)

\* Enter the media hook that writes status for job j and goes on at after.
Hook(r, j, status, after) ==
    handler' = [handler EXCEPT ![r].step = "load", ![r].job = j,
                               ![r].status = status, ![r].after = after]

\* Leave the hook.  A job handed out enters acquired_jobs, one whose report is
\* answered, or that a closing connection has reset, leaves it.
Leave(h) ==
    [h EXCEPT !.step   = h.after,
              !.job    = IF h.after \in {"working", "cleaning"} THEN @ ELSE NoJob,
              !.held   = CASE h.after = "working"  -> @ \cup {h.job}
                           [] h.after = "cleaning" -> @
                           [] h.after \in {"idle", "closing"} -> @ \ {h.job},
              !.status = "none", !.after = "none", !.copy = NoLogo]

AcquireJob(r, j) ==
    /\ handler[r].step = "idle"
    /\ Acquire(j, r)
    /\ handler' = [handler EXCEPT ![r].step = "acquired", ![r].job = j]
    /\ UNCHANGED <<logo, source, image, call, faults, raced>>

Prepared(r) ==
    /\ handler[r].step = "acquired"
    /\ Hook(r, handler[r].job, "processing", "working")
    /\ UNCHANGED <<jobs, logo, source, image, call, faults, raced>>

Unprepared(r) ==
    /\ handler[r].step = "acquired"
    /\ \/ Fail(handler[r].job, r, "unprepared", FALSE) /\ UNCHANGED faults
       \/ ~HeldBy(handler[r].job, r) /\ UNCHANGED <<jobs, faults>>
       \/ Fault /\ UNCHANGED jobs
    /\ Hook(r, handler[r].job, "queued", "idle")
    /\ UNCHANGED <<logo, source, image, call, raced>>

\* Mutant: the generation is not compared.
LoadAnyLogo(r) ==
    /\ handler[r].step = "load"
    /\ handler' = [handler EXCEPT ![r] = [@ EXCEPT !.step = "save", !.copy = logo]]
    /\ UNCHANGED <<jobs, logo, source, image, call, faults, raced>>

\* set_logo_status up to its generation check: a superseded job writes nothing.
LoadLogo(r) ==
    /\ handler[r].step = "load"
    /\ handler' = [handler EXCEPT ![r] = IF logo.gen = GenOf[@.job]
                                         THEN [@ EXCEPT !.step = "save", !.copy = logo]
                                         ELSE Leave(@)]
    /\ UNCHANGED <<jobs, logo, source, image, call, faults, raced>>

SaveLogo(r) ==
    /\ handler[r].step = "save"
    /\ Save(handler[r].copy, handler[r].status)
    /\ handler' = [handler EXCEPT ![r] = Leave(@)]
    /\ UNCHANGED <<jobs, source, image, call, faults>>

\* The tenant's database fails in a hook.  Before a job is handed out the runner takes
\* the error for a reason to reconnect; after a report the job stays in acquired_jobs;
\* a closing connection goes on.
HookFails(r) ==
    /\ handler[r].step \in {"load", "save"}
    /\ Fault
    /\ LET h == handler[r]
       IN  handler' = [handler EXCEPT ![r] =
              CASE h.after = "working"  -> [IdleRunner EXCEPT !.step = "closing", !.held = h.held]
                [] h.after = "closing"  -> Leave(h)
                [] OTHER                -> [IdleRunner EXCEPT !.held = h.held]]
    /\ UNCHANGED <<jobs, logo, source, image, call, raced>>

Convert(r) ==
    /\ handler[r].step = "working"
    /\ source[GenOf[handler[r].job]] = "present"
    /\ image'   = [image EXCEPT ![GenOf[handler[r].job]] = TRUE]
    /\ handler' = [handler EXCEPT ![r].step = "converted"]
    /\ UNCHANGED <<jobs, logo, source, call, faults, raced>>

\* Mutant: success is reported before the image is uploaded.
ReportEarly(r) ==
    /\ handler[r].step \in {"working", "converted"}
    /\ Complete(handler[r].job, r)
    /\ Hook(r, handler[r].job, "ready", "cleaning")
    /\ UNCHANGED <<logo, source, image, call, faults, raced>>

\* Mutant: the answer of the queue is not looked at.
ReportUnchecked(r) ==
    /\ handler[r].step = "converted"
    /\ \/ Complete(handler[r].job, r)
       \/ ~HeldBy(handler[r].job, r) /\ UNCHANGED jobs
    /\ Hook(r, handler[r].job, "ready", "cleaning")
    /\ UNCHANGED <<logo, source, image, call, faults, raced>>

ReportSuccess(r) ==
    /\ handler[r].step = "converted"
    /\ Complete(handler[r].job, r)
    /\ Hook(r, handler[r].job, "ready", "cleaning")
    /\ UNCHANGED <<logo, source, image, call, faults, raced>>

\* Mutant: the document is given the state of the job.
ReportJobState(r) ==
    /\ handler[r].step = "working"
    /\ Fail(handler[r].job, r, "reported", FALSE)
    /\ Hook(r, handler[r].job, jobs'[handler[r].job].state, "idle")
    /\ UNCHANGED <<logo, source, image, call, faults, raced>>

ReportFailure(r) ==
    /\ handler[r].step = "working"
    /\ Fail(handler[r].job, r, "reported", FALSE)
    /\ Hook(r, handler[r].job,
            IF jobs'[handler[r].job].state = "pending" THEN "queued" ELSE "failed", "idle")
    /\ UNCHANGED <<logo, source, image, call, faults, raced>>

\* The queue refuses the report; acquired_jobs keeps the job.
ReportRefused(r) ==
    /\ handler[r].step \in {"working", "converted"}
    /\ ~HeldBy(handler[r].job, r)
    /\ handler' = [handler EXCEPT ![r] = [IdleRunner EXCEPT !.held = handler[r].held]]
    /\ UNCHANGED <<jobs, logo, source, image, call, faults, raced>>

\* complete(), after "ready" was saved or the job found superseded: the source is
\* deleted if the object storage lets itself.
CleanUp(r) ==
    /\ handler[r].step = "cleaning"
    /\ \/ source' = [source EXCEPT ![GenOf[handler[r].job]] = "deleted"] /\ UNCHANGED faults
       \/ Fault /\ UNCHANGED source
    /\ handler' = [handler EXCEPT ![r] = [IdleRunner EXCEPT !.held = handler[r].held \ {handler[r].job}]]
    /\ UNCHANGED <<jobs, logo, image, call, raced>>

LoseRunner(r) ==
    /\ handler[r].step \in {"idle", "working", "converted"}
    /\ Fault
    /\ handler' = [handler EXCEPT ![r] = [IdleRunner EXCEPT !.step = "closing", !.held = handler[r].held]]
    /\ UNCHANGED <<jobs, logo, source, image, call, raced>>

\* release_socket_jobs: a hook for every acquired job, then the queue.
ResetHeld(r, j) ==
    /\ handler[r].step = "closing" /\ j \in handler[r].held
    /\ Hook(r, j, "queued", "closing")
    /\ UNCHANGED <<jobs, logo, source, image, call, faults, raced>>

Release(r) ==
    /\ handler[r].step = "closing" /\ handler[r].held = {}
    /\ \/ ReleaseRunnerJobs(r) /\ UNCHANGED faults
       \/ Fault /\ UNCHANGED jobs
    /\ handler' = [handler EXCEPT ![r] = IdleRunner]
    /\ UNCHANGED <<logo, source, image, call, raced>>

HandlerDies(r) ==
    /\ handler[r] # IdleRunner
    /\ Fault
    /\ handler' = [handler EXCEPT ![r] = IdleRunner]
    /\ UNCHANGED <<jobs, logo, source, image, call, raced>>

\* The lease of a job at hand lapses only if its heartbeats fail.
LogoLeaseExpires(j) ==
    /\ LeaseExpires(j)
    /\ \/ (\E r \in Runners : handler[r].job = j) /\ Fault
       \/ (\A r \in Runners : handler[r].job # j) /\ UNCHANGED faults
    /\ UNCHANGED <<logo, source, image, call, handler, raced>>

LogoBecomesDue(j) ==
    /\ BecomesDue(j)
    /\ UNCHANGED <<logo, source, image, call, handler, faults, raced>>

LNext ==
    \/ \E g \in Gens : CreateUpload(g) \/ PutSource(g)
    \/ \E c \in Callers :
          \/ \E g \in Gens : LoadPending(c, g)
          \/ SaveQueued(c) \/ EnqueueLogo(c) \/ LoadActive(c) \/ SaveFailed(c) \/ CallEnds(c)
    \/ \E r \in Runners :
          \/ \E j \in Jobs : AcquireJob(r, j) \/ ResetHeld(r, j)
          \/ Prepared(r) \/ Unprepared(r)
          \/ LoadLogo(r) \/ SaveLogo(r) \/ HookFails(r)
          \/ Convert(r) \/ ReportSuccess(r) \/ ReportFailure(r) \/ ReportRefused(r)
          \/ CleanUp(r) \/ LoseRunner(r) \/ Release(r) \/ HandlerDies(r)
    \/ \E j \in Jobs : LogoLeaseExpires(j) \/ LogoBecomesDue(j)

LogoSpec == LInit /\ [][LNext]_lvars

-----------------------------------------------------------------------------
(* Properties                                                              *)

LTypeOK ==
    /\ TypeOK
    /\ logo \in Logo
    /\ source \in [Gens -> Sources]
    /\ image \in [Gens -> BOOLEAN]
    /\ call \in [Callers -> Call]
    /\ handler \in [Runners -> Handler]
    /\ faults \in 0..MaxFaults
    /\ raced \in BOOLEAN

\* A logo that is shown as ready can be downloaded: the image of that generation, and
\* not of another, has been stored -- whichever documents overwrote each other.
ReadyHasImage == logo.status = "ready" => image[logo.gen]

\* An upload is not lost between its two objects: the source is deleted only once the
\* image exists and the queue has accepted the conversion.
SourceOutlivesConversion ==
    \A g \in Gens : source[g] = "deleted"
        => image[g] /\ \E j \in Jobs : GenOf[j] = g /\ jobs[j].state = "succeeded"

\* The document reports on the jobs of its own generation only, although jobs of
\* superseded generations keep reporting and closing connections reset what they once
\* held: "processing" and "ready" stand for an own job that was acquired and one that
\* succeeded, "failed" for one that was given up or could not be queued.
OwnJobsDecide ==
    LET own == {j \in Jobs : GenOf[j] = logo.gen /\ jobs[j].state # "absent"}
    IN  /\ logo.status = "processing" => \E j \in own : jobs[j].attempts > 0
        /\ logo.status = "ready"      => \E j \in own : jobs[j].state = "succeeded"
        /\ logo.status = "failed"     => \/ raced \/ own = {}
                                        \/ \E j \in own : jobs[j].state = "failed"

\* Unless a save has undone another's change, an upload is queued at most once.
QueuedOnce ==
    raced \/ \A g \in Gens :
        Cardinality({j \in Jobs : GenOf[j] = g /\ jobs[j].state # "absent"}) <= 1

\* job_runner_media.rs:450-451, "A newer upload can supersede a queued job. Never let
\* that stale worker overwrite the current generation's state": a hook replaces no
\* document but its own generation's.
StaleWorkerNeverOverwrites ==
    [][\A r \in Runners :
          handler[r].step = "save" /\ handler'[r].step # "save" /\ logo' # logo
              => logo.gen = GenOf[handler[r].job]]_lvars
=============================================================================
