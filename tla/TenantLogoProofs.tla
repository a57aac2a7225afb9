-------------------------- MODULE TenantLogoProofs --------------------------
(***************************************************************************)
(* Proofs about the tenant's logo, for any number of generations, jobs,    *)
(* runners, calls and faults: the invariants of TenantLogo.tla.            *)
(*                                                                         *)
(* The invariant says what a handler knows of its job at each of its       *)
(* positions (HandlersKnow), what a call of completeUpload knows of its    *)
(* upload (CallsKnow), what the document claims (LogoKnows), and, until a  *)
(* save undoes another's change, that an upload has one way to its job     *)
(* (OneWayToTheJob).                                                       *)
(***************************************************************************)
EXTENDS TenantLogo, JobQueueProofs, FiniteSetTheorems

Queued(j) == jobs[j].state # "absent"

\* The positions of a handler at which a job is at hand.
Steps  == {"acquired", "load", "save", "working", "converted", "cleaning"}
InHook == {"load", "save"}

\* What a status rests on that is to be written for job j: as of the table js and the
\* images im.
Earned(status, j, js, im) ==
    /\ status \in {"processing", "queued", "failed", "ready"}
    /\ status = "processing" => js[j].attempts > 0
    /\ status = "failed" => js[j].state = "failed"
    /\ status = "ready" => js[j].state = "succeeded" /\ im[GenOf[j]]

\* What a handler knows, as of js, im and the sources so.
Knows(h, js, im, so) ==
    /\ h.step \in Steps => h.job \in Jobs
    /\ h.step = "acquired" => js[h.job].attempts > 0
    /\ h.step \in InHook => h.after # "none" /\ Earned(h.status, h.job, js, im)
    /\ h.step \in InHook /\ h.after = "cleaning" => h.status = "ready"
    /\ h.step = "save" => h.copy.gen = GenOf[h.job] /\ so[h.copy.gen] # "unborn"
    /\ h.step = "converted" => im[GenOf[h.job]]
    /\ h.step = "cleaning" => js[h.job].state = "succeeded" /\ im[GenOf[h.job]]

HandlersKnow == \A r \in Runners : Knows(handler[r], jobs, image, source)

\* What a call of completeUpload knows, as of so.
Uploads(k, so) ==
    /\ k.step # "idle" => k.gen \in Gens /\ so[k.gen] # "unborn"
    /\ k.step = "loaded" => k.copy = [gen |-> k.gen, status |-> "uploading"]
    /\ k.step = "reloaded" => k.copy.gen = k.gen

CallsKnow == \A c \in Callers : Uploads(call[c], source)

\* An upload whose completion has been saved and not yet been queued, or could not be.
Queueing(c) == call[c].step \in {"saved", "unqueued", "reloaded"}

LogoKnows ==
    /\ logo.status # "none" => logo.gen \in Gens /\ source[logo.gen] # "unborn"
    /\ logo.status = "none" => logo.gen = NoGen
    /\ logo.status = "processing" => \E j \in Jobs : GenOf[j] = logo.gen /\ jobs[j].attempts > 0
    /\ logo.status = "ready" => \E j \in Jobs : GenOf[j] = logo.gen /\ jobs[j].state = "succeeded"
                                                                    /\ image[GenOf[j]]
    /\ logo.status = "failed" =>
          \/ raced
          \/ \E j \in Jobs : GenOf[j] = logo.gen /\ jobs[j].state = "failed"
          \/ /\ \A j \in Jobs : GenOf[j] = logo.gen => ~Queued(j)
             /\ \A c \in Callers : call[c].step = "saved" => call[c].gen # logo.gen

JobsKnow ==
    /\ \A j \in Jobs : Queued(j) => source[GenOf[j]] # "unborn"
    /\ \A j \in Jobs : jobs[j].state # "deleted"

OneWayToTheJob ==
    ~raced =>
        /\ \A c, d \in Callers : Queueing(c) /\ Queueing(d) /\ call[c].gen = call[d].gen => c = d
        /\ \A c \in Callers, j \in Jobs : Queueing(c) /\ call[c].gen = GenOf[j] => ~Queued(j)
        /\ \A i, j \in Jobs : Queued(i) /\ Queued(j) /\ GenOf[i] = GenOf[j] => i = j
        /\ logo.status = "uploading" =>
              /\ \A c \in Callers : Queueing(c) => call[c].gen # logo.gen
              /\ \A j \in Jobs : Queued(j) => GenOf[j] # logo.gen

LInv ==
    /\ IInv /\ LTypeOK /\ HandlersKnow /\ CallsKnow /\ LogoKnows /\ JobsKnow
    /\ SourceOutlivesConversion /\ OneWayToTheJob

-----------------------------------------------------------------------------
(* What grows                                                              *)

\* The jobs get on: what was queued stays so, what has ended has ended for good.
JobsAge ==
    \A j \in Jobs :
        /\ jobs'[j] \in Row /\ jobs'[j].attempts >= jobs[j].attempts
        /\ Queued(j) => jobs'[j].state # "absent"
        /\ jobs[j].state \in {"succeeded", "failed"} => jobs'[j].state = jobs[j].state
        /\ jobs'[j].state # "deleted"

\* No new job appears.
NothingQueued == \A j \in Jobs : jobs'[j].state # "absent" => Queued(j)

\* Every operation that is used here lets the jobs get on.
LEMMA JobsAgeStep ==
  ASSUME IInv, JobsKnow,
         \/ \E j \in Jobs : Enqueue(j) \/ LeaseExpires(j) \/ BecomesDue(j)
         \/ \E j \in Jobs, r \in Runners : Acquire(j, r) \/ Complete(j, r)
         \/ \E j \in Jobs, r \in Runners, error \in {"reported", "unprepared"} :
                Fail(j, r, error, FALSE)
         \/ \E r \in Runners : ReleaseRunnerJobs(r)
         \/ UNCHANGED jobs
  PROVE  /\ IInv' /\ [QueueStep]_jobs /\ JobsAge
         /\ (NothingQueued \/ \E j \in Jobs : Enqueue(j))
<1>1. TypeOK /\ \A j \in Jobs : jobs[j] \in Row
  BY DEF IInv, QueueInv, TypeOK
<1>2. [QueueStep]_jobs
  BY DEF QueueStep
<1>3. IInv' /\ \A j \in Jobs : jobs'[j] \in Row
  BY <1>2, NextIInv DEF IInv, QueueInv, TypeOK
<1>4. \A j \in Jobs : jobs[j].state # "deleted" /\ jobs[j].attempts \in Nat
  BY <1>1 DEF JobsKnow, Row
<1> DEFINE Gets(j) == /\ Queued(j) => jobs'[j].state # "absent"
                      /\ jobs'[j].state # "deleted"
           Same(j) == jobs'[j].state # "absent" => Queued(j)
<1>5. CASE UNCHANGED jobs
  BY <1>2, <1>3, <1>4, <1>5 DEF JobsAge, NothingQueued, Queued
<1>6. CASE QueueStep
  <2>1. ASSUME \A j \in Jobs : Gets(j) PROVE JobsAge
    BY <1>3, <1>6, <2>1, FinishedStep, AttemptsStep DEF JobsAge
  <2>2. ASSUME NEW j \in Jobs, Enqueue(j) PROVE \A k \in Jobs : Gets(k)
    BY <1>1, <1>4, <2>2, EnqueueWrites DEF Others, Queued
  <2>3. ASSUME NEW j \in Jobs, LeaseExpires(j) \/ BecomesDue(j)
        PROVE  \A k \in Jobs : Gets(k) /\ Same(k)
    BY <1>1, <1>4, <2>3, TimeWrites DEF Others, Queued
  <2>4. ASSUME NEW j \in Jobs, NEW r \in Runners, Acquire(j, r)
        PROVE  \A k \in Jobs : Gets(k) /\ Same(k)
    BY <1>1, <1>4, <2>4, AcquireWrites DEF Others, Queued
  <2>5. ASSUME NEW j \in Jobs, NEW r \in Runners, Complete(j, r)
        PROVE  \A k \in Jobs : Gets(k) /\ Same(k)
    BY <1>1, <1>4, <2>5, CompleteWrites DEF Others, Queued, HeldBy
  <2>6. ASSUME NEW j \in Jobs, NEW r \in Runners, NEW error \in {"reported", "unprepared"},
               Fail(j, r, error, FALSE)
        PROVE  \A k \in Jobs : Gets(k) /\ Same(k)
    BY <1>1, <1>4, <2>6, FailWrites DEF Others, Queued, HeldBy
  <2>7. ASSUME NEW r \in Runners, ReleaseRunnerJobs(r)
        PROVE  \A k \in Jobs : Gets(k) /\ Same(k)
    BY <1>1, <1>4, <2>7, ReleaseWrites DEF Queued
  <2> HIDE DEF Gets, Same
  <2>8. CASE \E j \in Jobs : Enqueue(j)
    BY <1>2, <1>3, <2>1, <2>2, <2>8
  <2>9. CASE ~\E j \in Jobs : Enqueue(j)
    <3>1. (\A k \in Jobs : Gets(k) /\ Same(k)) \/ UNCHANGED jobs
      BY <2>3, <2>4, <2>5, <2>6, <2>7, <2>9
    <3> QED
      BY <1>2, <1>3, <1>5, <2>1, <3>1 DEF NothingQueued, Same
  <2> QED
    BY <2>8, <2>9
<1> QED
  BY <1>2, <1>5, <1>6

\* Images and sources stay, or at least do not become unknown again.
ObjectsAge ==
    \A g \in Gens : /\ image[g] => image'[g]
                    /\ source[g] # "unborn" => source'[g] # "unborn"

\* What any step does to the jobs and to the objects; only completeUpload adds a job.
LEMMA StepAges ==
  ASSUME LInv, [LNext]_lvars
  PROVE  /\ IInv' /\ [QueueStep]_jobs /\ JobsAge /\ ObjectsAge
         /\ (NothingQueued \/ \E c \in Callers : EnqueueLogo(c))
<1>1. /\ IInv /\ JobsKnow /\ TypeOK
      /\ source \in [Gens -> Sources] /\ image \in [Gens -> BOOLEAN]
      /\ \A r \in Runners : Knows(handler[r], jobs, image, source)
  BY DEF LInv, LTypeOK, HandlersKnow
<1> DEFINE Ages == /\ IInv' /\ [QueueStep]_jobs /\ JobsAge /\ ObjectsAge
                   /\ (NothingQueued \/ \E c \in Callers : EnqueueLogo(c))
<1>2. UNCHANGED jobs => IInv' /\ [QueueStep]_jobs /\ JobsAge /\ NothingQueued
  BY <1>1, JobsAgeStep DEF NothingQueued, Queued, JobsAge
<1>3. UNCHANGED <<source, image>> => ObjectsAge
  BY DEF ObjectsAge
<1>4. ASSUME NEW g \in Gens, CreateUpload(g) \/ PutSource(g) PROVE Ages
  <2>1. ObjectsAge
    BY <1>1, <1>4 DEF CreateUpload, PutSource, ObjectsAge
  <2> QED
    BY <1>2, <1>4, <2>1 DEF CreateUpload, PutSource
<1>5. ASSUME NEW c \in Callers, SaveQueued(c) \/ LoadActive(c) \/ SaveFailed(c) \/ CallEnds(c)
                                   \/ \E g \in Gens : LoadPending(c, g)
      PROVE  Ages
  BY <1>2, <1>3, <1>5 DEF SaveQueued, LoadActive, SaveFailed, CallEnds, LoadPending
<1>6. ASSUME NEW c \in Callers, EnqueueLogo(c) PROVE Ages
  <2>1. (\E j \in Jobs : Enqueue(j)) \/ UNCHANGED jobs
    BY <1>6 DEF EnqueueLogo
  <2>2. IInv' /\ [QueueStep]_jobs /\ JobsAge
    BY <1>1, <2>1, JobsAgeStep
  <2> QED
    BY <1>3, <1>6, <2>2 DEF EnqueueLogo
<1>no. ASSUME \/ \E j \in Jobs : LeaseExpires(j) \/ BecomesDue(j)
              \/ \E j \in Jobs, r \in Runners : Acquire(j, r) \/ Complete(j, r)
              \/ \E j \in Jobs, r \in Runners, error \in {"reported", "unprepared"} :
                     Fail(j, r, error, FALSE)
              \/ \E r \in Runners : ReleaseRunnerJobs(r)
              \/ UNCHANGED jobs
       PROVE  IInv' /\ [QueueStep]_jobs /\ JobsAge /\ NothingQueued
  <2>1. IInv' /\ [QueueStep]_jobs /\ JobsAge /\ (NothingQueued \/ \E j \in Jobs : Enqueue(j))
    BY <1>1, <1>no, JobsAgeStep
  <2>2. ASSUME NEW i \in Jobs, Enqueue(i) PROVE FALSE
    <3>1. jobs[i].state = "absent" /\ jobs'[i].state = "pending" /\ \A k \in Jobs \ {i} : jobs'[k] = jobs[k]
      BY <1>1, <2>2, EnqueueWrites DEF Others
    <3>2. ASSUME NEW j \in Jobs, LeaseExpires(j) \/ BecomesDue(j) PROVE FALSE
      <4>1. jobs'[j].state = jobs[j].state /\ \A k \in Jobs \ {j} : jobs'[k] = jobs[k]
        BY <1>1, <3>2, TimeWrites DEF Others
      <4> QED
        BY <3>1, <4>1
    <3>3. ASSUME NEW j \in Jobs, NEW r \in Runners, Acquire(j, r) PROVE FALSE
      <4>1. jobs[j].state # "absent" /\ \A k \in Jobs \ {j} : jobs'[k] = jobs[k]
        BY <1>1, <3>3, AcquireWrites DEF Others
      <4> QED
        BY <3>1, <4>1
    <3>4. ASSUME NEW j \in Jobs, NEW r \in Runners, Complete(j, r) PROVE FALSE
      <4>1. jobs[j].state # "absent" /\ \A k \in Jobs \ {j} : jobs'[k] = jobs[k]
        BY <1>1, <3>4, CompleteWrites DEF Others, HeldBy
      <4> QED
        BY <3>1, <4>1
    <3>5. ASSUME NEW j \in Jobs, NEW r \in Runners, NEW error \in {"reported", "unprepared"},
                 Fail(j, r, error, FALSE)
          PROVE  FALSE
      <4>1. jobs[j].state # "absent" /\ \A k \in Jobs \ {j} : jobs'[k] = jobs[k]
        BY <1>1, <3>5, FailWrites DEF Others, HeldBy
      <4> QED
        BY <3>1, <4>1
    <3>6. ASSUME NEW r \in Runners, ReleaseRunnerJobs(r) PROVE FALSE
      BY <1>1, <3>1, <3>6, ReleaseWrites
    <3>7. ~UNCHANGED jobs
      BY <3>1
    <3> QED
      BY <1>no, <3>2, <3>3, <3>4, <3>5, <3>6, <3>7
  <2> QED
    BY <2>1, <2>2
<1>7. ASSUME NEW r \in Runners, NEW j \in Jobs, AcquireJob(r, j) \/ ResetHeld(r, j) PROVE Ages
  <2>1. (\E i \in Jobs, q \in Runners : Acquire(i, q)) \/ UNCHANGED jobs
    BY <1>7 DEF AcquireJob, ResetHeld
  <2>2. UNCHANGED <<source, image>>
    BY <1>7 DEF AcquireJob, ResetHeld
  <2> QED
    BY <1>3, <1>no, <2>1, <2>2
<1>8. ASSUME NEW r \in Runners, Unprepared(r) \/ ReportSuccess(r) \/ ReportFailure(r) PROVE Ages
  <2>1. handler[r].job \in Jobs
    BY <1>1, <1>8 DEF Unprepared, ReportSuccess, ReportFailure, Knows, Steps
  <2>2. \/ Complete(handler[r].job, r)
        \/ \E error \in {"reported", "unprepared"} : Fail(handler[r].job, r, error, FALSE)
        \/ UNCHANGED jobs
    BY <1>8 DEF Unprepared, ReportSuccess, ReportFailure
  <2>3. UNCHANGED <<source, image>>
    BY <1>8 DEF Unprepared, ReportSuccess, ReportFailure
  <2> QED
    BY <1>3, <1>no, <2>1, <2>2, <2>3
<1>9. ASSUME NEW r \in Runners, Convert(r) \/ CleanUp(r) PROVE Ages
  <2>1. handler[r].job \in Jobs
    BY <1>1, <1>9 DEF Convert, CleanUp, Knows, Steps
  <2>2. ObjectsAge
    BY <1>1, <1>9, <2>1, LogoAssumption DEF Convert, CleanUp, ObjectsAge
  <2> QED
    BY <1>2, <1>9, <2>2 DEF Convert, CleanUp
<1>10. ASSUME NEW r \in Runners, Release(r) PROVE Ages
  <2>1. (\E q \in Runners : ReleaseRunnerJobs(q)) \/ UNCHANGED jobs
    BY <1>10 DEF Release
  <2> QED
    BY <1>3, <1>no, <1>10, <2>1 DEF Release
<1>11. ASSUME NEW r \in Runners,
              Prepared(r) \/ LoadLogo(r) \/ SaveLogo(r) \/ HookFails(r) \/ ReportRefused(r)
                 \/ LoseRunner(r) \/ HandlerDies(r)
       PROVE  Ages
  BY <1>2, <1>3, <1>11 DEF Prepared, LoadLogo, SaveLogo, HookFails, ReportRefused, LoseRunner,
                           HandlerDies
<1>12. ASSUME NEW j \in Jobs, LogoLeaseExpires(j) \/ LogoBecomesDue(j) PROVE Ages
  <2>1. LeaseExpires(j) \/ BecomesDue(j)
    BY <1>12 DEF LogoLeaseExpires, LogoBecomesDue
  <2>2. UNCHANGED <<source, image>>
    BY <1>12 DEF LogoLeaseExpires, LogoBecomesDue
  <2> QED
    BY <1>3, <1>no, <2>1, <2>2
<1>13. ASSUME UNCHANGED lvars PROVE Ages
  BY <1>2, <1>3, <1>13 DEF lvars
<1> SUFFICES Ages
  OBVIOUS
<1> HIDE DEF Ages
<1>14. CASE LNext
  BY ONLY <1>4, <1>5, <1>6, <1>7, <1>8, <1>9, <1>10, <1>11, <1>12, <1>14 DEF LNext
<1> QED
  BY <1>13, <1>14

-----------------------------------------------------------------------------
(* The handlers                                                            *)

\* What a handler knows, it goes on knowing.
LEMMA KnowsAges ==
  ASSUME TypeOK, JobsAge, ObjectsAge, NEW h \in Handler, Knows(h, jobs, image, source)
  PROVE  Knows(h, jobs', image', source')
<1>1. CASE h.step \in Steps
  <2>1. h.job \in Jobs /\ GenOf[h.job] \in Gens
    BY <1>1, LogoAssumption DEF Knows
  <2>2. jobs[h.job].attempts \in Nat /\ jobs'[h.job].attempts \in Nat
    BY <2>1 DEF TypeOK, JobsAge, Row
  <2>3. jobs[h.job].attempts > 0 => jobs'[h.job].attempts > 0
    BY <2>1, <2>2 DEF JobsAge
  <2>4. \A state \in {"succeeded", "failed"} :
            jobs[h.job].state = state => jobs'[h.job].state = state
    BY <2>1 DEF JobsAge
  <2>5. /\ image[GenOf[h.job]] => image'[GenOf[h.job]]
        /\ source[GenOf[h.job]] # "unborn" => source'[GenOf[h.job]] # "unborn"
    BY <2>1 DEF ObjectsAge
  <2>6. Earned(h.status, h.job, jobs, image) => Earned(h.status, h.job, jobs', image')
    BY <2>3, <2>4, <2>5 DEF Earned
  <2> QED
    BY <2>1, <2>3, <2>4, <2>5, <2>6 DEF Knows
<1>2. CASE h.step \notin Steps
  BY <1>2 DEF Knows, Steps, InHook
<1> QED
  BY <1>1, <1>2

\* The handler of r becomes one that knows what it must, as of js, im and so.
BecomesKnowing(r, js, im, so) ==
    \E new \in Handler : handler' = [handler EXCEPT ![r] = new] /\ Knows(new, js, im, so)

\* A hook is entered with a status that is earned.
LEMMA HookKnows ==
  ASSUME handler \in [Runners -> Handler], NEW r \in Runners, NEW j \in Jobs, NEW status,
         NEW after \in {"working", "idle", "cleaning", "closing"}, NEW js, NEW im, NEW so,
         Hook(r, j, status, after), Earned(status, j, js, im),
         after = "cleaning" => status = "ready"
  PROVE  BecomesKnowing(r, js, im, so)
<1>1. handler[r] \in Handler /\ status \in {"processing", "queued", "failed", "ready"}
  BY DEF Earned
<1> DEFINE new == [handler[r] EXCEPT !.step = "load", !.job = j, !.status = status,
                                     !.after = after]
<1>2. new \in Handler /\ new.step = "load" /\ new.job = j /\ new.status = status
      /\ new.after = after
  BY <1>1 DEF Handler
<1>3. handler' = [handler EXCEPT ![r] = new]
  BY <1>1 DEF Hook
<1> HIDE DEF new
<1>4. Knows(new, js, im, so)
  BY <1>2 DEF Knows, Steps, InHook
<1> QED
  BY <1>2, <1>3, <1>4 DEF BecomesKnowing

\* A hook is left with what it has been entered with.
LEMMA LeaveKnows ==
  ASSUME NEW h \in Handler, NEW js, NEW im, NEW so, Knows(h, js, im, so), h.step \in InHook
  PROVE  Leave(h) \in Handler /\ Knows(Leave(h), js, im, so)
<1>1. /\ h.job \in Jobs /\ h.after \in {"working", "idle", "cleaning", "closing"}
      /\ Earned(h.status, h.job, js, im)
      /\ h.after = "cleaning" => h.status = "ready"
      /\ h.held \in SUBSET Jobs
  BY DEF Knows, Handler, InHook, Steps
<1> DEFINE job  == IF h.after \in {"working", "cleaning"} THEN h.job ELSE NoJob
           held == CASE h.after = "working"  -> h.held \cup {h.job}
                     [] h.after = "cleaning" -> h.held
                     [] h.after \in {"idle", "closing"} -> h.held \ {h.job}
           new  == [h EXCEPT !.step = h.after, !.job = job, !.held = held,
                             !.status = "none", !.after = "none", !.copy = NoLogo]
<1>2. job \in Jobs \cup {NoJob} /\ held \in SUBSET Jobs /\ NoLogo \in Logo
  BY <1>1 DEF NoLogo, Logo
<1>3. Leave(h) = new
  BY DEF Leave, Handler
<1> HIDE DEF held
<1>4. new \in Handler /\ new.step = h.after /\ new.job = job
  BY <1>1, <1>2 DEF Handler
<1> HIDE DEF new
<1>5. Knows(new, js, im, so)
  BY <1>1, <1>4 DEF Knows, Steps, InHook, Earned
<1> QED
  BY <1>3, <1>4, <1>5

\* A handler between jobs, or closing, that knows nothing.
LEMMA IdleKnows ==
  ASSUME NEW held \in SUBSET Jobs, NEW step \in {"idle", "closing"}, NEW js, NEW im, NEW so
  PROVE  /\ [IdleRunner EXCEPT !.step = step, !.held = held] \in Handler
         /\ Knows([IdleRunner EXCEPT !.step = step, !.held = held], js, im, so)
<1> DEFINE new == [IdleRunner EXCEPT !.step = step, !.held = held]
<1>1. new \in Handler /\ new.step = step
  BY DEF IdleRunner, Handler, NoLogo, Logo
<1> HIDE DEF new
<1>2. Knows(new, js, im, so)
  BY <1>1 DEF Knows, Steps, InHook
<1> QED
  BY <1>1, <1>2 DEF new

\* Handlers stay typed and informed when one of them takes a step, and when none does.
LEMMA OthersGoOn ==
  ASSUME LInv, JobsAge, ObjectsAge,
         \/ \E r \in Runners : BecomesKnowing(r, jobs', image', source')
         \/ UNCHANGED handler
  PROVE  handler' \in [Runners -> Handler] /\ HandlersKnow'
<1>1. TypeOK /\ handler \in [Runners -> Handler] /\ HandlersKnow
  BY DEF LInv, LTypeOK
<1>2. \A q \in Runners : Knows(handler[q], jobs', image', source')
  BY <1>1, KnowsAges DEF HandlersKnow
<1>3. CASE UNCHANGED handler
  BY <1>1, <1>2, <1>3 DEF HandlersKnow
<1>4. ASSUME NEW r \in Runners, BecomesKnowing(r, jobs', image', source')
      PROVE  handler' \in [Runners -> Handler] /\ HandlersKnow'
  <2>1. PICK new \in Handler : /\ handler' = [handler EXCEPT ![r] = new]
                               /\ Knows(new, jobs', image', source')
    BY <1>4 DEF BecomesKnowing
  <2>2. handler' \in [Runners -> Handler]
    BY <1>1, <2>1
  <2>3. \A q \in Runners : handler'[q] = IF q = r THEN new ELSE handler[q]
    BY <1>1, <2>1
  <2>4. \A q \in Runners : Knows(handler'[q], jobs', image', source')
    BY <1>2, <2>1, <2>3
  <2> QED
    BY <2>2, <2>4 DEF HandlersKnow
<1> QED
  BY <1>3, <1>4

\* A handler between jobs is one that is put back with what it holds.
LEMMA AtRest ==
  /\ \A held : [IdleRunner EXCEPT !.held = held]
                = [IdleRunner EXCEPT !.step = "idle", !.held = held]
  /\ IdleRunner = [IdleRunner EXCEPT !.step = "idle", !.held = {}]
<1> DEFINE same == [IdleRunner EXCEPT !.step = "idle"]
<1>1. same = IdleRunner
  BY DEF IdleRunner
<1>2. \A held : [IdleRunner EXCEPT !.step = "idle", !.held = held] = [same EXCEPT !.held = held]
  OBVIOUS
<1>3. [IdleRunner EXCEPT !.held = {}] = IdleRunner
  BY DEF IdleRunner
<1> HIDE DEF same
<1> QED
  BY <1>1, <1>2, <1>3

LEMMA HandlersStep ==
  ASSUME LInv, [LNext]_lvars
  PROVE  handler' \in [Runners -> Handler] /\ HandlersKnow'
<1> DEFINE Now(r) == BecomesKnowing(r, jobs', image', source')
<1>1. /\ TypeOK /\ handler \in [Runners -> Handler] /\ logo \in Logo
      /\ image \in [Gens -> BOOLEAN] /\ source \in [Gens -> Sources]
  BY DEF LInv, LTypeOK
<1>2. JobsAge /\ ObjectsAge
  BY StepAges
<1>3. ASSUME NEW r \in Runners
      PROVE  handler[r] \in Handler /\ handler[r].held \in SUBSET Jobs
             /\ Knows(handler[r], jobs, image, source)
             /\ Knows(handler[r], jobs', image', source')
  BY <1>1, <1>2, KnowsAges DEF LInv, HandlersKnow, Handler
<1>4. ASSUME NEW r \in Runners, NEW step \in {"idle", "closing"}, NEW held \in SUBSET Jobs,
             handler' = [handler EXCEPT ![r] = [IdleRunner EXCEPT !.step = step, !.held = held]]
      PROVE  Now(r)
  BY <1>4, IdleKnows DEF BecomesKnowing
<1>5. ASSUME NEW r \in Runners, handler[r].step \in InHook,
             handler' = [handler EXCEPT ![r] = Leave(handler[r])]
      PROVE  Now(r)
  BY <1>3, <1>5, LeaveKnows DEF BecomesKnowing
<1>6. ASSUME NEW r \in Runners, NEW j \in Jobs, AcquireJob(r, j) PROVE Now(r)
  <2> DEFINE new == [handler[r] EXCEPT !.step = "acquired", !.job = j]
  <2>1. new \in Handler /\ new.step = "acquired" /\ new.job = j
    BY <1>3 DEF Handler
  <2>2. handler' = [handler EXCEPT ![r] = new]
    BY <1>1, <1>6 DEF AcquireJob
  <2>3. jobs'[j].attempts > 0
    BY <1>1, <1>6, AcquireWrites DEF AcquireJob
  <2> HIDE DEF new
  <2>4. Knows(new, jobs', image', source')
    BY <2>1, <2>3 DEF Knows, Steps, InHook
  <2> QED
    BY <2>1, <2>2, <2>4 DEF BecomesKnowing
<1>7. ASSUME NEW r \in Runners, Prepared(r) PROVE Now(r)
  <2>1. handler[r].job \in Jobs /\ jobs'[handler[r].job].attempts > 0
    BY <1>3, <1>7 DEF Prepared, Knows, Steps
  <2>2. Earned("processing", handler[r].job, jobs', image')
    BY <2>1 DEF Earned
  <2> QED
    BY <1>1, <1>7, <2>1, <2>2, HookKnows DEF Prepared
<1>8. ASSUME NEW r \in Runners, Unprepared(r) PROVE Now(r)
  <2>1. handler[r].job \in Jobs
    BY <1>3, <1>8 DEF Unprepared, Knows, Steps
  <2>2. Earned("queued", handler[r].job, jobs', image')
    BY DEF Earned
  <2> QED
    BY <1>1, <1>8, <2>1, <2>2, HookKnows DEF Unprepared
<1>9. ASSUME NEW r \in Runners, LoadLogo(r) PROVE Now(r)
  <2> DEFINE h == handler[r]
             new == [h EXCEPT !.step = "save", !.copy = logo]
  <2>1. h.step = "load" /\ h.job \in Jobs /\ GenOf[h.job] \in Gens
    BY <1>3, <1>9, LogoAssumption DEF LoadLogo, Knows, Steps
  <2>2. CASE logo.gen = GenOf[h.job]
    <3>1. handler' = [handler EXCEPT ![r] = new]
      BY <1>1, <1>9, <2>2 DEF LoadLogo
    <3>2. /\ new \in Handler /\ new.step = "save" /\ new.copy = logo /\ new.job = h.job
          /\ new.status = h.status /\ new.after = h.after
      BY <1>1, <1>3 DEF Handler
    <3>3. source'[logo.gen] # "unborn"
      <4>1. logo.status # "none"
        BY <2>1, <2>2, LogoAssumption DEF LInv, LogoKnows
      <4>2. logo.gen \in Gens /\ source[logo.gen] # "unborn"
        BY <4>1 DEF LInv, LogoKnows
      <4> QED
        BY <1>2, <4>2 DEF ObjectsAge
    <3>4. h.after # "none" /\ Earned(h.status, h.job, jobs', image')
          /\ (h.after = "cleaning" => h.status = "ready")
      BY <1>3, <2>1 DEF Knows, InHook
    <3> HIDE DEF new
    <3>5. Knows(new, jobs', image', source')
      BY <2>1, <2>2, <3>2, <3>3, <3>4 DEF Knows, Steps, InHook
    <3> QED
      BY <3>1, <3>2, <3>5 DEF BecomesKnowing
  <2>3. CASE logo.gen # GenOf[h.job]
    BY <1>1, <1>5, <1>9, <2>1, <2>3 DEF LoadLogo, InHook
  <2> QED
    BY <2>2, <2>3
<1>10. ASSUME NEW r \in Runners, SaveLogo(r) PROVE Now(r)
  BY <1>1, <1>5, <1>10 DEF SaveLogo, InHook
<1>11. ASSUME NEW r \in Runners, HookFails(r) PROVE Now(r)
  <2>1. handler[r].step \in InHook
    BY <1>11 DEF HookFails, InHook
  <2>2. CASE handler[r].after = "closing"
    BY <1>1, <1>5, <1>11, <2>1, <2>2 DEF HookFails
  <2>3. CASE handler[r].after = "working"
    BY <1>1, <1>3, <1>4, <1>11, <2>3 DEF HookFails
  <2>4. CASE handler[r].after \notin {"working", "closing"}
    BY <1>1, <1>3, <1>4, <1>11, <2>4, AtRest DEF HookFails
  <2> QED
    BY <2>2, <2>3, <2>4
<1>12. ASSUME NEW r \in Runners, Convert(r) PROVE Now(r)
  <2> DEFINE h == handler[r]
             new == [h EXCEPT !.step = "converted"]
  <2>1. h.job \in Jobs /\ GenOf[h.job] \in Gens
    BY <1>3, <1>12, LogoAssumption DEF Convert, Knows, Steps
  <2>2. handler' = [handler EXCEPT ![r] = new]
    BY <1>1, <1>12 DEF Convert
  <2>3. new \in Handler /\ new.step = "converted" /\ new.job = h.job
    BY <1>3 DEF Handler
  <2>4. image'[GenOf[h.job]]
    BY <1>1, <1>12, <2>1 DEF Convert
  <2> HIDE DEF new
  <2>5. Knows(new, jobs', image', source')
    BY <2>1, <2>3, <2>4 DEF Knows, Steps, InHook
  <2> QED
    BY <2>2, <2>3, <2>5 DEF BecomesKnowing
<1>13. ASSUME NEW r \in Runners, ReportSuccess(r) PROVE Now(r)
  <2>1. handler[r].job \in Jobs /\ image'[GenOf[handler[r].job]]
    BY <1>3, <1>13 DEF ReportSuccess, Knows, Steps
  <2>2. jobs'[handler[r].job].state = "succeeded"
    BY <1>1, <1>13, <2>1, CompleteWrites DEF ReportSuccess
  <2>3. Earned("ready", handler[r].job, jobs', image')
    BY <2>1, <2>2 DEF Earned
  <2> QED
    BY <1>1, <1>13, <2>1, <2>3, HookKnows DEF ReportSuccess
<1>14. ASSUME NEW r \in Runners, ReportFailure(r) PROVE Now(r)
  <2> DEFINE status == IF jobs'[handler[r].job].state = "pending" THEN "queued" ELSE "failed"
  <2>1. handler[r].job \in Jobs
    BY <1>3, <1>14 DEF ReportFailure, Knows, Steps
  <2>2. jobs'[handler[r].job].state \in {"pending", "failed"}
    BY <1>1, <1>14, <2>1, FailWrites DEF ReportFailure
  <2>3. Earned(status, handler[r].job, jobs', image')
    BY <2>2 DEF Earned
  <2>4. Hook(r, handler[r].job, status, "idle")
    BY <1>14 DEF ReportFailure
  <2> HIDE DEF status
  <2> QED
    BY <1>1, <2>1, <2>3, <2>4, HookKnows
<1>15. ASSUME NEW r \in Runners,
              ReportRefused(r) \/ CleanUp(r) \/ LoseRunner(r) \/ Release(r) \/ HandlerDies(r)
       PROVE  Now(r)
  <2>3. CASE ReportRefused(r) \/ CleanUp(r)
    <3>1. PICK held \in SUBSET Jobs :
              handler' = [handler EXCEPT ![r] = [IdleRunner EXCEPT !.held = held]]
      BY <1>3, <2>3 DEF ReportRefused, CleanUp
    <3> QED
      BY <1>4, <3>1, AtRest
  <2>4. CASE LoseRunner(r)
    BY <1>3, <1>4, <2>4 DEF LoseRunner
  <2>5. CASE Release(r) \/ HandlerDies(r)
    <3>1. handler' = [handler EXCEPT ![r] = IdleRunner] /\ {} \in SUBSET Jobs
      BY <2>5 DEF Release, HandlerDies
    <3>2. handler' = [handler EXCEPT ![r] = [IdleRunner EXCEPT !.step = "idle", !.held = {}]]
      BY <3>1, AtRest
    <3> QED
      BY <1>4, <3>1, <3>2
  <2> QED
    BY <1>15, <2>3, <2>4, <2>5
<1>16. ASSUME NEW r \in Runners, NEW j \in Jobs, ResetHeld(r, j) PROVE Now(r)
  <2>1. Earned("queued", j, jobs', image')
    BY DEF Earned
  <2> QED
    BY <1>1, <1>16, <2>1, HookKnows DEF ResetHeld
<1> HIDE DEF Now
<1>17. (\E r \in Runners : Now(r)) \/ UNCHANGED handler
  <2>1. CASE \E r \in Runners :
               \/ \E j \in Jobs : AcquireJob(r, j) \/ ResetHeld(r, j)
               \/ Prepared(r) \/ Unprepared(r)
               \/ LoadLogo(r) \/ SaveLogo(r) \/ HookFails(r)
               \/ Convert(r) \/ ReportSuccess(r) \/ ReportFailure(r) \/ ReportRefused(r)
               \/ CleanUp(r) \/ LoseRunner(r) \/ Release(r) \/ HandlerDies(r)
    BY ONLY <1>6, <1>7, <1>8, <1>9, <1>10, <1>11, <1>12, <1>13, <1>14, <1>15, <1>16, <2>1
  <2>2. CASE \E j \in Jobs : LogoLeaseExpires(j) \/ LogoBecomesDue(j)
    BY <2>2 DEF LogoLeaseExpires, LogoBecomesDue
  <2>3. CASE \E g \in Gens : CreateUpload(g) \/ PutSource(g)
    BY <2>3 DEF CreateUpload, PutSource
  <2>4. CASE \E c \in Callers :
               \/ \E g \in Gens : LoadPending(c, g)
               \/ SaveQueued(c) \/ EnqueueLogo(c) \/ LoadActive(c) \/ SaveFailed(c) \/ CallEnds(c)
    BY <2>4 DEF LoadPending, SaveQueued, EnqueueLogo, LoadActive, SaveFailed, CallEnds
  <2>5. CASE UNCHANGED lvars
    BY <2>5 DEF lvars
  <2> QED
    BY <2>1, <2>2, <2>3, <2>4, <2>5 DEF LNext
<1> QED
  BY <1>2, <1>17, OthersGoOn DEF Now

-----------------------------------------------------------------------------
(* The document, the calls and the objects                                 *)

\* A step that neither saves the document nor queues a job: the calls that have an
\* upload to queue are among those that had it.
Quiet ==
    /\ UNCHANGED <<logo, raced>> /\ NothingQueued
    /\ \A c \in Callers :
          /\ call'[c].step \in {"saved", "unqueued", "reloaded"}
                => Queueing(c) /\ call'[c].gen = call[c].gen
          /\ call'[c].step = "saved" => call[c].step = "saved"

LEMMA StepKinds ==
  ASSUME LInv, [LNext]_lvars
  PROVE  \/ \E g \in Gens : CreateUpload(g)
         \/ \E c \in Callers : SaveQueued(c) \/ EnqueueLogo(c) \/ SaveFailed(c)
         \/ \E r \in Runners : SaveLogo(r)
         \/ Quiet
<1>1. call \in [Callers -> Call]
  BY DEF LInv, LTypeOK
<1>2. CASE \E c \in Callers : EnqueueLogo(c)
  BY <1>2
<1>3. CASE ~\E c \in Callers : EnqueueLogo(c)
  <2>1. NothingQueued
    BY <1>3, StepAges
  <2>2. UNCHANGED <<logo, raced, call>> => Quiet
    BY <2>1 DEF Quiet, Queueing
  <2>3. CASE \E g \in Gens : PutSource(g)
    BY <2>2, <2>3 DEF PutSource
  <2>4. ASSUME NEW c \in Callers, NEW g \in Gens, LoadPending(c, g) PROVE Quiet
    BY <1>1, <2>1, <2>4 DEF LoadPending, Quiet, Queueing
  <2>5. ASSUME NEW c \in Callers, LoadActive(c) PROVE Quiet
    <3>1. /\ \A d \in Callers \ {c} : call'[d] = call[d]
          /\ call'[c] \in {[call[c] EXCEPT !.step = "reloaded", !.copy = logo], IdleCall}
      BY <1>1, <2>5 DEF LoadActive
    <3>2. call[c] \in Call
      BY <1>1
    <3>3. (call'[c].step = "reloaded" /\ call'[c].gen = call[c].gen) \/ call'[c].step = "idle"
      <4> DEFINE again == [call[c] EXCEPT !.step = "reloaded", !.copy = logo]
      <4>1. again.step = "reloaded" /\ again.gen = call[c].gen /\ IdleCall.step = "idle"
        BY <3>2 DEF Call, IdleCall
      <4>2. call'[c] = again \/ call'[c] = IdleCall
        BY <3>1
      <4> HIDE DEF again
      <4> QED
        BY <4>1, <4>2
    <3>4. Queueing(c)
      BY <2>5 DEF LoadActive, Queueing
    <3> QED
      BY <2>1, <2>5, <3>1, <3>3, <3>4 DEF LoadActive, Quiet, Queueing
  <2>6. ASSUME NEW c \in Callers, CallEnds(c) PROVE Quiet
    BY <1>1, <2>1, <2>6 DEF CallEnds, Quiet, Queueing, IdleCall
  <2>7. ASSUME NEW r \in Runners,
               \/ \E j \in Jobs : AcquireJob(r, j) \/ ResetHeld(r, j)
               \/ Prepared(r) \/ Unprepared(r)
               \/ LoadLogo(r) \/ HookFails(r)
               \/ Convert(r) \/ ReportSuccess(r) \/ ReportFailure(r) \/ ReportRefused(r)
               \/ CleanUp(r) \/ LoseRunner(r) \/ Release(r) \/ HandlerDies(r)
        PROVE  UNCHANGED <<logo, raced, call>>
    BY <2>7 DEF AcquireJob, ResetHeld, Prepared, Unprepared, LoadLogo, HookFails, Convert,
                ReportSuccess, ReportFailure, ReportRefused, CleanUp, LoseRunner, Release,
                HandlerDies
  <2>8. ASSUME NEW j \in Jobs, LogoLeaseExpires(j) \/ LogoBecomesDue(j)
        PROVE  UNCHANGED <<logo, raced, call>>
    BY <2>8 DEF LogoLeaseExpires, LogoBecomesDue
  <2>9. UNCHANGED lvars => UNCHANGED <<logo, raced, call>>
    BY DEF lvars
  <2>10. \/ LNext \/ UNCHANGED lvars
    OBVIOUS
  <2> HIDE DEF Quiet
  <2> QED
    BY ONLY <1>3, <2>2, <2>3, <2>4, <2>5, <2>6, <2>7, <2>8, <2>9, <2>10 DEF LNext
<1> QED
  BY <1>2, <1>3

LEMMA TypeStep == ASSUME LInv, [LNext]_lvars PROVE LTypeOK'
<1>1. LTypeOK
  BY DEF LInv
<1>2. TypeOK' /\ handler' \in [Runners -> Handler]
  BY StepAges, HandlersStep DEF IInv, QueueInv
<1>3. ASSUME NEW copy \in Logo, NEW status \in {"queued", "failed", "processing", "ready"},
             Save(copy, status)
      PROVE  logo' \in Logo /\ raced' \in BOOLEAN
  BY <1>3 DEF Save, Logo
<1>4. Fault => faults' \in 0..MaxFaults
  BY <1>1, LogoAssumption DEF Fault, LTypeOK
<1>5. IdleCall \in Call
  BY DEF IdleCall, Call, NoLogo, Logo
<1>6. \A c \in Callers : call[c] \in Call
  BY <1>1 DEF LTypeOK
<1> DEFINE Rest == /\ logo' \in Logo /\ source' \in [Gens -> Sources]
                   /\ image' \in [Gens -> BOOLEAN] /\ call' \in [Callers -> Call]
                   /\ faults' \in 0..MaxFaults /\ raced' \in BOOLEAN
<1>7. Rest
  <2>1. CASE UNCHANGED lvars
    BY <1>1, <2>1 DEF lvars, LTypeOK
  <2>2. ASSUME NEW g \in Gens, CreateUpload(g) \/ PutSource(g) PROVE Rest
    BY <1>1, <2>2 DEF CreateUpload, PutSource, LTypeOK, Sources, Logo
  <2>3. ASSUME NEW c \in Callers, NEW g \in Gens, LoadPending(c, g) PROVE Rest
    BY <1>1, <2>3 DEF LoadPending, LTypeOK, Call
  <2>4. ASSUME NEW c \in Callers, SaveQueued(c) PROVE Rest
    <3>1. [call[c] EXCEPT !.step = "saved"] \in Call /\ call[c].copy \in Logo
      BY <1>6 DEF Call
    <3>2. call' \in [Callers -> Call]
      BY <1>1, <2>4, <3>1 DEF SaveQueued, LTypeOK
    <3> QED
      BY <1>1, <1>3, <2>4, <3>1, <3>2 DEF SaveQueued, LTypeOK
  <2>5. ASSUME NEW c \in Callers, EnqueueLogo(c) PROVE Rest
    <3>1. [call[c] EXCEPT !.step = "unqueued"] \in Call
      BY <1>6 DEF Call
    <3>2. call' \in [Callers -> Call]
      BY <1>1, <1>5, <2>5, <3>1 DEF EnqueueLogo, LTypeOK
    <3>3. faults' \in 0..MaxFaults
      BY <1>1, <1>4, <2>5 DEF EnqueueLogo, LTypeOK
    <3> QED
      BY <1>1, <2>5, <3>2, <3>3 DEF EnqueueLogo, LTypeOK
  <2>6. ASSUME NEW c \in Callers, LoadActive(c) PROVE Rest
    <3>1. [call[c] EXCEPT !.step = "reloaded", !.copy = logo] \in Call
      BY <1>1, <1>6 DEF Call, LTypeOK
    <3> QED
      BY <1>1, <1>5, <2>6, <3>1 DEF LoadActive, LTypeOK
  <2>7. ASSUME NEW c \in Callers, SaveFailed(c) \/ CallEnds(c) PROVE Rest
    <3>1. call[c].copy \in Logo
      BY <1>6 DEF Call
    <3> QED
      BY <1>1, <1>3, <1>4, <1>5, <2>7, <3>1 DEF SaveFailed, CallEnds, LTypeOK
  <2>8. ASSUME NEW r \in Runners, SaveLogo(r) PROVE Rest
    <3>1. handler[r].copy \in Logo /\ handler[r].status \in {"queued", "failed", "processing", "ready"}
      BY <1>1, <2>8 DEF LInv, LTypeOK, HandlersKnow, Knows, Earned, SaveLogo, InHook, Handler
    <3> QED
      BY <1>1, <1>3, <2>8, <3>1 DEF SaveLogo, LTypeOK
  <2>9. ASSUME NEW r \in Runners, Convert(r) \/ CleanUp(r) PROVE Rest
    BY <1>1, <1>4, <2>9 DEF Convert, CleanUp, LTypeOK, Sources
  <2>10. ASSUME NEW r \in Runners,
                \/ \E j \in Jobs : AcquireJob(r, j) \/ ResetHeld(r, j)
                \/ Prepared(r) \/ Unprepared(r) \/ LoadLogo(r) \/ HookFails(r)
                \/ ReportSuccess(r) \/ ReportFailure(r) \/ ReportRefused(r)
                \/ LoseRunner(r) \/ Release(r) \/ HandlerDies(r)
         PROVE  UNCHANGED <<logo, source, image, call, raced>> /\ (Fault \/ UNCHANGED faults)
    BY <2>10 DEF AcquireJob, ResetHeld, Prepared, Unprepared, LoadLogo, HookFails,
                 ReportSuccess, ReportFailure, ReportRefused, LoseRunner, Release, HandlerDies
  <2>11. ASSUME NEW j \in Jobs, LogoLeaseExpires(j) \/ LogoBecomesDue(j)
         PROVE  UNCHANGED <<logo, source, image, call, raced>> /\ (Fault \/ UNCHANGED faults)
    BY <2>11 DEF LogoLeaseExpires, LogoBecomesDue
  <2>12. UNCHANGED <<logo, source, image, call, raced>> /\ (Fault \/ UNCHANGED faults) => Rest
    BY <1>1, <1>4 DEF LTypeOK
  <2> HIDE DEF Rest
  <2>13. LNext \/ UNCHANGED lvars
    OBVIOUS
  <2> QED
    BY ONLY <2>1, <2>2, <2>3, <2>4, <2>5, <2>6, <2>7, <2>8, <2>9, <2>10, <2>11, <2>12, <2>13
       DEF LNext
<1> QED
  BY <1>2, <1>7 DEF LTypeOK

LEMMA CallsStep == ASSUME LInv, [LNext]_lvars PROVE CallsKnow'
<1>1. /\ call \in [Callers -> Call] /\ logo \in Logo /\ CallsKnow /\ LogoKnows
      /\ ObjectsAge
  BY StepAges DEF LInv, LTypeOK
<1>2. \A c \in Callers : Uploads(call[c], source')
  BY <1>1 DEF CallsKnow, Uploads, ObjectsAge
<1>3. Uploads(IdleCall, source')
  BY DEF Uploads, IdleCall
<1> DEFINE Informed == \E c \in Callers, new \in Call :
                           call' = [call EXCEPT ![c] = new] /\ Uploads(new, source')
<1>4. Informed => CallsKnow'
  BY <1>1, <1>2 DEF CallsKnow
<1>5. UNCHANGED call => CallsKnow'
  BY <1>2 DEF CallsKnow
<1>6. ASSUME NEW c \in Callers, NEW g \in Gens, LoadPending(c, g) PROVE Informed
  <2> DEFINE new == [step |-> "loaded", gen |-> g, copy |-> logo]
  <2>1. new \in Call /\ logo = [gen |-> g, status |-> "uploading"]
    BY <1>1, <1>6 DEF LoadPending, Call, Logo
  <2>2. source'[g] # "unborn"
    BY <1>1, <1>6 DEF LoadPending, LogoKnows, ObjectsAge
  <2>3. Uploads(new, source')
    BY <2>1, <2>2 DEF Uploads
  <2> QED
    BY <1>6, <2>1, <2>3 DEF LoadPending
<1>7. ASSUME NEW c \in Callers, NEW step \in {"saved", "unqueued"}, call[c].step # "idle",
             call' = [call EXCEPT ![c].step = step]
      PROVE  Informed
  <2> DEFINE new == [call[c] EXCEPT !.step = step]
  <2>1. new \in Call /\ new.step = step /\ new.gen = call[c].gen
    BY <1>1 DEF Call
  <2>2. call' = [call EXCEPT ![c] = new]
    BY <1>1, <1>7
  <2> HIDE DEF new
  <2>3. Uploads(new, source')
    BY <1>2, <1>7, <2>1 DEF Uploads
  <2> QED
    BY <2>1, <2>2, <2>3
<1>8. ASSUME NEW c \in Callers, call' = [call EXCEPT ![c] = IdleCall] PROVE Informed
  <2>1. IdleCall \in Call
    BY DEF IdleCall, Call, NoLogo, Logo
  <2> QED
    BY <1>3, <1>8, <2>1
<1>9. ASSUME NEW c \in Callers, LoadActive(c), logo.gen = call[c].gen PROVE Informed
  <2> DEFINE new == [call[c] EXCEPT !.step = "reloaded", !.copy = logo]
  <2>1. new \in Call /\ new.step = "reloaded" /\ new.gen = call[c].gen /\ new.copy = logo
    BY <1>1 DEF Call
  <2>2. call' = [call EXCEPT ![c] = new]
    BY <1>1, <1>9 DEF LoadActive
  <2>3. call[c].step # "idle"
    BY <1>9 DEF LoadActive
  <2> HIDE DEF new
  <2>4. Uploads(new, source')
    BY <1>2, <1>9, <2>1, <2>3 DEF Uploads
  <2> QED
    BY <2>1, <2>2, <2>4
<1> HIDE DEF Informed
<1>10. ASSUME NEW c \in Callers,
              SaveQueued(c) \/ EnqueueLogo(c) \/ LoadActive(c) \/ SaveFailed(c) \/ CallEnds(c)
       PROVE  Informed
  <2>1. CASE SaveQueued(c) \/ EnqueueLogo(c)
    BY <1>7, <1>8, <2>1 DEF SaveQueued, EnqueueLogo
  <2>2. CASE LoadActive(c)
    <3>1. CASE logo.gen # call[c].gen
      BY <1>1, <1>8, <2>2, <3>1 DEF LoadActive
    <3> QED
      BY <1>9, <2>2, <3>1
  <2>3. CASE SaveFailed(c) \/ CallEnds(c)
    BY <1>8, <2>3 DEF SaveFailed, CallEnds
  <2> QED
    BY <1>10, <2>1, <2>2, <2>3
<1>11. Informed \/ UNCHANGED call
  <2>1. CASE \E g \in Gens : CreateUpload(g) \/ PutSource(g)
    BY <2>1 DEF CreateUpload, PutSource
  <2>2. CASE \E r \in Runners :
               \/ \E j \in Jobs : AcquireJob(r, j) \/ ResetHeld(r, j)
               \/ Prepared(r) \/ Unprepared(r)
               \/ LoadLogo(r) \/ SaveLogo(r) \/ HookFails(r)
               \/ Convert(r) \/ ReportSuccess(r) \/ ReportFailure(r) \/ ReportRefused(r)
               \/ CleanUp(r) \/ LoseRunner(r) \/ Release(r) \/ HandlerDies(r)
    BY <2>2 DEF AcquireJob, ResetHeld, Prepared, Unprepared, LoadLogo, SaveLogo, HookFails,
                Convert, ReportSuccess, ReportFailure, ReportRefused, CleanUp, LoseRunner,
                Release, HandlerDies
  <2>3. CASE \E j \in Jobs : LogoLeaseExpires(j) \/ LogoBecomesDue(j)
    BY <2>3 DEF LogoLeaseExpires, LogoBecomesDue
  <2>4. CASE UNCHANGED lvars
    BY <2>4 DEF lvars
  <2> QED
    BY <1>6, <1>10, <2>1, <2>2, <2>3, <2>4 DEF LNext
<1> QED
  BY <1>4, <1>5, <1>11

\* The source is deleted after the queue has accepted the conversion, and nothing of it
\* is taken back.
LEMMA SourceStep == ASSUME LInv, [LNext]_lvars PROVE SourceOutlivesConversion' /\ JobsKnow'
<1>1. /\ JobsAge /\ ObjectsAge /\ (NothingQueued \/ \E c \in Callers : EnqueueLogo(c))
      /\ SourceOutlivesConversion /\ JobsKnow /\ HandlersKnow /\ CallsKnow /\ TypeOK
      /\ source \in [Gens -> Sources] /\ handler \in [Runners -> Handler]
  BY StepAges DEF LInv, LTypeOK
<1>2. ASSUME NEW g \in Gens, source'[g] = "deleted", source[g] # "deleted"
      PROVE  image[g] /\ \E j \in Jobs : GenOf[j] = g /\ jobs[j].state = "succeeded"
  <2>1. ASSUME NEW h \in Gens, CreateUpload(h) \/ PutSource(h) PROVE FALSE
    BY <1>1, <1>2, <2>1 DEF CreateUpload, PutSource
  <2>2. ASSUME NEW r \in Runners, CleanUp(r)
        PROVE  image[g] /\ \E j \in Jobs : GenOf[j] = g /\ jobs[j].state = "succeeded"
    <3>1. /\ handler[r].job \in Jobs /\ jobs[handler[r].job].state = "succeeded"
          /\ image[GenOf[handler[r].job]]
      BY <1>1, <2>2 DEF CleanUp, HandlersKnow, Knows, Steps
    <3>2. GenOf[handler[r].job] = g
      BY <1>1, <1>2, <2>2 DEF CleanUp
    <3> QED
      BY <3>1, <3>2
  <2>3. ASSUME NEW r \in Runners,
               \/ \E j \in Jobs : AcquireJob(r, j) \/ ResetHeld(r, j)
               \/ Prepared(r) \/ Unprepared(r)
               \/ LoadLogo(r) \/ SaveLogo(r) \/ HookFails(r)
               \/ Convert(r) \/ ReportSuccess(r) \/ ReportFailure(r) \/ ReportRefused(r)
               \/ LoseRunner(r) \/ Release(r) \/ HandlerDies(r)
        PROVE  UNCHANGED source
    BY <2>3 DEF AcquireJob, ResetHeld, Prepared, Unprepared, LoadLogo, SaveLogo, HookFails,
                Convert, ReportSuccess, ReportFailure, ReportRefused, LoseRunner, Release,
                HandlerDies
  <2>4. ASSUME NEW c \in Callers,
               \/ \E h \in Gens : LoadPending(c, h)
               \/ SaveQueued(c) \/ EnqueueLogo(c) \/ LoadActive(c) \/ SaveFailed(c) \/ CallEnds(c)
        PROVE  UNCHANGED source
    BY <2>4 DEF LoadPending, SaveQueued, EnqueueLogo, LoadActive, SaveFailed, CallEnds
  <2>5. ASSUME NEW j \in Jobs, LogoLeaseExpires(j) \/ LogoBecomesDue(j) PROVE UNCHANGED source
    BY <2>5 DEF LogoLeaseExpires, LogoBecomesDue
  <2>6. ~UNCHANGED source /\ LNext
    BY <1>2 DEF lvars
  <2> QED
    BY <2>1, <2>2, <2>3, <2>4, <2>5, <2>6 DEF LNext
<1>3. SourceOutlivesConversion'
  <2> SUFFICES ASSUME NEW g \in Gens, source'[g] = "deleted"
               PROVE  image'[g] /\ \E j \in Jobs : GenOf[j] = g /\ jobs'[j].state = "succeeded"
    BY DEF SourceOutlivesConversion
  <2>1. image[g] /\ \E j \in Jobs : GenOf[j] = g /\ jobs[j].state = "succeeded"
    BY <1>1, <1>2 DEF SourceOutlivesConversion
  <2> QED
    BY <1>1, <2>1 DEF ObjectsAge, JobsAge
<1>4. \A j \in Jobs : jobs'[j].state # "deleted"
  BY <1>1 DEF JobsAge
<1>5. ASSUME NEW j \in Jobs, jobs'[j].state # "absent" PROVE source'[GenOf[j]] # "unborn"
  <2>1. GenOf[j] \in Gens
    BY LogoAssumption
  <2>2. CASE Queued(j)
    BY <1>1, <2>1, <2>2 DEF JobsKnow, ObjectsAge
  <2>3. CASE ~Queued(j)
    <3>1. PICK c \in Callers : EnqueueLogo(c)
      BY <1>1, <1>5, <2>3 DEF NothingQueued
    <3>2. PICK i \in Jobs : GenOf[i] = call[c].gen /\ Enqueue(i)
      BY <1>5, <2>3, <3>1 DEF EnqueueLogo, Queued
    <3>3. i = j
      BY <1>1, <1>5, <2>3, <3>2, EnqueueWrites DEF Others, Queued
    <3>4. source[call[c].gen] # "unborn"
      BY <1>1, <3>1 DEF CallsKnow, Uploads, EnqueueLogo
    <3> QED
      BY <1>1, <2>1, <3>2, <3>3, <3>4 DEF ObjectsAge
  <2> QED
    BY <2>2, <2>3
<1>6. JobsKnow'
  BY <1>4, <1>5 DEF JobsKnow, Queued
<1> QED
  BY <1>3, <1>6

\* What the document claims stays true, and a save claims what is known by who saves.
LEMMA LogoStep == ASSUME LInv, [LNext]_lvars PROVE LogoKnows'
<1>1. /\ JobsAge /\ ObjectsAge /\ TypeOK /\ logo \in Logo /\ raced \in BOOLEAN
      /\ call \in [Callers -> Call] /\ handler \in [Runners -> Handler]
      /\ LogoKnows /\ CallsKnow /\ OneWayToTheJob /\ HandlersKnow
  BY StepAges DEF LInv, LTypeOK
<1>2. ASSUME NEW j \in Jobs
      PROVE  /\ jobs[j].attempts > 0 => jobs'[j].attempts > 0
             /\ jobs[j].state = "succeeded" => jobs'[j].state = "succeeded"
             /\ jobs[j].state = "failed" => jobs'[j].state = "failed"
             /\ image[GenOf[j]] => image'[GenOf[j]]
  <2>1. jobs[j].attempts \in Nat /\ jobs'[j].attempts \in Nat /\ GenOf[j] \in Gens
    BY <1>1, LogoAssumption DEF TypeOK, JobsAge, Row
  <2> QED
    BY <1>1, <2>1 DEF JobsAge, ObjectsAge
<1>3. CASE \E g \in Gens : CreateUpload(g)
  <2>1. PICK g \in Gens : CreateUpload(g)
    BY <1>3
  <2>2. source'[g] # "unborn" /\ logo' = [gen |-> g, status |-> "uploading"]
    BY <2>1 DEF CreateUpload, LInv, LTypeOK
  <2> QED
    BY <2>2 DEF LogoKnows
<1>4. ASSUME NEW c \in Callers, SaveQueued(c) PROVE LogoKnows'
  <2>1. /\ call[c].gen \in Gens /\ source'[call[c].gen] # "unborn"
        /\ call[c].copy = [gen |-> call[c].gen, status |-> "uploading"]
    BY <1>1, <1>4 DEF SaveQueued, CallsKnow, Uploads, ObjectsAge
  <2>2. logo'.gen = call[c].gen /\ logo'.status = "queued"
    BY <1>4, <2>1 DEF SaveQueued, Save
  <2> QED
    BY <2>1, <2>2 DEF LogoKnows
<1>5. ASSUME NEW c \in Callers, SaveFailed(c) PROVE LogoKnows'
  <2>1. /\ call[c].gen \in Gens /\ source'[call[c].gen] # "unborn"
        /\ call[c].copy \in Logo /\ call[c].copy.gen = call[c].gen
    BY <1>1, <1>5 DEF SaveFailed, CallsKnow, Uploads, ObjectsAge, Call
  <2>2. logo'.gen = call[c].gen /\ logo'.status = "failed"
    BY <1>5, <2>1 DEF SaveFailed, Save, Logo
  <2>3. ASSUME ~raced'
        PROVE  /\ \A j \in Jobs : GenOf[j] = logo'.gen => jobs'[j].state = "absent"
               /\ \A d \in Callers : call'[d].step = "saved" => call'[d].gen # logo'.gen
    <3>1. ~raced /\ Queueing(c) /\ jobs' = jobs /\ call' = [call EXCEPT ![c] = IdleCall]
      BY <1>5, <2>3 DEF SaveFailed, Save, Queueing
    <3>2. \A d \in Callers : Queueing(d) /\ call[d].gen = call[c].gen => d = c
      BY <1>1, <3>1 DEF OneWayToTheJob
    <3>3. \A j \in Jobs : GenOf[j] = call[c].gen => jobs[j].state = "absent"
      BY <1>1, <3>1 DEF OneWayToTheJob, Queued
    <3> QED
      BY <1>1, <2>2, <3>1, <3>2, <3>3 DEF Queueing, IdleCall
  <2> QED
    BY <2>1, <2>2, <2>3 DEF LogoKnows, Queued
<1>6. ASSUME NEW r \in Runners, SaveLogo(r) PROVE LogoKnows'
  <2> DEFINE h == handler[r]
  <2>1. /\ h.job \in Jobs /\ GenOf[h.job] \in Gens /\ h.copy.gen = GenOf[h.job]
        /\ h.copy \in Logo /\ source[h.copy.gen] # "unborn"
        /\ Earned(h.status, h.job, jobs, image)
    BY <1>1, <1>6, LogoAssumption DEF SaveLogo, HandlersKnow, Knows, Steps, InHook, Handler
  <2>2. /\ logo'.gen = GenOf[h.job] /\ logo'.status = h.status
        /\ h.status \in {"processing", "queued", "failed", "ready"}
    BY <1>6, <2>1 DEF SaveLogo, Save, Logo, Earned
  <2>3. source'[GenOf[h.job]] # "unborn"
    BY <1>1, <2>1 DEF ObjectsAge
  <2>4. /\ h.status = "processing" => jobs'[h.job].attempts > 0
        /\ h.status = "failed" => jobs'[h.job].state = "failed"
        /\ h.status = "ready" => jobs'[h.job].state = "succeeded" /\ image'[GenOf[h.job]]
    BY <1>2, <2>1 DEF Earned
  <2> HIDE DEF h
  <2> QED
    BY <2>1, <2>2, <2>3, <2>4 DEF LogoKnows
<1>7. ASSUME UNCHANGED <<logo, raced>>,
             \A j \in Jobs : GenOf[j] = logo.gen /\ jobs'[j].state # "absent"
                => Queued(j) \/ logo.status # "failed" \/ raced
                   \/ \E c \in Callers : call[c].step = "saved" /\ call[c].gen = logo.gen,
             \A c \in Callers : call'[c].step = "saved"
                => call[c].step = "saved" /\ call'[c].gen = call[c].gen
      PROVE  LogoKnows'
  <2>1. /\ logo.status # "none" => logo.gen \in Gens /\ source'[logo.gen] # "unborn"
        /\ logo.status = "none" => logo.gen = NoGen
    BY <1>1 DEF LogoKnows, ObjectsAge
  <2>2. logo.status = "processing" => \E j \in Jobs : GenOf[j] = logo.gen /\ jobs'[j].attempts > 0
    BY <1>1, <1>2 DEF LogoKnows
  <2>3. logo.status = "ready" => \E j \in Jobs :
            GenOf[j] = logo.gen /\ jobs'[j].state = "succeeded" /\ image'[GenOf[j]]
    BY <1>1, <1>2 DEF LogoKnows
  <2>4. CASE logo.status # "failed" \/ raced \/ \E j \in Jobs : GenOf[j] = logo.gen /\ jobs[j].state = "failed"
    BY <1>2, <1>7, <2>1, <2>2, <2>3, <2>4 DEF LogoKnows
  <2>5. CASE /\ logo.status = "failed" /\ ~raced
             /\ \A j \in Jobs : GenOf[j] = logo.gen => ~Queued(j)
             /\ \A c \in Callers : call[c].step = "saved" => call[c].gen # logo.gen
    <3>1. \A j \in Jobs : GenOf[j] = logo.gen => jobs'[j].state = "absent"
      BY <1>7, <2>5
    <3>2. \A c \in Callers : call'[c].step = "saved" => call'[c].gen # logo.gen
      BY <1>7, <2>5
    <3> QED
      BY <1>7, <2>1, <2>5, <3>1, <3>2 DEF LogoKnows, Queued
  <2> QED
    BY <1>1, <2>4, <2>5 DEF LogoKnows
<1>8. ASSUME NEW c \in Callers, EnqueueLogo(c) PROVE LogoKnows'
  <2>1. UNCHANGED <<logo, raced>> /\ call[c].step = "saved"
    BY <1>8 DEF EnqueueLogo
  <2>2. \A d \in Callers : call'[d].step = "saved" => call[d].step = "saved" /\ call'[d].gen = call[d].gen
    <3>1. (\A d \in Callers \ {c} : call'[d] = call[d]) /\ call[c] \in Call
      BY <1>1, <1>8 DEF EnqueueLogo
    <3>2. call'[c].step # "saved"
      BY <1>1, <1>8, <3>1 DEF EnqueueLogo, IdleCall, Call
    <3> QED
      BY <2>1, <3>1, <3>2
  <2>3. ASSUME NEW j \in Jobs, jobs'[j].state # "absent", ~Queued(j) PROVE GenOf[j] = call[c].gen
    <3>1. PICK i \in Jobs : GenOf[i] = call[c].gen /\ Enqueue(i)
      BY <1>8, <2>3 DEF EnqueueLogo, Queued
    <3> QED
      BY <1>1, <2>3, <3>1, EnqueueWrites DEF Others, Queued
  <2> QED
    BY <1>7, <2>1, <2>2, <2>3
<1>9. ASSUME Quiet PROVE LogoKnows'
  <2>1. \A c \in Callers : call'[c].step = "saved"
             => call[c].step = "saved" /\ call'[c].gen = call[c].gen
    BY <1>9 DEF Quiet
  <2>2. UNCHANGED <<logo, raced>> /\ \A j \in Jobs : jobs'[j].state # "absent" => Queued(j)
    BY <1>9 DEF Quiet, NothingQueued
  <2> QED
    BY <1>7, <2>1, <2>2
<1> QED
  BY <1>3, <1>4, <1>5, <1>6, <1>8, <1>9, StepKinds

\* Without a race an upload keeps its one way to the job.
LEMMA OneWayStep == ASSUME LInv, [LNext]_lvars PROVE OneWayToTheJob'
<1> SUFFICES ASSUME ~raced' PROVE OneWayToTheJob'
  BY DEF OneWayToTheJob
<1>1. /\ TypeOK /\ logo \in Logo /\ raced \in BOOLEAN /\ JobsKnow
      /\ call \in [Callers -> Call] /\ handler \in [Runners -> Handler]
      /\ LogoKnows /\ CallsKnow /\ OneWayToTheJob /\ HandlersKnow
  BY DEF LInv, LTypeOK
<1>2. ~raced
  <2>1. CASE \E g \in Gens : CreateUpload(g)
    BY <2>1 DEF CreateUpload
  <2>2. CASE \E c \in Callers : SaveQueued(c) \/ EnqueueLogo(c) \/ SaveFailed(c)
    BY <2>2 DEF SaveQueued, EnqueueLogo, SaveFailed, Save
  <2>3. CASE \E r \in Runners : SaveLogo(r)
    BY <2>3 DEF SaveLogo, Save
  <2> QED
    BY <2>1, <2>2, <2>3, StepKinds DEF Quiet
<1>3. /\ \A c, d \in Callers : Queueing(c) /\ Queueing(d) /\ call[c].gen = call[d].gen => c = d
      /\ \A c \in Callers, j \in Jobs : Queueing(c) /\ call[c].gen = GenOf[j] => ~Queued(j)
      /\ \A i, j \in Jobs : Queued(i) /\ Queued(j) /\ GenOf[i] = GenOf[j] => i = j
      /\ logo.status = "uploading" =>
            /\ \A c \in Callers : Queueing(c) => call[c].gen # logo.gen
            /\ \A j \in Jobs : Queued(j) => GenOf[j] # logo.gen
  BY <1>1, <1>2 DEF OneWayToTheJob
<1> DEFINE Going(c) == call'[c].step \in {"saved", "unqueued", "reloaded"}
<1>4. ASSUME \A c \in Callers : Going(c) => Queueing(c) /\ call'[c].gen = call[c].gen,
             NothingQueued,
             logo'.status = "uploading" => logo' = logo
      PROVE  OneWayToTheJob'
  BY <1>3, <1>4 DEF OneWayToTheJob, Queueing, Queued, NothingQueued
<1>5. UNCHANGED jobs => NothingQueued
  BY DEF NothingQueued, Queued
<1>6. ASSUME NEW g \in Gens, CreateUpload(g) PROVE OneWayToTheJob'
  <2>1. source[g] = "unborn" /\ UNCHANGED <<jobs, call>> /\ logo'.gen = g
    BY <1>6 DEF CreateUpload
  <2>2. \A c \in Callers : Queueing(c) => call[c].gen # g
    BY <1>1, <2>1 DEF CallsKnow, Uploads, Queueing
  <2>3. \A j \in Jobs : Queued(j) => GenOf[j] # g
    BY <1>1, <2>1 DEF JobsKnow
  <2> QED
    BY <1>3, <2>1, <2>2, <2>3 DEF OneWayToTheJob, Queueing, Queued
<1>7. ASSUME NEW c \in Callers, SaveQueued(c) PROVE OneWayToTheJob'
  <2>1. /\ call[c].copy = logo /\ logo = [gen |-> call[c].gen, status |-> "uploading"]
        /\ logo'.status = "queued" /\ UNCHANGED jobs
    BY <1>1, <1>7 DEF SaveQueued, Save, CallsKnow, Uploads, Logo
  <2>2. /\ \A d \in Callers \ {c} : call'[d] = call[d]
        /\ call'[c].gen = call[c].gen /\ call[c] \in Call
    BY <1>1, <1>7 DEF SaveQueued, Call
  <2>3. /\ \A d \in Callers : Queueing(d) => call[d].gen # call[c].gen
        /\ \A j \in Jobs : Queued(j) => GenOf[j] # call[c].gen
    BY <1>3, <2>1
  <2> QED
    BY <1>3, <2>1, <2>2, <2>3 DEF OneWayToTheJob, Queueing, Queued
<1>8. ASSUME NEW c \in Callers, EnqueueLogo(c) PROVE OneWayToTheJob'
  <2>1. Queueing(c) /\ UNCHANGED <<logo, raced>>
    BY <1>8 DEF EnqueueLogo, Queueing
  <2>2. CASE \E j \in Jobs : GenOf[j] = call[c].gen /\ Enqueue(j)
    <3>1. PICK j \in Jobs : GenOf[j] = call[c].gen /\ Enqueue(j)
      BY <2>2
    <3>2. \A k \in Jobs : jobs'[k].state # "absent" => k = j \/ Queued(k)
      BY <1>1, <3>1, EnqueueWrites DEF Others, Queued
    <3>3. call' = [call EXCEPT ![c] = IdleCall]
      BY <1>8, <2>2, <3>1, EnqueueWrites, <1>1 DEF EnqueueLogo
    <3>4. \A d \in Callers : Going(d) => d # c /\ Queueing(d) /\ call'[d].gen = call[d].gen
      BY <1>1, <3>3 DEF IdleCall, Queueing
    <3>5. \A k \in Jobs : Queued(k) => GenOf[k] # call[c].gen
      BY <1>3, <2>1
    <3>6. \A d \in Callers : Going(d) => call'[d].gen # GenOf[j]
      BY <1>3, <2>1, <3>1, <3>4
    <3>7. logo.status = "uploading" => GenOf[j] # logo.gen
      BY <1>3, <2>1, <3>1
    <3> QED
      BY <1>3, <2>1, <3>1, <3>2, <3>4, <3>5, <3>6, <3>7 DEF OneWayToTheJob, Queueing, Queued
  <2>3. CASE call' = [call EXCEPT ![c].step = "unqueued"] /\ UNCHANGED jobs
    <3>1. call[c] \in Call
      BY <1>1
    <3>2. \A d \in Callers : Going(d) => Queueing(d) /\ call'[d].gen = call[d].gen
      BY <1>1, <2>1, <2>3, <3>1 DEF Queueing, Call
    <3> QED
      BY <1>4, <1>5, <2>1, <2>3, <3>2
  <2> QED
    BY <1>8, <2>2, <2>3 DEF EnqueueLogo
<1>9. ASSUME NEW c \in Callers, SaveFailed(c) PROVE OneWayToTheJob'
  <2>1. call[c].copy \in Logo /\ UNCHANGED jobs /\ call' = [call EXCEPT ![c] = IdleCall]
    BY <1>1, <1>9 DEF SaveFailed, Call
  <2>2. logo'.status = "failed"
    BY <1>9, <2>1 DEF SaveFailed, Save, Logo
  <2>3. \A d \in Callers : Going(d) => Queueing(d) /\ call'[d].gen = call[d].gen
    BY <1>1, <2>1 DEF Queueing, IdleCall
  <2> QED
    BY <1>4, <1>5, <2>1, <2>2, <2>3
<1>10. ASSUME NEW r \in Runners, SaveLogo(r) PROVE OneWayToTheJob'
  <2>1. /\ handler[r].copy \in Logo
        /\ handler[r].status \in {"processing", "queued", "failed", "ready"}
    BY <1>1, <1>10 DEF SaveLogo, HandlersKnow, Knows, InHook, Earned, Handler
  <2>2. logo'.status # "uploading" /\ UNCHANGED <<jobs, call>>
    BY <1>10, <2>1 DEF SaveLogo, Save, Logo
  <2> QED
    BY <1>4, <1>5, <2>2 DEF Queueing
<1>11. ASSUME Quiet PROVE OneWayToTheJob'
  BY <1>4, <1>11 DEF Quiet
<1> QED
  BY <1>6, <1>7, <1>8, <1>9, <1>10, <1>11, StepKinds

-----------------------------------------------------------------------------
(* The invariant and the theorems                                          *)

LEMMA InitLInv == LInit => LInv
<1> SUFFICES ASSUME LInit PROVE LInv
  OBVIOUS
<1>1. IInv
  BY InitIInv DEF LInit
<1>2. IdleCall \in Call /\ IdleRunner \in Handler /\ NoLogo \in Logo
  BY DEF IdleCall, Call, IdleRunner, Handler, NoLogo, Logo
<1>3. LTypeOK
  <2>1. TypeOK /\ logo \in Logo /\ call \in [Callers -> Call] /\ handler \in [Runners -> Handler]
    BY <1>1, <1>2 DEF LInit, IInv, QueueInv
  <2>2. source \in [Gens -> Sources] /\ image \in [Gens -> BOOLEAN]
    BY DEF LInit, Sources
  <2>3. faults \in 0..MaxFaults
    BY LogoAssumption DEF LInit
  <2>4. raced \in BOOLEAN
    BY DEF LInit
  <2> QED
    BY <2>1, <2>2, <2>3, <2>4 DEF LTypeOK
<1>4. \A j \in Jobs : jobs[j].state = "absent"
  BY DEF LInit, Init, Unborn
<1>5. HandlersKnow
  <2>1. IdleRunner.step = "idle" /\ \A r \in Runners : handler[r] = IdleRunner
    BY DEF LInit, IdleRunner
  <2> QED
    BY <2>1 DEF HandlersKnow, Knows, Steps, InHook
<1>6. CallsKnow
  <2>1. IdleCall.step = "idle" /\ \A c \in Callers : call[c] = IdleCall
    BY DEF LInit, IdleCall
  <2> QED
    BY <2>1 DEF CallsKnow, Uploads
<1>7. LogoKnows
  BY DEF LInit, LogoKnows, NoLogo
<1>8. JobsKnow /\ SourceOutlivesConversion
  BY <1>4 DEF JobsKnow, Queued, SourceOutlivesConversion, LInit
<1>9. OneWayToTheJob
  BY <1>4 DEF OneWayToTheJob, Queueing, Queued, LInit, IdleCall, NoLogo
<1> QED
  BY <1>1, <1>3, <1>5, <1>6, <1>7, <1>8, <1>9 DEF LInv

LEMMA StepLInv == LInv /\ [LNext]_lvars => LInv'
<1> SUFFICES ASSUME LInv, [LNext]_lvars PROVE LInv'
  OBVIOUS
<1>1. IInv' /\ LTypeOK' /\ HandlersKnow' /\ CallsKnow'
  BY StepAges, TypeStep, HandlersStep, CallsStep
<1>2. LogoKnows' /\ JobsKnow' /\ SourceOutlivesConversion' /\ OneWayToTheJob'
  BY LogoStep, SourceStep, OneWayStep
<1> QED
  BY <1>1, <1>2 DEF LInv

\* The inductive invariant: what document, calls and handlers know of each other.
THEOREM LogoInvariant == LogoSpec => []LInv
  BY InitLInv, StepLInv, PTL DEF LogoSpec

\* The document, its objects, the calls and the handlers always have their types.
THEOREM LogoTypeCorrect == LogoSpec => []LTypeOK
<1>1. LInv => LTypeOK
  BY DEF LInv
<1> QED
  BY <1>1, LogoInvariant, PTL

\* Whatever the procedures and the media hooks do to the jobs, the queue would allow:
\* what JobQueueProofs shows of the queue holds of the jobs of a logo.
THEOREM LogoUsesTheQueue == LogoSpec => QueueSpec
<1>1. LInit => Init
  BY DEF LInit
<1>2. LInv /\ [LNext]_lvars => [QueueStep]_jobs
  BY StepAges
<1> QED
  BY <1>1, <1>2, LogoInvariant, PTL DEF LogoSpec, QueueSpec

\* A logo shown as ready can be downloaded, whichever documents overwrote each other
\* (set_logo_status saves "ready" only for the generation of a converted job).
THEOREM ReadyLogosAreStored == LogoSpec => []ReadyHasImage
<1>1. LInv => ReadyHasImage
  BY DEF LInv, LogoKnows, ReadyHasImage
<1> QED
  BY <1>1, LogoInvariant, PTL

\* The uploaded source is deleted only after its image is stored and its job succeeded.
THEOREM SourcesOutliveConversions == LogoSpec => []SourceOutlivesConversion
<1>1. LInv => SourceOutlivesConversion
  BY DEF LInv
<1> QED
  BY <1>1, LogoInvariant, PTL

\* What the document reports is what became of a job of its own generation, although
\* jobs of superseded generations go on reporting and being reset.
THEOREM TheOwnJobsDecide == LogoSpec => []OwnJobsDecide
<1>1. LInv => OwnJobsDecide
  <2> SUFFICES ASSUME LInv PROVE OwnJobsDecide
    OBVIOUS
  <2>1. \A j \in Jobs : jobs[j].attempts > 0 => jobs[j].state # "absent"
    <3> SUFFICES ASSUME NEW j \in Jobs, jobs[j].state = "absent" PROVE jobs[j].attempts = 0
      BY DEF LInv, LTypeOK, TypeOK, Row
    <3> QED
      BY DEF LInv, IInv, UnbornRowsAreFresh, Unborn
  <2> DEFINE own == {j \in Jobs : GenOf[j] = logo.gen /\ jobs[j].state # "absent"}
  <2>2. logo.status = "processing" => \E j \in own : jobs[j].attempts > 0
    BY <2>1 DEF LInv, LogoKnows
  <2>3. logo.status = "ready" => \E j \in own : jobs[j].state = "succeeded"
    BY DEF LInv, LogoKnows
  <2>4. logo.status = "failed" => raced \/ own = {} \/ \E j \in own : jobs[j].state = "failed"
    BY DEF LInv, LogoKnows, Queued
  <2> QED
    BY <2>2, <2>3, <2>4 DEF OwnJobsDecide
<1> QED
  BY <1>1, LogoInvariant, PTL

\* Unless a save has undone another's change, an upload is queued at most once, however
\* many calls of completeUpload are under way.
THEOREM UploadsAreQueuedOnce == LogoSpec => []QueuedOnce
<1>1. LInv => QueuedOnce
  <2> SUFFICES ASSUME LInv, ~raced, NEW g \in Gens
               PROVE  Cardinality({j \in Jobs : GenOf[j] = g /\ jobs[j].state # "absent"}) <= 1
    BY DEF LInv, LTypeOK, QueuedOnce
  <2> DEFINE own == {j \in Jobs : GenOf[j] = g /\ jobs[j].state # "absent"}
  <2>1. \A i, j \in own : i = j
    BY DEF LInv, OneWayToTheJob, Queued
  <2>2. CASE own = {}
    BY <2>2, FS_EmptySet
  <2>3. ASSUME NEW j \in own PROVE Cardinality(own) <= 1
    <3>1. own = {j}
      BY <2>1
    <3> QED
      BY <3>1, FS_Singleton
  <2> QED
    BY <2>2, <2>3
<1> QED
  BY <1>1, LogoInvariant, PTL
=============================================================================
