-------------------------- MODULE JobRunnersProofs --------------------------
(***************************************************************************)
(* Proofs about the job runners' connections and the thumbnails, for any   *)
(* number of jobs, files, runners, connections and faults: the safety      *)
(* properties of JobRunners.tla.                                           *)
(*                                                                         *)
(* Linked says how a connection and the runner at its other end fit        *)
(* together: which call can be in the inbox, and where the handler is,     *)
(* given what the runner waits for.  ReportsKnow says what a handler that  *)
(* has dealt with a report knows of the job.  Calm says what holds until   *)
(* the first fault: who works on a job has its lease, and a handler knows  *)
(* what has become of the job it was about to hand out or to put back.     *)
(***************************************************************************)
EXTENDS JobRunners, JobQueueProofs

\* The positions of a handler at which it has a job at hand.
Preparing == {"acquired", "unprepared"}
Reported  == {"completed", "requeued", "failed"}

Call(m) == m.kind # "heartbeat"

Clear(s) == \A i \in 1..Len(s) : ~Call(s[i])

\* A connection by itself: with whom, and at which position a job is at hand.
Shape(k) ==
    /\ k.step = "free" => ~k.up
    /\ k.step = "closing" => ~k.up
    /\ k.step # "free" => k.runner \in Runners
    /\ k.step \in Preparing \cup Reported <=> k.job # NoJob

\* What is in the inbox s fits what the runner w waits for.
InboxFits(s, w) ==
    /\ \A i \in 1..Len(s) :
          /\ s[i].kind = "acquire" => w.phase = "acquiring" /\ s[i].job = w.job
          /\ s[i].kind \in {"complete", "fail"} => w.phase = "reporting" /\ s[i].job = w.job
    /\ \A i, n \in 1..Len(s) : Call(s[i]) /\ Call(s[n]) => i = n

\* An open connection k, number c, and the runner w at its other end.
Fits(c, k, w) ==
    /\ w.conn = c /\ w.phase # "offline"
    /\ InboxFits(k.inbox, w)
    /\ k.step # "serving" => Clear(k.inbox)
    /\ k.step \in Preparing => w.phase = "acquiring" /\ k.job = w.job
    /\ k.step \in Reported => w.phase = "reporting" /\ k.job = w.job
    /\ w.phase \in {"working", "reporting"} => w.job \in k.held

Linked ==
    /\ \A c \in Conns :
          /\ Shape(conn[c])
          /\ conn[c].up => conn[c].runner \in Runners /\ Fits(c, conn[c], runner[conn[c].runner])
    /\ \A r \in Runners : runner[r].phase # "offline"
          => /\ runner[r].conn \in Conns
             /\ conn[runner[r].conn].up /\ conn[runner[r].conn].runner = r

\* Withdrawn with its file, and thereby failed for good.
Withdrawn(j) == jobs[j].error = "project_file_deleted"

ReportsKnow ==
    /\ \A j \in Jobs : jobs[j].state # "deleted" /\ (Withdrawn(j) => jobs[j].state = "failed")
    /\ \A c \in Conns : conn[c].step = "completed" => jobs[conn[c].job].state = "succeeded"

\* Nobody else can get at the job.
Owns(r, j) ==
    jobs[j].state = "processing" /\ jobs[j].runner = r /\ jobs[j].lease = "live"

\* Back in the queue, and not yet due.
PutBack(j) == jobs[j].state = "pending" /\ ~jobs[j].due

Calm ==
    /\ \A c \in Conns : conn[c].step # "free" => conn[c].up
    /\ \A r \in Runners : runner[r].phase = "working"
          => Owns(r, runner[r].job) \/ Withdrawn(runner[r].job)
    /\ \A c \in Conns :
          /\ conn[c].step = "acquired"
                => Owns(conn[c].runner, conn[c].job) \/ Withdrawn(conn[c].job)
          /\ conn[c].step = "unprepared"
                => \/ PutBack(conn[c].job) \/ Withdrawn(conn[c].job)
                   \/ jobs[conn[c].job].state = "failed" /\ jobs[conn[c].job].error = "unprepared"
          /\ conn[c].step = "requeued"
                => PutBack(conn[c].job) \/ Withdrawn(conn[c].job)
    /\ \A j \in Jobs : Withdrawn(j) => thumb[FileOf[j]] = "gone" \/ "delete" \in procs[FileOf[j]]

RInv ==
    /\ IInv /\ RTypeOK /\ Linked /\ ReportsKnow /\ ReadyOnlyAfterSuccess
    /\ faults = 0 => Calm /\ ProgressHasASource

-----------------------------------------------------------------------------
(* Inboxes                                                                 *)

LEMMA AppendIs ==
  ASSUME NEW s \in Seq(Message), NEW m \in Message
  PROVE  /\ Append(s, m) \in Seq(Message) /\ Len(Append(s, m)) = Len(s) + 1
         /\ \A i \in 1..Len(s) : Append(s, m)[i] = s[i]
         /\ Append(s, m)[Len(s) + 1] = m
         /\ Len(s) \in Nat
  OBVIOUS

LEMMA TailIs ==
  ASSUME NEW s \in Seq(Message), s # <<>>
  PROVE  /\ Tail(s) \in Seq(Message) /\ Len(Tail(s)) = Len(s) - 1
         /\ Len(s) \in Nat /\ Len(s) >= 1 /\ Head(s) = s[1]
         /\ \A i \in 1..Len(s) - 1 : Tail(s)[i] = s[i + 1]
  OBVIOUS

\* Without calls, an inbox fits any runner.
LEMMA ClearFits ==
  ASSUME NEW s, Clear(s), NEW w
  PROVE  InboxFits(s, w)
  BY DEF Clear, InboxFits, Call

\* A runner that waits for nothing has no call in the inbox.
LEMMA IdleClear ==
  ASSUME NEW s \in Seq(Message), NEW w, InboxFits(s, w), w.phase \notin {"acquiring", "reporting"}
  PROVE  Clear(s)
<1> SUFFICES ASSUME NEW i \in 1..Len(s) PROVE ~Call(s[i])
  BY DEF Clear
<1>1. s[i] \in Message
  OBVIOUS
<1> QED
  BY <1>1 DEF InboxFits, Call, Message

\* Sending: a call into a clear inbox, or a heartbeat.
LEMMA SendFits ==
  ASSUME NEW s \in Seq(Message), NEW m \in Message, NEW w,
         \/ /\ Clear(s) /\ m.job = w.job
            /\ m.kind = "acquire" => w.phase = "acquiring"
            /\ m.kind \in {"complete", "fail"} => w.phase = "reporting"
         \/ InboxFits(s, w) /\ m.kind = "heartbeat"
  PROVE  InboxFits(Append(s, m), w)
<1> DEFINE t == Append(s, m)
<1>1. /\ Len(t) = Len(s) + 1 /\ Len(s) \in Nat /\ t[Len(s) + 1] = m
      /\ \A i \in 1..Len(s) : t[i] = s[i]
  BY AppendIs
<1> HIDE DEF t
<1>2. \A i \in 1..Len(t) : (i \in 1..Len(s) /\ t[i] = s[i]) \/ (i = Len(s) + 1 /\ t[i] = m)
  BY <1>1
<1>3. InboxFits(s, w)
  BY ClearFits
<1>4. \A i \in 1..Len(t) :
          /\ t[i].kind = "acquire" => w.phase = "acquiring" /\ t[i].job = w.job
          /\ t[i].kind \in {"complete", "fail"} => w.phase = "reporting" /\ t[i].job = w.job
  BY <1>2, <1>3 DEF InboxFits
<1>5. \A i, n \in 1..Len(t) : Call(t[i]) /\ Call(t[n]) => i = n
  BY <1>2, <1>3 DEF InboxFits, Clear, Call
<1> QED
  BY <1>4, <1>5 DEF InboxFits, t

\* Sending a heartbeat leaves an inbox clear.
LEMMA BeatClear ==
  ASSUME NEW s \in Seq(Message), NEW m \in Message, Clear(s), m.kind = "heartbeat"
  PROVE  Clear(Append(s, m))
  BY AppendIs DEF Clear, Call

\* Receiving: what is left fits as before, and is clear after a call.
LEMMA ReceiveFits ==
  ASSUME NEW s \in Seq(Message), s # <<>>, NEW w, InboxFits(s, w)
  PROVE  /\ InboxFits(Tail(s), w)
         /\ Call(Head(s)) => Clear(Tail(s))
         /\ Clear(s) => Clear(Tail(s))
         /\ Head(s).kind = "acquire" => w.phase = "acquiring" /\ Head(s).job = w.job
         /\ Head(s).kind \in {"complete", "fail"} => w.phase = "reporting" /\ Head(s).job = w.job
<1> DEFINE t == Tail(s)
<1>1. /\ Len(t) = Len(s) - 1 /\ Len(s) \in Nat /\ Len(s) >= 1 /\ Head(s) = s[1]
      /\ \A i \in 1..Len(s) - 1 : t[i] = s[i + 1]
  BY TailIs
<1> HIDE DEF t
<1>2. \A i \in 1..Len(t) : i + 1 \in 1..Len(s) /\ i + 1 # 1 /\ t[i] = s[i + 1]
  BY <1>1
<1>3. 1 \in 1..Len(s)
  BY <1>1
<1>4. InboxFits(t, w)
  <2>1. \A i \in 1..Len(t) :
          /\ t[i].kind = "acquire" => w.phase = "acquiring" /\ t[i].job = w.job
          /\ t[i].kind \in {"complete", "fail"} => w.phase = "reporting" /\ t[i].job = w.job
    BY <1>2 DEF InboxFits
  <2>2. ASSUME NEW i \in 1..Len(t), NEW n \in 1..Len(t), Call(t[i]), Call(t[n]) PROVE i = n
    <3>1. i + 1 = n + 1
      BY <1>2, <2>2 DEF InboxFits
    <3> QED
      BY <1>1, <3>1
  <2> QED
    BY <2>1, <2>2 DEF InboxFits
<1>5. Call(Head(s)) => Clear(t)
  BY <1>1, <1>2, <1>3 DEF InboxFits, Clear
<1>6. Clear(s) => Clear(t)
  BY <1>2 DEF Clear
<1> QED
  BY <1>1, <1>3, <1>4, <1>5, <1>6 DEF InboxFits, t

-----------------------------------------------------------------------------
(* Connections and their runners                                           *)

LType ==
    /\ conn' \in [Conns -> ConnState] /\ runner' \in [Runners -> RunnerState]
    /\ Linked'

\* The connection c becomes new, and the runner at its other end w.
Becomes(c, new, w) ==
    /\ new \in ConnState /\ Shape(new) /\ conn' = [conn EXCEPT ![c] = new]
    /\ \/ /\ conn[c].up /\ w \in RunnerState
          /\ \/ runner' = [runner EXCEPT ![conn[c].runner] = w]
             \/ runner' = runner /\ w = runner[conn[c].runner]
          /\ \/ new.up /\ new.runner = conn[c].runner /\ Fits(c, new, w)
             \/ ~new.up /\ w.phase = "offline"
       \/ ~conn[c].up /\ ~new.up /\ runner' = runner

\* A step at one connection leaves the others linked.
LEMMA LocalStep ==
  ASSUME RTypeOK, Linked, NEW c \in Conns, NEW new, NEW w, Becomes(c, new, w)
  PROVE  LType
<1>1. conn \in [Conns -> ConnState] /\ runner \in [Runners -> RunnerState]
  BY DEF RTypeOK
<1>2. conn' \in [Conns -> ConnState] /\ \A d \in Conns : conn'[d] = IF d = c THEN new ELSE conn[d]
  BY <1>1 DEF Becomes
<1>3. CASE ~conn[c].up
  <2>1. runner' = runner /\ ~new.up /\ Shape(new)
    BY <1>3 DEF Becomes
  <2>2. ASSUME NEW d \in Conns
        PROVE  /\ Shape(conn'[d])
               /\ conn'[d].up => conn'[d].runner \in Runners /\ Fits(d, conn'[d], runner'[conn'[d].runner])
    BY <1>2, <2>1 DEF Linked
  <2>3. ASSUME NEW r \in Runners, runner'[r].phase # "offline"
        PROVE  /\ runner'[r].conn \in Conns
               /\ conn'[runner'[r].conn].up /\ conn'[runner'[r].conn].runner = r
    BY <1>2, <1>3, <2>1, <2>3 DEF Linked
  <2> QED
    BY <1>1, <1>2, <2>1, <2>2, <2>3 DEF LType, Linked
<1>4. CASE conn[c].up
  <2> DEFINE r == conn[c].runner
  <2>1. r \in Runners /\ runner[r].conn = c /\ w \in RunnerState
    BY <1>4 DEF Linked, Fits, Becomes
  <2>2. /\ runner' \in [Runners -> RunnerState]
        /\ \A q \in Runners : runner'[q] = IF q = r THEN w ELSE runner[q]
    BY <1>1, <1>4, <2>1 DEF Becomes
  <2>3. Shape(new) /\ \/ new.up /\ new.runner = r /\ Fits(c, new, w)
                      \/ ~new.up /\ w.phase = "offline"
    BY <1>4 DEF Becomes
  <2> HIDE DEF r
  <2>4. ASSUME NEW d \in Conns
        PROVE  /\ Shape(conn'[d])
               /\ conn'[d].up => conn'[d].runner \in Runners /\ Fits(d, conn'[d], runner'[conn'[d].runner])
    <3>1. CASE d = c
      BY <1>2, <2>1, <2>2, <2>3, <3>1
    <3>2. CASE d # c
      <4>1. conn[d].up => conn[d].runner \in Runners /\ runner[conn[d].runner].conn = d
        BY DEF Linked, Fits
      <4>2. conn[d].up => conn[d].runner # r
        BY <2>1, <3>2, <4>1
      <4> QED
        BY <1>2, <2>2, <3>2, <4>2 DEF Linked
    <3> QED
      BY <3>1, <3>2
  <2>5. ASSUME NEW q \in Runners, runner'[q].phase # "offline"
        PROVE  /\ runner'[q].conn \in Conns
               /\ conn'[runner'[q].conn].up /\ conn'[runner'[q].conn].runner = q
    <3>1. CASE q = r
      BY <1>2, <2>2, <2>3, <2>5, <3>1 DEF Fits
    <3>2. CASE q # r
      <4>1. runner[q].conn # c
        BY <1>4, <2>2, <2>5, <3>2 DEF Linked, r
      <4> QED
        BY <1>2, <2>2, <2>5, <3>2, <4>1 DEF Linked
    <3> QED
      BY <3>1, <3>2
  <2> QED
    BY <1>2, <2>2, <2>4, <2>5 DEF LType, Linked
<1> QED
  BY <1>3, <1>4

\* What a reply does to the runner at the other end of an open connection.
LEMMA ReplyIs ==
  ASSUME RTypeOK, Linked, NEW c \in Conns, NEW phase \in {"idle", "working"}, Reply(c, phase), conn[c].up
  PROVE  \E w \in RunnerState :
            /\ runner' = [runner EXCEPT ![conn[c].runner] = w]
            /\ w.conn = c /\ w.phase = phase
            /\ phase = "working" => w.job = runner[conn[c].runner].job
<1> DEFINE r == conn[c].runner
           w == [runner[r] EXCEPT !.phase = phase,
                                  !.job = IF phase = "working" THEN @ ELSE NoJob]
<1>1. r \in Runners /\ runner[r] \in RunnerState /\ runner[r].conn = c
  BY DEF RTypeOK, Linked, Fits
<1>2. runner' = [runner EXCEPT ![r] = w]
  BY <1>1 DEF Reply, RTypeOK
<1>3. /\ w \in RunnerState /\ w.conn = c /\ w.phase = phase
      /\ phase = "working" => w.job = runner[r].job
  BY <1>1 DEF RunnerState
<1> HIDE DEF w
<1> QED
  BY <1>2, <1>3

\* A runner that is told the outcome: nothing is in its inbox any more but heartbeats.
LEMMA Answered ==
  ASSUME RTypeOK, Linked, NEW c \in Conns, NEW new \in ConnState, NEW phase \in {"idle", "working"},
         Reply(c, phase), conn' = [conn EXCEPT ![c] = new], Shape(new),
         new.up = conn[c].up, new.runner = conn[c].runner, new.step = "serving",
         conn[c].up => Clear(new.inbox),
         conn[c].up /\ phase = "working" => runner[conn[c].runner].job \in new.held
  PROVE  LType
<1>1. CASE conn[c].up
  <2>1. PICK w \in RunnerState :
            /\ runner' = [runner EXCEPT ![conn[c].runner] = w]
            /\ w.conn = c /\ w.phase = phase
            /\ phase = "working" => w.job = runner[conn[c].runner].job
    BY <1>1, ReplyIs
  <2>2. InboxFits(new.inbox, w)
    BY <1>1, ClearFits
  <2>3. Fits(c, new, w)
    BY <1>1, <2>1, <2>2 DEF Fits, Preparing, Reported
  <2>4. Becomes(c, new, w)
    BY <1>1, <2>1, <2>3 DEF Becomes
  <2> QED
    BY <2>4, LocalStep
<1>2. CASE ~conn[c].up
  <2>1. Becomes(c, new, Offline)
    BY <1>2 DEF Becomes, Reply
  <2> QED
    BY <2>1, LocalStep
<1> QED
  BY <1>1, <1>2

\* A handler that goes on without telling its runner.
LEMMA GoesOn ==
  ASSUME RTypeOK, Linked, NEW c \in Conns, NEW new \in ConnState,
         runner' = runner, conn' = [conn EXCEPT ![c] = new], Shape(new),
         new.up = conn[c].up, new.runner = conn[c].runner,
         conn[c].up => Fits(c, new, runner[conn[c].runner])
  PROVE  LType
<1>1. conn[c].up => runner[conn[c].runner] \in RunnerState
  BY DEF RTypeOK, Linked
<1>2. Becomes(c, new, runner[conn[c].runner])
  BY <1>1 DEF Becomes
<1> QED
  BY <1>2, LocalStep

\* A connection whose client end is gone.
LEMMA Hangs ==
  ASSUME RTypeOK, Linked, NEW c \in Conns, NEW new \in ConnState,
         conn' = [conn EXCEPT ![c] = new], Shape(new), ~new.up,
         runner' = IF conn[c].up THEN [runner EXCEPT ![conn[c].runner] = Offline] ELSE runner
  PROVE  LType
<1>1. Offline \in RunnerState /\ Offline.phase = "offline"
  BY DEF Offline, RunnerState
<1>2. Becomes(c, new, Offline)
  BY <1>1 DEF Becomes
<1> QED
  BY <1>2, LocalStep

\* The inbox of an open connection fits its runner.
LEMMA InboxOf ==
  ASSUME RTypeOK, Linked, NEW c \in Conns
  PROVE  /\ conn[c] \in ConnState /\ conn[c].inbox \in Seq(Message) /\ Shape(conn[c])
         /\ conn[c].up => /\ conn[c].runner \in Runners
                          /\ runner[conn[c].runner] \in RunnerState
                          /\ Fits(c, conn[c], runner[conn[c].runner])
                          /\ InboxFits(conn[c].inbox, runner[conn[c].runner])
  BY DEF RTypeOK, Linked, ConnState, Fits

\* What the handler takes from the inbox of a connection.
LEMMA Received ==
  ASSUME RTypeOK, Linked, NEW c \in Conns, NEW kind, NEW j, Receives(c, kind, j)
  PROVE  /\ conn[c].step = "serving" /\ conn[c].job = NoJob
         /\ Tail(conn[c].inbox) \in Seq(Message) /\ j \in Jobs
         /\ kind \in {"acquire", "heartbeat", "complete", "fail"}
         /\ conn[c].runner \in Runners
         /\ conn[c].up =>
              /\ InboxFits(Tail(conn[c].inbox), runner[conn[c].runner])
              /\ kind # "heartbeat" => Clear(Tail(conn[c].inbox)) /\ j = runner[conn[c].runner].job
              /\ kind = "acquire" => runner[conn[c].runner].phase = "acquiring"
              /\ kind \in {"complete", "fail"} => runner[conn[c].runner].phase = "reporting"
<1> DEFINE s == conn[c].inbox
<1>1. /\ s \in Seq(Message) /\ s # <<>> /\ Head(s) = [kind |-> kind, job |-> j]
      /\ conn[c].step = "serving" /\ Shape(conn[c])
  BY InboxOf DEF Receives
<1>2. Head(s) \in Message
  BY <1>1, TailIs
<1>3. Head(s).kind = kind /\ Head(s).job = j
  BY <1>1
<1>4. kind \in {"acquire", "heartbeat", "complete", "fail"} /\ j \in Jobs
  BY <1>2, <1>3 DEF Message
<1>5. Tail(s) \in Seq(Message)
  BY <1>1, TailIs
<1>6. conn[c].job = NoJob /\ conn[c].runner \in Runners
  BY <1>1 DEF Shape, Preparing, Reported
<1>7. ASSUME conn[c].up
      PROVE  /\ InboxFits(Tail(s), runner[conn[c].runner])
             /\ kind # "heartbeat" => Clear(Tail(s))
             /\ kind = "acquire" => runner[conn[c].runner].phase = "acquiring" /\ j = runner[conn[c].runner].job
             /\ kind \in {"complete", "fail"}
                   => runner[conn[c].runner].phase = "reporting" /\ j = runner[conn[c].runner].job
  <2>1. InboxFits(s, runner[conn[c].runner])
    BY <1>7, InboxOf
  <2> HIDE DEF s
  <2> QED
    BY <1>1, <1>3, <2>1, ReceiveFits DEF Call
<1> QED
  BY <1>1, <1>4, <1>5, <1>6, <1>7

\* Taking a message and going on at step with job j.
LEMMA Proceeded ==
  ASSUME RTypeOK, Linked, NEW c \in Conns, NEW kind, NEW i, Receives(c, kind, i),
         NEW step \in {"serving"} \cup Preparing \cup Reported, NEW j \in Jobs \cup {NoJob},
         step = "serving" <=> j = NoJob, Proceed(c, step, j)
  PROVE  \E new \in ConnState :
            /\ conn' = [conn EXCEPT ![c] = new] /\ Shape(new)
            /\ new.up = conn[c].up /\ new.runner = conn[c].runner /\ new.held = conn[c].held
            /\ new.step = step /\ new.job = j /\ new.inbox = Tail(conn[c].inbox)
<1> DEFINE new == [conn[c] EXCEPT !.inbox = Tail(@), !.step = step, !.job = j]
<1>1. /\ conn[c] \in ConnState /\ Tail(conn[c].inbox) \in Seq(Message)
      /\ step \in Steps /\ conn[c].runner \in Runners
  BY InboxOf, Received DEF Steps, Preparing, Reported
<1>2. /\ new \in ConnState
      /\ new.up = conn[c].up /\ new.runner = conn[c].runner /\ new.held = conn[c].held
      /\ new.step = step /\ new.job = j /\ new.inbox = Tail(conn[c].inbox)
  BY <1>1 DEF ConnState
<1>3. conn' = [conn EXCEPT ![c] = new]
  BY DEF Proceed, RTypeOK
<1> HIDE DEF new
<1>4. Shape(new)
  BY <1>1, <1>2 DEF Shape, Preparing, Reported
<1> QED
  BY <1>2, <1>3, <1>4

\* Back to serving.
LEMMA DoneIs ==
  ASSUME RTypeOK, Linked, NEW c \in Conns, conn[c].step \in Preparing \cup Reported,
         NEW held \in SUBSET Jobs, Done(c, held)
  PROVE  \E new \in ConnState :
            /\ conn' = [conn EXCEPT ![c] = new] /\ Shape(new)
            /\ new.up = conn[c].up /\ new.runner = conn[c].runner /\ new.held = held
            /\ new.step = "serving" /\ new.job = NoJob /\ new.inbox = conn[c].inbox
<1> DEFINE new == [conn[c] EXCEPT !.step = "serving", !.job = NoJob, !.held = held]
<1>1. conn[c] \in ConnState /\ Shape(conn[c])
  BY InboxOf
<1>2. /\ new \in ConnState
      /\ new.up = conn[c].up /\ new.runner = conn[c].runner /\ new.held = held
      /\ new.step = "serving" /\ new.job = NoJob /\ new.inbox = conn[c].inbox
  BY <1>1 DEF ConnState, Steps
<1>3. conn' = [conn EXCEPT ![c] = new]
  BY DEF Done, RTypeOK
<1>4. conn[c].step # "free"
  BY DEF Preparing, Reported
<1> HIDE DEF new
<1>5. Shape(new)
  BY <1>1, <1>2, <1>4 DEF Shape, Preparing, Reported
<1> QED
  BY <1>2, <1>3, <1>5

\* Sending over an open connection.
LEMMA Sent ==
  ASSUME RTypeOK, Linked, NEW r \in Runners, runner[r].phase # "offline",
         NEW kind \in {"acquire", "heartbeat", "complete", "fail"}, NEW j \in Jobs,
         Send(r, kind, j), NEW w \in RunnerState,
         runner' = [runner EXCEPT ![r] = w] \/ (runner' = runner /\ w = runner[r]),
         w.conn = runner[r].conn, w.phase # "offline", j = w.job,
         w.phase \in {"working", "reporting"}
            => runner[r].phase \in {"working", "reporting"} /\ runner[r].job = w.job,
         \/ kind = "heartbeat" /\ w = runner[r]
         \/ kind = "acquire" /\ w.phase = "acquiring" /\ runner[r].phase = "idle"
         \/ kind \in {"complete", "fail"} /\ w.phase = "reporting" /\ runner[r].phase = "working"
  PROVE  LType
<1> DEFINE c == runner[r].conn
           m == [kind |-> kind, job |-> j]
           s == conn[c].inbox
           new == [conn[c] EXCEPT !.inbox = Append(@, m)]
<1>1. c \in Conns /\ conn[c].up /\ conn[c].runner = r
  BY DEF Linked
<1>2. /\ conn[c] \in ConnState /\ s \in Seq(Message) /\ Shape(conn[c])
      /\ Fits(c, conn[c], runner[r]) /\ InboxFits(s, runner[r])
  BY <1>1, InboxOf
<1>3. m \in Message /\ m.kind = kind /\ m.job = j
  BY DEF Message
<1>4. conn' = [conn EXCEPT ![c] = new]
  BY <1>1 DEF Send, RTypeOK
<1>5. /\ new.inbox = Append(s, m) /\ new.up = conn[c].up /\ new.runner = conn[c].runner
      /\ new.held = conn[c].held /\ new.step = conn[c].step /\ new.job = conn[c].job
      /\ new \in ConnState
  BY <1>2, <1>3, AppendIs DEF ConnState
<1> HIDE DEF c, m, s, new
<1>6. Shape(new)
  BY <1>2, <1>5 DEF Shape
<1>7. InboxFits(Append(s, m), w) /\ (conn[c].step # "serving" => Clear(Append(s, m)))
  <2>1. CASE kind = "heartbeat" /\ w = runner[r]
    BY <1>2, <1>3, <2>1, SendFits, BeatClear DEF Fits, s
  <2>2. CASE runner[r].phase \in {"idle", "working"}
    <3>1. Clear(s)
      BY <1>2, <2>2, IdleClear
    <3>2. conn[c].step = "serving"
      BY <1>1, <1>2, <2>2 DEF Fits, Shape, Preparing, Reported, ConnState, Steps
    <3>3. /\ m.job = w.job /\ (m.kind = "acquire" => w.phase = "acquiring")
          /\ (m.kind \in {"complete", "fail"} => w.phase = "reporting")
      BY <1>3
    <3> QED
      BY ONLY <1>2, <1>3, <3>1, <3>2, <3>3, SendFits, w \in RunnerState
  <2> QED
    BY <2>1, <2>2
<1>8. Fits(c, new, w)
  <2>1. w.conn = c /\ w.phase # "offline"
    BY DEF c
  <2>2. /\ new.step \in Preparing => w.phase = "acquiring" /\ new.job = w.job
        /\ new.step \in Reported => w.phase = "reporting" /\ new.job = w.job
    <3>1. CASE w = runner[r]
      BY <1>2, <1>5, <3>1 DEF Fits
    <3>2. CASE runner[r].phase \in {"idle", "working"}
      BY <1>2, <1>5, <3>2 DEF Fits
    <3> QED
      BY <3>1, <3>2
  <2>3. w.phase \in {"working", "reporting"} => w.job \in new.held
    BY <1>2, <1>5 DEF Fits
  <2> QED
    BY <1>5, <1>7, <2>1, <2>2, <2>3 DEF Fits
<1>9. Becomes(c, new, w)
  BY <1>1, <1>4, <1>5, <1>6, <1>8 DEF Becomes
<1> QED
  BY <1>1, <1>9, LocalStep

\* The job of a runner at work is in the context of its connection.
LEMMA ListedJob ==
  ASSUME RTypeOK, Linked, NEW r \in Runners, runner[r].phase \in {"working", "reporting"}
  PROVE  /\ runner[r].conn \in Conns /\ conn[runner[r].conn].up /\ conn[runner[r].conn].runner = r
         /\ runner[r].job \in conn[runner[r].conn].held /\ runner[r].job \in Jobs
<1>1. /\ runner[r].conn \in Conns /\ conn[runner[r].conn].up /\ conn[runner[r].conn].runner = r
  BY DEF Linked
<1>2. runner[r].job \in conn[runner[r].conn].held
  BY <1>1 DEF Linked, Fits
<1>3. conn[runner[r].conn].held \in SUBSET Jobs
  BY <1>1, InboxOf DEF ConnState
<1> QED
  BY <1>1, <1>2, <1>3

LEMMA RunnerLinks ==
  ASSUME RTypeOK, Linked, NEW r \in Runners,
         \/ Connect(r) \/ (\E j \in Jobs : RequestJob(r, j)) \/ SendHeartbeat(r)
         \/ \E kind \in {"complete", "fail"} : Report(r, kind)
  PROVE  LType
<1>1. conn \in [Conns -> ConnState] /\ runner \in [Runners -> RunnerState] /\ runner[r] \in RunnerState
  BY DEF RTypeOK
<1>2. CASE Connect(r)
  <2> DEFINE new == [Free EXCEPT !.runner = r, !.up = TRUE, !.step = "serving"]
  <2>1. PICK c \in Conns :
            /\ conn[c].step = "free" /\ conn' = [conn EXCEPT ![c] = new]
            /\ runner' = [runner EXCEPT ![r] = [phase |-> "idle", conn |-> c, job |-> NoJob]]
    BY <1>2 DEF Connect
  <2> DEFINE w == [phase |-> "idle", conn |-> c, job |-> NoJob]
  <2>2. runner[r].phase = "offline" /\ ~conn[c].up
    BY <1>2, <2>1 DEF Connect, Linked, Shape
  <2>3. <<>> \in Seq(Message) /\ Len(<<>>) = 0
    OBVIOUS
  <2>4. /\ new \in ConnState /\ new.runner = r /\ new.up /\ new.step = "serving"
        /\ new.job = NoJob /\ new.inbox = <<>>
    BY <2>3 DEF Free, ConnState, Steps
  <2>5. w \in RunnerState /\ w.phase = "idle" /\ w.conn = c
    BY DEF RunnerState
  <2>6. conn' = [conn EXCEPT ![c] = new] /\ runner' = [runner EXCEPT ![r] = w]
    BY <2>1
  <2> HIDE DEF new, w
  <2>7. Shape(new)
    BY <2>4 DEF Shape, Preparing, Reported
  <2>8. Clear(new.inbox)
    BY <2>3, <2>4 DEF Clear
  <2>9. Fits(c, new, w)
    BY <2>4, <2>5, <2>8, ClearFits DEF Fits, Preparing, Reported
  <2>10. \A d \in Conns : conn'[d] = IF d = c THEN new ELSE conn[d]
    BY <1>1, <2>6
  <2>11. \A q \in Runners : runner'[q] = IF q = r THEN w ELSE runner[q]
    BY <1>1, <2>6
  <2>12. ASSUME NEW d \in Conns
         PROVE  /\ Shape(conn'[d])
                /\ conn'[d].up => conn'[d].runner \in Runners /\ Fits(d, conn'[d], runner'[conn'[d].runner])
    <3>1. CASE d = c
      BY <2>4, <2>7, <2>9, <2>10, <2>11, <3>1
    <3>2. CASE d # c
      <4>1. conn[d].up => conn[d].runner # r
        BY <2>2 DEF Linked, Fits
      <4> QED
        BY <2>10, <2>11, <3>2, <4>1 DEF Linked
    <3> QED
      BY <3>1, <3>2
  <2>13. ASSUME NEW q \in Runners, runner'[q].phase # "offline"
         PROVE  /\ runner'[q].conn \in Conns
                /\ conn'[runner'[q].conn].up /\ conn'[runner'[q].conn].runner = q
    <3>1. CASE q = r
      BY <2>4, <2>5, <2>10, <2>11, <3>1
    <3>2. CASE q # r
      <4>1. runner[q].conn \in Conns /\ conn[runner[q].conn].up /\ conn[runner[q].conn].runner = q
        BY <2>11, <2>13, <3>2 DEF Linked
      <4> QED
        BY <2>2, <2>10, <2>11, <3>2, <4>1
    <3> QED
      BY <3>1, <3>2
  <2>14. conn' \in [Conns -> ConnState] /\ runner' \in [Runners -> RunnerState]
    BY <1>1, <2>4, <2>5, <2>6
  <2> QED
    BY <2>12, <2>13, <2>14 DEF LType, Linked
<1>3. ASSUME NEW j \in Jobs, RequestJob(r, j) PROVE LType
  <2> DEFINE w == [runner[r] EXCEPT !.phase = "acquiring", !.job = j]
  <2>1. w \in RunnerState /\ w.phase = "acquiring" /\ w.job = j /\ w.conn = runner[r].conn
    BY <1>1 DEF RunnerState
  <2>2. runner' = [runner EXCEPT ![r] = w]
    BY <1>1, <1>3 DEF RequestJob
  <2>3. runner[r].phase = "idle" /\ Send(r, "acquire", j)
    BY <1>3 DEF RequestJob
  <2> HIDE DEF w
  <2> QED
    BY <2>1, <2>2, <2>3, Sent
<1>4. CASE SendHeartbeat(r)
  <2>1. /\ runner[r].phase \in {"working", "reporting"} /\ runner' = runner
        /\ Send(r, "heartbeat", runner[r].job)
    BY <1>4 DEF SendHeartbeat
  <2>2. runner[r].job \in Jobs
    BY <2>1, ListedJob
  <2> QED
    BY <1>1, <2>1, <2>2, Sent
<1>5. ASSUME NEW kind \in {"complete", "fail"}, Report(r, kind) PROVE LType
  <2> DEFINE w == [runner[r] EXCEPT !.phase = "reporting"]
  <2>1. /\ w \in RunnerState /\ w.phase = "reporting" /\ w.job = runner[r].job
        /\ w.conn = runner[r].conn
    BY <1>1 DEF RunnerState
  <2>2. runner' = [runner EXCEPT ![r] = w]
    BY <1>1, <1>5 DEF Report
  <2>3. runner[r].phase = "working" /\ Send(r, kind, runner[r].job)
    BY <1>5 DEF Report
  <2>4. runner[r].job \in Jobs
    BY <2>3, ListedJob
  <2> HIDE DEF w
  <2> QED
    BY <2>1, <2>2, <2>3, <2>4, Sent
<1> QED
  BY <1>2, <1>3, <1>4, <1>5

LEMMA HandlerLinks ==
  ASSUME RTypeOK, Linked, NEW c \in Conns,
         \/ Serve(c)
         \/ \E j \in Jobs :
               \/ HandOutFails(c, j)
               \/ \E kind \in {"acquire", "heartbeat", "complete", "fail"} : QueueError(c, kind, j)
         \/ LoseConnection(c) \/ ServerDies(c)
  PROVE  LType
<1> DEFINE k == conn[c]
           w == runner[k.runner]
<1>1. /\ conn \in [Conns -> ConnState] /\ k \in ConnState /\ k.inbox \in Seq(Message) /\ Shape(k)
      /\ k.held \in SUBSET Jobs /\ k.reset \in SUBSET Jobs
      /\ k.up => k.runner \in Runners /\ w \in RunnerState /\ Fits(c, k, w) /\ InboxFits(k.inbox, w)
  BY InboxOf DEF RTypeOK, ConnState
<1>clear. k.step # "serving" /\ k.up => Clear(k.inbox)
  BY <1>1 DEF Fits
<1> HIDE DEF k, w
<1>2. ASSUME NEW j \in Jobs, HandleAcquire(c, j) PROVE LType
  <2>1. Receives(c, "acquire", j)
    BY <1>2 DEF HandleAcquire
  <2>2. CASE Proceed(c, "acquired", j) /\ UNCHANGED runner
    <3>1. PICK new \in ConnState :
            /\ conn' = [conn EXCEPT ![c] = new] /\ Shape(new)
            /\ new.up = k.up /\ new.runner = k.runner /\ new.held = k.held
            /\ new.step = "acquired" /\ new.job = j /\ new.inbox = Tail(k.inbox)
      BY <2>1, <2>2, Proceeded, RunnersAssumption DEF Preparing, k
    <3>2. k.up => Fits(c, new, w)
      BY <1>1, <2>1, <3>1, Received, ClearFits DEF Fits, Preparing, Reported, k, w
    <3> QED
      BY <2>2, <3>1, <3>2, GoesOn DEF k, w
  <2>3. CASE Proceed(c, "serving", NoJob) /\ Reply(c, "idle")
    <3>1. PICK new \in ConnState :
            /\ conn' = [conn EXCEPT ![c] = new] /\ Shape(new)
            /\ new.up = k.up /\ new.runner = k.runner /\ new.held = k.held
            /\ new.step = "serving" /\ new.job = NoJob /\ new.inbox = Tail(k.inbox)
      BY <2>1, <2>3, Proceeded DEF k
    <3>2. k.up => Clear(new.inbox)
      BY <2>1, <3>1, Received DEF k
    <3> QED
      BY <2>3, <3>1, <3>2, Answered DEF k
  <2> QED
    BY <1>2, <2>2, <2>3 DEF HandleAcquire
<1>3. ASSUME NEW j \in Jobs, HandOut(c, j) PROVE LType
  <2>1. k.step = "acquired" /\ k.job = j /\ Done(c, k.held \cup {j}) /\ Reply(c, "working")
    BY <1>3 DEF HandOut, k
  <2>2. PICK new \in ConnState :
            /\ conn' = [conn EXCEPT ![c] = new] /\ Shape(new)
            /\ new.up = k.up /\ new.runner = k.runner /\ new.held = k.held \cup {j}
            /\ new.step = "serving" /\ new.job = NoJob /\ new.inbox = k.inbox
    BY <1>1, <2>1, DoneIs DEF Preparing, k
  <2>3. k.up => w.job = j /\ Clear(k.inbox)
    BY <1>1, <1>clear, <2>1 DEF Fits, Preparing
  <2> QED
    BY <2>1, <2>2, <2>3, Answered DEF k, w
<1>4. ASSUME NEW j \in Jobs, MarkUnprepared(c, j) \/ FinishReport(c, j) PROVE LType
  <2>1. /\ k.step \in Preparing \cup Reported /\ Reply(c, "idle")
        /\ Done(c, k.held) \/ Done(c, k.held \ {j})
    BY <1>4 DEF MarkUnprepared, FinishReport, Preparing, Reported, k
  <2>2. PICK new \in ConnState :
            /\ conn' = [conn EXCEPT ![c] = new] /\ Shape(new)
            /\ new.up = k.up /\ new.runner = k.runner
            /\ new.step = "serving" /\ new.job = NoJob /\ new.inbox = k.inbox
    BY <1>1, <2>1, DoneIs DEF k
  <2>3. k.up => Clear(k.inbox)
    BY <1>clear, <2>1 DEF Preparing, Reported
  <2> QED
    BY <2>1, <2>2, <2>3, Answered DEF k
<1>5. ASSUME NEW j \in Jobs, PrepareFails(c, j) PROVE LType
  <2> DEFINE new == [k EXCEPT !.step = "unprepared"]
  <2>1. /\ new \in ConnState /\ new.up = k.up /\ new.runner = k.runner /\ new.held = k.held
        /\ new.step = "unprepared" /\ new.job = k.job /\ new.inbox = k.inbox
    BY <1>1 DEF ConnState, Steps
  <2>2. k.step = "acquired" /\ runner' = runner /\ conn' = [conn EXCEPT ![c] = new]
    BY <1>1, <1>5 DEF PrepareFails, k
  <2> HIDE DEF new
  <2>3. Shape(new)
    BY <1>1, <2>1, <2>2 DEF Shape, Preparing
  <2>4. k.up => Fits(c, new, w)
    BY <1>1, <2>1, <2>2 DEF Fits, Preparing, Reported
  <2> QED
    BY <2>1, <2>2, <2>3, <2>4, GoesOn DEF k, w
<1>6. ASSUME NEW j \in Jobs, HandleHeartbeat(c, j) PROVE LType
  <2>1. Receives(c, "heartbeat", j) /\ Proceed(c, "serving", NoJob) /\ runner' = runner
    BY <1>6 DEF HandleHeartbeat
  <2>2. PICK new \in ConnState :
            /\ conn' = [conn EXCEPT ![c] = new] /\ Shape(new)
            /\ new.up = k.up /\ new.runner = k.runner /\ new.held = k.held
            /\ new.step = "serving" /\ new.job = NoJob /\ new.inbox = Tail(k.inbox)
    BY <2>1, Proceeded DEF k
  <2>3. k.up => Fits(c, new, w)
    BY <1>1, <2>1, <2>2, Received DEF Fits, Preparing, Reported, k, w
  <2> QED
    BY <2>1, <2>2, <2>3, GoesOn DEF k, w
<1>7. ASSUME NEW j \in Jobs, Refuse(c, j) PROVE LType
  <2>1. PICK kind \in {"complete", "fail"} : Receives(c, kind, j)
    BY <1>7 DEF Refuse
  <2>2. PICK new \in ConnState :
            /\ conn' = [conn EXCEPT ![c] = new] /\ Shape(new)
            /\ new.up = k.up /\ new.runner = k.runner /\ new.held = k.held
            /\ new.step = "serving" /\ new.job = NoJob /\ new.inbox = Tail(k.inbox)
    BY <1>7, <2>1, Proceeded DEF Refuse, k
  <2> QED
    BY <1>7, <2>1, <2>2, Received, Answered DEF Refuse, k
<1>8. ASSUME NEW j \in Jobs, HandleComplete(c, j) \/ HandleFail(c, j) PROVE LType
  <2>1. /\ \E kind \in {"complete", "fail"} : Receives(c, kind, j)
        /\ \E step \in Reported : Proceed(c, step, j)
        /\ runner' = runner
    BY <1>8 DEF HandleComplete, HandleFail, Reported
  <2>2. PICK kind \in {"complete", "fail"} : Receives(c, kind, j)
    BY <2>1
  <2>3. PICK step \in Reported, new \in ConnState :
            /\ conn' = [conn EXCEPT ![c] = new] /\ Shape(new)
            /\ new.up = k.up /\ new.runner = k.runner /\ new.held = k.held
            /\ new.step = step /\ new.job = j /\ new.inbox = Tail(k.inbox)
    BY <2>1, <2>2, Proceeded, RunnersAssumption DEF Reported, k
  <2>4. k.up => Fits(c, new, w)
    BY <1>1, <2>2, <2>3, Received, ClearFits DEF Fits, Preparing, Reported, k, w
  <2> QED
    BY <2>1, <2>3, <2>4, GoesOn DEF k, w
<1>9. ASSUME NoticeClose(c) \/ \E j \in Jobs : ResetAcquired(c, j) PROVE LType
  <2> DEFINE closed(reset) == [k EXCEPT !.step = "closing", !.reset = reset]
  <2>1. ASSUME NEW reset \in SUBSET Jobs
        PROVE  /\ closed(reset) \in ConnState /\ closed(reset).up = k.up
               /\ closed(reset).step = "closing" /\ closed(reset).job = k.job
               /\ closed(reset).runner = k.runner
    BY <1>1 DEF ConnState, Steps
  <2>2. PICK reset \in SUBSET Jobs : conn' = [conn EXCEPT ![c] = closed(reset)]
    <3>1. CASE NoticeClose(c)
      <4>1. [k EXCEPT !.step = "closing"] = closed(k.reset)
        BY <1>1 DEF ConnState
      <4> QED
        BY <1>1, <3>1, <4>1 DEF NoticeClose, k
    <3>2. ASSUME NEW j \in Jobs, ResetAcquired(c, j)
          PROVE  \E reset \in SUBSET Jobs : conn' = [conn EXCEPT ![c] = closed(reset)]
      <4>1. [k EXCEPT !.reset = k.reset \cup {j}] = closed(k.reset \cup {j})
        BY <1>1, <3>2 DEF ConnState, ResetAcquired, k
      <4> QED
        BY <1>1, <3>2, <4>1 DEF ResetAcquired, k
    <3> QED
      BY <1>9, <3>1, <3>2
  <2>3. /\ ~k.up /\ k.step # "free" /\ k.job = NoJob /\ runner' = runner
    BY <1>1, <1>9 DEF NoticeClose, ResetAcquired, Shape, Preparing, Reported, k
  <2> DEFINE new == closed(reset)
  <2> HIDE DEF closed
  <2>4. Shape(new)
    BY <1>1, <2>1, <2>3 DEF Shape, Preparing, Reported
  <2> QED
    BY <2>1, <2>2, <2>3, <2>4, GoesOn DEF k, w
<1>10. ASSUME ReleaseAndClose(c) \/ ServerDies(c) PROVE LType
  <2>1. <<>> \in Seq(Message)
    OBVIOUS
  <2>2. Free \in ConnState /\ Free.step = "free" /\ ~Free.up /\ Free.job = NoJob
    BY <2>1 DEF Free, ConnState, Steps
  <2>3. Shape(Free)
    BY <2>2 DEF Shape, Preparing, Reported
  <2>4. conn' = [conn EXCEPT ![c] = Free]
    BY <1>10 DEF ReleaseAndClose, ServerDies
  <2>5. runner' = IF k.up THEN [runner EXCEPT ![k.runner] = Offline] ELSE runner
    BY <1>1, <1>10 DEF ReleaseAndClose, ServerDies, Shape, k
  <2> QED
    BY <2>2, <2>3, <2>4, <2>5, Hangs DEF k
<1>11. ASSUME NEW j \in Jobs, HandOutFails(c, j) PROVE LType
  <2> DEFINE new == [k EXCEPT !.step = "serving", !.job = NoJob, !.up = FALSE]
  <2>1. /\ new \in ConnState /\ ~new.up /\ new.runner = k.runner
        /\ new.step = "serving" /\ new.job = NoJob
    BY <1>1 DEF ConnState, Steps
  <2>2. conn' = [conn EXCEPT ![c] = new] /\ k.step = "acquired"
    BY <1>1, <1>11 DEF HandOutFails, k
  <2> HIDE DEF new
  <2>3. Shape(new)
    BY <1>1, <2>1, <2>2 DEF Shape, Preparing, Reported
  <2> QED
    BY <1>11, <2>1, <2>2, <2>3, Hangs DEF HandOutFails, k
<1>12. ASSUME NEW j \in Jobs, NEW kind \in {"acquire", "heartbeat", "complete", "fail"},
              QueueError(c, kind, j)
       PROVE  LType
  <2> DEFINE new == [k EXCEPT !.inbox = Tail(@), !.up = @ /\ kind # "acquire"]
  <2>1. Receives(c, kind, j)
    BY <1>12 DEF QueueError
  <2>2. /\ new \in ConnState /\ new.up = (k.up /\ kind # "acquire") /\ new.runner = k.runner
        /\ new.held = k.held /\ new.step = "serving" /\ new.job = NoJob
        /\ new.inbox = Tail(k.inbox)
    <3>1. Tail(k.inbox) \in Seq(Message) /\ k.step = "serving" /\ k.job = NoJob
      BY <2>1, Received DEF k
    <3>2. k.up \in BOOLEAN /\ (k.up /\ kind # "acquire") \in BOOLEAN
      BY <1>1 DEF ConnState
    <3> QED
      BY <1>1, <3>1, <3>2 DEF ConnState
  <2>3. conn' = [conn EXCEPT ![c] = new]
    BY <1>1, <1>12 DEF QueueError, k
  <2> HIDE DEF new
  <2>4. Shape(new)
    BY <2>1, <2>2, Received DEF Shape, Preparing, Reported, k
  <2>5. CASE kind = "acquire"
    <3>1. runner' = IF k.up THEN [runner EXCEPT ![k.runner] = Offline] ELSE runner
      BY <1>12, <2>5 DEF QueueError, k
    <3> QED
      BY <2>2, <2>3, <2>4, <2>5, <3>1, Hangs DEF k
  <2>6. CASE kind = "heartbeat" \/ (~k.up /\ kind # "acquire")
    <3>1. runner' = runner
      BY <1>12, <2>6 DEF QueueError, Reply, k
    <3>2. new.up = k.up
      BY <1>1, <2>2, <2>6 DEF ConnState
    <3>3. k.up => Fits(c, new, w)
      BY <1>1, <2>1, <2>2, <2>6, Received DEF Fits, Preparing, Reported, k, w
    <3> QED
      BY <2>2, <2>3, <2>4, <3>1, <3>2, <3>3, GoesOn DEF k, w
  <2>7. CASE kind \in {"complete", "fail"} /\ k.up
    <3>1. Reply(c, "idle")
      BY <1>12, <2>7 DEF QueueError, k
    <3>2. new.up = k.up
      BY <1>1, <2>2, <2>7 DEF ConnState
    <3> QED
      BY <2>1, <2>2, <2>3, <2>4, <2>7, <3>1, <3>2, Received, Answered DEF k
  <2> QED
    BY <2>5, <2>6, <2>7
<1>13. CASE LoseConnection(c)
  <2>1. PICK n \in 0..Len(k.inbox) :
            conn' = [conn EXCEPT ![c].up = FALSE, ![c].inbox = SubSeq(@, 1, n)]
    BY <1>13 DEF LoseConnection, k
  <2> DEFINE new == [k EXCEPT !.up = FALSE, !.inbox = SubSeq(@, 1, n)]
  <2>2. SubSeq(k.inbox, 1, n) \in Seq(Message)
    BY <1>1
  <2>3. /\ new \in ConnState /\ ~new.up /\ new.runner = k.runner
        /\ new.step = k.step /\ new.job = k.job
    BY <1>1, <2>2 DEF ConnState
  <2>4. conn' = [conn EXCEPT ![c] = new]
    BY <1>1, <2>1 DEF k
  <2>5. k.up /\ runner' = [runner EXCEPT ![k.runner] = Offline]
    BY <1>13 DEF LoseConnection, k
  <2> HIDE DEF new
  <2>6. Shape(new)
    BY <1>1, <2>3 DEF Shape
  <2> QED
    BY <2>3, <2>4, <2>5, <2>6, Hangs DEF k
<1> HIDE DEF LType
<1> QED
  BY ONLY <1>2, <1>3, <1>4, <1>5, <1>6, <1>7, <1>8, <1>9, <1>10, <1>11, <1>12, <1>13,
          Serve(c)
          \/ (\E j \in Jobs :
               \/ HandOutFails(c, j)
               \/ \E kind \in {"acquire", "heartbeat", "complete", "fail"} : QueueError(c, kind, j))
          \/ LoseConnection(c) \/ ServerDies(c)
  DEF Serve

-----------------------------------------------------------------------------
(* The jobs                                                                *)

\* What the procedures and handlers ask of the queue, and what time does to it.
QueueOp ==
    \/ \E j \in Jobs : Enqueue(j) \/ LeaseExpires(j) \/ BecomesDue(j)
    \/ \E j \in Jobs, r \in Runners : Acquire(j, r) \/ Complete(j, r) \/ Heartbeat({j}, r)
    \/ \E j \in Jobs, r \in Runners, error \in {"reported", "unprepared"} : Fail(j, r, error, FALSE)
    \/ \E r \in Runners : ReleaseRunnerJobs(r)
    \/ \E f \in Files : CancelFileJobs({j \in Jobs : FileOf[j] = f})
    \/ UNCHANGED jobs

\* A job is not deleted here; what was withdrawn has failed, and results are final.
GoesOn1(j) ==
    /\ jobs'[j].state # "deleted"
    /\ jobs'[j].error = "project_file_deleted" => jobs'[j].state = "failed"
    /\ jobs[j].state = "succeeded" => jobs'[j].state = "succeeded"
    /\ jobs[j].state = "failed" => jobs'[j].state = "failed" /\ jobs'[j].error = jobs[j].error
    /\ jobs[j].state \in {"pending", "processing"} => jobs'[j].state # "absent"

LEMMA QueueOpStep ==
  ASSUME IInv, QueueOp,
         \A j \in Jobs : jobs[j].state # "deleted" /\ (Withdrawn(j) => jobs[j].state = "failed")
  PROVE  IInv' /\ [QueueStep]_jobs /\ \A j \in Jobs : GoesOn1(j)
<1>1. TypeOK
  BY DEF IInv, QueueInv
<1>2. [QueueStep]_jobs
  <2>1. ASSUME NEW f \in Files PROVE {j \in Jobs : FileOf[j] = f} \in FileJobs
    BY RunnersAssumption
  <2>2. \A j \in Jobs : {j} \in {{i} : i \in Jobs}
    OBVIOUS
  <2> QED
    BY <2>1, <2>2 DEF QueueOp, QueueStep
<1>3. IInv'
  BY <1>2, NextIInv
<1>4. ASSUME NEW k \in Jobs PROVE GoesOn1(k)
  <2>1. jobs[k].state # "deleted" /\ (jobs[k].error = "project_file_deleted" => jobs[k].state = "failed")
    BY DEF Withdrawn
  <2>2. CASE UNCHANGED jobs
    BY <2>1, <2>2 DEF GoesOn1
  <2>3. ASSUME NEW j \in Jobs, Enqueue(j) PROVE GoesOn1(k)
    BY <1>1, <2>1, <2>3, EnqueueWrites DEF Others, GoesOn1
  <2>4. ASSUME NEW j \in Jobs, LeaseExpires(j) \/ BecomesDue(j) PROVE GoesOn1(k)
    BY <1>1, <2>1, <2>4, TimeWrites DEF Others, GoesOn1
  <2>5. ASSUME NEW j \in Jobs, NEW r \in Runners, Acquire(j, r) PROVE GoesOn1(k)
    BY <1>1, <2>1, <2>5, AcquireWrites DEF Others, GoesOn1
  <2>6. ASSUME NEW j \in Jobs, NEW r \in Runners, Complete(j, r) PROVE GoesOn1(k)
    BY <1>1, <2>1, <2>6, CompleteWrites DEF Others, GoesOn1, HeldBy
  <2>7. ASSUME NEW j \in Jobs, NEW r \in Runners, NEW error \in {"reported", "unprepared"},
               Fail(j, r, error, FALSE)
        PROVE  GoesOn1(k)
    <3>1. /\ Others({j}) /\ jobs[j].state = "processing"
          /\ jobs'[j].state \in {"pending", "failed"} /\ jobs'[j].error = error
      BY <1>1, <2>7, FailWrites DEF HeldBy
    <3> QED
      BY <2>1, <3>1 DEF Others, GoesOn1
  <2>8. ASSUME NEW S, NEW r, Heartbeat(S, r) PROVE GoesOn1(k)
    BY <1>1, <2>1, <2>8, HeartbeatWrites DEF GoesOn1
  <2>9. ASSUME NEW r \in Runners, ReleaseRunnerJobs(r) PROVE GoesOn1(k)
    BY <1>1, <2>1, <2>9, ReleaseWrites DEF GoesOn1
  <2>10. ASSUME NEW S, CancelFileJobs(S) PROVE GoesOn1(k)
    BY <1>1, <2>1, <2>10, CancelWrites DEF GoesOn1
  <2> HIDE DEF GoesOn1
  <2> QED
    BY <2>2, <2>3, <2>4, <2>5, <2>6, <2>7, <2>8, <2>9, <2>10 DEF QueueOp
<1> QED
  BY <1>2, <1>3, <1>4

\* With whom and with which job the handler of c is at the time.
LEMMA HandlerOf ==
  ASSUME RTypeOK, Linked, NEW c \in Conns
  PROVE  /\ conn[c].step # "free" => conn[c].runner \in Runners
         /\ conn[c].step \in Preparing \cup Reported => conn[c].job \in Jobs
  BY InboxOf DEF Shape, ConnState

\* Nothing but operations of the queue happens to the jobs.
LEMMA StepsOfTheQueue ==
  ASSUME RInv, [RNext]_vars
  PROVE  QueueOp
<1>1. RTypeOK /\ Linked
  BY DEF RInv
<1> SUFFICES ASSUME RNext PROVE QueueOp
  BY DEF vars, QueueOp
<1>2. ASSUME NEW f \in Files,
             CompleteUpload(f) \/ EnqueueThumbnail(f) \/ DeleteFile(f) \/ DeleteRow(f)
      PROVE  QueueOp
  BY <1>2 DEF CompleteUpload, EnqueueThumbnail, DeleteFile, DeleteRow, QueueOp
<1>3. ASSUME NEW r \in Runners,
             \/ Connect(r) \/ (\E j \in Jobs : RequestJob(r, j)) \/ SendHeartbeat(r)
             \/ \E kind \in {"complete", "fail"} : Report(r, kind)
      PROVE  UNCHANGED jobs
  BY <1>3 DEF Connect, RequestJob, SendHeartbeat, Report
<1>4. ASSUME NEW c \in Conns, NEW j \in Jobs, HandleAcquire(c, j) \/ HandleHeartbeat(c, j)
             \/ HandleComplete(c, j) \/ HandleFail(c, j)
      PROVE  QueueOp
  <2>1. conn[c].runner \in Runners
    BY <1>1, <1>4, Received DEF HandleAcquire, HandleHeartbeat, HandleComplete, HandleFail
  <2> QED
    BY <1>4, <2>1 DEF HandleAcquire, HandleHeartbeat, HandleComplete, HandleFail, QueueOp
<1>5. ASSUME NEW c \in Conns, NEW j \in Jobs, PrepareFails(c, j) PROVE QueueOp
  <2>1. conn[c].runner \in Runners
    BY <1>1, <1>5, HandlerOf DEF PrepareFails
  <2> QED
    BY <1>5, <2>1 DEF PrepareFails, QueueOp
<1>6. ASSUME NEW c \in Conns, ReleaseAndClose(c) PROVE QueueOp
  <2>1. conn[c].runner \in Runners
    BY <1>1, <1>6, HandlerOf DEF ReleaseAndClose
  <2> QED
    BY <1>6, <2>1 DEF ReleaseAndClose, QueueOp
<1>7. ASSUME NEW c \in Conns,
             \/ \E j \in Jobs : HandOut(c, j) \/ MarkUnprepared(c, j) \/ Refuse(c, j)
                   \/ FinishReport(c, j) \/ ResetAcquired(c, j) \/ HandOutFails(c, j)
                   \/ \E kind \in {"acquire", "heartbeat", "complete", "fail"} : QueueError(c, kind, j)
             \/ NoticeClose(c) \/ LoseConnection(c) \/ ServerDies(c)
      PROVE  UNCHANGED jobs
  BY <1>7 DEF HandOut, MarkUnprepared, Refuse, FinishReport, ResetAcquired, HandOutFails,
              QueueError, NoticeClose, LoseConnection, ServerDies
<1>8. ASSUME NEW j \in Jobs, Lapse(j) \/ Delay(j) PROVE QueueOp
  BY <1>8 DEF Lapse, Delay, QueueOp
<1>9. UNCHANGED jobs => QueueOp
  BY DEF QueueOp
<1> HIDE DEF QueueOp
<1>10. RNext
  OBVIOUS
<1> QED
  BY ONLY <1>2, <1>3, <1>4, <1>5, <1>6, <1>7, <1>8, <1>9, <1>10 DEF RNext, Serve

-----------------------------------------------------------------------------
(* Types, links and results                                                *)

LEMMA LinkStep == ASSUME RInv, [RNext]_vars PROVE LType
<1>1. RTypeOK /\ Linked
  BY DEF RInv
<1>2. UNCHANGED <<conn, runner>> => LType
  <2> SUFFICES ASSUME conn' = conn, runner' = runner PROVE LType
    OBVIOUS
  <2>1. conn' \in [Conns -> ConnState] /\ runner' \in [Runners -> RunnerState]
    BY <1>1 DEF RTypeOK
  <2>2. Linked'
    BY <1>1 DEF Linked
  <2> QED
    BY <2>1, <2>2 DEF LType
<1>3. ASSUME NEW f \in Files,
             CompleteUpload(f) \/ EnqueueThumbnail(f) \/ DeleteFile(f) \/ DeleteRow(f)
      PROVE  UNCHANGED <<conn, runner>>
  BY <1>3 DEF CompleteUpload, EnqueueThumbnail, DeleteFile, DeleteRow
<1>4. ASSUME NEW j \in Jobs, Lapse(j) \/ Delay(j) PROVE UNCHANGED <<conn, runner>>
  BY <1>4 DEF Lapse, Delay
<1>5. UNCHANGED vars => UNCHANGED <<conn, runner>>
  BY DEF vars
<1>6. RNext \/ UNCHANGED vars
  OBVIOUS
<1>7. ASSUME NEW r \in Runners,
             \/ Connect(r) \/ (\E j \in Jobs : RequestJob(r, j)) \/ SendHeartbeat(r)
             \/ \E kind \in {"complete", "fail"} : Report(r, kind)
      PROVE  LType
  BY <1>1, <1>7, RunnerLinks
<1>8. ASSUME NEW c \in Conns,
             \/ Serve(c)
             \/ \E j \in Jobs :
                   \/ HandOutFails(c, j)
                   \/ \E kind \in {"acquire", "heartbeat", "complete", "fail"} : QueueError(c, kind, j)
             \/ LoseConnection(c) \/ ServerDies(c)
      PROVE  LType
  BY <1>1, <1>8, HandlerLinks
<1> QED
  BY ONLY <1>2, <1>3, <1>4, <1>5, <1>6, <1>7, <1>8 DEF RNext

\* Statuses change by the hooks and by the deletion of the row only.
LEMMA ThumbMoves ==
  ASSUME RTypeOK, NEW f \in Files, NEW status \in Thumb, SetThumb(f, status)
  PROVE  /\ thumb' \in [Files -> Thumb]
         /\ \A g \in Files : thumb'[g] = IF g = f /\ thumb[f] # "gone" THEN status ELSE thumb[g]
  BY DEF RTypeOK, SetThumb

LEMMA RTypeStep == ASSUME RInv, [RNext]_vars PROVE RTypeOK'
<1>1. RTypeOK /\ Linked /\ IInv /\ ReportsKnow
  BY DEF RInv
<1>2. TypeOK' /\ conn' \in [Conns -> ConnState] /\ runner' \in [Runners -> RunnerState]
  BY <1>1, LinkStep, StepsOfTheQueue, QueueOpStep DEF LType, ReportsKnow, IInv, QueueInv
<1> DEFINE Rest == /\ thumb' \in [Files -> Thumb] /\ procs' \in [Files -> SUBSET Procs]
                   /\ faults' \in 0..MaxFaults
<1>3. Fault => faults' \in 0..MaxFaults
  BY <1>1, RunnersAssumption DEF Fault, RTypeOK
<1>4. ASSUME UNCHANGED <<thumb, procs>>, Fault \/ UNCHANGED faults PROVE Rest
  BY <1>1, <1>3, <1>4 DEF RTypeOK
<1>5. ASSUME NEW f \in Files,
             CompleteUpload(f) \/ EnqueueThumbnail(f) \/ DeleteFile(f) \/ DeleteRow(f)
      PROVE  Rest
  <2>1. faults' \in 0..MaxFaults
    BY <1>1, <1>3, <1>5 DEF CompleteUpload, EnqueueThumbnail, DeleteFile, DeleteRow, RTypeOK
  <2>2. procs' \in [Files -> SUBSET Procs]
    BY <1>1, <1>5 DEF CompleteUpload, EnqueueThumbnail, DeleteFile, DeleteRow, RTypeOK, Procs
  <2>3. thumb' \in [Files -> Thumb]
    BY <1>1, <1>5 DEF CompleteUpload, EnqueueThumbnail, DeleteFile, DeleteRow, RTypeOK, Thumb, SetThumb
  <2> QED
    BY <2>1, <2>2, <2>3
<1>6. ASSUME NEW f \in Files, NEW status \in Thumb, NEW ok \in BOOLEAN,
             TryThumb(f, status, ok) \/ (SetThumb(f, status) /\ UNCHANGED faults), UNCHANGED procs
      PROVE  Rest
  <2>1. faults' \in 0..MaxFaults
    BY <1>1, <1>3, <1>6 DEF TryThumb, RTypeOK
  <2>2. thumb' \in [Files -> Thumb]
    BY <1>1, <1>6, ThumbMoves DEF TryThumb, RTypeOK
  <2> QED
    BY <1>1, <1>6, <2>1, <2>2 DEF RTypeOK
<1>7. ASSUME NEW c \in Conns, NEW j \in Jobs,
             HandOut(c, j) \/ MarkUnprepared(c, j) \/ FinishReport(c, j) \/ ResetAcquired(c, j)
      PROVE  Rest
  <2>1. FileOf[j] \in Files /\ {"processing", "queued"} \in SUBSET Thumb
    BY RunnersAssumption DEF Thumb
  <2>2. FinishReport(c, j) => Verdict(conn[c].step) \in Thumb
    BY DEF FinishReport, Verdict, Thumb
  <2>3. UNCHANGED procs
    BY <1>7 DEF HandOut, MarkUnprepared, FinishReport, ResetAcquired
  <2>4. CASE HandOut(c, j)
    BY <1>6, <2>1, <2>3, <2>4 DEF HandOut
  <2>5. CASE MarkUnprepared(c, j) \/ ResetAcquired(c, j)
    BY <1>6, <2>1, <2>3, <2>5 DEF MarkUnprepared, ResetAcquired
  <2>6. CASE FinishReport(c, j)
    BY <1>6, <2>1, <2>2, <2>3, <2>6 DEF FinishReport
  <2> QED
    BY <1>7, <2>4, <2>5, <2>6
<1>8. ASSUME NEW r \in Runners,
             \/ Connect(r) \/ (\E j \in Jobs : RequestJob(r, j)) \/ SendHeartbeat(r)
             \/ \E kind \in {"complete", "fail"} : Report(r, kind)
      PROVE  UNCHANGED <<thumb, procs, faults>>
  BY <1>8 DEF Connect, RequestJob, SendHeartbeat, Report
<1>9. ASSUME NEW c \in Conns,
             \/ \E j \in Jobs : HandleAcquire(c, j) \/ PrepareFails(c, j) \/ HandleHeartbeat(c, j)
                   \/ Refuse(c, j) \/ HandleComplete(c, j) \/ HandleFail(c, j) \/ HandOutFails(c, j)
                   \/ \E kind \in {"acquire", "heartbeat", "complete", "fail"} : QueueError(c, kind, j)
             \/ NoticeClose(c) \/ ReleaseAndClose(c) \/ LoseConnection(c) \/ ServerDies(c)
      PROVE  UNCHANGED <<thumb, procs>> /\ (Fault \/ UNCHANGED faults)
  BY <1>9 DEF HandleAcquire, PrepareFails, HandleHeartbeat, Refuse, HandleComplete, HandleFail,
              HandOutFails, QueueError, NoticeClose, ReleaseAndClose, LoseConnection, ServerDies
<1>10. ASSUME NEW j \in Jobs, Lapse(j) \/ Delay(j)
       PROVE  UNCHANGED <<thumb, procs>> /\ (Fault \/ UNCHANGED faults)
  BY <1>10 DEF Lapse, Delay
<1>11. UNCHANGED vars => UNCHANGED <<thumb, procs, faults>>
  BY DEF vars
<1>12. RNext \/ UNCHANGED vars
  OBVIOUS
<1> HIDE DEF Rest
<1>13. Rest
  BY ONLY <1>4, <1>5, <1>7, <1>8, <1>9, <1>10, <1>11, <1>12 DEF RNext, Serve
<1> QED
  BY <1>2, <1>13 DEF RTypeOK, Rest

\* Where the handlers are after a step: where they were, or elsewhere because they have
\* dealt with a message or finished with a job.
LEMMA HandlersMove ==
  ASSUME RInv, RNext, NEW d \in Conns
  PROVE  \/ conn'[d].step = conn[d].step /\ conn'[d].job = conn[d].job /\ conn'[d].runner = conn[d].runner
         \/ conn'[d].step \in {"serving", "closing", "free"}
         \/ \E j \in Jobs :
               /\ conn'[d].job = j /\ conn'[d].runner = conn[d].runner
               /\ \/ HandleAcquire(d, j) /\ Acquire(j, conn[d].runner) /\ conn'[d].step = "acquired"
                  \/ PrepareFails(d, j) /\ conn'[d].step = "unprepared"
                  \/ HandleComplete(d, j) /\ conn'[d].step = "completed"
                  \/ HandleFail(d, j) /\ conn'[d].step \in {"requeued", "failed"}
                        /\ (conn'[d].step = "requeued" => jobs'[j].state = "pending")
<1> DEFINE Same == conn'[d].step = conn[d].step /\ conn'[d].job = conn[d].job /\ conn'[d].runner = conn[d].runner
           Away == conn'[d].step \in {"serving", "closing", "free"}
           Dealt == \E j \in Jobs :
               /\ conn'[d].job = j /\ conn'[d].runner = conn[d].runner
               /\ \/ HandleAcquire(d, j) /\ Acquire(j, conn[d].runner) /\ conn'[d].step = "acquired"
                  \/ PrepareFails(d, j) /\ conn'[d].step = "unprepared"
                  \/ HandleComplete(d, j) /\ conn'[d].step = "completed"
                  \/ HandleFail(d, j) /\ conn'[d].step \in {"requeued", "failed"}
                        /\ (conn'[d].step = "requeued" => jobs'[j].state = "pending")
<1> SUFFICES Same \/ Away \/ Dealt
  OBVIOUS
<1>1. /\ RTypeOK /\ Linked /\ conn \in [Conns -> ConnState]
      /\ \A c \in Conns : conn[c] \in ConnState
  BY DEF RInv, RTypeOK
<1>2. ASSUME NEW c \in Conns, NEW new, conn' = [conn EXCEPT ![c] = new], c # d PROVE Same
  BY <1>1, <1>2
<1>3. UNCHANGED conn => Same
  OBVIOUS
<1>4. ASSUME NEW f \in Files,
             CompleteUpload(f) \/ EnqueueThumbnail(f) \/ DeleteFile(f) \/ DeleteRow(f)
      PROVE  Same
  BY <1>3, <1>4 DEF CompleteUpload, EnqueueThumbnail, DeleteFile, DeleteRow
<1>5. ASSUME NEW j \in Jobs, Lapse(j) \/ Delay(j) PROVE Same
  BY <1>3, <1>5 DEF Lapse, Delay
<1>6. ASSUME NEW r \in Runners, Connect(r) PROVE Same \/ Away
  BY <1>1, <1>6 DEF Connect, Free
<1>7. ASSUME NEW r \in Runners,
             \/ (\E j \in Jobs : RequestJob(r, j)) \/ SendHeartbeat(r)
             \/ \E kind \in {"complete", "fail"} : Report(r, kind)
      PROVE  Same
  <2>1. PICK kind, j : Send(r, kind, j)
    BY <1>7 DEF RequestJob, SendHeartbeat, Report
  <2> QED
    BY <1>1, <2>1 DEF Send, ConnState
<1>8. ASSUME NEW c \in Conns, NEW j \in Jobs, HandleAcquire(c, j) PROVE Same \/ Away \/ Dealt
  <2>1. CASE c # d
    BY <1>8, <2>1, <1>1 DEF HandleAcquire, Proceed
  <2>2. CASE c = d
    <3>1. ASSUME NEW step, NEW i, Proceed(c, step, i)
          PROVE  conn'[d].step = step /\ conn'[d].job = i /\ conn'[d].runner = conn[d].runner
      BY <1>1, <2>2, <3>1 DEF Proceed, ConnState
    <3> QED
      BY <1>8, <2>2, <3>1 DEF HandleAcquire
  <2> QED
    BY <2>1, <2>2
<1>9. ASSUME NEW c \in Conns, NEW j \in Jobs, PrepareFails(c, j) PROVE Same \/ Dealt
  BY <1>1, <1>9 DEF PrepareFails, ConnState
<1>10. ASSUME NEW c \in Conns, NEW j \in Jobs, HandleComplete(c, j) PROVE Same \/ Dealt
  BY <1>1, <1>10 DEF HandleComplete, Proceed, ConnState
<1>11. ASSUME NEW c \in Conns, NEW j \in Jobs, HandleFail(c, j) PROVE Same \/ Dealt
  <2> DEFINE step == IF jobs'[j].state = "pending" THEN "requeued" ELSE "failed"
  <2>1. CASE c # d
    BY <1>1, <1>11, <2>1 DEF HandleFail, Proceed
  <2>2. CASE c = d
    <3>1. conn'[d].step = step /\ conn'[d].job = j /\ conn'[d].runner = conn[d].runner
      BY <1>1, <1>11, <2>2 DEF HandleFail, Proceed, ConnState
    <3> QED
      BY <1>11, <2>2, <3>1
  <2> QED
    BY <2>1, <2>2
<1>12. ASSUME NEW c \in Conns, NEW j \in Jobs,
              HandOut(c, j) \/ MarkUnprepared(c, j) \/ FinishReport(c, j) \/ HandOutFails(c, j)
       PROVE  Same \/ Away
  <2>1. PICK new : conn' = [conn EXCEPT ![c] = new] /\ new.step = "serving"
    <3>1. CASE HandOutFails(c, j)
      <4> DEFINE new == [conn[c] EXCEPT !.step = "serving", !.job = NoJob, !.up = FALSE]
      <4>1. conn' = [conn EXCEPT ![c] = new] /\ new.step = "serving"
        BY <1>1, <3>1 DEF HandOutFails, ConnState
      <4> HIDE DEF new
      <4> QED
        BY <4>1
    <3>2. CASE HandOut(c, j) \/ MarkUnprepared(c, j) \/ FinishReport(c, j)
      <4>1. PICK held : Done(c, held)
        BY <1>12, <3>2 DEF HandOut, MarkUnprepared, FinishReport
      <4> DEFINE new == [conn[c] EXCEPT !.step = "serving", !.job = NoJob, !.held = held]
      <4>2. conn' = [conn EXCEPT ![c] = new] /\ new.step = "serving"
        BY <1>1, <4>1 DEF Done, ConnState
      <4> HIDE DEF new
      <4> QED
        BY <4>2
    <3> QED
      BY <1>12, <3>1, <3>2
  <2> QED
    BY <1>1, <2>1
<1>13. ASSUME NEW c \in Conns, NEW j \in Jobs, HandleHeartbeat(c, j) \/ Refuse(c, j)
       PROVE  Same \/ Away
  <2>1. Proceed(c, "serving", NoJob)
    BY <1>13 DEF HandleHeartbeat, Refuse
  <2> QED
    BY <1>1, <2>1 DEF Proceed, ConnState
<1>14. ASSUME NEW c \in Conns,
              \/ \E j \in Jobs :
                    \/ ResetAcquired(c, j)
                    \/ \E kind \in {"acquire", "heartbeat", "complete", "fail"} : QueueError(c, kind, j)
              \/ LoseConnection(c)
       PROVE  Same
  <2>1. ASSUME NEW j \in Jobs, ResetAcquired(c, j) PROVE Same
    BY <1>1, <2>1 DEF ResetAcquired, ConnState
  <2>2. ASSUME NEW j \in Jobs, NEW kind \in {"acquire", "heartbeat", "complete", "fail"},
               QueueError(c, kind, j)
        PROVE  Same
    BY <1>1, <2>2 DEF QueueError, ConnState
  <2>3. CASE LoseConnection(c)
    BY <1>1, <2>3 DEF LoseConnection, ConnState
  <2> QED
    BY <1>14, <2>1, <2>2, <2>3
<1>15. ASSUME NEW c \in Conns, NoticeClose(c) \/ ReleaseAndClose(c) \/ ServerDies(c)
       PROVE  Same \/ Away
  <2>1. CASE NoticeClose(c)
    BY <1>1, <2>1 DEF NoticeClose, ConnState
  <2>2. CASE ReleaseAndClose(c) \/ ServerDies(c)
    BY <1>1, <2>2 DEF ReleaseAndClose, ServerDies, Free
  <2> QED
    BY <1>15, <2>1, <2>2
<1> HIDE DEF Same, Away, Dealt
<1>16. RNext
  OBVIOUS
<1> QED
  BY ONLY <1>4, <1>5, <1>6, <1>7, <1>8, <1>9, <1>10, <1>11, <1>12, <1>13, <1>14, <1>15, <1>16
     DEF RNext, Serve

LEMMA ReportsStep == ASSUME RInv, [RNext]_vars PROVE ReportsKnow'
<1>1. RTypeOK /\ Linked /\ IInv /\ ReportsKnow /\ TypeOK
  BY DEF RInv, RTypeOK
<1>2. \A j \in Jobs : GoesOn1(j)
  BY <1>1, StepsOfTheQueue, QueueOpStep DEF ReportsKnow
<1>3. \A j \in Jobs : jobs'[j].state # "deleted"
          /\ (jobs'[j].error = "project_file_deleted" => jobs'[j].state = "failed")
  BY <1>2 DEF GoesOn1
<1>4. ASSUME NEW d \in Conns, conn'[d].step = "completed" PROVE jobs'[conn'[d].job].state = "succeeded"
  <2>1. CASE conn[d].step = "completed" /\ conn'[d].job = conn[d].job
    <3>1. conn[d].job \in Jobs /\ jobs[conn[d].job].state = "succeeded"
      BY <1>1, <2>1, HandlerOf DEF ReportsKnow, Reported
    <3> QED
      BY <1>2, <2>1, <3>1 DEF GoesOn1
  <2>2. CASE \E j \in Jobs : conn'[d].job = j /\ HandleComplete(d, j)
    <3>1. PICK j \in Jobs : conn'[d].job = j /\ HandleComplete(d, j)
      BY <2>2
    <3>2. conn[d].runner \in Runners
      BY <1>1, <3>1, Received DEF HandleComplete
    <3> QED
      BY <1>1, <3>1, <3>2, CompleteWrites DEF HandleComplete
  <2>3. CASE UNCHANGED vars
    BY <1>4, <2>1, <2>3 DEF vars
  <2> QED
    BY <1>4, <2>1, <2>2, <2>3, HandlersMove
<1> QED
  BY <1>3, <1>4 DEF ReportsKnow, Withdrawn

\* A status becomes "ready" by the hook after an accepted completion only.
LEMMA ReadyStep == ASSUME RInv, [RNext]_vars PROVE ReadyOnlyAfterSuccess'
<1>1. RTypeOK /\ Linked /\ IInv /\ ReportsKnow /\ ReadyOnlyAfterSuccess
  BY DEF RInv
<1>2. \A j \in Jobs : jobs[j].state = "succeeded" => jobs'[j].state = "succeeded"
  BY <1>1, StepsOfTheQueue, QueueOpStep DEF ReportsKnow, GoesOn1
<1>3. ASSUME NEW f \in Files, thumb'[f] = "ready", thumb[f] # "ready"
      PROVE  \E j \in Jobs : FileOf[j] = f /\ jobs[j].state = "succeeded"
  <2> DEFINE Fine == \E j \in Jobs : FileOf[j] = f /\ jobs[j].state = "succeeded"
  <2>1. ASSUME NEW g \in Files, NEW status \in Thumb \ {"ready"}, SetThumb(g, status) PROVE FALSE
    BY <1>1, <1>3, <2>1, ThumbMoves
  <2>2. thumb' # thumb
    BY <1>3
  <2>3. /\ \A j \in Jobs : FileOf[j] \in Files
        /\ {"processing", "queued", "failed"} \in SUBSET (Thumb \ {"ready"})
    BY RunnersAssumption DEF Thumb
  <2>4. ASSUME NEW g \in Files,
               CompleteUpload(g) \/ EnqueueThumbnail(g) \/ DeleteFile(g) \/ DeleteRow(g)
        PROVE  FALSE
    <3>1. CASE CompleteUpload(g) \/ EnqueueThumbnail(g)
      BY <2>1, <2>2, <2>3, <3>1 DEF CompleteUpload, EnqueueThumbnail
    <3>2. CASE DeleteFile(g) \/ DeleteRow(g)
      BY <1>1, <1>3, <2>2, <3>2 DEF DeleteFile, DeleteRow, RTypeOK
    <3> QED
      BY <2>4, <3>1, <3>2
  <2>5. ASSUME NEW c \in Conns, NEW j \in Jobs, HandOut(c, j) \/ MarkUnprepared(c, j) \/ ResetAcquired(c, j)
        PROVE  FALSE
    BY <2>1, <2>2, <2>3, <2>5 DEF HandOut, MarkUnprepared, ResetAcquired, TryThumb
  <2>6. ASSUME NEW c \in Conns, NEW j \in Jobs, FinishReport(c, j) PROVE Fine
    <3>1. SetThumb(FileOf[j], Verdict(conn[c].step)) /\ conn[c].step \in Reported /\ conn[c].job = j
      BY <2>2, <2>6 DEF FinishReport, TryThumb, Reported
    <3>2. conn[c].step = "completed"
      <4>1. Verdict(conn[c].step) \in Thumb
        BY <3>1 DEF Verdict, Thumb, Reported
      <4>2. Verdict(conn[c].step) = "ready"
        BY <2>1, <2>3, <3>1, <4>1
      <4> QED
        BY <3>1, <4>2 DEF Verdict, Reported
    <3>3. jobs[j].state = "succeeded"
      BY <1>1, <3>1, <3>2 DEF ReportsKnow
    <3>4. FileOf[j] = f
      <4>1. Verdict(conn[c].step) \in Thumb
        BY <3>1 DEF Verdict, Thumb, Reported
      <4> QED
        BY <1>1, <1>3, <2>3, <3>1, <4>1, ThumbMoves
    <3> QED
      BY <3>3, <3>4
  <2>7. ASSUME NEW r \in Runners,
               \/ Connect(r) \/ (\E j \in Jobs : RequestJob(r, j)) \/ SendHeartbeat(r)
               \/ \E kind \in {"complete", "fail"} : Report(r, kind)
        PROVE  UNCHANGED thumb
    BY <2>7 DEF Connect, RequestJob, SendHeartbeat, Report
  <2>8. ASSUME NEW c \in Conns,
               \/ \E j \in Jobs : HandleAcquire(c, j) \/ PrepareFails(c, j) \/ HandleHeartbeat(c, j)
                     \/ Refuse(c, j) \/ HandleComplete(c, j) \/ HandleFail(c, j) \/ HandOutFails(c, j)
                     \/ \E kind \in {"acquire", "heartbeat", "complete", "fail"} : QueueError(c, kind, j)
               \/ NoticeClose(c) \/ ReleaseAndClose(c) \/ LoseConnection(c) \/ ServerDies(c)
        PROVE  UNCHANGED thumb
    BY <2>8 DEF HandleAcquire, PrepareFails, HandleHeartbeat, Refuse, HandleComplete, HandleFail,
                HandOutFails, QueueError, NoticeClose, ReleaseAndClose, LoseConnection, ServerDies
  <2>9. ASSUME NEW j \in Jobs, Lapse(j) \/ Delay(j) PROVE UNCHANGED thumb
    BY <2>9 DEF Lapse, Delay
  <2>10. RNext
    BY <2>2 DEF vars
  <2> HIDE DEF Fine
  <2>11. Fine
    BY ONLY <2>2, <2>4, <2>5, <2>6, <2>7, <2>8, <2>9, <2>10 DEF RNext, Serve
  <2> QED
    BY <2>11 DEF Fine
<1> QED
  BY <1>1, <1>2, <1>3 DEF ReadyOnlyAfterSuccess

-----------------------------------------------------------------------------
(* Until the first fault                                                   *)

\* The steps that are left without faults: no connection closes, every hook writes.
CalmNext ==
    \/ \E f \in Files :
          \/ CompleteUpload(f)
          \/ EnqueueThumbnail(f) /\ thumb' = thumb /\ \E j \in Jobs : FileOf[j] = f /\ Enqueue(j)
          \/ DeleteFile(f)
          \/ DeleteRow(f) /\ thumb' = [thumb EXCEPT ![f] = "gone"]
    \/ \E r \in Runners :
          \/ Connect(r) \/ (\E j \in Jobs : RequestJob(r, j)) \/ SendHeartbeat(r)
          \/ \E kind \in {"complete", "fail"} : Report(r, kind)
    \/ \E c \in Conns, j \in Jobs :
          \/ HandleAcquire(c, j) \/ HandOut(c, j)
          \/ PrepareFails(c, j) /\ \/ Fail(j, conn[c].runner, "unprepared", FALSE)
                                   \/ ~HeldBy(j, conn[c].runner) /\ UNCHANGED jobs
          \/ MarkUnprepared(c, j) /\ SetThumb(FileOf[j], "queued")
          \/ HandleHeartbeat(c, j) \/ Refuse(c, j) \/ HandleComplete(c, j) \/ HandleFail(c, j)
          \/ FinishReport(c, j) /\ SetThumb(FileOf[j], Verdict(conn[c].step))
    \/ \E j \in Jobs : (Lapse(j) /\ ~Attended(j)) \/ (Delay(j) /\ ~Handled(j))

LEMMA CalmSteps ==
  ASSUME RInv, RNext, faults = 0, faults' = 0
  PROVE  CalmNext
<1>1. ~Fault
  BY DEF Fault
<1>2. /\ \A c \in Conns : conn[c].step # "free" => conn[c].up
      /\ \A c \in Conns : Shape(conn[c])
  BY DEF RInv, Calm, Linked
<1>3. ASSUME NEW f \in Files, EnqueueThumbnail(f) \/ DeleteRow(f) PROVE CalmNext
  BY <1>1, <1>3 DEF EnqueueThumbnail, DeleteRow, CalmNext
<1>4. ASSUME NEW f \in Files, CompleteUpload(f) \/ DeleteFile(f) PROVE CalmNext
  BY <1>4 DEF CalmNext
<1>5. ASSUME NEW r \in Runners,
             \/ Connect(r) \/ (\E j \in Jobs : RequestJob(r, j)) \/ SendHeartbeat(r)
             \/ \E kind \in {"complete", "fail"} : Report(r, kind)
      PROVE  CalmNext
  BY <1>5 DEF CalmNext
<1>6. ASSUME NEW c \in Conns, NEW j \in Jobs,
             \/ HandleAcquire(c, j) \/ HandOut(c, j) \/ HandleHeartbeat(c, j) \/ Refuse(c, j)
             \/ HandleComplete(c, j) \/ HandleFail(c, j)
      PROVE  CalmNext
  BY <1>6 DEF CalmNext
<1>7. ASSUME NEW c \in Conns, NEW j \in Jobs, PrepareFails(c, j) PROVE CalmNext
  BY <1>1, <1>7 DEF CalmNext, PrepareFails
<1>8. ASSUME NEW c \in Conns, NEW j \in Jobs, MarkUnprepared(c, j) PROVE CalmNext
  <2>1. SetThumb(FileOf[j], "queued")
    BY <1>1, <1>8 DEF MarkUnprepared, TryThumb
  <2> QED
    BY <1>8, <2>1 DEF CalmNext
<1>9. ASSUME NEW c \in Conns, NEW j \in Jobs, FinishReport(c, j) PROVE CalmNext
  <2>1. SetThumb(FileOf[j], Verdict(conn[c].step))
    BY <1>1, <1>9 DEF FinishReport, TryThumb
  <2> QED
    BY <1>9, <2>1 DEF CalmNext
<1>10. ASSUME NEW c \in Conns,
              \/ \E j \in Jobs :
                    \/ ResetAcquired(c, j) \/ HandOutFails(c, j)
                    \/ \E kind \in {"acquire", "heartbeat", "complete", "fail"} : QueueError(c, kind, j)
              \/ NoticeClose(c) \/ ReleaseAndClose(c) \/ LoseConnection(c) \/ ServerDies(c)
       PROVE  FALSE
  <2>1. CASE \E j \in Jobs : HandOutFails(c, j)
                \/ \E kind \in {"acquire", "heartbeat", "complete", "fail"} : QueueError(c, kind, j)
    BY <1>1, <2>1 DEF HandOutFails, QueueError
  <2>2. CASE LoseConnection(c) \/ ServerDies(c)
    BY <1>1, <2>2 DEF LoseConnection, ServerDies
  <2>3. CASE NoticeClose(c) \/ ReleaseAndClose(c) \/ \E j \in Jobs : ResetAcquired(c, j)
    BY <1>2, <2>3 DEF NoticeClose, ReleaseAndClose, ResetAcquired, Shape
  <2> QED
    BY <1>10, <2>1, <2>2, <2>3
<1>11. ASSUME NEW j \in Jobs, Lapse(j) \/ Delay(j) PROVE CalmNext
  <2>1. (Lapse(j) /\ ~Attended(j)) \/ (Delay(j) /\ ~Handled(j))
    BY <1>1, <1>11 DEF Lapse, Delay
  <2> QED
    BY <2>1 DEF CalmNext
<1>12. RNext
  OBVIOUS
<1> HIDE DEF CalmNext
<1> QED
  BY ONLY <1>3, <1>4, <1>5, <1>6, <1>7, <1>8, <1>9, <1>10, <1>11, <1>12 DEF RNext, Serve

\* A job that its runner owns stays its own while it is attended to, until the runner
\* reports on it or cannot be given it, or the file is deleted.
LEMMA OwnedStays ==
  ASSUME RInv, CalmNext, NEW r \in Runners, NEW j \in Jobs, Owns(r, j), Attended(j)
  PROVE  \/ Owns(r, j)' \/ Withdrawn(j)'
         \/ \E c \in Conns : /\ conn[c].runner = r
                             /\ HandleComplete(c, j) \/ HandleFail(c, j) \/ PrepareFails(c, j)
<1> DEFINE Goal ==
       \/ Owns(r, j)' \/ Withdrawn(j)'
       \/ \E c \in Conns : /\ conn[c].runner = r
                           /\ HandleComplete(c, j) \/ HandleFail(c, j) \/ PrepareFails(c, j)
<1> SUFFICES Goal
  OBVIOUS
<1>1. TypeOK /\ RTypeOK /\ Linked
  BY DEF RInv, RTypeOK
<1>2. UNCHANGED jobs => Goal
  BY DEF Owns
<1>3. ASSUME NEW i \in Jobs, Enqueue(i) PROVE Goal
  BY <1>1, <1>3, EnqueueWrites DEF Others, Owns
<1>4. ASSUME NEW f \in Files, CompleteUpload(f) \/ DeleteRow(f) PROVE Goal
  BY <1>2, <1>4 DEF CompleteUpload, DeleteRow
<1>5. ASSUME NEW f \in Files, DeleteFile(f) PROVE Goal
  BY <1>1, <1>5, CancelWrites DEF DeleteFile, Owns, Withdrawn
<1>6. ASSUME NEW q \in Runners,
             \/ Connect(q) \/ (\E i \in Jobs : RequestJob(q, i)) \/ SendHeartbeat(q)
             \/ \E kind \in {"complete", "fail"} : Report(q, kind)
      PROVE  Goal
  BY <1>2, <1>6 DEF Connect, RequestJob, SendHeartbeat, Report
<1>7. ASSUME NEW c \in Conns, NEW i \in Jobs, HandleAcquire(c, i) PROVE Goal
  <2>1. CASE UNCHANGED jobs
    BY <1>2, <2>1
  <2>2. CASE Acquire(i, conn[c].runner)
    <3>1. conn[c].runner \in Runners
      BY <1>1, <1>7, Received DEF HandleAcquire
    <3> QED
      BY <1>1, <2>2, <3>1, AcquireWrites DEF Others, Owns
  <2> QED
    BY <1>7, <2>1, <2>2 DEF HandleAcquire
<1>8. ASSUME NEW c \in Conns, NEW i \in Jobs, HandOut(c, i) \/ MarkUnprepared(c, i) \/ Refuse(c, i) \/ FinishReport(c, i)
      PROVE  Goal
  BY <1>2, <1>8 DEF HandOut, MarkUnprepared, Refuse, FinishReport
<1>9. ASSUME NEW c \in Conns, NEW i \in Jobs, HandleHeartbeat(c, i) PROVE Goal
  BY <1>1, <1>9, HeartbeatWrites DEF HandleHeartbeat, Owns
<1>10. ASSUME NEW c \in Conns, NEW i \in Jobs, HandleComplete(c, i) \/ HandleFail(c, i) PROVE Goal
  <2>1. conn[c].runner \in Runners
    BY <1>1, <1>10, Received DEF HandleComplete, HandleFail
  <2>2. Others({i}) /\ HeldBy(i, conn[c].runner)
    BY <1>1, <1>10, <2>1, CompleteWrites, FailWrites DEF HandleComplete, HandleFail
  <2> QED
    BY <1>10, <2>2 DEF Others, Owns, HeldBy
<1>11. ASSUME NEW c \in Conns, NEW i \in Jobs, PrepareFails(c, i),
              Fail(i, conn[c].runner, "unprepared", FALSE) \/ UNCHANGED jobs
       PROVE  Goal
  <2>1. conn[c].runner \in Runners
    BY <1>1, <1>11, HandlerOf DEF PrepareFails
  <2>2. CASE Fail(i, conn[c].runner, "unprepared", FALSE)
    <3>1. Others({i}) /\ HeldBy(i, conn[c].runner)
      BY <1>1, <2>1, <2>2, FailWrites
    <3> QED
      BY <1>11, <3>1 DEF Others, Owns, HeldBy
  <2> QED
    BY <1>2, <1>11, <2>2
<1>12. ASSUME NEW i \in Jobs, Lapse(i) /\ ~Attended(i) PROVE Goal
  <2>1. i # j
    BY <1>12
  <2> QED
    BY <1>1, <1>12, <2>1, TimeWrites DEF Others, Owns, Lapse
<1>13. ASSUME NEW i \in Jobs, Delay(i) PROVE Goal
  BY <1>1, <1>13, TimeWrites DEF Others, Owns, Delay
<1>14. CalmNext
  OBVIOUS
<1> HIDE DEF Goal
<1> QED
  BY ONLY <1>3, <1>4, <1>5, <1>6, <1>7, <1>8, <1>9, <1>10, <1>11, <1>12, <1>13, <1>14 DEF CalmNext

\* A job that was put back is not taken while its handler is still busy with it.
LEMMA PutBackStays ==
  ASSUME RInv, CalmNext, NEW j \in Jobs, PutBack(j), Handled(j)
  PROVE  PutBack(j)' \/ Withdrawn(j)'
<1> DEFINE Goal == PutBack(j)' \/ Withdrawn(j)'
<1> SUFFICES Goal
  OBVIOUS
<1>1. TypeOK /\ RTypeOK /\ Linked
  BY DEF RInv, RTypeOK
<1>2. UNCHANGED jobs => Goal
  BY DEF PutBack
<1>3. ASSUME NEW i \in Jobs, Enqueue(i) PROVE Goal
  BY <1>1, <1>3, EnqueueWrites DEF Others, PutBack
<1>4. ASSUME NEW f \in Files, CompleteUpload(f) \/ DeleteRow(f) PROVE Goal
  BY <1>2, <1>4 DEF CompleteUpload, DeleteRow
<1>5. ASSUME NEW f \in Files, DeleteFile(f) PROVE Goal
  BY <1>1, <1>5, CancelWrites DEF DeleteFile, PutBack, Withdrawn
<1>6. ASSUME NEW q \in Runners,
             \/ Connect(q) \/ (\E i \in Jobs : RequestJob(q, i)) \/ SendHeartbeat(q)
             \/ \E kind \in {"complete", "fail"} : Report(q, kind)
      PROVE  Goal
  BY <1>2, <1>6 DEF Connect, RequestJob, SendHeartbeat, Report
<1>7. ASSUME NEW c \in Conns, NEW i \in Jobs, HandleAcquire(c, i) PROVE Goal
  <2>1. CASE UNCHANGED jobs
    BY <1>2, <2>1
  <2>2. CASE Acquire(i, conn[c].runner)
    <3>1. conn[c].runner \in Runners
      BY <1>1, <1>7, Received DEF HandleAcquire
    <3> QED
      BY <1>1, <2>2, <3>1, AcquireWrites DEF Others, PutBack
  <2> QED
    BY <1>7, <2>1, <2>2 DEF HandleAcquire
<1>8. ASSUME NEW c \in Conns, NEW i \in Jobs, HandOut(c, i) \/ MarkUnprepared(c, i) \/ Refuse(c, i) \/ FinishReport(c, i)
      PROVE  Goal
  BY <1>2, <1>8 DEF HandOut, MarkUnprepared, Refuse, FinishReport
<1>9. ASSUME NEW c \in Conns, NEW i \in Jobs, HandleHeartbeat(c, i) PROVE Goal
  BY <1>1, <1>9, HeartbeatWrites DEF HandleHeartbeat, PutBack
<1>10. ASSUME NEW c \in Conns, NEW i \in Jobs, HandleComplete(c, i) \/ HandleFail(c, i) PROVE Goal
  <2>1. conn[c].runner \in Runners
    BY <1>1, <1>10, Received DEF HandleComplete, HandleFail
  <2>2. Others({i}) /\ HeldBy(i, conn[c].runner)
    BY <1>1, <1>10, <2>1, CompleteWrites, FailWrites DEF HandleComplete, HandleFail
  <2> QED
    BY <2>2 DEF Others, PutBack, HeldBy
<1>11. ASSUME NEW c \in Conns, NEW i \in Jobs, PrepareFails(c, i),
              Fail(i, conn[c].runner, "unprepared", FALSE) \/ UNCHANGED jobs
       PROVE  Goal
  <2>1. conn[c].runner \in Runners
    BY <1>1, <1>11, HandlerOf DEF PrepareFails
  <2>2. CASE Fail(i, conn[c].runner, "unprepared", FALSE)
    <3>1. Others({i}) /\ HeldBy(i, conn[c].runner)
      BY <1>1, <2>1, <2>2, FailWrites
    <3> QED
      BY <3>1 DEF Others, PutBack, HeldBy
  <2> QED
    BY <1>2, <1>11, <2>2
<1>12. ASSUME NEW i \in Jobs, Lapse(i) PROVE Goal
  BY <1>1, <1>12, TimeWrites DEF Others, PutBack, Lapse
<1>13. ASSUME NEW i \in Jobs, Delay(i) /\ ~Handled(i) PROVE Goal
  <2>1. i # j
    BY <1>13
  <2> QED
    BY <1>1, <1>13, <2>1, TimeWrites DEF Others, PutBack, Delay
<1>14. CalmNext
  OBVIOUS
<1> HIDE DEF Goal
<1> QED
  BY ONLY <1>3, <1>4, <1>5, <1>6, <1>7, <1>8, <1>9, <1>10, <1>11, <1>12, <1>13, <1>14 DEF CalmNext

LEMMA FaultsCount == ASSUME RInv, [RNext]_vars, faults' = 0 PROVE faults = 0
<1>1. faults \in Nat
  BY RunnersAssumption DEF RInv, RTypeOK
<1>2. Fault => faults' # 0
  BY <1>1 DEF Fault
<1>3. ASSUME NEW f \in Files,
             CompleteUpload(f) \/ EnqueueThumbnail(f) \/ DeleteFile(f) \/ DeleteRow(f)
      PROVE  Fault \/ UNCHANGED faults
  BY <1>3 DEF CompleteUpload, EnqueueThumbnail, DeleteFile, DeleteRow
<1>4. ASSUME NEW r \in Runners,
             \/ Connect(r) \/ (\E j \in Jobs : RequestJob(r, j)) \/ SendHeartbeat(r)
             \/ \E kind \in {"complete", "fail"} : Report(r, kind)
      PROVE  UNCHANGED faults
  BY <1>4 DEF Connect, RequestJob, SendHeartbeat, Report
<1>5. ASSUME NEW c \in Conns,
             \/ \E j \in Jobs : HandleAcquire(c, j) \/ PrepareFails(c, j) \/ HandleHeartbeat(c, j)
                   \/ HandOut(c, j) \/ MarkUnprepared(c, j) \/ FinishReport(c, j) \/ ResetAcquired(c, j)
                   \/ Refuse(c, j) \/ HandleComplete(c, j) \/ HandleFail(c, j) \/ HandOutFails(c, j)
                   \/ \E kind \in {"acquire", "heartbeat", "complete", "fail"} : QueueError(c, kind, j)
             \/ NoticeClose(c) \/ ReleaseAndClose(c) \/ LoseConnection(c) \/ ServerDies(c)
      PROVE  Fault \/ UNCHANGED faults
  BY <1>5 DEF HandleAcquire, PrepareFails, HandleHeartbeat, HandOut, MarkUnprepared, FinishReport,
              ResetAcquired, TryThumb, Refuse, HandleComplete, HandleFail,
              HandOutFails, QueueError, NoticeClose, ReleaseAndClose, LoseConnection, ServerDies
<1>6. ASSUME NEW j \in Jobs, Lapse(j) \/ Delay(j) PROVE Fault \/ UNCHANGED faults
  BY <1>6 DEF Lapse, Delay
<1>7. UNCHANGED vars => UNCHANGED faults
  BY DEF vars
<1>8. RNext \/ UNCHANGED vars
  OBVIOUS
<1>9. Fault \/ UNCHANGED faults
  BY ONLY <1>3, <1>4, <1>5, <1>6, <1>7, <1>8 DEF RNext, Serve
<1> QED
  BY <1>2, <1>9

\* Who works after a step has worked before, or has just been handed the job.
LEMMA WorkersMove ==
  ASSUME RInv, CalmNext, NEW r \in Runners, runner'[r].phase = "working"
  PROVE  \/ runner[r].phase = "working" /\ runner'[r].job = runner[r].job
         \/ \E c \in Conns, j \in Jobs :
               HandOut(c, j) /\ conn[c].up /\ conn[c].runner = r /\ runner'[r].job = j
<1> DEFINE Same == runner[r].phase = "working" /\ runner'[r].job = runner[r].job
           New == \E c \in Conns, j \in Jobs :
               HandOut(c, j) /\ conn[c].up /\ conn[c].runner = r /\ runner'[r].job = j
<1> SUFFICES Same \/ New
  OBVIOUS
<1>1. /\ RTypeOK /\ Linked /\ runner \in [Runners -> RunnerState]
      /\ \A q \in Runners : runner[q] \in RunnerState
  BY DEF RInv, RTypeOK
<1>2. UNCHANGED runner => Same
  OBVIOUS
<1>3. ASSUME NEW c \in Conns, Reply(c, "idle") PROVE Same
  <2>1. CASE ~conn[c].up
    BY <1>2, <1>3, <2>1 DEF Reply
  <2>2. CASE conn[c].up
    <3>1. PICK w : runner' = [runner EXCEPT ![conn[c].runner] = w] /\ w.phase = "idle"
      BY <1>1, <1>3, <2>2, ReplyIs
    <3> QED
      BY <1>1, <3>1
  <2> QED
    BY <2>1, <2>2
<1>4. ASSUME NEW f \in Files,
             CompleteUpload(f) \/ EnqueueThumbnail(f) \/ DeleteFile(f) \/ DeleteRow(f)
      PROVE  Same
  BY <1>2, <1>4 DEF CompleteUpload, EnqueueThumbnail, DeleteFile, DeleteRow
<1>5. ASSUME NEW q \in Runners,
             \/ Connect(q) \/ (\E j \in Jobs : RequestJob(q, j)) \/ SendHeartbeat(q)
             \/ \E kind \in {"complete", "fail"} : Report(q, kind)
      PROVE  Same
  <2>1. CASE Connect(q)
    BY <1>1, <2>1 DEF Connect
  <2>2. CASE \E j \in Jobs : RequestJob(q, j)
    BY <1>1, <2>2 DEF RequestJob, RunnerState
  <2>3. CASE SendHeartbeat(q)
    BY <1>2, <2>3 DEF SendHeartbeat
  <2>4. CASE \E kind \in {"complete", "fail"} : Report(q, kind)
    BY <1>1, <2>4 DEF Report, RunnerState
  <2> QED
    BY <1>5, <2>1, <2>2, <2>3, <2>4
<1>6. ASSUME NEW c \in Conns, NEW j \in Jobs, HandOut(c, j) PROVE Same \/ New
  <2>1. CASE ~conn[c].up
    BY <1>2, <1>6, <2>1 DEF HandOut, Reply
  <2>2. CASE conn[c].up
    <3>1. PICK w : /\ runner' = [runner EXCEPT ![conn[c].runner] = w]
                   /\ w.job = runner[conn[c].runner].job
      BY <1>1, <1>6, <2>2, ReplyIs DEF HandOut
    <3>2. runner[conn[c].runner].job = j
      BY <1>1, <1>6, <2>2, InboxOf DEF HandOut, Fits, Preparing
    <3> QED
      BY <1>1, <1>6, <2>2, <3>1, <3>2
  <2> QED
    BY <2>1, <2>2
<1>7. ASSUME NEW c \in Conns, NEW j \in Jobs,
             MarkUnprepared(c, j) \/ Refuse(c, j) \/ FinishReport(c, j) \/ HandleAcquire(c, j)
      PROVE  Same
  BY <1>2, <1>3, <1>7 DEF MarkUnprepared, Refuse, FinishReport, HandleAcquire
<1>8. ASSUME NEW c \in Conns, NEW j \in Jobs,
             PrepareFails(c, j) \/ HandleHeartbeat(c, j) \/ HandleComplete(c, j) \/ HandleFail(c, j)
      PROVE  Same
  BY <1>2, <1>8 DEF PrepareFails, HandleHeartbeat, HandleComplete, HandleFail
<1>9. ASSUME NEW j \in Jobs, Lapse(j) \/ Delay(j) PROVE Same
  BY <1>2, <1>9 DEF Lapse, Delay
<1>10. CalmNext
  OBVIOUS
<1> HIDE DEF Same, New
<1> QED
  BY ONLY <1>4, <1>5, <1>6, <1>7, <1>8, <1>9, <1>10 DEF CalmNext

\* No connection closes.
LEMMA StayUp ==
  ASSUME RInv, CalmNext, \A c \in Conns : conn[c].step # "free" => conn[c].up
  PROVE  \A d \in Conns : conn'[d].step # "free" => conn'[d].up
<1> SUFFICES ASSUME NEW d \in Conns PROVE conn'[d].step # "free" => conn'[d].up
  OBVIOUS
<1> DEFINE Same == conn'[d].up = conn[d].up /\ (conn[d].step = "free" => conn'[d].step = "free")
<1>1. /\ RTypeOK /\ Linked /\ conn \in [Conns -> ConnState]
      /\ \A c \in Conns : conn[c] \in ConnState
  BY DEF RInv, RTypeOK
<1>2. UNCHANGED conn => Same
  OBVIOUS
<1>3. ASSUME NEW f \in Files,
             CompleteUpload(f) \/ EnqueueThumbnail(f) \/ DeleteFile(f) \/ DeleteRow(f)
      PROVE  Same
  BY <1>2, <1>3 DEF CompleteUpload, EnqueueThumbnail, DeleteFile, DeleteRow
<1>4. ASSUME NEW r \in Runners, Connect(r) PROVE Same \/ conn'[d].up
  BY <1>1, <1>4 DEF Connect, Free
<1>5. ASSUME NEW r \in Runners,
             \/ (\E j \in Jobs : RequestJob(r, j)) \/ SendHeartbeat(r)
             \/ \E kind \in {"complete", "fail"} : Report(r, kind)
      PROVE  Same
  <2>1. PICK kind, j : Send(r, kind, j)
    BY <1>5 DEF RequestJob, SendHeartbeat, Report
  <2> QED
    BY <1>1, <2>1 DEF Send, ConnState
<1>6. ASSUME NEW c \in Conns, NEW step, NEW j, Proceed(c, step, j), conn[c].step # "free" PROVE Same
  BY <1>1, <1>6 DEF Proceed, ConnState
<1>7. ASSUME NEW c \in Conns, NEW held, Done(c, held), conn[c].step # "free" PROVE Same
  BY <1>1, <1>7 DEF Done, ConnState
<1>8. ASSUME NEW c \in Conns, NEW j \in Jobs,
             HandleAcquire(c, j) \/ HandleHeartbeat(c, j) \/ Refuse(c, j) \/ HandleComplete(c, j)
                \/ HandleFail(c, j)
      PROVE  Same
  <2>1. conn[c].step # "free" /\ \E step, i : Proceed(c, step, i)
    BY <1>8 DEF HandleAcquire, HandleHeartbeat, Refuse, HandleComplete, HandleFail, Receives
  <2> QED
    BY <1>6, <2>1
<1>9. ASSUME NEW c \in Conns, NEW j \in Jobs, HandOut(c, j) \/ MarkUnprepared(c, j) \/ FinishReport(c, j)
      PROVE  Same
  <2>1. conn[c].step # "free" /\ \E held : Done(c, held)
    BY <1>9 DEF HandOut, MarkUnprepared, FinishReport
  <2> QED
    BY <1>7, <2>1
<1>10. ASSUME NEW c \in Conns, NEW j \in Jobs, PrepareFails(c, j) PROVE Same
  BY <1>1, <1>10 DEF PrepareFails, ConnState
<1>11. ASSUME NEW j \in Jobs, Lapse(j) \/ Delay(j) PROVE Same
  BY <1>2, <1>11 DEF Lapse, Delay
<1>12. Same => (conn'[d].step # "free" => conn'[d].up)
  OBVIOUS
<1>13. CalmNext
  OBVIOUS
<1> HIDE DEF Same
<1>14. Same \/ conn'[d].up
  BY ONLY <1>3, <1>4, <1>5, <1>8, <1>9, <1>10, <1>11, <1>13 DEF CalmNext
<1> QED
  BY <1>12, <1>14

\* Jobs are withdrawn with their file only.
LEMMA WithdrawnWith ==
  ASSUME RInv, CalmNext, NEW j \in Jobs, Withdrawn(j)', ~Withdrawn(j)
  PROVE  DeleteFile(FileOf[j])
<1>1. TypeOK /\ RTypeOK /\ Linked
  BY DEF RInv, RTypeOK
<1>2. jobs'[j].error = "project_file_deleted" /\ jobs[j].error # "project_file_deleted"
  BY DEF Withdrawn
<1>3. ASSUME NEW i \in Jobs, Enqueue(i) PROVE FALSE
  BY <1>1, <1>2, <1>3, EnqueueWrites DEF Others
<1>4. ASSUME NEW f \in Files, CompleteUpload(f) \/ DeleteRow(f) PROVE FALSE
  BY <1>2, <1>4 DEF CompleteUpload, DeleteRow
<1>5. ASSUME NEW f \in Files, DeleteFile(f) PROVE DeleteFile(FileOf[j])
  <2>1. j \in {i \in Jobs : FileOf[i] = f}
    BY <1>1, <1>2, <1>5, CancelWrites DEF DeleteFile
  <2> QED
    BY <1>5, <2>1
<1>6. ASSUME NEW q \in Runners,
             \/ Connect(q) \/ (\E i \in Jobs : RequestJob(q, i)) \/ SendHeartbeat(q)
             \/ \E kind \in {"complete", "fail"} : Report(q, kind)
      PROVE  FALSE
  BY <1>2, <1>6 DEF Connect, RequestJob, SendHeartbeat, Report
<1>7. ASSUME NEW c \in Conns, NEW i \in Jobs,
             HandleAcquire(c, i) \/ HandleComplete(c, i) \/ HandleFail(c, i)
      PROVE  FALSE
  <2>1. conn[c].runner \in Runners
    BY <1>1, <1>7, Received DEF HandleAcquire, HandleComplete, HandleFail
  <2>2. CASE HandleAcquire(c, i)
    BY <1>1, <1>2, <2>1, <2>2, AcquireWrites DEF HandleAcquire, Others
  <2>3. CASE HandleComplete(c, i)
    BY <1>1, <1>2, <2>1, <2>3, CompleteWrites DEF HandleComplete, Others
  <2>4. CASE HandleFail(c, i)
    BY <1>1, <1>2, <2>1, <2>4, FailWrites DEF HandleFail, Others
  <2> QED
    BY <1>7, <2>2, <2>3, <2>4
<1>8. ASSUME NEW c \in Conns, NEW i \in Jobs,
             HandOut(c, i) \/ MarkUnprepared(c, i) \/ Refuse(c, i) \/ FinishReport(c, i)
      PROVE  FALSE
  BY <1>2, <1>8 DEF HandOut, MarkUnprepared, Refuse, FinishReport
<1>9. ASSUME NEW c \in Conns, NEW i \in Jobs, HandleHeartbeat(c, i) PROVE FALSE
  BY <1>1, <1>2, <1>9, HeartbeatWrites DEF HandleHeartbeat
<1>10. ASSUME NEW c \in Conns, NEW i \in Jobs, PrepareFails(c, i),
              Fail(i, conn[c].runner, "unprepared", FALSE) \/ UNCHANGED jobs
       PROVE  FALSE
  <2>1. conn[c].runner \in Runners
    BY <1>1, <1>10, HandlerOf DEF PrepareFails
  <2> QED
    BY <1>1, <1>2, <1>10, <2>1, FailWrites DEF Others
<1>11. ASSUME NEW i \in Jobs, Lapse(i) \/ Delay(i) PROVE FALSE
  BY <1>1, <1>2, <1>11, TimeWrites DEF Others, Lapse, Delay
<1>12. CalmNext
  OBVIOUS
<1> QED
  BY ONLY <1>3, <1>4, <1>5, <1>6, <1>7, <1>8, <1>9, <1>10, <1>11, <1>12 DEF CalmNext

\* An open connection is the one its runner is connected by.
LEMMA OneConnection ==
  ASSUME RInv, \A c \in Conns : conn[c].step # "free" => conn[c].up,
         NEW c \in Conns, NEW d \in Conns, conn[c].step # "free", conn[d].step # "free",
         conn[c].runner = conn[d].runner
  PROVE  c = d
  BY DEF RInv, Linked, Fits

\* What has failed stays what it is.
LEMMA FailedStays ==
  ASSUME RInv, [RNext]_vars, NEW j \in Jobs
  PROVE  /\ GoesOn1(j)
         /\ Withdrawn(j) => Withdrawn(j)'
<1>1. GoesOn1(j) /\ (Withdrawn(j) => jobs[j].state = "failed")
  BY StepsOfTheQueue, QueueOpStep DEF RInv, ReportsKnow
<1> QED
  BY <1>1 DEF GoesOn1, Withdrawn

LEMMA CalmWorkers ==
  ASSUME RInv, Calm, RNext, CalmNext, NEW r \in Runners, runner'[r].phase = "working"
  PROVE  Owns(r, runner[r].job)' \/ Withdrawn(runner[r].job)'
<1> DEFINE j == runner'[r].job
<1>1. TypeOK /\ RTypeOK /\ Linked
  BY DEF RInv, RTypeOK
<1>2. CASE runner[r].phase = "working" /\ j = runner[r].job
  <2> DEFINE i == runner[r].job
  <2>1. i \in Jobs /\ j = i
    BY <1>1, <1>2, ListedJob
  <2>2. CASE Withdrawn(i)
    <3>1. Withdrawn(i) => jobs'[i].error = "project_file_deleted"
      BY <2>1, FailedStays DEF Withdrawn
    <3> QED
      BY <2>1, <2>2, <3>1 DEF Withdrawn
  <2>3. CASE Owns(r, i)
    <3>1. Attended(i)
      BY <1>2, <2>3 DEF Attended, Owns
    <3>2. ASSUME NEW c \in Conns, conn[c].runner = r,
                 HandleComplete(c, i) \/ HandleFail(c, i) \/ PrepareFails(c, i)
          PROVE  FALSE
      <4>1. conn[c].step # "free"
        BY <3>2 DEF HandleComplete, HandleFail, PrepareFails, Receives
      <4>2. conn[c].up
        BY <4>1 DEF Calm
      <4>3. CASE HandleComplete(c, i) \/ HandleFail(c, i)
        BY <1>1, <1>2, <3>2, <4>2, <4>3, Received DEF HandleComplete, HandleFail
      <4>4. CASE PrepareFails(c, i)
        BY <1>1, <1>2, <3>2, <4>2, <4>4, InboxOf DEF PrepareFails, Fits, Preparing
      <4> QED
        BY <3>2, <4>3, <4>4
    <3>3. \/ jobs'[i].state = "processing" /\ jobs'[i].runner = r /\ jobs'[i].lease = "live"
          \/ jobs'[i].error = "project_file_deleted"
      BY <2>1, <2>3, <3>1, <3>2, OwnedStays DEF Owns, Withdrawn
    <3> QED
      BY <2>1, <3>3 DEF Owns, Withdrawn
  <2>4. Owns(r, i) \/ Withdrawn(i)
    BY <1>2 DEF Calm
  <2> QED
    BY <2>2, <2>3, <2>4
<1>3. ASSUME NEW c \in Conns, NEW i \in Jobs, HandOut(c, i), conn[c].runner = r, j = i
      PROVE  Owns(r, runner[r].job)' \/ Withdrawn(runner[r].job)'
  <2>1. Owns(r, i) \/ Withdrawn(i)
    BY <1>3 DEF Calm, HandOut
  <2>2. jobs' = jobs
    BY <1>3 DEF HandOut
  <2> QED
    BY <1>3, <2>1, <2>2 DEF Owns, Withdrawn
<1> QED
  BY <1>2, <1>3, WorkersMove

\* What the handler of a job knows about it, at the position step.
LEMMA CalmHandlers ==
  ASSUME RInv, Calm, RNext, CalmNext, ~Fault, NEW d \in Conns
  PROVE  /\ conn'[d].step = "acquired"
                => Owns(conn[d].runner, conn[d].job)' \/ Withdrawn(conn[d].job)'
         /\ conn'[d].step = "unprepared"
                => \/ PutBack(conn[d].job)' \/ Withdrawn(conn[d].job)'
                   \/ jobs'[conn'[d].job].state = "failed" /\ jobs'[conn'[d].job].error = "unprepared"
         /\ conn'[d].step = "requeued"
                => PutBack(conn[d].job)' \/ Withdrawn(conn[d].job)'
<1> DEFINE Own(row)  == row.state = "processing" /\ row.runner = conn'[d].runner /\ row.lease = "live"
           Back(row) == row.state = "pending" /\ ~row.due
           Lost(row) == row.error = "project_file_deleted"
           Failed(row) == row.state = "failed" /\ row.error = "unprepared"
           row1 == jobs'[conn'[d].job]
           Goal == /\ conn'[d].step = "acquired" => Own(row1) \/ Lost(row1)
                   /\ conn'[d].step = "unprepared" => Back(row1) \/ Lost(row1) \/ Failed(row1)
                   /\ conn'[d].step = "requeued" => Back(row1) \/ Lost(row1)
<1> SUFFICES Goal
  BY DEF Owns, Withdrawn, PutBack
<1>1. TypeOK /\ RTypeOK /\ Linked /\ \A c \in Conns : conn[c].step # "free" => conn[c].up
  BY DEF RInv, RTypeOK, Calm
<1>2. CASE /\ conn'[d].step = conn[d].step /\ conn'[d].job = conn[d].job
           /\ conn'[d].runner = conn[d].runner
  <2> SUFFICES ASSUME conn[d].step \in {"acquired", "unprepared", "requeued"} PROVE Goal
    BY <1>2
  <2>0. PICK j \in Jobs, r \in Runners : conn[d].job = j /\ conn[d].runner = r
    BY <1>1, HandlerOf DEF Preparing, Reported
  <2>1. conn[d].step # "free" /\ Handled(j) /\ Attended(j) /\ row1 = jobs'[j]
        /\ conn[d].job = j /\ conn[d].runner = r
    BY <1>1, <1>2, <2>0 DEF Handled, Attended
  <2>2. GoesOn1(j) /\ (Withdrawn(j) => Withdrawn(j)')
    BY <2>1, FailedStays
  <2>3. CASE Withdrawn(j)
    <3>1. Lost(row1)
      BY <2>1, <2>2, <2>3 DEF Withdrawn
    <3> QED
      BY <3>1
  <2>4. CASE conn[d].step = "acquired" /\ Owns(r, j)
    <3>1. ASSUME NEW c \in Conns, conn[c].runner = r,
                 HandleComplete(c, j) \/ HandleFail(c, j) \/ PrepareFails(c, j)
          PROVE  FALSE
      <4>1. conn[c].step # "free"
        BY <3>1 DEF HandleComplete, HandleFail, PrepareFails, Receives
      <4>2. c = d
        BY <1>1, <2>1, <3>1, <4>1, OneConnection
      <4>3. CASE HandleComplete(c, j) \/ HandleFail(c, j)
        BY <2>4, <4>2, <4>3 DEF HandleComplete, HandleFail, Receives
      <4>4. CASE PrepareFails(c, j)
        BY <1>1, <1>2, <2>4, <4>2, <4>4 DEF PrepareFails, RTypeOK, ConnState
      <4> QED
        BY <3>1, <4>3, <4>4
    <3>2. Owns(r, j)' \/ Withdrawn(j)'
      BY <2>1, <2>4, <3>1, OwnedStays
    <3>3. Own(row1) \/ Lost(row1)
      BY <1>2, <2>1, <3>2 DEF Owns, Withdrawn
    <3> QED
      BY <1>2, <2>4, <3>3
  <2>5. CASE PutBack(j)
    <3>1. PutBack(j)' \/ Withdrawn(j)'
      BY <2>1, <2>5, PutBackStays
    <3>2. Back(row1) \/ Lost(row1)
      BY <2>1, <3>1 DEF PutBack, Withdrawn
    <3>3. conn[d].step # "acquired" \/ Owns(r, j) \/ Withdrawn(j)
      BY <2>1 DEF Calm
    <3>4. ~Owns(r, j)
      BY <2>5 DEF Owns, PutBack
    <3> QED
      BY <1>2, <2>3, <3>2, <3>3, <3>4
  <2>6. CASE conn[d].step = "unprepared" /\ jobs[j].state = "failed" /\ jobs[j].error = "unprepared"
    <3>1. Failed(row1)
      BY <2>1, <2>2, <2>6 DEF GoesOn1
    <3> QED
      BY <1>2, <2>6, <3>1
  <2>7. \/ Withdrawn(j) \/ (conn[d].step = "acquired" /\ Owns(r, j)) \/ PutBack(j)
        \/ conn[d].step = "unprepared" /\ jobs[j].state = "failed" /\ jobs[j].error = "unprepared"
    BY <2>1 DEF Calm
  <2> QED
    BY <2>3, <2>4, <2>5, <2>6, <2>7
<1>3. CASE conn'[d].step \in {"serving", "closing", "free"}
  BY <1>3
<1>4. ASSUME NEW j \in Jobs, conn'[d].job = j, conn'[d].runner = conn[d].runner,
             HandleAcquire(d, j), Acquire(j, conn[d].runner), conn'[d].step = "acquired"
      PROVE  Goal
  <2>1. conn[d].runner \in Runners
    BY <1>1, <1>4, Received DEF HandleAcquire
  <2>2. Own(row1)
    BY <1>1, <1>4, <2>1, AcquireWrites
  <2> QED
    BY <1>4, <2>2
<1>5. ASSUME NEW j \in Jobs, conn'[d].job = j, PrepareFails(d, j), conn'[d].step = "unprepared"
      PROVE  Goal
  <2>1. conn[d].runner \in Runners /\ conn[d].step = "acquired" /\ conn[d].job = j
    BY <1>1, <1>5, HandlerOf DEF PrepareFails
  <2>2. CASE Fail(j, conn[d].runner, "unprepared", FALSE)
    <3>1. Back(row1) \/ Failed(row1)
      BY <1>1, <1>5, <2>1, <2>2, FailWrites
    <3> QED
      BY <1>5, <3>1
  <2>3. CASE ~HeldBy(j, conn[d].runner) /\ UNCHANGED jobs
    <3>1. ~Owns(conn[d].runner, j)
      BY <2>3 DEF Owns, HeldBy
    <3>2. Withdrawn(j)
      BY <2>1, <3>1 DEF Calm
    <3>3. Lost(row1)
      BY <1>5, <2>3, <3>2 DEF Withdrawn
    <3> QED
      BY <1>5, <3>3
  <2> QED
    BY <1>5, <2>2, <2>3 DEF PrepareFails
<1>6. ASSUME NEW j \in Jobs, HandleComplete(d, j), conn'[d].step = "completed" PROVE Goal
  BY <1>6
<1>7. ASSUME NEW j \in Jobs, conn'[d].job = j, HandleFail(d, j),
             conn'[d].step \in {"requeued", "failed"},
             conn'[d].step = "requeued" => jobs'[j].state = "pending"
      PROVE  Goal
  <2>1. conn[d].runner \in Runners
    BY <1>1, <1>7, Received DEF HandleFail
  <2>2. conn'[d].step = "requeued" => Back(row1)
    BY <1>1, <1>7, <2>1, FailWrites DEF HandleFail
  <2> QED
    BY <1>7, <2>2
<1> HIDE DEF Goal
<1> QED
  BY <1>2, <1>3, <1>4, <1>5, <1>6, <1>7, HandlersMove

LEMMA GoneStays ==
  ASSUME RInv, CalmNext, NEW f \in Files, thumb[f] = "gone" \/ "delete" \in procs[f]
  PROVE  thumb'[f] = "gone" \/ "delete" \in procs'[f]
<1> DEFINE Goal == thumb'[f] = "gone" \/ "delete" \in procs'[f]
<1> SUFFICES Goal
  OBVIOUS
<1>1. /\ RTypeOK /\ thumb \in [Files -> Thumb] /\ procs \in [Files -> SUBSET Procs]
      /\ \A j \in Jobs : FileOf[j] \in Files
  BY RunnersAssumption DEF RInv, RTypeOK
<1>2. ASSUME NEW g \in Files, NEW status, SetThumb(g, status) PROVE thumb[f] = "gone" => thumb'[f] = "gone"
  BY <1>1, <1>2 DEF SetThumb
<1>3. ASSUME NEW g \in Files, CompleteUpload(g) PROVE Goal
  BY <1>1, <1>2, <1>3 DEF CompleteUpload
<1>4. ASSUME NEW g \in Files, EnqueueThumbnail(g), thumb' = thumb PROVE Goal
  BY <1>1, <1>4 DEF EnqueueThumbnail
<1>5. ASSUME NEW g \in Files, DeleteFile(g) PROVE Goal
  BY <1>1, <1>5 DEF DeleteFile
<1>6. ASSUME NEW g \in Files, DeleteRow(g), thumb' = [thumb EXCEPT ![g] = "gone"] PROVE Goal
  BY <1>1, <1>6 DEF DeleteRow
<1>7. UNCHANGED <<thumb, procs>> => Goal
  OBVIOUS
<1>8. ASSUME NEW r \in Runners,
             \/ Connect(r) \/ (\E j \in Jobs : RequestJob(r, j)) \/ SendHeartbeat(r)
             \/ \E kind \in {"complete", "fail"} : Report(r, kind)
      PROVE  Goal
  BY <1>7, <1>8 DEF Connect, RequestJob, SendHeartbeat, Report
<1>9. ASSUME NEW c \in Conns, NEW j \in Jobs,
             \/ HandleAcquire(c, j) \/ PrepareFails(c, j) \/ HandleHeartbeat(c, j) \/ Refuse(c, j)
             \/ HandleComplete(c, j) \/ HandleFail(c, j)
      PROVE  Goal
  BY <1>7, <1>9 DEF HandleAcquire, PrepareFails, HandleHeartbeat, Refuse, HandleComplete, HandleFail
<1>10. ASSUME NEW c \in Conns, NEW j \in Jobs,
              \/ HandOut(c, j)
              \/ MarkUnprepared(c, j) /\ SetThumb(FileOf[j], "queued")
              \/ FinishReport(c, j) /\ SetThumb(FileOf[j], Verdict(conn[c].step))
       PROVE  Goal
  <2>1. UNCHANGED procs /\ \E status : SetThumb(FileOf[j], status)
    BY <1>10 DEF HandOut, MarkUnprepared, FinishReport
  <2> QED
    BY <1>1, <1>2, <2>1
<1>11. ASSUME NEW j \in Jobs, Lapse(j) \/ Delay(j) PROVE Goal
  BY <1>7, <1>11 DEF Lapse, Delay
<1>12. CalmNext
  OBVIOUS
<1> HIDE DEF Goal
<1> QED
  BY ONLY <1>3, <1>4, <1>5, <1>6, <1>8, <1>9, <1>10, <1>11, <1>12 DEF CalmNext

LEMMA CalmStep == ASSUME RInv, [RNext]_vars, faults' = 0 PROVE Calm'
<1>1. faults = 0 /\ Calm /\ ~Fault
  BY FaultsCount DEF RInv, Fault
<1>2. CASE UNCHANGED vars
  BY <1>1, <1>2 DEF vars, Calm, Owns, PutBack, Withdrawn
<1>3. CASE RNext
  <2>1. CalmNext
    BY <1>1, <1>3, CalmSteps
  <2>2. \A c \in Conns : conn'[c].step # "free" => conn'[c].up
    BY <1>1, <2>1, StayUp DEF Calm
  <2>3. \A r \in Runners : runner'[r].phase = "working"
            => Owns(r, runner[r].job)' \/ Withdrawn(runner[r].job)'
    BY <1>1, <1>3, <2>1, CalmWorkers
  <2>4. \A d \in Conns :
         /\ conn'[d].step = "acquired"
                => Owns(conn[d].runner, conn[d].job)' \/ Withdrawn(conn[d].job)'
         /\ conn'[d].step = "unprepared"
                => \/ PutBack(conn[d].job)' \/ Withdrawn(conn[d].job)'
                   \/ jobs'[conn'[d].job].state = "failed" /\ jobs'[conn'[d].job].error = "unprepared"
         /\ conn'[d].step = "requeued"
                => PutBack(conn[d].job)' \/ Withdrawn(conn[d].job)'
    BY <1>1, <1>3, <2>1, CalmHandlers
  <2>5. ASSUME NEW j \in Jobs, Withdrawn(j)'
        PROVE  thumb'[FileOf[j]] = "gone" \/ "delete" \in procs'[FileOf[j]]
    <3>0. FileOf[j] \in Files
      BY RunnersAssumption
    <3>1. CASE Withdrawn(j)
      BY <1>1, <2>1, <3>0, <3>1, GoneStays DEF Calm
    <3>2. CASE ~Withdrawn(j)
      <4>1. DeleteFile(FileOf[j])
        BY <2>1, <2>5, <3>2, WithdrawnWith
      <4> QED
        BY <3>0, <4>1 DEF DeleteFile, RInv, RTypeOK
    <3> QED
      BY <3>1, <3>2
  <2> QED
    BY <2>2, <2>3, <2>4, <2>5 DEF Calm
<1> QED
  BY <1>2, <1>3

\* What keeps the promise of a file's status.
Source(f) ==
    \/ procs[f] # {}
    \/ \E j \in Jobs : FileOf[j] = f /\ jobs[j].state \in {"pending", "processing"}
    \/ \E c \in Conns : conn[c].job # NoJob /\ FileOf[conn[c].job] = f
    \/ \E j \in Jobs : FileOf[j] = f /\ jobs[j].state = "failed" /\ jobs[j].error = "unprepared"

LEMMA SourceStays ==
  ASSUME RTypeOK, NEW f \in Files, Source(f), procs'[f] = procs[f],
         \A j \in Jobs : FileOf[j] = f /\ jobs[j].state \in {"pending", "processing"}
            => \/ jobs'[j].state \in {"pending", "processing"}
               \/ \E c \in Conns : conn'[c].job = j,
         \A j \in Jobs : jobs[j].state = "failed" => jobs'[j].state = "failed" /\ jobs'[j].error = jobs[j].error,
         \A c \in Conns : conn[c].job # NoJob /\ FileOf[conn[c].job] = f => conn'[c].job = conn[c].job
  PROVE  Source(f)'
<1>1. \A j \in Jobs : j # NoJob
  BY RunnersAssumption
<1>2. CASE procs[f] # {}
  BY <1>2 DEF Source
<1>3. CASE \E j \in Jobs : FileOf[j] = f /\ jobs[j].state \in {"pending", "processing"}
  <2>1. PICK j \in Jobs : FileOf[j] = f /\ jobs[j].state \in {"pending", "processing"}
    BY <1>3
  <2>2. CASE jobs'[j].state \in {"pending", "processing"}
    BY <2>1, <2>2 DEF Source
  <2>3. CASE \E c \in Conns : conn'[c].job = j
    BY <1>1, <2>1, <2>3 DEF Source
  <2> QED
    BY <2>1, <2>2, <2>3
<1>4. CASE \E c \in Conns : conn[c].job # NoJob /\ FileOf[conn[c].job] = f
  BY <1>4 DEF Source
<1>5. CASE \E j \in Jobs : FileOf[j] = f /\ jobs[j].state = "failed" /\ jobs[j].error = "unprepared"
  BY <1>5 DEF Source
<1> QED
  BY <1>2, <1>3, <1>4, <1>5 DEF Source

\* What happens to the job a handler has at hand.
LEMMA JobsAtHand ==
  ASSUME RInv, NEW c \in Conns, NEW i \in Jobs,
         \/ Refuse(c, i) \/ HandleHeartbeat(c, i) \/ HandleAcquire(c, i) \/ HandleComplete(c, i)
         \/ HandleFail(c, i) \/ PrepareFails(c, i) \/ HandOut(c, i) \/ MarkUnprepared(c, i)
         \/ FinishReport(c, i)
  PROVE  /\ \A d \in Conns : conn[d].job # NoJob /\ conn[d].job # i => conn'[d].job = conn[d].job
         /\ \/ HandOut(c, i) \/ MarkUnprepared(c, i) \/ FinishReport(c, i)
            \/ \A d \in Conns : conn[d].job # NoJob => conn'[d].job = conn[d].job
         /\ HandleComplete(c, i) \/ HandleFail(c, i) \/ PrepareFails(c, i) => conn'[c].job = i
<1> DEFINE Others1 == \A d \in Conns : d # c => conn'[d] = conn[d]
           Kept == /\ \A d \in Conns : conn[d].job # NoJob /\ conn[d].job # i => conn'[d].job = conn[d].job
                   /\ \/ HandOut(c, i) \/ MarkUnprepared(c, i) \/ FinishReport(c, i)
                      \/ \A d \in Conns : conn[d].job # NoJob => conn'[d].job = conn[d].job
<1>1. /\ RTypeOK /\ Linked /\ conn \in [Conns -> ConnState] /\ conn[c] \in ConnState
  BY DEF RInv, RTypeOK
<1>2. ASSUME Refuse(c, i) \/ HandleHeartbeat(c, i) \/ HandleAcquire(c, i) \/ HandleComplete(c, i)
                \/ HandleFail(c, i)
      PROVE  Kept
  <2>1. conn[c].job = NoJob
    BY <1>1, <1>2, Received DEF Refuse, HandleHeartbeat, HandleAcquire, HandleComplete, HandleFail
  <2>2. \E step, j : Proceed(c, step, j)
    BY <1>2 DEF Refuse, HandleHeartbeat, HandleAcquire, HandleComplete, HandleFail
  <2>3. Others1
    BY <1>1, <2>2 DEF Proceed
  <2> QED
    BY <2>1, <2>3
<1>3. ASSUME PrepareFails(c, i) PROVE Kept
  <2>1. conn[c].job = i /\ conn'[c].job = i /\ Others1
    BY <1>1, <1>3 DEF PrepareFails, ConnState
  <2> QED
    BY <2>1
<1>4. ASSUME HandOut(c, i) \/ MarkUnprepared(c, i) \/ FinishReport(c, i) PROVE Kept
  <2>1. conn[c].job = i /\ \E held : Done(c, held)
    BY <1>4 DEF HandOut, MarkUnprepared, FinishReport
  <2>2. Others1
    BY <1>1, <2>1 DEF Done
  <2> QED
    BY <1>4, <2>1, <2>2
<1>5. ASSUME NEW step, Proceed(c, step, i) PROVE conn'[c].job = i
  BY <1>1, <1>5 DEF Proceed, ConnState
<1>6. HandleComplete(c, i) \/ HandleFail(c, i) => conn'[c].job = i
  BY <1>5 DEF HandleComplete, HandleFail
<1>7. PrepareFails(c, i) => conn'[c].job = i
  BY <1>1 DEF PrepareFails, ConnState
<1> QED
  BY <1>2, <1>3, <1>4, <1>6, <1>7

LEMMA ProgressNext ==
  ASSUME RInv, Calm, Calm', CalmNext, \A j \in Jobs : GoesOn1(j), NEW f \in Files,
         thumb[f] \in {"queued", "processing"} => Source(f),
         thumb'[f] \in {"queued", "processing"}
  PROVE  Source(f)'
<1> DEFINE Goal == Source(f)'
           Fixed == \A j \in Jobs : jobs[j].state = "failed"
                       => jobs'[j].state = "failed" /\ jobs'[j].error = jobs[j].error
           Kept  == \A j \in Jobs : FileOf[j] = f /\ jobs[j].state \in {"pending", "processing"}
                       => jobs'[j].state \in {"pending", "processing"} \/ \E c \in Conns : conn'[c].job = j
           AtHand == \A c \in Conns : conn[c].job # NoJob /\ FileOf[conn[c].job] = f
                       => conn'[c].job = conn[c].job
<1> SUFFICES Goal
  OBVIOUS
<1>1. /\ RTypeOK /\ TypeOK /\ Linked /\ thumb \in [Files -> Thumb] /\ procs \in [Files -> SUBSET Procs]
      /\ \A j \in Jobs : FileOf[j] \in Files /\ j # NoJob
  BY RunnersAssumption DEF RInv, RTypeOK
<1>2. Fixed
  BY DEF GoesOn1
<1>3. ASSUME thumb'[f] = thumb[f], procs'[f] = procs[f], Kept, AtHand PROVE Goal
  <2>1. Source(f)
    BY <1>3
  <2> QED
    BY <1>1, <1>2, <1>3, <2>1, SourceStays
<1>4. UNCHANGED jobs => Kept
  OBVIOUS
<1>5. ASSUME procs'[f] # {} PROVE Goal
  BY <1>5 DEF Source
<1>6. UNCHANGED conn => AtHand
  OBVIOUS
\* A withdrawn job's file has no status that promises anything, or is about to go.
<1>7. ASSUME NEW j \in Jobs, FileOf[j] = f, Withdrawn(j), UNCHANGED jobs PROVE Goal
  <2>1. Withdrawn(j)'
    BY <1>7 DEF Withdrawn
  <2>2. thumb'[f] = "gone" \/ "delete" \in procs'[f]
    BY <1>7, <2>1 DEF Calm
  <2> QED
    BY <1>5, <2>2
<1>8. ASSUME NEW g \in Files, CompleteUpload(g) PROVE Goal
  <2>1. CASE g = f
    BY <1>1, <1>5, <1>8, <2>1 DEF CompleteUpload
  <2>2. CASE g # f
    BY <1>1, <1>3, <1>4, <1>6, <1>8, <2>2 DEF CompleteUpload, SetThumb
  <2> QED
    BY <2>1, <2>2
<1>9. ASSUME NEW g \in Files, EnqueueThumbnail(g), thumb' = thumb,
             \E j \in Jobs : FileOf[j] = g /\ Enqueue(j)
      PROVE  Goal
  <2>1. PICK j \in Jobs : FileOf[j] = g /\ Enqueue(j)
    BY <1>9
  <2>2. Others({j}) /\ jobs[j].state = "absent" /\ jobs'[j].state = "pending"
    BY <1>1, <2>1, EnqueueWrites
  <2>3. CASE g = f
    BY <2>1, <2>2, <2>3 DEF Source
  <2>4. CASE g # f
    <3>1. procs'[f] = procs[f] /\ UNCHANGED conn
      BY <1>1, <1>9, <2>4 DEF EnqueueThumbnail
    <3>2. Kept
      BY <2>2 DEF Others
    <3> QED
      BY <1>3, <1>6, <1>9, <3>1, <3>2
  <2> QED
    BY <2>3, <2>4
<1>10. ASSUME NEW g \in Files, DeleteFile(g) PROVE Goal
  <2>1. CASE g = f
    BY <1>1, <1>5, <1>10, <2>1 DEF DeleteFile
  <2>2. CASE g # f
    <3>1. procs'[f] = procs[f] /\ UNCHANGED conn /\ thumb' = thumb
      BY <1>1, <1>10, <2>2 DEF DeleteFile
    <3>2. Kept
      BY <1>1, <1>10, <2>2, CancelWrites DEF DeleteFile
    <3> QED
      BY <1>3, <1>6, <3>1, <3>2
  <2> QED
    BY <2>1, <2>2
<1>11. ASSUME NEW g \in Files, DeleteRow(g), thumb' = [thumb EXCEPT ![g] = "gone"] PROVE Goal
  <2>1. g # f
    BY <1>1, <1>11
  <2> QED
    BY <1>1, <1>3, <1>4, <1>6, <1>11, <2>1 DEF DeleteRow
<1>12. ASSUME NEW r \in Runners,
              \/ Connect(r) \/ (\E j \in Jobs : RequestJob(r, j)) \/ SendHeartbeat(r)
              \/ \E kind \in {"complete", "fail"} : Report(r, kind)
       PROVE  Goal
  <2>1. UNCHANGED <<jobs, thumb, procs>>
    BY <1>12 DEF Connect, RequestJob, SendHeartbeat, Report
  <2>2. AtHand
    <3>1. conn \in [Conns -> ConnState] /\ \A c \in Conns : conn[c] \in ConnState /\ Shape(conn[c])
      BY <1>1 DEF RTypeOK, Linked
    <3>2. CASE Connect(r)
      <4>1. PICK c \in Conns : conn[c].step = "free" /\ \E new : conn' = [conn EXCEPT ![c] = new]
        BY <3>2 DEF Connect
      <4>2. conn[c].job = NoJob
        BY <3>1, <4>1 DEF Shape, Preparing, Reported
      <4> QED
        BY <3>1, <4>1, <4>2
    <3>3. CASE \E kind, j : Send(r, kind, j)
      BY <3>1, <3>3 DEF Send, ConnState
    <3> QED
      BY <1>12, <3>2, <3>3 DEF RequestJob, SendHeartbeat, Report
  <2> QED
    BY <1>3, <1>4, <2>1, <2>2
<1>13. ASSUME NEW c \in Conns, NEW i \in Jobs,
              \/ Refuse(c, i) \/ HandleHeartbeat(c, i) \/ HandleAcquire(c, i) \/ HandleComplete(c, i)
              \/ HandleFail(c, i)
              \/ PrepareFails(c, i) /\ (Fail(i, conn[c].runner, "unprepared", FALSE) \/ UNCHANGED jobs)
       PROVE  Goal
  <2>1. UNCHANGED <<thumb, procs>>
    BY <1>13 DEF Refuse, HandleHeartbeat, HandleAcquire, HandleComplete, HandleFail, PrepareFails
  <2>2. conn[c].runner \in Runners
    <3>1. CASE PrepareFails(c, i)
      BY <1>1, <3>1, HandlerOf DEF PrepareFails
    <3>2. CASE \E kind : Receives(c, kind, i)
      BY <1>1, <3>2, Received
    <3> QED
      BY <1>13, <3>1, <3>2 DEF Refuse, HandleHeartbeat, HandleAcquire, HandleComplete, HandleFail
  <2>3. AtHand
    <3>1. \/ ~HandOut(c, i) /\ ~MarkUnprepared(c, i) /\ ~FinishReport(c, i)
          \/ \A d \in Conns : conn[d].job # NoJob => conn'[d].job = conn[d].job
      <4>1. CASE PrepareFails(c, i)
        <5>1. conn'[c].job = i /\ conn[c].job = i /\ \A d \in Conns : d # c => conn'[d] = conn[d]
          BY <1>1, <1>13, <4>1, JobsAtHand DEF PrepareFails, RTypeOK
        <5> QED
          BY <5>1
      <4>2. CASE \E kind : Receives(c, kind, i)
        BY <4>2 DEF Receives, HandOut, MarkUnprepared, FinishReport
      <4> QED
        BY <1>13, <4>1, <4>2 DEF Refuse, HandleHeartbeat, HandleAcquire, HandleComplete, HandleFail
    <3> QED
      BY <1>13, <3>1, JobsAtHand
  <2>4. Kept
    <3>1. CASE UNCHANGED jobs
      BY <1>4, <3>1
    <3>2. CASE HandleHeartbeat(c, i)
      BY <1>1, <3>2, HeartbeatWrites DEF HandleHeartbeat
    <3>3. CASE Acquire(i, conn[c].runner)
      BY <1>1, <2>2, <3>3, AcquireWrites DEF Others
    <3>4. CASE HandleComplete(c, i) \/ HandleFail(c, i) \/ (PrepareFails(c, i) /\ Fail(i, conn[c].runner, "unprepared", FALSE))
      <4>1. Others({i})
        BY <1>1, <2>2, <3>4, CompleteWrites, FailWrites DEF HandleComplete, HandleFail
      <4>2. conn'[c].job = i
        BY <3>4, JobsAtHand
      <4> QED
        BY <4>1, <4>2 DEF Others
    <3> QED
      BY <1>13, <3>1, <3>2, <3>3, <3>4 DEF Refuse, HandleAcquire
  <2> QED
    BY <1>3, <2>1, <2>3, <2>4
<1>14. ASSUME NEW c \in Conns, NEW i \in Jobs, NEW status \in Thumb,
              HandOut(c, i) \/ MarkUnprepared(c, i) \/ FinishReport(c, i), SetThumb(FileOf[i], status),
              FileOf[i] # f
       PROVE  Goal
  <2>1. UNCHANGED <<jobs, procs>>
    BY <1>14 DEF HandOut, MarkUnprepared, FinishReport
  <2>2. thumb'[f] = thumb[f]
    BY <1>1, <1>14, ThumbMoves
  <2>3. AtHand
    BY <1>14, JobsAtHand
  <2> QED
    BY <1>3, <1>4, <2>1, <2>2, <2>3
<1>15. ASSUME NEW c \in Conns, NEW i \in Jobs, HandOut(c, i) PROVE Goal
  <2>1. CASE FileOf[i] # f
    BY <1>14, <1>15, <2>1 DEF HandOut, Thumb
  <2>2. CASE FileOf[i] = f
    <3>1. Owns(conn[c].runner, i) \/ Withdrawn(i)
      BY <1>15 DEF HandOut, Calm
    <3>2. UNCHANGED jobs
      BY <1>15 DEF HandOut
    <3>3. CASE Owns(conn[c].runner, i)
      BY <2>2, <3>2, <3>3 DEF Owns, Source
    <3> QED
      BY <1>7, <2>2, <3>1, <3>2, <3>3
  <2> QED
    BY <2>1, <2>2
<1>16. ASSUME NEW c \in Conns, NEW i \in Jobs, MarkUnprepared(c, i), SetThumb(FileOf[i], "queued") PROVE Goal
  <2>1. CASE FileOf[i] # f
    BY <1>14, <1>16, <2>1 DEF Thumb
  <2>2. CASE FileOf[i] = f
    <3>1. \/ PutBack(i) \/ Withdrawn(i)
          \/ jobs[i].state = "failed" /\ jobs[i].error = "unprepared"
      BY <1>16 DEF MarkUnprepared, Calm
    <3>2. UNCHANGED jobs
      BY <1>16 DEF MarkUnprepared
    <3>3. CASE PutBack(i)
      BY <2>2, <3>2, <3>3 DEF PutBack, Source
    <3>4. CASE jobs[i].state = "failed" /\ jobs[i].error = "unprepared"
      BY <2>2, <3>2, <3>4 DEF Source
    <3> QED
      BY <1>7, <2>2, <3>1, <3>2, <3>3, <3>4
  <2> QED
    BY <2>1, <2>2
<1>17. ASSUME NEW c \in Conns, NEW i \in Jobs, FinishReport(c, i),
              SetThumb(FileOf[i], Verdict(conn[c].step))
       PROVE  Goal
  <2>1. conn[c].step \in Reported /\ conn[c].job = i /\ UNCHANGED jobs
    BY <1>17 DEF FinishReport, Reported
  <2>2. Verdict(conn[c].step) \in Thumb
    BY <2>1 DEF Verdict, Thumb, Reported
  <2>3. CASE FileOf[i] # f
    BY <1>14, <1>17, <2>2, <2>3
  <2>4. CASE FileOf[i] = f
    <3>1. conn[c].step = "requeued"
      <4>1. thumb'[f] = "gone" \/ thumb'[f] = Verdict(conn[c].step)
        BY <1>1, <1>17, <2>2, <2>4, ThumbMoves
      <4> QED
        BY <2>1, <4>1 DEF Verdict, Reported
    <3>2. PutBack(i) \/ Withdrawn(i)
      BY <2>1, <3>1 DEF Calm
    <3>3. CASE PutBack(i)
      BY <2>1, <2>4, <3>3 DEF PutBack, Source
    <3> QED
      BY <1>7, <2>1, <2>4, <3>2, <3>3
  <2> QED
    BY <2>3, <2>4
<1>18. ASSUME NEW j \in Jobs, Lapse(j) \/ Delay(j) PROVE Goal
  <2>1. UNCHANGED <<thumb, procs, conn>>
    BY <1>18 DEF Lapse, Delay
  <2>2. Kept
    BY <1>1, <1>18, TimeWrites DEF Lapse, Delay, Others
  <2> QED
    BY <1>3, <1>6, <2>1, <2>2
<1>19. CalmNext
  OBVIOUS
<1> HIDE DEF Goal
<1> QED
  BY ONLY <1>8, <1>9, <1>10, <1>11, <1>12, <1>13, <1>15, <1>16, <1>17, <1>18, <1>19 DEF CalmNext

LEMMA ProgressStep == ASSUME RInv, [RNext]_vars, faults' = 0 PROVE ProgressHasASource'
<1>1. faults = 0 /\ Calm /\ ProgressHasASource
  BY FaultsCount DEF RInv
<1>2. CASE UNCHANGED vars
  BY <1>1, <1>2 DEF vars, ProgressHasASource
<1>3. CASE RNext
  <2>1. CalmNext /\ Calm' /\ \A j \in Jobs : GoesOn1(j)
    BY <1>1, <1>3, CalmSteps, CalmStep, FailedStays
  <2>2. \A f \in Files : thumb[f] \in {"queued", "processing"} => Source(f)
    BY <1>1 DEF ProgressHasASource, Source
  <2>3. \A f \in Files : thumb'[f] \in {"queued", "processing"} => Source(f)'
    BY <1>1, <2>1, <2>2, ProgressNext
  <2> QED
    BY <2>3 DEF ProgressHasASource, Source
<1> QED
  BY <1>2, <1>3

-----------------------------------------------------------------------------
(* The theorems                                                            *)

LEMMA InitRInv == RInit => RInv
<1> SUFFICES ASSUME RInit PROVE RInv
  OBVIOUS
<1> USE DEF RInit
<1>1. <<>> \in Seq(Message) /\ Len(<<>>) = 0
  OBVIOUS
<1>2. IInv /\ TypeOK
  BY InitIInv DEF IInv, QueueInv
<1>3. \A j \in Jobs : jobs[j] = Unborn
  BY DEF Init
<1>4. Free \in ConnState /\ ~Free.up /\ Free.step = "free" /\ Free.job = NoJob
  BY <1>1 DEF Free, ConnState, Steps
<1>5. Offline \in RunnerState /\ Offline.phase = "offline"
  BY DEF Offline, RunnerState
<1>6. /\ \A c \in Conns : conn[c] = Free
      /\ \A r \in Runners : runner[r] = Offline
      /\ \A f \in Files : thumb[f] = "none"
  OBVIOUS
<1>7. RTypeOK
  <2>1. /\ thumb \in [Files -> Thumb] /\ procs \in [Files -> SUBSET Procs]
        /\ runner \in [Runners -> RunnerState] /\ conn \in [Conns -> ConnState]
    BY <1>4, <1>5 DEF Thumb
  <2>2. faults \in 0..MaxFaults
    BY RunnersAssumption
  <2> QED
    BY <1>2, <2>1, <2>2 DEF RTypeOK
<1>8. Linked
  BY <1>4, <1>5, <1>6 DEF Linked, Shape, Preparing, Reported
<1>9. ReportsKnow
  BY <1>3, <1>4, <1>6 DEF ReportsKnow, Withdrawn, Unborn
<1>10. Calm
  BY <1>3, <1>4, <1>5, <1>6 DEF Calm, Withdrawn, Unborn
<1>11. ReadyOnlyAfterSuccess /\ ProgressHasASource
  BY <1>6 DEF ReadyOnlyAfterSuccess, ProgressHasASource
<1> QED
  BY <1>2, <1>7, <1>8, <1>9, <1>10, <1>11 DEF RInv

LEMMA StepRInv == RInv /\ [RNext]_vars => RInv'
<1> SUFFICES ASSUME RInv, [RNext]_vars PROVE RInv'
  OBVIOUS
<1>1. IInv'
  BY StepsOfTheQueue, QueueOpStep DEF RInv, ReportsKnow
<1>2. RTypeOK' /\ Linked' /\ ReportsKnow' /\ ReadyOnlyAfterSuccess'
  BY RTypeStep, LinkStep, ReportsStep, ReadyStep DEF LType
<1>3. faults' = 0 => Calm' /\ ProgressHasASource'
  BY CalmStep, ProgressStep
<1> QED
  BY <1>1, <1>2, <1>3 DEF RInv

\* The invariant of the connections, the runners, the thumbnails and their jobs.
THEOREM RunnersInvariant == Spec => []RInv
  BY InitRInv, StepRInv, PTL DEF Spec

\* Contexts, inboxes, runners, statuses and calls always have their types.
THEOREM RunnersTypeCorrect == Spec => []RTypeOK
<1>1. RInv => RTypeOK
  BY DEF RInv
<1> QED
  BY <1>1, RunnersInvariant, PTL

\* Whatever the procedures and the handlers do to the jobs, the queue would allow: what
\* JobQueueProofs shows of the queue holds of the jobs that the runners share.
THEOREM RunnersUseTheQueue == Spec => QueueSpec
<1>1. RInit => Init
  BY DEF RInit
<1>2. RInv /\ [RNext]_vars => [QueueStep]_jobs
  BY StepsOfTheQueue, QueueOpStep DEF RInv, ReportsKnow
<1> QED
  BY <1>1, <1>2, RunnersInvariant, PTL DEF Spec, QueueSpec

\* Whoever works on a job is listed in the context of an open connection, which will
\* therefore reset the job's file when it closes (job_runners.rs: acquired_jobs is
\* filled before the job is handed out).
THEOREM WorkIsListed == Spec => []WorkersAreListed
<1>1. RInv => WorkersAreListed
  BY ListedJob DEF RInv, WorkersAreListed
<1> QED
  BY <1>1, RunnersInvariant, PTL

\* Until something fails, whoever works on a job owns it under a live lease, unless the
\* file was deleted under it.
THEOREM WorkIsLeased == Spec => []WorkersHoldTheirLease
<1>1. RInv => WorkersHoldTheirLease
  <2> SUFFICES ASSUME RInv, faults = 0, NEW r \in Runners, runner[r].phase = "working"
               PROVE  HeldBy(runner[r].job, r) \/ jobs[runner[r].job].error = "project_file_deleted"
    BY DEF WorkersHoldTheirLease
  <2>1. Owns(r, runner[r].job) \/ Withdrawn(runner[r].job)
    BY DEF RInv, Calm
  <2> QED
    BY <2>1 DEF Owns, Withdrawn, HeldBy
<1> QED
  BY <1>1, RunnersInvariant, PTL

\* A thumbnail shown as ready has a job that succeeded, whatever fails on the way.
THEOREM ReadyMeansSucceeded == Spec => []ReadyOnlyAfterSuccess
<1>1. RInv => ReadyOnlyAfterSuccess
  BY DEF RInv
<1> QED
  BY <1>1, RunnersInvariant, PTL

\* Until something fails, a status that promises progress has something behind it.
THEOREM PromisesAreKept == Spec => []ProgressHasASource
<1>1. RInv => ProgressHasASource
  BY DEF RInv, ProgressHasASource
<1> QED
  BY <1>1, RunnersInvariant, PTL

\* The next message of a connection is one.
LEMMA OneHead ==
  ASSUME NEW c, NEW kind, NEW j, Receives(c, kind, j), NEW kind1, NEW j1, Receives(c, kind1, j1)
  PROVE  kind1 = kind /\ j1 = j
<1>1. [kind |-> kind1, job |-> j1] = [kind |-> kind, job |-> j]
  BY DEF Receives
<1>2. /\ [kind |-> kind1, job |-> j1].kind = [kind |-> kind, job |-> j].kind
      /\ [kind |-> kind1, job |-> j1].job = [kind |-> kind, job |-> j].job
  BY <1>1
<1> QED
  BY <1>2

LEMMA RefusedStep ==
  ASSUME RInv, [RNext]_vars, NEW c \in Conns, NEW j \in Jobs,
         NEW kind \in {"complete", "fail"}, Receives(c, kind, j),
         jobs[j].runner # conn[c].runner, conn'[c].inbox # conn[c].inbox
  PROVE  jobs' = jobs
<1>1. conn \in [Conns -> ConnState] /\ conn[c] \in ConnState /\ conn[c].step = "serving"
  BY DEF RInv, RTypeOK, Receives
<1>2. conn'[c] # conn[c]
  OBVIOUS
<1>3. ASSUME NEW f \in Files,
             CompleteUpload(f) \/ EnqueueThumbnail(f) \/ DeleteFile(f) \/ DeleteRow(f)
      PROVE  FALSE
  BY <1>2, <1>3 DEF CompleteUpload, EnqueueThumbnail, DeleteFile, DeleteRow
<1>4. ASSUME NEW r \in Runners,
             \/ Connect(r) \/ (\E i \in Jobs : RequestJob(r, i)) \/ SendHeartbeat(r)
             \/ \E k \in {"complete", "fail"} : Report(r, k)
      PROVE  UNCHANGED jobs
  BY <1>4 DEF Connect, RequestJob, SendHeartbeat, Report
<1>5. ASSUME NEW d \in Conns, NEW i \in Jobs,
             \/ HandleAcquire(d, i) \/ HandleHeartbeat(d, i) \/ HandleComplete(d, i)
             \/ HandleFail(d, i)
      PROVE  UNCHANGED jobs
  <2>1. d = c
    <3>1. \E step, n : Proceed(d, step, n)
      BY <1>5 DEF HandleAcquire, HandleHeartbeat, HandleComplete, HandleFail
    <3> QED
      BY <1>1, <1>2, <3>1 DEF Proceed
  <2>2. ~HandleAcquire(d, i) /\ ~HandleHeartbeat(d, i)
    <3>1. kind # "acquire" /\ kind # "heartbeat"
      OBVIOUS
    <3> QED
      BY <2>1, <3>1, OneHead DEF HandleAcquire, HandleHeartbeat
  <2>3. i = j /\ HeldBy(i, conn[c].runner)
    BY <1>5, <2>1, <2>2, OneHead DEF HandleComplete, HandleFail, Complete, Fail
  <2> QED
    BY <2>3 DEF HeldBy
<1>6. ASSUME NEW d \in Conns, (\E i \in Jobs : PrepareFails(d, i)) \/ ReleaseAndClose(d) PROVE FALSE
  <2>1. d # c
    BY <1>1, <1>6 DEF PrepareFails, ReleaseAndClose
  <2> QED
    BY <1>1, <1>2, <1>6, <2>1 DEF PrepareFails, ReleaseAndClose
<1>7. ASSUME NEW d \in Conns,
             \/ \E i \in Jobs : HandOut(d, i) \/ MarkUnprepared(d, i) \/ Refuse(d, i)
                   \/ FinishReport(d, i) \/ ResetAcquired(d, i) \/ HandOutFails(d, i)
                   \/ \E k \in {"acquire", "heartbeat", "complete", "fail"} : QueueError(d, k, i)
             \/ NoticeClose(d) \/ LoseConnection(d) \/ ServerDies(d)
      PROVE  UNCHANGED jobs
  BY <1>7 DEF HandOut, MarkUnprepared, Refuse, FinishReport, ResetAcquired, HandOutFails,
              QueueError, NoticeClose, LoseConnection, ServerDies
<1>8. ASSUME NEW i \in Jobs, Lapse(i) \/ Delay(i) PROVE FALSE
  BY <1>2, <1>8 DEF Lapse, Delay
<1>9. RNext
  BY <1>2 DEF vars
<1> QED
  BY ONLY <1>3, <1>4, <1>5, <1>6, <1>7, <1>8, <1>9 DEF RNext, Serve

\* A report on a job whose row names another runner, or none, changes no row, however
\* long it was under way (job_queue.rs:3-4).
THEOREM LateReportsChangeNothing == Spec => LateReportsAreRefused
<1>1. RInv /\ [RNext]_vars
        => [\A c \in Conns, j \in Jobs :
              /\ \E kind \in {"complete", "fail"} : Receives(c, kind, j)
              /\ jobs[j].runner # conn[c].runner
              /\ conn'[c].inbox # conn[c].inbox
              => jobs' = jobs]_vars
  BY RefusedStep
<1> QED
  BY <1>1, RunnersInvariant, PTL DEF Spec, LateReportsAreRefused
=============================================================================
