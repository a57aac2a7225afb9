------------------------- MODULE LiveDocumentProofs -------------------------
(***************************************************************************)
(* Proofs about the live text of a field, for any number of browsers, API  *)
(* instances, sessions and faults: the safety properties of                *)
(* LiveDocument.tla.                                                       *)
(*                                                                         *)
(* Reach says where an update of the room is on its way to a browser that  *)
(* does not have it yet, and Attached why its instance does not pass over  *)
(* a notification for it.  Orderly says what holds until a room is         *)
(* deleted, a lease lapses under an open connection or an update of an     *)
(* ended session is sent on: a session goes on while anybody is connected, *)
(* what browsers and rooms hold belongs to the session they think it does, *)
(* and a session has one initial text.                                     *)
(***************************************************************************)
EXTENDS LiveDocument, FiniteSetTheorems, TLAPS

Ops     == {ops \in SUBSET Insertion : IsFiniteSet(ops)}
Event   == {item \in [kind : {"first", "resync", "update"}, ops : Ops] :
               item.kind # "update" => item.ops = {}}
Message == [kind : {"initialize", "update"}, ops : Ops]
Notice  == [epoch : Nat, seq : Nat, ops : Ops]
Draft   == [Words -> Nat] \cup {NoDraft}

RoomType   == [epoch : Nat, session : Nat, checkpoint : Nat, log : Seq(Ops), snapshot : Ops,
               initialized : BOOLEAN, peers : SUBSET [client : Clients, open : BOOLEAN]]
ClientType == [doc : Ops, draft : Draft, epoch : Nat, session : Nat, typed : BOOLEAN,
               dropped : BOOLEAN]
SocketType == [subscribed : BOOLEAN, open : BOOLEAN, at : Instances, epoch : Nat,
               up : Seq(Message), inbox : Seq(Event)]
BusType    == {b \in [listener : {"on", "lost", "failed"}, reconnect : BOOLEAN,
                      notices : Seq(Notice), local : SUBSET Nat] :
                  b.listener = "failed" => b.reconnect}

LiveType ==
    /\ room \in RoomType
    /\ client \in [Clients -> ClientType]
    /\ socket \in [Clients -> SocketType]
    /\ bus \in [Instances -> BusType]
    /\ sessions \in Nat
    /\ purged \in BOOLEAN /\ stalled \in BOOLEAN /\ overheard \in BOOLEAN
    /\ rare \in Nat

\* A connection hears the events of its instance, which has a local entry for it.
Attached ==
    \A c \in Clients : socket[c].open =>
        socket[c].subscribed /\ socket[c].epoch \in bus[socket[c].at].local

-----------------------------------------------------------------------------
(* Where an update is on its way *)

\* The log row seq of the room r has been folded, or holds op.
Told(r, seq, op) ==
    \/ seq <= r.checkpoint
    \/ seq - r.checkpoint \in DOMAIN r.log /\ op \in r.log[seq - r.checkpoint]

\* The notice of the room's session brings op with it, or has it read.
Covers(notice, op) ==
    /\ notice.epoch = room.epoch
    /\ op \in notice.ops \/ (notice.ops = {} /\ Told(room, notice.seq, op))

\* The listener b hears nothing, or has not told its connections yet that it did not.
Deaf(b) == b.listener # "on" \/ b.reconnect

\* The browser is about to read the state, or each insertion is in its replica or
\* on its way to it.
Caught(c) ==
    \/ Deaf(bus[socket[c].at])
    \/ \E n \in DOMAIN socket[c].inbox : socket[c].inbox[n].kind \in {"first", "resync"}
    \/ \A op \in RoomState :
          \/ op \in client[c].doc
          \/ \E n \in DOMAIN socket[c].inbox : op \in socket[c].inbox[n].ops
          \/ \E n \in DOMAIN bus[socket[c].at].notices : Covers(bus[socket[c].at].notices[n], op)

Reach == \A c \in Clients : socket[c].open /\ Active(c) => Caught(c)

-----------------------------------------------------------------------------
(* One session, one initial text *)

\* Connections are those of the session that goes on, and no browser and no notice
\* knows a later one.
InSession ==
    /\ \A c \in Clients : socket[c].open =>
          /\ Row(c) \in room.peers
          /\ socket[c].epoch = room.epoch
          /\ client[c].epoch = room.epoch /\ client[c].session = room.session
    /\ \A c \in Clients : ~socket[c].open => Row(c) \notin room.peers /\ socket[c].up = <<>>
    /\ \A c \in Clients :
          /\ client[c].epoch <= room.epoch
          /\ client[c].epoch = 0 => client[c].doc = {}
          /\ client[c].epoch # 0 /\ client[c].epoch = room.epoch => client[c].session = room.session
          /\ client[c].epoch # 0 => client[c].session <= sessions
    /\ \A i \in Instances : \A n \in DOMAIN bus[i].notices : bus[i].notices[n].epoch <= room.epoch
    /\ room.peers # {} => room.epoch # 0
    /\ room.session <= sessions

\* An insertion of the session; its initial text is b, if it has one.
Fine(op, session, initialized, b) ==
    /\ op.session = session
    /\ op.word = Base => initialized /\ op = b

Right(ops, session, initialized, b) == \A op \in ops : Fine(op, session, initialized, b)

\* The same of every item of a queue, and of the notices of an epoch.
AllRight(queue, session, initialized, b) ==
    \A n \in DOMAIN queue : Right(queue[n].ops, session, initialized, b)

NoticesRight(notices, epoch, session, initialized, b) ==
    \A n \in DOMAIN notices :
        notices[n].epoch = epoch => Right(notices[n].ops, session, initialized, b)

\* A replica is of one session, with one initial text.
OwnText(me, session, initialized, b) ==
    /\ \A op \in me.doc : op.session = me.session
    /\ me.session = session => Right(me.doc, session, initialized, b)
    /\ \A op, op1 \in me.doc : op.word = Base /\ op1.word = Base => op = op1
    /\ me.draft # NoDraft => me.draft[Base] <= 1

OneText(b) ==
    /\ Right(RoomState, room.session, room.initialized, b)
    /\ \A c \in Clients :
          /\ AllRight(socket[c].inbox, room.session, room.initialized, b)
          /\ AllRight(socket[c].up, room.session, room.initialized, b)
          /\ OwnText(client[c], room.session, room.initialized, b)
    /\ \A i \in Instances :
          NoticesRight(bus[i].notices, room.epoch, room.session, room.initialized, b)

Orderly == InSession /\ \E b \in Insertion : OneText(b)

DInv == LiveType /\ Attached /\ Reach /\ (~purged /\ ~stalled /\ ~overheard => Orderly)

-----------------------------------------------------------------------------
(* Insertions                                                              *)

LEMMA FiniteImage ==
  ASSUME NEW S, IsFiniteSet(S), NEW T, NEW F \in [S -> T]
  PROVE  IsFiniteSet({F[x] : x \in S})
<1>1. F \in Surjection(S, {F[x] : x \in S})
  BY DEF Surjection
<1> QED
  BY <1>1, FS_Surjection

LEMMA OpsSets ==
  /\ {} \in Ops
  /\ \A op \in Insertion : {op} \in Ops
  /\ \A A, B \in Ops : A \cup B \in Ops
<1>1. {} \in Ops /\ \A op \in Insertion : {op} \in Ops
  BY FS_EmptySet, FS_Singleton DEF Ops
<1>2. ASSUME NEW A \in Ops, NEW B \in Ops PROVE A \cup B \in Ops
  BY FS_Union DEF Ops
<1> QED
  BY <1>1, <1>2

LEMMA LogOps ==
  ASSUME NEW log \in Seq(Ops)
  PROVE  UNION {log[n] : n \in DOMAIN log} \in Ops
<1>1. DOMAIN log = 1..Len(log) /\ Len(log) \in Nat /\ log \in [1..Len(log) -> Ops]
  OBVIOUS
<1>2. IsFiniteSet(1..Len(log))
  BY <1>1, FS_Interval
<1>3. IsFiniteSet({log[n] : n \in DOMAIN log})
  BY <1>1, <1>2, FiniteImage
<1>4. \A S \in {log[n] : n \in DOMAIN log} : S \in Ops
  BY <1>1
<1>5. IsFiniteSet(UNION {log[n] : n \in DOMAIN log})
  BY <1>3, <1>4, FS_UNION DEF Ops
<1>6. UNION {log[n] : n \in DOMAIN log} \in SUBSET Insertion
  BY <1>4 DEF Ops
<1> QED
  BY <1>5, <1>6 DEF Ops

\* The text of a replica counts its words.
LEMMA TextType ==
  ASSUME NEW ops \in Ops
  PROVE  /\ Text(ops) \in [Words -> Nat]
         /\ \A w \in Words : Text(ops)[w] = Cardinality({op \in ops : op.word = w})
<1>1. ASSUME NEW w \in Words PROVE Cardinality({op \in ops : op.word = w}) \in Nat
  <2>1. {op \in ops : op.word = w} \in SUBSET ops
    OBVIOUS
  <2> QED
    BY <2>1, FS_Subset, FS_CardinalityType DEF Ops
<1> QED
  BY <1>1 DEF Text

\* One initial text at most.
LEMMA OneBase ==
  ASSUME NEW ops, \A op, op1 \in ops : op.word = Base /\ op1.word = Base => op = op1
  PROVE  Cardinality(Bases(ops)) <= 1
<1>1. CASE Bases(ops) = {}
  BY <1>1, FS_EmptySet
<1>2. ASSUME NEW op \in Bases(ops) PROVE Cardinality(Bases(ops)) <= 1
  <2>1. Bases(ops) = {op}
    BY DEF Bases
  <2>2. Cardinality(Bases(ops)) = 1
    BY <2>1, FS_Singleton
  <2> QED
    BY <2>2
<1> QED
  BY <1>1, <1>2

\* The drafts of a browser, and what it carries into a new session.
LEMMA CarriedIs ==
  ASSUME NEW me \in ClientType
  PROVE  /\ Baseline \in [Words -> Nat]
         /\ Carried(me) \in Draft
         /\ /\ me.draft # NoDraft => me.draft[Base] <= 1
            /\ \A op, op1 \in me.doc : op.word = Base /\ op1.word = Base => op = op1
            => (Carried(me) # NoDraft => Carried(me)[Base] <= 1)
<1>1. me.doc \in Ops /\ me.draft \in Draft
  BY DEF ClientType
<1>2. Baseline \in [Words -> Nat]
  BY DEF Baseline
<1>3. Text(me.doc) \in [Words -> Nat] /\ Base \in Words
  BY <1>1, TextType DEF Words
<1>4. Text(me.doc)[Base] = Cardinality(Bases(me.doc))
  BY <1>1, <1>3, TextType DEF Bases
<1>5. Carried(me) \in {NoDraft, me.draft, Text(me.doc)}
  BY DEF Carried
<1>6. Carried(me) \in Draft
  BY <1>1, <1>3, <1>5 DEF Draft
<1>7. ASSUME me.draft # NoDraft => me.draft[Base] <= 1,
             \A op, op1 \in me.doc : op.word = Base /\ op1.word = Base => op = op1,
             Carried(me) # NoDraft
      PROVE  Carried(me)[Base] <= 1
  <2>1. Cardinality(Bases(me.doc)) <= 1
    BY <1>7, OneBase
  <2> QED
    BY <1>4, <1>5, <1>7, <2>1
<1> QED
  BY <1>2, <1>6, <1>7

\* What is reapplied are words of the browser, in its session, and never the initial text.
LEMMA ReappliedIs ==
  ASSUME NEW c \in Clients, NEW me \in ClientType, NEW ops \in Ops
  PROVE  /\ Reapplied(c, me, ops) \in Ops
         /\ \A op \in Reapplied(c, me, ops) :
               /\ op.session = me.session
               /\ me.draft[Base] <= 1 => op.word # Base
<1> DEFINE New(w) == {[word |-> w, by |-> c, session |-> me.session, k |-> n] :
                         n \in 1..(me.draft[w] - Baseline[w])}
           all == UNION {New(w) : w \in Words}
<1>1. CASE Reapplied(c, me, ops) = {}
  BY <1>1, OpsSets
<1>2. CASE me.draft # NoDraft /\ Reapplied(c, me, ops) = all
  <2>1. /\ me.draft \in [Words -> Nat] /\ me.session \in Nat /\ Baseline \in [Words -> Nat]
        /\ Baseline[Base] = 1 /\ IsFiniteSet(Words)
    <3>1. IsFiniteSet(Words)
      BY LiveAssumption, FS_AddElement DEF Words
    <3> QED
      BY <1>2, <3>1 DEF ClientType, Draft, Baseline, Words
  <2>2. ASSUME NEW w \in Words
        PROVE  /\ New(w) \in Ops
               /\ \A op \in New(w) : /\ op.session = me.session /\ op.word = w
                                     /\ w = Base => me.draft[Base] > 1
    <3> DEFINE R == 1..(me.draft[w] - Baseline[w])
               F == [n \in R |-> [word |-> w, by |-> c, session |-> me.session, k |-> n]]
    <3>1. me.draft[w] - Baseline[w] \in Int
      BY <2>1
    <3>2. IsFiniteSet(R)
      BY <3>1, FS_Interval
    <3>3. F \in [R -> Insertion]
      BY <2>1, <3>1 DEF Insertion
    <3>4. New(w) = {F[n] : n \in R}
      OBVIOUS
    <3>5. IsFiniteSet(New(w)) /\ New(w) \in SUBSET Insertion
      <4> HIDE DEF F, R
      <4>1. IsFiniteSet({F[n] : n \in R})
        BY <3>2, <3>3, FiniteImage
      <4>2. {F[n] : n \in R} \in SUBSET Insertion
        BY <3>3
      <4> HIDE DEF New
      <4> QED
        BY <3>4, <4>1, <4>2
    <3>6. w = Base => (R # {} => me.draft[Base] > 1)
      BY <2>1
    <3> QED
      BY <3>5, <3>6 DEF Ops
  <2>3. all \in Ops
    <3> DEFINE G == [w \in Words |-> New(w)]
    <3>1. IsFiniteSet({G[w] : w \in Words}) /\ {G[w] : w \in Words} = {New(w) : w \in Words}
      <4>1. G \in [Words -> Ops]
        BY <2>2
      <4>2. {G[w] : w \in Words} = {New(w) : w \in Words}
        OBVIOUS
      <4> HIDE DEF G, New
      <4>3. IsFiniteSet({G[w] : w \in Words})
        BY <2>1, <4>1, FiniteImage
      <4> QED
        BY <4>2, <4>3
    <3> HIDE DEF New, G
    <3>2. \A S \in {New(w) : w \in Words} : IsFiniteSet(S) /\ S \in SUBSET Insertion
      BY <2>2 DEF Ops
    <3>3. IsFiniteSet(all)
      BY <3>1, <3>2, FS_UNION
    <3>4. all \in SUBSET Insertion
      BY <3>2
    <3> QED
      BY <3>3, <3>4 DEF Ops
  <2>4. ASSUME NEW op \in all PROVE op.session = me.session /\ (me.draft[Base] <= 1 => op.word # Base)
    <3>1. PICK w \in Words : op \in New(w)
      OBVIOUS
    <3>2. op.session = me.session /\ op.word = w /\ (w = Base => me.draft[Base] > 1)
      BY <2>2, <3>1
    <3>3. Base \in Words /\ me.draft[Base] \in Nat
      BY <2>1 DEF Words
    <3> QED
      BY <3>2, <3>3
  <2> HIDE DEF New
  <2> QED
    BY <1>2, <2>3, <2>4
<1>3. Reapplied(c, me, ops) = {} \/ (me.draft # NoDraft /\ Reapplied(c, me, ops) = all)
  BY DEF Reapplied
<1> QED
  BY <1>1, <1>2, <1>3

-----------------------------------------------------------------------------
(* The room's log                                                          *)

Folded(log) == UNION {log[n] : n \in DOMAIN log}

State(r) == r.snapshot \cup Folded(r.log)

LEMMA StateOps ==
  ASSUME NEW r \in RoomType
  PROVE  State(r) \in Ops
  BY LogOps, OpsSets DEF State, Folded, RoomType

LEMMA AnnouncedIs ==
  ASSUME LiveType, NEW notice \in Notice
  PROVE  /\ Announced(notice) \in Ops
         /\ \A op : Covers(notice, op) /\ op \in RoomState => op \in Announced(notice)
         /\ \A op \in Announced(notice) : op \in notice.ops \/ op \in RoomState
<1>1. room \in RoomType /\ RoomState = State(room) /\ State(room) \in Ops
  BY StateOps DEF LiveType, RoomState, State, Folded
<1>2. notice.ops \in Ops /\ notice.seq \in Nat
  BY DEF Notice
<1>3. room.log \in Seq(Ops) /\ room.checkpoint \in Nat
  BY <1>1 DEF RoomType
<1> DEFINE row == notice.seq - room.checkpoint
<1>4. row \in DOMAIN room.log => room.log[row] \in Ops /\ room.log[row] \subseteq RoomState /\ ~(notice.seq <= room.checkpoint)
  BY <1>2, <1>3 DEF RoomState
<1>5. Announced(notice) = IF notice.ops # {} THEN notice.ops
                          ELSE IF row \in DOMAIN room.log THEN room.log[row] ELSE RoomState
  BY DEF Announced
<1>6. \A op : Covers(notice, op) => \/ op \in notice.ops
                                    \/ /\ notice.ops = {}
                                       /\ \/ notice.seq <= room.checkpoint
                                          \/ row \in DOMAIN room.log /\ op \in room.log[row]
  BY DEF Covers, Told
<1> HIDE DEF row
<1> QED
  BY <1>1, <1>2, <1>4, <1>5, <1>6

LEMMA AppendOps ==
  ASSUME NEW log \in Seq(Ops), NEW ops \in Ops
  PROVE  /\ Append(log, ops) \in Seq(Ops) /\ Len(Append(log, ops)) = Len(log) + 1 /\ Len(log) \in Nat
         /\ DOMAIN log = 1..Len(log) /\ DOMAIN Append(log, ops) = 1..(Len(log) + 1)
         /\ \A n \in 1..Len(log) : Append(log, ops)[n] = log[n]
         /\ Append(log, ops)[Len(log) + 1] = ops
         /\ Folded(Append(log, ops)) = Folded(log) \cup ops
         /\ Folded(<<>>) = {}
<1> DEFINE new == Append(log, ops)
<1>1. /\ new \in Seq(Ops) /\ Len(new) = Len(log) + 1 /\ Len(log) \in Nat
      /\ DOMAIN log = 1..Len(log) /\ DOMAIN new = 1..(Len(log) + 1)
      /\ \A n \in 1..Len(log) : new[n] = log[n]
      /\ new[Len(log) + 1] = ops
  OBVIOUS
<1>2. Folded(<<>>) = {}
  BY DEF Folded
<1> HIDE DEF new
<1>3. Folded(new) = Folded(log) \cup ops
  <2>1. ASSUME NEW op \in Folded(new) PROVE op \in Folded(log) \cup ops
    <3>1. PICK n \in DOMAIN new : op \in new[n]
      BY DEF Folded
    <3>2. n \in 1..Len(log) \/ n = Len(log) + 1
      BY <1>1
    <3> QED
      BY <1>1, <3>1, <3>2 DEF Folded
  <2>2. ASSUME NEW op \in Folded(log) PROVE op \in Folded(new)
    <3>1. PICK n \in DOMAIN log : op \in log[n]
      BY DEF Folded
    <3>2. n \in DOMAIN new
      BY <1>1
    <3> QED
      BY <1>1, <3>1, <3>2 DEF Folded
  <2>3. ASSUME NEW op \in ops PROVE op \in Folded(new)
    <3>1. Len(log) + 1 \in DOMAIN new
      BY <1>1
    <3> QED
      BY <1>1, <2>3, <3>1 DEF Folded
  <2> QED
    BY <2>1, <2>2, <2>3
<1> QED
  BY <1>1, <1>2, <1>3 DEF new

\* One more update in the log, folded or not: the state has it, and whoever reads the
\* row of an update finds it, or finds the state.
LEMMA LoggedIs ==
  ASSUME NEW r \in RoomType, NEW ops \in Ops
  PROVE  /\ Logged(r, ops) \in RoomType
         /\ Logged(r, ops).epoch = r.epoch /\ Logged(r, ops).session = r.session
         /\ Logged(r, ops).peers = r.peers /\ Logged(r, ops).initialized = r.initialized
         /\ State(Logged(r, ops)) = State(r) \cup ops
         /\ \A seq \in Nat : \A op : Told(r, seq, op) => Told(Logged(r, ops), seq, op)
         /\ \A op \in ops : Told(Logged(r, ops), r.checkpoint + Len(r.log) + 1, op)
         /\ \A n \in DOMAIN Logged(r, ops).log :
               Logged(r, ops).log[n] = ops \/ \E m \in DOMAIN r.log : Logged(r, ops).log[n] = r.log[m]
         /\ \A op \in Logged(r, ops).snapshot : op \in State(r) \cup ops
<1> DEFINE log == Append(r.log, ops)
           new == Logged(r, ops)
           next == r.checkpoint + Len(r.log) + 1
<1>1. r.log \in Seq(Ops) /\ r.checkpoint \in Nat /\ r.snapshot \in Ops
  BY DEF RoomType
<1>2. /\ log \in Seq(Ops) /\ Len(log) = Len(r.log) + 1 /\ Len(r.log) \in Nat
      /\ DOMAIN r.log = 1..Len(r.log) /\ DOMAIN log = 1..(Len(r.log) + 1)
      /\ \A n \in 1..Len(r.log) : log[n] = r.log[n]
      /\ log[Len(r.log) + 1] = ops
      /\ Folded(log) = Folded(r.log) \cup ops
      /\ Folded(<<>>) = {}
  BY <1>1, AppendOps
<1> HIDE DEF log
<1>3. Folded(log) \in Ops /\ <<>> \in Seq(Ops) /\ DOMAIN <<>> = {}
  <2>1. Folded(log) \in Ops
    BY <1>2, LogOps DEF Folded
  <2> QED
    BY <2>1
<1>4. CASE new = [r EXCEPT !.log = log]
  <2>1. /\ new \in RoomType /\ new.epoch = r.epoch /\ new.session = r.session
        /\ new.peers = r.peers /\ new.initialized = r.initialized
        /\ new.log = log /\ new.snapshot = r.snapshot /\ new.checkpoint = r.checkpoint
    BY <1>2, <1>4 DEF RoomType
  <2> HIDE DEF new
  <2>2. State(new) = State(r) \cup ops
    BY <1>2, <2>1 DEF State
  <2>3. ASSUME NEW seq \in Nat, NEW op, Told(r, seq, op) PROVE Told(new, seq, op)
    BY <1>1, <1>2, <2>1, <2>3 DEF Told
  <2>4. ASSUME NEW op \in ops PROVE Told(new, next, op)
    <3>1. next - r.checkpoint = Len(r.log) + 1 /\ Len(r.log) + 1 \in DOMAIN log
      BY <1>1, <1>2
    <3> QED
      BY <1>2, <2>1, <3>1 DEF Told
  <2>5. \A n \in DOMAIN log : log[n] = ops \/ \E m \in DOMAIN r.log : log[n] = r.log[m]
    BY <1>2
  <2>6. \A op \in new.snapshot : op \in State(r)
    BY <2>1 DEF State
  <2> QED
    BY <2>1, <2>2, <2>3, <2>4, <2>5, <2>6 DEF new
<1>5. CASE new = [r EXCEPT !.snapshot = @ \cup Folded(log),
                           !.checkpoint = @ + Len(log), !.log = <<>>]
  <2>1. r.snapshot \cup Folded(log) \in Ops /\ r.checkpoint + Len(log) \in Nat
    <3>1. r.snapshot \cup Folded(log) \in Ops
      BY ONLY <1>1, <1>3, OpsSets
    <3>2. r.checkpoint \in Nat /\ Len(r.log) \in Nat /\ Len(log) = Len(r.log) + 1
      BY <1>1, <1>2
    <3>3. r.checkpoint + Len(log) \in Nat
      BY ONLY <3>2
    <3> QED
      BY <3>1, <3>3
  <2>2. /\ new \in RoomType /\ new.epoch = r.epoch /\ new.session = r.session
        /\ new.peers = r.peers /\ new.initialized = r.initialized
        /\ new.log = <<>> /\ new.snapshot = r.snapshot \cup Folded(log)
        /\ new.checkpoint = r.checkpoint + Len(log)
    BY <1>3, <1>5, <2>1 DEF RoomType
  <2> HIDE DEF new
  <2>3. State(new) = State(r) \cup ops
    BY <1>2, <2>2 DEF State
  <2>4. ASSUME NEW seq \in Nat, NEW op, Told(r, seq, op) PROVE Told(new, seq, op)
    <3>1. seq <= r.checkpoint + Len(log)
      BY <1>1, <1>2, <2>4 DEF Told
    <3> QED
      BY <2>2, <3>1 DEF Told
  <2>5. ASSUME NEW op \in ops PROVE Told(new, next, op)
    <3>1. next <= r.checkpoint + Len(log)
      BY <1>1, <1>2
    <3> QED
      BY <2>2, <3>1 DEF Told
  <2>6. \A op \in new.snapshot : op \in State(r) \cup ops
    BY <1>2, <2>2 DEF State
  <2> QED
    BY <1>3, <2>2, <2>3, <2>4, <2>5, <2>6 DEF new
<1>6. new = [r EXCEPT !.log = log]
      \/ new = [r EXCEPT !.snapshot = @ \cup Folded(log),
                         !.checkpoint = @ + Len(log), !.log = <<>>]
  BY DEF Logged, Folded, log
<1> QED
  BY <1>4, <1>5, <1>6

-----------------------------------------------------------------------------
(* What the steps write                                                    *)

LEMMA TailOf ==
  ASSUME NEW T, NEW s \in Seq(T), s # <<>>
  PROVE  /\ Tail(s) \in Seq(T) /\ Head(s) \in T /\ Head(s) = s[1] /\ 1 \in DOMAIN s
         /\ \A n \in DOMAIN Tail(s) : n + 1 \in DOMAIN s /\ Tail(s)[n] = s[n + 1]
         /\ \A n \in DOMAIN s : n = 1 \/ (n - 1 \in DOMAIN Tail(s) /\ s[n] = Tail(s)[n - 1])
  OBVIOUS

LEMMA AppendTo ==
  ASSUME NEW T, NEW s \in Seq(T), NEW x \in T
  PROVE  /\ Append(s, x) \in Seq(T)
         /\ \A n \in DOMAIN s : n \in DOMAIN Append(s, x) /\ Append(s, x)[n] = s[n]
         /\ Len(s) + 1 \in DOMAIN Append(s, x) /\ Append(s, x)[Len(s) + 1] = x
         /\ \A n \in DOMAIN Append(s, x) : Append(s, x)[n] = x \/ (n \in DOMAIN s /\ Append(s, x)[n] = s[n])
  OBVIOUS

LEMMA Prefixed ==
  ASSUME NEW T, NEW s \in Seq(T), NEW x \in T
  PROVE  /\ <<x>> \o s \in Seq(T) /\ 1 \in DOMAIN (<<x>> \o s) /\ (<<x>> \o s)[1] = x
         /\ \A n \in DOMAIN (<<x>> \o s) :
               (<<x>> \o s)[n] = x \/ \E m \in DOMAIN s : (<<x>> \o s)[n] = s[m]
<1>1. Len(s) \in Nat /\ DOMAIN s = 1..Len(s)
  OBVIOUS
<1>2. /\ <<x>> \o s \in Seq(T) /\ DOMAIN (<<x>> \o s) = 1..(Len(s) + 1)
      /\ (<<x>> \o s)[1] = x
      /\ \A n \in 2..(Len(s) + 1) : (<<x>> \o s)[n] = s[n - 1]
  BY <1>1
<1>3. \A n \in 1..(Len(s) + 1) : n = 1 \/ (n \in 2..(Len(s) + 1) /\ n - 1 \in 1..Len(s))
  BY <1>1
<1>4. 1 \in 1..(Len(s) + 1)
  BY <1>1
<1> QED
  BY <1>1, <1>2, <1>3, <1>4

LEMMA ItemTypes ==
  /\ First \in Event /\ Resync \in Event /\ Asked \in Message
  /\ First.kind = "first" /\ Resync.kind = "resync"
  /\ First.ops = {} /\ Resync.ops = {} /\ Asked.ops = {}
  /\ \A item \in Event : item.kind # "update" => item.ops = {}
  /\ \A ops \in Ops : Changed(ops) \in Event /\ Changed(ops) \in Message /\ Changed(ops).ops = ops
  BY OpsSets DEF First, Resync, Asked, Changed, Event, Message

LEMMA ClosedType ==
  /\ Closed \in SocketType /\ ~Closed.open /\ Closed.up = <<>> /\ Closed.inbox = <<>>
  /\ \A i \in Instances : [Closed EXCEPT !.subscribed = TRUE, !.at = i] \in SocketType
<1>1. (CHOOSE i \in Instances : TRUE) \in Instances
  BY LiveAssumption
<1>2. <<>> \in Seq(Message) /\ <<>> \in Seq(Event)
  OBVIOUS
<1> QED
  BY <1>1, <1>2 DEF Closed, SocketType

LEMMA Parts ==
  ASSUME LiveType, NEW c \in Clients
  PROVE  /\ client[c] \in ClientType /\ socket[c] \in SocketType /\ room \in RoomType
         /\ client[c].doc \in Ops /\ client[c].draft \in Draft
         /\ client[c].epoch \in Nat /\ client[c].session \in Nat
         /\ socket[c].at \in Instances /\ socket[c].up \in Seq(Message) /\ socket[c].inbox \in Seq(Event)
         /\ socket[c].epoch \in Nat /\ socket[c].open \in BOOLEAN
         /\ socket[c].subscribed \in BOOLEAN
         /\ bus[socket[c].at] \in BusType /\ bus[socket[c].at].notices \in Seq(Notice)
         /\ room.epoch \in Nat /\ room.session \in Nat
         /\ RoomState = State(room) /\ RoomState \in Ops
<1>1. /\ client[c] \in ClientType /\ socket[c] \in SocketType /\ room \in RoomType
      /\ \A i \in Instances : bus[i] \in BusType
  BY DEF LiveType
<1>2. RoomState = State(room) /\ RoomState \in Ops
  BY <1>1, StateOps DEF RoomState, State, Folded
<1> QED
  BY <1>1, <1>2 DEF ClientType, SocketType, BusType, RoomType

\* A connection ends in order.
LEMMA LeaveIs ==
  ASSUME LiveType, NEW c \in Clients, Leave(c)
  PROVE  /\ room' \in RoomType /\ room'.peers = room.peers \ {Row(c)}
         /\ room'.epoch = room.epoch /\ room'.session = room.session
         /\ room'.checkpoint = room.checkpoint /\ room'.log = room.log
         /\ room'.snapshot = room.snapshot /\ room'.initialized = room.initialized
         /\ socket' = [socket EXCEPT ![c] = Closed] /\ socket' \in [Clients -> SocketType]
         /\ Close(c) => client' = client
<1>1. socket' \in [Clients -> SocketType]
  BY ClosedType DEF LiveType, Leave
<1> QED
  BY <1>1 DEF LiveType, RoomType, Leave, Close

\* A message of the server reaches the replica: what it says is in the replica, and at
\* most words of the browser are added and sent.
LEMMA ReceiveIs ==
  ASSUME LiveType, NEW c \in Clients, NEW ops \in Ops, socket[c].inbox # <<>>, Receive(c, ops)
  PROVE  \E own \in Ops, me \in ClientType, s \in SocketType :
            /\ client' = [client EXCEPT ![c] = me] /\ socket' = [socket EXCEPT ![c] = s]
            /\ room' = room
            /\ me.doc = client[c].doc \cup ops \cup own
            /\ me.epoch = client[c].epoch /\ me.session = client[c].session
            /\ me.draft \in {client[c].draft, NoDraft}
            /\ own = {} \/ own = Reapplied(c, client[c], client[c].doc \cup ops)
            /\ own # {} => client[c].draft # NoDraft
            /\ s.subscribed = socket[c].subscribed
            /\ s.open = socket[c].open /\ s.at = socket[c].at /\ s.epoch = socket[c].epoch
            /\ s.inbox = Tail(socket[c].inbox)
            /\ s.up = socket[c].up \/ s.up = Append(socket[c].up, Changed(own))
<1> DEFINE k   == client[c]
           all == k.doc \cup ops
           own == Reapplied(c, k, all)
           draft == IF all = {} THEN k.draft ELSE NoDraft
           up  == IF own = {} THEN socket[c].up ELSE Append(socket[c].up, Changed(own))
           me  == [k EXCEPT !.doc = all \cup own, !.draft = draft]
           s   == [socket[c] EXCEPT !.inbox = Tail(socket[c].inbox), !.up = up]
<1>1. /\ k \in ClientType /\ socket[c] \in SocketType /\ k.doc \in Ops /\ k.draft \in Draft
      /\ socket[c].inbox \in Seq(Event) /\ socket[c].up \in Seq(Message)
  BY Parts
<1>2. all \in Ops
  BY <1>1, OpsSets
<1>3. own \in Ops /\ all \cup own \in Ops /\ (own # {} => k.draft # NoDraft)
  <2>1. own \in Ops
    BY <1>1, <1>2, ReappliedIs
  <2>2. all \cup own \in Ops
    BY <1>2, <2>1, OpsSets
  <2>3. own # {} => k.draft # NoDraft
    BY DEF Reapplied
  <2> QED
    BY <2>1, <2>2, <2>3
<1>4. client' = [client EXCEPT ![c] = me] /\ socket' = [socket EXCEPT ![c] = s] /\ room' = room
  BY <1>1 DEF Receive, LiveType
<1>5. Tail(socket[c].inbox) \in Seq(Event)
  BY <1>1, TailOf
<1>6. Changed(own) \in Message
  BY <1>3, ItemTypes
<1> HIDE DEF own
<1>7. up \in Seq(Message) /\ (up = socket[c].up \/ up = Append(socket[c].up, Changed(own)))
  <2>1. Append(socket[c].up, Changed(own)) \in Seq(Message)
    BY <1>1, <1>6, AppendTo
  <2> QED
    BY <1>1, <2>1
<1>8. draft \in Draft /\ draft \in {k.draft, NoDraft}
  BY <1>1 DEF Draft
<1> HIDE DEF up, draft, all
<1>9. /\ me \in ClientType /\ me.doc = all \cup own /\ me.draft = draft
      /\ me.epoch = k.epoch /\ me.session = k.session
  BY <1>1, <1>3, <1>8 DEF ClientType
<1>10. /\ s \in SocketType /\ s.open = socket[c].open /\ s.at = socket[c].at
       /\ s.epoch = socket[c].epoch /\ s.inbox = Tail(socket[c].inbox) /\ s.up = up
       /\ s.subscribed = socket[c].subscribed
  BY <1>1, <1>5, <1>7 DEF SocketType
<1> HIDE DEF me, s
<1>11. own = Reapplied(c, client[c], client[c].doc \cup ops) /\ all = client[c].doc \cup ops
  BY DEF own, all
<1> QED
  BY <1>3, <1>4, <1>7, <1>8, <1>9, <1>10, <1>11

\* The room a connection joins, or begins.
LEMMA JoinedIs ==
  ASSUME LiveType, NEW c \in Clients
  PROVE  /\ Joined(c) \in RoomType
         /\ room.peers # {} =>
               /\ Joined(c).peers = room.peers \cup {Row(c)}
               /\ Joined(c).epoch = room.epoch /\ Joined(c).session = room.session
               /\ Joined(c).checkpoint = room.checkpoint /\ Joined(c).log = room.log
               /\ Joined(c).snapshot = room.snapshot /\ Joined(c).initialized = room.initialized
         /\ room.peers = {} =>
               /\ Joined(c).peers = {Row(c)} /\ Joined(c).epoch > room.epoch
               /\ Joined(c).session = sessions + 1 /\ ~Joined(c).initialized
               /\ State(Joined(c)) = {}
<1>1. /\ room \in RoomType /\ sessions \in Nat /\ room.epoch \in Nat
      /\ room.peers \in SUBSET [client : Clients, open : BOOLEAN]
  BY DEF LiveType, RoomType
<1>2. Row(c) \in [client : Clients, open : BOOLEAN]
  BY DEF Row
<1>3. CASE room.peers # {}
  <2> DEFINE peers == room.peers \cup {Row(c)}
  <2>1. peers \in SUBSET [client : Clients, open : BOOLEAN]
    BY <1>1, <1>2
  <2>2. Joined(c) = [room EXCEPT !.peers = peers]
    BY <1>3 DEF Joined
  <2> HIDE DEF peers
  <2>3. /\ Joined(c) \in RoomType /\ Joined(c).peers = peers
        /\ Joined(c).epoch = room.epoch /\ Joined(c).session = room.session
        /\ Joined(c).checkpoint = room.checkpoint /\ Joined(c).log = room.log
        /\ Joined(c).snapshot = room.snapshot /\ Joined(c).initialized = room.initialized
    BY <1>1, <2>1, <2>2 DEF RoomType
  <2> QED
    BY <1>3, <2>3 DEF peers
<1>4. CASE room.peers = {}
  <2> DEFINE epoch == (IF room.epoch = 0 THEN 1 ELSE room.epoch) + 1
  <2>1. epoch \in Nat /\ epoch > room.epoch /\ sessions + 1 \in Nat
    BY <1>1
  <2>2. Joined(c) = [epoch |-> epoch, session |-> sessions + 1, checkpoint |-> 0, log |-> <<>>,
                     snapshot |-> {}, initialized |-> FALSE, peers |-> {Row(c)}]
    BY <1>4 DEF Joined
  <2> HIDE DEF epoch
  <2>3. <<>> \in Seq(Ops) /\ Folded(<<>>) = {} /\ {} \in Ops
    BY OpsSets DEF Folded
  <2>4. Joined(c) \in RoomType
    BY <1>2, <2>1, <2>2, <2>3 DEF RoomType
  <2>5. /\ Joined(c).peers = {Row(c)} /\ Joined(c).epoch = epoch
        /\ Joined(c).session = sessions + 1 /\ ~Joined(c).initialized
        /\ Joined(c).snapshot = {} /\ Joined(c).log = <<>>
    BY <2>2
  <2> QED
    BY <1>4, <2>1, <2>3, <2>4, <2>5 DEF State
<1> QED
  BY <1>3, <1>4

\* A browser connects: it goes on with its replica, or carries its text into a new one.
LEMMA ConnectIs ==
  ASSUME LiveType, NEW c \in Clients, Connect(c)
  PROVE  \E me \in ClientType, s \in SocketType :
            /\ ~socket[c].open /\ room' = Joined(c)
            /\ client' = [client EXCEPT ![c] = me] /\ socket' = [socket EXCEPT ![c] = s]
            /\ sessions' = IF room.peers = {} THEN sessions + 1 ELSE sessions
            /\ s.subscribed /\ s.open /\ s.at = socket[c].at /\ s.epoch = Joined(c).epoch
            /\ 1 \in DOMAIN s.inbox /\ s.inbox[1] = First
            /\ \A n \in DOMAIN s.inbox :
                  \/ s.inbox[n] = First
                  \/ \E m \in DOMAIN socket[c].inbox : s.inbox[n] = socket[c].inbox[m]
            /\ s.up = <<Asked>> \/ s.up = <<Changed(me.doc)>>
            /\ me.epoch = Joined(c).epoch
            /\ \/ /\ client[c].epoch \notin {0, Joined(c).epoch}
                  /\ me.doc = {} /\ me.draft = Carried(client[c])
                  /\ me.session = Joined(c).session
               \/ /\ client[c].epoch \in {0, Joined(c).epoch}
                  /\ me.doc = client[c].doc /\ me.draft = client[c].draft
                  /\ me.session = IF client[c].epoch = 0 THEN Joined(c).session
                                  ELSE client[c].session
            /\ bus' \in [Instances -> BusType]
            /\ Joined(c).epoch \in bus'[socket[c].at].local
            /\ \A i \in Instances : /\ bus'[i].listener = bus[i].listener
                                    /\ bus'[i].reconnect = bus[i].reconnect
                                    /\ bus'[i].notices = bus[i].notices
                                    /\ bus[i].local \subseteq bus'[i].local
            /\ overheard' \in BOOLEAN /\ (overheard => overheard')
            /\ room.peers = {} /\ ~overheard' => \A d \in Clients : ~Waiting(d)
            /\ UNCHANGED <<purged, stalled, rare>>
<1> DEFINE r == Joined(c)
           k == client[c]
           me == Continued(k, r)
           i == socket[c].at
<1>1. r \in RoomType /\ r.epoch \in Nat /\ r.session \in Nat
  BY JoinedIs DEF RoomType
<1>2. k \in ClientType
  BY Parts
<1>3. Carried(k) \in Draft /\ {} \in Ops
  BY <1>2, CarriedIs, OpsSets
<1> HIDE DEF r, k
<1>4. /\ me \in ClientType /\ me.epoch = r.epoch /\ me.doc \in Ops
      /\ \/ /\ k.epoch \notin {0, r.epoch}
            /\ me.doc = {} /\ me.draft = Carried(k) /\ me.session = r.session
         \/ /\ k.epoch \in {0, r.epoch}
            /\ me.doc = k.doc /\ me.draft = k.draft
            /\ me.session = IF k.epoch = 0 THEN r.session ELSE k.session
  <2>1. CASE k.epoch \notin {0, r.epoch}
    <3>1. me = [k EXCEPT !.doc = {}, !.draft = Carried(k), !.epoch = r.epoch, !.session = r.session]
      BY <2>1 DEF Continued
    <3> HIDE DEF me
    <3> QED
      BY <1>1, <1>2, <1>3, <2>1, <3>1 DEF ClientType
  <2>2. CASE k.epoch \in {0, r.epoch}
    <3> DEFINE ses == IF k.epoch = 0 THEN r.session ELSE k.session
    <3>1. me = [k EXCEPT !.epoch = r.epoch, !.session = ses] /\ ses \in Nat
      <4>1. k.session \in Nat
        BY <1>2 DEF ClientType
      <4> QED
        BY <1>1, <2>2, <4>1 DEF Continued
    <3>2. me.session = ses /\ me.doc = k.doc /\ me.draft = k.draft /\ me.epoch = r.epoch
          /\ me \in ClientType
      <4> HIDE DEF me, ses
      <4> QED
        BY <1>1, <1>2, <3>1 DEF ClientType
    <3> HIDE DEF me
    <3> QED
      BY <1>2, <2>2, <3>2 DEF ClientType
  <2> QED
    BY <2>1, <2>2
<1> DEFINE up == IF me.doc = {} THEN <<Asked>> ELSE <<Changed(me.doc)>>
           new == <<First>> \o socket[c].inbox
           s == [socket[c] EXCEPT !.open = TRUE, !.epoch = r.epoch, !.up = up, !.inbox = new]
<1>5. /\ room' = r /\ client' = [client EXCEPT ![c] = me]
      /\ socket' = [socket EXCEPT ![c] = s]
      /\ sessions' = IF room.peers = {} THEN sessions + 1 ELSE sessions
      /\ bus' = [bus EXCEPT ![i].local = @ \cup {r.epoch}]
      /\ overheard' = (overheard \/ (room.peers = {} /\ \E d \in Clients : Waiting(d)))
      /\ socket[c].subscribed /\ ~socket[c].open /\ UNCHANGED <<purged, stalled, rare>>
  BY DEF Connect, r, k, LiveType
<1> HIDE DEF me
<1>6. up \in Seq(Message) /\ (up = <<Asked>> \/ up = <<Changed(me.doc)>>)
  BY <1>4, ItemTypes
<1> HIDE DEF up
<1>7. socket[c] \in SocketType /\ socket[c].inbox \in Seq(Event) /\ i \in Instances
      /\ bus \in [Instances -> BusType]
  BY Parts DEF LiveType
<1>8. /\ new \in Seq(Event) /\ 1 \in DOMAIN new /\ new[1] = First
      /\ \A n \in DOMAIN new :
            new[n] = First \/ \E m \in DOMAIN socket[c].inbox : new[n] = socket[c].inbox[m]
  BY <1>7, ItemTypes, Prefixed
<1> HIDE DEF new
<1>9. /\ s \in SocketType /\ s.subscribed /\ s.open /\ s.at = i /\ s.epoch = r.epoch
      /\ s.inbox = new /\ s.up = up
  BY <1>1, <1>5, <1>6, <1>7, <1>8 DEF SocketType
<1> HIDE DEF s
<1>10. /\ bus' \in [Instances -> BusType] /\ r.epoch \in bus'[i].local
       /\ \A j \in Instances : /\ bus'[j].listener = bus[j].listener
                               /\ bus'[j].reconnect = bus[j].reconnect
                               /\ bus'[j].notices = bus[j].notices
                               /\ bus[j].local \subseteq bus'[j].local
  BY <1>1, <1>5, <1>7 DEF BusType
<1>11. /\ overheard' \in BOOLEAN /\ (overheard => overheard')
       /\ room.peers = {} /\ ~overheard' => \A d \in Clients : ~Waiting(d)
  <2>1. overheard \in BOOLEAN
    BY DEF LiveType
  <2> QED
    BY <1>5, <2>1
<1> QED
  BY <1>4, <1>5, <1>6, <1>8, <1>9, <1>10, <1>11 DEF r, k, i

\* A word is typed: into the replica, whose connection gets it, or into the draft.
LEMMA EditIs ==
  ASSUME LiveType, NEW c \in Clients, Edit(c)
  PROVE  \E me \in ClientType, s \in SocketType, op \in Insertion :
            /\ client' = [client EXCEPT ![c] = me] /\ socket' = [socket EXCEPT ![c] = s]
            /\ me.epoch = client[c].epoch /\ me.session = client[c].session
            /\ op.word # Base /\ op.session = client[c].session
            /\ s.subscribed = socket[c].subscribed
            /\ s.open = socket[c].open /\ s.at = socket[c].at /\ s.epoch = socket[c].epoch
            /\ s.inbox = socket[c].inbox
            /\ \/ s.up = socket[c].up
               \/ socket[c].open /\ s.up = Append(socket[c].up, Changed({op}))
            /\ \/ /\ client[c].doc = {} /\ me.doc = {}
                  /\ (client[c].draft # NoDraft => client[c].draft[Base] <= 1) => me.draft[Base] <= 1
               \/ /\ client[c].doc # {} /\ me.doc = client[c].doc \cup {op}
                  /\ me.draft = client[c].draft
            /\ UNCHANGED <<room, bus, sessions, purged, stalled, overheard, rare>>
<1> DEFINE k == client[c]
           op == [word |-> c, by |-> c, session |-> k.session, k |-> 0]
           text == IF k.draft = NoDraft THEN Baseline ELSE k.draft
           me == IF k.doc = {}
                 THEN [k EXCEPT !.typed = TRUE, !.draft = [text EXCEPT ![c] = @ + 1]]
                 ELSE [k EXCEPT !.typed = TRUE, !.doc = @ \cup {op}]
           s == IF socket[c].open /\ k.doc # {}
                THEN [socket[c] EXCEPT !.up = Append(@, Changed({op}))]
                ELSE socket[c]
<1>1. /\ k \in ClientType /\ socket[c] \in SocketType /\ k.doc \in Ops /\ k.draft \in Draft
      /\ k.session \in Nat /\ socket[c].up \in Seq(Message)
  BY Parts
<1>2. op \in Insertion /\ op.word # Base /\ op.session = k.session /\ op.word = c
  BY <1>1, LiveAssumption DEF Insertion, Words
<1>3. /\ client' = [client EXCEPT ![c] = me] /\ socket' = [socket EXCEPT ![c] = s]
      /\ UNCHANGED <<room, bus, sessions, purged, stalled, overheard, rare>>
  <2>1. client' = [client EXCEPT ![c] = me] /\ UNCHANGED <<room, bus, sessions, purged, stalled, overheard, rare>>
    BY DEF Edit
  <2>2. socket' = IF socket[c].open /\ k.doc # {}
                  THEN [socket EXCEPT ![c].up = Append(@, Changed({op}))] ELSE socket
    BY DEF Edit
  <2>3. socket' = [socket EXCEPT ![c] = s]
    BY <2>2 DEF LiveType
  <2> QED
    BY <2>1, <2>3
<1>4. Changed({op}) \in Message /\ {op} \in Ops /\ k.doc \cup {op} \in Ops
  <2>1. {op} \in Ops
    BY <1>2, OpsSets
  <2> HIDE DEF op
  <2> QED
    BY <1>1, <2>1, OpsSets, ItemTypes
<1>5. /\ text \in [Words -> Nat]
      /\ (k.draft # NoDraft => k.draft[Base] <= 1) => text[Base] <= 1
  BY <1>1 DEF Draft, Baseline, Words
<1> DEFINE draft == [text EXCEPT ![c] = @ + 1]
<1>6. draft \in Draft /\ draft[Base] = text[Base]
  <2>1. draft \in [Words -> Nat] /\ c \in Words
    BY <1>5 DEF Words
  <2>2. draft[Base] = text[Base]
    BY <1>5, LiveAssumption DEF Words
  <2> QED
    BY <2>1, <2>2 DEF Draft
<1> HIDE DEF op
<1>7. /\ s \in SocketType /\ s.open = socket[c].open /\ s.at = socket[c].at
      /\ s.subscribed = socket[c].subscribed
      /\ s.epoch = socket[c].epoch /\ s.inbox = socket[c].inbox
      /\ \/ s.up = socket[c].up
         \/ socket[c].open /\ s.up = Append(socket[c].up, Changed({op}))
  <2>1. Append(socket[c].up, Changed({op})) \in Seq(Message)
    BY <1>1, <1>4, AppendTo
  <2> QED
    BY <1>1, <2>1 DEF SocketType
<1> HIDE DEF text, s
<1>8. /\ me \in ClientType /\ me.epoch = k.epoch /\ me.session = k.session
      /\ \/ /\ k.doc = {} /\ me.doc = {} /\ me.draft = draft
         \/ /\ k.doc # {} /\ me.doc = k.doc \cup {op} /\ me.draft = k.draft
  <2>1. CASE k.doc = {}
    <3>1. me = [k EXCEPT !.typed = TRUE, !.draft = draft]
      BY <2>1
    <3> HIDE DEF me, draft
    <3> QED
      BY <1>1, <1>6, <2>1, <3>1 DEF ClientType
  <2>2. CASE k.doc # {}
    <3>1. me = [k EXCEPT !.typed = TRUE, !.doc = k.doc \cup {op}]
      BY <2>2
    <3> HIDE DEF me, draft
    <3> QED
      BY <1>1, <1>4, <2>2, <3>1 DEF ClientType
  <2> QED
    BY <2>1, <2>2
<1> HIDE DEF me, draft
<1> QED
  BY <1>2, <1>3, <1>5, <1>6, <1>7, <1>8

\* An event of the hub reaches the browser, or the connection is of an ended session.
LEMMA ServeEventIs ==
  ASSUME LiveType, NEW c \in Clients, ServeEvent(c)
  PROVE  /\ socket[c].open /\ socket[c].inbox # <<>>
         /\ UNCHANGED <<bus, sessions, purged, stalled, overheard, rare>>
         /\ \/ Close(c)
            \/ \E ops \in Ops :
                  /\ Receive(c, ops)
                  /\ \/ ops = RoomState
                     \/ Head(socket[c].inbox).kind = "update" /\ ops = Head(socket[c].inbox).ops
<1>1. socket[c].inbox \in Seq(Event) /\ RoomState \in Ops
  BY Parts
<1>2. socket[c].open /\ socket[c].inbox # <<>> /\ UNCHANGED <<bus, sessions, purged, stalled, overheard, rare>>
  BY DEF ServeEvent
<1>3. Head(socket[c].inbox) \in Event
  BY <1>1, <1>2, TailOf
<1>4. /\ Head(socket[c].inbox).kind \in {"first", "resync", "update"}
      /\ Head(socket[c].inbox).ops \in Ops
  BY <1>3 DEF Event
<1>5. CASE Head(socket[c].inbox).kind = "update"
  <2>1. Receive(c, Head(socket[c].inbox).ops)
    BY <1>5 DEF ServeEvent
  <2> QED
    BY <1>2, <1>4, <1>5, <2>1
<1>6. CASE Head(socket[c].inbox).kind = "first"
  <2>1. Close(c) \/ Receive(c, RoomState)
    BY <1>6 DEF ServeEvent
  <2> QED
    BY <1>1, <1>2, <2>1
<1>7. CASE Head(socket[c].inbox).kind = "resync"
  <2>1. Close(c) \/ Receive(c, RoomState)
    BY <1>7 DEF ServeEvent
  <2> QED
    BY <1>1, <1>2, <2>1
<1> QED
  BY <1>4, <1>5, <1>6, <1>7

\* What is announced is named by its row of the log; an initial text has to be read there.
LEMMA PublishIs ==
  ASSUME LiveType, NEW ops \in Ops, Publish(ops)
  PROVE  /\ bus' \in [Instances -> BusType]
         /\ \E notice \in Notice :
               /\ notice.epoch = room.epoch
               /\ notice.seq = room.checkpoint + Len(room.log) + 1
               /\ notice.ops \in {ops, {}}
               /\ \A i \in Instances :
                     /\ bus'[i].listener = bus[i].listener /\ bus'[i].reconnect = bus[i].reconnect
                     /\ bus'[i].local = bus[i].local
                     /\ bus'[i].notices = IF bus[i].listener = "on"
                                          THEN Append(bus[i].notices, notice) ELSE bus[i].notices
<1> DEFINE notice == [epoch |-> room.epoch, seq |-> room.checkpoint + Len(room.log) + 1,
                      ops |-> IF Long(ops) THEN {} ELSE ops]
<1>1. room.epoch \in Nat /\ room.checkpoint \in Nat /\ Len(room.log) \in Nat
  BY DEF LiveType, RoomType
<1>2. /\ notice \in Notice /\ notice.epoch = room.epoch
      /\ notice.seq = room.checkpoint + Len(room.log) + 1 /\ notice.ops \in {ops, {}}
  BY <1>1, OpsSets DEF Notice
<1>3. bus' = [i \in Instances |-> IF bus[i].listener = "on"
                                  THEN [bus[i] EXCEPT !.notices = Append(@, notice)] ELSE bus[i]]
  BY DEF Publish
<1> HIDE DEF notice
<1>4. ASSUME NEW i \in Instances
      PROVE  /\ bus'[i] \in BusType /\ bus'[i].listener = bus[i].listener
             /\ bus'[i].reconnect = bus[i].reconnect /\ bus'[i].local = bus[i].local
             /\ bus'[i].notices = IF bus[i].listener = "on"
                                  THEN Append(bus[i].notices, notice) ELSE bus[i].notices
  <2>1. bus[i] \in BusType /\ bus[i].notices \in Seq(Notice)
    BY DEF LiveType, BusType
  <2>2. Append(bus[i].notices, notice) \in Seq(Notice)
    BY <1>2, <2>1, AppendTo
  <2> QED
    BY <1>3, <2>1, <2>2 DEF BusType
<1> QED
  BY <1>2, <1>3, <1>4

\* A message of the browser: an update, or the one initial text, enters the log and is
\* announced; another request to initialize changes nothing.
LEMMA ServeMessageIs ==
  ASSUME LiveType, NEW c \in Clients, ServeMessage(c)
  PROVE  /\ socket[c].open /\ socket[c].up # <<>>
         /\ UNCHANGED <<sessions, purged, stalled, overheard, rare>>
         /\ \/ ~Active(c) /\ Close(c) /\ bus' = bus
            \/ /\ client' = client
               /\ \E s \in SocketType :
                     /\ socket' = [socket EXCEPT ![c] = s]
                     /\ s.subscribed = socket[c].subscribed
                     /\ s.open = socket[c].open /\ s.at = socket[c].at /\ s.epoch = socket[c].epoch
                     /\ s.inbox = socket[c].inbox /\ s.up = Tail(socket[c].up)
               /\ \/ room' = room /\ bus' = bus
                  \/ \E ops \in Ops :
                        /\ Publish(ops)
                        /\ room' \in RoomType
                        /\ room'.epoch = room.epoch /\ room'.session = room.session
                        /\ room'.peers = room.peers
                        /\ State(room') = State(room) \cup ops
                        /\ \A seq \in Nat : \A op : Told(room, seq, op) => Told(room', seq, op)
                        /\ \A op \in ops : Told(room', room.checkpoint + Len(room.log) + 1, op)
                        /\ \/ /\ ops = Head(socket[c].up).ops
                              /\ room'.initialized = room.initialized
                           \/ /\ ~room.initialized /\ room'.initialized
                              /\ \E base \in Insertion :
                                    ops = {base} /\ base.session = room.session
<1> DEFINE msg  == Head(socket[c].up)
           base == [word |-> Base, by |-> c, session |-> room.session, k |-> 0]
           ops  == IF msg.kind = "initialize" THEN {base} ELSE msg.ops
           new  == Logged(room, ops)
           s    == [socket[c] EXCEPT !.up = Tail(@)]
<1>1. /\ socket[c] \in SocketType /\ socket[c].up \in Seq(Message) /\ room \in RoomType
      /\ room.session \in Nat
  BY Parts
<1>2. /\ socket[c].open /\ socket[c].up # <<>>
      /\ UNCHANGED <<sessions, purged, stalled, overheard, rare>>
  BY DEF ServeMessage
<1>3. /\ msg \in Message /\ msg.ops \in Ops /\ msg.kind \in {"initialize", "update"}
      /\ Tail(socket[c].up) \in Seq(Message)
  <2>1. msg \in Message /\ Tail(socket[c].up) \in Seq(Message)
    BY <1>1, <1>2, TailOf
  <2> QED
    BY <2>1 DEF Message
<1>4. base \in Insertion /\ base.session = room.session
  BY <1>1 DEF Insertion, Words
<1>5. ops \in Ops
  <2>1. {base} \in Ops
    BY <1>4, OpsSets
  <2> QED
    BY <1>3, <2>1
<1>6. CASE ~Active(c)
  BY <1>2, <1>6 DEF ServeMessage
<1>7. CASE Active(c)
  <2>1. /\ socket' = [socket EXCEPT ![c] = s] /\ client' = client
        /\ \/ /\ Accepted(msg)
              /\ room' = [new EXCEPT !.initialized = @ \/ msg.kind = "initialize"]
              /\ Publish(ops)
           \/ room' = room /\ bus' = bus
    <3>1. socket' = [socket EXCEPT ![c].up = Tail(@)] /\ client' = client
          /\ IF Accepted(msg)
             THEN /\ room' = [new EXCEPT !.initialized = @ \/ msg.kind = "initialize"]
                  /\ Publish(ops)
             ELSE UNCHANGED <<room, bus>>
      BY <1>7 DEF ServeMessage
    <3>2. socket' = [socket EXCEPT ![c] = s]
      BY <3>1 DEF LiveType
    <3> QED
      BY <3>1, <3>2
  <2>2. /\ s \in SocketType /\ s.open = socket[c].open /\ s.at = socket[c].at
        /\ s.epoch = socket[c].epoch /\ s.inbox = socket[c].inbox /\ s.up = Tail(socket[c].up)
        /\ s.subscribed = socket[c].subscribed
    BY <1>1, <1>3 DEF SocketType
  <2>3. CASE room' = room /\ bus' = bus
    <3> HIDE DEF s
    <3> QED
      BY <1>2, <2>1, <2>2, <2>3
  <2>4. CASE /\ Accepted(msg)
             /\ room' = [new EXCEPT !.initialized = @ \/ msg.kind = "initialize"]
             /\ Publish(ops)
    <3> DEFINE init == new.initialized \/ msg.kind = "initialize"
    <3>1. /\ new \in RoomType /\ new.epoch = room.epoch /\ new.session = room.session
          /\ new.peers = room.peers /\ new.initialized = room.initialized
          /\ State(new) = State(room) \cup ops
          /\ \A seq \in Nat : \A op : Told(room, seq, op) => Told(new, seq, op)
          /\ \A op \in ops : Told(new, room.checkpoint + Len(room.log) + 1, op)
      BY <1>1, <1>5, LoggedIs
    <3>2. \/ msg.kind # "initialize" /\ ops = msg.ops /\ init = room.initialized
          \/ ops = {base} /\ ~room.initialized /\ init
      <4>1. new.initialized \in BOOLEAN /\ room.initialized \in BOOLEAN
        BY <1>1, <3>1 DEF RoomType
      <4> HIDE DEF new
      <4> QED
        BY <2>4, <3>1, <4>1 DEF Accepted
    <3> HIDE DEF new, init
    <3>3. room' = [new EXCEPT !.initialized = init]
      BY <2>4 DEF init
    <3>4. init \in BOOLEAN
      BY DEF init
    <3>5. /\ room' \in RoomType /\ room'.initialized = init
          /\ room'.epoch = new.epoch /\ room'.session = new.session /\ room'.peers = new.peers
          /\ room'.log = new.log /\ room'.checkpoint = new.checkpoint
          /\ room'.snapshot = new.snapshot
      BY <3>1, <3>3, <3>4 DEF RoomType
    <3>6. State(room') = State(new) /\ \A seq, op : Told(room', seq, op) <=> Told(new, seq, op)
      BY <3>5 DEF State, Told
    <3> HIDE DEF s, ops, base, msg
    <3>7. \/ ops = Head(socket[c].up).ops /\ room'.initialized = room.initialized
          \/ /\ ~room.initialized /\ room'.initialized
             /\ \E b \in Insertion : ops = {b} /\ b.session = room.session
      BY <1>4, <3>2, <3>5 DEF msg
    <3>8. /\ room'.epoch = room.epoch /\ room'.session = room.session
          /\ room'.peers = room.peers
          /\ State(room') = State(room) \cup ops
          /\ \A seq \in Nat : \A op : Told(room, seq, op) => Told(room', seq, op)
          /\ \A op \in ops : Told(room', room.checkpoint + Len(room.log) + 1, op)
      BY <3>1, <3>5, <3>6
    <3> QED
      BY <1>2, <1>5, <2>1, <2>2, <2>4, <3>5, <3>7, <3>8
  <2> QED
    BY <2>1, <2>3, <2>4
<1> QED
  BY <1>6, <1>7

\* An event for every socket that hears the room on an instance.
LEMMA SendIs ==
  ASSUME LiveType, NEW i \in Instances, NEW item \in Event, Send(i, item)
  PROVE  /\ socket' \in [Clients -> SocketType]
         /\ \A c \in Clients :
               /\ socket'[c].subscribed = socket[c].subscribed
               /\ socket'[c].open = socket[c].open /\ socket'[c].at = socket[c].at
               /\ socket'[c].epoch = socket[c].epoch /\ socket'[c].up = socket[c].up
               /\ socket'[c].inbox = IF c \in HeardAt(i)
                                     THEN Append(socket[c].inbox, item) ELSE socket[c].inbox
<1>1. ASSUME NEW c \in Clients
      PROVE  /\ socket'[c] \in SocketType
             /\ socket'[c].subscribed = socket[c].subscribed
             /\ socket'[c].open = socket[c].open /\ socket'[c].at = socket[c].at
             /\ socket'[c].epoch = socket[c].epoch /\ socket'[c].up = socket[c].up
             /\ socket'[c].inbox = IF c \in HeardAt(i)
                                   THEN Append(socket[c].inbox, item) ELSE socket[c].inbox
  <2>1. socket[c] \in SocketType /\ socket[c].inbox \in Seq(Event)
    BY Parts
  <2>2. Append(socket[c].inbox, item) \in Seq(Event)
    BY <2>1, AppendTo
  <2>3. socket'[c] = IF c \in HeardAt(i)
                     THEN [socket[c] EXCEPT !.inbox = Append(@, item)] ELSE socket[c]
    BY DEF Send
  <2> QED
    BY <2>1, <2>2, <2>3 DEF SocketType
<1>2. DOMAIN socket' = Clients /\ socket' = [c \in Clients |-> socket'[c]]
  BY DEF Send
<1> QED
  BY <1>1, <1>2

\* A notification: what it announces goes to the sockets of the instance, if one of
\* them has joined its epoch, or a connection that has left has.
LEMMA NotifyIs ==
  ASSUME LiveType, NEW i \in Instances, Notify(i)
  PROVE  /\ bus[i].notices \in Seq(Notice) /\ bus[i].notices # <<>>
         /\ bus' \in [Instances -> BusType]
         /\ \A j \in Instances :
               /\ bus'[j].listener = bus[j].listener /\ bus'[j].reconnect = bus[j].reconnect
               /\ bus'[j].notices = IF j = i THEN Tail(bus[i].notices) ELSE bus[j].notices
               /\ JoinedAt(j) \cap bus[j].local \subseteq bus'[j].local
         /\ Head(bus[i].notices) \in Notice
         /\ Announced(Head(bus[i].notices)) \in Ops
         /\ overheard' \in BOOLEAN /\ (overheard => overheard')
         /\ \/ /\ Head(bus[i].notices).epoch \notin JoinedAt(i)
               /\ socket' = socket
            \/ /\ Send(i, Changed(Announced(Head(bus[i].notices))))
               /\ ~overheard' => Head(bus[i].notices).epoch = room.epoch \/ HeardAt(i) = {}
         /\ UNCHANGED <<room, client, sessions, purged, stalled, rare>>
<1> DEFINE notice == Head(bus[i].notices)
           new == bus'[i]
<1>1. bus[i] \in BusType /\ bus[i].notices \in Seq(Notice) /\ bus \in [Instances -> BusType]
  BY DEF LiveType, BusType
<1>2. bus[i].notices # <<>> /\ UNCHANGED <<room, client, sessions, purged, stalled, rare>>
  BY DEF Notify
<1>3. Tail(bus[i].notices) \in Seq(Notice) /\ notice \in Notice
  BY <1>1, <1>2, TailOf
<1>4. Announced(notice) \in Ops
  BY <1>3, AnnouncedIs
<1>5. \/ /\ bus' = [bus EXCEPT ![i].notices = Tail(@)]
         /\ Send(i, Changed(Announced(notice)))
         /\ overheard' = (overheard \/ (notice.epoch # room.epoch /\ HeardAt(i) # {}))
      \/ /\ notice.epoch \notin JoinedAt(i)
         /\ bus' = [[bus EXCEPT ![i].notices = Tail(@)] EXCEPT ![i].local = @ \ {notice.epoch}]
         /\ socket' = socket /\ overheard' = overheard
  BY DEF Notify
<1>6. overheard \in BOOLEAN
  BY DEF LiveType
<1>7. /\ new \in BusType /\ new.listener = bus[i].listener /\ new.reconnect = bus[i].reconnect
      /\ new.notices = Tail(bus[i].notices)
      /\ JoinedAt(i) \cap bus[i].local \subseteq new.local
      /\ bus' = [bus EXCEPT ![i] = new]
  <2>1. CASE bus' = [bus EXCEPT ![i].notices = Tail(@)]
    BY <1>1, <1>3, <2>1 DEF BusType
  <2>2. CASE /\ notice.epoch \notin JoinedAt(i)
             /\ bus' = [[bus EXCEPT ![i].notices = Tail(@)] EXCEPT ![i].local = @ \ {notice.epoch}]
    <3> HIDE DEF notice
    <3> QED
      BY <1>1, <1>3, <2>2 DEF BusType
  <2> QED
    BY <1>5, <2>1, <2>2
<1> HIDE DEF notice, new
<1>8. /\ bus' \in [Instances -> BusType]
      /\ \A j \in Instances :
            /\ bus'[j].listener = bus[j].listener /\ bus'[j].reconnect = bus[j].reconnect
            /\ bus'[j].notices = IF j = i THEN Tail(bus[i].notices) ELSE bus[j].notices
            /\ JoinedAt(j) \cap bus[j].local \subseteq bus'[j].local
  BY <1>1, <1>7
<1>9. /\ overheard' \in BOOLEAN /\ (overheard => overheard')
      /\ \/ notice.epoch \notin JoinedAt(i) /\ socket' = socket
         \/ /\ Send(i, Changed(Announced(notice)))
            /\ ~overheard' => notice.epoch = room.epoch \/ HeardAt(i) = {}
  <2>1. CASE /\ Send(i, Changed(Announced(notice)))
             /\ overheard' = (overheard \/ (notice.epoch # room.epoch /\ HeardAt(i) # {}))
    <3>1. overheard' \in BOOLEAN /\ (overheard => overheard')
      BY ONLY <1>6, <2>1
    <3>2. ~overheard' => notice.epoch = room.epoch \/ HeardAt(i) = {}
      BY ONLY <1>6, <2>1
    <3> QED
      BY <2>1, <3>1, <3>2
  <2>2. CASE /\ notice.epoch \notin JoinedAt(i)
             /\ socket' = socket /\ overheard' = overheard
    BY <1>6, <2>2
  <2> QED
    BY <1>5, <2>1, <2>2
<1> QED
  BY <1>1, <1>2, <1>3, <1>4, <1>8, <1>9 DEF notice

\* A listener that has been without a connection: every socket is told to read the
\* state, unless nobody is connected.
LEMMA RecoverIs ==
  ASSUME LiveType, NEW i \in Instances, Recover(i)
  PROVE  /\ bus' \in [Instances -> BusType]
         /\ \A j \in Instances : /\ bus'[j].notices = bus[j].notices
                                 /\ j # i => bus'[j] = bus[j]
         /\ \/ Send(i, Resync) /\ bus'[i].local = bus[i].local
            \/ socket' = socket /\ JoinedAt(i) = {}
         /\ UNCHANGED <<room, client, sessions, purged, stalled, overheard, rare>>
<1>1. bus \in [Instances -> BusType] /\ bus[i] \in BusType
  BY DEF LiveType
<1>2. /\ \/ /\ bus' = [[bus EXCEPT ![i].listener = "on"] EXCEPT ![i].reconnect = FALSE]
            /\ Send(i, Resync)
         \/ /\ bus' = [[[bus EXCEPT ![i].listener = "on"] EXCEPT ![i].reconnect = FALSE]
                          EXCEPT ![i].local = {}]
            /\ socket' = socket /\ JoinedAt(i) = {}
      /\ UNCHANGED <<room, client, sessions, purged, stalled, overheard, rare>>
  BY DEF Recover
<1>3. CASE /\ bus' = [[bus EXCEPT ![i].listener = "on"] EXCEPT ![i].reconnect = FALSE]
           /\ Send(i, Resync)
  BY <1>1, <1>2, <1>3 DEF BusType
<1>4. CASE /\ bus' = [[[bus EXCEPT ![i].listener = "on"] EXCEPT ![i].reconnect = FALSE]
                         EXCEPT ![i].local = {}]
           /\ socket' = socket /\ JoinedAt(i) = {}
  BY <1>1, <1>2, <1>4 DEF BusType
<1> QED
  BY <1>2, <1>3, <1>4

\* A listener is lost, or listens again without having told anybody.
LEMMA ListenerIs ==
  ASSUME LiveType, NEW i \in Instances, Relisten(i) \/ LoseListener(i)
  PROVE  /\ bus' \in [Instances -> BusType] /\ Deaf(bus'[i])
         /\ bus'[i].notices \in {bus[i].notices, <<>>} /\ bus'[i].local = bus[i].local
         /\ \A j \in Instances : j # i => bus'[j] = bus[j]
         /\ rare' \in Nat
         /\ UNCHANGED <<room, client, socket, sessions, purged, stalled, overheard>>
<1>1. bus \in [Instances -> BusType] /\ bus[i] \in BusType /\ rare \in Nat
  BY DEF LiveType
<1>2. <<>> \in Seq(Notice)
  OBVIOUS
<1>3. CASE Relisten(i)
  <2>1. /\ bus' = [bus EXCEPT ![i].listener = "on"] /\ bus[i].listener = "failed"
        /\ UNCHANGED <<room, client, socket, sessions, purged, stalled, overheard, rare>>
    BY <1>3 DEF Relisten
  <2> QED
    BY <1>1, <2>1 DEF BusType, Deaf
<1>4. CASE LoseListener(i)
  <2>1. /\ \/ bus' = [[bus EXCEPT ![i].listener = "lost"] EXCEPT ![i].notices = <<>>]
           \/ bus' = [[[bus EXCEPT ![i].listener = "failed"] EXCEPT ![i].reconnect = TRUE]
                         EXCEPT ![i].notices = <<>>]
        /\ rare' = rare + 1 /\ bus[i].listener = "on"
        /\ UNCHANGED <<room, client, socket, sessions, purged, stalled, overheard>>
    BY <1>4 DEF LoseListener, Fault
  <2>2. PICK b \in BusType :
           bus' = [bus EXCEPT ![i] = b] /\ Deaf(b) /\ b.notices = <<>> /\ b.local = bus[i].local
    <3>1. CASE bus' = [[bus EXCEPT ![i].listener = "lost"] EXCEPT ![i].notices = <<>>]
      <4> DEFINE b == [bus[i] EXCEPT !.listener = "lost", !.notices = <<>>]
      <4>1. b \in BusType /\ b.listener = "lost" /\ b.notices = <<>> /\ b.local = bus[i].local
        BY <1>1, <1>2 DEF BusType
      <4>2. bus' = [bus EXCEPT ![i] = b]
        BY <1>1, <3>1
      <4> QED
        BY <4>1, <4>2 DEF Deaf
    <3>2. CASE bus' = [[[bus EXCEPT ![i].listener = "failed"] EXCEPT ![i].reconnect = TRUE]
                           EXCEPT ![i].notices = <<>>]
      <4> DEFINE b == [bus[i] EXCEPT !.listener = "failed", !.reconnect = TRUE, !.notices = <<>>]
      <4>1. b \in BusType /\ b.listener = "failed" /\ b.notices = <<>> /\ b.local = bus[i].local
        BY <1>1, <1>2 DEF BusType
      <4>2. bus' = [bus EXCEPT ![i] = b]
        BY <1>1, <3>2
      <4> QED
        BY <4>1, <4>2 DEF Deaf
    <3> QED
      BY <2>1, <3>1, <3>2
  <2> QED
    BY <1>1, <2>1, <2>2
<1> QED
  BY <1>3, <1>4

\* A socket begins to hear the events of an instance.
LEMMA SubscribeIs ==
  ASSUME LiveType, NEW c \in Clients, Subscribe(c)
  PROVE  \E s \in SocketType :
            /\ socket' = [socket EXCEPT ![c] = s] /\ ~socket[c].subscribed
            /\ ~s.open /\ s.up = <<>> /\ s.inbox = <<>>
            /\ UNCHANGED <<room, client, bus, sessions, purged, stalled, overheard, rare>>
<1>1. PICK i \in Instances :
         /\ socket' = [socket EXCEPT ![c] = [[Closed EXCEPT !.subscribed = TRUE] EXCEPT !.at = i]]
         /\ ~socket[c].subscribed
         /\ UNCHANGED <<room, client, bus, sessions, purged, stalled, overheard, rare>>
  BY DEF Subscribe
<1> DEFINE s == [[Closed EXCEPT !.subscribed = TRUE] EXCEPT !.at = i]
<1>2. s \in SocketType /\ s.open = Closed.open /\ s.up = Closed.up /\ s.inbox = Closed.inbox
  BY ClosedType DEF SocketType
<1> HIDE DEF s
<1>3. ~s.open /\ s.up = <<>> /\ s.inbox = <<>>
  BY <1>2, ClosedType
<1>4. socket' = [socket EXCEPT ![c] = s]
  BY <1>1 DEF s
<1> QED
  BY <1>1, <1>2, <1>3, <1>4

\* A browser loses its draft to the comparison, and closes the socket.
LEMMA DropDraftIs ==
  ASSUME LiveType, NEW c \in Clients, DropDraft(c)
  PROVE  /\ socket[c].open /\ socket[c].inbox # <<>> /\ Leave(c) /\ rare' \in Nat
         /\ UNCHANGED <<bus, sessions, purged, stalled, overheard>>
         /\ \E ops \in Ops, me \in ClientType :
               /\ client' = [client EXCEPT ![c] = me]
               /\ me.doc = client[c].doc \cup ops /\ me.draft = NoDraft
               /\ me.epoch = client[c].epoch /\ me.session = client[c].session
               /\ ops = RoomState \/ ops = Head(socket[c].inbox).ops
<1> DEFINE item == Head(socket[c].inbox)
           ops  == IF item.kind = "update" THEN item.ops ELSE RoomState
           me   == [[[client[c] EXCEPT !.doc = client[c].doc \cup ops] EXCEPT !.draft = NoDraft]
                      EXCEPT !.dropped = TRUE]
<1>1. /\ socket[c].open /\ socket[c].inbox # <<>> /\ Leave(c) /\ rare' = rare + 1
      /\ UNCHANGED <<bus, sessions, purged, stalled, overheard>>
      /\ client' = [client EXCEPT ![c] = me]
  BY DEF DropDraft, Fault, LiveType
<1>2. /\ client[c] \in ClientType /\ client[c].doc \in Ops /\ socket[c].inbox \in Seq(Event)
      /\ RoomState \in Ops /\ rare \in Nat
  BY Parts DEF LiveType
<1>3. item \in Event
  BY <1>1, <1>2, TailOf
<1>4. ops \in Ops /\ (ops = RoomState \/ ops = item.ops)
  BY <1>2, <1>3 DEF Event
<1> HIDE DEF ops
<1>5. client[c].doc \cup ops \in Ops
  BY <1>2, <1>4, OpsSets
<1>6. /\ me \in ClientType /\ me.doc = client[c].doc \cup ops /\ me.draft = NoDraft
      /\ me.epoch = client[c].epoch /\ me.session = client[c].session
  BY <1>2, <1>5 DEF ClientType, Draft
<1> HIDE DEF me
<1>7. rare' \in Nat
  BY <1>1, <1>2
<1> QED
  BY <1>1, <1>4, <1>6, <1>7

\* A connection misses an event.
LEMMA LagIs ==
  ASSUME LiveType, NEW c \in Clients, Lag(c)
  PROVE  \E s \in SocketType :
            /\ socket' = [socket EXCEPT ![c] = s] /\ socket[c].inbox # <<>>
            /\ s.subscribed = socket[c].subscribed
            /\ s.open = socket[c].open /\ s.at = socket[c].at /\ s.epoch = socket[c].epoch
            /\ s.up = socket[c].up
            /\ 1 \in DOMAIN s.inbox
            /\ s.inbox[1] = Resync
            /\ \A n \in DOMAIN s.inbox :
                  \/ s.inbox[n] = Resync
                  \/ n \in DOMAIN socket[c].inbox /\ s.inbox[n] = socket[c].inbox[n]
            /\ rare' \in Nat
            /\ UNCHANGED <<room, client, bus, sessions, purged, stalled, overheard>>
<1> DEFINE new == <<Resync>> \o Tail(socket[c].inbox)
           s == [socket[c] EXCEPT !.inbox = new]
<1>1. socket[c] \in SocketType /\ socket[c].inbox \in Seq(Event) /\ rare \in Nat
  BY Parts DEF LiveType
<1>2. Len(socket[c].inbox) > 1 /\ socket' = [socket EXCEPT ![c] = s] /\ rare' = rare + 1
      /\ UNCHANGED <<room, client, bus, sessions, purged, stalled, overheard>>
  BY DEF Lag, Fault, LiveType
<1>3. Resync \in Event
  BY ItemTypes
<1>4. /\ new \in Seq(Event) /\ 1 \in DOMAIN new /\ new[1] = Resync
      /\ \A n \in DOMAIN new : \/ new[n] = Resync
                               \/ n \in DOMAIN socket[c].inbox /\ new[n] = socket[c].inbox[n]
  <2> DEFINE rest == Tail(socket[c].inbox)
  <2>1. /\ rest \in Seq(Event) /\ Len(rest) \in Nat /\ DOMAIN rest = 1..Len(rest)
        /\ \A n \in DOMAIN rest : n + 1 \in DOMAIN socket[c].inbox /\ rest[n] = socket[c].inbox[n + 1]
    BY <1>1, <1>2
  <2> HIDE DEF rest
  <2>2. /\ <<Resync>> \o rest \in Seq(Event) /\ DOMAIN (<<Resync>> \o rest) = 1..(Len(rest) + 1)
        /\ (<<Resync>> \o rest)[1] = Resync
        /\ \A n \in 2..(Len(rest) + 1) : (<<Resync>> \o rest)[n] = rest[n - 1]
    BY <1>3, <2>1
  <2>3. ASSUME NEW n \in 2..(Len(rest) + 1)
        PROVE  n \in DOMAIN socket[c].inbox /\ rest[n - 1] = socket[c].inbox[n]
    <3>1. n - 1 \in DOMAIN rest /\ (n - 1) + 1 = n
      BY <2>1
    <3> QED
      BY <2>1, <3>1
  <2>4. \A n \in 1..(Len(rest) + 1) : n = 1 \/ n \in 2..(Len(rest) + 1)
    BY <2>1
  <2>5. new = <<Resync>> \o rest /\ 1 \in 1..(Len(rest) + 1)
    BY <2>1 DEF rest
  <2> HIDE DEF new
  <2> QED
    BY <2>2, <2>3, <2>4, <2>5
<1> HIDE DEF new
<1>5. /\ s \in SocketType /\ s.open = socket[c].open /\ s.at = socket[c].at
      /\ s.epoch = socket[c].epoch /\ s.up = socket[c].up /\ s.inbox = new
      /\ s.subscribed = socket[c].subscribed
  BY <1>1, <1>4 DEF SocketType
<1> HIDE DEF s
<1>6. socket[c].inbox # <<>> /\ rare' \in Nat
  BY <1>1, <1>2
<1> QED
  BY <1>2, <1>4, <1>5, <1>6

\* A crash: the rows of the instance stay as ghosts, its connections are gone.
LEMMA CrashIs ==
  ASSUME LiveType, NEW i \in Instances, Crash(i)
  PROVE  /\ room' \in RoomType
         /\ room'.epoch = room.epoch /\ room'.session = room.session
         /\ room'.checkpoint = room.checkpoint /\ room'.log = room.log
         /\ room'.snapshot = room.snapshot /\ room'.initialized = room.initialized
         /\ room'.peers # {} => room.peers # {}
         /\ \A c \in Clients : Row(c) \in room'.peers <=> Row(c) \in room.peers /\ c \notin HeardAt(i)
         /\ socket' \in [Clients -> SocketType]
         /\ \A c \in Clients : socket'[c] = IF c \in HeardAt(i) THEN Closed ELSE socket[c]
         /\ bus' = [bus EXCEPT ![i] = Listening] /\ Listening.notices = <<>>
         /\ bus' \in [Instances -> BusType]
         /\ rare' \in Nat
         /\ UNCHANGED <<client, sessions, purged, stalled, overheard>>
<1> DEFINE Left(row) == IF row.open /\ row.client \in HeardAt(i) THEN Ghost(row.client) ELSE row
           peers == {Left(row) : row \in room.peers}
<1>1. /\ room \in RoomType /\ room.peers \in SUBSET [client : Clients, open : BOOLEAN]
      /\ socket \in [Clients -> SocketType] /\ bus \in [Instances -> BusType] /\ rare \in Nat
  BY DEF LiveType, RoomType
<1>2. /\ room' = [room EXCEPT !.peers = peers]
      /\ socket' = [c \in Clients |-> IF c \in HeardAt(i) THEN Closed ELSE socket[c]]
      /\ bus' = [bus EXCEPT ![i] = Listening]
      /\ rare' = rare + 1 /\ UNCHANGED <<client, sessions, purged, stalled, overheard>>
  BY DEF Crash, Fault
<1>3. ASSUME NEW row \in room.peers
      PROVE  /\ Left(row) \in [client : Clients, open : BOOLEAN]
             /\ \A c \in Clients : Left(row) = Row(c) <=> row = Row(c) /\ c \notin HeardAt(i)
  <2>1. row.client \in Clients /\ row.open \in BOOLEAN
        /\ row = [client |-> row.client, open |-> row.open]
    BY <1>1
  <2>2. CASE row.open /\ row.client \in HeardAt(i)
    <3>1. Left(row) = [client |-> row.client, open |-> FALSE]
      BY <2>2 DEF Ghost
    <3>2. ASSUME NEW c \in Clients PROVE Left(row) # Row(c) /\ (row = Row(c) => c \in HeardAt(i))
      <4>1. Left(row).open = FALSE /\ Row(c).open = TRUE /\ Row(c).client = c
        BY <3>1 DEF Row
      <4> QED
        BY <2>2, <4>1
    <3>3. [client |-> row.client, open |-> FALSE] \in [client : Clients, open : BOOLEAN]
      BY <2>1
    <3> HIDE DEF Left
    <3> QED
      BY <3>1, <3>2, <3>3
  <2>3. CASE ~(row.open /\ row.client \in HeardAt(i))
    <3>1. Left(row) = row
      BY <2>3
    <3>2. \A c \in Clients : Row(c).open = TRUE /\ Row(c).client = c
      BY DEF Row
    <3> HIDE DEF Left
    <3> QED
      BY <1>1, <2>3, <3>1, <3>2
  <2> QED
    BY <2>2, <2>3
<1>4. peers \in SUBSET [client : Clients, open : BOOLEAN] /\ (peers # {} => room.peers # {})
  BY <1>3
<1>5. \A c \in Clients : Row(c) \in peers <=> Row(c) \in room.peers /\ c \notin HeardAt(i)
  BY <1>3
<1> HIDE DEF peers
<1>6. /\ room' \in RoomType /\ room'.peers = peers
      /\ room'.epoch = room.epoch /\ room'.session = room.session
      /\ room'.checkpoint = room.checkpoint /\ room'.log = room.log
      /\ room'.snapshot = room.snapshot /\ room'.initialized = room.initialized
  BY <1>1, <1>2, <1>4 DEF RoomType
<1>7. socket' \in [Clients -> SocketType]
  BY <1>1, <1>2, ClosedType
<1>8. bus' \in [Instances -> BusType] /\ Listening.notices = <<>>
  <2>1. Listening \in BusType /\ Listening.notices = <<>>
    BY DEF BusType, Listening
  <2> QED
    BY <1>1, <1>2, <2>1
<1> QED
  BY <1>1, <1>2, <1>4, <1>5, <1>6, <1>7, <1>8

-----------------------------------------------------------------------------
(* Types *)

LEMMA TypeInit ==
  ASSUME Init PROVE LiveType
<1>1. {} \in Ops /\ <<>> \in Seq(Ops) /\ <<>> \in Seq(Notice)
  BY OpsSets
<1>2. room \in RoomType
  BY <1>1 DEF Init, RoomType
<1>3. client \in [Clients -> ClientType]
  BY <1>1 DEF Init, ClientType, Draft
<1>4. socket \in [Clients -> SocketType]
  BY ClosedType DEF Init
<1>5. bus \in [Instances -> BusType]
  <2>1. Listening \in BusType
    BY <1>1 DEF BusType, Listening
  <2> QED
    BY <2>1 DEF Init
<1> QED
  BY <1>2, <1>3, <1>4, <1>5 DEF Init, LiveType

LEMMA TypeStep ==
  ASSUME LiveType, [Next]_vars PROVE LiveType'
<1> DEFINE Rest == /\ sessions' \in Nat /\ purged' \in BOOLEAN /\ stalled' \in BOOLEAN
                   /\ overheard' \in BOOLEAN /\ rare' \in Nat
<1>1. /\ room \in RoomType /\ client \in [Clients -> ClientType]
      /\ socket \in [Clients -> SocketType] /\ bus \in [Instances -> BusType]
      /\ sessions \in Nat /\ purged \in BOOLEAN /\ stalled \in BOOLEAN /\ overheard \in BOOLEAN
      /\ rare \in Nat
  BY DEF LiveType
<1>2. ASSUME room' \in RoomType, client' \in [Clients -> ClientType],
             socket' \in [Clients -> SocketType], bus' \in [Instances -> BusType], Rest
      PROVE  LiveType'
  BY <1>2 DEF LiveType
<1>3. ASSUME NEW c \in Clients, Close(c)
      PROVE  /\ room' \in RoomType /\ client' \in [Clients -> ClientType]
             /\ socket' \in [Clients -> SocketType]
  BY <1>1, <1>3, LeaveIs DEF Close
<1>4. ASSUME NEW peers \in SUBSET [client : Clients, open : BOOLEAN],
             room' = [room EXCEPT !.peers = peers]
      PROVE  room' \in RoomType
  BY <1>1, <1>4 DEF RoomType
<1>5. ASSUME NEW c \in Clients, Connect(c) PROVE LiveType'
  <2>1. PICK me \in ClientType, s \in SocketType :
           /\ room' = Joined(c)
           /\ client' = [client EXCEPT ![c] = me] /\ socket' = [socket EXCEPT ![c] = s]
           /\ sessions' = IF room.peers = {} THEN sessions + 1 ELSE sessions
           /\ bus' \in [Instances -> BusType] /\ overheard' \in BOOLEAN
           /\ UNCHANGED <<purged, stalled, rare>>
    BY <1>5, ConnectIs
  <2>2. room' \in RoomType
    BY <2>1, JoinedIs
  <2> QED
    BY <1>1, <1>2, <2>1, <2>2
<1>6. ASSUME NEW c \in Clients, Edit(c) PROVE LiveType'
  <2>1. PICK me \in ClientType, s \in SocketType, op \in Insertion :
            /\ client' = [client EXCEPT ![c] = me] /\ socket' = [socket EXCEPT ![c] = s]
            /\ me.epoch = client[c].epoch /\ me.session = client[c].session
            /\ op.word # Base /\ op.session = client[c].session
            /\ s.subscribed = socket[c].subscribed
            /\ s.open = socket[c].open /\ s.at = socket[c].at /\ s.epoch = socket[c].epoch
            /\ s.inbox = socket[c].inbox
            /\ \/ s.up = socket[c].up
               \/ socket[c].open /\ s.up = Append(socket[c].up, Changed({op}))
            /\ \/ /\ client[c].doc = {} /\ me.doc = {}
                  /\ (client[c].draft # NoDraft => client[c].draft[Base] <= 1) => me.draft[Base] <= 1
               \/ /\ client[c].doc # {} /\ me.doc = client[c].doc \cup {op}
                  /\ me.draft = client[c].draft
            /\ UNCHANGED <<room, bus, sessions, purged, stalled, overheard, rare>>
    BY ONLY LiveType, c \in Clients, <1>6, EditIs
  <2> QED
    BY <1>1, <1>2, <2>1
<1>7. ASSUME NEW c \in Clients, ServeEvent(c) PROVE LiveType'
  <2>1. /\ socket[c].inbox # <<>> /\ UNCHANGED <<bus, sessions, purged, stalled, overheard, rare>>
        /\ Close(c) \/ \E ops \in Ops : Receive(c, ops)
    BY <1>7, ServeEventIs
  <2>2. CASE Close(c)
    BY <1>1, <1>2, <1>3, <2>1, <2>2
  <2>3. ASSUME NEW ops \in Ops, Receive(c, ops) PROVE LiveType'
    <3>1. PICK own \in Ops, me \in ClientType, s \in SocketType :
             /\ client' = [client EXCEPT ![c] = me] /\ socket' = [socket EXCEPT ![c] = s]
             /\ room' = room
             /\ me.doc = client[c].doc \cup ops \cup own
             /\ me.epoch = client[c].epoch /\ me.session = client[c].session
             /\ me.draft \in {client[c].draft, NoDraft}
             /\ own = {} \/ own = Reapplied(c, client[c], client[c].doc \cup ops)
             /\ own # {} => client[c].draft # NoDraft
             /\ s.subscribed = socket[c].subscribed
             /\ s.open = socket[c].open /\ s.at = socket[c].at /\ s.epoch = socket[c].epoch
             /\ s.inbox = Tail(socket[c].inbox)
             /\ s.up = socket[c].up \/ s.up = Append(socket[c].up, Changed(own))
      <4> HIDE DEF Rest
      <4> QED
        BY ONLY LiveType, c \in Clients, ops \in Ops, <2>1, <2>3, ReceiveIs
    <3> QED
      BY <1>1, <1>2, <2>1, <3>1
  <2> QED
    BY <2>1, <2>2, <2>3
<1>8. ASSUME NEW c \in Clients, ServeMessage(c) PROVE LiveType'
  <2>1. /\ UNCHANGED <<sessions, purged, stalled, overheard, rare>>
        /\ \/ Close(c) /\ bus' = bus
           \/ /\ client' = client
              /\ \E s \in SocketType : socket' = [socket EXCEPT ![c] = s]
              /\ \/ room' = room /\ bus' = bus
                 \/ \E ops \in Ops : Publish(ops) /\ room' \in RoomType
    BY <1>8, ServeMessageIs
  <2>2. CASE Close(c) /\ bus' = bus
    BY <1>1, <1>2, <1>3, <2>1, <2>2
  <2>3. CASE /\ client' = client
             /\ \E s \in SocketType : socket' = [socket EXCEPT ![c] = s]
             /\ \/ room' = room /\ bus' = bus
                \/ \E ops \in Ops : Publish(ops) /\ room' \in RoomType
    <3>1. socket' \in [Clients -> SocketType]
      BY <1>1, <2>3
    <3>2. room' \in RoomType /\ bus' \in [Instances -> BusType]
      BY <1>1, <2>3, PublishIs
    <3> QED
      BY <1>1, <1>2, <2>1, <2>3, <3>1, <3>2
  <2> QED
    BY <2>1, <2>2, <2>3
<1>9. ASSUME NEW c \in Clients, CheckLease(c) PROVE LiveType'
  BY <1>1, <1>2, <1>3, <1>9 DEF CheckLease
<1>10. ASSUME NEW c \in Clients, LoseConnection(c) PROVE LiveType'
  <2>1. /\ \/ Close(c)
           \/ socket' = [socket EXCEPT ![c] = Closed] /\ UNCHANGED <<room, client>>
        /\ rare' = rare + 1 /\ UNCHANGED <<bus, sessions, purged, stalled, overheard>>
    BY <1>10 DEF LoseConnection, Fault
  <2>2. rare' \in Nat
    BY <1>1, <2>1
  <2> QED
    BY <1>1, <1>2, <1>3, <2>1, <2>2, ClosedType
<1>11. ASSUME NEW c \in Clients, LeaseEnds(c) PROVE LiveType'
  <2>1. room.peers \ {Ghost(c)} \in SUBSET [client : Clients, open : BOOLEAN]
    BY <1>1 DEF RoomType
  <2>2. room' = [room EXCEPT !.peers = room.peers \ {Ghost(c)}]
        /\ UNCHANGED <<client, socket, bus, sessions, purged, stalled, overheard, rare>>
    BY <1>11 DEF LeaseEnds
  <2> QED
    BY <1>1, <1>2, <1>4, <2>1, <2>2
<1>12. ASSUME NEW c \in Clients, Stall(c) PROVE LiveType'
  <2>1. room.peers \ {Row(c)} \in SUBSET [client : Clients, open : BOOLEAN]
    BY <1>1 DEF RoomType
  <2>2. room' = [room EXCEPT !.peers = room.peers \ {Row(c)}]
        /\ rare' = rare + 1 /\ stalled' = TRUE
        /\ UNCHANGED <<client, socket, bus, sessions, purged, overheard>>
    BY <1>12 DEF Stall, Fault
  <2>3. room' \in RoomType
    BY <1>4, <2>1, <2>2
  <2>4. Rest
    BY <1>1, <2>2
  <2> QED
    BY <1>1, <1>2, <2>2, <2>3, <2>4
<1>13. ASSUME NEW c \in Clients, Lag(c) PROVE LiveType'
  <2>1. PICK s \in SocketType :
           /\ socket' = [socket EXCEPT ![c] = s] /\ rare' \in Nat
           /\ UNCHANGED <<room, client, bus, sessions, purged, stalled, overheard>>
    BY <1>13, LagIs
  <2> QED
    BY <1>1, <1>2, <2>1
<1>14. ASSUME NEW i \in Instances, Notify(i) PROVE LiveType'
  <2>1. /\ bus' \in [Instances -> BusType] /\ Announced(Head(bus[i].notices)) \in Ops
        /\ socket' = socket \/ Send(i, Changed(Announced(Head(bus[i].notices))))
        /\ overheard' \in BOOLEAN
        /\ UNCHANGED <<room, client, sessions, purged, stalled, rare>>
    BY <1>14, NotifyIs
  <2>2. socket' \in [Clients -> SocketType]
    BY <1>1, <2>1, SendIs, ItemTypes
  <2> QED
    BY <1>1, <1>2, <2>1, <2>2
<1>15. ASSUME NEW i \in Instances, Recover(i) PROVE LiveType'
  <2>1. /\ bus' \in [Instances -> BusType] /\ (Send(i, Resync) \/ socket' = socket)
        /\ UNCHANGED <<room, client, sessions, purged, stalled, overheard, rare>>
    BY <1>15, RecoverIs
  <2>2. socket' \in [Clients -> SocketType]
    BY <1>1, <2>1, SendIs, ItemTypes
  <2> QED
    BY <1>1, <1>2, <2>1, <2>2
<1>16. ASSUME NEW i \in Instances, Crash(i) PROVE LiveType'
  BY <1>1, <1>2, <1>16, CrashIs
<1>17. ASSUME NEW i \in Instances, Relisten(i) \/ LoseListener(i) PROVE LiveType'
  BY <1>1, <1>2, <1>17, ListenerIs
<1>18. ASSUME Purge PROVE LiveType'
  <2>1. {} \in Ops /\ <<>> \in Seq(Ops)
    BY OpsSets
  <2>2. room' \in RoomType
    BY <1>1, <1>18, <2>1 DEF Purge, RoomType
  <2> QED
    BY <1>1, <1>2, <1>18, <2>2 DEF Purge
<1>19. ASSUME UNCHANGED vars PROVE LiveType'
  BY <1>1, <1>2, <1>19 DEF vars
<1>20. ASSUME NEW c \in Clients, Subscribe(c) PROVE LiveType'
  <2>1. PICK s \in SocketType :
           /\ socket' = [socket EXCEPT ![c] = s]
           /\ UNCHANGED <<room, client, bus, sessions, purged, stalled, overheard, rare>>
    BY <1>20, SubscribeIs
  <2> QED
    BY <1>1, <1>2, <2>1
<1>21. ASSUME NEW c \in Clients, DropDraft(c) PROVE LiveType'
  <2>1. /\ Leave(c) /\ rare' \in Nat /\ UNCHANGED <<bus, sessions, purged, stalled, overheard>>
        /\ \E me \in ClientType : client' = [client EXCEPT ![c] = me]
    BY <1>21, DropDraftIs
  <2>2. room' \in RoomType /\ socket' \in [Clients -> SocketType]
    BY <2>1, LeaveIs
  <2> QED
    BY <1>1, <1>2, <2>1, <2>2
<1>22. Next \/ UNCHANGED vars
  OBVIOUS
<1> QED
  BY ONLY <1>5, <1>6, <1>7, <1>8, <1>9, <1>10, <1>11, <1>12, <1>13, <1>14, <1>15, <1>16,
          <1>17, <1>18, <1>19, <1>20, <1>21, <1>22 DEF Next

\* A connection stays attached to its instance until it ends: local entries go only
\* when nobody is connected in their epoch.
LEMMA AttachedStep ==
  ASSUME LiveType, Attached, [Next]_vars PROVE Attached'
<1> SUFFICES ASSUME NEW d \in Clients, socket'[d].open
             PROVE  socket'[d].subscribed /\ socket'[d].epoch \in bus'[socket'[d].at].local
  BY DEF Attached
<1> DEFINE Goal == socket'[d].subscribed /\ socket'[d].epoch \in bus'[socket'[d].at].local
<1>1. /\ socket \in [Clients -> SocketType] /\ bus \in [Instances -> BusType]
      /\ socket[d].at \in Instances
  BY Parts DEF LiveType
<1>2. socket[d].open => socket[d].subscribed /\ socket[d].epoch \in bus[socket[d].at].local
  BY DEF Attached
<1>3. ASSUME socket'[d] = socket[d],
             socket[d].epoch \in bus[socket[d].at].local => socket[d].epoch \in bus'[socket[d].at].local
      PROVE  Goal
  BY <1>2, <1>3
<1>4. ASSUME NEW c \in Clients, NEW s, socket' = [socket EXCEPT ![c] = s],
             \/ ~s.open
             \/ /\ s.subscribed = socket[c].subscribed /\ s.open = socket[c].open
                /\ s.at = socket[c].at /\ s.epoch = socket[c].epoch,
             \A i \in Instances : bus'[i].local = bus[i].local
      PROVE  Goal
  <2>1. socket'[d] = IF c = d THEN s ELSE socket[d]
    BY <1>1, <1>4
  <2> QED
    BY <1>1, <1>2, <1>4, <2>1
<1>5. ASSUME NEW c \in Clients, Leave(c), bus' = bus PROVE Goal
  BY <1>4, <1>5, LeaveIs, ClosedType
<1>6. ASSUME socket' = socket, bus' = bus PROVE Goal
  BY <1>3, <1>6
<1>7. ASSUME NEW c \in Clients, Subscribe(c) PROVE Goal
  <2>1. PICK s \in SocketType : socket' = [socket EXCEPT ![c] = s] /\ ~s.open /\ bus' = bus
    BY <1>7, SubscribeIs
  <2> QED
    BY <1>4, <2>1
<1>8. ASSUME NEW c \in Clients, Connect(c) PROVE Goal
  <2>1. PICK s \in SocketType :
           /\ socket' = [socket EXCEPT ![c] = s]
           /\ s.subscribed /\ s.at = socket[c].at /\ s.epoch = Joined(c).epoch
           /\ Joined(c).epoch \in bus'[socket[c].at].local
           /\ \A i \in Instances : bus[i].local \subseteq bus'[i].local
    BY <1>8, ConnectIs
  <2>2. socket'[d] = IF c = d THEN s ELSE socket[d]
    BY <1>1, <2>1
  <2> QED
    BY <1>1, <1>2, <2>1, <2>2
<1>9. ASSUME NEW c \in Clients, Edit(c) PROVE Goal
  <2>1. PICK s \in SocketType :
           /\ socket' = [socket EXCEPT ![c] = s] /\ bus' = bus
           /\ s.subscribed = socket[c].subscribed /\ s.open = socket[c].open
           /\ s.at = socket[c].at /\ s.epoch = socket[c].epoch
    BY ONLY LiveType, c \in Clients, <1>9, EditIs
  <2> QED
    BY <1>4, <2>1
<1>10. ASSUME NEW c \in Clients, ServeEvent(c) PROVE Goal
  <2>1. /\ socket[c].inbox # <<>> /\ bus' = bus
        /\ Close(c) \/ \E ops \in Ops : Receive(c, ops)
    BY <1>10, ServeEventIs
  <2>2. CASE Close(c)
    BY <1>5, <2>1, <2>2 DEF Close
  <2>3. ASSUME NEW ops \in Ops, Receive(c, ops) PROVE Goal
    <3>1. PICK s \in SocketType :
             /\ socket' = [socket EXCEPT ![c] = s]
             /\ s.subscribed = socket[c].subscribed /\ s.open = socket[c].open
             /\ s.at = socket[c].at /\ s.epoch = socket[c].epoch
      BY ONLY LiveType, c \in Clients, ops \in Ops, <2>1, <2>3, ReceiveIs
    <3> QED
      BY <1>4, <2>1, <3>1
  <2> QED
    BY <2>1, <2>2, <2>3
<1>11. ASSUME NEW c \in Clients, ServeMessage(c) PROVE Goal
  <2>1. \/ Close(c) /\ bus' = bus
        \/ /\ \E s \in SocketType :
                 /\ socket' = [socket EXCEPT ![c] = s]
                 /\ s.subscribed = socket[c].subscribed /\ s.open = socket[c].open
                 /\ s.at = socket[c].at /\ s.epoch = socket[c].epoch
           /\ bus' = bus \/ \E ops \in Ops : Publish(ops)
    BY <1>11, ServeMessageIs
  <2>2. CASE Close(c) /\ bus' = bus
    BY <1>5, <2>2 DEF Close
  <2>3. CASE bus' = bus \/ \E ops \in Ops : Publish(ops)
    <3>1. \A i \in Instances : bus'[i].local = bus[i].local
      BY <2>3, PublishIs
    <3> QED
      BY <1>4, <1>5, <2>1, <3>1 DEF Close
  <2> QED
    BY <2>1, <2>2, <2>3
<1>12. ASSUME NEW c \in Clients, CheckLease(c) PROVE Goal
  BY <1>5, <1>12 DEF CheckLease, Close
<1>13. ASSUME NEW c \in Clients, LoseConnection(c) PROVE Goal
  <2>1. Close(c) \/ socket' = [socket EXCEPT ![c] = Closed]
    BY <1>13 DEF LoseConnection
  <2>2. bus' = bus
    BY <1>13 DEF LoseConnection
  <2> QED
    BY <1>4, <1>5, <2>1, <2>2, ClosedType DEF Close
<1>14. ASSUME NEW c \in Clients, DropDraft(c) PROVE Goal
  BY <1>5, <1>14, DropDraftIs
<1>15. ASSUME NEW c \in Clients, LeaseEnds(c) \/ Stall(c) PROVE Goal
  BY <1>6, <1>15 DEF LeaseEnds, Stall
<1>16. ASSUME NEW c \in Clients, Lag(c) PROVE Goal
  <2>1. PICK s \in SocketType :
           /\ socket' = [socket EXCEPT ![c] = s] /\ bus' = bus
           /\ s.subscribed = socket[c].subscribed /\ s.open = socket[c].open
           /\ s.at = socket[c].at /\ s.epoch = socket[c].epoch
    BY <1>16, LagIs
  <2> QED
    BY <1>4, <2>1
<1>17. ASSUME NEW i \in Instances, socket' = socket \/ (\E item \in Event : Send(i, item))
       PROVE  /\ socket'[d].subscribed = socket[d].subscribed /\ socket'[d].open = socket[d].open
              /\ socket'[d].at = socket[d].at /\ socket'[d].epoch = socket[d].epoch
  BY <1>17, SendIs
<1>18. ASSUME socket[d].open
       PROVE  \A i \in Instances : socket[d].at = i => d \in HeardAt(i) /\ socket[d].epoch \in JoinedAt(i)
  BY <1>2, <1>18 DEF HeardAt, JoinedAt
<1>19. ASSUME NEW i \in Instances, Notify(i) PROVE Goal
  <2>1. /\ \A j \in Instances : JoinedAt(j) \cap bus[j].local \subseteq bus'[j].local
        /\ socket' = socket \/ Send(i, Changed(Announced(Head(bus[i].notices))))
        /\ Announced(Head(bus[i].notices)) \in Ops
    BY <1>19, NotifyIs
  <2>2. Changed(Announced(Head(bus[i].notices))) \in Event
    BY <2>1, ItemTypes
  <2>3. /\ socket'[d].subscribed = socket[d].subscribed /\ socket'[d].open = socket[d].open
        /\ socket'[d].at = socket[d].at /\ socket'[d].epoch = socket[d].epoch
    BY <1>17, <2>1, <2>2
  <2> QED
    BY <1>1, <1>2, <1>18, <2>1, <2>3
<1>20. ASSUME NEW i \in Instances, Recover(i) PROVE Goal
  <2>1. /\ \A j \in Instances : j # i => bus'[j] = bus[j]
        /\ \/ Send(i, Resync) /\ bus'[i].local = bus[i].local
           \/ socket' = socket /\ JoinedAt(i) = {}
    BY <1>20, RecoverIs
  <2>2. /\ socket'[d].subscribed = socket[d].subscribed /\ socket'[d].open = socket[d].open
        /\ socket'[d].at = socket[d].at /\ socket'[d].epoch = socket[d].epoch
    BY <1>17, <2>1, ItemTypes
  <2> QED
    BY <1>1, <1>2, <1>18, <2>1, <2>2
<1>21. ASSUME NEW i \in Instances, Relisten(i) \/ LoseListener(i) PROVE Goal
  <2>1. /\ socket' = socket /\ bus'[i].local = bus[i].local
        /\ \A j \in Instances : j # i => bus'[j] = bus[j]
    BY <1>21, ListenerIs
  <2> QED
    BY <1>1, <1>2, <2>1
<1>22. ASSUME NEW i \in Instances, Crash(i) PROVE Goal
  <2>1. /\ socket'[d] = IF d \in HeardAt(i) THEN Closed ELSE socket[d]
        /\ bus' = [bus EXCEPT ![i] = Listening]
    BY <1>22, CrashIs
  <2>2. d \notin HeardAt(i) /\ socket'[d] = socket[d]
    BY <2>1, ClosedType
  <2>3. socket[d].at # i
    BY <1>18, <2>2
  <2> QED
    BY <1>1, <1>2, <2>1, <2>2, <2>3
<1>23. ASSUME Purge PROVE Goal
  BY <1>6, <1>23 DEF Purge
<1>24. ASSUME UNCHANGED vars PROVE Goal
  BY <1>6, <1>24 DEF vars
<1>25. Next \/ UNCHANGED vars
  OBVIOUS
<1> HIDE DEF Goal
<1>26. Goal
  BY ONLY <1>7, <1>8, <1>9, <1>10, <1>11, <1>12, <1>13, <1>14, <1>15, <1>16, <1>19, <1>20,
          <1>21, <1>22, <1>23, <1>24, <1>25 DEF Next
<1> QED
  BY <1>26 DEF Goal

-----------------------------------------------------------------------------
(* Updates reach every peer *)

\* Nothing is lost from a queue.
Kept(s, s1) == \A n \in DOMAIN s : \E m \in DOMAIN s1 : s1[m] = s[n]

LEMMA KeptQueues ==
  /\ \A s : Kept(s, s)
  /\ \A T : \A s \in Seq(T) : \A x \in T : Kept(s, Append(s, x))
<1>1. \A s : Kept(s, s)
  BY DEF Kept
<1>2. ASSUME NEW T, NEW s \in Seq(T), NEW x \in T PROVE Kept(s, Append(s, x))
  BY AppendTo DEF Kept
<1> QED
  BY <1>1, <1>2

\* A browser that has or will get every update still does: an event it takes off its
\* queue is in its replica, a notification its instance takes off is an event in its
\* queue, and an update new in the room is announced.
LEMMA CaughtStays ==
  ASSUME NEW d \in Clients, NEW i \in Instances, LiveType, Caught(d),
         socket[d].at = i, socket'[d].at = i,
         Deaf(bus[i]) => Deaf(bus'[i]),
         room'.epoch = room.epoch,
         client[d].doc \subseteq client'[d].doc,
         \A n \in DOMAIN socket[d].inbox :
            \/ \E m \in DOMAIN socket'[d].inbox : socket'[d].inbox[m] = socket[d].inbox[n]
            \/ /\ socket[d].inbox[n].kind = "update"
               /\ socket[d].inbox[n].ops \subseteq client'[d].doc
            \/ State(room') \subseteq client'[d].doc,
         \A n \in DOMAIN bus[i].notices :
            \/ \E m \in DOMAIN bus'[i].notices : bus'[i].notices[m] = bus[i].notices[n]
            \/ \A op \in State(room) :
                  Covers(bus[i].notices[n], op) =>
                     \E m \in DOMAIN socket'[d].inbox : op \in socket'[d].inbox[m].ops,
         \A op \in State(room') :
            \/ op \in State(room)
            \/ \E m \in DOMAIN bus'[i].notices :
                  /\ bus'[i].notices[m].epoch = room'.epoch
                  /\ \/ op \in bus'[i].notices[m].ops
                     \/ /\ bus'[i].notices[m].ops = {}
                        /\ Told(room', bus'[i].notices[m].seq, op)
            \/ Deaf(bus'[i]),
         \A seq \in Nat : \A op : Told(room, seq, op) => Told(room', seq, op)
  PROVE  Caught(d)'
<1>1. State(room) = RoomState /\ State(room') = RoomState'
  BY DEF State, Folded, RoomState
<1>2. Caught(d)' <=>
         \/ Deaf(bus'[i])
         \/ \E n \in DOMAIN socket'[d].inbox : socket'[d].inbox[n].kind \in {"first", "resync"}
         \/ \A op \in State(room') :
               \/ op \in client'[d].doc
               \/ \E n \in DOMAIN socket'[d].inbox : op \in socket'[d].inbox[n].ops
               \/ \E n \in DOMAIN bus'[i].notices :
                     /\ bus'[i].notices[n].epoch = room'.epoch
                     /\ \/ op \in bus'[i].notices[n].ops
                        \/ bus'[i].notices[n].ops = {} /\ Told(room', bus'[i].notices[n].seq, op)
  BY <1>1 DEF Caught, Covers
<1>3. \/ Deaf(bus[i])
      \/ \E n \in DOMAIN socket[d].inbox : socket[d].inbox[n].kind \in {"first", "resync"}
      \/ \A op \in State(room) :
            \/ op \in client[d].doc
            \/ \E n \in DOMAIN socket[d].inbox : op \in socket[d].inbox[n].ops
            \/ \E n \in DOMAIN bus[i].notices : Covers(bus[i].notices[n], op)
  BY <1>1 DEF Caught
<1>4. CASE Deaf(bus[i]) \/ Deaf(bus'[i]) \/ State(room') \subseteq client'[d].doc
  BY <1>2, <1>4
<1>5. CASE \E n \in DOMAIN socket[d].inbox : socket[d].inbox[n].kind \in {"first", "resync"}
  BY <1>2, <1>4, <1>5
<1>6. ASSUME ~Deaf(bus[i]), ~Deaf(bus'[i]), ~(State(room') \subseteq client'[d].doc),
             \A op \in State(room) :
                \/ op \in client[d].doc
                \/ \E n \in DOMAIN socket[d].inbox : op \in socket[d].inbox[n].ops
                \/ \E n \in DOMAIN bus[i].notices : Covers(bus[i].notices[n], op)
      PROVE  Caught(d)'
  <2> SUFFICES ASSUME NEW op \in State(room')
               PROVE  \/ op \in client'[d].doc
                      \/ \E n \in DOMAIN socket'[d].inbox : op \in socket'[d].inbox[n].ops
                      \/ \E n \in DOMAIN bus'[i].notices :
                            /\ bus'[i].notices[n].epoch = room'.epoch
                            /\ \/ op \in bus'[i].notices[n].ops
                               \/ /\ bus'[i].notices[n].ops = {}
                                  /\ Told(room', bus'[i].notices[n].seq, op)
    BY <1>2
  <2>1. CASE op \notin State(room)
    BY <1>6, <2>1
  <2>2. CASE op \in State(room) /\ op \in client[d].doc
    BY <2>2
  <2>3. ASSUME NEW n \in DOMAIN socket[d].inbox, op \in socket[d].inbox[n].ops
        PROVE  \/ op \in client'[d].doc
               \/ \E m \in DOMAIN socket'[d].inbox : op \in socket'[d].inbox[m].ops
    BY <1>6, <2>3
  <2>4. ASSUME op \in State(room),
               NEW n \in DOMAIN bus[i].notices, Covers(bus[i].notices[n], op)
        PROVE  \/ \E m \in DOMAIN socket'[d].inbox : op \in socket'[d].inbox[m].ops
               \/ \E m \in DOMAIN bus'[i].notices :
                     /\ bus'[i].notices[m].epoch = room'.epoch
                     /\ \/ op \in bus'[i].notices[m].ops
                        \/ bus'[i].notices[m].ops = {} /\ Told(room', bus'[i].notices[m].seq, op)
    <3>1. bus[i].notices[n] \in Notice
      BY DEF LiveType, BusType
    <3>2. bus[i].notices[n].seq \in Nat
      BY <3>1 DEF Notice
    <3>3. /\ bus[i].notices[n].epoch = room'.epoch
          /\ \/ op \in bus[i].notices[n].ops
             \/ bus[i].notices[n].ops = {} /\ Told(room', bus[i].notices[n].seq, op)
      BY <2>4, <3>2 DEF Covers
    <3>4. CASE \E m \in DOMAIN bus'[i].notices : bus'[i].notices[m] = bus[i].notices[n]
      BY <3>3, <3>4
    <3>5. CASE \A o \in State(room) : Covers(bus[i].notices[n], o) =>
                     \E m \in DOMAIN socket'[d].inbox : o \in socket'[d].inbox[m].ops
      BY <2>4, <3>5
    <3> QED
      BY <3>4, <3>5
  <2> QED
    BY <1>6, <2>1, <2>2, <2>3, <2>4
<1> QED
  BY <1>3, <1>4, <1>5, <1>6

\* Where the log and the session stay and nothing of the browser's is taken away.
LEMMA QuietReach ==
  ASSUME LiveType, Reach, NEW d \in Clients, socket'[d].open, Active(d)',
         room'.epoch = room.epoch, room'.log = room.log,
         room'.checkpoint = room.checkpoint, room'.snapshot = room.snapshot,
         Row(d) \in room'.peers => Row(d) \in room.peers,
         socket'[d].open = socket[d].open, socket'[d].at = socket[d].at,
         socket'[d].epoch = socket[d].epoch,
         Kept(socket[d].inbox, socket'[d].inbox),
         Deaf(bus[socket[d].at]) => Deaf(bus'[socket[d].at]),
         Kept(bus[socket[d].at].notices, bus'[socket[d].at].notices),
         client[d].doc \subseteq client'[d].doc
  PROVE  Caught(d)'
<1>1. Active(d) /\ Caught(d)
  BY DEF Active, Reach
<1>2. State(room') = State(room) /\ \A seq, op : Told(room, seq, op) => Told(room', seq, op)
  BY DEF State, Told
<1>3. socket[d].at \in Instances
  BY Parts
<1>4. /\ \A n \in DOMAIN socket[d].inbox : \E m \in DOMAIN socket'[d].inbox :
            socket'[d].inbox[m] = socket[d].inbox[n]
      /\ \A n \in DOMAIN bus[socket[d].at].notices : \E m \in DOMAIN bus'[socket[d].at].notices :
            bus'[socket[d].at].notices[m] = bus[socket[d].at].notices[n]
  BY DEF Kept
<1> QED
  BY <1>1, <1>2, <1>3, <1>4, CaughtStays

LEMMA ReachStep ==
  ASSUME LiveType, Attached, Reach, [Next]_vars PROVE Reach'
<1> SUFFICES ASSUME NEW d \in Clients, socket'[d].open, Active(d)' PROVE Caught(d)'
  BY DEF Reach
<1> DEFINE Goal == Caught(d)'
           SameLog == /\ room'.epoch = room.epoch /\ room'.log = room.log
                      /\ room'.checkpoint = room.checkpoint /\ room'.snapshot = room.snapshot
                      /\ Row(d) \in room'.peers => Row(d) \in room.peers
<1>1. /\ socket \in [Clients -> SocketType] /\ bus \in [Instances -> BusType]
      /\ client \in [Clients -> ClientType] /\ socket[d].at \in Instances
      /\ socket[d].inbox \in Seq(Event) /\ room \in RoomType
  BY Parts DEF LiveType
<1>2. Kept(socket[d].inbox, socket[d].inbox)
      /\ Kept(bus[socket[d].at].notices, bus[socket[d].at].notices)
  BY KeptQueues
<1>3. Row(d) \in room'.peers /\ room'.epoch = socket'[d].epoch
  BY DEF Active
<1>4. ASSUME SameLog, socket'[d] = socket[d], bus' = bus, client'[d].doc = client[d].doc
      PROVE  Goal
  BY <1>2, <1>4, QuietReach
<1>5. ASSUME NEW c \in Clients, Leave(c), bus' = bus, d # c => client'[d] = client[d] PROVE Goal
  <2>1. /\ room'.peers = room.peers \ {Row(c)}
        /\ room'.epoch = room.epoch /\ room'.log = room.log
        /\ room'.checkpoint = room.checkpoint /\ room'.snapshot = room.snapshot
        /\ socket' = [socket EXCEPT ![c] = Closed]
    BY <1>5, LeaveIs
  <2>2. c # d
    BY <1>1, <2>1, ClosedType
  <2>3. socket'[d] = socket[d]
    BY <1>1, <2>1, <2>2
  <2> QED
    BY <1>4, <1>5, <2>1, <2>2, <2>3
<1>6. ASSUME NEW c \in Clients, Connect(c) PROVE Goal
  <2>1. PICK me \in ClientType, s \in SocketType :
            /\ room' = Joined(c)
            /\ client' = [client EXCEPT ![c] = me] /\ socket' = [socket EXCEPT ![c] = s]
            /\ 1 \in DOMAIN s.inbox /\ s.inbox[1] = First
            /\ \A i \in Instances : /\ bus'[i].listener = bus[i].listener
                                    /\ bus'[i].reconnect = bus[i].reconnect
                                    /\ bus'[i].notices = bus[i].notices
    BY <1>6, ConnectIs
  <2>2. CASE c = d
    <3>1. socket'[d] = s
      BY <1>1, <2>1, <2>2
    <3>2. 1 \in DOMAIN socket'[d].inbox /\ socket'[d].inbox[1].kind = "first"
      BY <2>1, <3>1, ItemTypes
    <3> QED
      BY <3>2 DEF Caught
  <2>3. CASE c # d
    <3>1. socket'[d] = socket[d] /\ client'[d] = client[d]
      BY <1>1, <2>1, <2>3
    <3>2. Row(d) # Row(c)
      <4>1. Row(d).client = d /\ Row(c).client = c
        BY DEF Row
      <4> QED
        BY <2>3, <4>1
    <3>3. room.peers # {}
      BY <1>3, <2>1, <3>2, JoinedIs
    <3>4. SameLog
      BY <2>1, <3>2, <3>3, JoinedIs
    <3>5. /\ bus'[socket[d].at].notices = bus[socket[d].at].notices
          /\ Deaf(bus[socket[d].at]) => Deaf(bus'[socket[d].at])
      BY <1>1, <2>1 DEF Deaf
    <3> QED
      BY <1>2, <3>1, <3>4, <3>5, QuietReach
  <2> QED
    BY <2>2, <2>3
<1>7. ASSUME NEW c \in Clients, Edit(c) PROVE Goal
  <2>1. PICK me \in ClientType, s \in SocketType, op \in Insertion :
            /\ client' = [client EXCEPT ![c] = me] /\ socket' = [socket EXCEPT ![c] = s]
            /\ me.epoch = client[c].epoch /\ me.session = client[c].session
            /\ op.word # Base /\ op.session = client[c].session
            /\ s.subscribed = socket[c].subscribed
            /\ s.open = socket[c].open /\ s.at = socket[c].at /\ s.epoch = socket[c].epoch
            /\ s.inbox = socket[c].inbox
            /\ \/ s.up = socket[c].up
               \/ socket[c].open /\ s.up = Append(socket[c].up, Changed({op}))
            /\ \/ /\ client[c].doc = {} /\ me.doc = {}
                  /\ (client[c].draft # NoDraft => client[c].draft[Base] <= 1) => me.draft[Base] <= 1
               \/ /\ client[c].doc # {} /\ me.doc = client[c].doc \cup {op}
                  /\ me.draft = client[c].draft
            /\ UNCHANGED <<room, bus, sessions, purged, stalled, overheard, rare>>
    BY ONLY LiveType, c \in Clients, <1>7, EditIs
  <2>2. CASE c = d
    <3>1. socket'[d] = s /\ client'[d] = me
      BY <1>1, <2>1, <2>2
    <3> QED
      BY <1>2, <2>1, <2>2, <3>1, QuietReach
  <2>3. CASE c # d
    <3>1. socket'[d] = socket[d] /\ client'[d] = client[d]
      BY <1>1, <2>1, <2>3
    <3> QED
      BY <1>4, <2>1, <3>1
  <2> QED
    BY <2>2, <2>3
<1>8. ASSUME NEW c \in Clients, ServeEvent(c) PROVE Goal
  <2>1. /\ socket[c].inbox # <<>> /\ bus' = bus
        /\ \/ Close(c)
           \/ \E ops \in Ops :
                 /\ Receive(c, ops)
                 /\ \/ ops = RoomState
                    \/ Head(socket[c].inbox).kind = "update" /\ ops = Head(socket[c].inbox).ops
    BY <1>8, ServeEventIs
  <2>2. CASE Close(c)
    BY <1>5, <2>1, <2>2 DEF Close
  <2>3. ASSUME NEW ops \in Ops, Receive(c, ops),
               \/ ops = RoomState
               \/ Head(socket[c].inbox).kind = "update" /\ ops = Head(socket[c].inbox).ops
        PROVE  Goal
    <3>1. PICK own \in Ops, me \in ClientType, s \in SocketType :
             /\ client' = [client EXCEPT ![c] = me] /\ socket' = [socket EXCEPT ![c] = s]
             /\ room' = room
             /\ me.doc = client[c].doc \cup ops \cup own
             /\ me.epoch = client[c].epoch /\ me.session = client[c].session
             /\ me.draft \in {client[c].draft, NoDraft}
             /\ own = {} \/ own = Reapplied(c, client[c], client[c].doc \cup ops)
             /\ own # {} => client[c].draft # NoDraft
             /\ s.subscribed = socket[c].subscribed
             /\ s.open = socket[c].open /\ s.at = socket[c].at /\ s.epoch = socket[c].epoch
             /\ s.inbox = Tail(socket[c].inbox)
             /\ s.up = socket[c].up \/ s.up = Append(socket[c].up, Changed(own))
      BY ONLY LiveType, c \in Clients, ops \in Ops, <2>1, <2>3, ReceiveIs
    <3>2. CASE c # d
      <4>1. socket'[d] = socket[d] /\ client'[d] = client[d]
        BY <1>1, <3>1, <3>2
      <4> QED
        BY <1>4, <2>1, <3>1, <4>1
    <3>3. CASE c = d
      <4>1. socket'[d] = s /\ client'[d] = me
        BY <1>1, <3>1, <3>3
      <4>2. Active(d) /\ Caught(d)
        BY <1>3, <3>1, <3>3, <4>1 DEF Active, Reach
      <4>3. ops \subseteq client'[d].doc /\ client[d].doc \subseteq client'[d].doc
        BY <3>1, <3>3, <4>1
      <4>4. State(room') = RoomState /\ State(room') = State(room)
            /\ (\A seq, op : Told(room, seq, op) => Told(room', seq, op))
        <5>1. State(room) = RoomState
          BY DEF State, Folded, RoomState
        <5> QED
          BY <3>1, <5>1
      <4>5. ASSUME NEW n \in DOMAIN socket[d].inbox
            PROVE  \/ \E m \in DOMAIN socket'[d].inbox : socket'[d].inbox[m] = socket[d].inbox[n]
                   \/ /\ socket[d].inbox[n].kind = "update"
                      /\ socket[d].inbox[n].ops \subseteq client'[d].doc
                   \/ State(room') \subseteq client'[d].doc
        <5>1. n = 1 \/ (n - 1 \in DOMAIN Tail(socket[d].inbox)
                        /\ socket[d].inbox[n] = Tail(socket[d].inbox)[n - 1])
          BY <1>1, <2>1, <3>3, TailOf
        <5>2. Head(socket[d].inbox) = socket[d].inbox[1]
          BY <1>1, <2>1, <3>3, TailOf
        <5>3. socket'[d].inbox = Tail(socket[d].inbox)
          BY <3>1, <3>3, <4>1
        <5>4. CASE n = 1
          BY <2>3, <3>3, <4>3, <4>4, <5>2, <5>4
        <5>5. CASE n # 1
          BY <5>1, <5>3, <5>5
        <5> QED
          BY <5>4, <5>5
      <4>6. \A n \in DOMAIN bus[socket[d].at].notices : \E m \in DOMAIN bus'[socket[d].at].notices :
               bus'[socket[d].at].notices[m] = bus[socket[d].at].notices[n]
        BY <2>1
      <4>7. /\ socket'[d].at = socket[d].at /\ room'.epoch = room.epoch
            /\ Deaf(bus[socket[d].at]) => Deaf(bus'[socket[d].at])
        BY <2>1, <3>1, <3>3, <4>1
      <4> HIDE DEF Goal
      <4>8. Caught(d)'
        BY ONLY LiveType, d \in Clients, <1>1, <4>2, <4>3, <4>4, <4>5, <4>6, <4>7, CaughtStays
      <4> QED
        BY <4>8 DEF Goal
    <3> QED
      BY <3>2, <3>3
  <2> QED
    BY <2>1, <2>2, <2>3
<1>9. ASSUME NEW c \in Clients, ServeMessage(c) PROVE Goal
  <2>1. \/ Close(c) /\ bus' = bus
        \/ /\ client' = client
           /\ \E s \in SocketType :
                 /\ socket' = [socket EXCEPT ![c] = s]
                 /\ s.open = socket[c].open /\ s.at = socket[c].at /\ s.epoch = socket[c].epoch
                 /\ s.inbox = socket[c].inbox
           /\ \/ room' = room /\ bus' = bus
              \/ \E ops \in Ops :
                    /\ Publish(ops)
                    /\ room' \in RoomType
                    /\ room'.epoch = room.epoch
                    /\ room'.peers = room.peers
                    /\ State(room') = State(room) \cup ops
                    /\ \A seq \in Nat : \A op : Told(room, seq, op) => Told(room', seq, op)
                    /\ \A op \in ops : Told(room', room.checkpoint + Len(room.log) + 1, op)
    BY <1>9, ServeMessageIs
  <2>2. CASE Close(c) /\ bus' = bus
    BY <1>5, <2>2 DEF Close
  <2>3. ASSUME client' = client, NEW s \in SocketType, socket' = [socket EXCEPT ![c] = s],
               s.open = socket[c].open, s.at = socket[c].at, s.epoch = socket[c].epoch,
               s.inbox = socket[c].inbox
        PROVE  /\ socket'[d].open = socket[d].open /\ socket'[d].at = socket[d].at
               /\ socket'[d].epoch = socket[d].epoch /\ socket'[d].inbox = socket[d].inbox
               /\ client'[d].doc = client[d].doc
    <3>1. socket'[d] = IF c = d THEN s ELSE socket[d]
      BY <1>1, <2>3
    <3> QED
      BY <2>3, <3>1
  <2>4. ASSUME socket'[d].open = socket[d].open, socket'[d].at = socket[d].at,
               socket'[d].epoch = socket[d].epoch, socket'[d].inbox = socket[d].inbox,
               client'[d].doc = client[d].doc, room' = room, bus' = bus
        PROVE  Goal
    BY <1>2, <2>4, QuietReach
  <2>5. ASSUME socket'[d].open = socket[d].open, socket'[d].at = socket[d].at,
               socket'[d].epoch = socket[d].epoch, socket'[d].inbox = socket[d].inbox,
               client'[d].doc = client[d].doc,
               NEW ops \in Ops, Publish(ops), room'.epoch = room.epoch, room'.peers = room.peers,
               State(room') = State(room) \cup ops,
               \A seq \in Nat : \A op : Told(room, seq, op) => Told(room', seq, op),
               \A op \in ops : Told(room', room.checkpoint + Len(room.log) + 1, op)
        PROVE  Goal
    <3> DEFINE i == socket[d].at
    <3>1. PICK notice \in Notice :
             /\ notice.epoch = room.epoch
             /\ notice.seq = room.checkpoint + Len(room.log) + 1
             /\ notice.ops \in {ops, {}}
             /\ \A j \in Instances :
                   /\ bus'[j].listener = bus[j].listener /\ bus'[j].reconnect = bus[j].reconnect
                   /\ bus'[j].notices = IF bus[j].listener = "on"
                                        THEN Append(bus[j].notices, notice) ELSE bus[j].notices
      BY <2>5, PublishIs
    <3>2. Active(d) /\ Caught(d)
      BY <1>3, <2>5 DEF Active, Reach
    <3>3. bus[i].notices \in Seq(Notice)
      BY <1>1 DEF BusType
    <3>4. Kept(bus[i].notices, bus'[i].notices)
      BY <1>1, <3>1, <3>3, KeptQueues
    <3>5. ASSUME ~Deaf(bus[i])
          PROVE  \E m \in DOMAIN bus'[i].notices : bus'[i].notices[m] = notice
      <4>1. bus'[i].notices = Append(bus[i].notices, notice)
        BY <1>1, <3>1, <3>5 DEF Deaf
      <4> QED
        BY <3>3, <4>1, AppendTo
    <3>6. ASSUME NEW op \in State(room')
          PROVE  \/ op \in State(room)
                 \/ \E m \in DOMAIN bus'[i].notices :
                       /\ bus'[i].notices[m].epoch = room'.epoch
                       /\ \/ op \in bus'[i].notices[m].ops
                          \/ /\ bus'[i].notices[m].ops = {}
                             /\ Told(room', bus'[i].notices[m].seq, op)
                 \/ Deaf(bus'[i])
      <4>1. CASE op \in State(room) \/ Deaf(bus'[i])
        BY <4>1
      <4>2. CASE op \in ops /\ ~Deaf(bus'[i])
        <5>1. ~Deaf(bus[i])
          BY <1>1, <3>1, <4>2 DEF Deaf
        <5>2. PICK m \in DOMAIN bus'[i].notices : bus'[i].notices[m] = notice
          BY <3>5, <5>1
        <5>3. Told(room', notice.seq, op)
          BY <2>5, <3>1, <4>2
        <5> QED
          BY <2>5, <3>1, <4>2, <5>2, <5>3
      <4> QED
        BY <2>5, <4>1, <4>2
    <3>7. \A n \in DOMAIN socket[d].inbox : \E m \in DOMAIN socket'[d].inbox :
             socket'[d].inbox[m] = socket[d].inbox[n]
      BY <2>5
    <3>8. \A n \in DOMAIN bus[i].notices : \E m \in DOMAIN bus'[i].notices :
             bus'[i].notices[m] = bus[i].notices[n]
      BY <3>4 DEF Kept
    <3>9. /\ i \in Instances /\ socket[d].at = i /\ socket'[d].at = i
          /\ Deaf(bus[i]) => Deaf(bus'[i])
          /\ client[d].doc \subseteq client'[d].doc /\ room'.epoch = room.epoch
      BY <1>1, <2>5, <3>1 DEF Deaf
    <3>10. \A seq \in Nat : \A op : Told(room, seq, op) => Told(room', seq, op)
      BY <2>5
    <3> HIDE DEF Goal, i
    <3>11. Caught(d)'
      BY ONLY LiveType, d \in Clients, <3>2, <3>6, <3>7, <3>8, <3>9, <3>10, CaughtStays
    <3> QED
      BY <3>11 DEF Goal
  <2> HIDE DEF Goal
  <2> QED
    BY ONLY <2>1, <2>2, <2>3, <2>4, <2>5
<1>10. ASSUME NEW c \in Clients, CheckLease(c) PROVE Goal
  BY <1>5, <1>10 DEF CheckLease, Close
<1>11. ASSUME NEW c \in Clients, LoseConnection(c) PROVE Goal
  <2>1. \/ Close(c)
        \/ socket' = [socket EXCEPT ![c] = Closed] /\ UNCHANGED <<room, client>>
    BY <1>11 DEF LoseConnection
  <2>2. bus' = bus
    BY <1>11 DEF LoseConnection
  <2>3. CASE Close(c)
    BY <1>5, <2>2, <2>3 DEF Close
  <2>4. CASE socket' = [socket EXCEPT ![c] = Closed] /\ UNCHANGED <<room, client>>
    <3>1. c # d
      BY <1>1, <2>4, ClosedType
    <3>2. socket'[d] = socket[d]
      BY <1>1, <2>4, <3>1
    <3> QED
      BY <1>4, <2>2, <2>4, <3>2
  <2> QED
    BY <2>1, <2>3, <2>4
<1>12. ASSUME NEW c \in Clients, LeaseEnds(c) PROVE Goal
  <2>1. SameLog /\ UNCHANGED <<client, socket, bus>>
    BY <1>1, <1>12 DEF LeaseEnds, RoomType
  <2> QED
    BY <1>4, <2>1
<1>13. ASSUME NEW c \in Clients, Stall(c) PROVE Goal
  <2>1. SameLog /\ UNCHANGED <<client, socket, bus>>
    BY <1>1, <1>13 DEF Stall, RoomType
  <2> QED
    BY <1>4, <2>1
<1>14. ASSUME NEW c \in Clients, Lag(c) PROVE Goal
  <2>1. PICK s \in SocketType :
           /\ socket' = [socket EXCEPT ![c] = s]
           /\ 1 \in DOMAIN s.inbox /\ s.inbox[1] = Resync
           /\ UNCHANGED <<room, client, bus, sessions, purged, stalled, overheard>>
    BY <1>14, LagIs
  <2>2. CASE c = d
    <3>1. socket'[d] = s
      BY <1>1, <2>1, <2>2
    <3>2. 1 \in DOMAIN socket'[d].inbox /\ socket'[d].inbox[1].kind = "resync"
      BY <2>1, <3>1, ItemTypes
    <3> QED
      BY <3>2 DEF Caught
  <2>3. CASE c # d
    <3>1. socket'[d] = socket[d]
      BY <1>1, <2>1, <2>3
    <3> QED
      BY <1>4, <2>1, <3>1
  <2> QED
    BY <2>2, <2>3
<1>15. ASSUME NEW i \in Instances, Notify(i) PROVE Goal
  <2> DEFINE notice == Head(bus[i].notices)
             item == Changed(Announced(notice))
  <2>1. /\ bus[i].notices \in Seq(Notice) /\ bus[i].notices # <<>>
        /\ \A j \in Instances :
              /\ bus'[j].listener = bus[j].listener /\ bus'[j].reconnect = bus[j].reconnect
              /\ bus'[j].notices = IF j = i THEN Tail(bus[i].notices) ELSE bus[j].notices
        /\ notice \in Notice
        /\ Announced(notice) \in Ops
        /\ \/ /\ notice.epoch \notin JoinedAt(i)
              /\ socket' = socket
           \/ Send(i, item)
        /\ UNCHANGED <<room, client, sessions, purged, stalled, rare>>
    BY <1>15, NotifyIs
  <2>2. item \in Event /\ item.ops = Announced(notice)
    BY <2>1, ItemTypes
  <2>3. notice = bus[i].notices[1]
        /\ \A n \in DOMAIN bus[i].notices :
              n = 1 \/ (n - 1 \in DOMAIN Tail(bus[i].notices)
                        /\ bus[i].notices[n] = Tail(bus[i].notices)[n - 1])
    BY <2>1, TailOf
  <2>4. \A op \in RoomState : Covers(notice, op) => op \in Announced(notice)
    BY <2>1, AnnouncedIs
  <2>5. RoomState = State(room)
    BY DEF RoomState, State, Folded
  <2> HIDE DEF item, notice
  <2>6. /\ socket'[d].open = socket[d].open /\ socket'[d].at = socket[d].at
        /\ socket'[d].epoch = socket[d].epoch
        /\ Kept(socket[d].inbox, socket'[d].inbox)
        /\ Send(i, item) /\ d \in HeardAt(i) =>
              socket'[d].inbox = Append(socket[d].inbox, item)
    <3>1. CASE socket' = socket
      <4>1. Send(i, item) /\ d \in HeardAt(i) =>
               socket'[d].inbox = Append(socket[d].inbox, item)
        BY <2>2, SendIs
      <4> QED
        BY <1>2, <3>1, <4>1
    <3>2. CASE Send(i, item)
      <4>1. /\ socket'[d].open = socket[d].open /\ socket'[d].at = socket[d].at
            /\ socket'[d].epoch = socket[d].epoch
            /\ socket'[d].inbox = IF d \in HeardAt(i)
                                  THEN Append(socket[d].inbox, item) ELSE socket[d].inbox
        BY ONLY LiveType, i \in Instances, d \in Clients, <2>2, <3>2, SendIs
      <4>2. Kept(socket[d].inbox, Append(socket[d].inbox, item))
        BY <1>1, <2>2, KeptQueues
      <4> QED
        BY <1>2, <4>1, <4>2
    <3> QED
      BY <2>1, <3>1, <3>2
  <2>7. Active(d) /\ Caught(d) /\ socket[d].open
    BY <1>3, <2>1, <2>6 DEF Active, Reach
  <2>8. CASE socket[d].at # i
    <3>1. /\ SameLog /\ client'[d].doc = client[d].doc
          /\ Deaf(bus[socket[d].at]) => Deaf(bus'[socket[d].at])
          /\ bus'[socket[d].at].notices = bus[socket[d].at].notices
      BY <1>1, <2>1, <2>8 DEF Deaf
    <3>2. Kept(bus[socket[d].at].notices, bus'[socket[d].at].notices)
      BY <1>2, <3>1
    <3>3. socket'[d].open = socket[d].open /\ socket'[d].at = socket[d].at
          /\ socket'[d].epoch = socket[d].epoch /\ Kept(socket[d].inbox, socket'[d].inbox)
      BY <2>6
    <3> HIDE DEF Goal
    <3>4. Caught(d)'
      BY ONLY LiveType, Reach, d \in Clients, socket'[d].open, Active(d)',
              <3>1, <3>2, <3>3, QuietReach DEF SameLog
    <3> QED
      BY <3>4 DEF Goal
  <2>9. CASE socket[d].at = i
    <3>1. ASSUME NEW n \in DOMAIN bus[i].notices
          PROVE  \/ \E m \in DOMAIN bus'[i].notices : bus'[i].notices[m] = bus[i].notices[n]
                 \/ \A op \in State(room) :
                       Covers(bus[i].notices[n], op) =>
                          \E m \in DOMAIN socket'[d].inbox : op \in socket'[d].inbox[m].ops
      <4>1. CASE n # 1
        BY <2>1, <2>3, <4>1
      <4>2. CASE n = 1
        <5> SUFFICES ASSUME NEW op \in State(room), Covers(notice, op)
                     PROVE  \E m \in DOMAIN socket'[d].inbox : op \in socket'[d].inbox[m].ops
          BY <2>3, <4>2
        <5>1. op \in item.ops
          BY <2>2, <2>4, <2>5
        <5>2. d \in HeardAt(i) /\ notice.epoch \in JoinedAt(i)
          BY <2>7, <2>9 DEF Attached, HeardAt, JoinedAt, Active, Covers
        <5>3. socket'[d].inbox = Append(socket[d].inbox, item)
          BY <2>1, <2>6, <2>7, <2>9, <5>2
        <5>4. \E m \in DOMAIN socket'[d].inbox : socket'[d].inbox[m] = item
          BY <1>1, <2>2, <5>3, AppendTo
        <5> QED
          BY <5>1, <5>4
      <4> QED
        BY <4>1, <4>2
    <3>2. \A n \in DOMAIN socket[d].inbox : \E m \in DOMAIN socket'[d].inbox :
             socket'[d].inbox[m] = socket[d].inbox[n]
      BY <2>6 DEF Kept
    <3>3. /\ State(room') = State(room) /\ room'.epoch = room.epoch
          /\ \A seq, op : Told(room, seq, op) => Told(room', seq, op)
          /\ client[d].doc \subseteq client'[d].doc
          /\ Deaf(bus[i]) => Deaf(bus'[i])
          /\ socket[d].at = i /\ socket'[d].at = i
      BY <2>1, <2>6, <2>9 DEF Deaf
    <3> HIDE DEF Goal
    <3>4. Caught(d)'
      BY ONLY LiveType, d \in Clients, i \in Instances, <2>7, <3>1, <3>2, <3>3, CaughtStays
    <3> QED
      BY <3>4 DEF Goal
  <2> QED
    BY <2>8, <2>9
<1>16. ASSUME NEW i \in Instances, Recover(i) PROVE Goal
  <2>1. /\ \A j \in Instances : j # i => bus'[j] = bus[j]
        /\ Send(i, Resync) \/ (socket' = socket /\ JoinedAt(i) = {})
        /\ UNCHANGED <<room, client, sessions, purged, stalled, overheard, rare>>
    BY <1>16, RecoverIs
  <2>2. Resync \in Event /\ Resync.kind = "resync"
    BY ItemTypes
  <2>3. /\ socket'[d].open = socket[d].open /\ socket'[d].at = socket[d].at
        /\ socket'[d].epoch = socket[d].epoch
        /\ Send(i, Resync) => socket'[d].inbox = IF d \in HeardAt(i)
                                                 THEN Append(socket[d].inbox, Resync)
                                                 ELSE socket[d].inbox
    BY ONLY LiveType, i \in Instances, d \in Clients, <2>1, <2>2, SendIs
  <2>4. CASE socket[d].at = i
    <3>1. socket'[d].inbox = Append(socket[d].inbox, Resync)
      <4>1. d \in HeardAt(i) /\ socket[d].epoch \in JoinedAt(i)
        BY <2>3, <2>4 DEF Attached, HeardAt, JoinedAt
      <4> QED
        BY <2>1, <2>3, <4>1
    <3>2. \E m \in DOMAIN socket'[d].inbox : socket'[d].inbox[m] = Resync
      BY <1>1, <2>2, <3>1, AppendTo
    <3> QED
      BY <2>2, <3>2 DEF Caught
  <2>5. CASE socket[d].at # i
    <3>1. /\ SameLog /\ client'[d].doc = client[d].doc
          /\ bus'[socket[d].at] = bus[socket[d].at]
      BY <1>1, <2>1, <2>5
    <3>2. socket'[d].inbox = socket[d].inbox
      BY <2>1, <2>3, <2>5 DEF HeardAt
    <3> QED
      BY <1>2, <2>3, <3>1, <3>2, QuietReach
  <2> QED
    BY <2>4, <2>5
<1>17. ASSUME NEW i \in Instances, Crash(i) PROVE Goal
  <2>1. /\ room'.epoch = room.epoch /\ room'.log = room.log
        /\ room'.checkpoint = room.checkpoint /\ room'.snapshot = room.snapshot
        /\ Row(d) \in room'.peers => Row(d) \in room.peers
        /\ socket'[d] = IF d \in HeardAt(i) THEN Closed ELSE socket[d]
        /\ bus' = [bus EXCEPT ![i] = Listening]
        /\ client' = client
    BY <1>17, CrashIs
  <2>2. d \notin HeardAt(i) /\ socket'[d] = socket[d]
    BY <2>1, ClosedType
  <2>3. socket[d].at # i
    BY <2>2 DEF Attached, HeardAt
  <2>4. bus'[socket[d].at] = bus[socket[d].at]
    BY <1>1, <2>1, <2>3
  <2> QED
    BY <1>2, <2>1, <2>2, <2>4, QuietReach
<1>18. ASSUME NEW i \in Instances, Relisten(i) \/ LoseListener(i) PROVE Goal
  <2>1. /\ Deaf(bus'[i]) /\ \A j \in Instances : j # i => bus'[j] = bus[j]
        /\ UNCHANGED <<room, client, socket>>
    BY <1>18, ListenerIs
  <2>2. CASE socket[d].at = i
    <3>1. Deaf(bus'[socket'[d].at])
      BY <1>1, <2>1, <2>2
    <3> QED
      BY <3>1 DEF Caught
  <2>3. CASE socket[d].at # i
    <3>1. bus'[socket[d].at] = bus[socket[d].at]
      BY <1>1, <2>1, <2>3
    <3> QED
      BY <1>2, <2>1, <3>1, QuietReach
  <2> QED
    BY <2>2, <2>3
<1>19. ASSUME Purge PROVE Goal
  <2>1. room'.peers = {}
    BY <1>1, <1>19 DEF Purge, RoomType
  <2> QED
    BY <1>3, <2>1
<1>20. ASSUME UNCHANGED vars PROVE Goal
  <2>1. SameLog /\ UNCHANGED <<client, socket, bus>>
    BY <1>20 DEF vars
  <2> QED
    BY <1>4, <2>1
<1>21. ASSUME NEW c \in Clients, Subscribe(c) PROVE Goal
  <2>1. PICK s \in SocketType :
           /\ socket' = [socket EXCEPT ![c] = s] /\ ~s.open
           /\ UNCHANGED <<room, client, bus, sessions, purged, stalled, overheard, rare>>
    BY <1>21, SubscribeIs
  <2>2. socket'[d] = socket[d]
    BY <1>1, <2>1
  <2> QED
    BY <1>4, <2>1, <2>2
<1>22. ASSUME NEW c \in Clients, DropDraft(c) PROVE Goal
  <2>1. /\ Leave(c) /\ bus' = bus
        /\ \E me \in ClientType : client' = [client EXCEPT ![c] = me]
    BY <1>22, DropDraftIs
  <2> QED
    BY <1>1, <1>5, <2>1
<1>23. Next \/ UNCHANGED vars
  OBVIOUS
<1> HIDE DEF Goal
<1>24. Goal
  BY ONLY <1>6, <1>7, <1>8, <1>9, <1>10, <1>11, <1>12, <1>13, <1>14, <1>15, <1>16,
          <1>17, <1>18, <1>19, <1>20, <1>21, <1>22, <1>23 DEF Next
<1> QED
  BY <1>24 DEF Goal

-----------------------------------------------------------------------------
(* One initial text *)

LEMMA RightSets ==
  ASSUME NEW S, NEW I, NEW b
  PROVE  /\ Right({}, S, I, b)
         /\ \A A, B : Right(A, S, I, b) /\ Right(B, S, I, b) => Right(A \cup B, S, I, b)
         /\ AllRight(<<>>, S, I, b)
         /\ \A e : NoticesRight(<<>>, e, S, I, b)
  BY DEF Right, AllRight, NoticesRight

\* Queues of such sets: their first item, their rest, and one item more.
LEMMA RightQueues ==
  ASSUME NEW S, NEW I, NEW b, NEW T, NEW s \in Seq(T)
  PROVE  /\ AllRight(s, S, I, b) /\ s # <<>> =>
               Right(Head(s).ops, S, I, b) /\ AllRight(Tail(s), S, I, b)
         /\ \A x \in T : AllRight(s, S, I, b) /\ Right(x.ops, S, I, b) => AllRight(Append(s, x), S, I, b)
         /\ \A e : NoticesRight(s, e, S, I, b) /\ s # <<>> =>
               /\ Head(s).epoch = e => Right(Head(s).ops, S, I, b)
               /\ NoticesRight(Tail(s), e, S, I, b)
         /\ \A x \in T : \A e : NoticesRight(s, e, S, I, b) /\ Right(x.ops, S, I, b) =>
               NoticesRight(Append(s, x), e, S, I, b)
<1>1. ASSUME s # <<>>
      PROVE  /\ Head(s) = s[1] /\ 1 \in DOMAIN s
             /\ \A n \in DOMAIN Tail(s) : n + 1 \in DOMAIN s /\ Tail(s)[n] = s[n + 1]
  BY <1>1, TailOf
<1>2. ASSUME NEW x \in T
      PROVE  \A n \in DOMAIN Append(s, x) :
                Append(s, x)[n] = x \/ (n \in DOMAIN s /\ Append(s, x)[n] = s[n])
  BY AppendTo
<1>3. ASSUME AllRight(s, S, I, b), s # <<>>
      PROVE  Right(Head(s).ops, S, I, b) /\ AllRight(Tail(s), S, I, b)
  BY <1>1, <1>3 DEF AllRight
<1>4. ASSUME NEW x \in T, AllRight(s, S, I, b), Right(x.ops, S, I, b)
      PROVE  AllRight(Append(s, x), S, I, b)
  BY <1>2, <1>4 DEF AllRight
<1>5. ASSUME NEW e, NoticesRight(s, e, S, I, b), s # <<>>
      PROVE  /\ Head(s).epoch = e => Right(Head(s).ops, S, I, b)
             /\ NoticesRight(Tail(s), e, S, I, b)
  BY <1>1, <1>5 DEF NoticesRight
<1>6. ASSUME NEW x \in T, NEW e, NoticesRight(s, e, S, I, b), Right(x.ops, S, I, b)
      PROVE  NoticesRight(Append(s, x), e, S, I, b)
  BY <1>2, <1>6 DEF NoticesRight
<1> QED
  BY <1>3, <1>4, <1>5, <1>6

\* As long as a session has no initial text, any may become it.
LEMMA RightTurns ==
  ASSUME NEW S, NEW b, NEW b1
  PROVE  /\ \A A : Right(A, S, FALSE, b) => Right(A, S, TRUE, b1)
         /\ \A s : AllRight(s, S, FALSE, b) => AllRight(s, S, TRUE, b1)
         /\ \A s, e : NoticesRight(s, e, S, FALSE, b) => NoticesRight(s, e, S, TRUE, b1)
         /\ \A me : OwnText(me, S, FALSE, b) => OwnText(me, S, TRUE, b1)
<1>1. \A A : Right(A, S, FALSE, b) => Right(A, S, TRUE, b1)
  BY DEF Right, Fine
<1> QED
  BY <1>1 DEF AllRight, NoticesRight, OwnText

\* While the session goes on, connections only end, and browsers stay in theirs.
LEMMA SameSession ==
  ASSUME LiveType, InSession,
         room'.epoch = room.epoch, room'.session = room.session, sessions' = sessions,
         room'.peers # {} => room.peers # {},
         \A c \in Clients :
            /\ client'[c].epoch = client[c].epoch /\ client'[c].session = client[c].session
            /\ client'[c].epoch = 0 => client'[c].doc = {}
            /\ socket'[c].open =>
                  socket[c].open /\ socket'[c].epoch = socket[c].epoch /\ Row(c) \in room'.peers
            /\ ~socket'[c].open =>
                  Row(c) \notin room'.peers /\ socket'[c].up = <<>>,
         \A i \in Instances : \A n \in DOMAIN bus'[i].notices : bus'[i].notices[n].epoch <= room.epoch
  PROVE  InSession'
<1>1. ASSUME NEW c \in Clients
      PROVE  /\ socket'[c].open =>
                   /\ Row(c) \in room'.peers
                   /\ socket'[c].epoch = room'.epoch
                   /\ client'[c].epoch = room'.epoch /\ client'[c].session = room'.session
             /\ ~socket'[c].open =>
                   Row(c) \notin room'.peers /\ socket'[c].up = <<>>
             /\ client'[c].epoch <= room'.epoch
             /\ client'[c].epoch = 0 => client'[c].doc = {}
             /\ client'[c].epoch # 0 /\ client'[c].epoch = room'.epoch => client'[c].session = room'.session
             /\ client'[c].epoch # 0 => client'[c].session <= sessions'
  BY DEF InSession
<1>2. /\ room'.peers # {} => room'.epoch # 0
      /\ room'.session <= sessions'
      /\ \A i \in Instances : \A n \in DOMAIN bus'[i].notices : bus'[i].notices[n].epoch <= room'.epoch
  BY DEF InSession
<1> QED
  BY <1>1, <1>2 DEF InSession

\* What InSession and OneText say of one browser.
LEMMA OrderlyParts ==
  ASSUME LiveType, InSession, NEW b, OneText(b), NEW c \in Clients
  PROVE  /\ socket[c].open <=> Row(c) \in room.peers
         /\ socket[c].open => /\ Active(c) /\ room.epoch # 0
                              /\ client[c].epoch = room.epoch /\ client[c].session = room.session
         /\ ~socket[c].open => socket[c].up = <<>>
         /\ AllRight(socket[c].inbox, room.session, room.initialized, b)
         /\ AllRight(socket[c].up, room.session, room.initialized, b)
         /\ OwnText(client[c], room.session, room.initialized, b)
         /\ Right(State(room), room.session, room.initialized, b)
<1>1. /\ socket[c].open <=> Row(c) \in room.peers
      /\ socket[c].open => /\ socket[c].epoch = room.epoch /\ room.epoch # 0
                           /\ client[c].epoch = room.epoch /\ client[c].session = room.session
      /\ ~socket[c].open => socket[c].up = <<>>
  BY DEF InSession
<1>2. RoomState = State(room)
  BY DEF RoomState, State, Folded
<1>3. /\ AllRight(socket[c].inbox, room.session, room.initialized, b)
      /\ AllRight(socket[c].up, room.session, room.initialized, b)
      /\ OwnText(client[c], room.session, room.initialized, b)
      /\ Right(State(room), room.session, room.initialized, b)
  BY <1>2 DEF OneText
<1> QED
  BY <1>1, <1>3 DEF Active

\* Where the room and the replicas stay, only the queues have to be looked at.
LEMMA QuietText ==
  ASSUME LiveType, InSession, NEW b, OneText(b),
         room'.session = room.session, room'.epoch = room.epoch,
         room'.initialized = room.initialized,
         State(room') = State(room), client' = client,
         \A c \in Clients :
            /\ AllRight(socket'[c].inbox, room.session, room.initialized, b)
            /\ AllRight(socket'[c].up, room.session, room.initialized, b),
         \A i \in Instances :
            NoticesRight(bus'[i].notices, room.epoch, room.session, room.initialized, b)
  PROVE  OneText(b)'
<1>1. State(room) = RoomState /\ State(room') = RoomState'
  BY DEF State, Folded, RoomState
<1> QED
  BY <1>1 DEF OneText

\* A browser joins the session that goes on, or nobody is in one and it begins the next,
\* of which no replica, no notice and no waiting event knows anything.
LEMMA ConnectOrderly ==
  ASSUME LiveType, Orderly, NEW c \in Clients, Connect(c), ~overheard' PROVE Orderly'
<1> DEFINE r == Joined(c)
<1>1. PICK b \in Insertion : OneText(b)
  BY DEF Orderly
<1>2. /\ InSession /\ client \in [Clients -> ClientType] /\ socket \in [Clients -> SocketType]
      /\ bus \in [Instances -> BusType]
      /\ sessions \in Nat /\ room.session \in Nat /\ room.epoch \in Nat
  BY DEF Orderly, LiveType, RoomType
<1>3. PICK me \in ClientType, s \in SocketType :
            /\ ~socket[c].open /\ room' = Joined(c)
            /\ client' = [client EXCEPT ![c] = me] /\ socket' = [socket EXCEPT ![c] = s]
            /\ sessions' = IF room.peers = {} THEN sessions + 1 ELSE sessions
            /\ s.subscribed /\ s.open /\ s.at = socket[c].at /\ s.epoch = Joined(c).epoch
            /\ 1 \in DOMAIN s.inbox /\ s.inbox[1] = First
            /\ \A n \in DOMAIN s.inbox :
                  \/ s.inbox[n] = First
                  \/ \E m \in DOMAIN socket[c].inbox : s.inbox[n] = socket[c].inbox[m]
            /\ s.up = <<Asked>> \/ s.up = <<Changed(me.doc)>>
            /\ me.epoch = Joined(c).epoch
            /\ \/ /\ client[c].epoch \notin {0, Joined(c).epoch}
                  /\ me.doc = {} /\ me.draft = Carried(client[c])
                  /\ me.session = Joined(c).session
               \/ /\ client[c].epoch \in {0, Joined(c).epoch}
                  /\ me.doc = client[c].doc /\ me.draft = client[c].draft
                  /\ me.session = IF client[c].epoch = 0 THEN Joined(c).session
                                  ELSE client[c].session
            /\ bus' \in [Instances -> BusType]
            /\ Joined(c).epoch \in bus'[socket[c].at].local
            /\ \A i \in Instances : /\ bus'[i].listener = bus[i].listener
                                    /\ bus'[i].reconnect = bus[i].reconnect
                                    /\ bus'[i].notices = bus[i].notices
                                    /\ bus[i].local \subseteq bus'[i].local
            /\ overheard' \in BOOLEAN /\ (overheard => overheard')
            /\ room.peers = {} /\ ~overheard' => \A d \in Clients : ~Waiting(d)
            /\ UNCHANGED <<purged, stalled, rare>>
  BY ONLY LiveType, c \in Clients, Connect(c), ConnectIs
<1>4. /\ client'[c] = me /\ socket'[c] = s
      /\ \A d \in Clients : d # c => client'[d] = client[d] /\ socket'[d] = socket[d]
  BY <1>2, <1>3
<1>5. r \in RoomType /\ r.epoch \in Nat /\ r.session \in Nat /\ me.doc \in Ops
      /\ client[c] \in ClientType /\ client[c].epoch \in Nat /\ client[c].session \in Nat
  BY <1>2, JoinedIs DEF RoomType, ClientType
<1>6. \A d \in Clients : Row(d) = Row(c) <=> d = c
  <2>1. \A d \in Clients : Row(d).client = d
    BY DEF Row
  <2> QED
    BY <2>1
<1>7. State(room') = RoomState'
  BY DEF State, Folded, RoomState
<1>8. /\ client[c].epoch <= room.epoch
      /\ client[c].epoch = 0 => client[c].doc = {}
      /\ client[c].epoch # 0 /\ client[c].epoch = room.epoch => client[c].session = room.session
      /\ client[c].epoch # 0 => client[c].session <= sessions
      /\ room.session <= sessions
  BY <1>2 DEF InSession
<1>9. OwnText(client[c], room.session, room.initialized, b)
  BY <1>1, <1>2, OrderlyParts
<1>10. /\ client[c].draft # NoDraft => client[c].draft[Base] <= 1
       /\ \A op, op1 \in client[c].doc : op.word = Base /\ op1.word = Base => op = op1
       /\ \A op \in client[c].doc : op.session = client[c].session
  BY <1>9 DEF OwnText
<1>11. Carried(client[c]) # NoDraft => Carried(client[c])[Base] <= 1
  BY <1>5, <1>10, CarriedIs
<1>12. me.draft # NoDraft => me.draft[Base] <= 1
  BY <1>3, <1>10, <1>11
<1>13. /\ <<Asked>>[1].ops = {} /\ First.ops = {} /\ <<Changed(me.doc)>>[1].ops = me.doc
       /\ DOMAIN <<Asked>> = {1} /\ DOMAIN <<Changed(me.doc)>> = {1}
  BY <1>5, ItemTypes
<1>14. ASSUME NEW S, NEW I, Right(me.doc, S, I, b), AllRight(socket[c].inbox, S, I, b)
       PROVE  AllRight(s.inbox, S, I, b) /\ AllRight(s.up, S, I, b)
  <2>1. Right({}, S, I, b)
    BY RightSets
  <2>2. AllRight(<<Asked>>, S, I, b) /\ AllRight(<<Changed(me.doc)>>, S, I, b)
    BY <1>13, <1>14, <2>1 DEF AllRight
  <2>3. AllRight(s.inbox, S, I, b)
    BY <1>3, <1>13, <1>14, <2>1 DEF AllRight
  <2> QED
    BY <1>3, <2>2, <2>3
<1>15. CASE room.peers # {}
  <2>1. /\ r.peers = room.peers \cup {Row(c)}
        /\ r.epoch = room.epoch /\ r.session = room.session
        /\ r.checkpoint = room.checkpoint /\ r.log = room.log
        /\ r.snapshot = room.snapshot /\ r.initialized = room.initialized
    BY <1>15, JoinedIs
  <2> HIDE DEF r
  <2>2. room' = r /\ State(room') = State(room) /\ sessions' = sessions
    BY <1>3, <1>15, <2>1 DEF State, r
  <2>3. me.epoch = room.epoch /\ me.session = room.session /\ room.epoch # 0
    <3>1. room.epoch # 0
      BY <1>2, <1>15 DEF InSession
    <3> QED
      BY <1>3, <1>8, <2>1, <3>1 DEF r
  <2>4. me.doc = {} \/ (me.doc = client[c].doc /\ client[c].session = room.session)
    BY <1>3, <1>8, <2>1 DEF r
  <2>5. Right(me.doc, room.session, room.initialized, b)
    BY <1>9, <2>4, RightSets DEF OwnText
  <2>6. OwnText(me, room.session, room.initialized, b)
    <3>1. /\ \A op \in me.doc : op.session = me.session
          /\ \A op, op1 \in me.doc : op.word = Base /\ op1.word = Base => op = op1
      BY <1>10, <2>3, <2>4
    <3> QED
      BY <1>12, <2>5, <3>1 DEF OwnText
  <2>7. OneText(b)'
    <3>1. ASSUME NEW d \in Clients
          PROVE  /\ AllRight(socket'[d].inbox, room'.session, room'.initialized, b)
                 /\ AllRight(socket'[d].up, room'.session, room'.initialized, b)
                 /\ OwnText(client'[d], room'.session, room'.initialized, b)
      <4>1. CASE d = c
        <5>1. AllRight(socket[c].inbox, room.session, room.initialized, b)
          BY <1>1, <1>2, OrderlyParts
        <5> QED
          BY <1>4, <1>14, <2>1, <2>2, <2>5, <2>6, <4>1, <5>1
      <4>2. CASE d # c
        BY <1>1, <1>2, <1>4, <2>1, <2>2, <4>2, OrderlyParts
      <4> QED
        BY <4>1, <4>2
    <3>2. Right(State(room'), room'.session, room'.initialized, b)
      BY <1>1, <1>2, <2>1, <2>2, OrderlyParts
    <3>3. \A i \in Instances : NoticesRight(bus'[i].notices, room'.epoch, room'.session, room'.initialized, b)
      BY <1>1, <1>3, <2>1, <2>2 DEF OneText
    <3> QED
      BY <1>7, <3>1, <3>2, <3>3 DEF OneText
  <2>8. InSession'
    <3>1. ASSUME NEW d \in Clients
          PROVE  /\ socket'[d].open =>
                       /\ Row(d) \in room'.peers
                       /\ socket'[d].epoch = room'.epoch
                       /\ client'[d].epoch = room'.epoch /\ client'[d].session = room'.session
                 /\ ~socket'[d].open =>
                       Row(d) \notin room'.peers /\ socket'[d].up = <<>>
                 /\ client'[d].epoch <= room'.epoch
                 /\ client'[d].epoch = 0 => client'[d].doc = {}
                 /\ client'[d].epoch # 0 /\ client'[d].epoch = room'.epoch => client'[d].session = room'.session
                 /\ client'[d].epoch # 0 => client'[d].session <= sessions'
      <4>1. CASE d = c
        <5>1. /\ socket'[d].open /\ Row(d) \in room'.peers /\ socket'[d].epoch = room'.epoch
              /\ client'[d].epoch = room'.epoch /\ client'[d].session = room'.session
              /\ room'.epoch # 0 /\ client'[d].session <= sessions'
          BY <1>3, <1>4, <1>8, <2>1, <2>2, <2>3, <4>1 DEF r
        <5> QED
          BY <1>2, <2>1, <2>2, <5>1
      <4>2. CASE d # c
        <5>1. client'[d] = client[d] /\ socket'[d] = socket[d] /\ (Row(d) \in room'.peers <=> Row(d) \in room.peers)
          BY <1>4, <1>6, <2>1, <2>2, <4>2
        <5> QED
          BY <1>2, <2>1, <2>2, <5>1 DEF InSession
      <4> QED
        BY <4>1, <4>2
    <3>2. /\ \A i \in Instances : \A n \in DOMAIN bus'[i].notices : bus'[i].notices[n].epoch <= room'.epoch
          /\ room'.epoch # 0 /\ room'.session <= sessions'
      BY <1>2, <1>3, <2>1, <2>2, <2>3 DEF InSession
    <3> QED
      BY <3>1, <3>2 DEF InSession
  <2> QED
    BY <2>7, <2>8 DEF Orderly
<1>16. CASE room.peers = {}
  <2>1. /\ r.peers = {Row(c)} /\ r.epoch > room.epoch /\ r.session = sessions + 1
        /\ ~r.initialized /\ State(r) = {}
    BY <1>16, JoinedIs
  <2> HIDE DEF r
  <2>2. room' = r /\ sessions' = sessions + 1
    BY <1>3, <1>16 DEF r
  <2>3. me.doc = {} /\ me.session = r.session /\ me.epoch = r.epoch
    BY <1>2, <1>3, <1>5, <1>8, <2>1 DEF r
  <2>4. ASSUME NEW d \in Clients
        PROVE  /\ ~socket[d].open /\ socket[d].up = <<>>
               /\ client[d].epoch <= room.epoch /\ (client[d].epoch = 0 => client[d].doc = {})
               /\ (client[d].epoch # 0 => client[d].session <= sessions)
    BY <1>2, <1>16 DEF InSession
  <2>5. OneText(b)'
    <3>1. Right({}, r.session, r.initialized, b) /\ AllRight(<<>>, r.session, r.initialized, b)
      BY RightSets
    <3>5. ASSUME NEW d \in Clients
          PROVE  AllRight(socket[d].inbox, r.session, r.initialized, b)
      <4> SUFFICES ASSUME NEW n \in DOMAIN socket[d].inbox
                   PROVE  Right(socket[d].inbox[n].ops, r.session, r.initialized, b)
        BY DEF AllRight
      <4>1. socket[d].inbox[n] \in Event
        BY Parts
      <4>2. socket[d].inbox[n].kind # "update"
        BY <1>3, <1>16, <2>4 DEF Waiting
      <4>3. socket[d].inbox[n].ops = {}
        BY <4>1, <4>2, ItemTypes
      <4> QED
        BY <3>1, <4>3
    <3>2. ASSUME NEW d \in Clients
          PROVE  /\ AllRight(socket'[d].inbox, r.session, r.initialized, b)
                 /\ AllRight(socket'[d].up, r.session, r.initialized, b)
                 /\ OwnText(client'[d], r.session, r.initialized, b)
      <4>1. CASE d = c
        <5>1. OwnText(me, r.session, r.initialized, b)
          BY <1>12, <2>3, <3>1 DEF OwnText
        <5> QED
          BY <1>4, <1>14, <2>3, <3>1, <3>5, <4>1, <5>1
      <4>2. CASE d # c
        <5>1. client'[d] = client[d] /\ socket'[d] = socket[d]
          BY <1>4, <4>2
        <5>2. AllRight(socket'[d].inbox, r.session, r.initialized, b)
              /\ AllRight(socket'[d].up, r.session, r.initialized, b)
          BY <2>4, <3>1, <3>5, <4>2, <5>1
        <5>3. OwnText(client[d], room.session, room.initialized, b)
          BY <1>1, <1>2, OrderlyParts
        <5>4. client[d].session \in Nat
          BY Parts
        <5>5. client[d].session = r.session => client[d].doc = {}
          BY <1>2, <2>1, <2>4, <4>2, <5>4
        <5>6. OwnText(client[d], r.session, r.initialized, b)
          BY <3>1, <5>3, <5>5 DEF OwnText
        <5> QED
          BY <5>1, <5>2, <5>6
      <4> QED
        BY <4>1, <4>2
    <3>3. Right(RoomState', r.session, r.initialized, b)
      BY <1>7, <2>1, <2>2, <3>1
    <3>4. ASSUME NEW i \in Instances
          PROVE  NoticesRight(bus'[i].notices, r.epoch, r.session, r.initialized, b)
      <4>1. ASSUME NEW n \in DOMAIN bus[i].notices PROVE bus[i].notices[n].epoch # r.epoch
        <5>1. bus[i].notices[n] \in Notice
          BY <1>2 DEF BusType
        <5>2. bus[i].notices[n].epoch \in Nat
          BY <5>1 DEF Notice
        <5>3. bus[i].notices[n].epoch <= room.epoch
          BY <1>2 DEF InSession
        <5> QED
          BY <1>2, <1>5, <2>1, <5>2, <5>3 DEF r
      <4> QED
        BY <1>3, <4>1 DEF NoticesRight
    <3> QED
      BY <2>2, <3>2, <3>3, <3>4 DEF OneText
  <2>6. InSession'
    <3>1. ASSUME NEW d \in Clients
          PROVE  /\ socket'[d].open =>
                       /\ Row(d) \in room'.peers
                       /\ socket'[d].epoch = room'.epoch
                       /\ client'[d].epoch = room'.epoch /\ client'[d].session = room'.session
                 /\ ~socket'[d].open =>
                       Row(d) \notin room'.peers /\ socket'[d].up = <<>>
                 /\ client'[d].epoch <= room'.epoch
                 /\ client'[d].epoch = 0 => client'[d].doc = {}
                 /\ client'[d].epoch # 0 /\ client'[d].epoch = room'.epoch => client'[d].session = room'.session
                 /\ client'[d].epoch # 0 => client'[d].session <= sessions'
      <4>1. CASE d = c
        <5>1. /\ socket'[d].open /\ Row(d) \in room'.peers /\ socket'[d].epoch = room'.epoch
              /\ client'[d].epoch = room'.epoch /\ client'[d].session = room'.session
              /\ client'[d].doc = {}
          BY <1>3, <1>4, <2>1, <2>2, <2>3, <4>1 DEF r
        <5>2. room'.epoch \in Nat /\ room'.session = sessions' /\ sessions' \in Nat
          BY <1>2, <1>3, <1>5, <2>1, <2>2 DEF r
        <5> QED
          BY <5>1, <5>2
      <4>2. CASE d # c
        <5>1. client'[d] = client[d] /\ socket'[d] = socket[d] /\ Row(d) \notin room'.peers
          BY <1>4, <1>6, <2>1, <2>2, <4>2
        <5>2. client[d].epoch \in Nat /\ client[d].session \in Nat
          BY Parts
        <5>3. client[d].epoch < room'.epoch
          BY <1>2, <1>5, <2>1, <2>2, <2>4, <4>2, <5>2 DEF r
        <5>4. client[d].epoch # 0 => client[d].session <= sessions'
          BY <1>2, <2>2, <2>4, <4>2, <5>2
        <5>5. room'.epoch \in Nat
          BY <1>5, <2>2 DEF r
        <5> QED
          BY <2>4, <4>2, <5>1, <5>2, <5>3, <5>4, <5>5
      <4> QED
        BY <4>1, <4>2
    <3>2. ASSUME NEW i \in Instances, NEW n \in DOMAIN bus'[i].notices
          PROVE  bus'[i].notices[n].epoch <= room'.epoch
      <4>1. bus[i].notices[n] \in Notice /\ bus'[i].notices = bus[i].notices
        BY <1>2, <1>3 DEF BusType
      <4>2. bus[i].notices[n].epoch \in Nat
        BY <4>1 DEF Notice
      <4>3. bus[i].notices[n].epoch <= room.epoch
        BY <1>2, <4>1 DEF InSession
      <4> QED
        BY <1>2, <1>5, <2>1, <2>2, <4>1, <4>2, <4>3 DEF r
    <3>3. room'.epoch # 0 /\ room'.session <= sessions'
      BY <1>2, <1>5, <2>1, <2>2 DEF r
    <3> QED
      BY <3>1, <3>2, <3>3 DEF InSession
  <2> QED
    BY <2>5, <2>6 DEF Orderly
<1> QED
  BY <1>15, <1>16

\* A word is typed into a replica of the session the browser knows.
LEMMA EditOrderly ==
  ASSUME LiveType, Orderly, NEW c \in Clients, Edit(c) PROVE Orderly'
<1>1. PICK b \in Insertion : OneText(b)
  BY DEF Orderly
<1>2. /\ InSession /\ client \in [Clients -> ClientType] /\ socket \in [Clients -> SocketType]
  BY DEF Orderly, LiveType
<1>3. PICK me \in ClientType, s \in SocketType, op \in Insertion :
            /\ client' = [client EXCEPT ![c] = me] /\ socket' = [socket EXCEPT ![c] = s]
            /\ me.epoch = client[c].epoch /\ me.session = client[c].session
            /\ op.word # Base /\ op.session = client[c].session
            /\ s.subscribed = socket[c].subscribed
            /\ s.open = socket[c].open /\ s.at = socket[c].at /\ s.epoch = socket[c].epoch
            /\ s.inbox = socket[c].inbox
            /\ \/ s.up = socket[c].up
               \/ socket[c].open /\ s.up = Append(socket[c].up, Changed({op}))
            /\ \/ /\ client[c].doc = {} /\ me.doc = {}
                  /\ (client[c].draft # NoDraft => client[c].draft[Base] <= 1) => me.draft[Base] <= 1
               \/ /\ client[c].doc # {} /\ me.doc = client[c].doc \cup {op}
                  /\ me.draft = client[c].draft
            /\ UNCHANGED <<room, bus, sessions, purged, stalled, overheard, rare>>
  BY ONLY LiveType, c \in Clients, Edit(c), EditIs
<1>4. /\ client'[c] = me /\ socket'[c] = s
      /\ \A d \in Clients : d # c => client'[d] = client[d] /\ socket'[d] = socket[d]
  BY <1>2, <1>3
<1>5. /\ OwnText(client[c], room.session, room.initialized, b)
      /\ AllRight(socket[c].inbox, room.session, room.initialized, b)
      /\ AllRight(socket[c].up, room.session, room.initialized, b)
      /\ socket[c].open => client[c].session = room.session
  BY <1>1, <1>2, OrderlyParts
<1>6. /\ \A o \in client[c].doc : o.session = client[c].session
      /\ client[c].session = room.session => Right(client[c].doc, room.session, room.initialized, b)
      /\ \A o, o1 \in client[c].doc : o.word = Base /\ o1.word = Base => o = o1
      /\ client[c].draft # NoDraft => client[c].draft[Base] <= 1
  BY <1>5 DEF OwnText
<1>7. client[c].session = room.session => Right({op}, room.session, room.initialized, b)
  BY <1>3 DEF Right, Fine
<1>8. OwnText(me, room.session, room.initialized, b)
  <2>1. CASE client[c].doc = {} /\ me.doc = {}
    <3>1. Right({}, room.session, room.initialized, b) /\ (me.draft # NoDraft => me.draft[Base] <= 1)
      BY <1>3, <1>6, <2>1, RightSets
    <3> QED
      BY <2>1, <3>1 DEF OwnText
  <2>2. CASE /\ client[c].doc # {} /\ me.doc = client[c].doc \cup {op}
             /\ me.draft = client[c].draft
    <3>1. ASSUME me.session = room.session PROVE Right(me.doc, room.session, room.initialized, b)
      <4>1. client[c].session = room.session
        BY <1>3, <3>1
      <4>2. Right(client[c].doc, room.session, room.initialized, b)
            /\ Right({op}, room.session, room.initialized, b)
        BY <1>6, <1>7, <4>1
      <4>3. Right(client[c].doc \cup {op}, room.session, room.initialized, b)
        BY ONLY <4>2, RightSets
      <4> QED
        BY <2>2, <4>3
    <3>2. \A o \in me.doc : o.session = me.session
      BY <1>3, <1>6, <2>2
    <3>3. \A o, o1 \in me.doc : o.word = Base /\ o1.word = Base => o = o1
      BY <1>3, <1>6, <2>2
    <3> QED
      BY <1>6, <2>2, <3>1, <3>2, <3>3 DEF OwnText
  <2> QED
    BY <1>3, <2>1, <2>2
<1>9. AllRight(s.up, room.session, room.initialized, b)
  <2>1. CASE s.up = socket[c].up
    BY <1>5, <2>1
  <2>2. CASE socket[c].open /\ s.up = Append(socket[c].up, Changed({op}))
    <3>1. {op} \in Ops
      BY <1>3, OpsSets
    <3>2. Changed({op}) \in Message /\ Changed({op}).ops = {op} /\ socket[c].up \in Seq(Message)
      BY <3>1, ItemTypes, Parts
    <3>3. Right(Changed({op}).ops, room.session, room.initialized, b)
      BY <1>5, <1>7, <2>2, <3>2
    <3>4. AllRight(Append(socket[c].up, Changed({op})), room.session, room.initialized, b)
      BY ONLY <1>5, <3>2, <3>3, RightQueues
    <3> QED
      BY <2>2, <3>4
  <2> QED
    BY <1>3, <2>1, <2>2
<1>10. OneText(b)'
  <2>1. ASSUME NEW d \in Clients
        PROVE  /\ AllRight(socket'[d].inbox, room.session, room.initialized, b)
               /\ AllRight(socket'[d].up, room.session, room.initialized, b)
               /\ OwnText(client'[d], room.session, room.initialized, b)
    <3>1. CASE d = c
      BY <1>3, <1>4, <1>5, <1>8, <1>9, <3>1
    <3>2. CASE d # c
      BY <1>1, <1>2, <1>4, <3>2, OrderlyParts
    <3> QED
      BY <3>1, <3>2
  <2>2. room' = room /\ bus' = bus /\ RoomState' = RoomState
    BY <1>3 DEF RoomState
  <2> QED
    BY <1>1, <2>1, <2>2 DEF OneText
<1>11. InSession'
  <2>1. ASSUME NEW d \in Clients
        PROVE  /\ client'[d].epoch = client[d].epoch /\ client'[d].session = client[d].session
               /\ client'[d].epoch = 0 => client'[d].doc = {}
               /\ socket'[d].open =>
                     socket[d].open /\ socket'[d].epoch = socket[d].epoch /\ Row(d) \in room'.peers
               /\ ~socket'[d].open =>
                     Row(d) \notin room'.peers /\ socket'[d].up = <<>>
    <3>1. /\ client[d].epoch = 0 => client[d].doc = {}
          /\ socket[d].open <=> Row(d) \in room.peers
          /\ ~socket[d].open => socket[d].up = <<>>
      BY <1>2 DEF InSession
    <3>2. CASE d = c
      BY <1>3, <1>4, <3>1, <3>2
    <3>3. CASE d # c
      BY <1>3, <1>4, <3>1, <3>3
    <3> QED
      BY <3>2, <3>3
  <2>2. /\ room'.epoch = room.epoch /\ room'.session = room.session /\ sessions' = sessions
        /\ room'.peers # {} => room.peers # {}
        /\ \A i \in Instances : \A n \in DOMAIN bus'[i].notices : bus'[i].notices[n].epoch <= room.epoch
    BY <1>2, <1>3 DEF InSession
  <2> QED
    BY ONLY LiveType, <1>2, <2>1, <2>2, SameSession
<1> QED
  BY <1>1, <1>10, <1>11 DEF Orderly

\* Connections end, and the rest of the session stays as it is.
LEMMA EndOrderly ==
  ASSUME LiveType, Orderly,
         room'.session = room.session, room'.epoch = room.epoch,
         room'.initialized = room.initialized, State(room') = State(room),
         client' = client, sessions' = sessions,
         room'.peers # {} => room.peers # {},
         \A d \in Clients :
            \/ socket'[d] = socket[d] /\ (Row(d) \in room'.peers <=> Row(d) \in room.peers)
            \/ /\ ~socket'[d].open /\ socket'[d].up = <<>> /\ socket'[d].inbox = <<>>
               /\ Row(d) \notin room'.peers,
         \A i \in Instances : bus'[i].notices = bus[i].notices \/ bus'[i].notices = <<>>
  PROVE  Orderly'
<1>1. PICK b \in Insertion : OneText(b)
  BY DEF Orderly
<1>2. InSession
  BY DEF Orderly
<1>3. ASSUME NEW d \in Clients
      PROVE  /\ AllRight(socket'[d].inbox, room.session, room.initialized, b)
             /\ AllRight(socket'[d].up, room.session, room.initialized, b)
  BY <1>1, <1>2, OrderlyParts, RightSets
<1>4. ASSUME NEW i \in Instances
      PROVE  NoticesRight(bus'[i].notices, room.epoch, room.session, room.initialized, b)
  BY <1>1, RightSets DEF OneText
<1>5. OneText(b)'
  BY <1>1, <1>2, <1>3, <1>4, QuietText
<1>6. ASSUME NEW d \in Clients
      PROVE  /\ client'[d].epoch = client[d].epoch /\ client'[d].session = client[d].session
             /\ client'[d].epoch = 0 => client'[d].doc = {}
             /\ socket'[d].open =>
                   socket[d].open /\ socket'[d].epoch = socket[d].epoch /\ Row(d) \in room'.peers
             /\ ~socket'[d].open =>
                   Row(d) \notin room'.peers /\ socket'[d].up = <<>>
  <2>1. /\ client[d].epoch = 0 => client[d].doc = {}
        /\ socket[d].open => Row(d) \in room.peers
        /\ ~socket[d].open => Row(d) \notin room.peers /\ socket[d].up = <<>>
    BY <1>2 DEF InSession
  <2> QED
    BY <2>1
<1>7. \A i \in Instances : \A n \in DOMAIN bus'[i].notices : bus'[i].notices[n].epoch <= room.epoch
  BY <1>2 DEF InSession
<1>8. InSession'
  BY ONLY LiveType, <1>2, <1>6, <1>7, SameSession, room'.session = room.session,
          room'.epoch = room.epoch, sessions' = sessions, room'.peers # {} => room.peers # {}
<1> QED
  BY <1>1, <1>5, <1>8 DEF Orderly

LEMMA CloseOrderly ==
  ASSUME LiveType, Orderly, NEW c \in Clients, Close(c), bus' = bus, sessions' = sessions
  PROVE  Orderly'
<1>1. /\ room'.peers = room.peers \ {Row(c)}
      /\ room'.epoch = room.epoch /\ room'.session = room.session
      /\ room'.log = room.log /\ room'.snapshot = room.snapshot
      /\ room'.initialized = room.initialized
      /\ socket' = [socket EXCEPT ![c] = Closed] /\ client' = client
  BY LeaveIs DEF Close
<1>2. State(room') = State(room)
  BY <1>1 DEF State
<1>3. ASSUME NEW d \in Clients
      PROVE  \/ socket'[d] = socket[d] /\ (Row(d) \in room'.peers <=> Row(d) \in room.peers)
             \/ /\ ~socket'[d].open /\ socket'[d].up = <<>> /\ socket'[d].inbox = <<>>
                /\ Row(d) \notin room'.peers
  <2>1. socket'[d] = IF d = c THEN Closed ELSE socket[d]
    BY <1>1 DEF LiveType
  <2>2. Row(d).client = d /\ Row(c).client = c
    BY DEF Row
  <2> QED
    BY <1>1, <2>1, <2>2, ClosedType
<1> QED
  BY <1>1, <1>2, <1>3, EndOrderly

\* The state of the session, or an update of it, reaches a replica of the session, and
\* with it the words the browser had kept, none of which is an initial text.
LEMMA ReceiveOrderly ==
  ASSUME LiveType, InSession, NEW b \in Insertion, OneText(b), NEW c \in Clients,
         NEW ops \in Ops, Right(ops, room.session, room.initialized, b),
         socket[c].open, socket[c].inbox # <<>>, Receive(c, ops),
         bus' = bus, sessions' = sessions
  PROVE  Orderly'
<1>1. PICK own \in Ops, me \in ClientType, s \in SocketType :
            /\ client' = [client EXCEPT ![c] = me] /\ socket' = [socket EXCEPT ![c] = s]
            /\ room' = room
            /\ me.doc = client[c].doc \cup ops \cup own
            /\ me.epoch = client[c].epoch /\ me.session = client[c].session
            /\ me.draft \in {client[c].draft, NoDraft}
            /\ own = {} \/ own = Reapplied(c, client[c], client[c].doc \cup ops)
            /\ own # {} => client[c].draft # NoDraft
            /\ s.subscribed = socket[c].subscribed
            /\ s.open = socket[c].open /\ s.at = socket[c].at /\ s.epoch = socket[c].epoch
            /\ s.inbox = Tail(socket[c].inbox)
            /\ s.up = socket[c].up \/ s.up = Append(socket[c].up, Changed(own))
  BY ONLY LiveType, c \in Clients, ops \in Ops, socket[c].inbox # <<>>, Receive(c, ops), ReceiveIs
<1>2. /\ client'[c] = me /\ socket'[c] = s
      /\ \A d \in Clients : d # c => client'[d] = client[d] /\ socket'[d] = socket[d]
  BY <1>1 DEF LiveType
<1>3. /\ OwnText(client[c], room.session, room.initialized, b)
      /\ AllRight(socket[c].inbox, room.session, room.initialized, b)
      /\ AllRight(socket[c].up, room.session, room.initialized, b)
      /\ client[c].session = room.session /\ client[c].epoch = room.epoch /\ room.epoch # 0
  BY OrderlyParts
<1>4. /\ Right(client[c].doc, room.session, room.initialized, b)
      /\ client[c].draft # NoDraft => client[c].draft[Base] <= 1
  BY <1>3 DEF OwnText
<1>5. /\ client[c] \in ClientType /\ client[c].doc \in Ops
      /\ socket[c].inbox \in Seq(Event) /\ socket[c].up \in Seq(Message)
  BY Parts
<1>6. Right(own, room.session, room.initialized, b)
  <2>1. CASE own = {}
    BY <2>1, RightSets
  <2>2. CASE own # {}
    <3>1. client[c].doc \cup ops \in Ops
      BY <1>5, OpsSets
    <3>2. own = Reapplied(c, client[c], client[c].doc \cup ops) /\ client[c].draft # NoDraft
      BY <1>1, <2>2
    <3>3. \A op \in own : op.session = room.session /\ op.word # Base
      BY <1>3, <1>4, <1>5, <3>1, <3>2, ReappliedIs
    <3> QED
      BY <3>3 DEF Right, Fine
  <2> QED
    BY <2>1, <2>2
<1>7. Right(me.doc, room.session, room.initialized, b)
  <2>1. me.doc = (client[c].doc \cup ops) \cup own
    BY <1>1
  <2>2. Right(client[c].doc \cup ops, room.session, room.initialized, b)
    BY ONLY <1>4, Right(ops, room.session, room.initialized, b), RightSets
  <2>3. Right((client[c].doc \cup ops) \cup own, room.session, room.initialized, b)
    BY ONLY <1>6, <2>2, RightSets
  <2> QED
    BY <2>1, <2>3
<1>8. OwnText(me, room.session, room.initialized, b)
  <2>1. me.session = room.session /\ (me.draft # NoDraft => me.draft[Base] <= 1)
    BY <1>1, <1>3, <1>4
  <2>2. /\ \A op \in me.doc : op.session = me.session
        /\ \A op, op1 \in me.doc : op.word = Base /\ op1.word = Base => op = op1
    BY <1>7, <2>1 DEF Right, Fine
  <2> QED
    BY <1>7, <2>1, <2>2 DEF OwnText
<1>9. AllRight(s.inbox, room.session, room.initialized, b)
  BY <1>1, <1>3, <1>5, RightQueues
<1>10. AllRight(s.up, room.session, room.initialized, b)
  <2>1. Changed(own) \in Message /\ Changed(own).ops = own
    BY <1>1, ItemTypes
  <2>2. AllRight(Append(socket[c].up, Changed(own)), room.session, room.initialized, b)
    BY ONLY <1>3, <1>5, <1>6, <2>1, RightQueues
  <2> QED
    BY <1>1, <1>3, <2>2
<1>11. OneText(b)'
  <2>1. ASSUME NEW d \in Clients
        PROVE  /\ AllRight(socket'[d].inbox, room.session, room.initialized, b)
               /\ AllRight(socket'[d].up, room.session, room.initialized, b)
               /\ OwnText(client'[d], room.session, room.initialized, b)
    <3>1. CASE d = c
      BY <1>2, <1>8, <1>9, <1>10, <3>1
    <3>2. CASE d # c
      BY <1>2, <3>2, OrderlyParts
    <3> QED
      BY <3>1, <3>2
  <2>2. room' = room /\ bus' = bus /\ RoomState' = RoomState
    BY <1>1 DEF RoomState
  <2> QED
    BY <2>1, <2>2 DEF OneText
<1>12. InSession'
  <2>1. ASSUME NEW d \in Clients
        PROVE  /\ client'[d].epoch = client[d].epoch /\ client'[d].session = client[d].session
               /\ client'[d].epoch = 0 => client'[d].doc = {}
               /\ socket'[d].open =>
                     socket[d].open /\ socket'[d].epoch = socket[d].epoch /\ Row(d) \in room'.peers
               /\ ~socket'[d].open =>
                     Row(d) \notin room'.peers /\ socket'[d].up = <<>>
    <3>1. /\ client[d].epoch = 0 => client[d].doc = {}
          /\ socket[d].open <=> Row(d) \in room.peers
          /\ ~socket[d].open => socket[d].up = <<>>
      BY DEF InSession
    <3>2. CASE d = c
      <4>1. /\ client'[c].epoch = client[c].epoch /\ client'[c].session = client[c].session
            /\ client'[c].epoch # 0
            /\ socket'[c].open /\ socket'[c].epoch = socket[c].epoch /\ room' = room
        BY <1>1, <1>2, <1>3
      <4> QED
        BY <3>1, <3>2, <4>1
    <3>3. CASE d # c
      BY <1>1, <1>2, <3>1, <3>3
    <3> QED
      BY <3>2, <3>3
  <2>2. /\ room'.epoch = room.epoch /\ room'.session = room.session /\ sessions' = sessions
        /\ room'.peers # {} => room.peers # {}
        /\ \A i \in Instances : \A n \in DOMAIN bus'[i].notices : bus'[i].notices[n].epoch <= room.epoch
    BY <1>1 DEF InSession
  <2> QED
    BY ONLY LiveType, InSession, <2>1, <2>2, SameSession
<1> QED
  BY <1>11, <1>12 DEF Orderly

\* The same of a browser that closes the socket at once, its words lost.
LEMMA DropDraftOrderly ==
  ASSUME LiveType, Orderly, NEW c \in Clients, DropDraft(c) PROVE Orderly'
<1>1. PICK b \in Insertion : OneText(b)
  BY DEF Orderly
<1>2. InSession /\ client \in [Clients -> ClientType] /\ socket \in [Clients -> SocketType]
  BY DEF Orderly, LiveType
<1>3. PICK ops \in Ops, me \in ClientType :
         /\ socket[c].open /\ socket[c].inbox # <<>> /\ Leave(c)
         /\ bus' = bus /\ sessions' = sessions
         /\ client' = [client EXCEPT ![c] = me]
         /\ me.doc = client[c].doc \cup ops /\ me.draft = NoDraft
         /\ me.epoch = client[c].epoch /\ me.session = client[c].session
         /\ ops = RoomState \/ ops = Head(socket[c].inbox).ops
  BY ONLY LiveType, c \in Clients, DropDraft(c), DropDraftIs
<1>4. /\ room'.peers = room.peers \ {Row(c)}
      /\ room'.epoch = room.epoch /\ room'.session = room.session
      /\ room'.log = room.log /\ room'.snapshot = room.snapshot
      /\ room'.initialized = room.initialized
      /\ socket' = [socket EXCEPT ![c] = Closed]
  BY <1>3, LeaveIs
<1>5. /\ client'[c] = me /\ socket'[c] = Closed
      /\ \A d \in Clients : d # c => client'[d] = client[d] /\ socket'[d] = socket[d]
  BY <1>2, <1>3, <1>4
<1>6. /\ OwnText(client[c], room.session, room.initialized, b)
      /\ AllRight(socket[c].inbox, room.session, room.initialized, b)
      /\ client[c].session = room.session /\ client[c].epoch = room.epoch /\ room.epoch # 0
      /\ Right(State(room), room.session, room.initialized, b)
      /\ socket[c].inbox \in Seq(Event) /\ RoomState = State(room)
  BY <1>1, <1>2, <1>3, OrderlyParts, Parts
<1>7. Right(ops, room.session, room.initialized, b)
  BY <1>3, <1>6, RightQueues
<1>8. OwnText(me, room.session, room.initialized, b)
  <2>1. Right(client[c].doc, room.session, room.initialized, b)
    BY <1>6 DEF OwnText
  <2>2. Right(client[c].doc \cup ops, room.session, room.initialized, b)
    BY ONLY <1>7, <2>1, RightSets
  <2>3. me.session = room.session /\ Right(me.doc, room.session, room.initialized, b)
    BY <1>3, <1>6, <2>2
  <2>4. /\ \A op \in me.doc : op.session = me.session
        /\ \A op, op1 \in me.doc : op.word = Base /\ op1.word = Base => op = op1
    BY <2>3 DEF Right, Fine
  <2> QED
    BY <1>3, <2>3, <2>4 DEF OwnText
<1>9. OneText(b)'
  <2>1. ASSUME NEW d \in Clients
        PROVE  /\ AllRight(socket'[d].inbox, room.session, room.initialized, b)
               /\ AllRight(socket'[d].up, room.session, room.initialized, b)
               /\ OwnText(client'[d], room.session, room.initialized, b)
    <3>1. CASE d = c
      BY <1>5, <1>8, <3>1, ClosedType, RightSets
    <3>2. CASE d # c
      BY <1>1, <1>2, <1>5, <3>2, OrderlyParts
    <3> QED
      BY <3>1, <3>2
  <2>2. RoomState' = RoomState
    BY <1>4 DEF RoomState
  <2> QED
    BY <1>1, <1>3, <1>4, <2>1, <2>2 DEF OneText
<1>10. InSession'
  <2>1. ASSUME NEW d \in Clients
        PROVE  /\ client'[d].epoch = client[d].epoch /\ client'[d].session = client[d].session
               /\ client'[d].epoch = 0 => client'[d].doc = {}
               /\ socket'[d].open =>
                     socket[d].open /\ socket'[d].epoch = socket[d].epoch /\ Row(d) \in room'.peers
               /\ ~socket'[d].open => Row(d) \notin room'.peers /\ socket'[d].up = <<>>
    <3>1. /\ client[d].epoch = 0 => client[d].doc = {}
          /\ socket[d].open <=> Row(d) \in room.peers
          /\ ~socket[d].open => socket[d].up = <<>>
      BY <1>2 DEF InSession
    <3>2. CASE d = c
      <4>1. ~socket'[c].open /\ socket'[c].up = <<>> /\ Row(c) \notin room'.peers
        BY <1>4, <1>5, ClosedType
      <4>2. /\ client'[c].epoch = client[c].epoch /\ client'[c].session = client[c].session
            /\ client'[c].epoch # 0
        BY <1>3, <1>5, <1>6
      <4> QED
        BY <3>2, <4>1, <4>2
    <3>3. CASE d # c
      <4>1. Row(d) # Row(c)
        <5>1. Row(d).client = d /\ Row(c).client = c
          BY DEF Row
        <5> QED
          BY <3>3, <5>1
      <4> QED
        BY <1>4, <1>5, <3>1, <3>3, <4>1
    <3> QED
      BY <3>2, <3>3
  <2>2. /\ room'.epoch = room.epoch /\ room'.session = room.session /\ sessions' = sessions
        /\ room'.peers # {} => room.peers # {}
        /\ \A i \in Instances : \A n \in DOMAIN bus'[i].notices : bus'[i].notices[n].epoch <= room.epoch
    BY <1>2, <1>3, <1>4 DEF InSession
  <2> QED
    BY ONLY LiveType, <1>2, <2>1, <2>2, SameSession
<1> QED
  BY <1>1, <1>9, <1>10 DEF Orderly

LEMMA ServeEventOrderly ==
  ASSUME LiveType, Orderly, NEW c \in Clients, ServeEvent(c) PROVE Orderly'
<1>1. PICK b \in Insertion : OneText(b)
  BY DEF Orderly
<1>2. InSession
  BY DEF Orderly
<1>3. /\ socket[c].open /\ socket[c].inbox # <<>> /\ bus' = bus /\ sessions' = sessions
      /\ \/ Close(c)
         \/ \E ops \in Ops :
               /\ Receive(c, ops)
               /\ \/ ops = RoomState
                  \/ Head(socket[c].inbox).kind = "update" /\ ops = Head(socket[c].inbox).ops
  BY ServeEventIs
<1>4. Right(RoomState, room.session, room.initialized, b)
      /\ AllRight(socket[c].inbox, room.session, room.initialized, b)
  BY <1>1 DEF OneText
<1>5. socket[c].inbox \in Seq(Event)
  BY Parts
<1>6. Right(Head(socket[c].inbox).ops, room.session, room.initialized, b)
  BY <1>3, <1>4, <1>5, RightQueues
<1>7. CASE Close(c)
  BY <1>3, <1>7, CloseOrderly
<1>8. ASSUME NEW ops \in Ops, Receive(c, ops), ops = RoomState \/ ops = Head(socket[c].inbox).ops
      PROVE  Orderly'
  <2>1. Right(ops, room.session, room.initialized, b)
    BY <1>4, <1>6, <1>8
  <2> QED
    BY ONLY LiveType, c \in Clients, b \in Insertion, ops \in Ops, <1>1, <1>2, <1>3, <1>8, <2>1, ReceiveOrderly
<1> QED
  BY <1>3, <1>7, <1>8

\* What a message brings into the room is of the session; the initial text enters it once.
LEMMA ServeMessageOrderly ==
  ASSUME LiveType, Orderly, NEW c \in Clients, ServeMessage(c) PROVE Orderly'
<1>1. PICK b \in Insertion : OneText(b)
  BY DEF Orderly
<1>2. InSession /\ socket \in [Clients -> SocketType] /\ bus \in [Instances -> BusType]
  BY DEF Orderly, LiveType
<1>3. socket[c].up \in Seq(Message) /\ State(room) \in Ops
      /\ (\A i \in Instances : bus[i].notices \in Seq(Notice))
  BY <1>2, Parts DEF BusType
<1>4. /\ socket[c].open /\ socket[c].up # <<>>
      /\ UNCHANGED <<sessions, purged, stalled, overheard, rare>>
      /\ \/ ~Active(c) /\ Close(c) /\ bus' = bus
         \/ /\ client' = client
            /\ \E s \in SocketType :
                  /\ socket' = [socket EXCEPT ![c] = s]
                  /\ s.open = socket[c].open /\ s.at = socket[c].at /\ s.epoch = socket[c].epoch
                  /\ s.inbox = socket[c].inbox /\ s.up = Tail(socket[c].up)
            /\ \/ room' = room /\ bus' = bus
               \/ \E ops \in Ops :
                     /\ Publish(ops)
                     /\ room' \in RoomType
                     /\ room'.epoch = room.epoch /\ room'.session = room.session
                     /\ room'.peers = room.peers
                     /\ State(room') = State(room) \cup ops
                     /\ \A seq \in Nat : \A op : Told(room, seq, op) => Told(room', seq, op)
                     /\ \A op \in ops : Told(room', room.checkpoint + Len(room.log) + 1, op)
                     /\ \/ /\ ops = Head(socket[c].up).ops
                           /\ room'.initialized = room.initialized
                        \/ /\ ~room.initialized /\ room'.initialized
                           /\ \E base \in Insertion :
                                 ops = {base} /\ base.session = room.session
  BY ONLY LiveType, c \in Clients, ServeMessage(c), ServeMessageIs
<1>5. CASE Close(c) /\ bus' = bus
  BY <1>4, <1>5, CloseOrderly
<1>6. ASSUME client' = client, NEW s \in SocketType, socket' = [socket EXCEPT ![c] = s],
             s.open = socket[c].open, s.epoch = socket[c].epoch,
             s.inbox = socket[c].inbox, s.up = Tail(socket[c].up),
             room'.epoch = room.epoch, room'.session = room.session, room'.peers = room.peers,
             NEW b1 \in Insertion,
             Right(State(room'), room.session, room'.initialized, b1),
             \A d \in Clients :
                /\ AllRight(socket[d].inbox, room.session, room'.initialized, b1)
                /\ AllRight(socket[d].up, room.session, room'.initialized, b1)
                /\ OwnText(client[d], room.session, room'.initialized, b1),
             \A i \in Instances :
                /\ NoticesRight(bus'[i].notices, room.epoch, room.session, room'.initialized, b1)
                /\ \A n \in DOMAIN bus'[i].notices : bus'[i].notices[n].epoch <= room.epoch
      PROVE  Orderly'
  <2>1. /\ socket'[c] = s
        /\ \A d \in Clients : d # c => socket'[d] = socket[d]
    BY <1>2, <1>6
  <2>2. AllRight(s.up, room.session, room'.initialized, b1)
    BY <1>3, <1>4, <1>6, RightQueues
  <2>3. ASSUME NEW d \in Clients
        PROVE  /\ AllRight(socket'[d].inbox, room.session, room'.initialized, b1)
               /\ AllRight(socket'[d].up, room.session, room'.initialized, b1)
    BY <1>6, <2>1, <2>2
  <2>4. RoomState' = State(room')
    BY DEF RoomState, State, Folded
  <2>5. OneText(b1)'
    BY <1>6, <2>3, <2>4 DEF OneText
  <2>6. ASSUME NEW d \in Clients
        PROVE  /\ client'[d].epoch = client[d].epoch /\ client'[d].session = client[d].session
               /\ client'[d].epoch = 0 => client'[d].doc = {}
               /\ socket'[d].open =>
                     socket[d].open /\ socket'[d].epoch = socket[d].epoch /\ Row(d) \in room'.peers
               /\ ~socket'[d].open =>
                     Row(d) \notin room'.peers /\ socket'[d].up = <<>>
    <3>1. /\ client[d].epoch = 0 => client[d].doc = {}
          /\ socket[d].open <=> Row(d) \in room.peers
          /\ ~socket[d].open => socket[d].up = <<>>
      BY <1>2 DEF InSession
    <3>2. CASE d = c
      BY <1>4, <1>6, <2>1, <3>1, <3>2
    <3>3. CASE d # c
      BY <1>6, <2>1, <3>1, <3>3
    <3> QED
      BY <3>2, <3>3
  <2>7. /\ room'.epoch = room.epoch /\ room'.session = room.session /\ sessions' = sessions
        /\ room'.peers # {} => room.peers # {}
        /\ \A i \in Instances : \A n \in DOMAIN bus'[i].notices : bus'[i].notices[n].epoch <= room.epoch
    BY <1>4, <1>6
  <2>8. InSession'
    BY ONLY LiveType, <1>2, <2>6, <2>7, SameSession
  <2> QED
    BY <1>6, <2>5, <2>8 DEF Orderly
<1>7. \A i \in Instances :
         /\ NoticesRight(bus[i].notices, room.epoch, room.session, room.initialized, b)
         /\ \A n \in DOMAIN bus[i].notices : bus[i].notices[n].epoch <= room.epoch
  BY <1>1, <1>2 DEF OneText, InSession
<1>8. \A d \in Clients :
         /\ AllRight(socket[d].inbox, room.session, room.initialized, b)
         /\ AllRight(socket[d].up, room.session, room.initialized, b)
         /\ OwnText(client[d], room.session, room.initialized, b)
  BY <1>1 DEF OneText
<1>9. Right(State(room), room.session, room.initialized, b)
  BY <1>1, <1>2, OrderlyParts
<1>10. CASE room' = room /\ bus' = bus /\ client' = client
            /\ \E s \in SocketType :
                  /\ socket' = [socket EXCEPT ![c] = s]
                  /\ s.open = socket[c].open /\ s.epoch = socket[c].epoch
                  /\ s.inbox = socket[c].inbox /\ s.up = Tail(socket[c].up)
  <2>1. PICK s \in SocketType :
           /\ socket' = [socket EXCEPT ![c] = s]
           /\ s.open = socket[c].open /\ s.epoch = socket[c].epoch
           /\ s.inbox = socket[c].inbox /\ s.up = Tail(socket[c].up)
    BY <1>10
  <2> QED
    BY <1>1, <1>6, <1>7, <1>8, <1>9, <1>10, <2>1
<1>11. ASSUME NEW ops \in Ops, Publish(ops), room'.epoch = room.epoch,
              room'.session = room.session, NEW b1 \in Insertion,
              Right(ops, room.session, room'.initialized, b1),
              \A i \in Instances :
                 NoticesRight(bus[i].notices, room.epoch, room.session, room'.initialized, b1)
       PROVE  \A i \in Instances :
                 /\ NoticesRight(bus'[i].notices, room.epoch, room.session, room'.initialized, b1)
                 /\ \A n \in DOMAIN bus'[i].notices : bus'[i].notices[n].epoch <= room.epoch
  <2>1. PICK notice \in Notice :
           /\ notice.epoch = room.epoch
           /\ notice.seq = room.checkpoint + Len(room.log) + 1
           /\ notice.ops \in {ops, {}}
           /\ \A i \in Instances :
                 bus'[i].notices = IF bus[i].listener = "on"
                                   THEN Append(bus[i].notices, notice) ELSE bus[i].notices
    BY ONLY LiveType, ops \in Ops, <1>11, PublishIs
  <2>2. Right(notice.ops, room.session, room'.initialized, b1)
    BY <1>11, <2>1, RightSets
  <2> SUFFICES ASSUME NEW i \in Instances
               PROVE  /\ NoticesRight(bus'[i].notices, room.epoch, room.session, room'.initialized, b1)
                      /\ \A n \in DOMAIN bus'[i].notices : bus'[i].notices[n].epoch <= room.epoch
    OBVIOUS
  <2>3. CASE bus[i].listener # "on"
    <3>1. bus'[i].notices = bus[i].notices
      BY <2>1, <2>3
    <3> QED
      BY <1>7, <1>11, <3>1
  <2>4. CASE bus[i].listener = "on"
    <3>1. bus'[i].notices = Append(bus[i].notices, notice) /\ bus[i].notices \in Seq(Notice)
      BY <1>3, <2>1, <2>4
    <3>2. NoticesRight(bus[i].notices, room.epoch, room.session, room'.initialized, b1)
      BY <1>11
    <3>3. NoticesRight(Append(bus[i].notices, notice), room.epoch, room.session, room'.initialized, b1)
      BY ONLY <2>1, <2>2, <3>1, <3>2, RightQueues
    <3>4. \A n \in DOMAIN bus'[i].notices :
             bus'[i].notices[n] = notice
             \/ (n \in DOMAIN bus[i].notices /\ bus'[i].notices[n] = bus[i].notices[n])
      BY <2>1, <3>1, AppendTo
    <3>5. notice.epoch <= room.epoch
      BY <2>1 DEF Notice
    <3> QED
      BY <1>7, <3>1, <3>3, <3>4, <3>5
  <2> QED
    BY <2>3, <2>4
<1>12. ASSUME client' = client, NEW s \in SocketType, socket' = [socket EXCEPT ![c] = s],
              s.open = socket[c].open, s.epoch = socket[c].epoch,
              s.inbox = socket[c].inbox, s.up = Tail(socket[c].up),
              NEW ops \in Ops, Publish(ops),
              room'.epoch = room.epoch, room'.session = room.session, room'.peers = room.peers,
              State(room') = State(room) \cup ops,
              \/ /\ ops = Head(socket[c].up).ops
                 /\ room'.initialized = room.initialized
              \/ /\ ~room.initialized /\ room'.initialized
                 /\ \E base \in Insertion : ops = {base} /\ base.session = room.session,
              room.initialized \in BOOLEAN, room'.initialized \in BOOLEAN
       PROVE  Orderly'
  <2>1. \E b1 \in Insertion :
           /\ Right(State(room), room.session, room'.initialized, b1)
           /\ Right(ops, room.session, room'.initialized, b1)
           /\ \A d \in Clients :
                 /\ AllRight(socket[d].inbox, room.session, room'.initialized, b1)
                 /\ AllRight(socket[d].up, room.session, room'.initialized, b1)
                 /\ OwnText(client[d], room.session, room'.initialized, b1)
           /\ \A i \in Instances :
                 NoticesRight(bus[i].notices, room.epoch, room.session, room'.initialized, b1)
    <3>1. CASE ops = Head(socket[c].up).ops /\ room'.initialized = room.initialized
      <4>1. Right(ops, room.session, room.initialized, b)
        BY <1>3, <1>4, <1>8, <3>1, RightQueues
      <4> QED
        BY <1>1, <1>7, <1>8, <1>9, <3>1, <4>1
    <3>2. ASSUME ~room.initialized, room'.initialized,
                 NEW base \in Insertion, ops = {base}, base.session = room.session
          PROVE  /\ Right(State(room), room.session, room'.initialized, base)
                 /\ Right(ops, room.session, room'.initialized, base)
                 /\ \A d \in Clients :
                       /\ AllRight(socket[d].inbox, room.session, room'.initialized, base)
                       /\ AllRight(socket[d].up, room.session, room'.initialized, base)
                       /\ OwnText(client[d], room.session, room'.initialized, base)
                 /\ \A i \in Instances :
                       NoticesRight(bus[i].notices, room.epoch, room.session, room'.initialized, base)
      <4>1. room.initialized = FALSE /\ room'.initialized = TRUE
        BY <1>12, <3>2
      <4>2. Right(ops, room.session, TRUE, base)
        BY <3>2 DEF Right, Fine
      <4>3. Right(State(room), room.session, TRUE, base)
        BY <1>9, <4>1, RightTurns
      <4>4. ASSUME NEW d \in Clients
            PROVE  /\ AllRight(socket[d].inbox, room.session, TRUE, base)
                   /\ AllRight(socket[d].up, room.session, TRUE, base)
                   /\ OwnText(client[d], room.session, TRUE, base)
        BY <1>8, <4>1, RightTurns
      <4>5. ASSUME NEW i \in Instances
            PROVE  NoticesRight(bus[i].notices, room.epoch, room.session, TRUE, base)
        BY <1>7, <4>1, RightTurns
      <4> QED
        BY <4>1, <4>2, <4>3, <4>4, <4>5
    <3> QED
      BY ONLY <1>12, <3>1, <3>2
  <2>2. PICK b1 \in Insertion :
           /\ Right(State(room), room.session, room'.initialized, b1)
           /\ Right(ops, room.session, room'.initialized, b1)
           /\ \A d \in Clients :
                 /\ AllRight(socket[d].inbox, room.session, room'.initialized, b1)
                 /\ AllRight(socket[d].up, room.session, room'.initialized, b1)
                 /\ OwnText(client[d], room.session, room'.initialized, b1)
           /\ \A i \in Instances :
                 NoticesRight(bus[i].notices, room.epoch, room.session, room'.initialized, b1)
    BY <2>1
  <2>3. Right(State(room'), room.session, room'.initialized, b1)
    <3>1. Right(State(room) \cup ops, room.session, room'.initialized, b1)
      BY ONLY <2>2, RightSets
    <3> QED
      BY <1>12, <3>1
  <2>4. \A i \in Instances :
           /\ NoticesRight(bus'[i].notices, room.epoch, room.session, room'.initialized, b1)
           /\ \A n \in DOMAIN bus'[i].notices : bus'[i].notices[n].epoch <= room.epoch
    BY <1>11, <1>12, <2>2
  <2> QED
    BY ONLY <1>6, <1>12, <2>2, <2>3, <2>4
<1>13. room.initialized \in BOOLEAN /\ (room' \in RoomType => room'.initialized \in BOOLEAN)
  BY DEF LiveType, RoomType
<1> QED
  BY ONLY <1>4, <1>5, <1>10, <1>12, <1>13

\* Only the queues of connections and instances change, and hold nothing new.
LEMMA QueuesOrderly ==
  ASSUME LiveType, InSession, NEW b \in Insertion, OneText(b),
         room' = room, client' = client, sessions' = sessions,
         \A d \in Clients :
            /\ socket'[d].open = socket[d].open /\ socket'[d].epoch = socket[d].epoch
            /\ ~socket[d].open => socket'[d].up = <<>>
            /\ AllRight(socket'[d].inbox, room.session, room.initialized, b)
            /\ AllRight(socket'[d].up, room.session, room.initialized, b),
         \A i \in Instances :
            /\ NoticesRight(bus'[i].notices, room.epoch, room.session, room.initialized, b)
            /\ \A n \in DOMAIN bus'[i].notices : bus'[i].notices[n].epoch <= room.epoch
  PROVE  Orderly'
<1>1. State(room') = State(room)
  OBVIOUS
<1>2. OneText(b)'
  BY <1>1, QuietText
<1>3. ASSUME NEW d \in Clients
      PROVE  /\ client'[d].epoch = client[d].epoch /\ client'[d].session = client[d].session
             /\ client'[d].epoch = 0 => client'[d].doc = {}
             /\ socket'[d].open =>
                   socket[d].open /\ socket'[d].epoch = socket[d].epoch /\ Row(d) \in room'.peers
             /\ ~socket'[d].open =>
                   Row(d) \notin room'.peers /\ socket'[d].up = <<>>
  BY DEF InSession
<1>4. InSession'
  BY <1>3, SameSession
<1> QED
  BY <1>2, <1>4 DEF Orderly

\* What is sent on is of the session that goes on, or nobody hears it.
LEMMA NotifyOrderly ==
  ASSUME LiveType, Orderly, NEW i \in Instances, Notify(i), ~overheard' PROVE Orderly'
<1> DEFINE notice == Head(bus[i].notices)
           item == Changed(Announced(notice))
<1>1. PICK b \in Insertion : OneText(b)
  BY DEF Orderly
<1>2. InSession
  BY DEF Orderly
<1>3. /\ bus[i].notices \in Seq(Notice) /\ bus[i].notices # <<>>
      /\ \A j \in Instances :
            bus'[j].notices = IF j = i THEN Tail(bus[i].notices) ELSE bus[j].notices
      /\ notice \in Notice
      /\ Announced(notice) \in Ops
      /\ \/ socket' = socket
         \/ /\ notice.epoch = room.epoch \/ HeardAt(i) = {}
            /\ Send(i, item)
      /\ UNCHANGED <<room, client, sessions, purged, stalled, rare>>
  BY NotifyIs
<1>4. \A j \in Instances :
         /\ NoticesRight(bus[j].notices, room.epoch, room.session, room.initialized, b)
         /\ \A n \in DOMAIN bus[j].notices : bus[j].notices[n].epoch <= room.epoch
  BY <1>1, <1>2 DEF OneText, InSession
<1>5. item \in Event /\ item.ops = Announced(notice)
  BY <1>3, ItemTypes
<1>6. \A op \in Announced(notice) : op \in notice.ops \/ op \in RoomState
  BY <1>3, AnnouncedIs
<1>7. notice.epoch = room.epoch => Right(notice.ops, room.session, room.initialized, b)
  BY <1>3, <1>4, RightQueues
<1>8. NoticesRight(Tail(bus[i].notices), room.epoch, room.session, room.initialized, b)
  BY <1>3, <1>4, RightQueues
<1>9. \A n \in DOMAIN Tail(bus[i].notices) : Tail(bus[i].notices)[n].epoch <= room.epoch
  BY <1>3, <1>4, TailOf
<1> HIDE DEF notice, item
<1>10. \A j \in Instances :
         /\ NoticesRight(bus'[j].notices, room.epoch, room.session, room.initialized, b)
         /\ \A n \in DOMAIN bus'[j].notices : bus'[j].notices[n].epoch <= room.epoch
  BY <1>3, <1>4, <1>8, <1>9
<1>11. \A d \in Clients :
         /\ ~socket[d].open => socket[d].up = <<>>
         /\ AllRight(socket[d].inbox, room.session, room.initialized, b)
         /\ AllRight(socket[d].up, room.session, room.initialized, b)
  BY <1>1, <1>2, OrderlyParts
<1>12. CASE socket' = socket
  BY ONLY LiveType, b \in Insertion, <1>1, <1>2, <1>3, <1>10, <1>11, <1>12, QueuesOrderly
<1>13. ASSUME notice.epoch = room.epoch \/ HeardAt(i) = {}, Send(i, item) PROVE Orderly'
  <2>2. Right(RoomState, room.session, room.initialized, b)
    BY <1>1 DEF OneText
  <2>3. notice.epoch = room.epoch => Right(item.ops, room.session, room.initialized, b)
    BY <1>5, <1>6, <1>7, <2>2 DEF Right
  <2>4. ASSUME NEW d \in Clients
        PROVE  /\ socket'[d].open = socket[d].open /\ socket'[d].epoch = socket[d].epoch
               /\ ~socket[d].open => socket'[d].up = <<>>
               /\ AllRight(socket'[d].inbox, room.session, room.initialized, b)
               /\ AllRight(socket'[d].up, room.session, room.initialized, b)
    <3>1. /\ socket'[d].open = socket[d].open /\ socket'[d].at = socket[d].at
          /\ socket'[d].epoch = socket[d].epoch /\ socket'[d].up = socket[d].up
          /\ socket'[d].inbox = IF d \in HeardAt(i)
                                THEN Append(socket[d].inbox, item) ELSE socket[d].inbox
      BY ONLY LiveType, i \in Instances, d \in Clients, <1>5, <1>13, SendIs
    <3>2. socket[d].inbox \in Seq(Event)
      BY Parts
    <3>3. notice.epoch = room.epoch =>
             AllRight(Append(socket[d].inbox, item), room.session, room.initialized, b)
      BY ONLY d \in Clients, <1>5, <1>11, <2>3, <3>2, RightQueues
    <3> QED
      BY <1>11, <1>13, <3>1, <3>3
  <2> QED
    BY ONLY LiveType, b \in Insertion, <1>1, <1>2, <1>3, <1>10, <2>4, QueuesOrderly
<1> QED
  BY <1>3, <1>12, <1>13

LEMMA RecoverOrderly ==
  ASSUME LiveType, Orderly, NEW i \in Instances, Recover(i) PROVE Orderly'
<1>1. PICK b \in Insertion : OneText(b)
  BY DEF Orderly
<1>2. InSession
  BY DEF Orderly
<1>3. /\ \A j \in Instances : bus'[j].notices = bus[j].notices
      /\ Send(i, Resync) \/ socket' = socket
      /\ UNCHANGED <<room, client, sessions, purged, stalled, overheard, rare>>
  BY RecoverIs
<1>4. Resync \in Event /\ Resync.ops = {}
  BY ItemTypes
<1>5. ASSUME NEW j \in Instances
      PROVE  /\ NoticesRight(bus'[j].notices, room.epoch, room.session, room.initialized, b)
             /\ \A n \in DOMAIN bus'[j].notices : bus'[j].notices[n].epoch <= room.epoch
  <2>1. bus'[j].notices = bus[j].notices
    BY <1>3
  <2> QED
    BY <1>1, <1>2, <2>1 DEF OneText, InSession
<1>6. ASSUME NEW d \in Clients
      PROVE  /\ socket'[d].open = socket[d].open /\ socket'[d].epoch = socket[d].epoch
             /\ ~socket[d].open => socket'[d].up = <<>>
             /\ AllRight(socket'[d].inbox, room.session, room.initialized, b)
             /\ AllRight(socket'[d].up, room.session, room.initialized, b)
  <2>1. /\ socket'[d].open = socket[d].open
        /\ socket'[d].epoch = socket[d].epoch /\ socket'[d].up = socket[d].up
        /\ socket'[d].inbox \in {Append(socket[d].inbox, Resync), socket[d].inbox}
    BY ONLY LiveType, i \in Instances, d \in Clients, <1>3, <1>4, SendIs
  <2>2. /\ ~socket[d].open => socket[d].up = <<>>
        /\ AllRight(socket[d].inbox, room.session, room.initialized, b)
        /\ AllRight(socket[d].up, room.session, room.initialized, b)
    BY <1>1, <1>2, OrderlyParts
  <2>3. socket[d].inbox \in Seq(Event) /\ Right(Resync.ops, room.session, room.initialized, b)
    BY <1>4, Parts, RightSets
  <2>4. AllRight(Append(socket[d].inbox, Resync), room.session, room.initialized, b)
    BY ONLY <1>4, <2>2, <2>3, RightQueues
  <2> QED
    BY <2>1, <2>2, <2>4
<1> QED
  BY ONLY LiveType, b \in Insertion, <1>1, <1>2, <1>3, <1>5, <1>6, QueuesOrderly

LEMMA LagOrderly ==
  ASSUME LiveType, Orderly, NEW c \in Clients, Lag(c) PROVE Orderly'
<1>1. PICK b \in Insertion : OneText(b)
  BY DEF Orderly
<1>2. InSession
  BY DEF Orderly
<1>3. PICK s \in SocketType :
            /\ socket' = [socket EXCEPT ![c] = s] /\ socket[c].inbox # <<>>
            /\ s.open = socket[c].open /\ s.at = socket[c].at /\ s.epoch = socket[c].epoch
            /\ s.up = socket[c].up
            /\ 1 \in DOMAIN s.inbox
            /\ s.inbox[1] = Resync
            /\ \A n \in DOMAIN s.inbox :
                  \/ s.inbox[n] = Resync
                  \/ n \in DOMAIN socket[c].inbox /\ s.inbox[n] = socket[c].inbox[n]
            /\ rare' \in Nat
            /\ UNCHANGED <<room, client, bus, sessions, purged, stalled, overheard>>
  BY ONLY LiveType, c \in Clients, Lag(c), LagIs
<1>4. /\ ~socket[c].open => socket[c].up = <<>>
      /\ AllRight(socket[c].inbox, room.session, room.initialized, b)
      /\ AllRight(socket[c].up, room.session, room.initialized, b)
  BY <1>1, <1>2, OrderlyParts
<1>5. AllRight(s.inbox, room.session, room.initialized, b)
  <2>1. Resync.ops = {} /\ Right({}, room.session, room.initialized, b)
    BY ItemTypes, RightSets
  <2> QED
    BY <1>3, <1>4, <2>1 DEF AllRight
<1>6. ASSUME NEW d \in Clients
      PROVE  /\ socket'[d].open = socket[d].open /\ socket'[d].epoch = socket[d].epoch
             /\ ~socket[d].open => socket'[d].up = <<>>
             /\ AllRight(socket'[d].inbox, room.session, room.initialized, b)
             /\ AllRight(socket'[d].up, room.session, room.initialized, b)
  <2>1. CASE d = c
    <3>1. socket'[d] = s
      BY <1>3, <2>1 DEF LiveType
    <3> QED
      BY <1>3, <1>4, <1>5, <2>1, <3>1
  <2>2. CASE d # c
    <3>1. socket'[d] = socket[d]
      BY <1>3, <2>2 DEF LiveType
    <3> QED
      BY <1>1, <1>2, <3>1, OrderlyParts
  <2> QED
    BY <2>1, <2>2
<1>7. \A j \in Instances :
         /\ NoticesRight(bus'[j].notices, room.epoch, room.session, room.initialized, b)
         /\ \A n \in DOMAIN bus'[j].notices : bus'[j].notices[n].epoch <= room.epoch
  BY <1>1, <1>2, <1>3 DEF OneText, InSession
<1> QED
  BY ONLY LiveType, b \in Insertion, <1>1, <1>2, <1>3, <1>6, <1>7, QueuesOrderly

LEMMA OrderlyStep ==
  ASSUME LiveType, Attached, Orderly, ~purged', ~stalled', ~overheard', [Next]_vars
  PROVE  Orderly'
<1>17. ASSUME NEW c \in Clients, NEW s, socket' = [socket EXCEPT ![c] = s], ~socket[c].open,
              ~s.open, s.up = <<>>, s.inbox = <<>>, UNCHANGED <<room, client, bus, sessions>>
       PROVE  Orderly'
  <2>1. ASSUME NEW d \in Clients
        PROVE  \/ socket'[d] = socket[d] /\ (Row(d) \in room'.peers <=> Row(d) \in room.peers)
               \/ /\ ~socket'[d].open /\ socket'[d].up = <<>> /\ socket'[d].inbox = <<>>
                  /\ Row(d) \notin room'.peers
    <3>1. socket'[d] = IF d = c THEN s ELSE socket[d]
      BY <1>17 DEF LiveType
    <3>2. Row(c) \notin room.peers
      BY <1>17 DEF Orderly, InSession
    <3> QED
      BY <1>17, <3>1, <3>2
  <2>2. State(room') = State(room)
    BY <1>17
  <2> QED
    BY <1>17, <2>1, <2>2, EndOrderly
<1>18. ASSUME NEW c \in Clients, Subscribe(c) PROVE Orderly'
  <2>1. PICK s \in SocketType :
           /\ socket' = [socket EXCEPT ![c] = s] /\ ~socket[c].subscribed
           /\ ~s.open /\ s.up = <<>> /\ s.inbox = <<>>
           /\ UNCHANGED <<room, client, bus, sessions, purged, stalled, overheard, rare>>
    BY <1>18, SubscribeIs
  <2>2. ~socket[c].open
    BY <2>1 DEF Attached
  <2> QED
    BY <1>17, <2>1, <2>2
<1>19. ASSUME NEW c \in Clients, DropDraft(c) PROVE Orderly'
  BY <1>19, DropDraftOrderly
<1>1. ASSUME NEW c \in Clients, Connect(c) PROVE Orderly'
  BY <1>1, ConnectOrderly
<1>2. ASSUME NEW c \in Clients, Edit(c) PROVE Orderly'
  BY <1>2, EditOrderly
<1>3. ASSUME NEW c \in Clients, ServeEvent(c) PROVE Orderly'
  BY <1>3, ServeEventOrderly
<1>4. ASSUME NEW c \in Clients, ServeMessage(c) PROVE Orderly'
  BY <1>4, ServeMessageOrderly
<1>5. ASSUME NEW c \in Clients, CheckLease(c) PROVE Orderly'
  BY <1>5, CloseOrderly DEF CheckLease
<1>6. ASSUME NEW c \in Clients, LoseConnection(c) PROVE Orderly'
  <2>1. /\ bus' = bus /\ sessions' = sessions
        /\ \/ Close(c)
           \/ ~socket[c].open /\ socket' = [socket EXCEPT ![c] = Closed] /\ UNCHANGED <<room, client>>
    BY <1>6 DEF LoseConnection
  <2>2. CASE Close(c)
    BY <2>1, <2>2, CloseOrderly
  <2>3. CASE ~socket[c].open /\ socket' = [socket EXCEPT ![c] = Closed] /\ UNCHANGED <<room, client>>
    BY <1>17, <2>1, <2>3, ClosedType
  <2> QED
    BY <2>1, <2>2, <2>3
<1>7. ASSUME NEW c \in Clients, LeaseEnds(c) PROVE Orderly'
  <2>1. /\ room'.peers = room.peers \ {Ghost(c)}
        /\ room'.epoch = room.epoch /\ room'.session = room.session
        /\ room'.log = room.log /\ room'.snapshot = room.snapshot
        /\ room'.initialized = room.initialized
        /\ UNCHANGED <<client, socket, bus, sessions, purged, stalled, overheard, rare>>
    BY <1>7 DEF LeaseEnds, LiveType, RoomType
  <2>2. State(room') = State(room)
    BY <2>1 DEF State
  <2>3. \A d \in Clients : Row(d) # Ghost(c)
    <3>1. \A d \in Clients : Row(d).open = TRUE /\ Ghost(c).open = FALSE
      BY DEF Row, Ghost
    <3> QED
      BY <3>1
  <2> QED
    BY <2>1, <2>2, <2>3, EndOrderly
<1>8. ASSUME NEW c \in Clients, Stall(c) PROVE Orderly'
  BY <1>8 DEF Stall
<1>9. ASSUME NEW c \in Clients, Lag(c) PROVE Orderly'
  BY <1>9, LagOrderly
<1>10. ASSUME NEW i \in Instances, Notify(i) PROVE Orderly'
  BY <1>10, NotifyOrderly
<1>11. ASSUME NEW i \in Instances, Recover(i) PROVE Orderly'
  BY <1>11, RecoverOrderly
<1>12. ASSUME NEW i \in Instances, Crash(i) PROVE Orderly'
  <2>1. /\ room'.epoch = room.epoch /\ room'.session = room.session
        /\ room'.log = room.log
        /\ room'.snapshot = room.snapshot /\ room'.initialized = room.initialized
        /\ room'.peers # {} => room.peers # {}
        /\ \A c \in Clients : Row(c) \in room'.peers <=> Row(c) \in room.peers /\ c \notin HeardAt(i)
        /\ \A c \in Clients : socket'[c] = IF c \in HeardAt(i) THEN Closed ELSE socket[c]
        /\ bus' = [bus EXCEPT ![i] = Listening] /\ Listening.notices = <<>>
        /\ UNCHANGED <<client, sessions, purged, stalled, overheard>>
    BY <1>12, CrashIs
  <2>2. State(room') = State(room)
    BY <2>1 DEF State
  <2>3. \A j \in Instances : bus'[j].notices = bus[j].notices \/ bus'[j].notices = <<>>
    BY <2>1 DEF LiveType
  <2> QED
    BY <2>1, <2>2, <2>3, EndOrderly, ClosedType
<1>13. ASSUME NEW i \in Instances, Relisten(i) \/ LoseListener(i) PROVE Orderly'
  <2>1. UNCHANGED <<room, client, socket, sessions>>
    BY <1>13, ListenerIs
  <2>2. \A j \in Instances : bus'[j].notices = bus[j].notices \/ bus'[j].notices = <<>>
    BY <1>13, ListenerIs
  <2> QED
    BY <2>1, <2>2, EndOrderly
<1>14. ASSUME Purge PROVE Orderly'
  BY <1>14 DEF Purge
<1>15. ASSUME UNCHANGED vars PROVE Orderly'
  BY <1>15, EndOrderly DEF vars
<1>16. Next \/ UNCHANGED vars
  OBVIOUS
<1> QED
  BY ONLY <1>1, <1>2, <1>3, <1>4, <1>5, <1>6, <1>7, <1>8, <1>9, <1>10, <1>11, <1>12, <1>13,
          <1>14, <1>15, <1>16, <1>18, <1>19 DEF Next

-----------------------------------------------------------------------------
(* The theorems *)

LEMMA InvInit ==
  ASSUME Init PROVE DInv
<1>1. LiveType
  BY TypeInit
<1>2. \A c \in Clients : ~socket[c].open /\ socket[c].up = <<>> /\ socket[c].inbox = <<>>
  BY ClosedType DEF Init
<1>3. Attached /\ Reach
  BY <1>2 DEF Attached, Reach
<1>4. /\ room.epoch = 0 /\ room.session = 0 /\ room.log = <<>> /\ room.snapshot = {}
      /\ room.peers = {} /\ ~room.initialized /\ sessions = 0
      /\ \A c \in Clients : /\ client[c].doc = {} /\ client[c].draft = NoDraft
                            /\ client[c].epoch = 0 /\ client[c].session = 0
      /\ \A i \in Instances : bus[i].notices = <<>>
  BY DEF Init, Listening
<1>5. RoomState = {}
  BY <1>4 DEF RoomState
<1>6. InSession
  BY <1>2, <1>4 DEF InSession
<1>7. PICK b : b \in Insertion
  <2>1. PICK c \in Clients : TRUE
    BY LiveAssumption
  <2>2. [word |-> c, by |-> c, session |-> 0, k |-> 0] \in Insertion
    BY DEF Insertion, Words
  <2> QED
    BY <2>2
<1>8. OneText(b)
  BY <1>2, <1>4, <1>5 DEF OneText, Right, AllRight, NoticesRight, OwnText
<1> QED
  BY <1>1, <1>3, <1>6, <1>7, <1>8 DEF DInv, Orderly

\* A room that has been deleted, a lease that has lapsed and an update of an ended
\* session are remembered.
LEMMA FlagsStay ==
  ASSUME LiveType, [Next]_vars
  PROVE  (purged => purged') /\ (stalled => stalled') /\ (overheard => overheard')
<1> DEFINE Goal == (purged => purged') /\ (stalled => stalled') /\ (overheard => overheard')
<1>17. ASSUME NEW c \in Clients, Subscribe(c) PROVE Goal
  BY <1>17 DEF Subscribe
<1>18. ASSUME NEW c \in Clients, DropDraft(c) PROVE Goal
  BY <1>18 DEF DropDraft
<1>1. ASSUME NEW c \in Clients, Connect(c) PROVE Goal
  BY <1>1, ConnectIs
<1>2. ASSUME NEW c \in Clients, Edit(c) PROVE Goal
  BY <1>2 DEF Edit
<1>3. ASSUME NEW c \in Clients, ServeEvent(c) PROVE Goal
  BY <1>3 DEF ServeEvent
<1>4. ASSUME NEW c \in Clients, ServeMessage(c) PROVE Goal
  BY <1>4 DEF ServeMessage
<1>5. ASSUME NEW c \in Clients, CheckLease(c) PROVE Goal
  BY <1>5 DEF CheckLease
<1>6. ASSUME NEW c \in Clients, LoseConnection(c) PROVE Goal
  BY <1>6 DEF LoseConnection
<1>7. ASSUME NEW c \in Clients, LeaseEnds(c) PROVE Goal
  BY <1>7 DEF LeaseEnds
<1>8. ASSUME NEW c \in Clients, Stall(c) PROVE Goal
  BY <1>8 DEF Stall
<1>9. ASSUME NEW c \in Clients, Lag(c) PROVE Goal
  BY <1>9 DEF Lag
<1>10. ASSUME NEW i \in Instances, Notify(i) PROVE Goal
  BY <1>10, NotifyIs
<1>11. ASSUME NEW i \in Instances, Recover(i) PROVE Goal
  BY <1>11 DEF Recover
<1>12. ASSUME NEW i \in Instances, Crash(i) PROVE Goal
  BY <1>12 DEF Crash
<1>13. ASSUME NEW i \in Instances, Relisten(i) \/ LoseListener(i) PROVE Goal
  BY <1>13, ListenerIs
<1>14. ASSUME Purge PROVE Goal
  BY <1>14 DEF Purge
<1>15. ASSUME UNCHANGED vars PROVE Goal
  BY <1>15 DEF vars
<1>16. Next \/ UNCHANGED vars
  OBVIOUS
<1> QED
  BY ONLY <1>1, <1>2, <1>3, <1>4, <1>5, <1>6, <1>7, <1>8, <1>9, <1>10, <1>11, <1>12, <1>13,
          <1>14, <1>15, <1>16, <1>17, <1>18 DEF Next

\* The inductive invariant of live editing (xml_live.rs, cluster.rs, sharedFields.ts):
\* types, what is on its way to a connected browser, and, until a room is deleted, a lease
\* lapses under an open connection or an update of an ended session is sent on, to which
\* session each insertion belongs.
THEOREM LiveInvariant == Spec => []DInv
<1>1. Init => DInv
  BY InvInit
<1>2. DInv /\ [Next]_vars => DInv'
  <2> SUFFICES ASSUME DInv, [Next]_vars PROVE DInv'
    OBVIOUS
  <2>1. LiveType' /\ Attached' /\ Reach'
    BY TypeStep, AttachedStep, ReachStep DEF DInv
  <2>2. ASSUME ~purged', ~stalled', ~overheard' PROVE Orderly'
    <3>1. ~purged /\ ~stalled /\ ~overheard
      BY <2>2, FlagsStay DEF DInv
    <3> QED
      BY <2>2, <3>1, OrderlyStep DEF DInv
  <2> QED
    BY <2>1, <2>2 DEF DInv
<1> QED
  BY <1>1, <1>2, PTL DEF Spec

\* No update is left behind (xml_live.rs, cluster.rs): with any number of browsers and
\* instances, whatever the room holds is in the replica of a browser of the session or
\* on its way to it, through every order of joins, foldings of the log, lost listeners,
\* missed events and crashes, deleted rooms and lapsed leases included.
THEOREM NoUpdateIsLeftBehind == Spec => []UpdatesReachEveryPeer
<1>1. DInv => UpdatesReachEveryPeer
  <2> SUFFICES ASSUME DInv, NEW c \in Clients, socket[c].open, Active(c), NEW op \in RoomState
               PROVE  op \in client[c].doc \cup EnRoute(c)
    BY DEF UpdatesReachEveryPeer
  <2> DEFINE inbox == socket[c].inbox
             notices == bus[socket[c].at].notices
  <2>1. LiveType /\ Caught(c)
    BY DEF DInv, Reach
  <2>2. notices \in Seq(Notice)
    BY <2>1, Parts
  <2>3. CASE \/ Deaf(bus[socket[c].at])
             \/ \E n \in DOMAIN inbox : inbox[n].kind \in {"first", "resync"}
    BY <2>3 DEF EnRoute, Deaf
  <2>4. CASE /\ ~(\/ Deaf(bus[socket[c].at])
                  \/ \E n \in DOMAIN inbox : inbox[n].kind \in {"first", "resync"})
             /\ op \notin client[c].doc
    <3>1. EnRoute(c) = UNION ({inbox[n].ops : n \in DOMAIN inbox}
                              \cup {Announced(notices[n]) : n \in DOMAIN notices})
      BY <2>4 DEF EnRoute, Deaf
    <3>2. \/ \E n \in DOMAIN inbox : op \in inbox[n].ops
          \/ \E n \in DOMAIN notices : Covers(notices[n], op)
      BY <2>1, <2>4 DEF Caught
    <3>3. ASSUME NEW n \in DOMAIN notices, Covers(notices[n], op)
          PROVE  op \in Announced(notices[n])
      <4>1. notices[n] \in Notice
        BY <2>2
      <4> QED
        BY <2>1, <3>3, <4>1, AnnouncedIs
    <3> HIDE DEF inbox, notices
    <3> QED
      BY <3>1, <3>2, <3>3
  <2> QED
    BY <2>3, <2>4
<1> QED
  BY <1>1, LiveInvariant, PTL

\* The room and the browsers never hold the native text twice, and a session never takes
\* in an insertion of an earlier one (xml_live.rs, sharedFields.ts), however often
\* browsers reconnect and instances crash, as long as no room is deleted, no lease lapses
\* under an open connection and no update of an ended session is sent on: those three are
\* all that epochs, the request to initialize and the carried draft leave open.
THEOREM TextsMergeOnce == Spec => []InitialTextOnce
<1>1. DInv => InitialTextOnce
  <2> SUFFICES ASSUME DInv, ~purged, ~stalled, ~overheard
               PROVE  /\ \A ops \in {RoomState} \cup {client[c].doc : c \in Clients} :
                            Cardinality(Bases(ops)) <= 1
                      /\ \A op \in RoomState : op.session = room.session
    BY DEF InitialTextOnce
  <2>1. PICK b \in Insertion : OneText(b)
    BY DEF DInv, Orderly
  <2>2. /\ \A op \in RoomState : op.session = room.session
        /\ \A op, op1 \in RoomState : op.word = Base /\ op1.word = Base => op = op1
    BY <2>1 DEF OneText, Right, Fine
  <2>3. ASSUME NEW c \in Clients PROVE Cardinality(Bases(client[c].doc)) <= 1
    <3>1. \A op, op1 \in client[c].doc : op.word = Base /\ op1.word = Base => op = op1
      BY <2>1 DEF OneText, OwnText
    <3> QED
      BY <3>1, OneBase
  <2>4. Cardinality(Bases(RoomState)) <= 1
    BY <2>2, OneBase
  <2> QED
    BY <2>2, <2>3, <2>4
<1> QED
  BY <1>1, LiveInvariant, PTL
=============================================================================
