---------------------------- MODULE LiveDocument ----------------------------
(***************************************************************************)
(* Live text of one field of a GAEB document: the browsers of sharedFields *)
(* and live.ts, the API instances that serve their sockets (xml_live.rs),  *)
(* and the room they share in PostgreSQL (xml_live/cluster.rs).            *)
(*                                                                         *)
(* The document type (Yjs/yrs) is external: a replica is the set of        *)
(* insertions it has seen, merging is union, and its text is the bag of    *)
(* their words.  Deletions, positions, cursors and presence are left out.  *)
(* A client types at most one word, its own; Base stands for the text the  *)
(* native file holds.  Between a server's send and the browser's receipt   *)
(* nothing happens here: the delay lies in `inbox`, before the send.       *)
(***************************************************************************)
EXTENDS Integers, Sequences, FiniteSets

CONSTANTS
    Clients,        \* browsers that have the document open
    Instances,      \* API instances
    Base,           \* the text of the native file
    NoDraft,        \* no text waits for the room (field.pending undefined)
    CompactAfter,   \* updates in the log before it is folded (COMPACT_BYTES)
    MaxRare         \* bound on lost connections, crashes and other faults

ASSUME LiveAssumption ==
    /\ Base \notin Clients
    /\ IsFiniteSet(Clients) /\ Clients # {}
    /\ Instances # {}
    /\ CompactAfter \in Nat \ {0}
    /\ MaxRare \in Nat

VARIABLES
    room,       \* the rows of the room: epoch (0: no row), log, snapshot, peers
    client,     \* per browser: its replica, its draft and its session
    socket,     \* per browser: the connection and the two queues along it
    bus,        \* per instance: the LISTEN connection, its notifications, and the
                \* epochs of the local entries
    sessions,   \* sessions begun so far; tells apart rooms of equal epoch
    purged,     \* an idle room has been deleted
    stalled,    \* a lease has lapsed under an open connection
    overheard,  \* an update of an ended session is on its way to a connection
    rare        \* faults so far

vars == <<room, client, socket, bus, sessions, purged, stalled, overheard, rare>>

Words == Clients \cup {Base}

\* An insertion: its word, who made it, in a replica of which session, and its
\* number among the equal words of a draft.
Insertion == [word : Words, by : Clients, session : Nat, k : Nat]

First  == [kind |-> "first",  ops |-> {}]    \* the state sent after `ready`
Resync == [kind |-> "resync", ops |-> {}]
Asked  == [kind |-> "initialize", ops |-> {}]
Changed(ops) == [kind |-> "update", ops |-> ops]

Closed == [subscribed |-> FALSE, open |-> FALSE, at |-> CHOOSE i \in Instances : TRUE,
           epoch |-> 0, up |-> <<>>, inbox |-> <<>>]

\* The listener of an instance that has just started.
Listening == [listener |-> "on", reconnect |-> FALSE, notices |-> <<>>, local |-> {}]

Init ==
    /\ room = [epoch |-> 0, session |-> 0, checkpoint |-> 0, log |-> <<>>,
               snapshot |-> {}, initialized |-> FALSE, peers |-> {}]
    /\ client = [c \in Clients |->
                    [doc |-> {}, draft |-> NoDraft, epoch |-> 0, session |-> 0,
                     typed |-> FALSE, dropped |-> FALSE]]
    /\ socket = [c \in Clients |-> Closed]
    /\ bus = [i \in Instances |-> Listening]
    /\ sessions = 0
    /\ purged = FALSE /\ stalled = FALSE /\ overheard = FALSE
    /\ rare = 0

-----------------------------------------------------------------------------
(* The text of a replica *)

Text(ops) == [w \in Words |-> Cardinality({op \in ops : op.word = w})]

Baseline == [w \in Words |-> IF w = Base THEN 1 ELSE 0]

\* What a client has to say in a new session: its text, not its insertions.
Carried(me) ==
    LET pending == IF me.draft # NoDraft THEN me.draft
                   ELSE IF me.doc = {} THEN NoDraft ELSE Text(me.doc)
    IN  IF pending = Baseline THEN NoDraft ELSE pending

\* Mutant: a draft is dropped when the room already has other text.
ReappliedMutant(c, me, ops) ==
    IF me.draft = NoDraft \/ Text(ops) # Baseline THEN {}
    ELSE UNION {{[word |-> w, by |-> c, session |-> me.session, k |-> n] :
                     n \in 1..(me.draft[w] - Baseline[w])} : w \in Words}

\* The insertions that bring a draft into a replica: its words beyond the
\* baseline, unless the replica already reads like the draft.
Reapplied(c, me, ops) ==
    IF me.draft = NoDraft \/ ops = {} \/ Text(ops) = me.draft THEN {}
    ELSE UNION {{[word |-> w, by |-> c, session |-> me.session, k |-> n] :
                     n \in 1..(me.draft[w] - Baseline[w])} : w \in Words}

-----------------------------------------------------------------------------
(* The room *)

Row(c)   == [client |-> c, open |-> TRUE]
Ghost(c) == [client |-> c, open |-> FALSE]   \* a row nobody removed

RoomState == room.snapshot \cup UNION {room.log[n] : n \in DOMAIN room.log}

\* The session the connection joined goes on and its lease is valid.
Active(c) == Row(c) \in room.peers /\ room.epoch = socket[c].epoch

\* The log with one more update, folded into the snapshot when it is long.
Logged(r, ops) ==
    LET log == Append(r.log, ops)
    IN  IF Len(log) >= CompactAfter
        THEN [r EXCEPT !.snapshot = @ \cup UNION {log[n] : n \in DOMAIN log},
                       !.checkpoint = @ + Len(log),
                       !.log = <<>>]
        ELSE [r EXCEPT !.log = log]

\* An update that carries the whole text is too long for a notification: its
\* listeners read the row of the log instead.
Long(ops) == \E op \in ops : op.word = Base

Publish(ops) ==
    LET notice == [epoch |-> room.epoch,
                   seq |-> room.checkpoint + Len(room.log) + 1,
                   ops |-> IF Long(ops) THEN {} ELSE ops]
    IN  bus' = [i \in Instances |->
                   IF bus[i].listener = "on"
                   THEN [bus[i] EXCEPT !.notices = Append(@, notice)]
                   ELSE bus[i]]

\* Mutant: a row that has been folded is not replaced by the state.
AnnouncedMutant(notice) ==
    LET row == notice.seq - room.checkpoint
    IN  IF notice.ops # {} THEN notice.ops
        ELSE IF row \in DOMAIN room.log THEN room.log[row]
        ELSE {}

\* What a listener sends on: the data itself, the row it names, or, when the
\* row has been folded, the whole state.
Announced(notice) ==
    LET row == notice.seq - room.checkpoint
    IN  IF notice.ops # {} THEN notice.ops
        ELSE IF row \in DOMAIN room.log THEN room.log[row]
        ELSE RoomState

\* A fresh session forgets the log: its replicas start from the native text.
Joined(c) ==
    IF room.peers # {}
    THEN [room EXCEPT !.peers = @ \cup {Row(c)}]
    ELSE [epoch |-> (IF room.epoch = 0 THEN 1 ELSE room.epoch) + 1,
          session |-> sessions + 1, checkpoint |-> 0, log |-> <<>>,
          snapshot |-> {}, initialized |-> FALSE, peers |-> {Row(c)}]

-----------------------------------------------------------------------------
(* The browser *)

\* The replica a client goes on with: a new one, and its text as a draft, when
\* the epoch is not the one it knows.
Continued(me, r) ==
    IF me.epoch \notin {0, r.epoch}
    THEN [me EXCEPT !.doc = {}, !.draft = Carried(me), !.epoch = r.epoch,
                    !.session = r.session]
    ELSE [me EXCEPT !.epoch = r.epoch,
                    !.session = IF me.epoch = 0 THEN r.session ELSE @]

\* A socket hears the events of the hub before it joins the room.
Subscribe(c) ==
    /\ ~socket[c].subscribed
    /\ \E i \in Instances :
          socket' = [socket EXCEPT ![c] = [Closed EXCEPT !.subscribed = TRUE, !.at = i]]
    /\ UNCHANGED <<room, client, bus, sessions, purged, stalled, overheard, rare>>

\* An update waits for a socket that has not joined yet.
Waiting(c) ==
    /\ ~socket[c].open
    /\ \E n \in DOMAIN socket[c].inbox : socket[c].inbox[n].kind = "update"

\* What was heard before the join is sent on after the first state.
Connect(c) ==
    /\ socket[c].subscribed /\ ~socket[c].open
    /\ LET r  == Joined(c)
           me == Continued(client[c], r)
       IN  /\ room' = r
           /\ sessions' = IF room.peers = {} THEN sessions + 1 ELSE sessions
           /\ client' = [client EXCEPT ![c] = me]
           /\ socket' = [socket EXCEPT ![c].open = TRUE, ![c].epoch = r.epoch,
                 ![c].up = IF me.doc = {} THEN <<Asked>> ELSE <<Changed(me.doc)>>,
                 ![c].inbox = <<First>> \o @]
           /\ bus' = [bus EXCEPT ![socket[c].at].local = @ \cup {r.epoch}]
    /\ overheard' = (overheard \/ (room.peers = {} /\ \E d \in Clients : Waiting(d)))
    /\ UNCHANGED <<purged, stalled, rare>>

Edit(c) ==
    LET me == client[c]
        op == [word |-> c, by |-> c, session |-> me.session, k |-> 0]
        text == IF me.draft = NoDraft THEN Baseline ELSE me.draft
    IN  /\ ~me.typed
        /\ client' = [client EXCEPT ![c] =
              IF me.doc = {}
              THEN [me EXCEPT !.typed = TRUE, !.draft = [text EXCEPT ![c] = @ + 1]]
              ELSE [me EXCEPT !.typed = TRUE, !.doc = @ \cup {op}]]
        /\ socket' = IF socket[c].open /\ me.doc # {}
                     THEN [socket EXCEPT ![c].up = Append(@, Changed({op}))]
                     ELSE socket
        /\ UNCHANGED <<room, bus, sessions, purged, stalled, overheard, rare>>

\* The connection ends in order: its row goes, and the browser keeps its replica.
\* The local entry goes some time after the row; the listener finds out.
Leave(c) ==
    /\ room' = [room EXCEPT !.peers = @ \ {Row(c)}]
    /\ socket' = [socket EXCEPT ![c] = Closed]

Close(c) == Leave(c) /\ UNCHANGED client

\* A message of the server reaches the replica, and with the first text the
\* draft is reapplied and sent.
Receive(c, ops) ==
    LET me  == client[c]
        all == me.doc \cup ops
        own == Reapplied(c, me, all)
        rest == Tail(socket[c].inbox)
    IN  /\ client' = [client EXCEPT ![c].doc = all \cup own,
                                    ![c].draft = IF all = {} THEN @ ELSE NoDraft]
        /\ socket' = [socket EXCEPT ![c].inbox = rest,
                         ![c].up = IF own = {} THEN @ ELSE Append(@, Changed(own))]
        /\ UNCHANGED room

-----------------------------------------------------------------------------
(* The server's end of a connection *)

\* An event of the hub is sent on.  The first state is read without asking
\* whether the session still is the one that was joined.
ServeEvent(c) ==
    LET item == Head(socket[c].inbox)
    IN  /\ socket[c].open
        /\ socket[c].inbox # <<>>
        /\ CASE item.kind = "update" -> Receive(c, item.ops)
             [] item.kind = "first"  -> IF room.epoch = 0 THEN Close(c)
                                        ELSE Receive(c, RoomState)
             [] item.kind = "resync" -> IF Active(c) THEN Receive(c, RoomState)
                                        ELSE Close(c)
        /\ UNCHANGED <<bus, sessions, purged, stalled, overheard, rare>>

\* Mutant: every request to initialize is logged.
AcceptedMutant(msg) == TRUE

\* Of the requests to initialize the field only the first one is logged.
Accepted(msg) == msg.kind = "initialize" => ~room.initialized

\* A message of the browser: what is accepted is logged and announced; one of an
\* ended session breaks the connection.
ServeMessage(c) ==
    LET msg  == Head(socket[c].up)
        asks == msg.kind = "initialize"
        base == [word |-> Base, by |-> c, session |-> room.session, k |-> 0]
        ops  == IF asks THEN {base} ELSE msg.ops
    IN  /\ socket[c].open
        /\ socket[c].up # <<>>
        /\ First \notin {socket[c].inbox[n] : n \in DOMAIN socket[c].inbox}
        /\ IF ~Active(c)
           THEN Close(c) /\ UNCHANGED bus
           ELSE /\ socket' = [socket EXCEPT ![c].up = Tail(@)]
                /\ IF Accepted(msg)
                   THEN /\ room' = [Logged(room, ops) EXCEPT !.initialized = @ \/ asks]
                        /\ Publish(ops)
                   ELSE UNCHANGED <<room, bus>>
                /\ UNCHANGED client
        /\ UNCHANGED <<sessions, purged, stalled, overheard, rare>>

\* The check every 30 seconds ends a connection whose lease or session is gone.
CheckLease(c) ==
    /\ socket[c].open
    /\ ~Active(c)
    /\ First \notin {socket[c].inbox[n] : n \in DOMAIN socket[c].inbox}
    /\ Close(c)
    /\ UNCHANGED <<bus, sessions, purged, stalled, overheard, rare>>

-----------------------------------------------------------------------------
(* The notifications of an instance *)

HeardAt(i) == {c \in Clients : socket[c].subscribed /\ socket[c].at = i}

\* The epochs of the local entries that are certainly there: leave has not been
\* called for them.
JoinedAt(i) == {socket[c].epoch : c \in {d \in HeardAt(i) : socket[d].open}}

\* An event of the room goes to every socket that hears it on this instance.
Send(i, item) ==
    socket' = [c \in Clients |->
                  IF c \in HeardAt(i)
                  THEN [socket[c] EXCEPT !.inbox = Append(@, item)]
                  ELSE socket[c]]

\* A notification is sent on when a local entry has its epoch.  An entry of a
\* connection that has left is still there or not.
Notify(i) ==
    LET notice == Head(bus[i].notices)
        rest   == [bus EXCEPT ![i].notices = Tail(@)]
    IN  /\ bus[i].notices # <<>> /\ ~bus[i].reconnect
        /\ \/ /\ notice.epoch \in bus[i].local
              /\ bus' = rest
              /\ Send(i, Changed(Announced(notice)))
              /\ overheard' = (overheard \/ (notice.epoch # room.epoch /\ HeardAt(i) # {}))
           \/ /\ notice.epoch \notin JoinedAt(i)
              /\ bus' = [rest EXCEPT ![i].local = @ \ {notice.epoch}]
              /\ UNCHANGED <<socket, overheard>>
        /\ UNCHANGED <<room, client, sessions, purged, stalled, rare>>

\* After a failed attempt the listener listens again without a word.
Relisten(i) ==
    /\ bus[i].listener = "failed"
    /\ bus' = [bus EXCEPT ![i].listener = "on"]
    /\ UNCHANGED <<room, client, socket, sessions, purged, stalled, overheard, rare>>

\* Every connection of the room is told to read the state: at once when the listener
\* listens again at its first attempt, otherwise before its next notification, be it
\* one of a cursor, a peer or a saved version.
Recover(i) ==
    LET again == [bus EXCEPT ![i].listener = "on", ![i].reconnect = FALSE]
    IN  /\ bus[i].listener = "lost" \/ (bus[i].listener = "on" /\ bus[i].reconnect)
        /\ \/ /\ bus[i].local # {}
              /\ bus' = again
              /\ Send(i, Resync)
           \/ /\ JoinedAt(i) = {}
              /\ bus' = [again EXCEPT ![i].local = {}]
              /\ UNCHANGED socket
        /\ UNCHANGED <<room, client, sessions, purged, stalled, overheard, rare>>

-----------------------------------------------------------------------------
(* Faults and time *)

Fault == rare < MaxRare /\ rare' = rare + 1

LoseConnection(c) ==
    /\ socket[c].subscribed
    /\ Fault
    /\ IF socket[c].open
       THEN Close(c)
       ELSE socket' = [socket EXCEPT ![c] = Closed] /\ UNCHANGED <<room, client>>
    /\ UNCHANGED <<bus, sessions, purged, stalled, overheard>>

\* Comparing a draft with the text may run out of time: the draft is gone already
\* and the browser closes the socket.
DropDraft(c) ==
    LET item == Head(socket[c].inbox)
        all  == client[c].doc \cup (IF item.kind = "update" THEN item.ops ELSE RoomState)
    IN  /\ socket[c].open
        /\ socket[c].inbox # <<>>
        /\ item.kind = "first" => room.epoch # 0
        /\ item.kind = "resync" => Active(c)
        /\ Reapplied(c, client[c], all) # {}
        /\ Fault
        /\ Leave(c)
        /\ client' = [client EXCEPT ![c].doc = all, ![c].draft = NoDraft, ![c].dropped = TRUE]
        /\ UNCHANGED <<bus, sessions, purged, stalled, overheard>>

\* Nobody removes the rows of a crashed instance.
Crash(i) ==
    /\ HeardAt(i) # {}
    /\ Fault
    /\ room' = [room EXCEPT !.peers =
                   {IF row.open /\ row.client \in HeardAt(i)
                    THEN Ghost(row.client) ELSE row : row \in @}]
    /\ socket' = [c \in Clients |-> IF c \in HeardAt(i) THEN Closed ELSE socket[c]]
    /\ bus' = [bus EXCEPT ![i] = Listening]
    /\ UNCHANGED <<client, sessions, purged, stalled, overheard>>

LeaseEnds(c) ==
    /\ Ghost(c) \in room.peers
    /\ room' = [room EXCEPT !.peers = @ \ {Ghost(c)}]
    /\ UNCHANGED <<client, socket, bus, sessions, purged, stalled, overheard, rare>>

\* An instance that cannot renew its leases for 45 seconds loses them.
Stall(c) ==
    /\ Row(c) \in room.peers
    /\ Fault
    /\ room' = [room EXCEPT !.peers = @ \ {Row(c)}]
    /\ stalled' = TRUE
    /\ UNCHANGED <<client, socket, bus, sessions, purged, overheard>>

\* The connection of the listener is lost, and the first attempt to replace it may
\* fail.
LoseListener(i) ==
    /\ bus[i].listener = "on"
    /\ Fault
    /\ \/ bus' = [bus EXCEPT ![i].listener = "lost", ![i].notices = <<>>]
       \/ bus' = [bus EXCEPT ![i].listener = "failed", ![i].reconnect = TRUE,
                             ![i].notices = <<>>]
    /\ UNCHANGED <<room, client, socket, sessions, purged, stalled, overheard>>

\* A slow connection misses the oldest event of the hub.
Lag(c) ==
    /\ Len(socket[c].inbox) > 1
    /\ Head(socket[c].inbox) # First
    /\ Fault
    /\ socket' = [socket EXCEPT ![c].inbox = <<Resync>> \o Tail(@)]
    /\ UNCHANGED <<room, client, bus, sessions, purged, stalled, overheard>>

\* A room nobody has joined for a day is deleted, and with it its epoch; here
\* once in a behaviour.
Purge ==
    /\ ~purged
    /\ room.epoch # 0
    /\ room.peers = {}
    /\ room' = [room EXCEPT !.epoch = 0, !.session = 0, !.checkpoint = 0,
                            !.log = <<>>, !.snapshot = {}, !.initialized = FALSE]
    /\ purged' = TRUE
    /\ UNCHANGED <<client, socket, bus, sessions, stalled, overheard, rare>>

-----------------------------------------------------------------------------
Next ==
    \/ \E c \in Clients :
         \/ Subscribe(c) \/ Connect(c) \/ Edit(c) \/ ServeEvent(c) \/ ServeMessage(c)
         \/ CheckLease(c) \/ LoseConnection(c) \/ DropDraft(c)
         \/ LeaseEnds(c) \/ Stall(c) \/ Lag(c)
    \/ \E i \in Instances :
         Notify(i) \/ Relisten(i) \/ Recover(i) \/ Crash(i) \/ LoseListener(i)
    \/ Purge

Spec == Init /\ [][Next]_vars

\* Browsers reconnect, sockets are served, notifications arrive, the lease check
\* and the listener's reconnection come round.  A listener that recovers late does so
\* with an update, and nobody waits for a cursor to move.
FairSpec ==
    /\ Spec
    /\ \A c \in Clients :
         /\ WF_vars(Subscribe(c))
         /\ WF_vars(Connect(c))
         /\ WF_vars(ServeEvent(c))
         /\ WF_vars(ServeMessage(c))
         /\ WF_vars(CheckLease(c))
    /\ \A i \in Instances :
         /\ WF_vars(Notify(i))
         /\ WF_vars(Relisten(i))
         /\ WF_vars((bus[i].listener = "lost" \/ bus[i].notices # <<>>) /\ Recover(i))

-----------------------------------------------------------------------------
(* Properties *)

Bases(ops) == {op \in ops : op.word = Base}

\* Two replicas never merge two initial texts: neither the room nor a browser
\* holds the native text twice, and no insertion of an earlier session enters the
\* room of a later one, through every reconnection, crash and change of session.
\* Three events are excepted, and with each of them TLC finds a doubled text: the
\* deletion of an idle room, which starts its epochs again; a lease that lapses under
\* an open connection, whose browser then sees another session; and an update of an
\* ended session that reaches a connection of the next one, because a socket hears
\* events before it joins, because leave removes the local entry after the row, and
\* because events are sent on whatever their epoch.
InitialTextOnce ==
    ~purged /\ ~stalled /\ ~overheard =>
        /\ \A ops \in {RoomState} \cup {client[c].doc : c \in Clients} :
              Cardinality(Bases(ops)) <= 1
        /\ \A op \in RoomState : op.session = room.session

\* What is on its way to a connection.
EnRoute(c) ==
    LET inbox  == socket[c].inbox
        notices == bus[socket[c].at].notices
    IN  IF \/ bus[socket[c].at].listener # "on" \/ bus[socket[c].at].reconnect
           \/ \E n \in DOMAIN inbox : inbox[n].kind \in {"first", "resync"}
        THEN RoomState
        ELSE UNION ({inbox[n].ops : n \in DOMAIN inbox}
                    \cup {Announced(notices[n]) : n \in DOMAIN notices})

\* Whatever the room holds, a browser in its session has or will get: no order
\* of joins, compactions, lost or late notifications leaves an update behind.
UpdatesReachEveryPeer ==
    \A c \in Clients :
        socket[c].open /\ Active(c) => RoomState \subseteq client[c].doc \cup EnRoute(c)

Shows(c, w) == client[c].doc # {} /\ Text(client[c].doc)[w] > 0

\* A word typed on one screen, online or not, comes to be on every screen, unless a
\* draft of its browser was dropped, and unless a listener that had to reconnect
\* twice hears nothing any more.
EditsReachEveryone ==
    \A c \in Clients : client[c].typed ~>
        \/ \A d \in Clients : Shows(d, c)
        \/ client[c].dropped
        \/ \E i \in Instances : bus[i].reconnect

\* Expiring rows and epochs let browsers reconnect without doubled initial texts.
\* Once an idle room has been deleted they do not: its epochs start again, so a
\* browser that was away meanwhile finds the number it knows and sends the
\* insertions of the old room into the new one.
ReconnectsWithoutDoubledText ==
    ~stalled /\ ~overheard => Cardinality(Bases(RoomState)) <= 1
=============================================================================
