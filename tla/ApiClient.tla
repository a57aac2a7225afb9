----------------------------- MODULE ApiClient -----------------------------
(***************************************************************************)
(* The API client of the web applications (client/src/index.ts): queries   *)
(* with a cache and shared requests, a stream that reloads after its own   *)
(* mutations, logout, and the batches that carry all calls (rpc.ts).       *)
(*                                                                         *)
(* There is one query, so a cache key is its authentication scope: the     *)
(* bearer token of the moment, None for "anonymous".  The data of the      *)
(* query is the set of mutations the server has executed.  A read of all  *)
(* keys of the cache and the deletions after it are one step: an entry    *)
(* written in between survives like one written right after it.            *)
(***************************************************************************)
EXTENDS Naturals

CONSTANTS
    Tokens,       \* sessions the server grants
    Kinds,        \* how queries are made: strategies, and "first" for a stream
    Calls,        \* executions of the query: calls, and the reloads of the stream
    Mutations,
    Logouts,      \* logouts under way at once; a further automatic one is not started
    MaxRare,      \* failed batches, expired sessions and logouts by the user, together
    None,
    Unauthorized, \* answer: HTTP 401
    Offline       \* answer: no connection, or a failed batch

ASSUME ApiAssumption ==
    /\ None \notin Tokens \cup Calls \cup Mutations \cup {Unauthorized, Offline}
    /\ Calls \cap Mutations = {}
    /\ \A d \in SUBSET Mutations : d \notin {None, Unauthorized, Offline}
    /\ Kinds \subseteq {"cache-only", "cache-first", "network-first", "network-only", "first"}
    /\ MaxRare \in Nat

VARIABLES
    token,        \* bearerToken
    cache,        \* [scope -> data]: the entries of the query
    pending,      \* [scope -> the request to share]: _pendingRequests
    requests,     \* the operations of the batch transport
    calls, stream, mutations, logouts,
    data, sessions, granted,   \* the server
    rare,
    older         \* history: [token -> requests made before its session began]

vars == <<token, cache, pending, requests, calls, stream, mutations, logouts,
          data, sessions, granted, rare, older>>

Scopes   == Tokens \cup {None}
Requests == Calls \cup Mutations
Data     == SUBSET Mutations
Errors   == {Unauthorized, Offline}
Answers  == {None} \cup Errors \cup Data

NoRequest == [step |-> "none", auth |-> None, mates |-> {}, answer |-> None]
NoCall    == [step |-> "idle", kind |-> None, key |-> None, scope |-> None, req |-> None,
              value |-> None, since |-> {}]
NoLogout  == [step |-> "idle", auth |-> None]

Init ==
    /\ token     = None
    /\ cache     = [s \in Scopes |-> None]
    /\ pending   = [s \in Scopes |-> None]
    /\ requests  = [r \in Requests |-> NoRequest]
    /\ calls     = [c \in Calls |-> NoCall]
    /\ stream    = [step |-> "off", key |-> None, shown |-> None]
    /\ mutations = [m \in Mutations |-> [step |-> "idle", scope |-> None]]
    /\ logouts   = [l \in Logouts |-> NoLogout]
    /\ data      = {}
    /\ sessions  = {}
    /\ granted   = {}
    /\ rare      = 0
    /\ older     = [t \in Tokens |-> {}]

server == <<data, sessions, granted>>

Rare == rare < MaxRare /\ rare' = rare + 1

-----------------------------------------------------------------------------
(* RpcBatchClient: what is queued in one turn travels in one request       *)

Queue(r) == requests' = [requests EXCEPT ![r].step = "queued"]

\* flush and send: the bearer token is read now.
Flush(kind) ==
    /\ \E r \in kind : requests[r].step = "queued"
    /\ LET batch == {r \in kind : requests[r].step = "queued"}
       IN  requests' = [r \in Requests |->
               IF r \in batch THEN [requests[r] EXCEPT !.step = "sent", !.auth = token, !.mates = batch]
               ELSE requests[r]]
    /\ UNCHANGED <<token, cache, pending, calls, stream, mutations, logouts, server, rare, older>>

\* The server executes one operation of a batch.
Serve(r) ==
    /\ requests[r].step = "sent"
    /\ LET known == requests[r].auth \in sessions
       IN  /\ requests' = [requests EXCEPT ![r] =
                  [@ EXCEPT !.step = "served", !.auth = None,
                            !.answer = IF known THEN data \cup (Mutations \cap {r}) ELSE Unauthorized]]
           /\ data' = IF known THEN data \cup (Mutations \cap {r}) ELSE data
    /\ UNCHANGED <<sessions, token, cache, pending, calls, stream, mutations, logouts, granted, rare, older>>

\* The answers of a batch arrive together.
Deliver(r) ==
    /\ requests[r].step = "served"
    /\ \A q \in requests[r].mates : requests[q].step = "served"
    /\ requests' = [q \in Requests |->
           IF q \in requests[r].mates
           THEN [NoRequest EXCEPT !.step = "settled", !.answer = requests[q].answer] ELSE requests[q]]
    /\ UNCHANGED <<token, cache, pending, calls, stream, mutations, logouts, server, rare, older>>

\* A mutant of Fail: the error reaches the first operation of the batch only.
FailMutant(r) ==
    /\ requests[r].step \in {"sent", "served"}
    /\ Rare
    /\ r = CHOOSE q \in requests[r].mates : TRUE
    /\ requests' = [q \in Requests |->
           CASE q = r -> [requests[q] EXCEPT !.step = "settled", !.answer = Offline]
             [] q \in requests[r].mates \ {r} -> [requests[q] EXCEPT !.step = "none"]
             [] OTHER -> requests[q]]
    /\ UNCHANGED <<token, cache, pending, calls, stream, mutations, logouts, server, older>>

\* The connection fails, before or after the server has executed operations of the batch.
Fail(r) ==
    /\ requests[r].step \in {"sent", "served"}
    /\ Rare
    /\ requests' = [q \in Requests |->
           IF q \in requests[r].mates
           THEN [NoRequest EXCEPT !.step = "settled", !.answer = Offline] ELSE requests[q]]
    /\ UNCHANGED <<token, cache, pending, calls, stream, mutations, logouts, server, older>>

-----------------------------------------------------------------------------
(* Tokens                                                                  *)

SetToken(t) == token' = t

\* logout up to its first await.
BeginLogout ==
    IF \E l \in Logouts : logouts[l].step = "idle"
    THEN \E l \in Logouts :
            /\ logouts[l].step = "idle"
            /\ logouts' = [logouts EXCEPT ![l].step = "clearing"]
    ELSE UNCHANGED logouts

\* _autoLogoutOnAuthError
AutoLogout(answer, scope) ==
    IF answer = Unauthorized /\ scope = token THEN BeginLogout ELSE UNCHANGED logouts

-----------------------------------------------------------------------------
(* Queries                                                                 *)

\* A mutant of CacheKey: one entry for all sessions.
CacheKeyMutant(t) == None

CacheKey(t) == t

\* _fetch with _dedupeRequest: join the request of this key or make one.
Fetch(c, call) ==
    LET join == pending[call.key] # None
        req  == IF join THEN pending[call.key] ELSE c
    IN  /\ calls'   = [calls EXCEPT ![c] = [call EXCEPT !.step = "waiting", !.scope = token, !.req = req]]
        /\ pending' = [pending EXCEPT ![call.key] = req]
        /\ IF join THEN UNCHANGED requests ELSE Queue(c)

\* The result goes to the caller, or to the subscriber of the stream.
End(c, value) ==
    LET call == calls[c]
    IN  /\ calls' = [calls EXCEPT ![c] = [NoCall EXCEPT !.step = "done"]]
        /\ stream' = IF call.kind \in {"first", "reload"}
                     THEN [stream EXCEPT !.step = "listening", !.shown = value] ELSE stream

Confirmed == {m \in Mutations : mutations[m].step = "done"}

NewCall(kind, key) == [NoCall EXCEPT !.kind = kind, !.key = key, !.since = Confirmed]

\* Strategies that do not look into the cache first.
Direct == {"network-only", "network-first"}

\* queryDynamic; "first" is the generator of streamQuery, a cache-first one.
Query(c, kind) ==
    /\ calls[c].step = "idle"
    /\ kind = "first" => stream.step = "off"
    /\ stream' = IF kind = "first" THEN [step |-> "starting", key |-> CacheKey(token), shown |-> None]
                 ELSE stream
    /\ IF kind \in Direct
       THEN Fetch(c, NewCall(kind, CacheKey(token)))
       ELSE /\ calls' = [calls EXCEPT ![c] = [NewCall(kind, CacheKey(token)) EXCEPT !.step = "lookup"]]
            /\ UNCHANGED <<pending, requests>>
    /\ UNCHANGED <<token, cache, mutations, logouts, server, rare, older>>

Lookup(c) ==
    /\ calls[c].step = "lookup"
    /\ LET call == calls[c]
           hit  == cache[call.key]
       IN  \/ /\ call.kind = "cache-only" \/ (call.kind = "cache-first" /\ hit # None)
              /\ End(c, hit)
              /\ UNCHANGED <<pending, requests>>
           \/ /\ call.kind = "first" \/ (call.kind = "cache-first" /\ hit = None)
              /\ stream' = IF call.kind = "first" THEN [stream EXCEPT !.shown = hit] ELSE stream
              /\ Fetch(c, call)
    /\ UNCHANGED <<token, cache, mutations, logouts, server, rare, older>>

\* A mutant of Answered: what came back is kept as data, errors too.
AnsweredMutant(c) ==
    /\ calls[c].step = "waiting"
    /\ requests[calls[c].req].step = "settled"
    /\ AutoLogout(requests[calls[c].req].answer, calls[c].scope)
    /\ calls' = [calls EXCEPT ![c].step = "storing", ![c].value = requests[calls[c].req].answer]
    /\ UNCHANGED <<token, cache, pending, requests, stream, mutations, server, rare, older>>

\* The request has an answer: handle an expired session, then _process.
Answered(c) ==
    /\ calls[c].step = "waiting"
    /\ requests[calls[c].req].step = "settled"
    /\ LET call   == calls[c]
           answer == requests[call.req].answer
           failed == answer \in Errors
       IN  /\ AutoLogout(answer, call.scope)
           /\ calls' = [calls EXCEPT ![c] =
                  [@ EXCEPT !.step = CASE ~failed -> "storing"
                                       [] failed /\ call.kind = "network-first" -> "fallback"
                                       [] OTHER -> "dropping",
                            !.value = IF failed THEN None ELSE answer]]
    /\ UNCHANGED <<token, cache, pending, requests, stream, mutations, server, rare, older>>

Process(c) ==
    /\ calls[c].step \in {"storing", "dropping"}
    /\ cache' = [cache EXCEPT ![calls[c].key] = calls[c].value]
    /\ End(c, calls[c].value)
    /\ UNCHANGED <<token, pending, requests, mutations, logouts, server, rare, older>>

Fallback(c) ==
    /\ calls[c].step = "fallback"
    /\ End(c, cache[calls[c].key])
    /\ UNCHANGED <<token, cache, pending, requests, mutations, logouts, server, rare, older>>

\* 250 ms after its answer a request is no longer shared.
Forget(s) ==
    /\ pending[s] # None
    /\ requests[pending[s]].step = "settled"
    /\ pending' = [pending EXCEPT ![s] = None]
    /\ UNCHANGED <<token, cache, requests, calls, stream, mutations, logouts, server, rare, older>>

-----------------------------------------------------------------------------
(* Mutations                                                               *)

Mutate(m) ==
    /\ mutations[m].step = "idle"
    /\ mutations' = [mutations EXCEPT ![m] = [step |-> "waiting", scope |-> token]]
    /\ Queue(m)
    /\ UNCHANGED <<token, cache, pending, calls, stream, logouts, server, rare, older>>

MutationAnswered(m) ==
    /\ mutations[m].step = "waiting"
    /\ requests[m].step = "settled"
    /\ LET answer == requests[m].answer
           failed == answer \in Errors
       IN  /\ AutoLogout(answer, mutations[m].scope)
           /\ mutations' = [mutations EXCEPT ![m].step = IF failed THEN "failed" ELSE "answered"]
    /\ UNCHANGED <<token, cache, pending, requests, calls, stream, server, rare, older>>

\* A mutant of ForgetPending: requests already under way stay shared.
ForgetPendingMutant(m) ==
    /\ mutations[m].step = "answered"
    /\ mutations' = [mutations EXCEPT ![m].step = "deleting"]
    /\ UNCHANGED <<token, cache, pending, requests, calls, stream, logouts, server, rare, older>>

\* invalidateCascading: first its requests and then, all deleted, the entries; listeners reload.
ForgetPending(m) ==
    /\ mutations[m].step = "answered"
    /\ mutations' = [mutations EXCEPT ![m].step = "deleting"]
    /\ pending' = [s \in Scopes |-> None]
    /\ UNCHANGED <<token, cache, requests, calls, stream, logouts, server, rare, older>>

Invalidated(m) ==
    /\ mutations[m].step = "deleting"
    /\ cache' = [s \in Scopes |-> None]
    /\ mutations' = [mutations EXCEPT ![m].step = "done"]
    /\ IF stream.step = "listening"
       THEN \E c \in Calls : calls[c].step = "idle" /\ Fetch(c, NewCall("reload", stream.key))
       ELSE UNCHANGED <<calls, pending, requests>>
    /\ UNCHANGED <<token, stream, logouts, server, rare, older>>

-----------------------------------------------------------------------------
(* Login and logout                                                        *)

\* The server grants a session and mutateDynamic sets the token.
Login(t) ==
    /\ token = None
    /\ t \notin granted
    /\ sessions' = sessions \cup {t}
    /\ SetToken(t)
    /\ granted' = granted \cup {t}
    /\ older' = [older EXCEPT ![t] = {c \in Calls : requests[c].step # "none"}]
    /\ UNCHANGED <<cache, pending, requests, calls, stream, mutations, logouts, data, rare>>

UserLogout ==
    /\ token # None
    /\ Rare
    /\ BeginLogout
    /\ UNCHANGED <<token, cache, pending, requests, calls, stream, mutations, server, older>>

\* _clearRealmCache is through: revoke the session, if there still is one.
Cleared(l) ==
    /\ logouts[l].step = "clearing"
    /\ cache'   = [s \in Scopes |-> None]
    /\ pending' = [s \in Scopes |-> None]
    /\ logouts' = [logouts EXCEPT ![l] = IF token = None THEN NoLogout
                                        ELSE [@ EXCEPT !.step = "revoking", !.auth = token]]
    /\ UNCHANGED <<token, requests, calls, stream, mutations, server, rare, older>>

\* auth.logout at the server; it may also never get there.
Revoke(l) ==
    /\ logouts[l].step = "revoking"
    /\ logouts' = [logouts EXCEPT ![l].step = IF logouts[l].auth \in sessions THEN "revoked" ELSE "unknown"]
    /\ sessions' = sessions \ {logouts[l].auth}
    /\ UNCHANGED <<token, cache, pending, requests, calls, stream, mutations, data, granted, rare, older>>

\* Whatever the answer, the token goes; 401 for the current session starts a logout too.
LoggedOut(l) ==
    /\ logouts[l].step \in {"revoking", "revoked", "unknown"}
    /\ logouts' = [logouts EXCEPT ![l] =
           IF @.step = "unknown" /\ @.auth = token
           THEN [NoLogout EXCEPT !.step = "clearing"] ELSE NoLogout]
    /\ SetToken(None)
    /\ UNCHANGED <<cache, pending, requests, calls, stream, mutations, server, rare, older>>

\* A session ends at the server.
Expire(t) ==
    /\ t \in sessions
    /\ Rare
    /\ sessions' = sessions \ {t}
    /\ UNCHANGED <<token, cache, pending, requests, calls, stream, mutations, logouts, data, granted, older>>

-----------------------------------------------------------------------------

Client ==
    \/ \E kind \in {Calls, Mutations} : Flush(kind)
    \/ \E c \in Calls : Lookup(c) \/ Answered(c) \/ Process(c) \/ Fallback(c)
    \/ \E s \in Scopes : Forget(s)
    \/ \E m \in Mutations : MutationAnswered(m) \/ ForgetPending(m) \/ Invalidated(m)
    \/ \E l \in Logouts : Cleared(l) \/ LoggedOut(l)

Users ==
    \/ \E c \in Calls, kind \in Kinds : Query(c, kind)
    \/ \E m \in Mutations : Mutate(m)
    \/ \E t \in Tokens : Login(t)
    \/ UserLogout

Network ==
    \/ \E r \in Requests : Serve(r) \/ Deliver(r) \/ Fail(r)
    \/ \E t \in Tokens : Expire(t)
    \/ \E l \in Logouts : Revoke(l)

Next == Client \/ Users \/ Network

Spec == Init /\ [][Next]_vars

-----------------------------------------------------------------------------
(* Properties                                                              *)

RequestType ==
    [step : {"none", "queued", "sent", "served", "settled"},
     auth : Scopes, mates : SUBSET Requests, answer : Answers]

CallType ==
    [step : {"idle", "lookup", "waiting", "storing", "dropping", "fallback", "done"},
     kind : Kinds \cup {"reload", None}, key : Scopes, scope : Scopes,
     req : Calls \cup {None}, value : Answers, since : Data]

\* A call never takes an error for data and, while it waits, has a request.
Sound(call) ==
    /\ call.value \notin Errors
    /\ call.step = "waiting" => call.req \in Calls

ApiTypeOK ==
    /\ token \in Scopes
    /\ cache \in [Scopes -> Data \cup {None}]
    /\ pending \in [Scopes -> Calls \cup {None}]
    /\ requests \in [Requests -> RequestType]
    /\ calls \in [Calls -> CallType]
    /\ \A c \in Calls : Sound(calls[c])
    /\ mutations \in [Mutations -> [step : {"idle", "waiting", "answered", "deleting", "done", "failed"},
                                    scope : Scopes]]
    /\ logouts \in [Logouts -> [step : {"idle", "clearing", "revoking", "revoked", "unknown"},
                                auth : Scopes]]
    /\ stream \in [step : {"off", "starting", "listening"}, key : Scopes, shown : Data \cup {None}]
    /\ data \in Data
    /\ sessions \subseteq granted
    /\ granted \subseteq Tokens
    /\ rare \in 0..MaxRare
    /\ older \in [Tokens -> SUBSET Calls]

\* What the network answers to a query shows every mutation that had resolved when the
\* query began, although requests are shared and invalidations race them.
ReadsSeeOwnWrites ==
    \A c \in Calls : calls[c].step = "storing" => calls[c].since \subseteq calls[c].value

\* A query that starts in a session never waits for a request made before the session began
\* (_cacheKey: "the first authenticated request cannot reuse an anonymous request still
\* in flight").
SessionsMakeTheirOwnRequests ==
    \A c \in Calls :
        calls[c].step = "waiting" /\ calls[c].kind \in Direct /\ calls[c].scope # None =>
            calls[c].req \notin older[calls[c].scope]

\* Every query gets its answer, also when its request is shared, or when an invalidation
\* or a logout has forgotten the request: a call waits for a request that is in a queue,
\* answered, or in a batch whose operations all are at the server still.
CallsAwaitAnswers ==
    /\ \A c \in Calls : calls[c].step = "waiting" => requests[calls[c].req].step # "none"
    /\ \A r \in Requests : requests[r].step \in {"sent", "served"} =>
          /\ r \in requests[r].mates
          /\ \A q \in requests[r].mates : /\ requests[q].step \in {"sent", "served"}
                                         /\ requests[q].mates = requests[r].mates
=============================================================================
