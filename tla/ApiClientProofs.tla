-------------------------- MODULE ApiClientProofs --------------------------
(***************************************************************************)
(* Proofs about the API client, for every number of calls, mutations and   *)
(* sessions.  Typing comes first; then what is known of a request by the   *)
(* call that made it; then the two promises about answers.                 *)
(***************************************************************************)
EXTENDS ApiClient, TLAPS

-----------------------------------------------------------------------------
(* Typing                                                                  *)

\* An execution of the query keeps the state typed, whether it joins a request or makes one.
LEMMA FetchTyping ==
    ASSUME ApiTypeOK, NEW c \in Calls, NEW call \in CallType, call.value \notin Errors,
           Fetch(c, call)
    PROVE  /\ calls' \in [Calls -> CallType]
           /\ \A d \in Calls : Sound(calls'[d])
           /\ pending' \in [Scopes -> Calls \cup {None}]
           /\ requests' \in [Requests -> RequestType]
<1>. DEFINE join == pending[call.key] # None
            req  == IF join THEN pending[call.key] ELSE c
            made == [call EXCEPT !.step = "waiting", !.scope = token, !.req = req]
<1>1. req \in Calls /\ token \in Scopes /\ call.key \in Scopes
  BY DEF ApiTypeOK, CallType
<1>2. made \in CallType /\ Sound(made)
  BY <1>1 DEF CallType, Sound
<1>3. calls' = [calls EXCEPT ![c] = made] /\ pending' = [pending EXCEPT ![call.key] = req]
  BY DEF Fetch
<1>4. calls' \in [Calls -> CallType] /\ \A d \in Calls : Sound(calls'[d])
  BY <1>2, <1>3 DEF ApiTypeOK
<1>5. pending' \in [Scopes -> Calls \cup {None}]
  BY <1>1, <1>3 DEF ApiTypeOK
<1>6. requests' \in [Requests -> RequestType]
  <2>1. requests' = requests \/ requests' = [requests EXCEPT ![c].step = "queued"]
    BY DEF Fetch, Queue
  <2>2. requests \in [Requests -> RequestType] /\ c \in Requests
    BY DEF ApiTypeOK, Requests
  <2>. QED  BY <2>1, <2>2 DEF RequestType
<1>. QED  BY <1>4, <1>5, <1>6

\* The end of an execution keeps the calls and the stream typed.
LEMMA EndTyping ==
    ASSUME ApiTypeOK, NEW c \in Calls, NEW value \in Data \cup {None}, End(c, value)
    PROVE  /\ calls' \in [Calls -> CallType]
           /\ \A d \in Calls : Sound(calls'[d])
           /\ stream' \in [step : {"off", "starting", "listening"}, key : Scopes,
                          shown : Data \cup {None}]
<1>1. [NoCall EXCEPT !.step = "done"] \in CallType
  BY DEF NoCall, CallType, Scopes, Answers, Data
<1>2. Sound([NoCall EXCEPT !.step = "done"])
  BY ApiAssumption DEF NoCall, Errors, Sound
<1>3. calls' = [calls EXCEPT ![c] = [NoCall EXCEPT !.step = "done"]]
  BY DEF End
<1>4. stream' \in [step : {"off", "starting", "listening"}, key : Scopes, shown : Data \cup {None}]
  BY DEF End, ApiTypeOK
<1>. QED  BY <1>1, <1>2, <1>3, <1>4 DEF ApiTypeOK

\* A logout that begins, or none, keeps the logouts typed.
LEMMA AutoLogoutTyping ==
    ASSUME ApiTypeOK, NEW answer, NEW scope, AutoLogout(answer, scope) \/ BeginLogout
    PROVE  logouts' \in [Logouts -> [step : {"idle", "clearing", "revoking", "revoked", "unknown"},
                                    auth : Scopes]]
<1>1. logouts' = logouts \/ \E l \in Logouts : logouts' = [logouts EXCEPT ![l].step = "clearing"]
  BY DEF AutoLogout, BeginLogout
<1>. QED  BY <1>1 DEF ApiTypeOK

LEMMA NewCallTyping ==
    ASSUME ApiTypeOK, NEW kind \in Kinds \cup {"reload"}, NEW key \in Scopes
    PROVE  /\ NewCall(kind, key) \in CallType
           /\ Sound(NewCall(kind, key))
           /\ NewCall(kind, key).value \notin Errors
BY ApiAssumption DEF NewCall, NoCall, CallType, Scopes, Answers, Data, Confirmed, Errors, Sound

\* Every step of the specification keeps the state typed.
LEMMA TypingStep ==
    ASSUME ApiTypeOK, [Next]_vars
    PROVE  ApiTypeOK'
<1>. USE ApiAssumption
<1>1. ASSUME NEW kind \in {Calls, Mutations}, Flush(kind) PROVE ApiTypeOK'
  <2>. DEFINE batch == {r \in kind : requests[r].step = "queued"}
  <2>1. batch \in SUBSET Requests /\ token \in Scopes /\ requests \in [Requests -> RequestType]
    BY DEF ApiTypeOK, Requests
  <2>2. ASSUME NEW r \in Requests
        PROVE  [requests[r] EXCEPT !.step = "sent", !.auth = token, !.mates = batch] \in RequestType
    <3>1. requests[r] \in RequestType
      BY <2>1
    <3>. HIDE DEF batch
    <3>. QED  BY <2>1, <3>1 DEF RequestType
  <2>3. requests' \in [Requests -> RequestType]
    BY <1>1, <2>1, <2>2 DEF Flush
  <2>. QED  BY <1>1, <2>3 DEF Flush, ApiTypeOK, server
<1>2. ASSUME NEW r \in Requests, Serve(r) PROVE ApiTypeOK'
  <2>1. data' \in Data /\ data \cup (Mutations \cap {r}) \in Answers
    BY <1>2 DEF Serve, ApiTypeOK, Answers, Data
  <2>2. Unauthorized \in Answers /\ None \in Scopes
    BY DEF Answers, Errors, Scopes
  <2>3. requests \in [Requests -> RequestType]
    BY DEF ApiTypeOK
  <2>4. PICK a \in Answers : requests' =
           [requests EXCEPT ![r] = [@ EXCEPT !.step = "served", !.auth = None, !.answer = a]]
    BY <1>2, <2>1, <2>2 DEF Serve
  <2>5. [requests[r] EXCEPT !.step = "served", !.auth = None, !.answer = a] \in RequestType
    <3>1. requests[r] \in RequestType
      BY <2>3
    <3>. QED  BY <2>2, <3>1 DEF RequestType
  <2>6. requests' \in [Requests -> RequestType]
    BY <2>3, <2>4, <2>5
  <2>. QED  BY <1>2, <2>1, <2>6 DEF Serve, ApiTypeOK, Requests
<1>3. ASSUME NEW r \in Requests, Deliver(r) PROVE ApiTypeOK'
  BY <1>3 DEF Deliver, NoRequest, ApiTypeOK, RequestType, Answers, Scopes, server
<1>4. ASSUME NEW r \in Requests, Fail(r) PROVE ApiTypeOK'
  <2>1. [NoRequest EXCEPT !.step = "settled", !.answer = Offline] \in RequestType
    BY DEF NoRequest, RequestType, Answers, Errors, Scopes
  <2>2. requests' \in [Requests -> RequestType]
    BY <1>4, <2>1 DEF Fail, ApiTypeOK
  <2>. QED  BY <1>4, <2>2 DEF Fail, Rare, ApiTypeOK, server
<1>5. ASSUME NEW c \in Calls, NEW kind \in Kinds, Query(c, kind) PROVE ApiTypeOK'
  <2>. DEFINE new == NewCall(kind, CacheKey(token))
  <2>1. new \in CallType /\ new.value \notin Errors /\ CacheKey(token) \in Scopes
    BY NewCallTyping DEF CacheKey, ApiTypeOK
  <2>2. stream' \in [step : {"off", "starting", "listening"}, key : Scopes, shown : Data \cup {None}]
    BY <1>5, <2>1 DEF Query, ApiTypeOK
  <2>3. CASE kind \in Direct
    BY <1>5, <2>1, <2>2, <2>3, FetchTyping DEF Query, ApiTypeOK, server
  <2>4. CASE kind \notin Direct
    <3>1. [new EXCEPT !.step = "lookup"] \in CallType /\ Sound([new EXCEPT !.step = "lookup"])
      BY <2>1 DEF CallType, Sound
    <3>2. calls' = [calls EXCEPT ![c] = [new EXCEPT !.step = "lookup"]]
      BY <1>5, <2>4 DEF Query
    <3>. QED  BY <1>5, <2>2, <2>4, <3>1, <3>2 DEF Query, ApiTypeOK, server
  <2>. QED  BY <2>3, <2>4
<1>6. ASSUME NEW c \in Calls, Lookup(c) PROVE ApiTypeOK'
  <2>1. calls[c] \in CallType /\ calls[c].value \notin Errors /\ calls[c].key \in Scopes
    BY DEF ApiTypeOK, Sound, CallType
  <2>2. cache[calls[c].key] \in Data \cup {None}
    BY <2>1 DEF ApiTypeOK
  <2>3. CASE End(c, cache[calls[c].key]) /\ UNCHANGED <<pending, requests>>
    BY <1>6, <2>2, <2>3, EndTyping DEF Lookup, ApiTypeOK, server
  <2>4. CASE /\ stream' = IF calls[c].kind = "first"
                         THEN [stream EXCEPT !.shown = cache[calls[c].key]] ELSE stream
             /\ Fetch(c, calls[c])
    <3>1. stream' \in [step : {"off", "starting", "listening"}, key : Scopes, shown : Data \cup {None}]
      BY <2>2, <2>4 DEF ApiTypeOK
    <3>. QED  BY <1>6, <2>1, <2>4, <3>1, FetchTyping DEF Lookup, ApiTypeOK, server
  <2>. QED  BY <1>6, <2>3, <2>4 DEF Lookup
<1>7. ASSUME NEW c \in Calls, Answered(c) PROVE ApiTypeOK'
  <2>1. PICK answer \in Answers :
           /\ AutoLogout(answer, calls[c].scope)
           /\ \E step \in {"storing", "fallback", "dropping"} :
                calls' = [calls EXCEPT ![c] =
                             [@ EXCEPT !.step = step,
                                       !.value = IF answer \in Errors THEN None ELSE answer]]
    <3>1. calls[c].req \in Requests
      BY <1>7 DEF Answered, ApiTypeOK, Sound, Requests
    <3>2. requests[calls[c].req].answer \in Answers
      BY <3>1 DEF ApiTypeOK, RequestType
    <3>. QED  BY <1>7, <3>2 DEF Answered
  <2>2. (IF answer \in Errors THEN None ELSE answer) \in Answers \ Errors
    BY DEF Answers, Errors
  <2>3. calls' \in [Calls -> CallType] /\ \A d \in Calls : Sound(calls'[d])
    <3>1. ASSUME NEW step \in {"storing", "fallback", "dropping"}, NEW v \in Answers \ Errors
          PROVE  /\ [calls[c] EXCEPT !.step = step, !.value = v] \in CallType
                 /\ Sound([calls[c] EXCEPT !.step = step, !.value = v])
      <4>1. calls[c] \in CallType
        BY DEF ApiTypeOK
      <4>. QED  BY <4>1 DEF CallType, Sound
    <3>. DEFINE v == IF answer \in Errors THEN None ELSE answer
    <3>2. PICK step \in {"storing", "fallback", "dropping"} :
             calls' = [calls EXCEPT ![c] = [@ EXCEPT !.step = step, !.value = v]]
      BY <2>1
    <3>3. v \in Answers \ Errors
      BY <2>2
    <3>. HIDE DEF v
    <3>. QED  BY <3>1, <3>2, <3>3 DEF ApiTypeOK
  <2>. QED  BY <1>7, <2>1, <2>3, AutoLogoutTyping DEF Answered, ApiTypeOK, server
<1>8. ASSUME NEW c \in Calls, Process(c) PROVE ApiTypeOK'
  <2>1. calls[c].value \in Data \cup {None} /\ calls[c].key \in Scopes
    BY DEF ApiTypeOK, CallType, Sound, Answers
  <2>2. cache' \in [Scopes -> Data \cup {None}]
    BY <1>8, <2>1 DEF Process, ApiTypeOK
  <2>. QED  BY <1>8, <2>1, <2>2, EndTyping DEF Process, ApiTypeOK, server
<1>9. ASSUME NEW c \in Calls, Fallback(c) PROVE ApiTypeOK'
  <2>1. cache[calls[c].key] \in Data \cup {None}
    BY DEF ApiTypeOK, CallType
  <2>. QED  BY <1>9, <2>1, EndTyping DEF Fallback, ApiTypeOK, server
<1>10. ASSUME NEW s \in Scopes, Forget(s) PROVE ApiTypeOK'
  BY <1>10 DEF Forget, ApiTypeOK, server
<1>11. ASSUME NEW m \in Mutations, Mutate(m) PROVE ApiTypeOK'
  <2>1. m \in Requests /\ requests \in [Requests -> RequestType]
    BY DEF ApiTypeOK, Requests
  <2>2. requests' \in [Requests -> RequestType]
    BY <1>11, <2>1 DEF Mutate, Queue, RequestType
  <2>. QED  BY <1>11, <2>2 DEF Mutate, ApiTypeOK, server
<1>12. ASSUME NEW m \in Mutations, MutationAnswered(m) PROVE ApiTypeOK'
  BY <1>12, AutoLogoutTyping DEF MutationAnswered, ApiTypeOK, server
<1>13. ASSUME NEW m \in Mutations, ForgetPending(m) PROVE ApiTypeOK'
  BY <1>13 DEF ForgetPending, ApiTypeOK, server
<1>14. ASSUME NEW m \in Mutations, Invalidated(m) PROVE ApiTypeOK'
  <2>1. cache' \in [Scopes -> Data \cup {None}]
    BY <1>14 DEF Invalidated
  <2>2. mutations' \in [Mutations -> [step : {"idle", "waiting", "answered", "deleting", "done", "failed"},
                                     scope : Scopes]]
    BY <1>14 DEF Invalidated, ApiTypeOK
  <2>3. CASE stream.step = "listening"
    <3>1. PICK c \in Calls : Fetch(c, NewCall("reload", stream.key))
      BY <1>14, <2>3 DEF Invalidated
    <3>2. stream.key \in Scopes
      BY DEF ApiTypeOK
    <3>3. /\ NewCall("reload", stream.key) \in CallType
          /\ NewCall("reload", stream.key).value \notin Errors
      BY <3>2, NewCallTyping
    <3>4. /\ calls' \in [Calls -> CallType]
          /\ \A d \in Calls : Sound(calls'[d])
          /\ pending' \in [Scopes -> Calls \cup {None}]
          /\ requests' \in [Requests -> RequestType]
      BY <3>1, <3>3, FetchTyping
    <3>. QED  BY <1>14, <2>1, <2>2, <3>4 DEF Invalidated, ApiTypeOK, server
  <2>4. CASE stream.step # "listening"
    BY <1>14, <2>1, <2>2, <2>4 DEF Invalidated, ApiTypeOK, server
  <2>. QED  BY <2>3, <2>4
<1>15. ASSUME NEW t \in Tokens, Login(t) PROVE ApiTypeOK'
  BY <1>15 DEF Login, SetToken, ApiTypeOK, Scopes, server
<1>16. ASSUME UserLogout PROVE ApiTypeOK'
  BY <1>16, AutoLogoutTyping DEF UserLogout, Rare, ApiTypeOK, server
<1>17. ASSUME NEW l \in Logouts, Cleared(l) PROVE ApiTypeOK'
  <2>1. logouts' \in [Logouts -> [step : {"idle", "clearing", "revoking", "revoked", "unknown"},
                                 auth : Scopes]]
    <3>. DEFINE Kept    == [step : {"idle", "clearing", "revoking", "revoked", "unknown"}, auth : Scopes]
                revoked == [logouts[l] EXCEPT !.step = "revoking", !.auth = token]
    <3>1. logouts' = [logouts EXCEPT ![l] = NoLogout] \/ logouts' = [logouts EXCEPT ![l] = revoked]
      BY <1>17 DEF Cleared
    <3>2. logouts \in [Logouts -> Kept] /\ token \in Scopes
      BY DEF ApiTypeOK
    <3>3. NoLogout \in Kept
      BY DEF NoLogout, Scopes
    <3>4. revoked \in Kept
      <4>1. logouts[l] \in Kept
        BY <3>2
      <4>. QED  BY <3>2, <4>1
    <3>5. logouts' \in [Logouts -> Kept]
      <4>. HIDE DEF Kept, revoked
      <4>. QED  BY ONLY <3>1, <3>2, <3>3, <3>4
    <3>. QED  BY <3>5
  <2>2. cache' \in [Scopes -> Data \cup {None}] /\ pending' \in [Scopes -> Calls \cup {None}]
    BY <1>17 DEF Cleared
  <2>. QED  BY <1>17, <2>1, <2>2 DEF Cleared, ApiTypeOK, server
<1>18. ASSUME NEW l \in Logouts, Revoke(l) PROVE ApiTypeOK'
  BY <1>18 DEF Revoke, ApiTypeOK, server
<1>19. ASSUME NEW l \in Logouts, LoggedOut(l) PROVE ApiTypeOK'
  BY <1>19 DEF LoggedOut, SetToken, NoLogout, ApiTypeOK, Scopes, server
<1>20. ASSUME NEW t \in Tokens, Expire(t) PROVE ApiTypeOK'
  BY <1>20 DEF Expire, Rare, ApiTypeOK, server
<1>21. ASSUME UNCHANGED vars PROVE ApiTypeOK'
  BY <1>21 DEF vars, ApiTypeOK
<1>. QED
  BY <1>1, <1>2, <1>3, <1>4, <1>5, <1>6, <1>7, <1>8, <1>9, <1>10, <1>11, <1>12, <1>13, <1>14,
     <1>15, <1>16, <1>17, <1>18, <1>19, <1>20, <1>21 DEF Next, Client, Users, Network

\* Typing: the bookkeeping of requests, calls and sessions keeps its shape; no answer that
\* is an error is ever kept as the data of a query.
THEOREM Typing == Spec => []ApiTypeOK
<1>1. Init => ApiTypeOK
  BY ApiAssumption DEF Init, ApiTypeOK, NoRequest, NoCall, NoLogout, RequestType, CallType, Scopes,
     Answers, Data, Errors, Requests, Sound
<1>. QED  BY <1>1, TypingStep, PTL DEF Spec

-----------------------------------------------------------------------------
(* Every call gets an answer                                               *)

\* A call or mutation that has not begun has made no request.
Unused ==
    /\ \A c \in Calls : calls[c].step \in {"idle", "lookup"} => requests[c].step = "none"
    /\ \A m \in Mutations : mutations[m].step = "idle" => requests[m].step = "none"

\* Only requests that were made are shared.
SharedAreMade == \A s \in Scopes : pending[s] # None => requests[pending[s]].step # "none"

AwaitInv == Unused /\ SharedAreMade /\ CallsAwaitAnswers

\* What an execution of the query changes: the call waits for the shared request of its key,
\* or for a new one of its own.
Fetched(c, call, req) ==
    /\ calls'[c].step = "waiting"
    /\ calls'[c].req = req
    /\ calls'[c].since = call.since
    /\ calls'[c].kind = call.kind
    /\ calls'[c].key = call.key
    /\ calls'[c].scope = token
    /\ \A d \in Calls \ {c} : calls'[d] = calls[d]
    /\ pending' = [pending EXCEPT ![call.key] = req]
    /\ \/ req = pending[call.key] /\ requests' = requests
       \/ /\ req = c
          /\ pending[call.key] = None
          /\ requests' \in [Requests -> RequestType]
          /\ requests'[c].step = "queued"
          /\ requests'[c].mates = requests[c].mates
          /\ \A r \in Requests \ {c} : requests'[r] = requests[r]

LEMMA FetchEffect ==
    ASSUME ApiTypeOK, NEW c \in Calls, NEW call \in CallType, Fetch(c, call)
    PROVE  \E req \in Calls : Fetched(c, call, req)
<1>. DEFINE req == IF pending[call.key] # None THEN pending[call.key] ELSE c
            made == [call EXCEPT !.step = "waiting", !.scope = token, !.req = req]
<1>1. req \in Calls /\ c \in Requests
  BY DEF ApiTypeOK, CallType, Requests
<1>2. /\ made.step = "waiting" /\ made.req = req /\ made.since = call.since
      /\ made.kind = call.kind /\ made.key = call.key /\ made.scope = token
  BY DEF CallType
<1>3. calls' = [calls EXCEPT ![c] = made] /\ pending' = [pending EXCEPT ![call.key] = req]
  BY DEF Fetch
<1>4. calls'[c] = made /\ \A d \in Calls \ {c} : calls'[d] = calls[d]
  BY <1>3 DEF ApiTypeOK
<1>5. \/ req = pending[call.key] /\ requests' = requests
      \/ /\ req = c
         /\ pending[call.key] = None
         /\ requests' = [requests EXCEPT ![c].step = "queued"]
  BY DEF Fetch, Queue
<1>6. ASSUME requests' = [requests EXCEPT ![c].step = "queued"]
      PROVE  /\ requests' \in [Requests -> RequestType]
             /\ requests'[c].step = "queued"
             /\ requests'[c].mates = requests[c].mates
             /\ \A r \in Requests \ {c} : requests'[r] = requests[r]
  <2>1. requests \in [Requests -> RequestType]
    BY DEF ApiTypeOK
  <2>. QED  BY <1>1, <1>6, <2>1 DEF RequestType
<1>. HIDE DEF req, made
<1>7. /\ calls'[c].step = "waiting" /\ calls'[c].req = req
      /\ calls'[c].since = call.since /\ calls'[c].kind = call.kind
      /\ calls'[c].key = call.key /\ calls'[c].scope = token
  BY <1>2, <1>4
<1>8. Fetched(c, call, req)
  BY <1>3, <1>4, <1>5, <1>6, <1>7 DEF Fetched
<1>. QED  BY <1>1, <1>8

\* An execution of the query by a call that has made no request keeps what is known of requests.
LEMMA FetchAwaits ==
    ASSUME ApiTypeOK, AwaitInv, NEW c \in Calls, NEW call \in CallType,
           calls[c].step \in {"idle", "lookup"}, Fetch(c, call),
           \A m \in Mutations : mutations'[m].step = "idle" => mutations[m].step = "idle"
    PROVE  AwaitInv'
<1>1. PICK req \in Calls : Fetched(c, call, req)
  BY FetchEffect
<1>. USE <1>1 DEF Fetched
<1>2. call.key \in Scopes /\ requests[c].step = "none" /\ c \notin Mutations /\ c \in Requests
  BY ApiAssumption DEF CallType, AwaitInv, Unused, Requests
<1>3. requests'[req].step # "none"
  BY <1>1, <1>2, ApiAssumption DEF AwaitInv, SharedAreMade
<1>4. Unused'
  BY <1>1, <1>2 DEF AwaitInv, Unused, Requests
<1>5. SharedAreMade'
  BY <1>1, <1>2, <1>3 DEF AwaitInv, SharedAreMade, ApiTypeOK, Requests
<1>6. CallsAwaitAnswers'
  <2>1. \A d \in Calls : calls'[d].step = "waiting" => requests'[calls'[d].req].step # "none"
    BY <1>1, <1>2, <1>3 DEF AwaitInv, CallsAwaitAnswers, ApiTypeOK, Sound, Requests
  <2>2. \A r \in Requests : requests[r].step \in {"sent", "served"} => r # c /\ c \notin requests[r].mates
    BY <1>2 DEF AwaitInv, CallsAwaitAnswers
  <2>3. \A r \in Requests : requests[r].mates \subseteq Requests
    BY DEF ApiTypeOK, RequestType
  <2>4. ASSUME NEW r \in Requests, requests'[r].step \in {"sent", "served"}
        PROVE  /\ r \in requests'[r].mates
               /\ \A q \in requests'[r].mates : /\ requests'[q].step \in {"sent", "served"}
                                               /\ requests'[q].mates = requests'[r].mates
    BY <1>1, <1>2, <2>2, <2>3, <2>4 DEF AwaitInv, CallsAwaitAnswers
  <2>. QED  BY <2>1, <2>4 DEF CallsAwaitAnswers
<1>. QED  BY <1>4, <1>5, <1>6 DEF AwaitInv

LEMMA AwaitStep ==
    ASSUME ApiTypeOK, AwaitInv, [Next]_vars
    PROVE  AwaitInv'
<1>. USE ApiAssumption DEF AwaitInv
<1>1. ASSUME NEW kind \in {Calls, Mutations}, Flush(kind) PROVE AwaitInv'
  <2>. DEFINE batch == {r \in kind : requests[r].step = "queued"}
  <2>1. batch \subseteq Requests /\ requests \in [Requests -> RequestType]
    BY DEF ApiTypeOK, Requests
  <2>2. \A r \in Requests :
           IF r \in batch THEN requests'[r].step = "sent" /\ requests'[r].mates = batch
           ELSE requests'[r] = requests[r]
    <3>1. \A r \in Requests : requests[r] \in RequestType
      BY <2>1
    <3>2. \A r \in Requests : requests'[r] =
             IF r \in batch THEN [requests[r] EXCEPT !.step = "sent", !.auth = token, !.mates = batch]
             ELSE requests[r]
      BY <1>1 DEF Flush
    <3>. HIDE DEF batch
    <3>. QED  BY <3>1, <3>2 DEF RequestType
  <2>3. \A r \in batch : requests[r].step = "queued"
    OBVIOUS
  <2>4. \A r \in Requests : requests[r].step \in {"sent", "served"} => requests[r].mates \cap batch = {}
    BY <2>3 DEF CallsAwaitAnswers
  <2>. HIDE DEF batch
  <2>5. Unused' /\ SharedAreMade'
    <3>1. \A r \in Requests : requests[r].step = "none" => requests'[r].step = "none"
      BY <2>2, <2>3
    <3>2. \A r \in Requests : requests[r].step # "none" => requests'[r].step # "none"
      BY <2>2
    <3>3. Unused'
      BY <1>1, <3>1 DEF Flush, Unused, Requests
    <3>4. SharedAreMade'
      BY <1>1, <3>2 DEF Flush, SharedAreMade, ApiTypeOK, Requests
    <3>. QED  BY <3>3, <3>4
  <2>6. \A c \in Calls : calls'[c].step = "waiting" => requests'[calls'[c].req].step # "none"
    BY <1>1, <2>2 DEF Flush, CallsAwaitAnswers, ApiTypeOK, Sound, Requests
  <2>7. ASSUME NEW r \in Requests, requests'[r].step \in {"sent", "served"}
        PROVE  /\ r \in requests'[r].mates
               /\ \A q \in requests'[r].mates : /\ requests'[q].step \in {"sent", "served"}
                                               /\ requests'[q].mates = requests'[r].mates
    <3>1. CASE r \in batch
      BY <2>1, <2>2, <3>1
    <3>2. CASE r \notin batch
      <4>1. requests[r].step \in {"sent", "served"} /\ requests'[r] = requests[r]
        BY <2>2, <2>7, <3>2
      <4>2. \A q \in requests[r].mates : q \in Requests /\ q \notin batch
        BY <2>1, <2>4, <4>1 DEF RequestType
      <4>. QED  BY <2>2, <4>1, <4>2 DEF CallsAwaitAnswers
    <3>. QED  BY <3>1, <3>2
  <2>. QED  BY <2>5, <2>6, <2>7 DEF CallsAwaitAnswers
<1>2. ASSUME NEW r \in Requests, Serve(r) PROVE AwaitInv'
  BY <1>2 DEF Serve, Unused, SharedAreMade, CallsAwaitAnswers, ApiTypeOK, Sound, RequestType,
     Requests
<1>3. ASSUME NEW r \in Requests, Deliver(r) PROVE AwaitInv'
  <2>1. \A q \in Requests : IF q \in requests[r].mates THEN requests'[q].step = "settled"
                             ELSE requests'[q] = requests[q]
    BY <1>3 DEF Deliver, NoRequest
  <2>2. \A q \in Requests : requests[q].step \in {"sent", "served"} /\ q \notin requests[r].mates
                             => requests[q].mates \cap requests[r].mates = {}
    <3>1. \A p \in requests[r].mates : requests[p].mates = requests[r].mates /\ requests[p].step # "none"
      BY <1>3 DEF Deliver, CallsAwaitAnswers
    <3>2. \A q \in Requests : requests[q].step \in {"sent", "served"} =>
             q \in requests[q].mates /\ \A p \in requests[q].mates : requests[p].mates = requests[q].mates
      BY DEF CallsAwaitAnswers
    <3>. QED  BY <3>1, <3>2
  <2>6. \A q \in requests[r].mates : requests[q].step \in {"sent", "served"}
    BY <1>3 DEF Deliver, CallsAwaitAnswers
  <2>3. Unused' /\ SharedAreMade'
    <3>1. \A q \in Requests : requests[q].step = "none" => requests'[q].step = "none"
      BY <2>1, <2>6
    <3>2. \A q \in Requests : requests[q].step # "none" => requests'[q].step # "none"
      BY <2>1
    <3>3. Unused'
      BY <1>3, <3>1 DEF Deliver, Unused, Requests
    <3>4. SharedAreMade'
      <4>1. \A x \in Scopes : pending[x] # None => pending[x] \in Requests
        BY DEF ApiTypeOK, Requests
      <4>2. pending' = pending
        BY <1>3 DEF Deliver
      <4>. QED  BY <3>2, <4>1, <4>2 DEF SharedAreMade
    <3>. QED  BY <3>3, <3>4
  <2>4. \A c \in Calls : calls'[c].step = "waiting" => requests'[calls'[c].req].step # "none"
    BY <1>3, <2>1 DEF Deliver, CallsAwaitAnswers, ApiTypeOK, Sound, Requests
  <2>5. \A q \in Requests : requests[q].mates \subseteq Requests
    BY DEF ApiTypeOK, RequestType
  <2>. QED  BY <2>1, <2>2, <2>3, <2>4, <2>5 DEF CallsAwaitAnswers
<1>4. ASSUME NEW r \in Requests, Fail(r) PROVE AwaitInv'
  <2>1. \A q \in Requests : IF q \in requests[r].mates THEN requests'[q].step = "settled"
                             ELSE requests'[q] = requests[q]
    BY <1>4 DEF Fail, NoRequest
  <2>2. \A q \in requests[r].mates : requests[q].step # "none" /\ requests[q].mates = requests[r].mates
    BY <1>4 DEF Fail, CallsAwaitAnswers
  <2>3. \A q \in Requests : requests[q].mates \subseteq Requests
    BY DEF ApiTypeOK, RequestType
  <2>4. UNCHANGED <<pending, calls, mutations>>
    BY <1>4 DEF Fail
  <2>5. Unused'
    BY <2>1, <2>2, <2>4 DEF Unused, Requests
  <2>6. SharedAreMade'
    BY <2>1, <2>4 DEF SharedAreMade, ApiTypeOK, Requests
  <2>7. CallsAwaitAnswers'
    <3>1. \A c \in Calls : calls[c].step = "waiting" =>
              calls[c].req \in Requests /\ requests[calls[c].req].step # "none"
      BY DEF CallsAwaitAnswers, ApiTypeOK, Sound, Requests
    <3>2. \A c \in Calls : calls'[c].step = "waiting" => requests'[calls'[c].req].step # "none"
      BY <2>1, <2>4, <3>1
    <3>. QED  BY <2>1, <2>2, <2>3, <3>2 DEF CallsAwaitAnswers
  <2>. QED  BY <2>5, <2>6, <2>7
<1>5. ASSUME NEW c \in Calls, NEW kind \in Kinds, Query(c, kind) PROVE AwaitInv'
  <2>1. CASE kind \in Direct
    <3>1. NewCall(kind, CacheKey(token)) \in CallType
      BY NewCallTyping DEF CacheKey, ApiTypeOK
    <3>. QED  BY <1>5, <2>1, <3>1, FetchAwaits DEF Query
  <2>2. CASE kind \notin Direct
    <3>1. calls' = [calls EXCEPT ![c] = [NewCall(kind, CacheKey(token)) EXCEPT !.step = "lookup"]]
      BY <1>5, <2>2 DEF Query
    <3>2. [NewCall(kind, CacheKey(token)) EXCEPT !.step = "lookup"].step = "lookup"
      BY DEF NewCall, NoCall
    <3>. QED
      BY <1>5, <2>2, <3>1, <3>2 DEF Query, Unused, SharedAreMade, CallsAwaitAnswers, ApiTypeOK
  <2>. QED  BY <2>1, <2>2
<1>6. ASSUME NEW c \in Calls, Lookup(c) PROVE AwaitInv'
  <2>1. CASE End(c, cache[calls[c].key]) /\ UNCHANGED <<pending, requests>>
    BY <1>6, <2>1 DEF Lookup, Unused, SharedAreMade, CallsAwaitAnswers, ApiTypeOK, End, NoCall
  <2>2. CASE Fetch(c, calls[c])
    BY <1>6, <2>2, FetchAwaits DEF Lookup, ApiTypeOK
  <2>. QED  BY <1>6, <2>1, <2>2 DEF Lookup
<1>7. ASSUME NEW c \in Calls, Answered(c) PROVE AwaitInv'
  BY <1>7 DEF Answered, Unused, SharedAreMade, CallsAwaitAnswers, ApiTypeOK, Sound, RequestType,
     Requests
<1>8. ASSUME NEW c \in Calls, Process(c) PROVE AwaitInv'
  BY <1>8 DEF Process, Unused, SharedAreMade, CallsAwaitAnswers, ApiTypeOK, Sound, RequestType,
     Requests, End, NoCall
<1>9. ASSUME NEW c \in Calls, Fallback(c) PROVE AwaitInv'
  BY <1>9 DEF Fallback, Unused, SharedAreMade, CallsAwaitAnswers, ApiTypeOK, Sound, RequestType,
     Requests, End, NoCall
<1>10. ASSUME NEW s \in Scopes, Forget(s) PROVE AwaitInv'
  BY <1>10 DEF Forget, Unused, SharedAreMade, CallsAwaitAnswers, ApiTypeOK, Sound, RequestType,
     Requests
<1>11. ASSUME NEW m \in Mutations, Mutate(m) PROVE AwaitInv'
  BY <1>11 DEF Mutate, Unused, SharedAreMade, CallsAwaitAnswers, ApiTypeOK, Sound, RequestType,
     Requests, Queue
<1>12. ASSUME NEW m \in Mutations, MutationAnswered(m) PROVE AwaitInv'
  BY <1>12 DEF MutationAnswered, Unused, SharedAreMade, CallsAwaitAnswers, ApiTypeOK, Sound,
     RequestType, Requests
<1>13. ASSUME NEW m \in Mutations, ForgetPending(m) PROVE AwaitInv'
  BY <1>13 DEF ForgetPending, Unused, SharedAreMade, CallsAwaitAnswers, ApiTypeOK, Sound,
     RequestType, Requests
<1>14. ASSUME NEW m \in Mutations, Invalidated(m) PROVE AwaitInv'
  <2>1. \A n \in Mutations : mutations'[n].step = "idle" => mutations[n].step = "idle"
    BY <1>14 DEF Invalidated, ApiTypeOK
  <2>2. CASE stream.step = "listening"
    <3>1. PICK c \in Calls : calls[c].step = "idle" /\ Fetch(c, NewCall("reload", stream.key))
      BY <1>14, <2>2 DEF Invalidated
    <3>2. NewCall("reload", stream.key) \in CallType
      BY NewCallTyping DEF ApiTypeOK
    <3>. QED  BY <1>14, <2>1, <3>1, <3>2, FetchAwaits
  <2>3. CASE stream.step # "listening"
    BY <1>14, <2>1, <2>3 DEF Invalidated, Unused, SharedAreMade, CallsAwaitAnswers
  <2>. QED  BY <2>2, <2>3
<1>15. ASSUME NEW t \in Tokens, Login(t) PROVE AwaitInv'
  BY <1>15 DEF Login, Unused, SharedAreMade, CallsAwaitAnswers, ApiTypeOK, Sound, RequestType,
     Requests
<1>16. ASSUME UserLogout PROVE AwaitInv'
  BY <1>16 DEF UserLogout, Unused, SharedAreMade, CallsAwaitAnswers, ApiTypeOK, Sound,
     RequestType, Requests
<1>17. ASSUME NEW l \in Logouts, Cleared(l) PROVE AwaitInv'
  BY <1>17 DEF Cleared, Unused, SharedAreMade, CallsAwaitAnswers, ApiTypeOK, Sound, RequestType,
     Requests
<1>18. ASSUME NEW l \in Logouts, Revoke(l) PROVE AwaitInv'
  BY <1>18 DEF Revoke, Unused, SharedAreMade, CallsAwaitAnswers, ApiTypeOK, Sound, RequestType,
     Requests
<1>19. ASSUME NEW l \in Logouts, LoggedOut(l) PROVE AwaitInv'
  BY <1>19 DEF LoggedOut, Unused, SharedAreMade, CallsAwaitAnswers, ApiTypeOK, Sound,
     RequestType, Requests
<1>20. ASSUME NEW t \in Tokens, Expire(t) PROVE AwaitInv'
  BY <1>20 DEF Expire, Unused, SharedAreMade, CallsAwaitAnswers, ApiTypeOK, Sound, RequestType,
     Requests
<1>21. ASSUME UNCHANGED vars PROVE AwaitInv'
  BY <1>21 DEF vars, Unused, SharedAreMade, CallsAwaitAnswers, ApiTypeOK, Sound, RequestType,
     Requests
<1>. QED
  BY <1>1, <1>2, <1>3, <1>4, <1>5, <1>6, <1>7, <1>8, <1>9, <1>10, <1>11, <1>12, <1>13, <1>14,
     <1>15, <1>16, <1>17, <1>18, <1>19, <1>20, <1>21 DEF Next, Client, Users, Network

\* CallsAwaitAnswers: every query gets its answer, also when its request is shared or has
\* been forgotten by an invalidation or a logout.
THEOREM AnswersArrive == Spec => []CallsAwaitAnswers
<1>1. Init => AwaitInv
  BY ApiAssumption DEF Init, AwaitInv, Unused, SharedAreMade, CallsAwaitAnswers, NoRequest, NoCall, Requests
<1>2. AwaitInv => CallsAwaitAnswers
  BY DEF AwaitInv
<1>. QED  BY <1>1, <1>2, Typing, AwaitStep, PTL DEF Spec

-----------------------------------------------------------------------------
(* Reads see the writes before them                                        *)

Succeeded(r) == requests[r].step \in {"served", "settled"} /\ requests[r].answer \notin Errors

\* A mutation whose answer is no error has been executed.
Executed ==
    /\ \A m \in Mutations : Succeeded(m) => m \in data
    /\ \A m \in Mutations : mutations[m].step \in {"answered", "deleting", "done"} => m \in data

\* The mutations whose invalidation has forgotten the requests under way.
Promised == {m \in Mutations : mutations[m].step \in {"deleting", "done"}}

\* If request r has data for an answer, it shows the mutations ms.
Informed(ms, r) == Succeeded(r) => ms \subseteq requests[r].answer

ReadInv ==
    /\ Executed
    /\ \A s \in Scopes : pending[s] # None => Informed(Promised, pending[s])
    /\ \A c \in Calls : calls[c].step \in {"lookup", "waiting"} => calls[c].since \subseteq Confirmed
    /\ \A c \in Calls : calls[c].step = "waiting" => Informed(calls[c].since, calls[c].req)
    /\ ReadsSeeOwnWrites

\* What is known of reads survives a step of the network: an answer stays what it is, or is
\* made from the data of the moment.
LEMMA NetworkReads ==
    ASSUME ApiTypeOK, ReadInv, UNCHANGED <<pending, calls, mutations>>, data \subseteq data',
           \A m \in Mutations : Succeeded(m)' => m \in data',
           \A r \in Calls : Succeeded(r)' =>
               \/ Succeeded(r) /\ requests'[r].answer = requests[r].answer
               \/ data \subseteq requests'[r].answer
    PROVE  ReadInv'
<1>1. Promised' = Promised /\ Confirmed' = Confirmed
  BY DEF Promised, Confirmed
<1>2. Promised \subseteq data /\ Confirmed \subseteq data
  BY DEF ReadInv, Executed, Promised, Confirmed
<1>3. Executed'
  BY DEF ReadInv, Executed
<1>4. \A r \in Calls, ms \in SUBSET data : Informed(ms, r) => Informed(ms, r)'
  BY DEF Informed
<1>5. \A s \in Scopes : pending'[s] # None => Informed(Promised, pending[s])'
  BY <1>1, <1>2, <1>4 DEF ReadInv, ApiTypeOK
<1>6. \A c \in Calls : calls'[c].step = "waiting" => Informed(calls[c].since, calls[c].req)'
  BY <1>2, <1>4 DEF ReadInv, ApiTypeOK, Sound
<1>. QED  BY <1>1, <1>3, <1>5, <1>6 DEF ReadInv, ReadsSeeOwnWrites, Informed, Succeeded

\* An execution of the query joins a request that shows every confirmed mutation, or makes one.
LEMMA FetchReads ==
    ASSUME ApiTypeOK, ReadInv, NEW c \in Calls, NEW call \in CallType, Fetch(c, call),
           call.since \subseteq Confirmed, UNCHANGED data, Confirmed \subseteq Confirmed',
           Promised' = Promised, Executed'
    PROVE  ReadInv'
<1>1. PICK req \in Calls : Fetched(c, call, req)
  BY FetchEffect
<1>2. call.key \in Scopes /\ Confirmed \subseteq Promised
  BY DEF CallType, Confirmed, Promised
<1>3. \A r \in Requests : Succeeded(r)' => Succeeded(r) /\ requests'[r] = requests[r]
  BY <1>1 DEF Fetched, Succeeded
<1>4. \A r \in Calls : \A ms : Informed(ms, r) => Informed(ms, r)'
  BY <1>3 DEF Informed, Requests
<1>5. Informed(Promised, req)'
  <2>1. CASE req = pending[call.key]
    <3>1. req # None
      BY ApiAssumption
    <3>2. Informed(Promised, req)
      BY <1>2, <2>1, <3>1 DEF ReadInv
    <3>. QED  BY <1>4, <3>2
  <2>2. CASE requests'[req].step = "queued"
    BY <2>2 DEF Informed, Succeeded
  <2>. QED  BY <1>1, <2>1, <2>2 DEF Fetched
<1>6. \A s \in Scopes : pending'[s] # None => Informed(Promised, pending[s])'
  <2>1. ASSUME NEW s \in Scopes, s # call.key, pending[s] # None
        PROVE  Informed(Promised, pending[s])' /\ pending'[s] = pending[s]
    <3>1. pending[s] \in Calls /\ pending'[s] = pending[s]
      BY <1>1, <2>1 DEF Fetched, ApiTypeOK
    <3>2. Informed(Promised, pending[s])
      BY <2>1 DEF ReadInv
    <3>3. Informed(Promised, pending[s])'
      <4>. DEFINE p == pending[s]
      <4>1. Informed(Promised, p) /\ p \in Calls
        BY <3>1, <3>2
      <4>2. p' = p
        BY <3>1
      <4>. QED  BY <1>3, <4>1, <4>2 DEF Informed, Succeeded, Requests
    <3>. QED  BY <3>1, <3>3
  <2>2. pending'[call.key] = req /\ \A s \in Scopes \ {call.key} : pending'[s] = pending[s]
    <3>1. pending' = [pending EXCEPT ![call.key] = req] /\ pending \in [Scopes -> Calls \cup {None}]
      BY <1>1 DEF Fetched, ApiTypeOK
    <3>. QED  BY <1>2, <3>1
  <2>3. Informed(Promised, pending[call.key])'
    BY <1>5, <2>2 DEF Informed, Succeeded
  <2>. QED  BY <2>1, <2>2, <2>3
<1>7. \A d \in Calls : calls'[d].step \in {"lookup", "waiting"} => calls'[d].since \subseteq Confirmed'
  BY <1>1 DEF Fetched, ReadInv
<1>8. \A d \in Calls : calls'[d].step = "waiting" => Informed(calls[d].since, calls[d].req)'
  <2>1. Informed(call.since, req)'
    BY <1>2, <1>5 DEF Informed
  <2>2. ASSUME NEW d \in Calls \ {c}, calls[d].step = "waiting"
        PROVE  Informed(calls[d].since, calls[d].req)'
    BY <1>1, <1>3, <2>2 DEF Fetched, ReadInv, Informed, Succeeded, ApiTypeOK, Sound, Requests
  <2>. QED  BY <1>1, <2>1, <2>2 DEF Fetched, Informed, Succeeded
<1>9. ReadsSeeOwnWrites'
  <2>1. calls'[c].step = "waiting" /\ \A d \in Calls \ {c} : calls'[d] = calls[d]
    BY <1>1 DEF Fetched
  <2>. QED
    <3>1. \A d \in Calls : calls[d].step = "storing" => calls[d].since \subseteq calls[d].value
      BY DEF ReadInv, ReadsSeeOwnWrites
    <3>. QED  BY <2>1, <3>1 DEF ReadsSeeOwnWrites
<1>. QED  BY <1>6, <1>7, <1>8, <1>9 DEF ReadInv

LEMMA ReadStep ==
    ASSUME ApiTypeOK, ReadInv, [Next]_vars
    PROVE  ReadInv'
<1>. USE ApiAssumption
<1>1. ASSUME NEW kind \in {Calls, Mutations}, Flush(kind) PROVE ReadInv'
  <2>1. \A r \in Requests : Succeeded(r)' => Succeeded(r) /\ requests'[r].answer = requests[r].answer
    <3>1. \A r \in Requests : requests[r] \in RequestType
      BY DEF ApiTypeOK
    <3>. DEFINE batch == {r \in kind : requests[r].step = "queued"}
    <3>2. \A r \in Requests : requests'[r] =
             IF r \in batch THEN [requests[r] EXCEPT !.step = "sent", !.auth = token, !.mates = batch]
             ELSE requests[r]
      BY <1>1 DEF Flush
    <3>. HIDE DEF batch
    <3>. QED  BY ZenonT(40), <3>1, <3>2 DEF RequestType, Succeeded
  <2>2. UNCHANGED <<pending, calls, mutations, data>>
    BY <1>1 DEF Flush, server
  <2>. QED  BY <2>1, <2>2, NetworkReads DEF ReadInv, Executed, Requests
<1>2. ASSUME NEW r \in Requests, Serve(r) PROVE ReadInv'
  <2>1. requests[r] \in RequestType /\ requests \in [Requests -> RequestType]
    BY DEF ApiTypeOK
  <2>2. \A q \in Requests \ {r} : requests'[q] = requests[q]
    BY <1>2, <2>1 DEF Serve
  <2>3. requests'[r].answer \in {Unauthorized, data \cup (Mutations \cap {r})}
    BY <1>2, <2>1 DEF Serve, RequestType
  <2>4. Succeeded(r)' => /\ requests'[r].answer = data \cup (Mutations \cap {r})
                         /\ data' = requests'[r].answer
    BY <1>2, <2>1 DEF Serve, RequestType, Succeeded, Errors
  <2>5. data \subseteq data' /\ UNCHANGED <<pending, calls, mutations>>
    BY <1>2 DEF Serve
  <2>6. \A m \in Mutations : Succeeded(m)' => m \in data'
    BY <2>2, <2>4, <2>5 DEF ReadInv, Executed, Succeeded, Requests
  <2>. QED  BY <2>2, <2>4, <2>5, <2>6, NetworkReads DEF Succeeded, Requests
<1>3. ASSUME NEW r \in Requests, Deliver(r) PROVE ReadInv'
  <2>1. \A q \in Requests : requests'[q].answer = requests[q].answer
    BY <1>3 DEF Deliver, NoRequest
  <2>2. \A q \in Requests : Succeeded(q)' => Succeeded(q)
    BY <1>3, <2>1 DEF Deliver, NoRequest, Succeeded
  <2>3. UNCHANGED <<pending, calls, mutations, data>>
    BY <1>3 DEF Deliver, server
  <2>. QED  BY <2>1, <2>2, <2>3, NetworkReads DEF ReadInv, Executed, Requests
<1>4. ASSUME NEW r \in Requests, Fail(r) PROVE ReadInv'
  <2>1. \A q \in Requests : Succeeded(q)' => Succeeded(q) /\ requests'[q].answer = requests[q].answer
    BY <1>4 DEF Fail, NoRequest, Succeeded, Errors
  <2>2. UNCHANGED <<pending, calls, mutations, data>>
    BY <1>4 DEF Fail, server
  <2>. QED  BY <2>1, <2>2, NetworkReads DEF ReadInv, Executed, Requests
<1>5. ASSUME NEW c \in Calls, NEW kind \in Kinds, Query(c, kind) PROVE ReadInv'
  <2>. DEFINE new == NewCall(kind, CacheKey(token))
  <2>1. new \in CallType /\ new.since = Confirmed
    BY NewCallTyping DEF CacheKey, ApiTypeOK, NewCall, NoCall
  <2>2. UNCHANGED <<mutations, data>>
    BY <1>5 DEF Query, server
  <2>3. Confirmed' = Confirmed /\ Promised' = Promised
    BY <2>2 DEF Confirmed, Promised
  <2>4. CASE kind \in Direct
    <3>1. Fetch(c, new)
      BY <1>5, <2>4 DEF Query
    <3>2. \A m \in Mutations : Succeeded(m)' => Succeeded(m)
      <4>1. PICK req \in Calls : Fetched(c, new, req)
        BY <2>1, <3>1, FetchEffect
      <4>. QED  BY <4>1 DEF Fetched, Succeeded, Requests
    <3>3. Executed'
      BY <2>2, <3>2 DEF ReadInv, Executed
    <3>. HIDE DEF new
    <3>. QED  BY <2>1, <2>2, <2>3, <3>1, <3>3, FetchReads
  <2>5. CASE kind \notin Direct
    <3>1. /\ calls' = [calls EXCEPT ![c] = [new EXCEPT !.step = "lookup"]]
          /\ UNCHANGED <<pending, requests>>
      BY <1>5, <2>5 DEF Query
    <3>2. [new EXCEPT !.step = "lookup"].step = "lookup" /\ [new EXCEPT !.step = "lookup"].since = Confirmed
      BY <2>1 DEF CallType
    <3>. HIDE DEF new
    <3>3. /\ calls'[c].step = "lookup" /\ calls'[c].since = Confirmed
          /\ \A d \in Calls \ {c} : calls'[d] = calls[d]
      BY <3>1, <3>2 DEF ApiTypeOK
    <3>. QED  BY <2>2, <2>3, <3>1, <3>3 DEF ReadInv, Executed, Succeeded, Informed, ReadsSeeOwnWrites
  <2>. QED  BY <2>4, <2>5
<1>6. ASSUME NEW c \in Calls, Lookup(c) PROVE ReadInv'
  <2>1. calls[c] \in CallType /\ calls[c].since \subseteq Confirmed /\ UNCHANGED <<mutations, data>>
    BY <1>6 DEF Lookup, ReadInv, ApiTypeOK, server
  <2>2. Confirmed' = Confirmed /\ Promised' = Promised
    BY <2>1 DEF Confirmed, Promised
  <2>3. CASE End(c, cache[calls[c].key]) /\ UNCHANGED <<pending, requests>>
    <3>1. calls'[c].step = "done" /\ \A d \in Calls \ {c} : calls'[d] = calls[d]
      BY <2>3 DEF End, NoCall, ApiTypeOK
    <3>. QED
      BY <2>1, <2>2, <2>3, <3>1 DEF ReadInv, Executed, Succeeded, Informed, ReadsSeeOwnWrites
  <2>4. CASE Fetch(c, calls[c])
    <3>1. \A m \in Mutations : Succeeded(m)' => Succeeded(m)
      <4>1. PICK req \in Calls : Fetched(c, calls[c], req)
        BY <2>1, <2>4, FetchEffect
      <4>. QED  BY ApiAssumption, <4>1 DEF Fetched, Succeeded, Requests
    <3>2. Executed'
      BY <2>1, <3>1 DEF ReadInv, Executed
    <3>. QED  BY <2>1, <2>2, <2>4, <3>2, FetchReads
  <2>. QED  BY <1>6, <2>3, <2>4 DEF Lookup
<1>7. ASSUME NEW c \in Calls, Answered(c) PROVE ReadInv'
  <2>1. /\ UNCHANGED <<pending, requests, mutations, data>>
        /\ \A d \in Calls \ {c} : calls'[d] = calls[d]
        /\ calls[c].step = "waiting" /\ calls'[c].since = calls[c].since
        /\ calls'[c].step \in {"storing", "fallback", "dropping"}
    BY <1>7 DEF Answered, server, ApiTypeOK, CallType
  <2>2. Executed' /\ Promised' = Promised /\ Confirmed' = Confirmed
    BY <2>1 DEF ReadInv, Executed, Succeeded, Promised, Confirmed
  <2>3. calls'[c].step = "storing" => Succeeded(calls[c].req) /\ calls'[c].value = requests[calls[c].req].answer
    BY <1>7 DEF Answered, Succeeded, ApiTypeOK
  <2>4. calls'[c].step = "storing" => calls'[c].since \subseteq calls'[c].value
    BY <2>1, <2>3 DEF ReadInv, Informed, Succeeded
  <2>5. ReadsSeeOwnWrites'
    BY <2>1, <2>4 DEF ReadInv, ReadsSeeOwnWrites
  <2>6. \A d \in Calls : calls'[d].step \in {"lookup", "waiting"} => d # c /\ calls'[d] = calls[d]
    BY <2>1
  <2>. QED
    BY <2>1, <2>2, <2>5, <2>6 DEF ReadInv, Informed, Succeeded
<1>8. ASSUME NEW c \in Calls, Process(c) PROVE ReadInv'
  BY <1>8 DEF Process, server, ReadInv, ReadsSeeOwnWrites, Informed, Succeeded, Executed, Promised,
     Confirmed, ApiTypeOK, Sound, End, NoCall
<1>9. ASSUME NEW c \in Calls, Fallback(c) PROVE ReadInv'
  BY <1>9 DEF Fallback, server, ReadInv, ReadsSeeOwnWrites, Informed, Succeeded, Executed, Promised,
     Confirmed, ApiTypeOK, Sound, End, NoCall
<1>10. ASSUME NEW s \in Scopes, Forget(s) PROVE ReadInv'
  BY <1>10 DEF Forget, server, ReadInv, ReadsSeeOwnWrites, Informed, Succeeded, Executed, Promised,
     Confirmed, ApiTypeOK, Sound
<1>11. ASSUME NEW m \in Mutations, Mutate(m) PROVE ReadInv'
  <2>1. requests'[m].step = "queued" /\ \A q \in Requests \ {m} : requests'[q] = requests[q]
    BY <1>11 DEF Mutate, Queue, ApiTypeOK, RequestType, Requests
  <2>2. \A q \in Requests : Succeeded(q)' => Succeeded(q) /\ requests'[q].answer = requests[q].answer
    BY <2>1 DEF Succeeded
  <2>3. UNCHANGED <<pending, calls, data>> /\ Promised' = Promised /\ Confirmed' = Confirmed
    BY <1>11 DEF Mutate, server, Promised, Confirmed, ApiTypeOK
  <2>4. \A n \in Mutations : mutations'[n].step \in {"answered", "deleting", "done"} =>
                              mutations[n].step \in {"answered", "deleting", "done"}
    BY <1>11 DEF Mutate, ApiTypeOK
  <2>5. Executed'
    BY <2>2, <2>3, <2>4 DEF ReadInv, Executed, Requests
  <2>. QED
    BY ZenonT(40), <2>2, <2>3, <2>5 DEF ReadInv, Informed, ReadsSeeOwnWrites, ApiTypeOK, Sound, Requests
<1>12. ASSUME NEW m \in Mutations, MutationAnswered(m) PROVE ReadInv'
  BY <1>12 DEF MutationAnswered, ReadInv, ReadsSeeOwnWrites, Informed, Succeeded, Executed,
     Promised, Confirmed, ApiTypeOK, Sound, server
<1>13. ASSUME NEW m \in Mutations, ForgetPending(m) PROVE ReadInv'
  BY <1>13 DEF ForgetPending, ReadInv, ReadsSeeOwnWrites, Informed, Succeeded, Executed,
     Promised, Confirmed, ApiTypeOK, Sound, server
<1>14. ASSUME NEW m \in Mutations, Invalidated(m) PROVE ReadInv'
  <2>1. /\ mutations[m].step = "deleting" /\ mutations'[m].step = "done" /\ UNCHANGED data
        /\ \A n \in Mutations \ {m} : mutations'[n] = mutations[n]
    BY <1>14 DEF Invalidated, server, ApiTypeOK
  <2>2. Promised' = Promised /\ Confirmed \subseteq Confirmed'
    BY <2>1 DEF Promised, Confirmed
  <2>3. CASE stream.step = "listening"
    <3>. DEFINE new == NewCall("reload", stream.key)
    <3>1. PICK c \in Calls : Fetch(c, new)
      BY <1>14, <2>3 DEF Invalidated
    <3>2. new \in CallType /\ new.since = Confirmed
      BY NewCallTyping DEF ApiTypeOK, NewCall, NoCall
    <3>. HIDE DEF new
    <3>3. \A n \in Mutations : Succeeded(n)' => Succeeded(n)
      <4>1. PICK req \in Calls : Fetched(c, new, req)
        BY <3>1, <3>2, FetchEffect
      <4>. QED  BY <4>1 DEF Fetched, Succeeded, Requests
    <3>4. Executed'
      BY <2>1, <3>3 DEF ReadInv, Executed
    <3>. QED  BY <2>1, <2>2, <3>1, <3>2, <3>4, FetchReads
  <2>4. CASE stream.step # "listening"
    <3>1. UNCHANGED <<calls, pending, requests>>
      BY <1>14, <2>4 DEF Invalidated
    <3>. QED
      BY <2>1, <2>2, <3>1 DEF ReadInv, Executed, Succeeded, Informed, ReadsSeeOwnWrites
  <2>. QED  BY <2>3, <2>4
<1>15. ASSUME NEW t \in Tokens, Login(t) PROVE ReadInv'
  BY <1>15 DEF Login, ReadInv, ReadsSeeOwnWrites, Informed, Succeeded, Executed, Promised,
     Confirmed, ApiTypeOK, Sound, server
<1>16. ASSUME UserLogout PROVE ReadInv'
  BY <1>16 DEF UserLogout, ReadInv, ReadsSeeOwnWrites, Informed, Succeeded, Executed, Promised,
     Confirmed, ApiTypeOK, Sound, server
<1>17. ASSUME NEW l \in Logouts, Cleared(l) PROVE ReadInv'
  BY <1>17 DEF Cleared, ReadInv, ReadsSeeOwnWrites, Informed, Succeeded, Executed, Promised,
     Confirmed, ApiTypeOK, Sound, server
<1>18. ASSUME NEW l \in Logouts, Revoke(l) PROVE ReadInv'
  BY <1>18 DEF Revoke, ReadInv, ReadsSeeOwnWrites, Informed, Succeeded, Executed, Promised,
     Confirmed, ApiTypeOK, Sound, server
<1>19. ASSUME NEW l \in Logouts, LoggedOut(l) PROVE ReadInv'
  BY <1>19 DEF LoggedOut, ReadInv, ReadsSeeOwnWrites, Informed, Succeeded, Executed, Promised,
     Confirmed, ApiTypeOK, Sound, server
<1>20. ASSUME NEW t \in Tokens, Expire(t) PROVE ReadInv'
  BY <1>20 DEF Expire, ReadInv, ReadsSeeOwnWrites, Informed, Succeeded, Executed, Promised,
     Confirmed, ApiTypeOK, Sound, server
<1>21. ASSUME UNCHANGED vars PROVE ReadInv'
  BY <1>21 DEF vars, ReadInv, ReadsSeeOwnWrites, Informed, Succeeded, Executed, Promised,
     Confirmed, ApiTypeOK, Sound
<1>. QED
  BY <1>1, <1>2, <1>3, <1>4, <1>5, <1>6, <1>7, <1>8, <1>9, <1>10, <1>11, <1>12, <1>13, <1>14,
     <1>15, <1>16, <1>17, <1>18, <1>19, <1>20, <1>21 DEF Next, Client, Users, Network

\* ReadsSeeOwnWrites: what the network answers to a query shows every mutation that had
\* resolved when the query began, however requests are shared and invalidations race them.
THEOREM ReadsAreFresh == Spec => []ReadsSeeOwnWrites
<1>1. Init => ReadInv
  BY ApiAssumption DEF Init, ReadInv, Executed, Succeeded, Informed, ReadsSeeOwnWrites, NoRequest, NoCall,
     Requests
<1>2. ReadInv => ReadsSeeOwnWrites
  BY DEF ReadInv
<1>. QED  BY <1>1, <1>2, Typing, ReadStep, PTL DEF Spec

-----------------------------------------------------------------------------
(* Sessions make their own requests                                        *)

\* The scopes a key can have: no session, or one that has been granted.
Known == granted \cup {None}

\* Only the requests a session has made itself are shared under its key.
SessionInv ==
    /\ token \in Known
    /\ stream.key \in Known
    /\ \A c \in Calls : calls[c].key \in Known /\ calls[c].scope \in Known
    /\ \A t \in Tokens : pending[t] # None => t \in granted /\ pending[t] \notin older[t]
    /\ \A t \in Tokens : \A r \in older[t] : requests[r].step # "none"
    /\ SessionsMakeTheirOwnRequests

\* What is known of sessions survives an execution of the query under a known key.
LEMMA FetchSessions ==
    ASSUME ApiTypeOK, AwaitInv, SessionInv, NEW c \in Calls, NEW call \in CallType,
           calls[c].step \in {"idle", "lookup"}, Fetch(c, call),
           call.key \in Known, call.kind \in Direct => call.key = token,
           UNCHANGED <<token, granted, older>>, stream'.key \in Known
    PROVE  SessionInv'
<1>1. PICK req \in Calls : Fetched(c, call, req)
  BY FetchEffect
<1>2. requests[c].step = "none" /\ Known' = Known /\ c # None
  BY ApiAssumption DEF AwaitInv, Unused, Known
<1>3. /\ calls'[c].req = req /\ calls'[c].kind = call.kind /\ calls'[c].key = call.key
      /\ calls'[c].scope = token /\ \A d \in Calls \ {c} : calls'[d] = calls[d]
  BY <1>1 DEF Fetched
<1>4. pending' = [pending EXCEPT ![call.key] = req] /\ pending \in [Scopes -> Calls \cup {None}]
  BY <1>1 DEF Fetched, ApiTypeOK
<1>5. \A t \in Tokens : c \notin older[t]
  BY <1>2 DEF SessionInv
<1>6. \A t \in Tokens : call.key = t => t \in granted /\ req \notin older[t]
  <2>1. SUFFICES ASSUME NEW t \in Tokens, call.key = t PROVE t \in granted /\ req \notin older[t]
    OBVIOUS
  <2>2. t \in granted
    BY <2>1, ApiAssumption DEF Known
  <2>3. req = pending[t] \/ req = c
    BY <1>1, <2>1 DEF Fetched
  <2>. QED  BY <1>5, <2>2, <2>3, ApiAssumption DEF SessionInv
<1>7. \A t \in Tokens : pending'[t] # None => t \in granted /\ pending'[t] \notin older[t]
  BY <1>4, <1>6 DEF SessionInv, Scopes
<1>8. \A t \in Tokens : \A r \in older[t] : requests'[r].step # "none"
  <2>1. \A r \in Requests \ {c} : requests'[r] = requests[r]
    BY <1>1 DEF Fetched
  <2>. QED  BY <1>5, <2>1 DEF SessionInv, ApiTypeOK, Requests
<1>9. SessionsMakeTheirOwnRequests'
  <2>1. ASSUME call.kind \in Direct, token # None PROVE req \notin older[token]
    BY <1>6, <2>1 DEF ApiTypeOK, Scopes
  <2>2. \A d \in Calls : calls[d].step = "waiting" /\ calls[d].kind \in Direct /\ calls[d].scope # None
                          => calls[d].req \notin older[calls[d].scope]
    BY DEF SessionInv, SessionsMakeTheirOwnRequests
  <2>. QED  BY <1>3, <2>1, <2>2 DEF SessionsMakeTheirOwnRequests
<1>. QED  BY <1>2, <1>3, <1>7, <1>8, <1>9 DEF SessionInv

LEMMA SessionStep ==
    ASSUME ApiTypeOK, AwaitInv, SessionInv, [Next]_vars
    PROVE  SessionInv'
<1>. USE ApiAssumption DEF SessionInv
<1>1. ASSUME NEW kind \in {Calls, Mutations}, Flush(kind) PROVE SessionInv'
  <2>1. \A r \in Requests : requests[r].step # "none" => requests'[r].step # "none"
    <3>. DEFINE batch == {r \in kind : requests[r].step = "queued"}
    <3>1. \A r \in Requests : requests[r] \in RequestType
      BY DEF ApiTypeOK
    <3>2. \A r \in Requests : requests'[r] =
             IF r \in batch THEN [requests[r] EXCEPT !.step = "sent", !.auth = token, !.mates = batch]
             ELSE requests[r]
      BY <1>1 DEF Flush
    <3>. HIDE DEF batch
    <3>. QED  BY <3>1, <3>2 DEF RequestType
  <2>. QED
    BY <1>1, <2>1 DEF Flush, Known, SessionsMakeTheirOwnRequests, ApiTypeOK, Requests, server
<1>2. ASSUME NEW r \in Requests, Serve(r) PROVE SessionInv'
  BY <1>2 DEF Serve, Known, SessionsMakeTheirOwnRequests, ApiTypeOK, server
<1>3. ASSUME NEW r \in Requests, Deliver(r) PROVE SessionInv'
  <2>1. \A q \in Requests : requests[q].step # "none" => requests'[q].step # "none"
    BY <1>3 DEF Deliver, NoRequest
  <2>. QED
    BY ZenonT(40), <1>3, <2>1 DEF Deliver, Known, SessionsMakeTheirOwnRequests, ApiTypeOK, Requests, server
<1>4. ASSUME NEW r \in Requests, Fail(r) PROVE SessionInv'
  <2>1. \A q \in Requests : requests[q].step # "none" => requests'[q].step # "none"
    BY <1>4 DEF Fail, NoRequest
  <2>. QED
    BY <1>4, <2>1 DEF Fail, Known, SessionsMakeTheirOwnRequests, ApiTypeOK, Requests, server
<1>5. ASSUME NEW c \in Calls, NEW kind \in Kinds, Query(c, kind) PROVE SessionInv'
  <2>. DEFINE new == NewCall(kind, CacheKey(token))
  <2>1. new \in CallType /\ new.key = token /\ new.scope = None
    BY NewCallTyping DEF CacheKey, ApiTypeOK, NewCall, NoCall
  <2>2. stream'.key \in Known /\ UNCHANGED <<token, granted, older>>
    BY <1>5 DEF Query, CacheKey, server
  <2>3. CASE kind \in Direct
    <3>1. Fetch(c, new) /\ calls[c].step = "idle"
      BY <1>5, <2>3 DEF Query
    <3>. HIDE DEF new
    <3>. QED  BY <2>1, <2>2, <3>1, FetchSessions
  <2>4. CASE kind \notin Direct
    <3>1. /\ calls' = [calls EXCEPT ![c] = [new EXCEPT !.step = "lookup"]]
          /\ UNCHANGED <<pending, requests>>
      BY <1>5, <2>4 DEF Query
    <3>2. /\ [new EXCEPT !.step = "lookup"].step = "lookup"
          /\ [new EXCEPT !.step = "lookup"].key = token /\ [new EXCEPT !.step = "lookup"].scope = None
      BY <2>1 DEF CallType
    <3>. HIDE DEF new
    <3>3. /\ calls'[c].step = "lookup" /\ calls'[c].key = token /\ calls'[c].scope = None
          /\ \A d \in Calls \ {c} : calls'[d] = calls[d]
      BY <3>1, <3>2 DEF ApiTypeOK
    <3>. QED  BY <2>2, <3>1, <3>3 DEF Known, SessionsMakeTheirOwnRequests
  <2>. QED  BY <2>3, <2>4
<1>6. ASSUME NEW c \in Calls, Lookup(c) PROVE SessionInv'
  <2>1. UNCHANGED <<token, granted, older>>
    BY <1>6 DEF Lookup, server
  <2>2. CASE End(c, cache[calls[c].key]) /\ UNCHANGED <<pending, requests>>
    BY <2>1, <2>2 DEF End, NoCall, ApiTypeOK, Known, SessionsMakeTheirOwnRequests
  <2>3. CASE /\ calls[c].kind \in {"first", "cache-first"} /\ Fetch(c, calls[c])
             /\ stream' = IF calls[c].kind = "first"
                          THEN [stream EXCEPT !.shown = cache[calls[c].key]] ELSE stream
    <3>1. calls[c] \in CallType /\ calls[c].kind \notin Direct /\ calls[c].step = "lookup"
      BY <1>6, <2>3 DEF Lookup, ApiTypeOK, Direct
    <3>2. stream'.key \in Known
      BY <2>3 DEF ApiTypeOK
    <3>. QED  BY <2>1, <2>3, <3>1, <3>2, FetchSessions
  <2>. QED  BY <1>6, <2>2, <2>3 DEF Lookup
<1>7. ASSUME NEW c \in Calls, Answered(c) PROVE SessionInv'
  BY <1>7 DEF Answered, Known, SessionsMakeTheirOwnRequests, ApiTypeOK, server
<1>8. ASSUME NEW c \in Calls, Process(c) PROVE SessionInv'
  BY <1>8 DEF Process, Known, SessionsMakeTheirOwnRequests, ApiTypeOK, server, End, NoCall
<1>9. ASSUME NEW c \in Calls, Fallback(c) PROVE SessionInv'
  BY <1>9 DEF Fallback, Known, SessionsMakeTheirOwnRequests, ApiTypeOK, server, End, NoCall
<1>10. ASSUME NEW s \in Scopes, Forget(s) PROVE SessionInv'
  BY <1>10 DEF Forget, Known, SessionsMakeTheirOwnRequests, ApiTypeOK, server
<1>11. ASSUME NEW m \in Mutations, Mutate(m) PROVE SessionInv'
  BY <1>11 DEF Mutate, Known, SessionsMakeTheirOwnRequests, ApiTypeOK, server, Queue
<1>12. ASSUME NEW m \in Mutations, MutationAnswered(m) PROVE SessionInv'
  BY <1>12 DEF MutationAnswered, Known, SessionsMakeTheirOwnRequests, ApiTypeOK, server
<1>13. ASSUME NEW m \in Mutations, ForgetPending(m) PROVE SessionInv'
  <2>1. \A t \in Tokens : pending'[t] = None
    BY <1>13 DEF ForgetPending, Scopes
  <2>2. UNCHANGED <<token, stream, calls, granted, requests, older>>
    BY <1>13 DEF ForgetPending, server
  <2>. QED  BY <2>1, <2>2 DEF Known, SessionsMakeTheirOwnRequests
<1>14. ASSUME NEW m \in Mutations, Invalidated(m) PROVE SessionInv'
  <2>1. UNCHANGED <<token, granted, older, stream>>
    BY <1>14 DEF Invalidated, server
  <2>2. CASE stream.step = "listening"
    <3>. DEFINE new == NewCall("reload", stream.key)
    <3>1. PICK c \in Calls : calls[c].step = "idle" /\ Fetch(c, new)
      BY <1>14, <2>2 DEF Invalidated
    <3>2. new \in CallType /\ new.key = stream.key /\ new.kind \notin Direct
      BY NewCallTyping DEF ApiTypeOK, NewCall, NoCall, Direct
    <3>. HIDE DEF new
    <3>. QED  BY <2>1, <3>1, <3>2, FetchSessions
  <2>3. CASE stream.step # "listening"
    BY <1>14, <2>1, <2>3 DEF Invalidated, Known, SessionsMakeTheirOwnRequests
  <2>. QED  BY <2>2, <2>3
<1>15. ASSUME NEW t \in Tokens, Login(t) PROVE SessionInv'
  BY <1>15 DEF Login, Known, SessionsMakeTheirOwnRequests, ApiTypeOK, server, SetToken, CallType
<1>16. ASSUME UserLogout PROVE SessionInv'
  BY <1>16 DEF UserLogout, Known, SessionsMakeTheirOwnRequests, ApiTypeOK, server
<1>17. ASSUME NEW l \in Logouts, Cleared(l) PROVE SessionInv'
  <2>1. \A t \in Tokens : pending'[t] = None
    BY <1>17 DEF Cleared, Scopes
  <2>2. UNCHANGED <<token, stream, calls, granted, requests, older>>
    BY <1>17 DEF Cleared, server
  <2>. QED  BY <2>1, <2>2 DEF Known, SessionsMakeTheirOwnRequests
<1>18. ASSUME NEW l \in Logouts, Revoke(l) PROVE SessionInv'
  BY <1>18 DEF Revoke, Known, SessionsMakeTheirOwnRequests, ApiTypeOK, server
<1>19. ASSUME NEW l \in Logouts, LoggedOut(l) PROVE SessionInv'
  BY <1>19 DEF LoggedOut, Known, SessionsMakeTheirOwnRequests, ApiTypeOK, server, SetToken
<1>20. ASSUME NEW t \in Tokens, Expire(t) PROVE SessionInv'
  BY <1>20 DEF Expire, Known, SessionsMakeTheirOwnRequests, ApiTypeOK, server
<1>21. ASSUME UNCHANGED vars PROVE SessionInv'
  BY <1>21 DEF vars, Known, SessionsMakeTheirOwnRequests, ApiTypeOK, server
<1>. QED
  BY <1>1, <1>2, <1>3, <1>4, <1>5, <1>6, <1>7, <1>8, <1>9, <1>10, <1>11, <1>12, <1>13, <1>14,
     <1>15, <1>16, <1>17, <1>18, <1>19, <1>20, <1>21 DEF Next, Client, Users, Network

\* SessionsMakeTheirOwnRequests: a query that starts in a session never waits for a request
\* made before the session began, whichever requests are shared meanwhile.
THEOREM SessionsAreSeparate == Spec => []SessionsMakeTheirOwnRequests
<1>1. Init => SessionInv
  BY ApiAssumption DEF Init, SessionInv, Known, SessionsMakeTheirOwnRequests, NoCall, Scopes
<1>2. Init => AwaitInv
  BY ApiAssumption DEF Init, AwaitInv, Unused, SharedAreMade, CallsAwaitAnswers, NoRequest, NoCall, Requests
<1>3. SessionInv => SessionsMakeTheirOwnRequests
  BY DEF SessionInv
<1>. QED  BY <1>1, <1>2, <1>3, Typing, AwaitStep, SessionStep, PTL DEF Spec

=============================================================================
