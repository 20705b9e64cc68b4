---------------------------- MODULE SessionStore ----------------------------
(***************************************************************************)
(* The status of a session: MongoDB holds it, Redis caches it for 48       *)
(* hours.  CreateNewPoll inserts and caches, UpdateSessionHandler updates  *)
(* and deletes the cached copy, and every GetSessionByID (of               *)
(* SubmitVoteHandler and of the vote consumer) reads the cache first and   *)
(* fills it from MongoDB when that fails.  Each call to Redis or MongoDB   *)
(* is a step, so that the requests of all instances interleave between     *)
(* any two of them.                                                        *)
(***************************************************************************)
EXTENDS Naturals

CONSTANTS
  Requests,   \* HTTP requests; what each of them asks for is open
  Sessions,   \* session ids
  Faults      \* the failures considered: pairs <<service, outcome>>

\* error: no effect; late: took effect, the caller saw an error; crash: the
\* goroutine of the request dies with its process.
FaultKinds == {"redis", "mongo"} \X {"error", "late"} \cup {<<"process", "crash">>}

ASSUME SessionAssumption == Faults \subseteq FaultKinds

VARIABLES
  stored,     \* status of each session in the collection, or "none"
  cached,     \* status in the Redis key session:{id}, or "none"
  request,    \* where each request is, and what it holds
  outdated,   \* history: requests whose copy was read before an update
  tainted,    \* history: sessions whose cached copy an outdated request wrote,
              \*   or whose invalidation was lost
  open        \* history: requests during which their session could be active

vars == <<stored, cached, request, outdated, tainted, open>>

Statuses == {"active", "closed"}

Request == [pc : {"idle", "find", "fill", "invalidate", "done"},
            kind : {"none", "vote", "create", "update"},
            session : Sessions, copy : Statuses \cup {"none"},
            reply : {"none", "200", "201", "202", "400", "500"}]

Init ==
  /\ stored \in [Sessions -> Statuses \cup {"none"}]
  /\ cached = [s \in Sessions |-> "none"]
  /\ request \in [Requests -> [pc : {"idle"}, kind : {"none"}, session : Sessions,
                               copy : {"none"}, reply : {"none"}]]
  /\ outdated = {}
  /\ tainted = {}
  /\ open = {}

-----------------------------------------------------------------------------

Outcome(service) == {"ok"} \cup {o \in {"error", "late"} : <<service, o>> \in Faults}
TakesEffect(o) == o # "error"

\* Requests that hold a copy of the session, on their way to cache it.
Filling(s) == {r \in Requests : request[r].pc = "fill" /\ request[r].session = s}

\* An update of the session whose invalidation is still to come.
Pending(s) == \E r \in Requests : request[r].pc = "invalidate" /\ request[r].session = s

InFlight(s) == {r \in Requests : request[r].pc \in {"find", "fill"} /\ request[r].session = s}

Reply(r, code) == [request[r] EXCEPT !.pc = "done", !.reply = code]

\* Mutant: any session that is found will do.
AnyStatus(status) == "202"

\* SubmitVoteHandler: only an active session takes votes.
VoteReply(status) == IF status = "active" THEN "202" ELSE "400"

\* CreateNewPoll, SavePollQuestions: the new session is active.
InsertSession(r) ==
  LET s == request[r].session IN
  /\ request[r].pc = "idle"
  /\ stored[s] = "none"
  /\ \E o \in Outcome("mongo") :
       /\ stored' = IF TakesEffect(o) THEN [stored EXCEPT ![s] = "active"] ELSE stored
       /\ open' = IF TakesEffect(o) THEN open \cup InFlight(s) ELSE open
       /\ request' = [request EXCEPT ![r] =
            IF o = "ok" THEN [@ EXCEPT !.pc = "fill", !.kind = "create", !.copy = "active"]
            ELSE [Reply(r, "500") EXCEPT !.kind = "create"]]
  /\ UNCHANGED <<cached, outdated, tainted>>

\* GetSessionByID for SubmitVoteHandler: a copy in the cache answers the request.
\* An error of Redis counts as a miss.
FetchSessionFromCache(r) ==
  LET s == request[r].session IN
  /\ request[r].pc = "idle"
  /\ open' = IF stored[s] = "active" \/ Pending(s) \/ s \in tainted THEN open \cup {r} ELSE open
  /\ \E o \in Outcome("redis") :
       request' = [request EXCEPT ![r] =
         IF o = "ok" /\ cached[s] # "none"
         THEN [Reply(r, VoteReply(cached[s])) EXCEPT !.kind = "vote"]
         ELSE [@ EXCEPT !.pc = "find", !.kind = "vote"]]
  /\ UNCHANGED <<stored, cached, outdated, tainted>>

\* fetchSessionFromMongoDB
FetchSessionFromMongoDB(r) ==
  LET s == request[r].session IN
  /\ request[r].pc = "find"
  /\ \E o \in Outcome("mongo") :
       request' = [request EXCEPT ![r] =
         IF o = "ok" /\ stored[s] # "none" THEN [@ EXCEPT !.pc = "fill", !.copy = stored[s]]
         ELSE Reply(r, "400")]
  /\ UNCHANGED <<stored, cached, outdated, tainted, open>>

\* cacheSessionInRedis: an error is logged only, and the request goes on with
\* its copy.
CacheSessionInRedis(r) ==
  LET s == request[r].session IN
  /\ request[r].pc = "fill"
  /\ \E o \in Outcome("redis") :
       IF TakesEffect(o)
       THEN /\ cached' = [cached EXCEPT ![s] = request[r].copy]
            /\ tainted' = IF r \in outdated THEN tainted \cup {s} ELSE tainted \ {s}
       ELSE UNCHANGED <<cached, tainted>>
  /\ request' = [request EXCEPT ![r] =
       Reply(r, IF request[r].kind = "create" THEN "201" ELSE VoteReply(request[r].copy))]
  /\ UNCHANGED <<stored, outdated, open>>

\* Mutant: every string is a status.
AnyRequested == Statuses \cup {"draft"}

\* UpdateSessionHandler answers any other status with 400.
ValidStatuses == Statuses

\* UpdateSessionStatus, first call: UpdateOne reports no error when no session
\* has the id.  After an error the cached copy is not deleted.
UpdateStatusInMongoDB(r) ==
  LET s == request[r].session IN
  /\ request[r].pc = "idle"
  /\ \E status \in ValidStatuses, o \in Outcome("mongo") :
       /\ IF TakesEffect(o) /\ stored[s] # "none"
          THEN /\ stored' = [stored EXCEPT ![s] = status]
               /\ outdated' = outdated \cup Filling(s)
               /\ open' = IF status = "active" THEN open \cup InFlight(s) ELSE open
          ELSE UNCHANGED <<stored, outdated, open>>
       /\ tainted' = IF o = "late" THEN tainted \cup {s} ELSE tainted
       /\ request' = [request EXCEPT ![r] =
            IF o = "ok" THEN [@ EXCEPT !.pc = "invalidate", !.kind = "update"]
            ELSE [Reply(r, "500") EXCEPT !.kind = "update"]]
  /\ UNCHANGED cached

\* Mutant: the cached copy is left alone.
NotDeleted(s, o) == cached

\* Del of the session's key.
Deleted(s, o) == IF TakesEffect(o) THEN [cached EXCEPT ![s] = "none"] ELSE cached

\* UpdateSessionStatus, second call: the result of Del is not looked at.
DeleteCachedSession(r) ==
  LET s == request[r].session IN
  /\ request[r].pc = "invalidate"
  /\ \E o \in Outcome("redis") :
       /\ cached' = Deleted(s, o)
       /\ tainted' = IF TakesEffect(o) THEN tainted \ {s} ELSE tainted \cup {s}
  /\ request' = [request EXCEPT ![r] = Reply(r, "200")]
  /\ UNCHANGED <<stored, outdated, open>>

-----------------------------------------------------------------------------

\* The TTL of 48 hours ends, or Redis drops the key.
SessionExpires(s) ==
  /\ cached[s] # "none"
  /\ cached' = [cached EXCEPT ![s] = "none"]
  /\ tainted' = tainted \ {s}
  /\ UNCHANGED <<stored, request, outdated, open>>

\* The process that serves the request dies.
Crash(r) ==
  /\ <<"process", "crash">> \in Faults
  /\ request[r].pc \in {"find", "fill", "invalidate"}
  /\ tainted' = IF request[r].pc = "invalidate" THEN tainted \cup {request[r].session}
                ELSE tainted
  /\ request' = [request EXCEPT ![r] = Reply(r, "none")]
  /\ UNCHANGED <<stored, cached, outdated, open>>

Next ==
  \/ \E r \in Requests :
       \/ InsertSession(r)
       \/ FetchSessionFromCache(r)
       \/ FetchSessionFromMongoDB(r)
       \/ CacheSessionInRedis(r)
       \/ UpdateStatusInMongoDB(r)
       \/ DeleteCachedSession(r)
       \/ Crash(r)
  \/ \E s \in Sessions : SessionExpires(s)

Spec == Init /\ [][Next]_vars

-----------------------------------------------------------------------------
(* Properties *)

TypeOK ==
  /\ stored \in [Sessions -> Statuses \cup {"none"}]
  /\ cached \in [Sessions -> Statuses \cup {"none"}]
  /\ request \in [Requests -> Request]
  /\ outdated \subseteq Requests
  /\ tainted \subseteq Sessions
  /\ open \subseteq Requests

\* The cached status differs from the stored one only between the two calls of
\* an update, after a request cached a copy it had read before an update, or
\* after an invalidation that failed, never came or was not tried.  The next
\* fill by anybody else, invalidation or expiry ends it.
StaleOnlyByRace ==
  \A s \in Sessions :
    cached[s] \notin {"none", stored[s]} => Pending(s) \/ s \in tainted

\* A vote is accepted only if its session was active at some time during the
\* request, or the cache could be stale when the request came.
AcceptedWhileOpen ==
  \A r \in Requests : request[r].reply = "202" => r \in open
=============================================================================
