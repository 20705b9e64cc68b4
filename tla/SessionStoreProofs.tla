------------------------- MODULE SessionStoreProofs -------------------------
(***************************************************************************)
(* Theorems about SessionStore, for any requests, sessions and faults.     *)
(*                                                                         *)
(* StaleOnlyByRace needs to know what a request about to fill the cache    *)
(* holds: unless an update overtook it, the stored status (CleanCopies).   *)
(* AcceptedWhileOpen needs the same of requests that have not read the     *)
(* status yet (OpenInv).                                                   *)
(***************************************************************************)
EXTENDS SessionStore, TLAPS

CleanCopies ==
  \A r \in Requests :
    request[r].pc = "fill" =>
      /\ request[r].copy \in Statuses
      /\ r \notin outdated => request[r].copy = stored[request[r].session]

OpenInv ==
  \A r \in Requests :
    /\ request[r].pc = "find" /\ stored[request[r].session] = "active" => r \in open
    /\ request[r].pc = "fill" /\ request[r].kind # "create" /\ request[r].copy = "active"
         => r \in open
    /\ request[r].reply = "202" => r \in open

Inv == TypeOK /\ CleanCopies /\ StaleOnlyByRace /\ OpenInv

Codes == {"none", "200", "201", "202", "400", "500"}
Kinds == {"none", "vote", "create", "update"}

-----------------------------------------------------------------------------

\* A request that takes a new value of the right type leaves the others alone.
LEMMA RequestStep ==
  ASSUME TypeOK, NEW r \in Requests, NEW x \in Request, request' = [request EXCEPT ![r] = x]
  PROVE  /\ request' \in [Requests -> Request]
         /\ request'[r] = x
         /\ \A q \in Requests \ {r} : request'[q] = request[q]
BY DEF TypeOK

\* A request that is answered keeps all but its place and its reply.
LEMMA ReplyFields ==
  ASSUME TypeOK, NEW r \in Requests, NEW c \in Codes
  PROVE  /\ Reply(r, c) \in Request
         /\ Reply(r, c).pc = "done" /\ Reply(r, c).reply = c
         /\ Reply(r, c).session = request[r].session
         /\ Reply(r, c).kind = request[r].kind
BY DEF TypeOK, Request, Reply, Codes

LEMMA ReplyKindFields ==
  ASSUME TypeOK, NEW r \in Requests, NEW c \in Codes, NEW k \in Kinds
  PROVE  /\ [Reply(r, c) EXCEPT !.kind = k] \in Request
         /\ [Reply(r, c) EXCEPT !.kind = k].pc = "done"
         /\ [Reply(r, c) EXCEPT !.kind = k].reply = c
         /\ [Reply(r, c) EXCEPT !.kind = k].session = request[r].session
<1> DEFINE x == Reply(r, c)
<1>1. x \in Request /\ x.pc = "done" /\ x.reply = c /\ x.session = request[r].session
  BY ReplyFields
<1> HIDE DEF x
<1>2. [x EXCEPT !.kind = k] \in Request
  BY <1>1 DEF Request, Kinds
<1>3. /\ [x EXCEPT !.kind = k].pc = x.pc /\ [x EXCEPT !.kind = k].reply = x.reply
      /\ [x EXCEPT !.kind = k].session = x.session
  BY <1>1 DEF Request
<1> QED
  BY <1>1, <1>2, <1>3 DEF x

\* Only an active session's votes are accepted.
LEMMA VoteReplyAccepts ==
  ASSUME NEW c
  PROVE  /\ VoteReply(c) \in {"202", "400"}
         /\ VoteReply(c) = "202" => c = "active"
BY DEF VoteReply

-----------------------------------------------------------------------------

LEMMA InitInv == Init => Inv
<1> SUFFICES ASSUME Init PROVE Inv
  OBVIOUS
<1>1. TypeOK
  BY DEF Init, TypeOK, Request, Statuses
<1>2. \A r \in Requests : request[r].pc = "idle" /\ request[r].reply = "none"
  BY DEF Init
<1>3. \A s \in Sessions : cached[s] = "none"
  BY DEF Init
<1> QED
  BY <1>1, <1>2, <1>3 DEF Inv, CleanCopies, StaleOnlyByRace, OpenInv

\* The step of one request: what of the invariant is left to show.
LEMMA OneRequest ==
  ASSUME Inv, NEW r \in Requests, NEW x \in Request, request' = [request EXCEPT ![r] = x],
         stored' \in [Sessions -> Statuses \cup {"none"}],
         cached' \in [Sessions -> Statuses \cup {"none"}],
         outdated' \in SUBSET Requests, outdated \subseteq outdated',
         tainted' \in SUBSET Sessions, open' \in SUBSET Requests, open \subseteq open',
         x.session = request[r].session,
         \* the copies of the others stay clean, and active sessions open
         \A q \in Requests \ outdated' :
           request[q].pc = "fill" => stored'[request[q].session] = stored[request[q].session],
         \A q \in Requests : request[q].pc = "find" /\ stored'[request[q].session] = "active"
           => q \in open' \/ stored[request[q].session] = "active",
         \* and so for the request itself
         x.pc = "fill" =>
           x.copy \in Statuses /\ (x.copy = stored'[x.session] \/ r \in outdated'),
         x.pc = "find" /\ stored'[x.session] = "active" => r \in open',
         x.pc = "fill" /\ x.kind # "create" /\ x.copy = "active" => r \in open',
         x.reply = "202" => r \in open',
         StaleOnlyByRace'
  PROVE  Inv'
<1>1. /\ request' \in [Requests -> Request]
      /\ request'[r] = x
      /\ \A q \in Requests \ {r} : request'[q] = request[q]
  BY RequestStep DEF Inv
<1>2. TypeOK'
  BY <1>1 DEF TypeOK
<1>3. CleanCopies'
  <2> SUFFICES ASSUME NEW q \in Requests, request'[q].pc = "fill"
               PROVE  /\ request'[q].copy \in Statuses
                      /\ q \notin outdated' => request'[q].copy = stored'[request'[q].session]
    BY DEF CleanCopies
  <2>1. CASE q = r
    BY <1>1, <2>1
  <2>2. CASE q # r
    BY <1>1, <2>2 DEF Inv, CleanCopies
  <2> QED
    BY <2>1, <2>2
<1>4. OpenInv'
  <2> SUFFICES ASSUME NEW q \in Requests
               PROVE  /\ request'[q].pc = "find" /\ stored'[request'[q].session] = "active"
                           => q \in open'
                      /\ /\ request'[q].pc = "fill" /\ request'[q].kind # "create"
                         /\ request'[q].copy = "active"
                         => q \in open'
                      /\ request'[q].reply = "202" => q \in open'
    BY DEF OpenInv
  <2>1. CASE q = r
    BY <1>1, <2>1
  <2>2. CASE q # r
    BY <1>1, <2>2 DEF Inv, OpenInv
  <2> QED
    BY <2>1, <2>2
<1> QED
  BY <1>2, <1>3, <1>4 DEF Inv

-----------------------------------------------------------------------------
(* The steps. *)

\* No invalidation is pending that was not, and none is lost but the one of r.
LEMMA InsertSessionInv ==
  ASSUME Inv, NEW r \in Requests, InsertSession(r)
  PROVE  Inv'
<1>1. PICK s \in Sessions : s = request[r].session
  BY DEF Inv, TypeOK, Request
<1>2. PICK o : /\ stored' = IF TakesEffect(o) THEN [stored EXCEPT ![s] = "active"] ELSE stored
               /\ open' = IF TakesEffect(o) THEN open \cup InFlight(s) ELSE open
               /\ request' = [request EXCEPT ![r] =
                    IF o = "ok" THEN [@ EXCEPT !.pc = "fill", !.kind = "create", !.copy = "active"]
                    ELSE [Reply(r, "500") EXCEPT !.kind = "create"]]
  BY <1>1 DEF InsertSession
<1>3. /\ request[r].pc = "idle" /\ stored[s] = "none"
      /\ UNCHANGED <<cached, outdated, tainted>>
  BY <1>1 DEF InsertSession
<1> DEFINE x == IF o = "ok"
                THEN [request[r] EXCEPT !.pc = "fill", !.kind = "create", !.copy = "active"]
                ELSE [Reply(r, "500") EXCEPT !.kind = "create"]
<1>4. /\ x \in Request /\ x.session = s /\ x.pc \notin {"find", "invalidate"}
      /\ x.reply = "202" => r \in open
      /\ x.pc = "fill" => x.copy = "active" /\ x.kind = "create" /\ o = "ok"
  <2>1. CASE o = "ok"
    BY <1>1, <1>3, <2>1 DEF Inv, TypeOK, Request, Statuses, OpenInv
  <2>2. CASE o # "ok"
    BY <1>1, <2>2, ReplyKindFields DEF Codes, Kinds, Inv
  <2> QED
    BY <2>1, <2>2
<1>5. request' = [request EXCEPT ![r] = x]
  BY <1>2
<1> HIDE DEF x
<1>6. /\ stored' \in [Sessions -> Statuses \cup {"none"}]
      /\ open' \subseteq Requests /\ open \subseteq open'
  BY <1>2 DEF Inv, TypeOK, Statuses, InFlight
<1>7. StaleOnlyByRace'
  \* what is not stored yet is not cached, or the cache is stale already
  <2> SUFFICES ASSUME NEW t \in Sessions, cached'[t] \notin {"none", stored'[t]}
               PROVE  Pending(t)' \/ t \in tainted'
    BY DEF StaleOnlyByRace
  <2>1. cached[t] \notin {"none", stored[t]}
    BY <1>2, <1>3 DEF Inv, TypeOK
  <2>2. Pending(t) \/ t \in tainted
    BY <2>1 DEF Inv, StaleOnlyByRace
  <2>3. Pending(t) => Pending(t)'
    BY <1>3, <1>4, <1>5, RequestStep DEF Pending, Inv
  <2> QED
    BY <1>3, <2>2, <2>3
<1>8. \A q \in Requests \ outdated' :
        request[q].pc = "fill" => stored'[request[q].session] = stored[request[q].session]
  \* nobody holds a clean copy of a session that is not stored
  <2> SUFFICES ASSUME NEW q \in Requests \ outdated, request[q].pc = "fill"
               PROVE  stored'[request[q].session] = stored[request[q].session]
    BY <1>3
  <2>1. request[q].session \in Sessions /\ stored[request[q].session] # "none"
    BY DEF Inv, TypeOK, CleanCopies, Request, Statuses
  <2> QED
    BY <1>2, <1>3, <2>1 DEF Inv, TypeOK
<1>9. \A q \in Requests : request[q].pc = "find" /\ stored'[request[q].session] = "active"
        => q \in open' \/ stored[request[q].session] = "active"
  BY <1>2 DEF InFlight, Inv, TypeOK, Request
<1>10. x.pc = "fill" => x.copy \in Statuses /\ x.copy = stored'[x.session]
  BY <1>2, <1>4 DEF TakesEffect, Inv, TypeOK, Statuses
<1> QED
  BY <1>1, <1>3, <1>4, <1>5, <1>6, <1>7, <1>8, <1>9, <1>10, OneRequest DEF Inv, TypeOK

\* A request that is not about to invalidate ends no pending invalidation.
LEMMA PendingKept ==
  ASSUME Inv, NEW r \in Requests, NEW x \in Request, request' = [request EXCEPT ![r] = x],
         request[r].pc # "invalidate", NEW t \in Sessions, Pending(t)
  PROVE  Pending(t)'
BY RequestStep DEF Pending, Inv

LEMMA FetchSessionFromCacheInv ==
  ASSUME Inv, NEW r \in Requests, FetchSessionFromCache(r)
  PROVE  Inv'
<1>1. PICK s \in Sessions : s = request[r].session
  BY DEF Inv, TypeOK, Request
<1>2. PICK o : request' = [request EXCEPT ![r] =
                 IF o = "ok" /\ cached[s] # "none"
                 THEN [Reply(r, VoteReply(cached[s])) EXCEPT !.kind = "vote"]
                 ELSE [@ EXCEPT !.pc = "find", !.kind = "vote"]]
  BY <1>1 DEF FetchSessionFromCache
<1>3. /\ request[r].pc = "idle"
      /\ open' = IF stored[s] = "active" \/ Pending(s) \/ s \in tainted
                 THEN open \cup {r} ELSE open
      /\ UNCHANGED <<stored, cached, outdated, tainted>>
  BY <1>1 DEF FetchSessionFromCache
<1>c. PICK c \in Codes : c = VoteReply(cached[s])
  BY VoteReplyAccepts DEF Codes
<1> DEFINE x == IF o = "ok" /\ cached[s] # "none"
                THEN [Reply(r, c) EXCEPT !.kind = "vote"]
                ELSE [request[r] EXCEPT !.pc = "find", !.kind = "vote"]
<1>4. /\ x \in Request /\ x.session = s
      /\ \/ x.pc = "done" /\ x.reply = VoteReply(cached[s])
         \/ x.pc = "find" /\ x.reply = request[r].reply
  <2>1. CASE o = "ok" /\ cached[s] # "none"
    BY <1>1, <1>c, <2>1, ReplyKindFields DEF Kinds, Inv
  <2>2. CASE ~(o = "ok" /\ cached[s] # "none")
    BY <1>1, <2>2 DEF Inv, TypeOK, Request
  <2> QED
    BY <2>1, <2>2
<1>5. request' = [request EXCEPT ![r] = x]
  BY <1>2, <1>c
<1> HIDE DEF x
<1>6. x.reply = "202" => r \in open'
  <2>1. CASE x.reply = request[r].reply
    BY <1>3, <2>1 DEF Inv, OpenInv
  <2>2. CASE x.reply = VoteReply(cached[s]) /\ cached[s] = "active"
    <3>1. stored[s] = "active" \/ Pending(s) \/ s \in tainted
      BY <2>2 DEF Inv, StaleOnlyByRace
    <3> QED
      BY <1>3, <3>1
  <2> QED
    BY <1>4, <2>1, <2>2, VoteReplyAccepts
<1>7. StaleOnlyByRace'
  BY <1>3, <1>4, <1>5, PendingKept DEF StaleOnlyByRace, Inv
<1>8. x.pc = "find" /\ stored'[x.session] = "active" => r \in open'
  BY <1>3, <1>4
<1> QED
  BY <1>1, <1>3, <1>4, <1>5, <1>6, <1>7, <1>8, OneRequest DEF Inv, TypeOK

LEMMA FetchSessionFromMongoDBInv ==
  ASSUME Inv, NEW r \in Requests, FetchSessionFromMongoDB(r)
  PROVE  Inv'
<1>1. PICK s \in Sessions : s = request[r].session
  BY DEF Inv, TypeOK, Request
<1>2. PICK o : request' = [request EXCEPT ![r] =
                 IF o = "ok" /\ stored[s] # "none"
                 THEN [@ EXCEPT !.pc = "fill", !.copy = stored[s]]
                 ELSE Reply(r, "400")]
  BY <1>1 DEF FetchSessionFromMongoDB
<1>3. /\ request[r].pc = "find"
      /\ UNCHANGED <<stored, cached, outdated, tainted, open>>
  BY DEF FetchSessionFromMongoDB
<1> DEFINE x == IF o = "ok" /\ stored[s] # "none"
                THEN [request[r] EXCEPT !.pc = "fill", !.copy = stored[s]]
                ELSE Reply(r, "400")
<1>4. /\ x \in Request /\ x.session = s
      /\ \/ x.pc = "done" /\ x.reply = "400"
         \/ /\ x.pc = "fill" /\ x.reply = request[r].reply
            /\ x.copy = stored[s] /\ x.copy \in Statuses
  <2>1. CASE o = "ok" /\ stored[s] # "none"
    BY <1>1, <2>1 DEF Inv, TypeOK, Request
  <2>2. CASE ~(o = "ok" /\ stored[s] # "none")
    BY <1>1, <2>2, ReplyFields DEF Codes, Inv
  <2> QED
    BY <2>1, <2>2
<1>5. request' = [request EXCEPT ![r] = x]
  BY <1>2
<1> HIDE DEF x
<1>6. StaleOnlyByRace'
  BY <1>3, <1>4, <1>5, PendingKept DEF StaleOnlyByRace, Inv
<1>7. x.pc = "fill" /\ x.copy = "active" => r \in open
  BY <1>1, <1>3, <1>4 DEF Inv, OpenInv
<1>8. x.reply = "202" => r \in open
  BY <1>4 DEF Inv, OpenInv
<1> QED
  BY <1>1, <1>3, <1>4, <1>5, <1>6, <1>7, <1>8, OneRequest DEF Inv, TypeOK

\* A fill that no update overtook leaves the stored status in the cache.
LEMMA CacheSessionInRedisInv ==
  ASSUME Inv, NEW r \in Requests, CacheSessionInRedis(r)
  PROVE  Inv'
<1>1. PICK s \in Sessions : s = request[r].session
  BY DEF Inv, TypeOK, Request
<1>2. PICK c : c = IF request[r].kind = "create" THEN "201" ELSE VoteReply(request[r].copy)
  OBVIOUS
<1>3. /\ request[r].pc = "fill"
      /\ request' = [request EXCEPT ![r] = Reply(r, c)]
      /\ UNCHANGED <<stored, outdated, open>>
      /\ \/ /\ cached' = [cached EXCEPT ![s] = request[r].copy]
            /\ tainted' = IF r \in outdated THEN tainted \cup {s} ELSE tainted \ {s}
         \/ UNCHANGED <<cached, tainted>>
  BY <1>1, <1>2 DEF CacheSessionInRedis
<1>4. /\ request[r].copy \in Statuses
      /\ r \notin outdated => request[r].copy = stored[s]
  BY <1>1, <1>3 DEF Inv, CleanCopies
<1> DEFINE x == Reply(r, c)
<1>5. /\ x \in Request /\ x.session = s /\ x.pc = "done" /\ x.reply = c
  BY <1>1, <1>2, ReplyFields, VoteReplyAccepts DEF Codes, Inv
<1> HIDE DEF x
<1>6. request' = [request EXCEPT ![r] = x]
  BY <1>3 DEF x
<1>7. x.reply = "202" => r \in open
  BY <1>2, <1>3, <1>5, VoteReplyAccepts DEF Inv, OpenInv
<1>8. StaleOnlyByRace'
  <2> SUFFICES ASSUME NEW t \in Sessions, cached'[t] \notin {"none", stored'[t]}
               PROVE  Pending(t)' \/ t \in tainted'
    BY DEF StaleOnlyByRace
  <2>1. Pending(t) => Pending(t)'
    BY <1>3, <1>5, <1>6, PendingKept
  <2>2. CASE cached'[t] = cached[t] /\ (t \in tainted => t \in tainted')
    BY <1>3, <2>1, <2>2 DEF Inv, StaleOnlyByRace
  <2>3. CASE /\ t = s /\ cached' = [cached EXCEPT ![s] = request[r].copy]
             /\ tainted' = IF r \in outdated THEN tainted \cup {s} ELSE tainted \ {s}
    <3>1. cached'[t] = request[r].copy
      BY <2>3 DEF Inv, TypeOK
    <3> QED
      BY <1>3, <1>4, <2>3, <3>1
  <2> QED
    BY <1>3, <2>2, <2>3 DEF Inv, TypeOK
<1>9. /\ cached' \in [Sessions -> Statuses \cup {"none"}]
      /\ tainted' \in SUBSET Sessions
  BY <1>3, <1>4 DEF Inv, TypeOK
<1> QED
  BY <1>1, <1>3, <1>5, <1>6, <1>7, <1>8, <1>9, OneRequest DEF Inv, TypeOK

\* An update overtakes the copies in flight, and announces its invalidation or
\* taints the session.
LEMMA UpdateStatusInMongoDBInv ==
  ASSUME Inv, NEW r \in Requests, UpdateStatusInMongoDB(r)
  PROVE  Inv'
<1>1. PICK s \in Sessions : s = request[r].session
  BY DEF Inv, TypeOK, Request
<1>2. PICK status \in ValidStatuses, o \in Outcome("mongo") :
        /\ IF TakesEffect(o) /\ stored[s] # "none"
           THEN /\ stored' = [stored EXCEPT ![s] = status]
                /\ outdated' = outdated \cup Filling(s)
                /\ open' = IF status = "active" THEN open \cup InFlight(s) ELSE open
           ELSE UNCHANGED <<stored, outdated, open>>
        /\ tainted' = IF o = "late" THEN tainted \cup {s} ELSE tainted
        /\ request' = [request EXCEPT ![r] =
             IF o = "ok" THEN [@ EXCEPT !.pc = "invalidate", !.kind = "update"]
             ELSE [Reply(r, "500") EXCEPT !.kind = "update"]]
  BY <1>1 DEF UpdateStatusInMongoDB
<1>3. request[r].pc = "idle" /\ UNCHANGED cached
  BY DEF UpdateStatusInMongoDB
<1> DEFINE x == IF o = "ok" THEN [request[r] EXCEPT !.pc = "invalidate", !.kind = "update"]
                ELSE [Reply(r, "500") EXCEPT !.kind = "update"]
<1>4. /\ x \in Request /\ x.session = s
      /\ IF o = "ok" THEN x.pc = "invalidate" ELSE x.pc = "done"
      /\ x.reply = "202" => r \in open
  <2>1. CASE o = "ok"
    BY <1>1, <1>3, <2>1 DEF Inv, TypeOK, Request, OpenInv
  <2>2. CASE o # "ok"
    BY <1>1, <2>2, ReplyKindFields DEF Codes, Kinds, Inv
  <2> QED
    BY <2>1, <2>2
<1>5. request' = [request EXCEPT ![r] = x]
  BY <1>2
<1> HIDE DEF x
<1>6. /\ stored' \in [Sessions -> Statuses \cup {"none"}]
      /\ outdated' \in SUBSET Requests /\ outdated \subseteq outdated'
      /\ tainted' \in SUBSET Sessions
      /\ open' \in SUBSET Requests /\ open \subseteq open'
  BY <1>2 DEF Inv, TypeOK, ValidStatuses, Filling, InFlight
<1>7. StaleOnlyByRace'
  <2> SUFFICES ASSUME NEW t \in Sessions, cached'[t] \notin {"none", stored'[t]}
               PROVE  Pending(t)' \/ t \in tainted'
    BY DEF StaleOnlyByRace
  <2>1. Pending(t) => Pending(t)'
    BY <1>3, <1>4, <1>5, PendingKept
  <2>2. CASE stored'[t] = stored[t]
    BY <1>2, <1>3, <2>1, <2>2 DEF Inv, StaleOnlyByRace
  <2>3. CASE stored'[t] # stored[t]
    <3>1. t = s /\ o \in {"ok", "late"}
      BY <1>2, <2>3 DEF Inv, TypeOK, TakesEffect, Outcome
    <3>2. o = "ok" => Pending(s)'
      BY <1>4, <1>5, RequestStep DEF Pending, Inv
    <3> QED
      BY <1>2, <3>1, <3>2
  <2> QED
    BY <2>2, <2>3
<1>8. \A q \in Requests \ outdated' :
        request[q].pc = "fill" => stored'[request[q].session] = stored[request[q].session]
  BY <1>2 DEF Filling, Inv, TypeOK, Request
<1>9. \A q \in Requests : request[q].pc = "find" /\ stored'[request[q].session] = "active"
        => q \in open' \/ stored[request[q].session] = "active"
  BY <1>2 DEF InFlight, Inv, TypeOK, Request
<1>10. x.pc \notin {"find", "fill"}
  BY <1>4
<1>11. cached' \in [Sessions -> Statuses \cup {"none"}]
  BY <1>3 DEF Inv, TypeOK
<1>12. x.session = request[r].session /\ (x.reply = "202" => r \in open')
  BY <1>1, <1>4, <1>6
<1> QED
  BY <1>4, <1>5, <1>6, <1>7, <1>8, <1>9, <1>10, <1>11, <1>12, OneRequest

\* The answer to an update: its invalidation is no longer pending, but the
\* cached copy is gone or its loss is recorded.
LEMMA AnswerInv ==
  ASSUME Inv, NEW r \in Requests, NEW c \in Codes \ {"202"}, NEW s \in Sessions,
         s = request[r].session, request[r].pc \in {"find", "fill", "invalidate"},
         request' = [request EXCEPT ![r] = Reply(r, c)],
         UNCHANGED <<stored, outdated, open>>,
         \/ cached' = [cached EXCEPT ![s] = "none"] /\ tainted' = tainted \ {s}
         \/ cached' = cached /\ tainted' = tainted \cup {s}
         \/ UNCHANGED <<cached, tainted>> /\ request[r].pc # "invalidate"
  PROVE  Inv'
<1> DEFINE x == Reply(r, c)
<1>1. x \in Request /\ x.session = s /\ x.pc = "done" /\ x.reply # "202"
  BY ReplyFields DEF Inv
<1> HIDE DEF x
<1>2. request' = [request EXCEPT ![r] = x]
  BY DEF x
<1>3. StaleOnlyByRace'
  <2> SUFFICES ASSUME NEW t \in Sessions, cached'[t] \notin {"none", stored'[t]}
               PROVE  Pending(t)' \/ t \in tainted'
    BY DEF StaleOnlyByRace
  <2>1. Pending(t) /\ t # s => Pending(t)'
    BY <1>1, <1>2, RequestStep DEF Pending, Inv
  <2>2. request[r].pc # "invalidate" /\ Pending(t) => Pending(t)'
    BY <1>1, <1>2, PendingKept
  <2>3. CASE cached' = [cached EXCEPT ![s] = "none"] /\ tainted' = tainted \ {s}
    BY <2>1, <2>3 DEF Inv, TypeOK, StaleOnlyByRace
  <2>4. CASE cached' = cached /\ tainted' = tainted \cup {s}
    BY <2>1, <2>4 DEF Inv, TypeOK, StaleOnlyByRace
  <2>5. CASE UNCHANGED <<cached, tainted>> /\ request[r].pc # "invalidate"
    BY <2>2, <2>5 DEF Inv, TypeOK, StaleOnlyByRace
  <2> QED
    BY <2>3, <2>4, <2>5
<1>4. /\ cached' \in [Sessions -> Statuses \cup {"none"}]
      /\ tainted' \in SUBSET Sessions
  BY DEF Inv, TypeOK
<1>5. /\ stored' \in [Sessions -> Statuses \cup {"none"}]
      /\ outdated' \in SUBSET Requests /\ open' \in SUBSET Requests
      /\ \A q \in Requests \ outdated' :
           request[q].pc = "fill" => stored'[request[q].session] = stored[request[q].session]
      /\ \A q \in Requests : request[q].pc = "find" /\ stored'[request[q].session] = "active"
           => q \in open' \/ stored[request[q].session] = "active"
  BY DEF Inv, TypeOK
<1>6. x.session = request[r].session /\ x.pc \notin {"find", "fill"}
  BY <1>1
<1> QED
  BY <1>1, <1>2, <1>3, <1>4, <1>5, <1>6, OneRequest

LEMMA DeleteCachedSessionInv ==
  ASSUME Inv, NEW r \in Requests, DeleteCachedSession(r)
  PROVE  Inv'
<1>1. PICK s \in Sessions : s = request[r].session
  BY DEF Inv, TypeOK, Request
<1>2. /\ request[r].pc = "invalidate"
      /\ request' = [request EXCEPT ![r] = Reply(r, "200")]
      /\ UNCHANGED <<stored, outdated, open>>
      /\ \/ cached' = [cached EXCEPT ![s] = "none"] /\ tainted' = tainted \ {s}
         \/ cached' = cached /\ tainted' = tainted \cup {s}
  BY <1>1 DEF DeleteCachedSession, Deleted
<1> QED
  BY <1>1, <1>2, AnswerInv DEF Codes

LEMMA CrashInv ==
  ASSUME Inv, NEW r \in Requests, Crash(r)
  PROVE  Inv'
<1>1. PICK s \in Sessions : s = request[r].session
  BY DEF Inv, TypeOK, Request
<1>2. /\ request[r].pc \in {"find", "fill", "invalidate"}
      /\ request' = [request EXCEPT ![r] = Reply(r, "none")]
      /\ UNCHANGED <<stored, cached, outdated, open>>
      /\ tainted' = IF request[r].pc = "invalidate" THEN tainted \cup {s} ELSE tainted
  BY <1>1 DEF Crash
<1> QED
  BY <1>1, <1>2, AnswerInv DEF Codes

LEMMA SessionExpiresInv ==
  ASSUME Inv, NEW s \in Sessions, SessionExpires(s)
  PROVE  Inv'
<1> USE DEF Inv, TypeOK
<1>1. TypeOK' /\ CleanCopies' /\ OpenInv'
  BY DEF SessionExpires, CleanCopies, OpenInv
<1>2. StaleOnlyByRace'
  BY DEF SessionExpires, StaleOnlyByRace, Pending
<1> QED
  BY <1>1, <1>2

LEMMA StutterInv == Inv /\ UNCHANGED vars => Inv'
BY DEF Inv, TypeOK, CleanCopies, OpenInv, StaleOnlyByRace, Pending, vars

LEMMA Invariance == Spec => []Inv
<1>1. Inv /\ [Next]_vars => Inv'
  BY InsertSessionInv, FetchSessionFromCacheInv, FetchSessionFromMongoDBInv,
     CacheSessionInRedisInv, UpdateStatusInMongoDBInv, DeleteCachedSessionInv, CrashInv,
     SessionExpiresInv, StutterInv DEF Next
<1> QED
  BY <1>1, InitInv, PTL DEF Spec

\* Every variable of the session store keeps its type: no status but the two
\* valid ones is ever stored or cached.
THEOREM SessionTypeCorrect == Spec => []TypeOK
<1>1. Inv => TypeOK
  BY DEF Inv
<1> QED
  BY <1>1, Invariance, PTL

\* The cached status of a session is the stored one, unless an update is between
\* its two calls, an outdated copy was cached or an invalidation was lost.
THEOREM StaleOnlyByRaceHolds == Spec => []StaleOnlyByRace
<1>1. Inv => StaleOnlyByRace
  BY DEF Inv
<1> QED
  BY <1>1, Invariance, PTL

\* A vote is accepted only if its session was active during the request, or the
\* cache could be stale when the request came.
THEOREM AcceptedWhileOpenHolds == Spec => []AcceptedWhileOpen
<1>1. Inv => AcceptedWhileOpen
  BY DEF Inv, OpenInv, AcceptedWhileOpen
<1> QED
  BY <1>1, Invariance, PTL
=============================================================================
