------------------------------ MODULE Accounts ------------------------------
(***************************************************************************)
(* Organizer accounts.  POST /register looks the email up, in Redis and    *)
(* then in MongoDB, and inserts a new account when it finds none; GET      *)
(* /login looks it up the same way and compares the password.  Both fill   *)
(* the cache, and stand behind the middleware of mainRouter, which asks    *)
(* for a token.  Each call is a step; the requests of all instances        *)
(* interleave between any two.  The collection has no unique index on the  *)
(* email (EstablishIndexes has no caller).                                 *)
(*                                                                         *)
(* An account is named by the request that registered it, so its email and *)
(* its password are those of that request.                                 *)
(***************************************************************************)
CONSTANTS
  Requests,   \* HTTP requests
  Emails,     \* emails they carry
  Passwords,  \* passwords they carry; a hash stands for its password
  Faults,     \* the failures considered: pairs <<service, outcome>>
  None        \* "no account"

\* error: no effect; late: took effect, the caller saw an error; crash: the
\* goroutine of the request dies with its process.
FaultKinds ==
  {"redis", "mongo"} \X {"error", "late"} \cup {<<"token", "error">>, <<"process", "crash">>}

ASSUME AccountsAssumption ==
  /\ None \notin Requests
  /\ Faults \subseteq FaultKinds

VARIABLES
  form,       \* what each request asks for (never changes)
  request,    \* where each request is, and the account it holds
  organizers, \* the collection
  cached,     \* Redis keys user:email:{email}
  before,     \* history: <<account, request>> stored when the request came
  failed      \* history: <<request, what failed of it but Redis>>

vars == <<form, request, organizers, cached, before, failed>>

\* token: the Authorization header has a valid one; json: the body can be decoded.
Forms == [kind : {"register", "login"}, email : Emails, password : Passwords,
          token : BOOLEAN, json : BOOLEAN]

Codes == {"none", "200", "201", "400", "401", "409", "500"}

Request == [pc : {"idle", "find", "save"}, user : {None}, reply : {"none"}]
             \cup [pc : {"cache"}, user : Requests, reply : {"none"}]
             \cup [pc : {"done"}, user : Requests \cup {None}, reply : Codes]

Init ==
  /\ form \in [Requests -> Forms]
  /\ request = [r \in Requests |-> [pc |-> "idle", user |-> None, reply |-> "none"]]
  /\ organizers = {}
  /\ cached = [e \in Emails |-> None]
  /\ before = {}
  /\ failed = {}

-----------------------------------------------------------------------------

Outcome(service) == {"ok"} \cup {o \in {"error", "late"} : <<service, o>> \in Faults}
TakesEffect(o) == o # "error"

Goto(r, step, user) == request' = [request EXCEPT ![r] = [@ EXCEPT !.pc = step, !.user = user]]
Reply(r, code) == request' = [request EXCEPT ![r] = [@ EXCEPT !.pc = "done", !.reply = code]]

\* Mutant: the query goes to a collection nobody writes.
WrongCollection(e) == {}

\* Mutant: the error of Decode is ignored, and the zero user found.
ZeroUser(e) ==
  LET found == {u \in organizers : form[u].email = e} IN IF found = {} THEN {None} ELSE found

\* What FindOne with the filter email may return.
WithEmail(e) == {u \in organizers : form[u].email = e}

\* Mutant: the hash is left out of the cached JSON.
HashNotCached(r, u) == form[u].password = form[r].password /\ cached[form[r].email] # u

\* CheckPasswordHash
PasswordMatches(r, u) == form[u].password = form[r].password

\* Mutant: the account that is in the way is not looked at.
AlwaysCreated(r, u, signed) ==
  IF form[r].kind = "register" THEN "201"
  ELSE IF PasswordMatches(r, u) THEN "200" ELSE "401"

\* What RegisterOrganizerHandler and LoginOrganizerHandler answer once they
\* have an account: its own, or one that is in the way; the right one or not,
\* with the token of a login signed or not.
Answer(r, u, signed) ==
  IF form[r].kind = "register" THEN (IF u = r THEN "201" ELSE "409")
  ELSE IF ~PasswordMatches(r, u) THEN "401"
  ELSE IF signed THEN "200" ELSE "500"

\* The rest of the handler, GenerateToken of a login included.
Finish(r, u) ==
  \E o \in Outcome("token") :
    /\ Reply(r, Answer(r, u, o = "ok"))
    /\ failed' = IF o = "ok" THEN failed ELSE failed \cup {<<r, "token">>}

\* The middleware finds no valid token.
Unauthorized(r) ==
  /\ request[r].pc = "idle"
  /\ ~form[r].token
  /\ Reply(r, "401")
  /\ UNCHANGED <<form, organizers, cached, before, failed>>

\* The handler cannot decode the body.
BadRequest(r) ==
  /\ request[r].pc = "idle"
  /\ form[r].token /\ ~form[r].json
  /\ Reply(r, "400")
  /\ UNCHANGED <<form, organizers, cached, before, failed>>

\* FetchOrganizerFromEmail, first the cache.  An error counts as a miss.
FetchOrganizerFromRedis(r) ==
  LET u == cached[form[r].email] IN
  /\ request[r].pc = "idle"
  /\ form[r].token /\ form[r].json
  /\ before' = before \cup (organizers \X {r})
  /\ \E o \in Outcome("redis") :
       IF o = "ok" /\ u # None THEN Finish(r, u)
       ELSE Goto(r, "find", None) /\ UNCHANGED failed
  /\ UNCHANGED <<form, organizers, cached>>

\* Then the collection.  An error looks like an unknown email: a login is
\* refused and a registration goes on.
FetchOrganizerFromMongo(r) ==
  LET found == WithEmail(form[r].email) IN
  /\ request[r].pc = "find"
  /\ \E o \in Outcome("mongo") :
       /\ failed' = IF o = "ok" THEN failed ELSE failed \cup {<<r, "mongo">>}
       /\ IF o = "ok" /\ found # {}
          THEN \E u \in found : Goto(r, "cache", u)
          ELSE IF form[r].kind = "login" THEN Reply(r, "401") ELSE Goto(r, "save", None)
  /\ UNCHANGED <<form, organizers, cached, before>>

\* HashPassword, GenerateToken and SaveOrganizer's InsertOne.
SaveOrganizer(r) ==
  /\ request[r].pc = "save"
  /\ \/ /\ Reply(r, "500")
        /\ UNCHANGED organizers
     \/ \E o \in Outcome("mongo") :
          /\ organizers' = IF TakesEffect(o) THEN organizers \cup {r} ELSE organizers
          /\ IF o = "ok" THEN Goto(r, "cache", r) ELSE Reply(r, "500")
  /\ UNCHANGED <<form, cached, before, failed>>

\* cacheOrganizerInRedis, of either function: an error is only logged.
CacheOrganizerInRedis(r) ==
  LET u == request[r].user IN
  /\ request[r].pc = "cache"
  /\ \E o \in Outcome("redis") :
       cached' = IF TakesEffect(o) THEN [cached EXCEPT ![form[r].email] = u] ELSE cached
  /\ Finish(r, u)
  /\ UNCHANGED <<form, organizers, before>>

-----------------------------------------------------------------------------

\* The TTL of 48 hours ends, or Redis drops the key.
UserExpires(e) ==
  /\ cached[e] # None
  /\ cached' = [cached EXCEPT ![e] = None]
  /\ UNCHANGED <<form, request, organizers, before, failed>>

\* The process that serves the request dies.
Crash(r) ==
  /\ <<"process", "crash">> \in Faults
  /\ request[r].pc \notin {"idle", "done"}
  /\ Reply(r, "none")
  /\ failed' = failed \cup {<<r, "process">>}
  /\ UNCHANGED <<form, organizers, cached, before>>

Next ==
  \/ \E r \in Requests : \/ Unauthorized(r)
                         \/ BadRequest(r)
                         \/ FetchOrganizerFromRedis(r)
                         \/ FetchOrganizerFromMongo(r)
                         \/ SaveOrganizer(r)
                         \/ CacheOrganizerInRedis(r)
                         \/ Crash(r)
  \/ \E e \in Emails : UserExpires(e)

Spec == Init /\ [][Next]_vars

-----------------------------------------------------------------------------
(* Properties *)

TypeOK ==
  /\ form \in [Requests -> Forms]
  /\ request \in [Requests -> Request]
  /\ organizers \subseteq Requests
  /\ cached \in [Emails -> Requests \cup {None}]
  /\ before \subseteq Requests \X Requests
  /\ failed \subseteq Requests \X {"mongo", "token", "process"}

SameEmail(r, u) == form[r].email = form[u].email

\* Two accounts share an email only if their registrations overlapped, or if the
\* later one's query failed: what the cache holds, lost or never got does not
\* matter.
EmailTakenOnlyByRace ==
  \A u, v \in organizers :
    u # v /\ SameEmail(u, v) => <<u, v>> \notin before \/ <<v, "mongo">> \in failed

\* r is a login with a valid token and a body that names the email and password
\* of the account u, stored before r came and the only one of its email.
Holder(r, u) ==
  /\ form[r] = [kind |-> "login", email |-> form[u].email, password |-> form[u].password,
                token |-> TRUE, json |-> TRUE]
  /\ <<u, r>> \in before
  /\ WithEmail(form[r].email) = {u}

\* Such a login gets in: unless MongoDB, the signature of the token or the
\* process failed it, its only answer is 200.  What Redis holds, loses or fails to
\* do, and which accounts come and are refused meanwhile, does not matter.
RegisteredCanLogin ==
  \A r \in Requests, u \in organizers :
    /\ Holder(r, u)
    /\ \A f \in failed : f[1] # r
    /\ request[r].pc = "done"
    => request[r].reply = "200"

\* A token is given only to the holder of a stored account: a login to one who
\* knows the password of an account of that email, a registration to its own.
TokensNeedAccounts ==
  \A r \in Requests :
    /\ request[r].reply = "201" => r \in organizers
    /\ request[r].reply = "200" =>
         \E u \in organizers : SameEmail(r, u) /\ form[u].password = form[r].password
=============================================================================
