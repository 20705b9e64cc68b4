--------------------------- MODULE AccountsProofs ---------------------------
(***************************************************************************)
(* The properties of Accounts for any number of requests, emails and       *)
(* passwords and any set of faults.                                        *)
(***************************************************************************)
EXTENDS Accounts, TLAPS

\* What the cache and the requests hold are stored accounts of the right email;
\* only a registration that has been saved is an account.
HoldInv ==
  /\ \A e \in Emails : cached[e] # None => cached[e] \in WithEmail(e)
  /\ \A r \in Requests : request[r].pc = "cache" => request[r].user \in WithEmail(form[r].email)
  /\ \A r \in organizers : request[r].pc \in {"cache", "done"}
  /\ \A r \in Requests : request[r].pc = "save" => form[r].kind = "register"
  /\ TokensNeedAccounts

\* A registration about to be saved saw no account of its email, or its
\* query failed.
RaceInv ==
  /\ \A u, r \in Requests : <<u, r>> \in before => u \in organizers
  /\ \A u, r \in Requests :
       request[r].pc = "save" /\ <<u, r>> \in before /\ SameEmail(u, r) =>
         <<r, "mongo">> \in failed
  /\ EmailTakenOnlyByRace

-----------------------------------------------------------------------------

\* The step changes request r to x, and no other.
Changes(r, x) ==
  /\ x \in Request
  /\ request' = [request EXCEPT ![r] = x]

LEMMA AnswerCodes ==
  ASSUME NEW r \in Requests, NEW u \in Requests, NEW signed \in BOOLEAN
  PROVE  Answer(r, u, signed) \in {"200", "201", "401", "409", "500"}
  BY DEF Answer

LEMMA ReplyChanges ==
  ASSUME TypeOK, NEW r \in Requests, NEW code \in Codes, Reply(r, code)
  PROVE  \E x \in Request : Changes(r, x) /\ x.pc = "done" /\ x.reply = code
  <1>1. PICK x : x = [request[r] EXCEPT !.pc = "done", !.reply = code]
    OBVIOUS
  <1>2. request[r] \in Request
    BY DEF TypeOK
  <1>3. x \in Request /\ x.pc = "done" /\ x.reply = code
    BY <1>1, <1>2 DEF Request
  <1> QED
    BY <1>1, <1>3 DEF Reply, Changes

LEMMA GotoChanges ==
  ASSUME TypeOK, NEW r \in Requests, NEW step, NEW u, Goto(r, step, u),
         request[r].pc # "done",
         \/ step \in {"find", "save"} /\ u = None
         \/ step = "cache" /\ u \in Requests
  PROVE  \E x \in Request : Changes(r, x) /\ x.pc = step /\ x.user = u /\ x.reply = "none"
  <1>1. PICK x : x = [request[r] EXCEPT !.pc = step, !.user = u]
    OBVIOUS
  <1>2. request[r] \in Request
    BY DEF TypeOK
  <1>3. x \in Request /\ x.pc = step /\ x.user = u /\ x.reply = "none"
    BY <1>1, <1>2 DEF Request
  <1> QED
    BY <1>1, <1>3 DEF Goto, Changes

LEMMA FinishChanges ==
  ASSUME TypeOK, NEW r \in Requests, NEW u \in Requests, Finish(r, u)
  PROVE  \E x \in Request : \E signed \in BOOLEAN :
           /\ Changes(r, x)
           /\ x.pc = "done" /\ x.reply = Answer(r, u, signed)
           /\ failed' = IF signed THEN failed ELSE failed \cup {<<r, "token">>}
  <1>1. PICK o \in Outcome("token") :
          /\ Reply(r, Answer(r, u, o = "ok"))
          /\ failed' = IF o = "ok" THEN failed ELSE failed \cup {<<r, "token">>}
    BY DEF Finish
  <1>2. PICK signed \in BOOLEAN : signed <=> (o = "ok")
    OBVIOUS
  <1>3. Answer(r, u, o = "ok") = Answer(r, u, signed)
    BY <1>2 DEF Answer
  <1>4. Answer(r, u, signed) \in Codes
    BY AnswerCodes DEF Codes
  <1>5. PICK x \in Request : Changes(r, x) /\ x.pc = "done" /\ x.reply = Answer(r, u, signed)
    BY <1>1, <1>3, <1>4, ReplyChanges
  <1> QED
    BY <1>1, <1>2, <1>5

\* The steps of a request, as the invariants see them.
LEMMA RedisStep ==
  ASSUME TypeOK, HoldInv, NEW r \in Requests, FetchOrganizerFromRedis(r)
  PROVE  \E x \in Request :
           /\ Changes(r, x)
           /\ before' = before \cup (organizers \X {r})
           /\ UNCHANGED <<form, organizers, cached>>
           /\ request[r].pc = "idle"
           /\ \/ x.pc = "find" /\ x.reply = "none" /\ failed' = failed
              \/ /\ x.pc = "done"
                 /\ \E u \in WithEmail(form[r].email), signed \in BOOLEAN :
                      /\ x.reply = Answer(r, u, signed)
                      /\ failed' = IF signed THEN failed ELSE failed \cup {<<r, "token">>}
  <1>1. PICK u : u = cached[form[r].email]
    OBVIOUS
  <1>2. u # None => u \in WithEmail(form[r].email) /\ u \in Requests
    BY <1>1 DEF HoldInv, TypeOK, Forms, WithEmail
  <1>3. /\ request[r].pc = "idle"
        /\ before' = before \cup (organizers \X {r})
        /\ UNCHANGED <<form, organizers, cached>>
        /\ (u # None /\ Finish(r, u)) \/ (Goto(r, "find", None) /\ failed' = failed)
    BY <1>1 DEF FetchOrganizerFromRedis
  <1>4. CASE u # None /\ Finish(r, u)
    <2>1. PICK x \in Request, signed \in BOOLEAN :
            /\ Changes(r, x)
            /\ x.pc = "done" /\ x.reply = Answer(r, u, signed)
            /\ failed' = IF signed THEN failed ELSE failed \cup {<<r, "token">>}
      BY <1>2, <1>4, FinishChanges
    <2> QED
      BY <1>2, <1>3, <1>4, <2>1
  <1>5. CASE Goto(r, "find", None) /\ failed' = failed
    <2>1. PICK x \in Request : Changes(r, x) /\ x.pc = "find" /\ x.reply = "none"
      BY <1>3, <1>5, GotoChanges
    <2> QED
      BY <1>3, <1>5, <2>1
  <1> QED
    BY <1>3, <1>4, <1>5

LEMMA MongoStep ==
  ASSUME TypeOK, NEW r \in Requests, FetchOrganizerFromMongo(r)
  PROVE  \E x \in Request :
           /\ Changes(r, x)
           /\ UNCHANGED <<form, organizers, cached, before>>
           /\ request[r].pc = "find"
           /\ failed \subseteq failed' /\ failed' \subseteq failed \cup {<<r, "mongo">>}
           /\ \/ x.pc = "cache" /\ x.user \in WithEmail(form[r].email) /\ x.reply = "none"
              \/ /\ \/ x.pc = "done" /\ x.reply = "401"
                    \/ x.pc = "save" /\ x.reply = "none" /\ form[r].kind = "register"
                 /\ WithEmail(form[r].email) = {} \/ <<r, "mongo">> \in failed'
  <1>1. PICK o \in Outcome("mongo") :
          /\ failed' = IF o = "ok" THEN failed ELSE failed \cup {<<r, "mongo">>}
          /\ IF o = "ok" /\ WithEmail(form[r].email) # {}
             THEN \E u \in WithEmail(form[r].email) : Goto(r, "cache", u)
             ELSE IF form[r].kind = "login" THEN Reply(r, "401") ELSE Goto(r, "save", None)
    BY DEF FetchOrganizerFromMongo
  <1>2. /\ request[r].pc = "find"
        /\ UNCHANGED <<form, organizers, cached, before>>
        /\ failed \subseteq failed' /\ failed' \subseteq failed \cup {<<r, "mongo">>}
    BY <1>1 DEF FetchOrganizerFromMongo
  <1>3. CASE o = "ok" /\ WithEmail(form[r].email) # {}
    <2>1. PICK u \in WithEmail(form[r].email) : Goto(r, "cache", u)
      BY <1>1, <1>3
    <2>2. u \in Requests
      BY <2>1 DEF WithEmail, TypeOK
    <2>3. PICK x \in Request : Changes(r, x) /\ x.pc = "cache" /\ x.user = u /\ x.reply = "none"
      BY <1>2, <2>1, <2>2, GotoChanges
    <2> QED
      BY <1>2, <2>1, <2>3
  <1>4. CASE ~(o = "ok" /\ WithEmail(form[r].email) # {})
    <2>1. WithEmail(form[r].email) = {} \/ <<r, "mongo">> \in failed'
      BY <1>1, <1>4
    <2>0. Reply(r, "401") \/ (Goto(r, "save", None) /\ form[r].kind = "register")
      <3>1. form[r].kind \in {"login", "register"}
        BY DEF TypeOK, Forms
      <3> QED
        BY <1>1, <1>4, <3>1
    <2>2. CASE Reply(r, "401")
      <3>1. PICK x \in Request : Changes(r, x) /\ x.pc = "done" /\ x.reply = "401"
        BY <2>2, ReplyChanges DEF Codes
      <3> QED
        BY <1>2, <2>1, <3>1
    <2>3. CASE Goto(r, "save", None) /\ form[r].kind = "register"
      <3>1. PICK x \in Request : Changes(r, x) /\ x.pc = "save" /\ x.reply = "none"
        BY <1>2, <2>3, GotoChanges
      <3> QED
        BY <1>2, <2>1, <2>3, <3>1
    <2> QED
      BY <2>0, <2>2, <2>3
  <1> QED
    BY <1>3, <1>4

LEMMA SaveStep ==
  ASSUME TypeOK, NEW r \in Requests, SaveOrganizer(r)
  PROVE  \E x \in Request :
           /\ Changes(r, x)
           /\ UNCHANGED <<form, cached, before, failed>>
           /\ request[r].pc = "save"
           /\ \/ organizers' = organizers /\ x.pc = "done" /\ x.reply = "500"
              \/ /\ organizers' = organizers \cup {r}
                 /\ \/ x.pc = "done" /\ x.reply = "500"
                    \/ x.pc = "cache" /\ x.user = r /\ x.reply = "none"
  <1>1. /\ request[r].pc = "save"
        /\ UNCHANGED <<form, cached, before, failed>>
        /\ \/ organizers' = organizers /\ Reply(r, "500")
           \/ organizers' = organizers \cup {r} /\ (Goto(r, "cache", r) \/ Reply(r, "500"))
    BY DEF SaveOrganizer, TakesEffect
  <1>2. CASE Reply(r, "500")
    <2>1. PICK x \in Request : Changes(r, x) /\ x.pc = "done" /\ x.reply = "500"
      BY <1>2, ReplyChanges DEF Codes
    <2> QED
      BY <1>1, <2>1
  <1>3. CASE organizers' = organizers \cup {r} /\ Goto(r, "cache", r)
    <2>1. PICK x \in Request : Changes(r, x) /\ x.pc = "cache" /\ x.user = r /\ x.reply = "none"
      BY <1>1, <1>3, GotoChanges
    <2> QED
      BY <1>1, <1>3, <2>1
  <1> QED
    BY <1>1, <1>2, <1>3

LEMMA CacheStep ==
  ASSUME TypeOK, HoldInv, NEW r \in Requests, CacheOrganizerInRedis(r)
  PROVE  \E x \in Request : \E u \in WithEmail(form[r].email), signed \in BOOLEAN :
           /\ Changes(r, x)
           /\ UNCHANGED <<form, organizers, before>>
           /\ request[r].pc = "cache" /\ u \in Requests
           /\ x.pc = "done" /\ x.reply = Answer(r, u, signed)
           /\ failed' = IF signed THEN failed ELSE failed \cup {<<r, "token">>}
           /\ cached' = cached \/ cached' = [cached EXCEPT ![form[r].email] = u]
  <1>1. PICK u : u = request[r].user
    OBVIOUS
  <1>2. /\ request[r].pc = "cache"
        /\ UNCHANGED <<form, organizers, before>>
        /\ Finish(r, u)
        /\ cached' = cached \/ cached' = [cached EXCEPT ![form[r].email] = u]
    BY <1>1 DEF CacheOrganizerInRedis
  <1>3. u \in WithEmail(form[r].email) /\ u \in Requests
    BY <1>1, <1>2 DEF HoldInv, WithEmail, TypeOK
  <1>4. PICK x \in Request, signed \in BOOLEAN :
          /\ Changes(r, x)
          /\ x.pc = "done" /\ x.reply = Answer(r, u, signed)
          /\ failed' = IF signed THEN failed ELSE failed \cup {<<r, "token">>}
    BY <1>2, <1>3, FinishChanges
  <1> QED
    BY <1>2, <1>3, <1>4

\* A request that is turned away, or whose process dies.
LEMMA EndStep ==
  ASSUME TypeOK, NEW r \in Requests, Unauthorized(r) \/ BadRequest(r) \/ Crash(r)
  PROVE  \E x \in Request :
           /\ Changes(r, x)
           /\ UNCHANGED <<form, organizers, cached, before>>
           /\ x.pc = "done" /\ x.reply \in {"none", "400", "401"}
           /\ \/ (~form[r].token \/ ~form[r].json) /\ failed' = failed
              \/ failed' = failed \cup {<<r, "process">>}
  <1>1. PICK code \in {"none", "400", "401"} : Reply(r, code)
    BY DEF Unauthorized, BadRequest, Crash
  <1>2. /\ UNCHANGED <<form, organizers, cached, before>>
        /\ \/ (~form[r].token \/ ~form[r].json) /\ failed' = failed
           \/ failed' = failed \cup {<<r, "process">>}
    BY DEF Unauthorized, BadRequest, Crash
  <1>3. PICK x \in Request : Changes(r, x) /\ x.pc = "done" /\ x.reply = code
    BY <1>1, ReplyChanges DEF Codes
  <1> QED
    BY <1>2, <1>3
-----------------------------------------------------------------------------

\* The request's new record, and nobody else's.
LEMMA ChangesOne ==
  ASSUME TypeOK, NEW r \in Requests, NEW x \in Request, Changes(r, x)
  PROVE  /\ request' \in [Requests -> Request]
         /\ request'[r] = x
         /\ \A q \in Requests : q # r => request'[q] = request[q]
  BY DEF TypeOK, Changes

LEMMA AccountsTypeStep ==
  ASSUME TypeOK, HoldInv, [Next]_vars
  PROVE  TypeOK'
  <1>1. ASSUME NEW r \in Requests, FetchOrganizerFromRedis(r)
        PROVE  TypeOK'
    <2>1. PICK x \in Request : /\ Changes(r, x)
                              /\ before' = before \cup (organizers \X {r})
                              /\ UNCHANGED <<form, organizers, cached>>
                              /\ failed' \subseteq failed \cup {<<r, "token">>}
      BY <1>1, RedisStep
    <2> QED
      BY <2>1, ChangesOne DEF TypeOK
  <1>2. ASSUME NEW r \in Requests, FetchOrganizerFromMongo(r)
        PROVE  TypeOK'
    <2>1. PICK x \in Request : /\ Changes(r, x)
                              /\ failed' \subseteq failed \cup {<<r, "mongo">>}
                              /\ UNCHANGED <<form, organizers, cached, before>>
      BY <1>2, MongoStep
    <2> QED
      BY <2>1, ChangesOne DEF TypeOK
  <1>3. ASSUME NEW r \in Requests, SaveOrganizer(r)
        PROVE  TypeOK'
    <2>1. PICK x \in Request : /\ Changes(r, x)
                              /\ organizers' \subseteq organizers \cup {r}
                              /\ UNCHANGED <<form, cached, before, failed>>
      BY <1>3, SaveStep
    <2> QED
      BY <2>1, ChangesOne DEF TypeOK
  <1>4. ASSUME NEW r \in Requests, CacheOrganizerInRedis(r)
        PROVE  TypeOK'
    <2>1. PICK x \in Request, u \in Requests :
            /\ Changes(r, x)
            /\ UNCHANGED <<form, organizers, before>>
            /\ failed' \subseteq failed \cup {<<r, "token">>}
            /\ cached' = cached \/ cached' = [cached EXCEPT ![form[r].email] = u]
      BY <1>4, CacheStep
    <2> QED
      BY <2>1, ChangesOne DEF TypeOK
  <1>5. ASSUME NEW r \in Requests, Unauthorized(r) \/ BadRequest(r) \/ Crash(r)
        PROVE  TypeOK'
    <2>1. PICK x \in Request : /\ Changes(r, x)
                              /\ UNCHANGED <<form, organizers, cached, before>>
                              /\ failed' \subseteq failed \cup {<<r, "process">>}
      BY <1>5, EndStep
    <2> QED
      BY <2>1, ChangesOne DEF TypeOK
  <1>6. ASSUME NEW e \in Emails, UserExpires(e)
        PROVE  TypeOK'
    BY <1>6 DEF UserExpires, TypeOK
  <1>7. CASE UNCHANGED vars
    BY <1>7 DEF vars, TypeOK
  <1> QED
    BY <1>1, <1>2, <1>3, <1>4, <1>5, <1>6, <1>7 DEF Next

\* Every action keeps what is held.
LEMMA HoldStep ==
  ASSUME TypeOK, HoldInv, [Next]_vars
  PROVE  HoldInv'
  <1>0. organizers \subseteq Requests /\ form \in [Requests -> Forms]
        /\ cached \in [Emails -> Requests \cup {None}]
        /\ \A r \in Requests : form[r].email \in Emails
    BY DEF TypeOK, Forms
  <1>1. ASSUME NEW r \in Requests, FetchOrganizerFromRedis(r)
        PROVE  HoldInv'
    <2>1. PICK x \in Request :
            /\ Changes(r, x)
            /\ UNCHANGED <<form, organizers, cached>>
            /\ request[r].pc = "idle"
            /\ \/ x.pc = "find" /\ x.reply = "none"
               \/ x.pc = "done" /\ \E u \in WithEmail(form[r].email), signed \in BOOLEAN : x.reply = Answer(r, u, signed)
      BY <1>1, RedisStep
    <2>2. request'[r] = x /\ \A q \in Requests : q # r => request'[q] = request[q]
      BY <2>1, ChangesOne
    <2>3. r \notin organizers
      BY <2>1 DEF HoldInv
    <2>4. x.reply = "201" => FALSE
      BY <2>1, <2>3 DEF Answer, WithEmail
    <2>5. x.reply = "200" => \E u \in organizers : SameEmail(r, u) /\ form[u].password = form[r].password
      BY <2>1 DEF Answer, WithEmail, PasswordMatches, SameEmail
    <2>6. TokensNeedAccounts'
      BY <2>1, <2>2, <2>4, <2>5 DEF HoldInv, TokensNeedAccounts, SameEmail
    <2> QED
      BY <1>0, <2>1, <2>2, <2>3, <2>6 DEF HoldInv, WithEmail
  <1>2. ASSUME NEW r \in Requests, FetchOrganizerFromMongo(r)
        PROVE  HoldInv'
    <2>1. PICK x \in Request :
            /\ Changes(r, x)
            /\ UNCHANGED <<form, organizers, cached, before>>
            /\ request[r].pc = "find"
            /\ x.pc = "cache" => x.user \in WithEmail(form[r].email)
            /\ x.pc = "save" => form[r].kind = "register"
            /\ x.reply \in {"none", "401"}
      BY <1>2, MongoStep
    <2>2. request'[r] = x /\ \A q \in Requests : q # r => request'[q] = request[q]
      BY <2>1, ChangesOne
    <2>3. r \notin organizers
      BY <2>1 DEF HoldInv
    <2>4. TokensNeedAccounts'
      BY <2>1, <2>2 DEF HoldInv, TokensNeedAccounts, SameEmail
    <2> QED
      BY <1>0, <2>1, <2>2, <2>3, <2>4 DEF HoldInv, WithEmail
  <1>3. ASSUME NEW r \in Requests, SaveOrganizer(r)
        PROVE  HoldInv'
    <2>1. PICK x \in Request :
            /\ Changes(r, x)
            /\ UNCHANGED <<form, cached, before, failed>>
            /\ organizers \subseteq organizers' /\ organizers' \subseteq organizers \cup {r}
            /\ x.pc \in {"cache", "done"} /\ x.reply \in {"none", "500"}
            /\ x.pc = "cache" => x.user = r /\ r \in organizers'
      BY <1>3, SaveStep
    <2>2. request'[r] = x /\ \A q \in Requests : q # r => request'[q] = request[q]
      BY <2>1, ChangesOne
    <2>3. \A e \in Emails : WithEmail(e) \subseteq WithEmail(e)'
      BY <2>1 DEF WithEmail
    <2>4. x.pc = "cache" => x.user \in WithEmail(form[r].email)'
      BY <2>1 DEF WithEmail
    <2>5. TokensNeedAccounts'
      BY <2>1, <2>2 DEF HoldInv, TokensNeedAccounts, SameEmail
    <2>6. \A q \in Requests : request'[q].pc = "cache" => request'[q].user \in WithEmail(form[q].email)'
      <3> SUFFICES ASSUME NEW q \in Requests, request'[q].pc = "cache"
                   PROVE  request'[q].user \in WithEmail(form[q].email)'
        OBVIOUS
      <3>1. CASE q = r
        BY <2>2, <2>4, <3>1
      <3>2. CASE q # r
        <4>1. request[q].user \in WithEmail(form[q].email) /\ request'[q] = request[q]
          BY <2>2, <3>2 DEF HoldInv
        <4> QED
          BY <2>1, <4>1 DEF WithEmail
      <3> QED
        BY <3>1, <3>2
    <2>7. \A q \in organizers' : request'[q].pc \in {"cache", "done"}
      BY <1>0, <2>1, <2>2 DEF HoldInv
    <2>8. \A e \in Emails : cached'[e] # None => cached'[e] \in WithEmail(e)'
      BY <2>1, <2>3 DEF HoldInv
    <2>9. \A q \in Requests : request'[q].pc = "save" => form[q].kind = "register"
      BY <2>1, <2>2 DEF HoldInv
    <2>10. form' = form
      BY <2>1
    <2> QED
      BY <2>5, <2>6, <2>7, <2>8, <2>9, <2>10 DEF HoldInv
  <1>4. ASSUME NEW r \in Requests, CacheOrganizerInRedis(r)
        PROVE  HoldInv'
    <2>1. PICK x \in Request, u \in WithEmail(form[r].email), signed \in BOOLEAN :
            /\ Changes(r, x)
            /\ UNCHANGED <<form, organizers, before>>
            /\ x.pc = "done" /\ x.reply = Answer(r, u, signed)
            /\ cached' = cached \/ cached' = [cached EXCEPT ![form[r].email] = u]
      BY <1>4, CacheStep
    <2>2. request'[r] = x /\ \A q \in Requests : q # r => request'[q] = request[q]
      BY <2>1, ChangesOne
    <2>3. /\ x.reply = "201" => r \in organizers
          /\ x.reply = "200" => \E v \in organizers : SameEmail(r, v) /\ form[v].password = form[r].password
      BY <2>1 DEF Answer, WithEmail, PasswordMatches, SameEmail
    <2>4. TokensNeedAccounts'
      BY <2>1, <2>2, <2>3 DEF HoldInv, TokensNeedAccounts, SameEmail
    <2>5. \A e \in Emails : cached'[e] # None => cached'[e] \in WithEmail(e)
      BY <1>0, <2>1 DEF HoldInv
    <2>6. \A q \in Requests : request'[q].pc = "cache" => request'[q].user \in WithEmail(form[q].email)
      BY <2>1, <2>2 DEF HoldInv
    <2>7. \A q \in organizers : request'[q].pc \in {"cache", "done"}
      BY <1>0, <2>1, <2>2 DEF HoldInv
    <2>8. \A q \in Requests : request'[q].pc = "save" => form[q].kind = "register"
      BY <2>1, <2>2 DEF HoldInv
    <2> QED
      BY <2>1, <2>4, <2>5, <2>6, <2>7, <2>8 DEF HoldInv, WithEmail
  <1>5. ASSUME NEW r \in Requests, Unauthorized(r) \/ BadRequest(r) \/ Crash(r)
        PROVE  HoldInv'
    <2>1. PICK x \in Request : /\ Changes(r, x)
                              /\ UNCHANGED <<form, organizers, cached, before>>
                              /\ x.pc = "done" /\ x.reply \in {"none", "400", "401"}
      BY <1>5, EndStep
    <2>2. request'[r] = x /\ \A q \in Requests : q # r => request'[q] = request[q]
      BY <2>1, ChangesOne
    <2>3. TokensNeedAccounts'
      BY <2>1, <2>2 DEF HoldInv, TokensNeedAccounts, SameEmail
    <2> QED
      BY <1>0, <2>1, <2>2, <2>3 DEF HoldInv, WithEmail
  <1>6. ASSUME NEW e \in Emails, UserExpires(e)
        PROVE  HoldInv'
    BY <1>0, <1>6 DEF UserExpires, HoldInv, WithEmail, TokensNeedAccounts, SameEmail
  <1>7. CASE UNCHANGED vars
    BY <1>7 DEF vars, HoldInv, WithEmail, TokensNeedAccounts, SameEmail
  <1> QED
    BY <1>1, <1>2, <1>3, <1>4, <1>5, <1>6, <1>7 DEF Next

\* Every action keeps what registrations have seen.
LEMMA RaceStep ==
  ASSUME TypeOK, HoldInv, RaceInv, [Next]_vars
  PROVE  RaceInv'
  <1>1. ASSUME NEW r \in Requests, FetchOrganizerFromRedis(r)
        PROVE  RaceInv'
    <2>1. PICK x \in Request : /\ Changes(r, x) /\ x.pc # "save"
                              /\ before' = before \cup (organizers \X {r})
                              /\ UNCHANGED <<form, organizers>> /\ failed \subseteq failed'
                              /\ request[r].pc = "idle"
      BY <1>1, RedisStep
    <2>2. request'[r] = x /\ \A q \in Requests : q # r => request'[q] = request[q]
      BY <2>1, ChangesOne
    <2>3. r \notin organizers
      BY <2>1 DEF HoldInv
    <2>4. \A u, q \in Requests : q # r /\ <<u, q>> \in before' => <<u, q>> \in before
      BY <2>1
    <2>5. \A u, q \in Requests : <<u, q>> \in before' => u \in organizers
      BY <2>1 DEF RaceInv
    <2>6. EmailTakenOnlyByRace'
      BY <2>1, <2>3, <2>4 DEF RaceInv, EmailTakenOnlyByRace, SameEmail, TypeOK
    <2> QED
      BY <2>1, <2>2, <2>4, <2>5, <2>6 DEF RaceInv, SameEmail
  <1>2. ASSUME NEW r \in Requests, FetchOrganizerFromMongo(r)
        PROVE  RaceInv'
    <2>1. PICK x \in Request :
            /\ Changes(r, x)
            /\ UNCHANGED <<form, organizers, before>>
            /\ failed \subseteq failed'
            /\ x.pc = "save" => WithEmail(form[r].email) = {} \/ <<r, "mongo">> \in failed'
      BY <1>2, MongoStep
    <2>2. request'[r] = x /\ \A q \in Requests : q # r => request'[q] = request[q]
      BY <2>1, ChangesOne
    <2>3. \A u \in Requests :
            x.pc = "save" /\ <<u, r>> \in before /\ SameEmail(u, r) => <<r, "mongo">> \in failed'
      BY <2>1 DEF RaceInv, WithEmail, SameEmail
    <2>4. EmailTakenOnlyByRace'
      BY <2>1 DEF RaceInv, EmailTakenOnlyByRace, SameEmail
    <2> QED
      BY <2>1, <2>2, <2>3, <2>4 DEF RaceInv, SameEmail
  <1>3. ASSUME NEW r \in Requests, SaveOrganizer(r)
        PROVE  RaceInv'
    <2>1. PICK x \in Request :
            /\ Changes(r, x) /\ x.pc # "save" /\ request[r].pc = "save"
            /\ UNCHANGED <<form, cached, before, failed>>
            /\ organizers \subseteq organizers' /\ organizers' \subseteq organizers \cup {r}
      BY <1>3, SaveStep
    <2>2. request'[r] = x /\ \A q \in Requests : q # r => request'[q] = request[q]
      BY <2>1, ChangesOne
    <2>3. r \notin organizers
      BY <2>1 DEF HoldInv
    <2>4. ASSUME NEW u \in organizers', NEW v \in organizers', u # v, SameEmail(u, v), <<u, v>> \in before
          PROVE  <<v, "mongo">> \in failed
      <3>1. u \in Requests /\ v \in Requests
        BY <2>1 DEF TypeOK
      <3>2. u \in organizers
        BY <2>4, <3>1 DEF RaceInv
      <3>3. CASE v = r
        BY <2>1, <2>4, <3>1, <3>3 DEF RaceInv
      <3>4. CASE v # r
        BY <2>1, <2>4, <3>2, <3>4 DEF RaceInv, EmailTakenOnlyByRace
      <3> QED
        BY <3>3, <3>4
    <2>5. EmailTakenOnlyByRace'
      BY <2>1, <2>4 DEF EmailTakenOnlyByRace, SameEmail
    <2> QED
      BY <2>1, <2>2, <2>5 DEF RaceInv, SameEmail
  <1>4. ASSUME NEW r \in Requests, CacheOrganizerInRedis(r) \/ Unauthorized(r) \/ BadRequest(r) \/ Crash(r)
        PROVE  RaceInv'
    <2>1. PICK x \in Request : /\ Changes(r, x) /\ x.pc # "save"
                              /\ UNCHANGED <<form, organizers, before>> /\ failed \subseteq failed'
      BY <1>4, CacheStep, EndStep
    <2>2. request'[r] = x /\ \A q \in Requests : q # r => request'[q] = request[q]
      BY <2>1, ChangesOne
    <2> QED
      BY <2>1, <2>2 DEF RaceInv, EmailTakenOnlyByRace, SameEmail
  <1>5. CASE UNCHANGED <<form, request, organizers, before, failed>>
    BY <1>5 DEF RaceInv, EmailTakenOnlyByRace, SameEmail
  <1> QED
    BY <1>1, <1>2, <1>3, <1>4, <1>5 DEF Next, UserExpires, vars

\* x answers q well, if q is the login of the holder of the account u.
AnswersHolder(q, u, x) ==
  /\ form[q] = [kind |-> "login", email |-> form[u].email, password |-> form[u].password,
                token |-> TRUE, json |-> TRUE]
  /\ WithEmail(form[q].email) = {u}
  /\ \A f \in failed' : f[1] # q
  /\ x.pc = "done"
  => x.reply = "200"

\* A step of the request q can deny entry to the sender of q only: the accounts
\* stored before the others came were there before the step.
LEMMA LoginOfOne ==
  ASSUME TypeOK, RaceInv, RegisteredCanLogin,
         NEW q \in Requests, NEW x \in Request, Changes(q, x),
         form' = form, failed \subseteq failed', organizers \subseteq organizers',
         before' \subseteq before \cup (organizers \X {q}),
         \A u \in organizers : AnswersHolder(q, u, x)
  PROVE  RegisteredCanLogin'
  <1>1. request'[q] = x /\ \A r \in Requests : r # q => request'[r] = request[r]
    BY ChangesOne
  <1> SUFFICES ASSUME NEW r \in Requests, NEW u \in organizers',
                      Holder(r, u)', \A f \in failed' : f[1] # r, request'[r].pc = "done"
               PROVE  request'[r].reply = "200"
    BY DEF RegisteredCanLogin
  <1>2. /\ form[r] = [kind |-> "login", email |-> form[u].email, password |-> form[u].password,
                      token |-> TRUE, json |-> TRUE]
        /\ <<u, r>> \in before'
        /\ WithEmail(form[r].email)' = {u}
    BY DEF Holder
  <1>3. u \in organizers /\ u \in Requests
    BY <1>2 DEF TypeOK, RaceInv
  <1>4. WithEmail(form[r].email) = {u}
    BY <1>2, <1>3 DEF WithEmail
  <1>5. CASE r = q
    BY <1>1, <1>2, <1>3, <1>4, <1>5 DEF AnswersHolder
  <1>6. CASE r # q
    <2>1. Holder(r, u)
      BY <1>2, <1>4, <1>6 DEF Holder
    <2>2. request'[r] = request[r] /\ \A f \in failed : f[1] # r
      BY <1>1, <1>6
    <2> QED
      BY <1>3, <2>1, <2>2 DEF RegisteredCanLogin
  <1> QED
    BY <1>5, <1>6

\* Every action lets in who holds the only account of an email.
LEMMA LoginStep ==
  ASSUME TypeOK, HoldInv, RaceInv, RegisteredCanLogin, [Next]_vars
  PROVE  RegisteredCanLogin'
  <1>1. ASSUME NEW q \in Requests, FetchOrganizerFromRedis(q)
        PROVE  RegisteredCanLogin'
    <2>1. PICK x \in Request :
            /\ Changes(q, x)
            /\ before' = before \cup (organizers \X {q})
            /\ UNCHANGED <<form, organizers, cached>>
            /\ \/ x.pc = "find" /\ failed' = failed
               \/ \E v \in WithEmail(form[q].email), signed \in BOOLEAN :
                     /\ x.reply = Answer(q, v, signed)
                     /\ failed' = IF signed THEN failed ELSE failed \cup {<<q, "token">>}
      BY <1>1, RedisStep
    <2>2. ASSUME NEW u \in organizers
          PROVE  AnswersHolder(q, u, x)
      <3>1. CASE x.pc = "find"
        BY <3>1 DEF AnswersHolder
      <3>2. ASSUME NEW v \in WithEmail(form[q].email), NEW signed \in BOOLEAN,
                   x.reply = Answer(q, v, signed), ~signed => <<q, "token">> \in failed'
            PROVE  AnswersHolder(q, u, x)
        BY <3>2 DEF AnswersHolder, Answer, PasswordMatches
      <3> QED
        BY <2>1, <3>1, <3>2
    <2> QED
      BY <2>1, <2>2, LoginOfOne
  <1>2. ASSUME NEW q \in Requests, FetchOrganizerFromMongo(q)
        PROVE  RegisteredCanLogin'
    <2>1. PICK x \in Request :
            /\ Changes(q, x)
            /\ UNCHANGED <<form, organizers, cached, before>>
            /\ failed \subseteq failed'
            /\ x.pc = "done" => WithEmail(form[q].email) = {} \/ <<q, "mongo">> \in failed'
      BY <1>2, MongoStep
    <2>2. ASSUME NEW u \in organizers
          PROVE  AnswersHolder(q, u, x)
      BY <2>1 DEF AnswersHolder
    <2> QED
      BY <2>1, <2>2, LoginOfOne
  <1>3. ASSUME NEW q \in Requests, SaveOrganizer(q)
        PROVE  RegisteredCanLogin'
    <2>1. PICK x \in Request :
            /\ Changes(q, x) /\ request[q].pc = "save"
            /\ UNCHANGED <<form, cached, before, failed>>
            /\ organizers \subseteq organizers'
      BY <1>3, SaveStep
    <2>2. form[q].kind = "register"
      BY <2>1 DEF HoldInv
    <2>3. ASSUME NEW u \in organizers
          PROVE  AnswersHolder(q, u, x)
      BY <2>2 DEF AnswersHolder
    <2> QED
      BY <2>1, <2>3, LoginOfOne
  <1>4. ASSUME NEW q \in Requests, CacheOrganizerInRedis(q)
        PROVE  RegisteredCanLogin'
    <2>1. PICK x \in Request, v \in WithEmail(form[q].email), signed \in BOOLEAN :
            /\ Changes(q, x)
            /\ UNCHANGED <<form, organizers, before>>
            /\ x.reply = Answer(q, v, signed)
            /\ failed' = IF signed THEN failed ELSE failed \cup {<<q, "token">>}
      BY <1>4, CacheStep
    <2>2. ASSUME NEW u \in organizers
          PROVE  AnswersHolder(q, u, x)
      <3>1. ~signed => <<q, "token">> \in failed'
        BY <2>1
      <3> QED
        BY <2>1, <3>1 DEF AnswersHolder, Answer, PasswordMatches
    <2> QED
      BY <2>1, <2>2, LoginOfOne
  <1>5. ASSUME NEW q \in Requests, Unauthorized(q) \/ BadRequest(q) \/ Crash(q)
        PROVE  RegisteredCanLogin'
    <2>1. PICK x \in Request :
            /\ Changes(q, x)
            /\ UNCHANGED <<form, organizers, cached, before>>
            /\ \/ (~form[q].token \/ ~form[q].json) /\ failed' = failed
               \/ failed' = failed \cup {<<q, "process">>}
      BY <1>5, EndStep
    <2>2. ASSUME NEW u \in organizers
          PROVE  AnswersHolder(q, u, x)
      <3>1. ~form[q].token \/ ~form[q].json \/ <<q, "process">> \in failed'
        BY <2>1
      <3> QED
        BY <3>1 DEF AnswersHolder
    <2> QED
      BY <2>1, <2>2, LoginOfOne
  <1>6. CASE UNCHANGED <<form, request, organizers, before, failed>>
    BY <1>6 DEF RegisteredCanLogin, Holder, WithEmail
  <1> QED
    BY <1>1, <1>2, <1>3, <1>4, <1>5, <1>6 DEF Next, UserExpires, vars

AccountsInv == TypeOK /\ HoldInv /\ RaceInv /\ RegisteredCanLogin

LEMMA AccountsInvariant == Spec => []AccountsInv
  <1>1. Init => AccountsInv
    BY DEF Init, AccountsInv, TypeOK, Request, HoldInv, RaceInv, RegisteredCanLogin,
           TokensNeedAccounts, EmailTakenOnlyByRace, WithEmail
  <1>2. AccountsInv /\ [Next]_vars => AccountsInv'
    BY AccountsTypeStep, HoldStep, RaceStep, LoginStep DEF AccountsInv
  <1> QED
    BY <1>1, <1>2, PTL DEF Spec

\* Every variable keeps its type; a request that caches an account holds one.
THEOREM AccountsTypeCorrect == Spec => []TypeOK
  <1>1. AccountsInv => TypeOK
    BY DEF AccountsInv
  <1> QED
    BY <1>1, AccountsInvariant, PTL

\* Registrations of one email that do not overlap, and see the collection, do
\* not both succeed.
THEOREM EmailTakenOnlyByRaceHolds == Spec => []EmailTakenOnlyByRace
  <1>1. AccountsInv => EmailTakenOnlyByRace
    BY DEF AccountsInv, RaceInv
  <1> QED
    BY <1>1, AccountsInvariant, PTL

\* The holder of the only account of an email who sends a token and the password
\* is answered 200, whatever Redis does, unless MongoDB, the signature or the
\* process fails that very request.
THEOREM RegisteredCanLoginHolds == Spec => []RegisteredCanLogin
  <1>1. AccountsInv => RegisteredCanLogin
    BY DEF AccountsInv
  <1> QED
    BY <1>1, AccountsInvariant, PTL

\* Tokens are given for stored accounts only, to who knows the password.
THEOREM TokensNeedAccountsHolds == Spec => []TokensNeedAccounts
  <1>1. AccountsInv => TokensNeedAccounts
    BY DEF AccountsInv, HoldInv
  <1> QED
    BY <1>1, AccountsInvariant, PTL
=============================================================================
