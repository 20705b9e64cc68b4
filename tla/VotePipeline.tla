---------------------------- MODULE VotePipeline ----------------------------
(***************************************************************************)
(* The path of a vote: POST /votes puts it on the Kafka topic              *)
(* "votes.submitted"; the vote consumer of some server instance reads it,  *)
(* takes the Redis lock that deduplicates votes, inserts it into MongoDB,  *)
(* recomputes the results of its question, caches them and puts them on    *)
(* the topic "votes.updated".                                              *)
(*                                                                         *)
(* Every call to Redis, MongoDB or Kafka is a step of its own, so that the *)
(* steps of several instances, lock expiries, group rebalances and crashes *)
(* interleave between any two of them.  All votes are produced with the    *)
(* key "default" (ProduceVoteSubmitted), hence one partition, assigned to  *)
(* one member of the consumer group at a time.                             *)
(***************************************************************************)
EXTENDS Integers, Sequences, FiniteSets, ResultsTally

CONSTANTS
  Instances,        \* server processes, each with one vote consumer
  VoteIDs,          \* the ids SubmitVoteHandler allocates, one per request
  Participants,     \* participant ids as the frontend sends them
  HexParticipants,  \* those that parse as a MongoDB ObjectID
  Questions,        \* question ids that occur in the session
  QuestionIDs,      \* well-formed question ids a request may carry
  NumOptions,       \* how many options each question has
  Selections,       \* what the requests may select: functions on VoteIDs
  MaxRetries,       \* maxRetries of processVoteMessageWithRetry, 3 in the code
  FirstBatch,       \* groups the first batch of a cursor holds, 101 in MongoDB
  Faults,           \* the failures considered: pairs <<service, outcome>>
  None,             \* "no vote", "no results", "no member"
  NilObjectID       \* the zero ObjectID, what a failed parse leaves behind

Services == {"kafka", "redis", "mongo", "cursor", "session", "process"}

\* What a call may report, and whether it took effect:
\*   error : refused, no effect        late  : took effect, caller saw an error
\*   dup   : the client library repeated the request after a lost reply: a
\*           Kafka message written twice, a SETNX that finds its own key
\*   crash : the process dies (service "process" only)
FaultOutcomes == {"error", "late", "dup", "crash"}

ASSUME PipelineAssumption ==
  /\ MaxRetries \in Nat
  /\ FirstBatch \in Nat
  /\ HexParticipants \subseteq Participants
  /\ Questions \subseteq QuestionIDs
  /\ NumOptions \in Nat
  /\ Selections \subseteq [VoteIDs -> Seq(Int) \ {<<>>}]
  /\ Faults \subseteq Services \X FaultOutcomes
  /\ None \notin VoteIDs \cup Instances \cup Nat
  /\ NilObjectID \notin Participants

VARIABLES
  ballot,        \* what the request with each id says (never changes)
  selection,     \* its selectedOptions (never changes)
  reply,         \* HTTP status of each request, or "none"
  votesLog,      \* partition of votes.submitted, a sequence of vote ids
  committed,     \* offset committed by vote-processor-group
  position,      \* where each instance's reader is in its subscription, or None
  owner,         \* the group member the partition is assigned to
  worker,        \* state of each instance's vote consumer goroutine
  voteLock,      \* Redis keys vote_lock:{session}:{question}:{participant}
  votes,         \* MongoDB collection "votes", by _id
  resultsCache,  \* Redis keys results:{session}:{question}
  updates,       \* topic votes.updated, a sequence of results
  lapsed,        \* history: lock keys that expired or were lost in Redis
  delivered,     \* history: offsets handed to processVoteMessage
  overtaken,     \* history: the first offset that was in a reader's hands, not
                 \* committed, when the partition moved; 0 if there is none
  struck         \* history: votes a failure hit before they were stored

ingress == <<ballot, selection, reply>>
kafka   == <<votesLog, committed, position, owner, delivered, overtaken>>
locks   == <<voteLock, lapsed>>
results == <<resultsCache, updates>>
vars    == <<ingress, kafka, worker, locks, votes, struck, results>>

Ballots == [question : QuestionIDs, participant : Participants]
Results == [question : QuestionIDs, votes : SUBSET VoteIDs, groups : SUBSET Int,
            voters : SUBSET (Participants \cup {NilObjectID})]

\* The calls of processVote and UpdateRealTimeResults, in program order.
Steps == {"session", "lock", "save", "lookup", "count", "voters", "cacheResults", "emit"}

\* offset: of the message fetched and not committed yet, else 0.
Worker == [pc : Steps \cup {"read", "commit", "down"}, vote : VoteIDs \cup {None},
           offset : Nat, attempt : 0..MaxRetries, tally : Results \cup {None}]

Idle == [pc |-> "read", vote |-> None, offset |-> 0, attempt |-> 0, tally |-> None]

Init ==
  /\ ballot \in [VoteIDs -> Ballots]
  /\ selection \in Selections
  /\ reply = [v \in VoteIDs |-> "none"]
  /\ votesLog = <<>>
  /\ committed = 0
  /\ position = [i \in Instances |-> None]
  /\ owner = None
  /\ worker = [i \in Instances |-> Idle]
  /\ voteLock = {}
  /\ votes = {}
  /\ resultsCache = [q \in QuestionIDs |-> None]
  /\ updates = <<>>
  /\ lapsed = {}
  /\ delivered = {}
  /\ overtaken = 0
  /\ struck = {}

-----------------------------------------------------------------------------
(* Calls to the services *)

Outcome(service) == {"ok"} \cup {o \in FaultOutcomes : <<service, o>> \in Faults}

Succeeds(o) == o \in {"ok", "dup"}
TakesEffect(o) == o # "error"

\* The votes hit by a failure, after a call on behalf of vote v.
StruckBy(v, o) == IF o = "ok" THEN struck ELSE struck \cup {v}

\* Produce: the topic after a write with outcome o.
Produce(topic, message, o) ==
  IF o = "error" THEN topic
  ELSE IF o = "dup" THEN Append(Append(topic, message), message)
  ELSE Append(topic, message)

\* Mutant: every id fails to parse.
ObjectIDLost(p) == NilObjectID

\* primitive.ObjectIDFromHex with its error ignored.
ObjectIDFromHex(p) == IF p \in HexParticipants THEN p ELSE NilObjectID

-----------------------------------------------------------------------------
(* The HTTP handler *)

\* SubmitVoteHandler.  A request that fails validation, or whose session is
\* not found or not active, is answered 400; one that Produce reports as
\* failed is answered 500, although the vote may be on the topic.  That the
\* question exists in the session is not checked.
SubmitVoteHandler(v) ==
  /\ reply[v] = "none"
  /\ \/ /\ reply' = [reply EXCEPT ![v] = "400"]
        /\ UNCHANGED votesLog
     \/ \E o \in Outcome("kafka") :
          /\ votesLog' = Produce(votesLog, v, o)
          /\ reply' = [reply EXCEPT ![v] = IF Succeeds(o) THEN "202" ELSE "500"]
  /\ UNCHANGED <<ballot, selection, committed, position, owner, delivered, overtaken,
                 worker, locks, votes, struck, results>>

-----------------------------------------------------------------------------
(* The vote consumer *)

Goto(i, step) == worker' = [worker EXCEPT ![i].pc = step]

\* processVoteMessage returned nil, or the message is given up.
NextMessage(i) == worker' = [worker EXCEPT ![i] = Idle]

\* Error texts are compared whole; processVote wraps every one of its errors
\* ("duplicate vote: ...", "session not found: ...").
IsNonRetriableError(err) ==
  err \in {"duplicate vote", "session is not active", "session not found",
           "invalid session ID", "invalid question ID"}

\* Mutant: one attempt too many.
GiveUpTooLate(attempt, err) == attempt > MaxRetries \/ IsNonRetriableError(err)
GiveUp(attempt, err) == attempt = MaxRetries \/ IsNonRetriableError(err)

\* processVote returned err: sleep and run it again from the top, or drop the
\* message.
ProcessVoteFailed(i, err) ==
  IF GiveUp(worker[i].attempt, err)
  THEN NextMessage(i)
  ELSE worker' = [worker EXCEPT ![i] = [@ EXCEPT !.pc = "session", !.attempt = worker[i].attempt + 1]]

\* The first of some offsets, where 0 is none.
Earliest(offsets) == IF offsets \subseteq {0} THEN 0 ELSE Min(offsets \ {0})

\* ReadMessage, first half: FetchMessage takes the next message of the reader's
\* subscription.  A reader that lost the partition goes on to return what it has
\* buffered until it has rejoined the group.
FetchMessage(i) ==
  /\ worker[i].pc = "read"
  /\ position[i] # None /\ position[i] < Len(votesLog)
  /\ position' = [position EXCEPT ![i] = position[i] + 1]
  /\ worker' = [worker EXCEPT ![i] = [@ EXCEPT !.pc = "commit",
       !.offset = position[i] + 1, !.vote = votesLog[position[i] + 1]]]
  /\ overtaken' = IF owner = i THEN overtaken ELSE Earliest({overtaken, position[i] + 1})
  /\ UNCHANGED <<ingress, votesLog, committed, owner, delivered, locks, votes, struck,
                 results>>

\* The group has assigned the partition to somebody else, and i's reader has not
\* rejoined yet.
Outdated(i) == owner # i /\ position[i] # None

\* Mutant: FetchMessage without CommitMessages.
NotCommitted(i, o) == committed

\* The group's offset after i has committed the message it fetched: whatever the
\* offset was, and whoever has the partition now.
CommittedAfter(i, o) == IF TakesEffect(o) THEN worker[i].offset ELSE committed

\* ReadMessage, second half: CommitMessages, before the message is processed.
\* The request waits for the generation the reader is a member of; one sent for
\* a generation that is over is refused.  When the commit reports an error the
\* consumer logs it and continues with the next message.
CommitMessages(i) ==
  /\ worker[i].pc = "commit"
  /\ \E o \in Outcome("kafka") \ {"dup"} :
       /\ Outdated(i) => o = "error"
       /\ committed' = CommittedAfter(i, o)
       /\ struck' = StruckBy(worker[i].vote, o)
       /\ IF o = "ok"
          THEN /\ worker' = [worker EXCEPT ![i] = [@ EXCEPT !.pc = "session", !.offset = 0]]
               /\ delivered' = delivered \cup {worker[i].offset}
          ELSE NextMessage(i) /\ UNCHANGED delivered
  /\ UNCHANGED <<ingress, votesLog, position, owner, overtaken, locks, votes,
                 results>>

\* processVote: repository.GetSessionByID.  The session's status is not read.
GetSessionByID(i) ==
  /\ worker[i].pc = "session"
  /\ \E o \in Outcome("session") :
       /\ struck' = StruckBy(worker[i].vote, o)
       /\ IF o = "ok" THEN Goto(i, "lock")
          ELSE ProcessVoteFailed(i, "session not found: %v")
  /\ UNCHANGED <<ingress, kafka, locks, votes, results>>

\* Mutant: SET instead of SETNX.
LockAlwaysFree(k) == TRUE

\* Mutant: the reply of SETNX read the wrong way round.
LockTaken(k) == k \in voteLock

LockFree(k) == k \notin voteLock

\* checkDuplicateVote: SETNX with a TTL of 24 hours.
CheckDuplicateVote(i) ==
  LET k == ballot[worker[i].vote] IN
  /\ worker[i].pc = "lock"
  /\ \E o \in Outcome("redis") :
       /\ voteLock' = IF TakesEffect(o) THEN voteLock \cup {k} ELSE voteLock
       /\ struck' = StruckBy(worker[i].vote, o)
       /\ IF o = "ok" /\ LockFree(k)
          THEN Goto(i, "save")
          ELSE ProcessVoteFailed(i, "duplicate vote: %v")
  /\ UNCHANGED <<ingress, kafka, lapsed, votes, results>>

\* SaveVoteToMongo: InsertOne fails when a document has the same _id; no other
\* index of the collection is ever created (EstablishIndexes has no caller).  Then
\* cacheVoteInRedis writes three keys that nothing reads.
SaveVoteToMongo(i) ==
  LET v == worker[i].vote IN
  /\ worker[i].pc = "save"
  /\ \E o \in Outcome("mongo") :
       /\ votes' = IF TakesEffect(o) THEN votes \cup {v} ELSE votes
       /\ struck' = StruckBy(v, o)
       /\ IF o = "ok" /\ v \notin votes
          THEN Goto(i, "lookup")
          ELSE ProcessVoteFailed(i, "failed to save vote: %v")
  /\ UNCHANGED <<ingress, kafka, locks, results>>

\* UpdateRealTimeResults: read the session again and find the question in it.
\* Any failure from here on is only logged: the vote counts as processed.
LookupQuestion(i) ==
  /\ worker[i].pc = "lookup"
  /\ \E o \in Outcome("session") :
       IF o = "ok" /\ ballot[worker[i].vote].question \in Questions
       THEN Goto(i, "count")
       ELSE NextMessage(i)
  /\ UNCHANGED <<ingress, kafka, locks, votes, struck, results>>

\* Mutant: count who holds a lock, and locks expire.
LockedVotesOn(q) == {v \in votes : ballot[v].question = q /\ ballot[v] \in voteLock}

VotesOn(q) == {v \in votes : ballot[v].question = q}

\* What the loop over the cursor gets of the groups.  A getMore that fails ends
\* the loop like the end of the data (cursor.Err is not asked).
GroupsRead(all) ==
  {all} \cup {part \in SUBSET all : /\ <<"cursor", "error">> \in Faults
                                   /\ Cardinality(part) >= FirstBatch}

\* getVoteCountsForQuestion: the aggregation over the votes collection.  The
\* tally is the set of the documents matched and that of the groups read, of
\* which the counts per option are a function.
GetVoteCountsForQuestion(i) ==
  LET q == ballot[worker[i].vote].question
      docs == VotesOn(q)
  IN
  /\ worker[i].pc = "count"
  /\ \E o \in Outcome("mongo") :
       IF o = "ok"
       THEN \E read \in GroupsRead(Groups(docs, selection)) :
              worker' = [worker EXCEPT ![i] = [@ EXCEPT !.pc = "voters",
                !.tally = [question |-> q, votes |-> docs, groups |-> read, voters |-> {}]]]
       ELSE NextMessage(i)
  /\ UNCHANGED <<ingress, kafka, locks, votes, struck, results>>

\* getUniqueVotersCount: the distinct participant_id values of the documents.
\* calculateQuestionResults ignores its error and publishes 0 voters.
GetUniqueVotersCount(i) ==
  LET q == worker[i].tally.question IN
  /\ worker[i].pc = "voters"
  /\ \E o \in Outcome("mongo") :
       worker' = [worker EXCEPT ![i] = [@ EXCEPT !.pc = "cacheResults",
         !.tally.voters =
            IF o = "ok" THEN {ObjectIDFromHex(ballot[v].participant) : v \in VotesOn(q)}
            ELSE {}]]
  /\ UNCHANGED <<ingress, kafka, locks, votes, struck, results>>

\* cacheResultsInRedis: an error is logged only.
CacheResultsInRedis(i) ==
  LET r == worker[i].tally IN
  /\ worker[i].pc = "cacheResults"
  /\ \E o \in Outcome("redis") :
       resultsCache' = IF TakesEffect(o) THEN [resultsCache EXCEPT ![r.question] = r]
                       ELSE resultsCache
  /\ Goto(i, "emit")
  /\ UNCHANGED <<ingress, kafka, locks, votes, struck, updates>>

\* Mutant: the event is never produced.
EmitNothing(topic, message, o) == topic

\* Produce(ResultsUpdatedTopic, ...)
ProduceResults(topic, message, o) == Produce(topic, message, o)

\* The results.updated event; whether or not it was written, the message is
\* done.
EmitResultsUpdated(i) ==
  /\ worker[i].pc = "emit"
  /\ \E o \in Outcome("kafka") : updates' = ProduceResults(updates, worker[i].tally, o)
  /\ NextMessage(i)
  /\ UNCHANGED <<ingress, kafka, locks, votes, struck, resultsCache>>

VoteConsumer(i) ==
  \/ FetchMessage(i)
  \/ CommitMessages(i)
  \/ GetSessionByID(i)
  \/ CheckDuplicateVote(i)
  \/ SaveVoteToMongo(i)
  \/ LookupQuestion(i)
  \/ GetVoteCountsForQuestion(i)
  \/ GetUniqueVotersCount(i)
  \/ CacheResultsInRedis(i)
  \/ EmitResultsUpdated(i)

-----------------------------------------------------------------------------
(* The environment *)

\* Mutant: a reader that starts at the end of the log.
LatestOffset == Len(votesLog)

\* StartOffset of a reader with a GroupID.
StartOffset == committed

\* The group coordinator assigns the partition, and the reader that gets it
\* starts at the committed offset.  What the others have fetched they keep.
Rebalance(i) ==
  /\ worker[i].pc # "down"
  /\ owner' = i
  /\ position' = [position EXCEPT ![i] = StartOffset]
  /\ overtaken' = Earliest({overtaken} \cup {worker[j].offset : j \in Instances})
  /\ UNCHANGED <<ingress, votesLog, committed, delivered, worker,
                 locks, votes, struck, results>>

\* A reader that lost the partition joins the new generation: what it has
\* buffered is of an older version and not returned any more.
Rejoin(i) ==
  /\ Outdated(i)
  /\ position' = [position EXCEPT ![i] = None]
  /\ UNCHANGED <<ingress, votesLog, committed, owner, delivered, overtaken, worker,
                 locks, votes, struck, results>>

\* The TTL of 24 hours ends, or Redis loses the key in a restart.
LockExpires(k) ==
  /\ k \in voteLock
  /\ voteLock' = voteLock \ {k}
  /\ lapsed' = lapsed \cup {k}
  /\ UNCHANGED <<ingress, kafka, worker, votes, struck, results>>

\* The TTL of the results, 1 hour.
ResultsExpire(q) ==
  /\ resultsCache[q] # None
  /\ resultsCache' = [resultsCache EXCEPT ![q] = None]
  /\ UNCHANGED <<ingress, kafka, worker, locks, votes, struck, updates>>

\* The process dies: what its goroutines held is gone, and a message whose
\* offset was not committed is still on the topic.
Crash(i) ==
  /\ <<"process", "crash">> \in Faults
  /\ worker[i].pc # "down"
  /\ worker' = [worker EXCEPT ![i] = [Idle EXCEPT !.pc = "down"]]
  /\ struck' = IF worker[i].pc = "commit" THEN struck ELSE struck \cup ({worker[i].vote} \ {None})
  /\ owner' = IF owner = i THEN None ELSE owner
  /\ position' = [position EXCEPT ![i] = None]
  /\ UNCHANGED <<ingress, votesLog, committed, delivered, overtaken,
                 locks, votes, results>>

Restart(i) ==
  /\ worker[i].pc = "down"
  /\ NextMessage(i)
  /\ UNCHANGED <<ingress, kafka, locks, votes, struck, results>>

Environment ==
  \/ \E i \in Instances : Rebalance(i) \/ Rejoin(i) \/ Crash(i) \/ Restart(i)
  \/ \E k \in Ballots : LockExpires(k)
  \/ \E q \in QuestionIDs : ResultsExpire(q)

Next ==
  \/ \E v \in VoteIDs : SubmitVoteHandler(v)
  \/ \E i \in Instances : VoteConsumer(i)
  \/ Environment

Spec == Init /\ [][Next]_vars

\* A running consumer goroutine keeps taking steps, a member of the group hears
\* of a rebalance, and the coordinator assigns a partition nobody owns.
Fairness ==
  /\ \A i \in Instances : WF_vars(VoteConsumer(i)) /\ WF_vars(Rejoin(i))
  /\ WF_vars(\E i \in Instances : owner = None /\ Rebalance(i))

FairSpec == Spec /\ Fairness

-----------------------------------------------------------------------------
(* Properties *)

TypeOK ==
  /\ ballot \in [VoteIDs -> Ballots]
  /\ reply \in [VoteIDs -> {"none", "202", "400", "500"}]
  /\ votesLog \in Seq(VoteIDs)
  /\ committed \in 0..Len(votesLog)
  /\ position \in [Instances -> 0..Len(votesLog) \cup {None}]
  /\ owner \in Instances \cup {None}
  /\ worker \in [Instances -> Worker]
  /\ \A i \in Instances : worker[i].offset <= Len(votesLog)
  /\ voteLock \subseteq Ballots
  /\ votes \subseteq VoteIDs
  /\ resultsCache \in [QuestionIDs -> Results \cup {None}]
  /\ updates \in Seq(Results)
  /\ lapsed \subseteq Ballots
  /\ delivered \subseteq 1..Len(votesLog) /\ overtaken \in 0..Len(votesLog)
  /\ selection \in Selections
  /\ struck \subseteq VoteIDs

\* As long as its vote lock has never expired, a participant has at most one
\* vote on a question in MongoDB, whatever the retries, repeated messages,
\* rebalances and crashes (checkDuplicateVote before SaveVoteToMongo).
OneVotePerLock ==
  \A v, w \in votes : ballot[v] = ballot[w] /\ v # w => ballot[v] \in lapsed

\* An offset is handed to processVoteMessage a second time only if a reader held
\* it, or one before it, without having committed it, when the partition was
\* assigned anew: by such a reader, or because its late commit moved the group's
\* offset back.  A crash, a failed commit or a rebalance that meets no reader
\* between FetchMessage and CommitMessages repeats nothing.
RedeliveredOnlyIfOvertaken ==
  [][\A i \in Instances :
       /\ worker[i].pc = "commit" /\ worker'[i].pc = "session"
       /\ worker[i].offset \in delivered
       => overtaken \in 1..worker[i].offset]_vars

Unread == {votesLog[n] : n \in (committed + 1)..Len(votesLog)}
InProcess == {worker[i].vote : i \in Instances} \ {None}

\* A vote answered with 202 is still on its way, or its participant has a vote
\* on the question in MongoDB.
VotesQueueUntilSaved ==
  \A v \in VoteIDs : reply[v] = "202" =>
    \E w \in votes \cup Unread \cup InProcess : ballot[w] = ballot[v]

\* Whatever fails, crashes or is repeated: a vote answered with 202 that is not
\* stored, waiting or in process, and whose participant has no other vote on the
\* question there, was struck by a failure itself or found the lock of a vote
\* that was.  The offset committed early, the lock taken before the insert and
\* the retries that meet it lose no other vote.
VotesLostOnlyToFaults ==
  \A v \in VoteIDs : reply[v] = "202" =>
    \E w \in votes \cup Unread \cup InProcess \cup struck : ballot[w] = ballot[v]

\* The loop over the cursor saw every group.
Complete(e) == e.groups = Groups(e.votes, selection)

\* Clients never see the count of an option go down, unless the cursor behind
\* the later event broke off: each event is computed from the votes the previous
\* ones of its question were, and maybe more.
ResultsMonotone ==
  \A m, n \in 1..Len(updates) :
    m < n /\ updates[m].question = updates[n].question =>
      /\ updates[m].votes \subseteq updates[n].votes
      /\ Complete(updates[n]) =>
           \A i \in OptionIndices(NumOptions) :
             OptionCount(updates[m], selection, i) <= OptionCount(updates[n], selection, i)

\* When the consumer has nothing left to do, the last event of a question
\* counts every vote saved on it (if no cursor breaks off), and cached results
\* are those of that event.
ResultsComplete ==
  (committed = Len(votesLog) /\ InProcess = {}) =>
    \A q \in Questions : \E n \in 0..Len(updates) :
      /\ \A m \in (n + 1)..Len(updates) : updates[m].question # q
      /\ IF n = 0 THEN VotesOn(q) = {} /\ resultsCache[q] = None
         ELSE /\ updates[n].question = q
              /\ updates[n].votes = {v \in votes : ballot[v].question = q}
              /\ <<"cursor", "error">> \notin Faults => Complete(updates[n])
              /\ resultsCache[q] \in {None, updates[n]}

\* The published voters count is the number of participants whose votes the
\* same event counts.
VotersCountUnique ==
  \A n \in 1..Len(updates) :
    Cardinality(updates[n].voters)
      = Cardinality({ballot[v].participant : v \in updates[n].votes})

\* The numbers of an event agree with each other: totalVotes is what the counted
\* votes select exactly if the cursor did not break off; then the options account
\* for all of it exactly if every selected index is one of an option; and in any
\* case no option has more than 100 percent.
TotalsAddUp ==
  \A n \in 1..Len(updates) :
    LET e     == updates[n]
        total == TotalVotes(e, selection)
        sum   == SumOverOptions(e, selection, NumOptions)
    IN /\ total = Selected(e.votes, selection) <=> Complete(e)
       /\ Complete(e) => (sum = total <=> OutOfRange(e.votes, selection, NumOptions) = {})
       /\ \A i \in OptionIndices(NumOptions) :
            Percentage(OptionCount(e, selection, i), total) \in 0..100

\* No option gets more votes than the event reports voters, unless a counted
\* vote names an option twice or the lock of a counted ballot lapsed.
OptionWithinVoters ==
  \A n \in 1..Len(updates) :
    LET e == updates[n] IN
      (Repeating(e.votes, selection) = {} /\ \A v \in e.votes : ballot[v] \notin lapsed) =>
        \A i \in OptionIndices(NumOptions) :
          OptionCount(e, selection, i) <= Cardinality(e.voters)

\* Every acknowledged vote on a question of the session is, in the end, in a
\* published result, or another vote of its participant is; with all it selects,
\* if no cursor breaks off.  (Both an answer and a published event stay: that
\* there always comes a time when all are counted says that each one will be.)
AcceptedEventuallyCounted ==
  []<>(\A v \in VoteIDs :
         (reply[v] = "202" /\ ballot[v].question \in Questions)
           => \E n \in 1..Len(updates) : \E w \in updates[n].votes :
                /\ ballot[w] = ballot[v]
                /\ \/ <<"cursor", "error">> \in Faults
                   \/ Groups({w}, selection) \subseteq updates[n].groups)

\* The pipeline implements the ballot box: it stores only votes that were cast,
\* at most one per remembered ballot, and publishes only counts of stored votes.
Box == INSTANCE BallotBox WITH
  cast      <- {votesLog[n] : n \in 1..Len(votesLog)},
  stored    <- votes,
  forgotten <- lapsed,
  published <- {[question |-> updates[n].question, votes |-> updates[n].votes] :
                  n \in 1..Len(updates)}

ImplementsBallotBox == Box!Spec

\* The README's "guaranteed consistency": one document per participant and
\* question.
OneVotePerParticipant ==
  \A v, w \in votes : ballot[v] = ballot[w] => v = w
=============================================================================
