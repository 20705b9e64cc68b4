---------------------- MODULE VotePipelineResultsProofs ----------------------
(***************************************************************************)
(* What the results events of a single server instance say, for any number *)
(* of votes, participants and questions.  Each theorem names the failures  *)
(* it allows.  With one instance, nothing is stored between the count and  *)
(* the event, so that a tally in hand counts exactly the stored votes.     *)
(***************************************************************************)
EXTENDS BallotBoxProofs, FiniteSetTheorems, WellFoundedInduction

OneInstance == \A i, j \in Instances : i = j

Tallied == {"voters", "cacheResults", "emit"}

\* Published events count stored votes on their question,
PublishedInv ==
  \A n \in 1..Len(updates) : \A v \in updates[n].votes :
    v \in votes /\ ballot[v].question = updates[n].question

\* and a tally in hand all of them.
FreshTally ==
  \A i \in Instances : worker[i].pc \in Tallied =>
    worker[i].tally.votes = VotesOn(worker[i].tally.question)

\* Each event is computed from the votes of the previous ones, and maybe more.
VotesMonotone ==
  \A m, n \in 1..Len(updates) :
    m < n /\ updates[m].question = updates[n].question =>
      updates[m].votes \subseteq updates[n].votes

EventInv == PublishedInv /\ FreshTally /\ VotesMonotone

\* What a cursor gave of the groups,
ReadOf(e) ==
  /\ e.groups \subseteq Groups(e.votes, selection)
  /\ <<"cursor", "error">> \notin Faults => Complete(e)

\* for the events published and the tallies in hand.
GroupsInv ==
  /\ \A n \in 1..Len(updates) : ReadOf(updates[n])
  /\ \A i \in Instances : worker[i].pc \in Tallied => ReadOf(worker[i].tally)

-----------------------------------------------------------------------------
(* What a step does to the tally in hand and to the topic. *)

\* A written topic is the old one, followed by the message if at all.
LEMMA ProduceAt ==
  ASSUME NEW S, NEW t \in Seq(S), NEW m \in S, NEW o
  PROVE  /\ \A n \in 1..Len(Produce(t, m, o)) :
              \/ n \in 1..Len(t) /\ Produce(t, m, o)[n] = t[n]
              \/ n > Len(t) /\ Produce(t, m, o)[n] = m
         /\ o # "error" => Len(Produce(t, m, o)) > Len(t)
<1> DEFINE a == Append(t, m)
           b == Append(a, m)
<1>1. /\ a \in Seq(S) /\ Len(a) = Len(t) + 1 /\ Len(t) \in Nat
      /\ a[Len(t) + 1] = m /\ \A n \in 1..Len(t) : a[n] = t[n]
  OBVIOUS
<1>2. /\ Len(b) = Len(a) + 1 /\ b[Len(a) + 1] = m
      /\ \A n \in 1..Len(a) : b[n] = a[n]
  <2> HIDE DEF a
  <2> QED
    BY <1>1
<1>3. Produce(t, m, o) = IF o = "error" THEN t ELSE IF o = "dup" THEN b ELSE a
  BY DEF Produce
<1> HIDE DEF a, b
<1>4. CASE o = "error"
  BY <1>1, <1>3, <1>4
<1>5. CASE o = "dup"
  <2>1. \A n \in 1..Len(b) : n \in 1..Len(t) \/ n = Len(t) + 1 \/ n = Len(t) + 2
    BY <1>1, <1>2
  <2>2. \A n \in 1..Len(t) : b[n] = t[n]
    BY <1>1, <1>2
  <2>3. b[Len(t) + 1] = m /\ b[Len(t) + 2] = m
    BY <1>1, <1>2
  <2> QED
    BY <1>1, <1>2, <1>3, <1>5, <2>1, <2>2, <2>3
<1>6. CASE o \notin {"error", "dup"}
  BY <1>1, <1>3, <1>6
<1> QED
  BY <1>4, <1>5, <1>6

TallyTaken(i) ==
  LET q == ballot[worker[i].vote].question IN
  /\ worker[i].pc = "count" /\ worker'[i].pc = "voters"
  /\ worker'[i].vote = worker[i].vote
  /\ \E g \in GroupsRead(Groups(VotesOn(q), selection)) :
       worker'[i].tally = [question |-> q, votes |-> VotesOn(q), groups |-> g, voters |-> {}]

VotersTaken(i) ==
  /\ worker[i].pc = "voters" /\ worker'[i].pc = "cacheResults"
  /\ worker'[i].vote = worker[i].vote
  /\ worker'[i].tally.question = worker[i].tally.question
  /\ worker'[i].tally.votes = worker[i].tally.votes
  /\ worker'[i].tally.groups = worker[i].tally.groups
  /\ \E o \in Outcome("mongo") :
       worker'[i].tally.voters =
         IF o = "ok"
         THEN {ObjectIDFromHex(ballot[v].participant) : v \in VotesOn(worker[i].tally.question)}
         ELSE {}

TallyKeptBy(i) ==
  /\ \/ worker'[i].pc = worker[i].pc
     \/ worker[i].pc = "cacheResults" /\ worker'[i].pc = "emit"
  /\ worker'[i].vote = worker[i].vote /\ worker'[i].tally = worker[i].tally

\* After a fetch or a commit the consumer holds no tally.
LEMMA ReadMessageEffect ==
  ASSUME TypeInv, NEW i \in Instances, FetchMessage(i) \/ CommitMessages(i)
  PROVE  worker'[i].pc \in {"commit", "session", "read"}
<1>1. CASE FetchMessage(i)
  BY <1>1 DEF FetchMessage, TypeInv, TypeOK, Worker
<1>2. CASE CommitMessages(i)
  <2>1. CASE NextMessage(i)
    BY <2>1, NextMessageEffect
  <2>2. CASE worker' = [worker EXCEPT ![i] = [@ EXCEPT !.pc = "session", !.offset = 0]]
    BY <2>2 DEF TypeInv, TypeOK, Worker
  <2> QED
    BY <1>2, <2>1, <2>2 DEF CommitMessages
<1> QED
  BY <1>1, <1>2

LEMMA TallyCases ==
  ASSUME BoxInv, NEW i \in Instances,
         VoteConsumer(i) \/ Crash(i) \/ Restart(i) \/ UNCHANGED worker
  PROVE  TallyTaken(i) \/ VotersTaken(i) \/ TallyKeptBy(i) \/ worker'[i].pc \notin Tallied
<1> USE DEF BoxInv
<1>1. CASE FetchMessage(i) \/ CommitMessages(i)
  <2>1. worker'[i].pc \in {"commit", "session", "read"}
    BY <1>1, ReadMessageEffect
  <2> QED
    BY <2>1 DEF Tallied
<1>2. CASE GetSessionByID(i) \/ CheckDuplicateVote(i) \/ SaveVoteToMongo(i)
  <2>1. worker'[i].pc \in {"read", "session", "lock", "save", "lookup"}
    BY <1>2, GotoEffect, ProcessVoteFailedEffect
       DEF GetSessionByID, CheckDuplicateVote, SaveVoteToMongo
  <2> QED
    BY <2>1 DEF Tallied
<1>3. CASE LookupQuestion(i) \/ EmitResultsUpdated(i)
  <2>1. worker'[i].pc \in {"read", "count"}
    BY <1>3, GotoEffect, NextMessageEffect DEF LookupQuestion, EmitResultsUpdated
  <2> QED
    BY <2>1 DEF Tallied
<1>4. CASE GetVoteCountsForQuestion(i)
  <2> DEFINE q == ballot[worker[i].vote].question
             t(g) == [question |-> q, votes |-> VotesOn(q), groups |-> g, voters |-> {}]
             r(g) == [worker[i] EXCEPT !.pc = "voters", !.tally = t(g)]
  <2>1. CASE NextMessage(i)
    BY <2>1, NextMessageEffect DEF Tallied
  <2>2. ASSUME NEW g \in GroupsRead(Groups(VotesOn(q), selection)),
               worker' = [worker EXCEPT ![i] = r(g)]
        PROVE  TallyTaken(i)
    <3>1. r(g).pc = "voters" /\ r(g).tally = t(g) /\ r(g).vote = worker[i].vote
      <4> HIDE DEF t
      <4> QED
        BY DEF TypeInv, TypeOK, Worker
    <3>2. worker'[i] = r(g)
      BY <2>2 DEF TypeInv, TypeOK
    <3>3. worker[i].pc = "count"
      BY <1>4 DEF GetVoteCountsForQuestion
    <3>4. worker'[i].pc = "voters" /\ worker'[i].tally = t(g) /\ worker'[i].vote = worker[i].vote
      BY <3>1, <3>2
    <3> QED
      BY <3>3, <3>4 DEF TallyTaken
  <2> QED
    BY <1>4, <2>1, <2>2 DEF GetVoteCountsForQuestion
<1>5. CASE GetUniqueVotersCount(i)
  <2>1. PICK o, vs :
          /\ o \in Outcome("mongo")
          /\ vs = IF o = "ok" THEN {ObjectIDFromHex(ballot[v].participant) :
                                      v \in VotesOn(worker[i].tally.question)}
                  ELSE {}
          /\ worker' = [worker EXCEPT ![i] = [@ EXCEPT !.pc = "cacheResults", !.tally.voters = vs]]
    BY <1>5 DEF GetUniqueVotersCount
  <2>2. worker[i].pc = "voters" /\ worker[i].tally \in Results
    BY <1>5 DEF GetUniqueVotersCount, TypeInv, HandsFull
  <2> DEFINE t == [worker[i].tally EXCEPT !.voters = vs]
  <2>3. worker'[i].tally = t /\ worker'[i].pc = "cacheResults" /\ worker'[i].vote = worker[i].vote
    BY <2>1 DEF TypeInv, TypeOK, Worker
  <2>4. /\ t.votes = worker[i].tally.votes /\ t.question = worker[i].tally.question
        /\ t.groups = worker[i].tally.groups /\ t.voters = vs
    BY <2>2 DEF Results
  <2> HIDE DEF t
  <2> QED
    BY <2>1, <2>2, <2>3, <2>4 DEF VotersTaken
<1>6. CASE CacheResultsInRedis(i)
  <2>1. worker[i].pc = "cacheResults" /\ Goto(i, "emit")
    BY <1>6 DEF CacheResultsInRedis
  <2> QED
    BY <2>1, GotoEffect DEF TallyKeptBy
<1>7. CASE Crash(i) \/ Restart(i)
  <2>1. worker'[i].pc \in {"read", "down"}
    BY <1>7, NextMessageEffect DEF Crash, Restart, TypeInv, TypeOK, Idle
  <2> QED
    BY <2>1 DEF Tallied
<1>8. CASE UNCHANGED worker
  BY <1>8 DEF TallyKeptBy
<1> QED
  BY <1>1, <1>2, <1>3, <1>4, <1>5, <1>6, <1>7, <1>8 DEF VoteConsumer

\* Every step is one of a consumer, or leaves the consumers and what they
\* publish alone.
LEMMA WhoSteps ==
  ASSUME [Next]_vars
  PROVE  /\ UNCHANGED <<ballot, selection>> /\ votes \subseteq votes'
         /\ \/ \E i \in Instances : VoteConsumer(i) \/ Crash(i) \/ Restart(i)
            \/ UNCHANGED worker
         /\ (\A i \in Instances : ~SaveVoteToMongo(i)) => UNCHANGED votes
         /\ (\A i \in Instances : ~EmitResultsUpdated(i)) => UNCHANGED updates
<1>1. CASE \E i \in Instances : VoteConsumer(i)
  <2>1. PICK i \in Instances : VoteConsumer(i)
    BY <1>1
  <2>2. CASE SaveVoteToMongo(i)
    BY <2>1, <2>2 DEF SaveVoteToMongo, ingress, results
  <2>3. CASE ~SaveVoteToMongo(i)
    BY <2>1, <2>3 DEF VoteConsumer, FetchMessage, CommitMessages, GetSessionByID,
       CheckDuplicateVote, LookupQuestion, GetVoteCountsForQuestion, GetUniqueVotersCount,
       CacheResultsInRedis, EmitResultsUpdated, ingress, results
  <2> QED
    BY <2>2, <2>3
<1>2. CASE ~(\E i \in Instances : VoteConsumer(i))
  BY <1>2 DEF Next, Environment, vars, ingress, results, SubmitVoteHandler, Rebalance, Rejoin,
     Crash, Restart, LockExpires, ResultsExpire
<1> QED
  BY <1>1, <1>2

\* An event repeats a tally, and a stored vote stays stored.
LEMMA PublishedStep ==
  ASSUME BoxInv, PublishedInv, [Next]_vars
  PROVE  PublishedInv'
<1>1. UNCHANGED ballot /\ votes \subseteq votes'
  BY WhoSteps
<1>2. CASE UNCHANGED updates
  BY <1>1, <1>2 DEF PublishedInv
<1>3. ASSUME NEW i \in Instances, EmitResultsUpdated(i) PROVE PublishedInv'
  <2>1. PICK t, o : t = worker[i].tally /\ updates' = Produce(updates, t, o)
    BY <1>3 DEF EmitResultsUpdated, ProduceResults
  <2>2. t \in Results /\ updates \in Seq(Results)
    BY <1>3, <2>1 DEF EmitResultsUpdated, BoxInv, TypeInv, TypeOK, HandsFull
  <2>3. \A v \in t.votes : v \in votes /\ ballot[v].question = t.question
    BY <1>3, <2>1 DEF EmitResultsUpdated, BoxInv, TallyInv, Counts
  <2>4. \A n \in 1..Len(updates') :
          \/ n \in 1..Len(updates) /\ updates'[n] = updates[n]
          \/ n > Len(updates) /\ updates'[n] = t
    BY <2>1, <2>2, ProduceAt
  <2> QED
    BY <1>1, <2>3, <2>4 DEF PublishedInv
<1> QED
  BY <1>2, <1>3, WhoSteps

LEMMA EventInit == Init => EventInv
<1> SUFFICES ASSUME Init PROVE EventInv
  OBVIOUS
<1>1. Len(updates) = 0 /\ \A i \in Instances : worker[i].pc = "read"
  BY DEF Init, Idle
<1> QED
  BY <1>1 DEF EventInv, PublishedInv, FreshTally, VotesMonotone, Tallied

LEMMA EventStep ==
  ASSUME OneInstance, BoxInv, EventInv, [Next]_vars
  PROVE  EventInv'
<1>1. /\ UNCHANGED ballot /\ votes \subseteq votes'
      /\ \A i \in Instances : TallyTaken(i) \/ VotersTaken(i) \/ TallyKeptBy(i)
                                \/ worker'[i].pc \notin Tallied
  BY WhoSteps, TallyCases DEF OneInstance
<1>2. FreshTally'
  <2> SUFFICES ASSUME NEW i \in Instances, worker'[i].pc \in Tallied
               PROVE  (worker[i].tally.votes = VotesOn(worker[i].tally.question))'
    BY DEF FreshTally
  <2>1. UNCHANGED votes
    <3>1. ~SaveVoteToMongo(i)
      <4>1. SaveVoteToMongo(i) => worker'[i].pc \in {"read", "session", "lookup"}
        BY GotoEffect, ProcessVoteFailedEffect DEF SaveVoteToMongo, BoxInv
      <4> QED
        BY <4>1 DEF Tallied
    <3> QED
      BY <3>1, WhoSteps DEF OneInstance
  <2>2. \A q : VotesOn(q)' = VotesOn(q)
    BY <1>1, <2>1 DEF VotesOn
  <2>3. PICK q : q = worker'[i].tally.question
    OBVIOUS
  <2>4. worker'[i].tally.votes = VotesOn(q)
    <3>1. CASE TallyTaken(i)
      BY <2>3, <3>1 DEF TallyTaken
    <3>2. CASE VotersTaken(i) \/ TallyKeptBy(i)
      BY <2>3, <3>2 DEF EventInv, FreshTally, VotersTaken, TallyKeptBy, Tallied
    <3> QED
      BY <1>1, <3>1, <3>2
  <2> QED
    BY <2>2, <2>3, <2>4
<1>3. PublishedInv'
  BY PublishedStep DEF EventInv
<1>4. CASE UNCHANGED updates
  BY <1>2, <1>4, <1>3 DEF EventInv, VotesMonotone
<1>5. ASSUME NEW i \in Instances, EmitResultsUpdated(i) PROVE EventInv'
  <2>1. PICK t, o : t = worker[i].tally /\ updates' = Produce(updates, t, o)
    BY <1>5 DEF EmitResultsUpdated, ProduceResults
  <2>2. t \in Results /\ updates \in Seq(Results)
    BY <1>5, <2>1 DEF EmitResultsUpdated, BoxInv, TypeInv, TypeOK, HandsFull
  <2>3. t.votes = VotesOn(t.question)
    BY <1>5, <2>1 DEF EmitResultsUpdated, EventInv, FreshTally, Tallied
  <2>4. \A n \in 1..Len(updates') :
          \/ n \in 1..Len(updates) /\ updates'[n] = updates[n]
          \/ n > Len(updates) /\ updates'[n] = t
    BY <2>1, <2>2, ProduceAt
  <2>5. \A n \in 1..Len(updates) : updates[n].question = t.question => updates[n].votes \subseteq t.votes
    BY <2>3 DEF EventInv, PublishedInv, VotesOn
  <2>6. Len(updates) \in Nat /\ Len(updates') \in Nat
    BY <2>1, <2>2, ProduceType
  <2>7. VotesMonotone'
    <3> SUFFICES ASSUME NEW m \in 1..Len(updates'), NEW n \in 1..Len(updates'), m < n,
                        updates'[m].question = updates'[n].question
                 PROVE  updates'[m].votes \subseteq updates'[n].votes
      BY DEF VotesMonotone
    <3>1. CASE n \in 1..Len(updates)
      <4>1. m \in 1..Len(updates) /\ updates'[m] = updates[m] /\ updates'[n] = updates[n]
        BY <2>4, <2>6, <3>1
      <4> QED
        BY <3>1, <4>1 DEF EventInv, VotesMonotone
    <3>2. CASE n > Len(updates)
      <4>1. updates'[n] = t
        BY <2>4, <2>6, <3>2
      <4> QED
        BY <2>4, <2>5, <4>1
    <3> QED
      BY <2>6, <3>1, <3>2
  <2> QED
    BY <1>2, <1>3, <2>7 DEF EventInv
<1> QED
  BY <1>4, <1>5, WhoSteps

LEMMA EventInvariant ==
  ASSUME OneInstance
  PROVE  Spec => []EventInv
<1>1. BoxInv /\ EventInv /\ [Next]_vars => EventInv'
  BY EventStep
<1> QED
  BY <1>1, EventInit, BoxInvariant, PTL DEF Spec

-----------------------------------------------------------------------------
(* The groups an event was computed from: some of those of its votes, and    *)
(* all of them if no cursor can fail.                                        *)

\* The groups of a tally stay those of its votes.
LEMMA TallyReadStep ==
  ASSUME GroupsInv, UNCHANGED selection, NEW i \in Instances, worker'[i].pc \in Tallied,
         TallyTaken(i) \/ VotersTaken(i) \/ TallyKeptBy(i)
  PROVE  ReadOf(worker'[i].tally)
<1>1. CASE TallyTaken(i)
  <2>1. PICK q, g : /\ g \in GroupsRead(Groups(VotesOn(q), selection))
                    /\ worker'[i].tally = [question |-> q, votes |-> VotesOn(q),
                                           groups |-> g, voters |-> {}]
    BY <1>1 DEF TallyTaken
  <2> QED
    BY <2>1 DEF GroupsRead, ReadOf, Complete
<1>2. CASE VotersTaken(i) \/ TallyKeptBy(i)
  <2>1. /\ worker[i].pc \in Tallied /\ worker'[i].tally.groups = worker[i].tally.groups
        /\ worker'[i].tally.votes = worker[i].tally.votes
    BY <1>2 DEF VotersTaken, TallyKeptBy, Tallied
  <2> QED
    BY <2>1 DEF GroupsInv, ReadOf, Complete
<1> QED
  BY <1>1, <1>2

LEMMA GroupsStep ==
  ASSUME BoxInv, GroupsInv, [Next]_vars
  PROVE  GroupsInv'
<1>1. UNCHANGED selection
  BY WhoSteps
<1>2. \A i \in Instances : TallyTaken(i) \/ VotersTaken(i) \/ TallyKeptBy(i)
                              \/ worker'[i].pc \notin Tallied
  <2> SUFFICES ASSUME NEW i \in Instances
               PROVE  TallyTaken(i) \/ VotersTaken(i) \/ TallyKeptBy(i)
                        \/ worker'[i].pc \notin Tallied
    OBVIOUS
  <2>1. ASSUME NEW j \in Instances, j # i, VoteConsumer(j) \/ Crash(j) \/ Restart(j)
        PROVE  TallyKeptBy(i)
    <3>1. worker'[i] = worker[i]
      BY <2>1, OneWorkerSteps DEF BoxInv
    <3> QED
      BY <3>1 DEF TallyKeptBy
  <2> QED
    BY <2>1, WhoSteps, TallyCases
<1>3. \A i \in Instances : worker'[i].pc \in Tallied => ReadOf(worker'[i].tally)
  BY <1>1, <1>2, TallyReadStep
<1>4. ASSUME NEW n \in 1..Len(updates') PROVE ReadOf(updates'[n])
  <2>1. CASE UNCHANGED updates
    BY <1>4, <2>1 DEF GroupsInv
  <2>2. ASSUME NEW i \in Instances, EmitResultsUpdated(i)
        PROVE  ReadOf(updates'[n])
    <3>1. PICK t, o : t = worker[i].tally /\ updates' = Produce(updates, t, o)
      BY <2>2 DEF EmitResultsUpdated, ProduceResults
    <3>2. t \in Results /\ updates \in Seq(Results)
      BY <2>2, <3>1 DEF EmitResultsUpdated, BoxInv, TypeInv, TypeOK, HandsFull
    <3>3. ReadOf(t)
      BY <2>2, <3>1 DEF EmitResultsUpdated, GroupsInv, Tallied
    <3>4. (n \in 1..Len(updates) /\ updates'[n] = updates[n]) \/ updates'[n] = t
      BY <1>4, <3>1, <3>2, ProduceAt
    <3> QED
      BY <3>3, <3>4 DEF GroupsInv
  <2> QED
    BY <2>1, <2>2, WhoSteps
<1>5. /\ \A n \in 1..Len(updates') : ReadOf(updates[n])'
      /\ \A i \in Instances : worker'[i].pc \in Tallied => ReadOf(worker[i].tally)'
  BY <1>1, <1>3, <1>4 DEF ReadOf, Complete
<1> QED
  BY <1>5 DEF GroupsInv

LEMMA GroupsInvariant == Spec => []GroupsInv
<1>1. Init => GroupsInv
  <2> SUFFICES ASSUME Init PROVE GroupsInv
    OBVIOUS
  <2>1. Len(updates) = 0 /\ \A i \in Instances : worker[i].pc = "read"
    BY DEF Init, Idle
  <2> QED
    BY <2>1 DEF GroupsInv, Tallied
<1>2. BoxInv /\ GroupsInv /\ [Next]_vars => GroupsInv'
  BY GroupsStep
<1> QED
  BY <1>1, <1>2, BoxInvariant, PTL DEF Spec

-----------------------------------------------------------------------------
(* The voters of an event.  While MongoDB answers and every participant id   *)
(* parses, they are the participants of the votes it counts.                 *)

MongoAnswers == \A o \in FaultOutcomes : <<"mongo", o>> \notin Faults

VotersOf(docs) == {ballot[v].participant : v \in docs}

VotersInv ==
  /\ \A n \in 1..Len(updates) : updates[n].voters = VotersOf(updates[n].votes)
  /\ \A i \in Instances : worker[i].pc \in {"cacheResults", "emit"} =>
       worker[i].tally.voters = VotersOf(worker[i].tally.votes)

LEMMA VotersInit == Init => VotersInv
<1> SUFFICES ASSUME Init PROVE VotersInv
  OBVIOUS
<1>1. Len(updates) = 0 /\ \A i \in Instances : worker[i].pc = "read"
  BY DEF Init, Idle
<1> QED
  BY <1>1 DEF VotersInv

\* The voters counted are those of the votes counted.
LEMMA VotersTakenMatch ==
  ASSUME OneInstance, MongoAnswers, HexParticipants = Participants,
         BoxInv, EventInv, NEW i \in Instances, VotersTaken(i)
  PROVE  worker'[i].tally.voters = VotersOf(worker'[i].tally.votes)
<1>1. PICK q : q = worker[i].tally.question
  OBVIOUS
<1>2. worker'[i].tally.voters = {ObjectIDFromHex(ballot[v].participant) : v \in VotesOn(q)}
  BY <1>1 DEF VotersTaken, MongoAnswers, Outcome
<1>3. worker'[i].tally.votes = VotesOn(q)
  BY <1>1 DEF VotersTaken, EventInv, FreshTally, Tallied
<1>4. \A v \in VotesOn(q) : ObjectIDFromHex(ballot[v].participant) = ballot[v].participant
  BY DEF VotesOn, ObjectIDFromHex, BoxInv, TypeInv, TypeOK, Ballots
<1> QED
  BY <1>2, <1>3, <1>4 DEF VotersOf

LEMMA VotersStep ==
  ASSUME OneInstance, MongoAnswers, HexParticipants = Participants,
         BoxInv, EventInv, VotersInv, [Next]_vars
  PROVE  VotersInv'
<1>1. /\ UNCHANGED ballot
      /\ \A i \in Instances : TallyTaken(i) \/ VotersTaken(i) \/ TallyKeptBy(i)
                                \/ worker'[i].pc \notin Tallied
  BY WhoSteps, TallyCases DEF OneInstance
<1>2. \A docs : VotersOf(docs)' = VotersOf(docs)
  BY <1>1 DEF VotersOf
<1>3. ASSUME NEW i \in Instances, worker'[i].pc \in {"cacheResults", "emit"}
      PROVE  worker'[i].tally.voters = VotersOf(worker'[i].tally.votes)
  <2>1. CASE VotersTaken(i)
    BY <2>1, VotersTakenMatch
  <2>2. CASE TallyKeptBy(i)
    BY <1>3, <2>2 DEF VotersInv, TallyKeptBy
  <2> QED
    BY <1>1, <1>3, <2>1, <2>2 DEF TallyTaken, Tallied
<1>4. ASSUME NEW n \in 1..Len(updates') PROVE updates'[n].voters = VotersOf(updates'[n].votes)
  <2>1. CASE UNCHANGED updates
    BY <1>4, <2>1 DEF VotersInv
  <2>2. ASSUME NEW i \in Instances, EmitResultsUpdated(i)
        PROVE  updates'[n].voters = VotersOf(updates'[n].votes)
    <3>1. PICK t, o : t = worker[i].tally /\ updates' = Produce(updates, t, o)
      BY <2>2 DEF EmitResultsUpdated, ProduceResults
    <3>2. t \in Results /\ updates \in Seq(Results)
      BY <2>2, <3>1 DEF EmitResultsUpdated, BoxInv, TypeInv, TypeOK, HandsFull
    <3>3. t.voters = VotersOf(t.votes)
      BY <2>2, <3>1 DEF EmitResultsUpdated, VotersInv
    <3>4. (n \in 1..Len(updates) /\ updates'[n] = updates[n]) \/ updates'[n] = t
      BY <1>4, <3>1, <3>2, ProduceAt
    <3> QED
      BY <3>3, <3>4 DEF VotersInv
  <2> QED
    BY <2>1, <2>2, WhoSteps
<1>5. \A n \in 1..Len(updates') : updates'[n].voters = VotersOf(updates[n].votes)'
  BY <1>1, <1>4 DEF VotersOf
<1>6. \A i \in Instances : worker'[i].pc \in {"cacheResults", "emit"} =>
        worker'[i].tally.voters = VotersOf(worker[i].tally.votes)'
  BY <1>1, <1>3 DEF VotersOf
<1> QED
  BY <1>5, <1>6 DEF VotersInv

LEMMA VotersInvariant ==
  ASSUME OneInstance, MongoAnswers, HexParticipants = Participants
  PROVE  Spec => [](EventInv /\ VotersInv)
<1>1. BoxInv /\ EventInv /\ [Next]_vars => EventInv'
  BY EventStep
<1>2. BoxInv /\ EventInv /\ VotersInv /\ [Next]_vars => VotersInv'
  BY VotersStep
<1> QED
  BY <1>1, <1>2, EventInit, VotersInit, BoxInvariant, PTL DEF Spec

\* The published voters count is the number of participants whose votes the
\* event counts, with one instance, while MongoDB answers and every participant
\* id is an ObjectID.
THEOREM VotersCountUniqueHolds ==
  ASSUME OneInstance, MongoAnswers, HexParticipants = Participants
  PROVE  Spec => []VotersCountUnique
<1>1. VotersInv => VotersCountUnique
  BY DEF VotersInv, VotersCountUnique, VotersOf
<1> QED
  BY <1>1, VotersInvariant, PTL

-----------------------------------------------------------------------------
(* No option gets more votes than there are voters. *)

\* Only finitely many votes are ever stored.
FiniteVotes == IsFiniteSet(votes)

LEMMA FiniteVotesInvariant == Spec => []FiniteVotes
<1>1. Init => FiniteVotes
  BY FS_EmptySet DEF Init, FiniteVotes
<1>2. FiniteVotes /\ [Next]_vars => FiniteVotes'
  <2> SUFFICES ASSUME FiniteVotes, [Next]_vars PROVE FiniteVotes'
    OBVIOUS
  <2>1. CASE UNCHANGED votes
    BY <2>1 DEF FiniteVotes
  <2>2. ASSUME NEW i \in Instances, SaveVoteToMongo(i) PROVE FiniteVotes'
    <3>1. votes' = votes \/ votes' = votes \cup {worker[i].vote}
      BY <2>2 DEF SaveVoteToMongo
    <3> QED
      BY <3>1, FS_AddElement DEF FiniteVotes
  <2> QED
    BY <2>1, <2>2, WhoSteps
<1> QED
  BY <1>1, <1>2, PTL DEF Spec

\* $unwind pairs a document with the positions of its array.
LEMMA UnwindPairs ==
  ASSUME NEW docs, NEW sel, NEW d \in Unwind(docs, sel)
  PROVE  d[1] \in docs /\ d[2] \in DOMAIN sel[d[1]] /\ d = <<d[1], d[2]>>
BY DEF Unwind

\* Finitely many documents have finitely many people behind them.
LEMMA PeopleFinite ==
  ASSUME NEW docs, IsFiniteSet(docs), NEW person
  PROVE  /\ IsFiniteSet({person[v] : v \in docs})
         /\ Cardinality({person[v] : v \in docs}) \in Nat
<1> DEFINE g == [v \in docs |-> person[v]]
<1>1. g \in Surjection(docs, {person[v] : v \in docs})
  BY DEF Surjection
<1>2. IsFiniteSet({person[v] : v \in docs})
  <2> HIDE DEF g
  <2> QED
    BY <1>1, FS_Surjection
<1> QED
  BY <1>2, FS_CardinalityType

\* If different documents have different people behind them, and none names an
\* option twice, then an option gets at most as many votes as there are people.
LEMMA CountWithinPeople ==
  ASSUME NEW docs, IsFiniteSet(docs), NEW sel, NEW option, NEW person,
         \A v, w \in docs : person[v] = person[w] => v = w,
         Repeating(docs, sel) = {}
  PROVE  GroupCount(docs, sel, option) <= Cardinality({person[v] : v \in docs})
<1> DEFINE S == {d \in Unwind(docs, sel) : sel[d[1]][d[2]] = option}
           people == {person[v] : v \in docs}
           f == [d \in S |-> person[d[1]]]
<1>1. IsFiniteSet(people)
  BY PeopleFinite
<1>2. f \in Injection(S, people)
  <2>1. f \in [S -> people]
    BY UnwindPairs
  <2>2. ASSUME NEW d \in S, NEW e \in S, f[d] = f[e] PROVE d = e
    <3>1. /\ d[1] \in docs /\ d[2] \in DOMAIN sel[d[1]] /\ d = <<d[1], d[2]>>
          /\ e[1] \in docs /\ e[2] \in DOMAIN sel[e[1]] /\ e = <<e[1], e[2]>>
      BY UnwindPairs
    <3>2. d[1] = e[1]
      BY <2>2, <3>1
    <3>3. sel[d[1]][d[2]] = sel[d[1]][e[2]]
      BY <3>2
    <3>4. d[2] = e[2]
      BY <3>1, <3>2, <3>3 DEF Repeating
    <3> QED
      BY <3>1, <3>2, <3>4
  <2> HIDE DEF f, S, people
  <2> QED
    BY <2>1, <2>2 DEF Injection, IsInjective
<1> HIDE DEF f, people
<1>3. Cardinality(S) <= Cardinality(people)
  BY <1>1, <1>2, FS_Injection
<1> QED
  BY <1>3 DEF GroupCount, people

\* No option of an event has more votes than the event reports voters, unless a
\* counted vote names an option twice or a counted ballot's lock lapsed.
THEOREM OptionWithinVotersHolds ==
  ASSUME OneInstance, MongoAnswers, HexParticipants = Participants
  PROVE  Spec => []OptionWithinVoters
<1>1. BoxInv /\ EventInv /\ VotersInv /\ FiniteVotes /\ OneVotePerLock => OptionWithinVoters
  <2> SUFFICES ASSUME BoxInv, EventInv, VotersInv, FiniteVotes, OneVotePerLock,
                      NEW n \in 1..Len(updates), NEW docs, docs = updates[n].votes,
                      Repeating(docs, selection) = {}, \A v \in docs : ballot[v] \notin lapsed,
                      NEW option \in OptionIndices(NumOptions)
               PROVE  OptionCount(updates[n], selection, option) <= Cardinality(updates[n].voters)
    BY DEF OptionWithinVoters
  <2>1. docs \subseteq votes /\ \A v \in docs : ballot[v].question = updates[n].question
    BY DEF EventInv, PublishedInv
  <2>2. IsFiniteSet(docs)
    BY <2>1, FS_Subset DEF FiniteVotes
  <2>0. PICK person : person = [v \in docs |-> ballot[v].participant]
    OBVIOUS
  <2>3. \A v, w \in docs : person[v] = person[w] => v = w
    <3> SUFFICES ASSUME NEW v \in docs, NEW w \in docs, person[v] = person[w] PROVE v = w
      OBVIOUS
    <3>1. ballot[v] \in Ballots /\ ballot[w] \in Ballots
      BY <2>1 DEF BoxInv, TypeInv, TypeOK
    <3>2. ballot[v] = ballot[w]
      BY <2>0, <2>1, <3>1 DEF Ballots
    <3> QED
      BY <2>1, <3>2 DEF OneVotePerLock
  <2>4. PICK voters : voters = {person[v] : v \in docs}
    OBVIOUS
  <2>5. updates[n].voters = voters
    BY <2>0, <2>4 DEF VotersInv, VotersOf
  <2>6. GroupCount(docs, selection, option) <= Cardinality(voters)
    <3>1. IsFiniteSet(docs) /\ Repeating(docs, selection) = {}
      BY <2>2
    <3>2. GroupCount(docs, selection, option) <= Cardinality({person[v] : v \in docs})
      BY ONLY <2>3, <3>1, CountWithinPeople
    <3> QED
      BY <2>4, <3>2
  <2>7. Cardinality(voters) \in Nat
    <3>1. Cardinality({person[v] : v \in docs}) \in Nat
      BY ONLY <2>2, PeopleFinite
    <3> QED
      BY <2>4, <3>1
  <2>8. OptionCount(updates[n], selection, option) \in {0, GroupCount(docs, selection, option)}
    BY DEF OptionCount
  <2> QED
    BY <2>5, <2>6, <2>7, <2>8
<1> QED
  BY <1>1, BoxInvariant, VotersInvariant, FiniteVotesInvariant, OneVotePerLockHolds, PTL

-----------------------------------------------------------------------------
(* Every stored vote is counted.  A call whose effect is lost may leave a    *)
(* vote out of the results, so the only failures allowed are cursors that    *)
(* break off, replies that are lost and requests that are repeated, the      *)
(* latter two of Kafka and Redis only: a vote whose insert reports an error  *)
(* is retried, meets its own lock and is given up before it is counted.      *)

OnlyLostReplies ==
  Faults \subseteq ({"kafka", "redis"} \X {"late", "dup"}) \cup {<<"cursor", "error">>}

\* What ResultsComplete says of one question.
Settled(q) ==
  \E n \in 0..Len(updates) :
    /\ \A m \in (n + 1)..Len(updates) : updates[m].question # q
    /\ IF n = 0 THEN VotesOn(q) = {} /\ resultsCache[q] = None
       ELSE /\ updates[n].question = q
            /\ updates[n].votes = VotesOn(q)
            /\ resultsCache[q] \in {None, updates[n]}

\* A consumer has stored a vote on q and not yet announced it.
Counting(i, q) == worker[i].pc \in SavedSteps /\ ballot[worker[i].vote].question = q

SettledInv == \A q \in Questions : Settled(q) \/ \E i \in Instances : Counting(i, q)

TallyQuestion ==
  \A i \in Instances :
    /\ worker[i].pc \in Tallied \cup {"count"} => ballot[worker[i].vote].question \in Questions
    /\ worker[i].pc \in Tallied => worker[i].tally.question = ballot[worker[i].vote].question

CachedTally ==
  \A i \in Instances : worker[i].pc = "emit" =>
    resultsCache[worker[i].tally.question] \in {None, worker[i].tally}

CompleteInv == SettledInv /\ TallyQuestion /\ CachedTally

LEMMA CompleteInit == Init => CompleteInv
<1> SUFFICES ASSUME Init PROVE CompleteInv
  OBVIOUS
<1>1. /\ Len(updates) = 0 /\ votes = {} /\ \A q \in QuestionIDs : resultsCache[q] = None
      /\ \A i \in Instances : worker[i].pc = "read"
  BY DEF Init, Idle
<1>2. ASSUME NEW q \in Questions PROVE Settled(q)
  BY <1>1, PipelineAssumption DEF Settled, VotesOn
<1> QED
  BY <1>1, <1>2 DEF CompleteInv, SettledInv, TallyQuestion, CachedTally, Tallied

\* What no event and no new vote touches stays settled.
LEMMA SettledKept ==
  ASSUME NEW q, Settled(q), UNCHANGED updates, VotesOn(q)' = VotesOn(q),
         resultsCache'[q] \in {None, resultsCache[q]}
  PROVE  Settled(q)'
<1>1. PICK n \in 0..Len(updates) :
         /\ \A m \in (n + 1)..Len(updates) : updates[m].question # q
         /\ IF n = 0 THEN VotesOn(q) = {} /\ resultsCache[q] = None
            ELSE /\ updates[n].question = q
                 /\ updates[n].votes = VotesOn(q)
                 /\ resultsCache[q] \in {None, updates[n]}
  BY DEF Settled
<1>2. /\ n \in 0..Len(updates')
      /\ \A m \in (n + 1)..Len(updates') : updates'[m].question # q
      /\ IF n = 0 THEN VotesOn(q)' = {} /\ resultsCache'[q] = None
         ELSE /\ updates'[n].question = q
              /\ updates'[n].votes = VotesOn(q)'
              /\ resultsCache'[q] \in {None, updates'[n]}
  BY <1>1
<1> QED
  BY <1>2 DEF Settled

\* Calls report success, or have taken effect.
LEMMA LostRepliesOnly ==
  ASSUME OnlyLostReplies
  PROVE  /\ \A service \in {"mongo", "session"} : Outcome(service) = {"ok"}
         /\ \A service \in {"kafka", "redis"} : "error" \notin Outcome(service)
         /\ <<"process", "crash">> \notin Faults
<1>1. \A service, o : <<service, o>> \in Faults =>
        service = "cursor" \/ (service \in {"kafka", "redis"} /\ o \in {"late", "dup"})
  BY DEF OnlyLostReplies
<1>2. \A service, o : o \in Outcome(service) => o = "ok" \/ <<service, o>> \in Faults
  BY DEF Outcome
<1>3. \A service : "ok" \in Outcome(service)
  BY DEF Outcome
<1>4. \A service \in {"mongo", "session"} : Outcome(service) = {"ok"}
  <2> SUFFICES ASSUME NEW service \in {"mongo", "session"} PROVE Outcome(service) = {"ok"}
    OBVIOUS
  <2>1. service \notin {"kafka", "redis", "cursor"}
    OBVIOUS
  <2>2. \A o : o \in Outcome(service) => o = "ok"
    BY <1>1, <1>2, <2>1
  <2> QED
    BY <1>3, <2>2
<1>5. \A service \in {"kafka", "redis"} : "error" \notin Outcome(service)
  <2>1. "error" # "ok" /\ "error" \notin {"late", "dup"}
    OBVIOUS
  <2>2. \A service \in {"kafka", "redis"} : <<service, "error">> \notin Faults
    BY <1>1, <2>1
  <2> QED
    BY <1>2, <2>1, <2>2
<1>6. <<"process", "crash">> \notin Faults
  BY <1>1
<1> QED
  BY <1>4, <1>5, <1>6

\* A consumer step that publishes nothing, stores nothing and caches nothing
\* keeps CompleteInv, if the consumer goes on with its vote, or does not have
\* one that is stored.
LEMMA CompleteKept ==
  ASSUME OneInstance, BoxInv, CompleteInv, NEW i \in Instances,
         UNCHANGED <<ballot, updates, votes, resultsCache>>,
         \/ worker'[i].pc \notin SavedSteps /\ \A q \in Questions : ~Counting(i, q)
         \/ /\ worker[i].pc \in SavedSteps /\ worker'[i].pc \in SavedSteps \ {"emit"}
            /\ worker'[i].vote = worker[i].vote
            /\ worker'[i].pc \in Tallied \cup {"count"}
                 => ballot[worker[i].vote].question \in Questions
            /\ worker'[i].pc \in Tallied
                 => worker'[i].tally.question = ballot[worker[i].vote].question
  PROVE  CompleteInv'
<1>1. \A q \in Questions : Settled(q) => Settled(q)'
  BY SettledKept DEF VotesOn
<1>2. SettledInv'
  BY <1>1 DEF OneInstance, CompleteInv, SettledInv, Counting
<1>3. TallyQuestion' /\ CachedTally'
  BY DEF OneInstance, CompleteInv, TallyQuestion, CachedTally, Tallied, SavedSteps
<1> QED
  BY <1>2, <1>3 DEF CompleteInv

\* The steps before the insert have no stored vote in hand, before or after.
LEMMA BeforeSaveComplete ==
  ASSUME OneInstance, BoxInv, CompleteInv, NEW i \in Instances,
         \/ FetchMessage(i) \/ CommitMessages(i) \/ GetSessionByID(i)
         \/ CheckDuplicateVote(i) \/ Restart(i)
  PROVE  CompleteInv'
<1>1. UNCHANGED <<ballot, updates, votes, resultsCache>>
  BY DEF FetchMessage, CommitMessages, GetSessionByID, CheckDuplicateVote, Restart, ingress,
         results
<1>2. worker[i].pc \notin SavedSteps
  BY DEF FetchMessage, CommitMessages, GetSessionByID, CheckDuplicateVote, Restart, SavedSteps
<1>3. worker'[i].pc \in {"read", "commit", "session", "lock", "save"}
  <2>1. CASE FetchMessage(i) \/ CommitMessages(i)
    BY <2>1, ReadMessageEffect DEF BoxInv
  <2>2. CASE GetSessionByID(i) \/ CheckDuplicateVote(i) \/ Restart(i)
    BY <2>2, GotoEffect, NextMessageEffect, ProcessVoteFailedEffect
       DEF GetSessionByID, CheckDuplicateVote, Restart, BoxInv
  <2> QED
    BY <2>1, <2>2
<1> QED
  BY <1>1, <1>2, <1>3, CompleteKept DEF Counting, SavedSteps

\* A vote is stored, and announcing it is up to its consumer.
LEMMA SaveVoteToMongoComplete ==
  ASSUME OneInstance, OnlyLostReplies, BoxInv, CompleteInv, NEW i \in Instances,
         SaveVoteToMongo(i)
  PROVE  CompleteInv'
<1>0. PICK v : v = worker[i].vote
  OBVIOUS
<1>1. /\ votes' = votes \cup {v}
      /\ IF v \notin votes THEN Goto(i, "lookup")
         ELSE ProcessVoteFailed(i, "failed to save vote: %v")
  BY <1>0, LostRepliesOnly DEF SaveVoteToMongo, TakesEffect
<1>2. UNCHANGED <<ballot, updates, resultsCache>> /\ worker[i].pc = "save"
  BY DEF SaveVoteToMongo, ingress, results
<1>3. CASE v \notin votes
  <2>1. worker'[i].pc = "lookup" /\ worker'[i].vote = v
    BY <1>0, <1>1, <1>3, GotoEffect DEF BoxInv
  <2>2. \A q \in Questions : Settled(q)
    BY <1>2 DEF OneInstance, CompleteInv, SettledInv, Counting, SavedSteps
  <2>3. ASSUME NEW q \in Questions, ballot[v].question # q PROVE Settled(q)'
    <3>1. VotesOn(q)' = VotesOn(q)
      BY <1>1, <1>2, <2>3 DEF VotesOn
    <3> QED
      BY <1>2, <2>2, <3>1, SettledKept
  <2>4. ASSUME NEW q \in Questions, ballot[v].question = q PROVE Counting(i, q)'
    BY <1>2, <2>1, <2>4 DEF Counting, SavedSteps
  <2>5. SettledInv'
    BY <2>3, <2>4 DEF SettledInv
  <2>6. TallyQuestion' /\ CachedTally'
    BY <2>1 DEF OneInstance, TallyQuestion, CachedTally, Tallied
  <2> QED
    BY <2>5, <2>6 DEF CompleteInv
<1>4. CASE v \in votes
  <2>1. UNCHANGED votes
    BY <1>1, <1>4
  <2>2. worker'[i].pc \in {"read", "session"}
    BY <1>1, <1>4, ProcessVoteFailedEffect DEF BoxInv
  <2> QED
    BY <1>2, <2>1, <2>2, CompleteKept DEF Counting, SavedSteps
<1> QED
  BY <1>3, <1>4

\* From the insert to the voters, the consumer goes on with its vote; it gives
\* up only on a question the session does not have.
LEMMA CountingComplete ==
  ASSUME OneInstance, OnlyLostReplies, BoxInv, CompleteInv, NEW i \in Instances,
         LookupQuestion(i) \/ GetVoteCountsForQuestion(i) \/ GetUniqueVotersCount(i)
  PROVE  CompleteInv'
<1>1. UNCHANGED <<ballot, updates, votes, resultsCache>> /\ worker[i].pc \in SavedSteps
  BY DEF LookupQuestion, GetVoteCountsForQuestion, GetUniqueVotersCount, ingress, results, SavedSteps
<1>2. CASE LookupQuestion(i)
  <2>1. IF ballot[worker[i].vote].question \in Questions THEN Goto(i, "count") ELSE NextMessage(i)
    BY <1>2, LostRepliesOnly DEF LookupQuestion
  <2>2. CASE ballot[worker[i].vote].question \in Questions
    BY <1>1, <2>1, <2>2, GotoEffect, CompleteKept DEF BoxInv, SavedSteps, Tallied
  <2>3. CASE ballot[worker[i].vote].question \notin Questions
    BY <1>1, <2>1, <2>3, NextMessageEffect, CompleteKept DEF BoxInv, SavedSteps, Counting
  <2> QED
    BY <2>2, <2>3
<1>3. CASE GetVoteCountsForQuestion(i)
  <2>1. worker[i].pc = "count" /\ worker'[i].pc = "voters"
    <3> DEFINE q == ballot[worker[i].vote].question
               t(g) == [question |-> q, votes |-> VotesOn(q), groups |-> g, voters |-> {}]
               r(g) == [worker[i] EXCEPT !.pc = "voters", !.tally = t(g)]
    <3>1. PICK g : worker' = [worker EXCEPT ![i] = r(g)] /\ worker[i].pc = "count"
      BY <1>3, LostRepliesOnly DEF GetVoteCountsForQuestion
    <3>2. r(g).pc = "voters"
      <4> HIDE DEF t
      <4> QED
        BY DEF BoxInv, TypeInv, TypeOK, Worker
    <3> HIDE DEF r
    <3> QED
      BY <3>1, <3>2 DEF BoxInv, TypeInv, TypeOK
  <2>2. TallyTaken(i)
    BY <1>3, <2>1, TallyCases DEF VoteConsumer, TallyTaken, VotersTaken, TallyKeptBy, Tallied
  <2>3. worker'[i].tally.question = ballot[worker[i].vote].question
    BY <2>2 DEF TallyTaken
  <2>4. ballot[worker[i].vote].question \in Questions
    BY <2>1 DEF CompleteInv, TallyQuestion
  <2>5. worker'[i].vote = worker[i].vote
    BY <2>2 DEF TallyTaken
  <2> QED
    BY <1>1, <2>1, <2>3, <2>4, <2>5, CompleteKept DEF SavedSteps
<1>4. CASE GetUniqueVotersCount(i)
  <2>1. worker[i].pc = "voters" /\ worker'[i].pc = "cacheResults"
    <3>1. PICK vs : worker' = [worker EXCEPT ![i] =
                       [@ EXCEPT !.pc = "cacheResults", !.tally.voters = vs]]
      BY <1>4 DEF GetUniqueVotersCount
    <3> QED
      BY <1>4, <3>1 DEF GetUniqueVotersCount, BoxInv, TypeInv, TypeOK, Worker
  <2>2. VotersTaken(i)
    BY <1>4, <2>1, TallyCases DEF VoteConsumer, TallyTaken, VotersTaken, TallyKeptBy, Tallied
  <2>3. /\ worker'[i].tally.question = ballot[worker[i].vote].question
        /\ ballot[worker[i].vote].question \in Questions
        /\ worker'[i].vote = worker[i].vote
    BY <2>1, <2>2 DEF VotersTaken, CompleteInv, TallyQuestion, Tallied
  <2> QED
    BY <1>1, <2>1, <2>3, CompleteKept DEF SavedSteps
<1> QED
  BY <1>2, <1>3, <1>4

\* The cache runs ahead of the topic by the tally in hand.
LEMMA CacheResultsComplete ==
  ASSUME OneInstance, OnlyLostReplies, BoxInv, CompleteInv, NEW i \in Instances,
         CacheResultsInRedis(i)
  PROVE  CompleteInv'
<1>0. PICK t : t = worker[i].tally
  OBVIOUS
<1>1. /\ resultsCache' = [resultsCache EXCEPT ![t.question] = t]
      /\ Goto(i, "emit") /\ worker[i].pc = "cacheResults"
      /\ UNCHANGED <<ballot, updates, votes>>
  BY <1>0, LostRepliesOnly DEF CacheResultsInRedis, TakesEffect, ingress
<1>2. /\ worker'[i].pc = "emit" /\ worker'[i].vote = worker[i].vote /\ worker'[i].tally = t
  BY <1>0, <1>1, GotoEffect DEF BoxInv
<1>3. t.question = ballot[worker[i].vote].question /\ t.question \in Questions
  BY <1>0, <1>1 DEF CompleteInv, TallyQuestion, Tallied
<1>4. t.question \in QuestionIDs /\ resultsCache \in [QuestionIDs -> Results \cup {None}]
  BY <1>3, PipelineAssumption DEF BoxInv, TypeInv, TypeOK
<1>5. ASSUME NEW q \in Questions, q # t.question PROVE Settled(q)'
  <2>1. Settled(q)
    BY <1>1, <1>3, <1>5 DEF OneInstance, CompleteInv, SettledInv, Counting
  <2>2. VotesOn(q)' = VotesOn(q)
    BY <1>1 DEF VotesOn
  <2>3. resultsCache'[q] = resultsCache[q]
    BY <1>1, <1>4, <1>5, PipelineAssumption
  <2> QED
    BY <1>1, <2>1, <2>2, <2>3, SettledKept
<1>6. Counting(i, t.question)'
  BY <1>1, <1>2, <1>3 DEF Counting, SavedSteps
<1>7. SettledInv'
  BY <1>5, <1>6 DEF SettledInv
<1>8. resultsCache'[t.question] = t
  BY <1>1, <1>4
<1>9. TallyQuestion' /\ CachedTally'
  BY <1>1, <1>2, <1>3, <1>8 DEF OneInstance, TallyQuestion, CachedTally
<1> QED
  BY <1>7, <1>9 DEF CompleteInv

\* The event settles its question and no other.
LEMMA EmitComplete ==
  ASSUME OneInstance, OnlyLostReplies, BoxInv, EventInv, CompleteInv, NEW i \in Instances,
         EmitResultsUpdated(i)
  PROVE  CompleteInv'
<1>0. PICK t, o : /\ t = worker[i].tally /\ o \in Outcome("kafka")
                  /\ updates' = Produce(updates, t, o)
  BY DEF EmitResultsUpdated, ProduceResults
<1>1. /\ NextMessage(i) /\ worker[i].pc = "emit"
      /\ UNCHANGED <<ballot, votes, resultsCache>>
  BY DEF EmitResultsUpdated, ingress
<1>2. o # "error" /\ t \in Results /\ updates \in Seq(Results)
  BY <1>0, <1>1, LostRepliesOnly DEF BoxInv, TypeInv, TypeOK, HandsFull
<1>3. /\ \A n \in 1..Len(updates') :
           \/ n \in 1..Len(updates) /\ updates'[n] = updates[n]
           \/ n > Len(updates) /\ updates'[n] = t
      /\ Len(updates') > Len(updates)
      /\ Len(updates) \in Nat /\ Len(updates') \in Nat
  BY <1>0, <1>2, ProduceAt, ProduceType
<1>4. /\ t.votes = VotesOn(t.question) /\ resultsCache[t.question] \in {None, t}
      /\ t.question = ballot[worker[i].vote].question
  BY <1>0, <1>1 DEF EventInv, FreshTally, CompleteInv, CachedTally, TallyQuestion, Tallied
<1>5. \A q : VotesOn(q)' = VotesOn(q)
  BY <1>1 DEF VotesOn
<1>6. ASSUME NEW q \in Questions, q = t.question PROVE Settled(q)'
  <2>1. PICK n : n = Len(updates')
    OBVIOUS
  <2>2. n \in 1..Len(updates') /\ n # 0 /\ updates'[n] = t
    BY <1>3, <2>1
  <2>3. \A m \in (n + 1)..Len(updates') : updates'[m].question # q
    BY <1>3, <2>1
  <2>4. t.votes = VotesOn(q)' /\ resultsCache'[q] \in {None, t}
    BY <1>1, <1>4, <1>5, <1>6
  <2>5. n \in 0..Len(updates')
    BY <2>2
  <2>6. /\ updates'[n].question = q /\ updates'[n].votes = VotesOn(q)'
        /\ resultsCache'[q] \in {None, updates'[n]}
    BY <1>6, <2>2, <2>4
  <2> QED
    BY <2>2, <2>3, <2>5, <2>6 DEF Settled
<1>7. ASSUME NEW q \in Questions, q # t.question PROVE Settled(q)'
  <2>1. Settled(q)
    BY <1>1, <1>4, <1>7 DEF OneInstance, CompleteInv, SettledInv, Counting
  <2>2. PICK n \in 0..Len(updates) :
          /\ \A m \in (n + 1)..Len(updates) : updates[m].question # q
          /\ IF n = 0 THEN VotesOn(q) = {} /\ resultsCache[q] = None
             ELSE /\ updates[n].question = q
                  /\ updates[n].votes = VotesOn(q)
                  /\ resultsCache[q] \in {None, updates[n]}
    BY <2>1 DEF Settled
  <2>3. ASSUME NEW m \in (n + 1)..Len(updates') PROVE updates'[m].question # q
    <3>1. m \in 1..Len(updates')
      BY <1>3
    <3>2. CASE m \in 1..Len(updates) /\ updates'[m] = updates[m]
      BY <2>2, <3>2
    <3>3. CASE updates'[m] = t
      BY <1>7, <3>3
    <3> QED
      BY <1>3, <3>1, <3>2, <3>3
  <2>4. n # 0 => n \in 1..Len(updates')
    BY <1>3
  <2>5. n # 0 => updates'[n] = updates[n]
    BY <1>3, <2>4
  <2>6. n \in 0..Len(updates')
    BY <1>3
  <2>7. IF n = 0 THEN VotesOn(q)' = {} /\ resultsCache'[q] = None
        ELSE /\ updates'[n].question = q
             /\ updates'[n].votes = VotesOn(q)'
             /\ resultsCache'[q] \in {None, updates'[n]}
    BY <1>1, <1>5, <2>2, <2>5
  <2> QED
    BY <2>3, <2>6, <2>7 DEF Settled
<1>8. SettledInv'
  BY <1>6, <1>7 DEF SettledInv
<1>9. worker'[i].pc = "read"
  BY <1>1, NextMessageEffect DEF BoxInv
<1>10. TallyQuestion' /\ CachedTally'
  BY <1>9 DEF OneInstance, TallyQuestion, CachedTally, Tallied
<1> QED
  BY <1>8, <1>10 DEF CompleteInv

\* What the environment does to the cache is to empty it.
LEMMA ElsewhereComplete ==
  ASSUME BoxInv, CompleteInv, UNCHANGED <<ballot, updates, votes, worker>>,
         \A q \in QuestionIDs : resultsCache'[q] \in {None, resultsCache[q]}
  PROVE  CompleteInv'
<1>1. \A q \in Questions : Settled(q) => Settled(q)'
  BY SettledKept, PipelineAssumption DEF VotesOn
<1>2. SettledInv' /\ TallyQuestion'
  BY <1>1 DEF CompleteInv, SettledInv, TallyQuestion, Counting
<1>3. \A i \in Instances : worker[i].pc = "emit" => worker[i].tally.question \in QuestionIDs
  BY DEF BoxInv, TypeInv, HandsFull, Results
<1>4. CachedTally'
  BY <1>3 DEF CompleteInv, CachedTally
<1> QED
  BY <1>2, <1>4 DEF CompleteInv

LEMMA CompleteStep ==
  ASSUME OneInstance, OnlyLostReplies, BoxInv, EventInv, CompleteInv, [Next]_vars
  PROVE  CompleteInv'
<1>1. ASSUME NEW i \in Instances, VoteConsumer(i) PROVE CompleteInv'
  BY <1>1, BeforeSaveComplete, SaveVoteToMongoComplete, CountingComplete, CacheResultsComplete,
     EmitComplete DEF VoteConsumer
<1>2. ASSUME NEW i \in Instances, Crash(i) \/ Restart(i) PROVE CompleteInv'
  BY <1>2, LostRepliesOnly, BeforeSaveComplete DEF Crash
<1>3. ASSUME NEW q \in QuestionIDs, ResultsExpire(q) PROVE CompleteInv'
  <2>1. UNCHANGED <<ballot, updates, votes, worker>>
    BY <1>3 DEF ResultsExpire, ingress
  <2>2. \A p \in QuestionIDs : resultsCache'[p] \in {None, resultsCache[p]}
    BY <1>3 DEF ResultsExpire, BoxInv, TypeInv, TypeOK
  <2> QED
    BY <2>1, <2>2, ElsewhereComplete
<1>4. CASE UNCHANGED <<ballot, updates, votes, worker, resultsCache>>
  BY <1>4, ElsewhereComplete
<1> QED
  BY <1>1, <1>2, <1>3, <1>4 DEF Next, Environment, vars, ingress, results, SubmitVoteHandler,
     Rebalance, Rejoin, LockExpires

\* When the consumer of a single instance has nothing left to do, the last
\* event of each question counts every vote stored on it and the cache holds
\* that event, if anything, provided no call is refused and no process dies.
THEOREM ResultsCompleteHolds ==
  ASSUME OneInstance, OnlyLostReplies
  PROVE  Spec => []ResultsComplete
<1>1. BoxInv /\ EventInv /\ CompleteInv /\ [Next]_vars => CompleteInv'
  BY CompleteStep
<1>2. BoxInv /\ GroupsInv /\ CompleteInv => ResultsComplete
  <2> SUFFICES ASSUME BoxInv, GroupsInv, CompleteInv, InProcess = {} PROVE
                 \A q \in Questions : Settled(q)
    BY DEF ResultsComplete, Settled, VotesOn, GroupsInv, ReadOf
  <2>1. ASSUME NEW i \in Instances PROVE worker[i].pc \notin SavedSteps
    <3>1. worker[i].vote = None
      BY DEF InProcess
    <3> QED
      BY <3>1, PipelineAssumption DEF BoxInv, TypeInv, HandsFull, SavedSteps, Steps
  <2> QED
    BY <2>1 DEF CompleteInv, SettledInv, Counting
<1> QED
  BY <1>1, <1>2, CompleteInit, BoxInvariant, EventInvariant, GroupsInvariant, PTL DEF Spec

-----------------------------------------------------------------------------
(* The numbers of an event agree with each other.  A sum over a set picks    *)
(* its elements one by one; it is the number of things counted under them,   *)
(* because a function that adds up these numbers exists, and only one does:  *)
(* of two, take the least set they disagree on.                              *)

\* The elements of D whose key is in s.
Under(D, key, s) == {d \in D : key[d] \in s}

\* A key more adds the elements with that key.
LEMMA UnderLess ==
  ASSUME NEW D, IsFiniteSet(D), NEW key, NEW s, NEW x \in s
  PROVE  /\ IsFiniteSet(Under(D, key, s)) /\ Cardinality(Under(D, key, s)) \in Nat
         /\ Cardinality(Under(D, key, s))
              = Cardinality({d \in D : key[d] = x}) + Cardinality(Under(D, key, s \ {x}))
<1> DEFINE A == {d \in D : key[d] = x}
           B == Under(D, key, s \ {x})
<1>1. Under(D, key, s) = A \cup B /\ A \cap B = {}
  BY DEF Under
<1>2. IsFiniteSet(A) /\ IsFiniteSet(B) /\ IsFiniteSet(Under(D, key, s))
  BY FS_Subset DEF Under
<1>3. Cardinality(A) \in Nat /\ Cardinality(B) \in Nat /\ Cardinality(Under(D, key, s)) \in Nat
  BY <1>2, FS_CardinalityType
<1>4. Cardinality(A \cup B) = Cardinality(A) + Cardinality(B) - Cardinality(A \cap B)
  <2> HIDE DEF A, B
  <2> QED
    BY <1>2, FS_Union
<1>5. Cardinality({}) = 0
  BY FS_EmptySet
<1>6. Cardinality(Under(D, key, s)) = Cardinality(A) + Cardinality(B)
  <2> HIDE DEF A, B
  <2>1. Cardinality(Under(D, key, s)) = Cardinality(A \cup B) /\ Cardinality(A \cap B) = 0
    BY ONLY <1>1, <1>5, Zenon
  <2> QED
    BY <1>3, <1>4, <2>1
<1> QED
  BY <1>2, <1>3, <1>6

LEMMA UnderNothing ==
  ASSUME NEW D, NEW key
  PROVE  Cardinality(Under(D, key, {})) = 0
BY FS_EmptySet DEF Under

\* A function that adds up the sizes of the keys, one by one,
AddsUp(iter, size, S) ==
  iter = [s \in SUBSET S |->
            IF s = {} THEN 0
            ELSE LET x == CHOOSE x \in s : TRUE IN size[x] + iter[s \ {x}]]

\* exists: the number of elements under a set of keys;
LEMMA SumExists ==
  ASSUME NEW D, IsFiniteSet(D), NEW key, NEW S, NEW size,
         \A x \in S : size[x] = Cardinality({d \in D : key[d] = x})
  PROVE  AddsUp([s \in SUBSET S |-> Cardinality(Under(D, key, s))], size, S)
<1> DEFINE h == [s \in SUBSET S |-> Cardinality(Under(D, key, s))]
           k(s) == IF s = {} THEN 0
                   ELSE LET x == CHOOSE x \in s : TRUE IN size[x] + h[s \ {x}]
<1>1. ASSUME NEW s \in SUBSET S PROVE h[s] = k(s)
  <2>1. CASE s = {}
    BY <2>1, UnderNothing
  <2>2. CASE s # {}
    <3> DEFINE x == CHOOSE x \in s : TRUE
    <3>1. x \in s
      BY <2>2
    <3>2. h[s \ {x}] = Cardinality(Under(D, key, s \ {x})) /\ h[s] = Cardinality(Under(D, key, s))
      OBVIOUS
    <3>3. size[x] = Cardinality({d \in D : key[d] = x})
      BY <3>1
    <3>4. k(s) = size[x] + h[s \ {x}]
      BY <2>2
    <3> HIDE DEF x, h, k
    <3> QED
      BY <3>1, <3>2, <3>3, <3>4, UnderLess
  <2> QED
    BY <2>1, <2>2
<1>2. h = [s \in SUBSET S |-> k(s)]
  <2>1. h = [s \in SUBSET S |-> h[s]]
    OBVIOUS
  <2> HIDE DEF h, k
  <2> QED
    BY <1>1, <2>1
<1> QED
  BY <1>2 DEF AddsUp

\* and it is the only one.
LEMMA SumUnique ==
  ASSUME NEW S, IsFiniteSet(S), NEW size, NEW f, AddsUp(f, size, S), NEW g, AddsUp(g, size, S)
  PROVE  f[S] = g[S]
<1> DEFINE T == {s \in SUBSET S : f[s] # g[s]}
<1>1. SUFFICES ASSUME T # {} PROVE FALSE
  OBVIOUS
<1>2. IsWellFoundedOn(StrictSubsetOrdering(S), SUBSET S)
  BY FS_StrictSubsetOrderingWellFounded, FS_FiniteSubsetsOfFinite
<1>3. PICK s \in T : \A y \in T : <<y, s>> \notin StrictSubsetOrdering(S)
  <2> HIDE DEF T
  <2>1. T \subseteq SUBSET S
    BY DEF T
  <2> QED
    BY <1>1, <1>2, <2>1, WFMin
<1>4. CASE s = {}
  BY <1>3, <1>4 DEF AddsUp
<1>5. CASE s # {}
  <2> DEFINE x == CHOOSE x \in s : TRUE
  <2>1. x \in s
    BY <1>5
  <2>2. s \ {x} \in SUBSET S /\ <<s \ {x}, s>> \in StrictSubsetOrdering(S)
    BY <1>3, <2>1 DEF StrictSubsetOrdering
  <2>3. f[s \ {x}] = g[s \ {x}]
    BY <1>3, <2>2
  <2>4. f[s] = size[x] + f[s \ {x}] /\ g[s] = size[x] + g[s \ {x}]
    BY <1>3, <1>5 DEF AddsUp
  <2> QED
    BY <1>3, <2>3, <2>4
<1> QED
  BY <1>4, <1>5

\* The entries of the counted arrays whose group the cursor gave.
Counted(e, sel) == {d \in Unwind(e.votes, sel) : sel[d[1]][d[2]] \in e.groups}

\* What voteCounts holds for several options
VotesFor(e, sel, S) == MapThenSumSet(LAMBDA x : OptionCount(e, sel, x), S)

\* is how many of these entries name one of them.
LEMMA SumOfCounts ==
  ASSUME NEW e, NEW sel, NEW S, IsFiniteSet(S), IsFiniteSet(Unwind(e.votes, sel))
  PROVE  VotesFor(e, sel, S) = Cardinality({d \in Counted(e, sel) : sel[d[1]][d[2]] \in S})
<1> DEFINE D == Counted(e, sel)
           key == [d \in D |-> sel[d[1]][d[2]]]
           size == [x \in S |-> OptionCount(e, sel, x)]
           F(f) == [s \in SUBSET S |->
                      IF s = {} THEN 0
                      ELSE LET x == CHOOSE x \in s : TRUE
                           IN OptionCount(e, sel, x) + f[s \ {x}]]
           h == [s \in SUBSET S |-> Cardinality(Under(D, key, s))]
           sum == CHOOSE f : f = F(f)
<1>0. IsFiniteSet(D)
  BY FS_Subset DEF Counted
<1>1. VotesFor(e, sel, S) = sum[S]
  BY DEF VotesFor, MapThenSumSet, MapThenFoldSet
<1>2. ASSUME NEW f PROVE f = F(f) <=> AddsUp(f, size, S)
  <2> DEFINE G == [s \in SUBSET S |->
                     IF s = {} THEN 0
                     ELSE LET x == CHOOSE x \in s : TRUE IN size[x] + f[s \ {x}]]
  <2>1. ASSUME NEW s \in SUBSET S PROVE F(f)[s] = G[s]
    <3>1. CASE s = {}
      BY <3>1
    <3>2. CASE s # {}
      <4> DEFINE x == CHOOSE x \in s : TRUE
      <4>1. x \in s
        BY <3>2
      <4>2. size[x] = OptionCount(e, sel, x)
        BY <4>1
      <4> QED
        BY <3>2, <4>2
    <3> QED
      BY <3>1, <3>2
  <2>2. F(f) = [s \in SUBSET S |-> F(f)[s]] /\ G = [s \in SUBSET S |-> G[s]]
    OBVIOUS
  <2>3. F(f) = G
    <3> HIDE DEF F, G
    <3> QED
      BY <2>1, <2>2
  <2>4. AddsUp(f, size, S) <=> f = G
    BY DEF AddsUp
  <2> QED
    BY <2>3, <2>4
<1>3. \A x \in S : size[x] = Cardinality({d \in D : key[d] = x})
  <2>1. ASSUME NEW x PROVE {d \in D : key[d] = x} = {d \in D : sel[d[1]][d[2]] = x}
    OBVIOUS
  <2>2. ASSUME NEW x \in S PROVE size[x] = Cardinality({d \in D : sel[d[1]][d[2]] = x})
    <3>1. CASE x \in e.groups
      <4>1. {d \in D : sel[d[1]][d[2]] = x}
              = {d \in Unwind(e.votes, sel) : sel[d[1]][d[2]] = x}
        BY <3>1 DEF Counted
      <4> QED
        BY <3>1, <4>1 DEF OptionCount, GroupCount
    <3>2. CASE x \notin e.groups
      <4>1. {d \in D : sel[d[1]][d[2]] = x} = {}
        BY <3>2 DEF Counted
      <4> QED
        BY <3>2, <4>1, FS_EmptySet DEF OptionCount
    <3> QED
      BY <3>1, <3>2
  <2> HIDE DEF size, key, D
  <2> QED
    BY <2>1, <2>2
<1>4. AddsUp(h, size, S)
  <2> HIDE DEF size, key, D
  <2> QED
    BY <1>0, <1>3, SumExists
<1>5. sum = F(sum)
  <2> HIDE DEF F, h
  <2> QED
    BY <1>2, <1>4
<1>6. sum[S] = h[S]
  <2>1. AddsUp(sum, size, S)
    BY <1>2, <1>5
  <2> HIDE DEF sum, h, size
  <2> QED
    BY <1>4, <2>1, SumUnique
<1>7. h[S] = Cardinality(Under(D, key, S))
  OBVIOUS
<1>8. Under(D, key, S) = {d \in D : sel[d[1]][d[2]] \in S}
  BY DEF Under
<1> HIDE DEF sum, h, key
<1> QED
  BY <1>1, <1>6, <1>7, <1>8

\* The lengths of the arrays add up to the number of their entries.
LEMMA SumOfLengths ==
  ASSUME NEW docs, IsFiniteSet(docs), NEW sel, \A v \in docs : sel[v] \in Seq(Int)
  PROVE  IsFiniteSet(Unwind(docs, sel)) /\ Selected(docs, sel) = Cardinality(Unwind(docs, sel))
<1> DEFINE D == Unwind(docs, sel)
           key == [d \in D |-> d[1]]
           size == [v \in docs |-> Len(sel[v])]
           F(f) == [s \in SUBSET docs |->
                      IF s = {} THEN 0
                      ELSE LET x == CHOOSE x \in s : TRUE IN Len(sel[x]) + f[s \ {x}]]
           h == [s \in SUBSET docs |-> Cardinality(Under(D, key, s))]
           sum == CHOOSE f : f = F(f)
<1>1. Selected(docs, sel) = sum[docs]
  BY DEF Selected, MapThenSumSet, MapThenFoldSet
<1>2. ASSUME NEW f PROVE f = F(f) <=> AddsUp(f, size, docs)
  <2> DEFINE G == [s \in SUBSET docs |->
                     IF s = {} THEN 0
                     ELSE LET x == CHOOSE x \in s : TRUE IN size[x] + f[s \ {x}]]
  <2>1. ASSUME NEW s \in SUBSET docs PROVE F(f)[s] = G[s]
    <3>1. CASE s = {}
      BY <3>1
    <3>2. CASE s # {}
      <4> DEFINE x == CHOOSE x \in s : TRUE
      <4>1. x \in s
        BY <3>2
      <4>2. size[x] = Len(sel[x])
        BY <4>1
      <4> QED
        BY <3>2, <4>2
    <3> QED
      BY <3>1, <3>2
  <2>2. F(f) = [s \in SUBSET docs |-> F(f)[s]] /\ G = [s \in SUBSET docs |-> G[s]]
    OBVIOUS
  <2>3. F(f) = G
    <3> HIDE DEF F, G
    <3> QED
      BY <2>1, <2>2
  <2>4. AddsUp(f, size, docs) <=> f = G
    BY DEF AddsUp
  <2> QED
    BY <2>3, <2>4
<1>3. \A v \in docs : IsFiniteSet({v} \X DOMAIN sel[v])
                      /\ Cardinality({v} \X DOMAIN sel[v]) = Len(sel[v])
  <2> SUFFICES ASSUME NEW v \in docs
               PROVE  /\ IsFiniteSet({v} \X DOMAIN sel[v])
                      /\ Cardinality({v} \X DOMAIN sel[v]) = Len(sel[v])
    OBVIOUS
  <2>1. DOMAIN sel[v] = 1..Len(sel[v]) /\ Len(sel[v]) \in Nat
    OBVIOUS
  <2>2. IsFiniteSet(1..Len(sel[v])) /\ Cardinality(1..Len(sel[v])) = Len(sel[v])
    <3>1. Cardinality(1..Len(sel[v])) = IF 1 > Len(sel[v]) THEN 0 ELSE Len(sel[v]) - 1 + 1
      BY <2>1, FS_Interval
    <3> QED
      BY <2>1, <3>1, FS_Interval
  <2>3. IsFiniteSet({v}) /\ Cardinality({v}) = 1
    BY FS_Singleton
  <2>4. /\ IsFiniteSet({v} \X (1..Len(sel[v])))
        /\ Cardinality({v} \X (1..Len(sel[v]))) = 1 * Len(sel[v])
    BY <2>2, <2>3, FS_Product
  <2> QED
    BY <2>1, <2>4
<1>4. IsFiniteSet(D)
  <2> DEFINE parts == {{v} \X DOMAIN sel[v] : v \in docs}
             part == [v \in docs |-> {v} \X DOMAIN sel[v]]
  <2>1. IsFiniteSet(parts)
    <3>1. part \in Surjection(docs, parts)
      BY DEF Surjection
    <3> HIDE DEF part, parts
    <3> QED
      BY <3>1, FS_Surjection
  <2>2. \A p \in parts : IsFiniteSet(p)
    BY <1>3
  <2>3. D = UNION parts
    BY DEF Unwind
  <2> HIDE DEF parts, D
  <2> QED
    BY <2>1, <2>2, <2>3, FS_UNION
<1>5. \A x \in docs : size[x] = Cardinality({d \in D : key[d] = x})
  <2> SUFFICES ASSUME NEW x \in docs PROVE size[x] = Cardinality({d \in D : key[d] = x})
    OBVIOUS
  <2>1. {d \in D : key[d] = x} = {x} \X DOMAIN sel[x]
    BY DEF Unwind
  <2> QED
    BY <1>3, <2>1
<1>6. AddsUp(h, size, docs)
  <2> HIDE DEF size, key, D
  <2> QED
    BY <1>4, <1>5, SumExists
<1>7. sum = F(sum)
  <2> HIDE DEF F, h
  <2> QED
    BY <1>2, <1>6
<1>8. sum[docs] = h[docs]
  <2>1. AddsUp(sum, size, docs)
    BY <1>2, <1>7
  <2> HIDE DEF sum, h, size
  <2> QED
    BY <1>6, <2>1, SumUnique
<1>9. h[docs] = Cardinality(Under(D, key, docs))
  OBVIOUS
<1>10. Under(D, key, docs) = D
  BY DEF Under, Unwind
<1> HIDE DEF sum, h, key, D
<1> QED
  BY <1>1, <1>4, <1>8, <1>9, <1>10 DEF D

\* The three parts of TotalsAddUp, for any finite set of documents and any of
\* their groups.
LEMMA TotalsOf ==
  ASSUME NEW e, IsFiniteSet(e.votes), NEW sel, \A v \in e.votes : sel[v] \in Seq(Int),
         e.groups \subseteq Groups(e.votes, sel), NEW number \in Nat
  PROVE  LET total == TotalVotes(e, sel)
             sum   == SumOverOptions(e, sel, number)
             all   == e.groups = Groups(e.votes, sel)
         IN /\ total = Selected(e.votes, sel) <=> all
            /\ all => (sum = total <=> OutOfRange(e.votes, sel, number) = {})
            /\ \A i \in OptionIndices(number) :
                 Percentage(OptionCount(e, sel, i), total) \in 0..100
<1> DEFINE D == Unwind(e.votes, sel)
           C == Counted(e, sel)
           E == {d \in C : sel[d[1]][d[2]] \in OptionIndices(number)}
<1>1. IsFiniteSet(D) /\ Selected(e.votes, sel) = Cardinality(D)
  BY SumOfLengths
<1>2. C \in SUBSET D /\ E \in SUBSET C
  BY DEF Counted
<1>3. /\ IsFiniteSet(C) /\ (Cardinality(C) = Cardinality(D) => C = D)
      /\ (Cardinality(E) = Cardinality(C) => E = C)
  <2> HIDE DEF D, C, E
  <2> QED
    BY <1>1, <1>2, FS_Subset
<1>4. C = D <=> e.groups = Groups(e.votes, sel)
  BY DEF Counted, Groups
<1>5. TotalVotes(e, sel) = Cardinality(C)
  <2>1. IsFiniteSet(e.groups)
    <3> DEFINE g == [d \in D |-> sel[d[1]][d[2]]]
    <3>1. g \in Surjection(D, Groups(e.votes, sel))
      BY DEF Surjection, Groups
    <3> HIDE DEF g, D
    <3> QED
      BY <1>1, <3>1, FS_Surjection, FS_Subset
  <2>2. {d \in C : sel[d[1]][d[2]] \in e.groups} = C
    BY DEF Counted
  <2>3. TotalVotes(e, sel) = VotesFor(e, sel, e.groups)
    BY DEF TotalVotes, VotesFor
  <2>4. VotesFor(e, sel, e.groups) = Cardinality({d \in C : sel[d[1]][d[2]] \in e.groups})
    BY <1>1, <2>1, SumOfCounts
  <2> HIDE DEF C
  <2> QED
    BY <2>2, <2>3, <2>4
<1>6. SumOverOptions(e, sel, number) = Cardinality(E)
  <2>1. IsFiniteSet(OptionIndices(number))
    BY FS_Interval DEF OptionIndices
  <2>2. SumOverOptions(e, sel, number) = VotesFor(e, sel, OptionIndices(number))
    BY DEF SumOverOptions, VotesFor
  <2>3. VotesFor(e, sel, OptionIndices(number)) = Cardinality(E)
    BY <1>1, <2>1, SumOfCounts
  <2> QED
    BY <2>2, <2>3
<1>7. C = D => (E = C <=> OutOfRange(e.votes, sel, number) = {})
  <2>1. \A d \in D : d[1] \in e.votes /\ d[2] \in DOMAIN sel[d[1]]
    BY DEF Unwind
  <2>2. \A v \in e.votes : \A n \in DOMAIN sel[v] : <<v, n>> \in D
    BY DEF Unwind
  <2>3. ASSUME C = D, E = C, NEW v \in e.votes, NEW n \in DOMAIN sel[v]
        PROVE  sel[v][n] \in OptionIndices(number)
    <3>1. <<v, n>> \in E
      BY <2>2, <2>3
    <3> QED
      BY <3>1
  <2>4. ASSUME C = D,
               \A v \in e.votes : \A n \in DOMAIN sel[v] : sel[v][n] \in OptionIndices(number)
        PROVE  E = C
    <3>1. \A d \in C : sel[d[1]][d[2]] \in OptionIndices(number)
      BY <2>1, <2>4
    <3> QED
      BY <3>1
  <2> HIDE DEF D, C, E
  <2> QED
    BY <2>3, <2>4 DEF OutOfRange
<1>8. ASSUME NEW i \in OptionIndices(number)
      PROVE  Percentage(OptionCount(e, sel, i), Cardinality(C)) \in 0..100
  <2> DEFINE O == {d \in D : sel[d[1]][d[2]] = i}
  <2>1. i \in e.groups => O \in SUBSET C /\ OptionCount(e, sel, i) = Cardinality(O)
    BY DEF Counted, OptionCount, GroupCount
  <2>2. i \notin e.groups => OptionCount(e, sel, i) = 0
    BY DEF OptionCount
  <2> HIDE DEF O, C, D
  <2>3. Cardinality(C) \in Nat
    BY <1>3, FS_CardinalityType
  <2>4. /\ OptionCount(e, sel, i) \in Nat
        /\ OptionCount(e, sel, i) <= Cardinality(C)
    BY <1>3, <2>1, <2>2, <2>3, FS_Subset, FS_CardinalityType
  <2>5. ASSUME NEW c \in Nat, NEW t \in Nat, c <= t, t > 0 PROVE (c * 100) \div t \in 0..100
    BY <2>5
  <2>6. CASE Cardinality(C) > 0
    BY <2>3, <2>4, <2>5, <2>6 DEF Percentage
  <2>7. CASE ~(Cardinality(C) > 0)
    BY <2>7 DEF Percentage
  <2> QED
    BY <2>6, <2>7
<1> HIDE DEF D, C, E
<1>9. TotalVotes(e, sel) = Selected(e.votes, sel) <=> e.groups = Groups(e.votes, sel)
  <2>1. Cardinality(C) = Cardinality(D) <=> C = D
    BY <1>3, Zenon
  <2> QED
    BY <1>1, <1>4, <1>5, <2>1, Zenon
<1>10. e.groups = Groups(e.votes, sel) =>
         (SumOverOptions(e, sel, number) = TotalVotes(e, sel)
            <=> OutOfRange(e.votes, sel, number) = {})
  <2>1. Cardinality(E) = Cardinality(C) <=> E = C
    BY <1>3, Zenon
  <2> QED
    BY <1>4, <1>5, <1>6, <1>7, <2>1, Zenon
<1>11. \A i \in OptionIndices(number) :
         Percentage(OptionCount(e, sel, i), TotalVotes(e, sel)) \in 0..100
  BY <1>5, <1>8
<1> QED
  BY <1>9, <1>10, <1>11

\* Needs no assumption: nothing published is ever deleted from the collection.
LEMMA PublishedInvariant == Spec => []PublishedInv
<1>1. Init => PublishedInv
  BY EventInit DEF EventInv
<1>2. BoxInv /\ PublishedInv /\ [Next]_vars => PublishedInv'
  BY PublishedStep
<1> QED
  BY <1>1, <1>2, BoxInvariant, PTL DEF Spec

\* totalVotes is what the counted votes select exactly if the cursor did not break
\* off, the options then account for all of it exactly if every selected index is
\* one of an option, and no percentage ever exceeds 100: for any number of
\* instances and votes, any selections and any failures.
THEOREM TotalsAddUpHolds == Spec => []TotalsAddUp
<1>1. BoxInv /\ PublishedInv /\ GroupsInv /\ FiniteVotes => TotalsAddUp
  <2> SUFFICES ASSUME BoxInv, PublishedInv, GroupsInv, FiniteVotes PROVE TotalsAddUp
    OBVIOUS
  <2>1. selection \in [VoteIDs -> Seq(Int)] /\ NumOptions \in Nat
    BY PipelineAssumption DEF BoxInv, TypeInv, TypeOK
  <2>2. ASSUME NEW n \in 1..Len(updates)
        PROVE  /\ IsFiniteSet(updates[n].votes)
               /\ \A v \in updates[n].votes : selection[v] \in Seq(Int)
               /\ updates[n].groups \subseteq Groups(updates[n].votes, selection)
    <3>1. updates[n].votes \subseteq votes /\ votes \subseteq VoteIDs
      BY DEF PublishedInv, BoxInv, TypeInv, TypeOK
    <3> QED
      BY <2>1, <3>1, FS_Subset DEF FiniteVotes, GroupsInv, ReadOf
  <2> QED
    BY <2>1, <2>2, TotalsOf DEF TotalsAddUp, Complete
<1> QED
  BY <1>1, BoxInvariant, PublishedInvariant, GroupsInvariant, FiniteVotesInvariant, PTL

-----------------------------------------------------------------------------
(* Successive events: more votes are counted, so no count goes down.         *)

\* More documents make no group smaller,
LEMMA GroupsGrow ==
  ASSUME NEW more, IsFiniteSet(more), NEW docs \in SUBSET more, NEW sel,
         \A v \in more : sel[v] \in Seq(Int), NEW option
  PROVE  /\ GroupCount(docs, sel, option) \in Nat /\ GroupCount(more, sel, option) \in Nat
         /\ GroupCount(docs, sel, option) <= GroupCount(more, sel, option)
<1> DEFINE few  == {d \in Unwind(docs, sel) : sel[d[1]][d[2]] = option}
           many == {d \in Unwind(more, sel) : sel[d[1]][d[2]] = option}
<1>1. IsFiniteSet(Unwind(more, sel)) /\ many \in SUBSET Unwind(more, sel)
  BY SumOfLengths
<1>2. few \in SUBSET many
  BY DEF Unwind
<1>3. GroupCount(docs, sel, option) = Cardinality(few)
      /\ GroupCount(more, sel, option) = Cardinality(many)
  BY DEF GroupCount
<1> HIDE DEF few, many
<1>4. IsFiniteSet(many)
  BY <1>1, FS_Subset
<1> QED
  BY <1>2, <1>3, <1>4, FS_Subset, FS_CardinalityType

\* and who has read all groups has the size of each.
LEMMA CompleteCounts ==
  ASSUME NEW e, NEW sel, e.groups = Groups(e.votes, sel), NEW option
  PROVE  OptionCount(e, sel, option) = GroupCount(e.votes, sel, option)
<1>1. CASE option \in e.groups
  BY <1>1 DEF OptionCount
<1>2. CASE option \notin e.groups
  <2>1. {d \in Unwind(e.votes, sel) : sel[d[1]][d[2]] = option} = {}
    BY <1>2 DEF Groups
  <2> QED
    BY <1>2, <2>1, FS_EmptySet DEF OptionCount, GroupCount
<1> QED
  BY <1>1, <1>2

\* With one instance, whatever calls fail and whenever the process dies, each
\* event is computed from the votes the previous ones of its question were, and
\* the count of an option goes down only in an event whose cursor broke off.
THEOREM ResultsMonotoneHolds ==
  ASSUME OneInstance
  PROVE  Spec => []ResultsMonotone
<1>1. BoxInv /\ EventInv /\ FiniteVotes => ResultsMonotone
  <2> SUFFICES ASSUME BoxInv, EventInv, FiniteVotes,
                      NEW m \in 1..Len(updates), NEW n \in 1..Len(updates), m < n,
                      updates[m].question = updates[n].question
               PROVE  /\ updates[m].votes \subseteq updates[n].votes
                      /\ Complete(updates[n]) =>
                           \A i \in OptionIndices(NumOptions) :
                             OptionCount(updates[m], selection, i)
                               <= OptionCount(updates[n], selection, i)
    BY DEF ResultsMonotone
  <2>1. updates[m].votes \subseteq updates[n].votes
    BY DEF EventInv, VotesMonotone
  <2>2. updates[n].votes \subseteq votes /\ votes \subseteq VoteIDs
    BY DEF EventInv, PublishedInv, BoxInv, TypeInv, TypeOK
  <2>3. IsFiniteSet(updates[n].votes)
    BY <2>2, FS_Subset DEF FiniteVotes
  <2>4. \A v \in updates[n].votes : selection[v] \in Seq(Int)
    BY <2>2, PipelineAssumption DEF BoxInv, TypeInv, TypeOK
  <2>5. ASSUME Complete(updates[n]), NEW i
        PROVE  OptionCount(updates[m], selection, i) <= OptionCount(updates[n], selection, i)
    <3>1. /\ GroupCount(updates[m].votes, selection, i) \in Nat
          /\ GroupCount(updates[n].votes, selection, i) \in Nat
          /\ GroupCount(updates[m].votes, selection, i)
               <= GroupCount(updates[n].votes, selection, i)
      BY <2>1, <2>3, <2>4, GroupsGrow
    <3>2. OptionCount(updates[n], selection, i) = GroupCount(updates[n].votes, selection, i)
      BY <2>5, CompleteCounts DEF Complete
    <3> QED
      BY <3>1, <3>2 DEF OptionCount
  <2> QED
    BY <2>1, <2>5
<1> QED
  BY <1>1, BoxInvariant, EventInvariant, FiniteVotesInvariant, PTL
=============================================================================
