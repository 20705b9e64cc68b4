--------------------------- MODULE BallotBoxProofs ---------------------------
(***************************************************************************)
(* VotePipeline implements BallotBox: the initial states map to initial    *)
(* states, and every step maps to a step of the box or to none.            *)
(***************************************************************************)
EXTENDS VotePipelineQueueProofs

\* Results on their way to the topic count at least one vote, and only stored
\* votes on their question.
Counts(t) == /\ t.votes # {}
             /\ \A v \in t.votes : v \in votes /\ ballot[v].question = t.question

TallyInv ==
  \A i \in Instances :
    worker[i].pc \in {"voters", "cacheResults", "emit"} => Counts(worker[i].tally)

BoxInv == TypeInv /\ LockInv /\ QueueInv /\ TallyInv

LEMMA TallyInit == Init => TallyInv
BY DEF Init, TallyInv, Idle

\* Stored votes are never taken away, so what a tally counts stays stored.
LEMMA CountsStable ==
  ASSUME UNCHANGED ballot, votes \subseteq votes'
  PROVE  \A t : Counts(t) => (t.votes # {} /\ \A v \in t.votes :
                                v \in votes' /\ ballot'[v].question = t.question)
BY DEF Counts

\* A step that gives no consumer a new tally keeps TallyInv.
LEMMA TallyKept ==
  ASSUME TallyInv, UNCHANGED ballot, votes \subseteq votes',
         \A i \in Instances :
           worker'[i].pc \in {"voters", "cacheResults", "emit"} =>
             \/ /\ worker[i].pc \in {"voters", "cacheResults", "emit"}
                /\ worker'[i].tally = worker[i].tally
             \/ Counts(worker'[i].tally)
  PROVE  TallyInv'
BY CountsStable DEF TallyInv, Counts

LEMMA TallyStep == TypeInv /\ QueueInv /\ TallyInv /\ [Next]_vars => TallyInv'
<1> SUFFICES ASSUME TypeInv, QueueInv, TallyInv, [Next]_vars PROVE TallyInv'
  OBVIOUS
<1> DEFINE Tallied == {"voters", "cacheResults", "emit"}
<1>1. ASSUME NEW i \in Instances, VoteConsumer(i) PROVE TallyInv'
  <2>1. UNCHANGED ballot /\ votes \subseteq votes'
    BY <1>1 DEF VoteConsumer, FetchMessage, CommitMessages, GetSessionByID, CheckDuplicateVote, SaveVoteToMongo,
           LookupQuestion, GetVoteCountsForQuestion, GetUniqueVotersCount,
           CacheResultsInRedis, EmitResultsUpdated, ingress
  <2>2. \A j \in Instances \ {i} : worker'[j] = worker[j]
    BY <1>1, OneWorkerSteps
  <2>3. SUFFICES worker'[i].pc \in Tallied =>
                   \/ worker[i].pc \in Tallied /\ worker'[i].tally = worker[i].tally
                   \/ Counts(worker'[i].tally)
    BY <2>1, <2>2, <2>3, TallyKept
  <2>4. CASE FetchMessage(i)
    BY <2>4 DEF FetchMessage, TypeInv, TypeOK, Worker
  <2>4a. CASE CommitMessages(i)
    <3>1. CASE NextMessage(i)
      BY <3>1, NextMessageEffect
    <3>2. CASE worker' = [worker EXCEPT ![i] = [@ EXCEPT !.pc = "session", !.offset = 0]]
      BY <3>2 DEF TypeInv, TypeOK, Worker
    <3> QED
      BY <2>4a, <3>1, <3>2 DEF CommitMessages
  <2>5. CASE GetSessionByID(i) \/ CheckDuplicateVote(i) \/ SaveVoteToMongo(i)
    <3>1. worker'[i].pc \in {"read", "session", "lock", "save", "lookup"}
      BY <2>5, GotoEffect, ProcessVoteFailedEffect
         DEF GetSessionByID, CheckDuplicateVote, SaveVoteToMongo
    <3> QED
      BY <3>1
  <2>6. CASE LookupQuestion(i) \/ EmitResultsUpdated(i)
    <3>1. worker'[i].pc \in {"read", "count"}
      BY <2>6, GotoEffect, NextMessageEffect
         DEF LookupQuestion, EmitResultsUpdated
    <3> QED
      BY <3>1
  <2>7. CASE GetVoteCountsForQuestion(i)
    <3> DEFINE v == worker[i].vote
               q == ballot[v].question
               t(g) == [question |-> q, votes |-> VotesOn(q), groups |-> g, voters |-> {}]
    <3>1. CASE NextMessage(i)
      BY <3>1, NextMessageEffect
    <3>2. ASSUME NEW g, worker' = [worker EXCEPT ![i] = [@ EXCEPT !.pc = "voters", !.tally = t(g)]]
          PROVE  Counts(worker'[i].tally)
      <4>1. worker'[i].tally = t(g)
        <5> HIDE DEF t
        <5> QED
          BY <3>2 DEF TypeInv, TypeOK, Worker
      <4>2. v \in votes
        BY <2>7 DEF GetVoteCountsForQuestion, QueueInv, AfterSave, SavedSteps
      <4>3. Counts(t(g))
        BY <4>2 DEF Counts, VotesOn
      <4> QED
        BY <4>1, <4>3, <3>2
    <3> QED
      BY <2>7, <3>1, <3>2 DEF GetVoteCountsForQuestion
  <2>8. CASE GetUniqueVotersCount(i)
    <3>1. PICK vs : worker' = [worker EXCEPT ![i] =
                       [@ EXCEPT !.pc = "cacheResults", !.tally.voters = vs]]
      BY <2>8 DEF GetUniqueVotersCount
    <3>2. worker[i].pc = "voters" /\ worker[i].tally \in Results /\ Counts(worker[i].tally)
      BY <2>8 DEF GetUniqueVotersCount, TypeInv, HandsFull, TallyInv
    <3> DEFINE t == [worker[i].tally EXCEPT !.voters = vs]
    <3>3. worker'[i].tally = t
      BY <3>1 DEF TypeInv, TypeOK, Worker
    <3>4. t.votes = worker[i].tally.votes /\ t.question = worker[i].tally.question
      BY <3>2 DEF Results
    <3>5. Counts(t)
      <4> HIDE DEF t
      <4> QED
        BY <3>2, <3>4 DEF Counts
    <3> QED
      BY <3>3, <3>5
  <2>9. CASE CacheResultsInRedis(i)
    BY <2>9, GotoEffect DEF CacheResultsInRedis
  <2> QED
    BY <1>1, <2>4, <2>4a, <2>5, <2>6, <2>7, <2>8, <2>9 DEF VoteConsumer
<1>2. ASSUME NEW i \in Instances, Crash(i) \/ Restart(i) PROVE TallyInv'
  <2>1. worker'[i].pc \in {"read", "down"}
    BY <1>2, NextMessageEffect DEF Crash, Restart, TypeInv, TypeOK, Idle
  <2>2. \A j \in Instances \ {i} : worker'[j] = worker[j]
    BY <1>2, OneWorkerSteps
  <2>3. UNCHANGED <<ballot, votes>>
    BY <1>2 DEF Crash, Restart, ingress
  <2> QED
    BY <2>1, <2>2, <2>3, TallyKept
<1>3. ASSUME UNCHANGED <<ballot, votes, worker>> PROVE TallyInv'
  BY <1>3, TallyKept
<1>4. \/ \E i \in Instances : VoteConsumer(i) \/ Crash(i) \/ Restart(i)
      \/ UNCHANGED <<ballot, votes, worker>>
  BY DEF Next, Environment, vars, ingress, SubmitVoteHandler, Rebalance, Rejoin, LockExpires,
         ResultsExpire
<1> QED
  BY <1>1, <1>2, <1>3, <1>4

LEMMA BoxInvariant == Spec => []BoxInv
<1>1. Init => BoxInv
  BY TypeInit, LockInit, QueueInit, TallyInit DEF BoxInv
<1>2. BoxInv /\ [Next]_vars => BoxInv'
  BY TypeStep, LockStep, QueueStep, TallyStep DEF BoxInv
<1> QED
  BY <1>1, <1>2, PTL DEF Spec

-----------------------------------------------------------------------------
(* The mapping of the steps. *)

\* What stands on a topic, before and after a write.
Elements(t) == {t[n] : n \in 1..Len(t)}

LEMMA ProduceRange ==
  ASSUME NEW S, NEW t \in Seq(S), NEW m \in S, NEW o
  PROVE  Elements(Produce(t, m, o)) = Elements(t) \cup (IF o = "error" THEN {} ELSE {m})
<1> DEFINE a == Append(t, m)
           b == Append(a, m)
<1>1. /\ a \in Seq(S) /\ Len(a) = Len(t) + 1 /\ Len(t) \in Nat
      /\ a[Len(t) + 1] = m /\ \A n \in 1..Len(t) : a[n] = t[n]
  OBVIOUS
<1>2. Elements(a) = Elements(t) \cup {m}
  <2> HIDE DEF a
  <2> QED
    BY <1>1 DEF Elements
<1>3. Elements(b) = Elements(a) \cup {m}
  <2>1. /\ b \in Seq(S) /\ Len(b) = Len(a) + 1 /\ Len(a) \in Nat
        /\ b[Len(a) + 1] = m /\ \A n \in 1..Len(a) : b[n] = a[n]
    <3> HIDE DEF a
    <3> QED
      BY <1>1
  <2> HIDE DEF b, a
  <2> QED
    BY <2>1 DEF Elements
<1>4. Produce(t, m, o) = IF o = "error" THEN t ELSE IF o = "dup" THEN b ELSE a
  BY DEF Produce
<1> HIDE DEF a, b
<1>5. CASE o = "error"
  BY <1>4, <1>5
<1>6. CASE o = "dup"
  BY <1>2, <1>3, <1>4, <1>6
<1>7. CASE o \notin {"error", "dup"}
  BY <1>2, <1>4, <1>7
<1> QED
  BY <1>5, <1>6, <1>7

\* The variables of the box, as VotePipeline defines them.
Cast == {votesLog[n] : n \in 1..Len(votesLog)}
Announced(u) == {[question |-> u[n].question, votes |-> u[n].votes] : n \in 1..Len(u)}

\* A step is one of the box.
BoxStep == Box!Next \/ UNCHANGED <<ballot, Cast, votes, lapsed, Announced(updates)>>

LEMMA BoxInit == Init => Box!Init
<1> SUFFICES ASSUME Init PROVE Box!Init
  OBVIOUS
<1>1. Cast = {} /\ Announced(updates) = {}
  BY DEF Init, Cast, Announced
<1> QED
  BY <1>1 DEF Init, Box!Init, Cast, Announced

LEMMA SubmitVoteHandlerBox ==
  ASSUME BoxInv, NEW v \in VoteIDs, SubmitVoteHandler(v)
  PROVE  BoxStep
<1>1. UNCHANGED <<ballot, votes, lapsed, updates>>
  BY DEF SubmitVoteHandler, locks, results
<1>2. UNCHANGED votesLog \/ \E o : votesLog' = Produce(votesLog, v, o)
  BY DEF SubmitVoteHandler
<1>3. votesLog \in Seq(VoteIDs)
  BY DEF BoxInv, TypeInv, TypeOK
<1>4. UNCHANGED Cast \/ Cast' = Cast \cup {v}
  <2>1. CASE UNCHANGED votesLog
    BY <2>1 DEF Cast
  <2>2. ASSUME NEW o, votesLog' = Produce(votesLog, v, o)
        PROVE  UNCHANGED Cast \/ Cast' = Cast \cup {v}
    <3>1. Elements(Produce(votesLog, v, o))
            = Elements(votesLog) \cup (IF o = "error" THEN {} ELSE {v})
      BY <1>3, ProduceRange
    <3>2. Cast = Elements(votesLog) /\ Cast' = Elements(Produce(votesLog, v, o))
      BY <2>2 DEF Cast, Elements
    <3> QED
      BY <3>1, <3>2
  <2> QED
    BY <1>2, <2>1, <2>2
<1>5. UNCHANGED Announced(updates)
  BY <1>1 DEF Announced
<1>6. Cast' = Cast \cup {v} => Box!Cast(v)
  BY <1>1, <1>5 DEF Box!Cast, Cast, Announced
<1> QED
  BY <1>1, <1>4, <1>5, <1>6 DEF BoxStep, Box!Next

\* An insert stores a vote that was cast, and whose ballot has no stored vote
\* unless its lock lapsed.
LEMMA SaveVoteToMongoBox ==
  ASSUME BoxInv, NEW i \in Instances, SaveVoteToMongo(i)
  PROVE  BoxStep
<1> DEFINE v == worker[i].vote
<1>1. UNCHANGED <<ballot, votesLog, lapsed, updates>> /\ worker[i].pc = "save"
  BY DEF SaveVoteToMongo, ingress, kafka, locks, results
<1>2. votes' = votes \/ votes' = votes \cup {v}
  BY DEF SaveVoteToMongo
<1>3. UNCHANGED <<Cast, Announced(updates)>>
  BY <1>1 DEF Cast, Announced
<1>4. v \in VoteIDs /\ v \in Cast
  BY <1>1 DEF BoxInv, TypeInv, HandsFull, Steps, QueueInv, Hands, Logged, Cast
<1>5. ASSUME NEW w \in votes, ballot[w] = ballot[v] PROVE ballot[v] \in lapsed
  <2>1. w \in VoteIDs /\ ballot[v] \in Ballots
    BY <1>4 DEF BoxInv, TypeInv, TypeOK
  <2>2. Saving(i, ballot[v]) /\ Saved(w, ballot[v])
    BY <1>1, <1>5 DEF Saving, Saved
  <2> QED
    BY <2>1, <2>2 DEF BoxInv, LockInv, OneClaim
<1>6. votes' = votes \cup {v} => Box!Store(v)
  BY <1>1, <1>3, <1>4, <1>5 DEF Box!Store, Cast, Announced
<1> QED
  BY <1>1, <1>2, <1>3, <1>4, <1>6 DEF BoxStep, Box!Next

\* The event published is a count of stored votes.
LEMMA EmitResultsUpdatedBox ==
  ASSUME BoxInv, NEW i \in Instances, EmitResultsUpdated(i)
  PROVE  BoxStep
<1> DEFINE t == worker[i].tally
           r == [question |-> t.question, votes |-> t.votes]
<1>1. UNCHANGED <<ballot, votesLog, votes, lapsed>> /\ worker[i].pc = "emit"
  BY DEF EmitResultsUpdated, ingress, kafka, locks
<1>2. PICK o : updates' = Produce(updates, t, o)
  BY DEF EmitResultsUpdated, ProduceResults
<1>3. t \in Results /\ Counts(t) /\ updates \in Seq(Results)
  BY <1>1 DEF BoxInv, TypeInv, TypeOK, HandsFull, TallyInv
<1>4. UNCHANGED Cast
  BY <1>1 DEF Cast
<1> DEFINE f(u) == [question |-> u.question, votes |-> u.votes]
<1>5. UNCHANGED Announced(updates) \/ Announced(updates)' = Announced(updates) \cup {r}
  <2>1. \A s : Announced(s) = {f(u) : u \in Elements(s)}
    BY DEF Announced, Elements
  <2>2. Elements(updates') = Elements(updates) \cup (IF o = "error" THEN {} ELSE {t})
    BY <1>2, <1>3, ProduceRange
  <2>3. Announced(updates') = {f(u) : u \in Elements(updates')}
    BY <2>1
  <2>4. Announced(updates)' = Announced(updates')
    BY DEF Announced
  <2>5. CASE o = "error"
    BY <2>1, <2>2, <2>3, <2>4, <2>5
  <2>6. CASE o # "error"
    BY <2>1, <2>2, <2>3, <2>4, <2>6
  <2> QED
    BY <2>5, <2>6
<1>6. r \in Box!Count
  <2>1. PICK v \in t.votes : v \in VoteIDs /\ ballot[v].question = t.question
    BY <1>3 DEF Counts, Results
  <2>2. ballot[v] \in Ballots
    BY <2>1 DEF BoxInv, TypeInv, TypeOK
  <2>3. t.question \in {k.question : k \in Ballots}
    BY <2>1, <2>2
  <2>4. t.votes \in SUBSET VoteIDs
    BY <1>3 DEF Results
  <2> QED
    BY <2>3, <2>4 DEF Box!Count
<1>7. PICK s \in Box!Count : s = r
  BY <1>6
<1>8. CASE UNCHANGED Announced(updates)
  BY <1>1, <1>4, <1>8 DEF BoxStep
<1>9. CASE Announced(updates)' = Announced(updates) \cup {r}
  <2>1. s.votes = t.votes /\ s.question = t.question
    BY <1>7
  <2>2. Box!Publish(s)
    BY <1>1, <1>3, <1>4, <1>7, <1>9, <2>1 DEF Box!Publish, Counts, Cast, Announced
  <2> QED
    BY <2>2 DEF BoxStep, Box!Next
<1> QED
  BY <1>5, <1>8, <1>9

LEMMA BoxNext == BoxInv /\ [Next]_vars => [Box!Next]_(Box!vars)
<1> SUFFICES ASSUME BoxInv, [Next]_vars PROVE BoxStep
  BY DEF BoxStep, Box!vars, Cast, Announced
<1>1. ASSUME UNCHANGED <<ballot, votesLog, votes, lapsed, updates>> PROVE BoxStep
  BY <1>1 DEF BoxStep, Cast, Announced
<1>2. ASSUME NEW v \in VoteIDs, SubmitVoteHandler(v) PROVE BoxStep
  BY <1>2, SubmitVoteHandlerBox
<1>3. ASSUME NEW i \in Instances, VoteConsumer(i) PROVE BoxStep
  BY <1>1, <1>3, SaveVoteToMongoBox, EmitResultsUpdatedBox
     DEF VoteConsumer, FetchMessage, CommitMessages, GetSessionByID, CheckDuplicateVote,
         LookupQuestion, GetVoteCountsForQuestion, GetUniqueVotersCount, CacheResultsInRedis,
         ingress, kafka, locks, results
<1>4. ASSUME NEW k \in Ballots, LockExpires(k) PROVE BoxStep
  <2>1. UNCHANGED <<ballot, votesLog, votes, updates>> /\ lapsed' = lapsed \cup {k}
    BY <1>4 DEF LockExpires, ingress, kafka, results
  <2>2. Box!Forget(k)
    BY <2>1 DEF Box!Forget
  <2> QED
    BY <2>2 DEF BoxStep, Box!Next
<1>5. ASSUME Environment, \A k \in Ballots : ~LockExpires(k) PROVE BoxStep
  BY <1>1, <1>5 DEF Environment, Rebalance, Rejoin, Crash, Restart, ResultsExpire,
                    ingress, kafka, locks, results
<1> QED
  BY <1>1, <1>2, <1>3, <1>4, <1>5 DEF Next, vars, ingress, kafka, locks, results

\* The vote pipeline implements the ballot box.
THEOREM ImplementsBallotBoxHolds == Spec => ImplementsBallotBox
<1>1. Init => Box!Init
  BY BoxInit
<1>2. BoxInv /\ [Next]_vars => [Box!Next]_(Box!vars)
  BY BoxNext
<1> QED
  BY <1>1, <1>2, BoxInvariant, PTL DEF Spec, ImplementsBallotBox, Box!Spec
=============================================================================
