------------------------- MODULE VotePipelineProofs -------------------------
(***************************************************************************)
(* Theorems about VotePipeline, for any number of instances, votes,        *)
(* participants and retries and for any set of faults.                     *)
(***************************************************************************)
EXTENDS VotePipeline, TLAPS, WellFoundedInduction

\* What the steps of a consumer need beyond TypeOK: from its fetch to its last
\* step a message is in the consumer's hands, until the commit with its offset,
\* and after the count it holds results.
HandsFull ==
  \A i \in Instances :
    /\ worker[i].pc \in Steps \cup {"commit"} => worker[i].vote \in VoteIDs
    /\ worker[i].pc = "commit" => worker[i].offset # 0
    /\ worker[i].pc \in {"voters", "cacheResults", "emit"} => worker[i].tally \in Results

TypeInv == TypeOK /\ HandsFull

\* A step leaves the workers so.
WorkersTyped ==
  /\ worker' \in [Instances -> Worker] /\ HandsFull'
  /\ \A i \in Instances : worker'[i].offset <= Len(votesLog)

-----------------------------------------------------------------------------

\* A write to a topic keeps its element type and never shortens it.
LEMMA ProduceType ==
  ASSUME NEW S, NEW t \in Seq(S), NEW m \in S, NEW o
  PROVE  /\ Produce(t, m, o) \in Seq(S)
         /\ Len(Produce(t, m, o)) \in Nat
         /\ Len(t) <= Len(Produce(t, m, o))
<1>1. Len(t) \in Nat
  OBVIOUS
<1>2. /\ Append(t, m) \in Seq(S) /\ Len(Append(t, m)) = Len(t) + 1
  OBVIOUS
<1>3. /\ Append(Append(t, m), m) \in Seq(S)
      /\ Len(Append(Append(t, m), m)) = Len(t) + 2
  BY <1>1, <1>2
<1> QED
  BY <1>1, <1>2, <1>3 DEF Produce

\* An idle consumer, running or down, is of the right type.
LEMMA IdleType ==
  /\ Idle \in Worker
  /\ [Idle EXCEPT !.pc = "down"] \in Worker
  /\ Idle.pc = "read" /\ Idle.offset = 0
  /\ [Idle EXCEPT !.pc = "down"].pc = "down" /\ [Idle EXCEPT !.pc = "down"].offset = 0
BY PipelineAssumption DEF Idle, Worker

-----------------------------------------------------------------------------
(* How the consumer steps change the record of one worker. *)

\* A new record of one worker, of the right type and with its hands full, keeps
\* the type invariant of them all.
LEMMA WorkerType ==
  ASSUME TypeInv, NEW i \in Instances, NEW r \in Worker, worker' = [worker EXCEPT ![i] = r],
         r.offset <= Len(votesLog), r.pc = "commit" => r.offset # 0,
         r.pc \in Steps \cup {"commit"} => r.vote \in VoteIDs,
         r.pc \in {"voters", "cacheResults", "emit"} => r.tally \in Results
  PROVE  WorkersTyped
BY DEF TypeInv, TypeOK, HandsFull, WorkersTyped

\* Moving on to another call keeps the type, if what that call needs is there.
LEMMA GotoType ==
  ASSUME TypeInv, NEW i \in Instances, NEW s \in Steps, Goto(i, s),
         worker[i].vote \in VoteIDs,
         s \in {"voters", "cacheResults", "emit"} => worker[i].tally \in Results
  PROVE  WorkersTyped
<1> DEFINE r == [worker[i] EXCEPT !.pc = s]
<1>1. /\ r \in Worker /\ r.pc = s /\ r.vote \in VoteIDs
      /\ r.offset <= Len(votesLog) /\ s # "commit"
      /\ s \in {"voters", "cacheResults", "emit"} => r.tally \in Results
  BY DEF TypeInv, TypeOK, Worker, Steps
<1>2. worker' = [worker EXCEPT ![i] = r]
  BY DEF Goto
<1> HIDE DEF r
<1> QED
  BY <1>1, <1>2, WorkerType

\* So does dropping the message,
LEMMA NextMessageType ==
  ASSUME TypeInv, NEW i \in Instances, NextMessage(i)
  PROVE  WorkersTyped
BY IdleType DEF TypeInv, TypeOK, HandsFull, NextMessage, Steps, WorkersTyped

\* and the retry loop.
LEMMA ProcessVoteFailedType ==
  ASSUME TypeInv, NEW i \in Instances, NEW err, ProcessVoteFailed(i, err),
         worker[i].vote \in VoteIDs
  PROVE  WorkersTyped
<1>1. CASE GiveUp(worker[i].attempt, err)
  BY <1>1, NextMessageType DEF ProcessVoteFailed
<1>2. CASE ~GiveUp(worker[i].attempt, err)
  <2>1. worker[i].attempt \in 0..MaxRetries /\ worker[i].attempt # MaxRetries
    BY <1>2 DEF GiveUp, TypeInv, TypeOK, Worker
  <2>2. worker[i].attempt + 1 \in 0..MaxRetries
    BY <2>1, PipelineAssumption
  <2> DEFINE r == [worker[i] EXCEPT !.pc = "session", !.attempt = worker[i].attempt + 1]
  <2>3. worker' = [worker EXCEPT ![i] = r]
    BY <1>2 DEF ProcessVoteFailed
  <2>4. r \in Worker /\ r.pc = "session" /\ r.vote \in VoteIDs /\ r.offset <= Len(votesLog)
    BY <2>2 DEF TypeInv, TypeOK, Worker, Steps
  <2> HIDE DEF r
  <2> QED
    BY <2>3, <2>4, WorkerType
<1> QED
  BY <1>1, <1>2

\* The first of some offsets is one of them, unless there is none; and none but
\* 0 is before it.
LEMMA EarliestIsFirst ==
  ASSUME NEW S \in SUBSET Nat
  PROVE  /\ Earliest(S) \in S \cup {0}
         /\ \A n \in S \ {0} : Earliest(S) # 0 /\ Earliest(S) <= n
<1> DEFINE T == S \ {0}
           R == OpToRel(<, Nat)
<1>1. CASE S \subseteq {0}
  BY <1>1 DEF Earliest
<1>2. CASE ~(S \subseteq {0})
  <2>1. T \subseteq Nat /\ T # {} /\ 0 \notin T
    BY <1>2
  <2>2. IsWellFoundedOn(R, Nat)
    BY NatLessThanWellFounded
  <2>3. \A x, y \in Nat : y < x => <<y, x>> \in R
    BY DEF OpToRel
  <2> HIDE DEF R, T
  <2>4. PICK x \in T : \A y \in T : ~(<<y, x>> \in R)
    BY <2>1, <2>2, WFMin
  <2>5. \A y \in T : ~(y < x)
    BY <2>1, <2>3, <2>4
  <2>6. \A y \in T : x <= y
    BY <2>1, <2>5
  <2>7. Min(T) \in T /\ \A y \in T : Min(T) <= y
    BY <2>6 DEF Min
  <2>8. Earliest(S) = Min(T)
    BY <1>2 DEF Earliest, T
  <2> QED
    BY <2>1, <2>7, <2>8 DEF T
<1> QED
  BY <1>1, <1>2

\* The groups of some documents are what their arrays hold.
LEMMA GroupsType ==
  ASSUME NEW docs \in SUBSET VoteIDs, NEW sel \in [VoteIDs -> Seq(Int) \ {<<>>}]
  PROVE  Groups(docs, sel) \subseteq Int
<1>1. ASSUME NEW d \in Unwind(docs, sel) PROVE sel[d[1]][d[2]] \in Int
  <2>1. PICK v \in docs : d \in {v} \X DOMAIN sel[v]
    BY <1>1 DEF Unwind
  <2>2. d[1] = v /\ d[2] \in DOMAIN sel[v] /\ sel[v] \in Seq(Int)
    BY <2>1
  <2> QED
    BY <2>2
<1> QED
  BY <1>1 DEF Groups

\* A vote struck by a failure is a vote.
LEMMA StruckType ==
  ASSUME struck \subseteq VoteIDs, NEW v \in VoteIDs, NEW o
  PROVE  StruckBy(v, o) \subseteq VoteIDs
BY DEF StruckBy

-----------------------------------------------------------------------------

LEMMA TypeInit == Init => TypeInv
<1> SUFFICES ASSUME Init PROVE TypeInv
  OBVIOUS
<1>1. worker \in [Instances -> Worker] /\ HandsFull
  BY IdleType DEF Init, HandsFull, Steps
<1>2. /\ \A i \in Instances : worker[i].offset <= Len(votesLog)
      /\ committed \in 0..Len(votesLog) /\ overtaken \in 0..Len(votesLog) /\ votesLog \in Seq(VoteIDs)
  BY IdleType DEF Init
<1>3. TypeOK
  BY <1>1, <1>2 DEF Init, TypeOK
<1> QED
  BY <1>1, <1>3 DEF TypeInv

LEMMA TypeStep == TypeInv /\ [Next]_vars => TypeInv'
<1> SUFFICES ASSUME TypeInv, [Next]_vars PROVE TypeInv'
  OBVIOUS
<1> USE DEF TypeInv
<1>l. Len(votesLog) \in Nat
  BY DEF TypeOK
<1>1. ASSUME NEW v \in VoteIDs, SubmitVoteHandler(v) PROVE TypeInv'
  <2>1. votesLog' \in Seq(VoteIDs) /\ Len(votesLog') \in Nat /\ Len(votesLog) <= Len(votesLog')
    BY <1>1, <1>l, ProduceType DEF SubmitVoteHandler, TypeOK
  <2>2. reply' \in [VoteIDs -> {"none", "202", "400", "500"}]
    BY <1>1 DEF SubmitVoteHandler, TypeOK
  <2>3. /\ committed' \in 0..Len(votesLog') /\ overtaken' \in 0..Len(votesLog')
        /\ delivered' \subseteq 1..Len(votesLog')
    BY <1>1, <1>l, <2>1 DEF SubmitVoteHandler, TypeOK
  <2>4. position' \in [Instances -> 0..Len(votesLog') \cup {None}]
    BY <1>1, <1>l, <2>1 DEF SubmitVoteHandler, TypeOK
  <2>5. \A i \in Instances : worker'[i].offset <= Len(votesLog')
    BY <1>1, <1>l, <2>1 DEF SubmitVoteHandler, TypeOK, Worker
  <2> QED
    BY <1>1, <2>1, <2>2, <2>3, <2>4, <2>5 DEF SubmitVoteHandler, TypeOK, HandsFull, locks, results
<1>2. ASSUME NEW i \in Instances, FetchMessage(i) PROVE TypeInv'
  <2> DEFINE n == position[i] + 1
             r == [worker[i] EXCEPT !.pc = "commit", !.offset = n, !.vote = votesLog[n]]
  <2>1. n \in 1..Len(votesLog) /\ n \in Nat /\ n # 0 /\ n <= Len(votesLog) /\ votesLog[n] \in VoteIDs
    BY <1>2, <1>l DEF FetchMessage, TypeOK
  <2>2. position' \in [Instances -> 0..Len(votesLog) \cup {None}]
    BY <1>2, <2>1 DEF FetchMessage, TypeOK
  <2>3. overtaken' \in 0..Len(votesLog)
    <3> HIDE DEF n
    <3>1. overtaken \in Nat /\ overtaken <= Len(votesLog)
      BY DEF TypeOK
    <3>2. {overtaken, n} \subseteq Nat
      BY <2>1, <3>1
    <3>3. Earliest({overtaken, n}) \in {overtaken, n, 0}
      BY <3>2, EarliestIsFirst
    <3>4. overtaken' = overtaken \/ overtaken' = Earliest({overtaken, n})
      BY <1>2 DEF FetchMessage, n
    <3> QED
      BY <1>l, <2>1, <3>1, <3>3, <3>4
  <2>4. worker' = [worker EXCEPT ![i] = r]
    BY <1>2 DEF FetchMessage
  <2>5. WorkersTyped
    <3>1. /\ r \in Worker /\ r.pc = "commit" /\ r.vote \in VoteIDs
          /\ r.offset # 0 /\ r.offset <= Len(votesLog)
      <4> HIDE DEF n
      <4> QED
        BY <2>1 DEF TypeOK, Worker
    <3> HIDE DEF r, n
    <3> QED
      BY <2>4, <3>1, WorkerType
  <2> QED
    BY <1>2, <2>2, <2>3, <2>5 DEF FetchMessage, TypeOK, WorkersTyped, ingress, locks, results
<1>2a. ASSUME NEW i \in Instances, CommitMessages(i) PROVE TypeInv'
  <2>1. /\ worker[i].vote \in VoteIDs /\ worker[i].offset \in Nat
        /\ worker[i].offset \in 1..Len(votesLog) /\ worker[i].offset <= Len(votesLog)
    BY <1>2a, <1>l DEF CommitMessages, TypeOK, HandsFull, Worker
  <2>2. committed' \in 0..Len(votesLog) /\ delivered' \subseteq 1..Len(votesLog)
    BY <1>2a, <1>l, <2>1 DEF CommitMessages, CommittedAfter, TypeOK
  <2>3. struck' \subseteq VoteIDs
    BY <1>2a, <2>1, StruckType DEF CommitMessages, TypeOK
  <2> DEFINE r == [worker[i] EXCEPT !.pc = "session", !.offset = 0]
  <2>4. worker' = [worker EXCEPT ![i] = r] \/ NextMessage(i)
    BY <1>2a DEF CommitMessages
  <2>5. r \in Worker /\ r.pc = "session" /\ r.vote \in VoteIDs /\ r.offset <= Len(votesLog)
    <3>1. worker[i] \in Worker /\ 0 <= Len(votesLog)
      BY <1>l DEF TypeOK
    <3> QED
      BY <2>1, <3>1 DEF Worker, Steps
  <2>6. WorkersTyped
    <3> HIDE DEF r
    <3> QED
      BY <2>4, <2>5, WorkerType, NextMessageType
  <2> QED
    BY <1>2a, <2>2, <2>3, <2>6 DEF CommitMessages, TypeOK, WorkersTyped, ingress, locks, results
<1>3. ASSUME NEW i \in Instances, GetSessionByID(i) PROVE TypeInv'
  <2>1. worker[i].vote \in VoteIDs
    BY <1>3 DEF GetSessionByID, HandsFull, Steps
  <2>2. WorkersTyped
    BY <1>3, <2>1, GotoType, ProcessVoteFailedType DEF GetSessionByID, Steps
  <2>3. struck' \subseteq VoteIDs
    BY <1>3, <2>1, StruckType DEF GetSessionByID, TypeOK
  <2> QED
    BY <1>3, <2>2, <2>3 DEF GetSessionByID, TypeOK, WorkersTyped, ingress, kafka, locks, results
<1>4. ASSUME NEW i \in Instances, CheckDuplicateVote(i) PROVE TypeInv'
  <2>1. worker[i].vote \in VoteIDs
    BY <1>4 DEF CheckDuplicateVote, HandsFull, Steps
  <2>2. WorkersTyped
    BY <1>4, <2>1, GotoType, ProcessVoteFailedType DEF CheckDuplicateVote, Steps
  <2>3. voteLock' \subseteq Ballots
    BY <1>4, <2>1 DEF CheckDuplicateVote, TypeOK
  <2>4. struck' \subseteq VoteIDs
    BY <1>4, <2>1, StruckType DEF CheckDuplicateVote, TypeOK
  <2> QED
    BY <1>4, <2>2, <2>3, <2>4 DEF CheckDuplicateVote, TypeOK, WorkersTyped, ingress, kafka, results
<1>5. ASSUME NEW i \in Instances, SaveVoteToMongo(i) PROVE TypeInv'
  <2>1. worker[i].vote \in VoteIDs
    BY <1>5 DEF SaveVoteToMongo, HandsFull, Steps
  <2>2. WorkersTyped
    BY <1>5, <2>1, GotoType, ProcessVoteFailedType DEF SaveVoteToMongo, Steps
  <2>3. votes' \subseteq VoteIDs
    BY <1>5, <2>1 DEF SaveVoteToMongo, TypeOK
  <2>4. struck' \subseteq VoteIDs
    BY <1>5, <2>1, StruckType DEF SaveVoteToMongo, TypeOK
  <2> QED
    BY <1>5, <2>2, <2>3, <2>4 DEF SaveVoteToMongo, TypeOK, WorkersTyped, ingress, kafka, locks, results
<1>7. ASSUME NEW i \in Instances, LookupQuestion(i) PROVE TypeInv'
  <2>1. worker[i].vote \in VoteIDs
    BY <1>7 DEF LookupQuestion, HandsFull, Steps
  <2>2. WorkersTyped
    BY <1>7, <2>1, GotoType, NextMessageType DEF LookupQuestion, Steps
  <2> QED
    BY <1>7, <2>2 DEF LookupQuestion, TypeOK, WorkersTyped, ingress, kafka, locks, results
<1>8. ASSUME NEW i \in Instances, GetVoteCountsForQuestion(i) PROVE TypeInv'
  <2>1. worker[i].vote \in VoteIDs
    BY <1>8 DEF GetVoteCountsForQuestion, HandsFull, Steps
  <2> DEFINE q == ballot[worker[i].vote].question
             all == Groups(VotesOn(q), selection)
  <2>0. NextMessage(i) \/ \E g \in GroupsRead(all) :
          worker' = [worker EXCEPT ![i] = [@ EXCEPT !.pc = "voters",
             !.tally = [question |-> q, votes |-> VotesOn(q), groups |-> g, voters |-> {}]]]
    BY <1>8 DEF GetVoteCountsForQuestion
  <2>a. all \subseteq Int
    <3>1. selection \in [VoteIDs -> Seq(Int) \ {<<>>}] /\ VotesOn(q) \subseteq VoteIDs
      BY PipelineAssumption DEF TypeOK, VotesOn
    <3> QED
      BY <3>1, GroupsType
  <2> DEFINE r(g) == [question |-> q, votes |-> VotesOn(q), groups |-> g, voters |-> {}]
  <2>2. ASSUME NEW g \in GroupsRead(all) PROVE r(g) \in Results
    <3>1. g \subseteq Int
      BY <2>a DEF GroupsRead
    <3> QED
      BY <2>1, <3>1 DEF TypeOK, Ballots, Results, VotesOn
  <2>3. CASE NextMessage(i)
    BY <1>8, <2>3, NextMessageType
       DEF GetVoteCountsForQuestion, TypeOK, WorkersTyped, ingress, kafka, locks, results
  <2>4. ASSUME NEW g \in GroupsRead(all),
               worker' = [worker EXCEPT ![i] = [@ EXCEPT !.pc = "voters", !.tally = r(g)]]
        PROVE  TypeInv'
    <3> HIDE DEF r, all
    <3> DEFINE w == [worker[i] EXCEPT !.pc = "voters", !.tally = r(g)]
    <3>1. w \in Worker /\ w.pc = "voters" /\ w.vote \in VoteIDs /\ w.tally \in Results
          /\ w.offset <= Len(votesLog)
      BY <2>1, <2>2 DEF TypeOK, Worker, Steps
    <3>2. worker' = [worker EXCEPT ![i] = w]
      BY <2>4
    <3> HIDE DEF w
    <3>3. WorkersTyped
      BY <3>1, <3>2, WorkerType
    <3> QED
      BY <1>8, <3>3 DEF GetVoteCountsForQuestion, TypeOK, WorkersTyped, ingress, kafka, locks, results
  <2> QED
    BY <2>0, <2>3, <2>4
<1>9. ASSUME NEW i \in Instances, GetUniqueVotersCount(i) PROVE TypeInv'
  <2>1. worker[i].vote \in VoteIDs /\ worker[i].tally \in Results
    BY <1>9 DEF GetUniqueVotersCount, HandsFull, Steps
  <2>2. PICK o : worker' = [worker EXCEPT ![i] = [@ EXCEPT !.pc = "cacheResults",
           !.tally.voters =
              IF o = "ok" THEN {ObjectIDFromHex(ballot[v].participant) :
                                  v \in VotesOn(worker[i].tally.question)}
              ELSE {}]]
    BY <1>9 DEF GetUniqueVotersCount
  <2> DEFINE vs == IF o = "ok" THEN {ObjectIDFromHex(ballot[v].participant) :
                                       v \in VotesOn(worker[i].tally.question)}
                   ELSE {}
             t == [worker[i].tally EXCEPT !.voters = vs]
             r == [worker[i] EXCEPT !.pc = "cacheResults", !.tally = t]
  <2>3. vs \in SUBSET (Participants \cup {NilObjectID})
    BY PipelineAssumption DEF TypeOK, VotesOn, ObjectIDFromHex, Ballots
  <2>4. t \in Results
    <3> HIDE DEF vs
    <3> QED
      BY <2>1, <2>3 DEF Results
  <2>5. /\ r \in Worker /\ r.pc = "cacheResults" /\ r.vote \in VoteIDs
        /\ r.tally \in Results /\ r.offset <= Len(votesLog)
    <3> HIDE DEF t
    <3> QED
      BY <2>1, <2>4 DEF TypeOK, Worker, Steps
  <2>6. worker' = [worker EXCEPT ![i] = r]
    BY <2>2
  <2>7. WorkersTyped
    <3> HIDE DEF r
    <3> QED
      BY <2>5, <2>6, WorkerType
  <2> QED
    BY <1>9, <2>7 DEF GetUniqueVotersCount, TypeOK, WorkersTyped, ingress, kafka, locks, results
<1>10. ASSUME NEW i \in Instances, CacheResultsInRedis(i) PROVE TypeInv'
  <2>1. worker[i].vote \in VoteIDs /\ worker[i].tally \in Results
    BY <1>10 DEF CacheResultsInRedis, HandsFull, Steps
  <2>2. WorkersTyped
    BY <1>10, <2>1, GotoType DEF CacheResultsInRedis, Steps
  <2>3. resultsCache' \in [QuestionIDs -> Results \cup {None}]
    BY <1>10, <2>1 DEF CacheResultsInRedis, TypeOK, Results
  <2> QED
    BY <1>10, <2>2, <2>3 DEF CacheResultsInRedis, TypeOK, WorkersTyped, ingress, kafka, locks
<1>11. ASSUME NEW i \in Instances, EmitResultsUpdated(i) PROVE TypeInv'
  <2>1. worker[i].tally \in Results
    BY <1>11 DEF EmitResultsUpdated, HandsFull
  <2>2. WorkersTyped
    BY <1>11, NextMessageType DEF EmitResultsUpdated
  <2>3. updates' \in Seq(Results)
    BY <1>11, <2>1, ProduceType DEF EmitResultsUpdated, ProduceResults, TypeOK
  <2> QED
    BY <1>11, <2>2, <2>3 DEF EmitResultsUpdated, TypeOK, WorkersTyped, ingress, kafka, locks
<1>12. ASSUME NEW i \in Instances, Rebalance(i) PROVE TypeInv'
  <2>1. position' \in [Instances -> 0..Len(votesLog) \cup {None}]
    BY <1>12 DEF Rebalance, StartOffset, TypeOK
  <2> DEFINE all == {overtaken} \cup {worker[j].offset : j \in Instances}
  <2>2. \A n \in all : n \in Nat /\ n <= Len(votesLog)
    BY DEF TypeOK, Worker
  <2>3. overtaken' = Earliest(all)
    BY <1>12 DEF Rebalance
  <2>4. overtaken' \in 0..Len(votesLog)
    <3> HIDE DEF all
    <3>1. Earliest(all) \in all \cup {0}
      BY <2>2, EarliestIsFirst
    <3> QED
      BY <1>l, <2>2, <2>3, <3>1
  <2> QED
    BY <1>12, <2>1, <2>4 DEF Rebalance, TypeOK, HandsFull, ingress, locks, results
<1>12a. ASSUME NEW i \in Instances, Rejoin(i) PROVE TypeInv'
  BY <1>12a DEF Rejoin, TypeOK, HandsFull, ingress, locks, results
<1>13. ASSUME NEW i \in Instances, Crash(i) PROVE TypeInv'
  <2>1. WorkersTyped
    BY <1>13, <1>l, IdleType DEF Crash, TypeOK, HandsFull, Steps, WorkersTyped
  <2>2. worker[i].vote \in VoteIDs \cup {None} /\ struck' \subseteq VoteIDs
    BY <1>13 DEF Crash, TypeOK, Worker
  <2>3. position' \in [Instances -> 0..Len(votesLog) \cup {None}]
    BY <1>13 DEF Crash, TypeOK
  <2> QED
    BY <1>13, <2>1, <2>2, <2>3 DEF Crash, TypeOK, WorkersTyped, ingress, locks, results
<1>14. ASSUME NEW i \in Instances, Restart(i) PROVE TypeInv'
  BY <1>14, NextMessageType DEF Restart, TypeOK, WorkersTyped, ingress, kafka, locks, results
<1>15. ASSUME NEW k \in Ballots, LockExpires(k) PROVE TypeInv'
  BY <1>15 DEF LockExpires, TypeOK, HandsFull, ingress, kafka, results
<1>16. ASSUME NEW q \in QuestionIDs, ResultsExpire(q) PROVE TypeInv'
  BY <1>16 DEF ResultsExpire, TypeOK, HandsFull, ingress, kafka, locks
<1>18. CASE UNCHANGED vars
  BY <1>18 DEF vars, TypeOK, HandsFull, ingress, kafka, locks, results
<1> QED
  BY <1>1, <1>2, <1>2a, <1>3, <1>4, <1>5, <1>7, <1>8, <1>9, <1>10, <1>11, <1>12,
     <1>12a, <1>13, <1>14, <1>15, <1>16, <1>18
     DEF Next, VoteConsumer, Environment

\* Type correctness: every variable keeps its type; a worker in the middle of
\* a message holds that message.
THEOREM TypeCorrect == Spec => [](TypeOK /\ HandsFull)
<1>1. Init => TypeInv
  BY TypeInit
<1>2. TypeInv /\ [Next]_vars => TypeInv'
  BY TypeStep
<1> QED
  BY <1>1, <1>2, PTL DEF Spec, TypeInv

-----------------------------------------------------------------------------
(* One vote per lock.                                                       *)
(*                                                                          *)
(* OneVotePerLock alone is not inductive: it says nothing of the vote that  *)
(* a consumer is about to insert.  A consumer between checkDuplicateVote    *)
(* and SaveVoteToMongo has a claim to its ballot, and so has a stored vote. *)
(* As long as the lock of a ballot never lapsed it is held whenever there   *)
(* is a claim, and there is at most one.                                    *)

Saving(i, k) == worker[i].pc = "save" /\ ballot[worker[i].vote] = k
Saved(v, k) == v \in votes /\ ballot[v] = k

ClaimsLocked(k) ==
  /\ \A i \in Instances : Saving(i, k) => k \in voteLock
  /\ \A v \in VoteIDs : Saved(v, k) => k \in voteLock

OneClaim(k) ==
  /\ \A i, j \in Instances : Saving(i, k) /\ Saving(j, k) => i = j
  /\ \A v, w \in VoteIDs : Saved(v, k) /\ Saved(w, k) => v = w
  /\ \A i \in Instances, v \in VoteIDs : ~(Saving(i, k) /\ Saved(v, k))

LockInv == \A k \in Ballots \ lapsed : ClaimsLocked(k) /\ OneClaim(k)

\* No consumer arrives at the insert in this step.
NoNewSave ==
  \A j \in Instances :
    worker'[j].pc = "save" => worker[j].pc = "save" /\ worker'[j].vote = worker[j].vote

\* Steps that neither arrive at the insert nor insert, and that unlock only
\* what lapses, keep LockInv.
LEMMA LockKept ==
  ASSUME TypeInv, LockInv, NoNewSave, UNCHANGED <<ballot, votes>>,
         lapsed \subseteq lapsed', voteLock \subseteq voteLock' \cup lapsed'
  PROVE  LockInv'
<1> SUFFICES ASSUME NEW k \in Ballots, k \notin lapsed'
             PROVE  ClaimsLocked(k)' /\ OneClaim(k)'
  BY DEF LockInv
<1>1. ClaimsLocked(k) /\ OneClaim(k)
  BY DEF LockInv
<1>2. \A i \in Instances : Saving(i, k)' => Saving(i, k)
  BY DEF NoNewSave, Saving
<1>3. \A v \in VoteIDs : Saved(v, k)' => Saved(v, k)
  BY DEF Saved
<1>4. ClaimsLocked(k)'
  BY <1>1, <1>2, <1>3 DEF ClaimsLocked
<1>5. OneClaim(k)'
  BY <1>1, <1>2, <1>3 DEF OneClaim
<1> QED
  BY <1>4, <1>5

\* A new record for one worker that is not at the insert is no new save,
LEMMA ElsewhereNoNewSave ==
  ASSUME TypeInv, NEW i \in Instances, NEW r, r.pc # "save",
         worker' = [worker EXCEPT ![i] = r]
  PROVE  NoNewSave
BY DEF TypeInv, TypeOK, NoNewSave

\* nor is going to another call,
LEMMA GotoNoNewSave ==
  ASSUME TypeInv, NEW i \in Instances, NEW s, s # "save", Goto(i, s)
  PROVE  NoNewSave
BY DEF TypeInv, TypeOK, Goto, NoNewSave, Worker

\* the end of a message,
LEMMA NextMessageNoNewSave ==
  ASSUME TypeInv, NEW i \in Instances, NextMessage(i)
  PROVE  NoNewSave
BY ElsewhereNoNewSave, IdleType DEF NextMessage

\* or a retry.
LEMMA ProcessVoteFailedNoNewSave ==
  ASSUME TypeInv, NEW i \in Instances, NEW err, ProcessVoteFailed(i, err)
  PROVE  NoNewSave /\ worker'[i].pc # "save"
<1>1. CASE NextMessage(i)
  <2>1. worker'[i] = Idle
    BY <1>1 DEF NextMessage, TypeInv, TypeOK
  <2> QED
    BY <1>1, <2>1, IdleType, NextMessageNoNewSave
<1> DEFINE r == [worker[i] EXCEPT !.pc = "session", !.attempt = worker[i].attempt + 1]
<1>2. CASE worker' = [worker EXCEPT ![i] = r]
  <2>1. r.pc = "session"
    BY DEF TypeInv, TypeOK, Worker
  <2> HIDE DEF r
  <2>2. worker'[i] = r
    BY <1>2 DEF TypeInv, TypeOK
  <2> QED
    BY <1>2, <2>1, <2>2, ElsewhereNoNewSave
<1> QED
  BY <1>1, <1>2 DEF ProcessVoteFailed

LEMMA LockInit == Init => LockInv
<1> SUFFICES ASSUME Init PROVE LockInv
  OBVIOUS
<1>1. \A i \in Instances : worker[i].pc # "save"
  BY IdleType DEF Init
<1> QED
  BY <1>1 DEF Init, LockInv, ClaimsLocked, OneClaim, Saving, Saved

\* A consumer that took a free lock is the only one with a claim.
LEMMA CheckDuplicateVoteLock ==
  ASSUME TypeInv, LockInv, NEW i \in Instances, CheckDuplicateVote(i)
  PROVE  LockInv'
<1> DEFINE b == ballot[worker[i].vote]
<1>1. /\ UNCHANGED <<ballot, votes, lapsed>>
      /\ voteLock \subseteq voteLock'
  BY DEF CheckDuplicateVote, ingress
<1>2. CASE ProcessVoteFailed(i, "duplicate vote: %v")
  BY <1>1, <1>2, ProcessVoteFailedNoNewSave, LockKept
<1>3. CASE Goto(i, "save") /\ b \notin voteLock /\ voteLock' = voteLock \cup {b}
  <2> SUFFICES ASSUME NEW k \in Ballots, k \notin lapsed
               PROVE  ClaimsLocked(k)' /\ OneClaim(k)'
    BY <1>1 DEF LockInv
  <2>1. ClaimsLocked(k) /\ OneClaim(k)
    BY DEF LockInv
  <2>2. \A j \in Instances : Saving(j, k)' => Saving(j, k) \/ (j = i /\ k = b)
    BY <1>1, <1>3 DEF Saving, Goto, TypeInv, TypeOK, Worker
  <2>3. \A v \in VoteIDs : Saved(v, k)' <=> Saved(v, k)
    BY <1>1 DEF Saved
  <2>4. k = b => /\ \A j \in Instances : ~Saving(j, k)
                 /\ \A v \in VoteIDs : ~Saved(v, k)
    BY <1>3, <2>1 DEF ClaimsLocked
  <2>5. ClaimsLocked(k)'
    BY <1>3, <2>1, <2>2, <2>3 DEF ClaimsLocked
  <2>6. OneClaim(k)'
    BY <2>1, <2>2, <2>3, <2>4 DEF OneClaim
  <2> QED
    BY <2>5, <2>6
<1> QED
  BY <1>2, <1>3 DEF CheckDuplicateVote, TakesEffect, LockFree

\* The insert, whether the caller learns of it or not, turns the claim of the
\* consumer into the claim of the stored vote.
LEMMA SaveVoteToMongoLock ==
  ASSUME TypeInv, LockInv, NEW i \in Instances, SaveVoteToMongo(i)
  PROVE  LockInv'
<1> DEFINE b == ballot[worker[i].vote]
<1>1. /\ UNCHANGED <<ballot, voteLock, lapsed>>
      /\ worker[i].pc = "save"
      /\ votes' \subseteq votes \cup {worker[i].vote}
  BY DEF SaveVoteToMongo, ingress, locks
<1>2. NoNewSave /\ worker'[i].pc # "save"
  <2>1. CASE Goto(i, "lookup")
    BY <2>1, GotoNoNewSave DEF Goto, TypeInv, TypeOK, Worker
  <2>2. CASE ProcessVoteFailed(i, "failed to save vote: %v")
    BY <2>2, ProcessVoteFailedNoNewSave
  <2> QED
    BY <2>1, <2>2 DEF SaveVoteToMongo
<1> SUFFICES ASSUME NEW k \in Ballots, k \notin lapsed
             PROVE  ClaimsLocked(k)' /\ OneClaim(k)'
  BY <1>1 DEF LockInv
<1>3. ClaimsLocked(k) /\ OneClaim(k)
  BY DEF LockInv
<1>4. \A j \in Instances : Saving(j, k)' => Saving(j, k) /\ j # i
  BY <1>1, <1>2 DEF NoNewSave, Saving
<1>5. \A v \in VoteIDs : Saved(v, k)' => Saved(v, k) \/ (v = worker[i].vote /\ k = b)
  BY <1>1 DEF Saved
<1>6. k = b => Saving(i, k)
  BY <1>1 DEF Saving
<1>7. ClaimsLocked(k)'
  BY <1>1, <1>3, <1>4, <1>5, <1>6 DEF ClaimsLocked
<1>8. OneClaim(k)'
  BY <1>3, <1>4, <1>5, <1>6 DEF OneClaim
<1> QED
  BY <1>7, <1>8

LEMMA LockStep == TypeInv /\ LockInv /\ [Next]_vars => LockInv'
<1> SUFFICES ASSUME TypeInv, LockInv, [Next]_vars PROVE LockInv'
  OBVIOUS
<1>1. ASSUME NEW v \in VoteIDs, SubmitVoteHandler(v) PROVE LockInv'
  BY <1>1, LockKept DEF SubmitVoteHandler, NoNewSave, locks
<1>2. ASSUME NEW i \in Instances, VoteConsumer(i) PROVE LockInv'
  <2>1. CASE FetchMessage(i)
    <3> DEFINE r == [worker[i] EXCEPT !.pc = "commit", !.offset = position[i] + 1,
                                      !.vote = votesLog[position[i] + 1]]
    <3>1. worker' = [worker EXCEPT ![i] = r]
      BY <2>1 DEF FetchMessage
    <3>2. r.pc # "save"
      BY DEF TypeInv, TypeOK, Worker
    <3>3. NoNewSave
      <4> HIDE DEF r
      <4> QED
        BY <3>1, <3>2, ElsewhereNoNewSave
    <3> QED
      BY <2>1, <3>3, LockKept DEF FetchMessage, ingress, locks
  <2>1a. CASE CommitMessages(i)
    <3> DEFINE r == [worker[i] EXCEPT !.pc = "session", !.offset = 0]
    <3>1. worker' = [worker EXCEPT ![i] = r] \/ NextMessage(i)
      BY <2>1a DEF CommitMessages
    <3>2. r.pc # "save"
      BY DEF TypeInv, TypeOK, Worker
    <3>3. NoNewSave
      <4> HIDE DEF r
      <4> QED
        BY <3>1, <3>2, ElsewhereNoNewSave, NextMessageNoNewSave
    <3> QED
      BY <2>1a, <3>3, LockKept DEF CommitMessages, ingress, locks
  <2>2. CASE GetSessionByID(i)
    <3>1. NoNewSave
      BY <2>2, GotoNoNewSave, ProcessVoteFailedNoNewSave DEF GetSessionByID
    <3> QED
      BY <2>2, <3>1, LockKept DEF GetSessionByID, ingress, locks
  <2>3. CASE CheckDuplicateVote(i)
    BY <2>3, CheckDuplicateVoteLock
  <2>4. CASE SaveVoteToMongo(i)
    BY <2>4, SaveVoteToMongoLock
  <2>6. CASE LookupQuestion(i)
    <3>1. NoNewSave
      BY <2>6, GotoNoNewSave, NextMessageNoNewSave DEF LookupQuestion
    <3> QED
      BY <2>6, <3>1, LockKept DEF LookupQuestion, ingress, locks
  <2>7. CASE GetVoteCountsForQuestion(i)
    <3>1. NextMessage(i) \/ \E t : worker' = [worker EXCEPT ![i] = [@ EXCEPT !.pc = "voters", !.tally = t]]
      BY <2>7 DEF GetVoteCountsForQuestion
    <3>2. NoNewSave
      <4>1. CASE NextMessage(i)
        BY <4>1, NextMessageNoNewSave
      <4>2. ASSUME NEW t, worker' = [worker EXCEPT ![i] = [@ EXCEPT !.pc = "voters", !.tally = t]]
            PROVE  NoNewSave
        <5> DEFINE r == [worker[i] EXCEPT !.pc = "voters", !.tally = t]
        <5>1. worker' = [worker EXCEPT ![i] = r]
          BY <4>2
        <5>2. r.pc # "save"
          BY DEF TypeInv, TypeOK, Worker
        <5> HIDE DEF r
        <5> QED
          BY <5>1, <5>2, ElsewhereNoNewSave
      <4> QED
        BY <3>1, <4>1, <4>2
    <3> QED
      BY <2>7, <3>2, LockKept DEF GetVoteCountsForQuestion, ingress, locks
  <2>8. CASE GetUniqueVotersCount(i)
    <3>1. PICK vs : worker' = [worker EXCEPT ![i] =
                       [@ EXCEPT !.pc = "cacheResults", !.tally.voters = vs]]
      BY <2>8 DEF GetUniqueVotersCount
    <3> DEFINE r == [worker[i] EXCEPT !.pc = "cacheResults", !.tally.voters = vs]
    <3>2. r.pc # "save"
      BY DEF TypeInv, TypeOK, Worker
    <3>3. NoNewSave
      <4>1. worker' = [worker EXCEPT ![i] = r]
        BY <3>1
      <4> HIDE DEF r
      <4> QED
        BY <3>2, <4>1, ElsewhereNoNewSave
    <3> QED
      BY <2>8, <3>3, LockKept DEF GetUniqueVotersCount, ingress, locks
  <2>9. CASE CacheResultsInRedis(i)
    <3>1. NoNewSave
      BY <2>9, GotoNoNewSave DEF CacheResultsInRedis
    <3> QED
      BY <2>9, <3>1, LockKept DEF CacheResultsInRedis, ingress, locks
  <2>10. CASE EmitResultsUpdated(i)
    <3>1. NoNewSave
      BY <2>10, NextMessageNoNewSave DEF EmitResultsUpdated
    <3> QED
      BY <2>10, <3>1, LockKept DEF EmitResultsUpdated, ingress, locks
  <2> QED
    BY <1>2, <2>1, <2>1a, <2>2, <2>3, <2>4, <2>6, <2>7, <2>8, <2>9, <2>10 DEF VoteConsumer
<1>3. CASE Environment
  <2>1. ASSUME NEW i \in Instances, Rebalance(i) PROVE LockInv'
    BY <2>1, LockKept DEF Rebalance, NoNewSave, ingress, locks
  <2>1a. ASSUME NEW i \in Instances, Rejoin(i) PROVE LockInv'
    BY <2>1a, LockKept DEF Rejoin, NoNewSave, ingress, locks
  <2>2. ASSUME NEW i \in Instances, Crash(i) PROVE LockInv'
    BY <2>2, LockKept, IdleType, ElsewhereNoNewSave DEF Crash, ingress, locks
  <2>3. ASSUME NEW i \in Instances, Restart(i) PROVE LockInv'
    BY <2>3, LockKept, NextMessageNoNewSave DEF Restart, ingress, locks
  <2>4. ASSUME NEW k \in Ballots, LockExpires(k) PROVE LockInv'
    BY <2>4, LockKept DEF LockExpires, NoNewSave, ingress
  <2>5. ASSUME NEW q \in QuestionIDs, ResultsExpire(q) PROVE LockInv'
    BY <2>5, LockKept DEF ResultsExpire, NoNewSave, ingress, locks
  <2> QED
    BY <1>3, <2>1, <2>1a, <2>2, <2>3, <2>4, <2>5 DEF Environment
<1>4. CASE UNCHANGED vars
  BY <1>4, LockKept DEF vars, NoNewSave, ingress, locks
<1> QED
  BY <1>1, <1>2, <1>3, <1>4 DEF Next

\* As long as its vote lock has never lapsed, a participant has at most one
\* vote on a question in MongoDB.
THEOREM OneVotePerLockHolds == Spec => []OneVotePerLock
<1>1. Init => TypeInv /\ LockInv
  BY TypeInit, LockInit
<1>2. TypeInv /\ LockInv /\ [Next]_vars => (TypeInv /\ LockInv)'
  BY TypeStep, LockStep
<1>3. TypeInv /\ LockInv => OneVotePerLock
  BY DEF TypeInv, TypeOK, LockInv, OneClaim, Saved, OneVotePerLock
<1> QED
  BY <1>1, <1>2, <1>3, PTL DEF Spec

-----------------------------------------------------------------------------
(* Redelivery.                                                              *)
(*                                                                          *)
(* As long as no message was in a reader's hands, uncommitted, when the     *)
(* partition moved, only the owner has one in its hands, next in line, and  *)
(* what was delivered is behind the committed offset and every position an  *)
(* owner may have.  After that the same holds still of the offsets before   *)
(* the first such message: late commits move the group's offset back to     *)
(* that message at most.                                                    *)

Clean(n) == overtaken = 0 \/ n < overtaken

DeliveredBehind(n) ==
  /\ n <= committed
  /\ owner # None => position[owner] # None /\ n <= position[owner]
  /\ \A i \in Instances : worker[i].pc = "commit" => n < worker[i].offset

OwnersHand(i) == owner = i /\ position[i] = worker[i].offset

DeliveryInv ==
  /\ \A n \in delivered : Clean(n) => DeliveredBehind(n)
  /\ \A i \in Instances : worker[i].pc = "commit" /\ Clean(worker[i].offset) => OwnersHand(i)

LEMMA DeliveryInit == Init => DeliveryInv
BY IdleType DEF Init, DeliveryInv

\* A step of a consumer changes no other one.
LEMMA OneWorkerSteps ==
  ASSUME TypeInv, NEW i \in Instances, VoteConsumer(i) \/ Crash(i) \/ Restart(i),
         NEW j \in Instances, j # i
  PROVE  worker'[j] = worker[j]
<1> USE DEF TypeInv, TypeOK
<1>1. ASSUME NEW s, Goto(i, s) PROVE worker'[j] = worker[j]
  BY <1>1 DEF Goto
<1>2. ASSUME NextMessage(i) PROVE worker'[j] = worker[j]
  BY <1>2 DEF NextMessage
<1>3. ASSUME NEW err, ProcessVoteFailed(i, err) PROVE worker'[j] = worker[j]
  BY <1>2, <1>3 DEF ProcessVoteFailed
<1>4. CASE FetchMessage(i)
  BY <1>4 DEF FetchMessage
<1>4a. CASE CommitMessages(i)
  BY <1>2, <1>4a DEF CommitMessages
<1>5. CASE GetVoteCountsForQuestion(i)
  BY <1>2, <1>5 DEF GetVoteCountsForQuestion
<1>6. CASE GetUniqueVotersCount(i)
  BY <1>6 DEF GetUniqueVotersCount
<1>7. CASE Crash(i)
  BY <1>7 DEF Crash
<1> QED
  BY <1>1, <1>2, <1>3, <1>4, <1>4a, <1>5, <1>6, <1>7
     DEF VoteConsumer, GetSessionByID, CheckDuplicateVote, SaveVoteToMongo,
         LookupQuestion, CacheResultsInRedis, EmitResultsUpdated, Restart

\* The calls made for a message are no fetch and no commit of i,
Processing(i) ==
  \/ GetSessionByID(i) \/ CheckDuplicateVote(i) \/ SaveVoteToMongo(i) \/ LookupQuestion(i)
  \/ GetVoteCountsForQuestion(i) \/ GetUniqueVotersCount(i) \/ CacheResultsInRedis(i)
  \/ EmitResultsUpdated(i)

\* and leave the consumer without an uncommitted message.
LEMMA ProcessingHoldsNone ==
  ASSUME TypeInv, NEW i \in Instances, Processing(i)
  PROVE  /\ UNCHANGED <<votesLog, committed, position, owner, delivered, overtaken>>
         /\ worker'[i].pc \notin {"commit", "down"}
         /\ worker[i].pc \in Steps
<1> USE DEF TypeInv, TypeOK
<1>1. ASSUME NEW s \in Steps, Goto(i, s) PROVE worker'[i].pc \notin {"commit", "down"}
  BY <1>1 DEF Goto, Worker, Steps
<1>2. ASSUME NextMessage(i) PROVE worker'[i].pc \notin {"commit", "down"}
  BY <1>2, IdleType DEF NextMessage
<1>3. ASSUME NEW err, ProcessVoteFailed(i, err) PROVE worker'[i].pc \notin {"commit", "down"}
  BY <1>2, <1>3 DEF ProcessVoteFailed, Worker
<1>4. UNCHANGED <<votesLog, committed, position, owner, delivered, overtaken>>
  BY DEF Processing, kafka, GetSessionByID, CheckDuplicateVote, SaveVoteToMongo, LookupQuestion,
         GetVoteCountsForQuestion, GetUniqueVotersCount, CacheResultsInRedis, EmitResultsUpdated
<1>5. worker[i].pc \in Steps
  BY DEF Processing, Steps, GetSessionByID, CheckDuplicateVote, SaveVoteToMongo, LookupQuestion,
         GetVoteCountsForQuestion, GetUniqueVotersCount, CacheResultsInRedis, EmitResultsUpdated
<1>6. CASE GetVoteCountsForQuestion(i)
  BY <1>2, <1>4, <1>5, <1>6 DEF GetVoteCountsForQuestion, Worker
<1>7. CASE GetUniqueVotersCount(i)
  BY <1>4, <1>5, <1>7 DEF GetUniqueVotersCount, Worker
<1> QED
  BY <1>1, <1>2, <1>3, <1>4, <1>5, <1>6, <1>7
     DEF Processing, Steps, GetSessionByID, CheckDuplicateVote, SaveVoteToMongo,
         LookupQuestion, CacheResultsInRedis, EmitResultsUpdated

\* A step that moves no position of an owner, delivers nothing and puts nothing
\* into anybody's hands keeps DeliveryInv.
LEMMA DeliveryKept ==
  ASSUME TypeInv, DeliveryInv, UNCHANGED <<committed, delivered, overtaken>>,
         owner' \in {owner, None}, owner' # None => position'[owner] = position[owner],
         \A j \in Instances : worker'[j].pc = "commit" =>
            /\ worker[j].pc = "commit" /\ worker'[j].offset = worker[j].offset
            /\ owner = j => owner' = owner
  PROVE  DeliveryInv'
<1>1. ASSUME NEW n \in delivered', Clean(n)' PROVE DeliveredBehind(n)'
  <2>1. n \in delivered /\ Clean(n) /\ DeliveredBehind(n)
    BY <1>1 DEF DeliveryInv, Clean
  <2> QED
    BY <2>1 DEF DeliveredBehind
<1>2. ASSUME NEW j \in Instances, worker'[j].pc = "commit", Clean(worker[j].offset)'
      PROVE  OwnersHand(j)'
  <2>1. worker'[j].offset = worker[j].offset /\ worker[j].pc = "commit"
    BY <1>2
  <2>2. Clean(worker[j].offset)
    BY <1>2, <2>1 DEF Clean
  <2>3. OwnersHand(j) /\ j # None
    BY <2>1, <2>2, PipelineAssumption DEF DeliveryInv
  <2> QED
    BY <1>2, <2>1, <2>3 DEF OwnersHand
<1> QED
  BY <1>1, <1>2 DEF DeliveryInv

LEMMA FetchMessageDelivery ==
  ASSUME TypeInv, DeliveryInv, NEW i \in Instances, FetchMessage(i)
  PROVE  DeliveryInv'
<1> USE DEF TypeInv, TypeOK
<1>0. PICK m : m = position[i] + 1
  OBVIOUS
<1>1. /\ position[i] \in Nat /\ m \in Nat /\ m # 0 /\ position[i] # None
      /\ position' = [position EXCEPT ![i] = m]
      /\ UNCHANGED <<committed, owner, delivered>>
  BY <1>0 DEF FetchMessage
<1>2. /\ worker'[i].pc = "commit" /\ worker'[i].offset = m
      /\ \A j \in Instances \ {i} : worker'[j] = worker[j]
  BY <1>0 DEF FetchMessage, Worker
<1>3. overtaken \in Nat /\ overtaken' \in Nat /\ delivered \subseteq Nat /\ i # None
  <2>1. TypeInv'
    BY TypeStep DEF Next, VoteConsumer
  <2> QED
    BY <2>1, PipelineAssumption
<1>4. IF owner = i THEN overtaken' = overtaken ELSE overtaken' = Earliest({overtaken, m})
  BY <1>0 DEF FetchMessage
<1>5. owner # i => /\ overtaken' # 0 /\ overtaken' <= m
                   /\ overtaken # 0 => overtaken' <= overtaken
  <2> DEFINE S == {overtaken, m}
  <2>1. S \in SUBSET Nat /\ m \in S \ {0} /\ overtaken \in S
    BY <1>1, <1>3
  <2> HIDE DEF S
  <2>2. /\ Earliest(S) # 0 /\ Earliest(S) <= m
        /\ overtaken # 0 => Earliest(S) <= overtaken
    BY <2>1, EarliestIsFirst
  <2> QED
    BY <1>4, <2>2 DEF S
<1>6. \A n \in Nat : Clean(n)' => Clean(n) /\ (owner # i => n < m)
  BY <1>1, <1>3, <1>4, <1>5 DEF Clean
<1>7. ASSUME NEW n \in delivered', Clean(n)' PROVE DeliveredBehind(n)'
  <2>1. n \in Nat /\ n \in delivered /\ DeliveredBehind(n) /\ (owner # i => n < m)
    BY <1>1, <1>3, <1>6, <1>7 DEF DeliveryInv
  <2>2. owner = i => n <= position[i]
    BY <1>3, <2>1 DEF DeliveredBehind
  <2>3. n < m
    BY <1>0, <1>1, <2>1, <2>2
  <2>4. owner' # None => position'[owner'] # None /\ n <= position'[owner']
    <3>1. m # None
      BY <1>1, PipelineAssumption
    <3> QED
      BY <1>1, <1>3, <2>1, <2>3, <3>1 DEF DeliveredBehind
  <2>5. \A j \in Instances : worker'[j].pc = "commit" => n < worker'[j].offset
    BY <1>2, <2>1, <2>3 DEF DeliveredBehind
  <2> QED
    BY <1>1, <2>1, <2>4, <2>5 DEF DeliveredBehind
<1>8. ASSUME NEW j \in Instances, worker'[j].pc = "commit", Clean(worker[j].offset)'
      PROVE  OwnersHand(j)'
  <2>1. CASE j = i
    <3>1. overtaken' = 0 \/ m < overtaken'
      BY <1>2, <1>8, <2>1 DEF Clean
    <3>2. owner = i
      BY <1>1, <1>3, <1>5, <3>1
    <3> QED
      BY <1>1, <1>2, <2>1, <3>2 DEF OwnersHand
  <2>2. CASE j # i
    <3>1. worker'[j] = worker[j] /\ worker[j].offset \in Nat
      BY <1>2, <2>2 DEF Worker
    <3>2. Clean(worker[j].offset)
      BY <1>6, <1>8, <3>1 DEF Clean
    <3>3. OwnersHand(j)
      BY <1>8, <3>1, <3>2 DEF DeliveryInv
    <3> QED
      BY <1>1, <2>2, <3>1, <3>3 DEF OwnersHand
  <2> QED
    BY <2>1, <2>2
<1> QED
  BY <1>7, <1>8 DEF DeliveryInv

LEMMA CommitMessagesDelivery ==
  ASSUME TypeInv, DeliveryInv, NEW i \in Instances, CommitMessages(i)
  PROVE  DeliveryInv'
<1> USE DEF TypeInv, TypeOK
<1>0. PICK m : m = worker[i].offset
  OBVIOUS
<1>1. /\ worker[i].pc = "commit" /\ m \in Nat /\ committed \in Nat /\ overtaken \in Nat
      /\ delivered \subseteq Nat /\ i # None
      /\ \A j \in Instances : worker[j].offset \in Nat
      /\ UNCHANGED <<position, owner, overtaken>>
  BY <1>0, PipelineAssumption DEF CommitMessages, Worker
<1>2. \/ committed' \in {m, committed} /\ delivered' = delivered
      \/ committed' = m /\ delivered' = delivered \cup {m}
  BY <1>0 DEF CommitMessages, CommittedAfter, TakesEffect
<1>3. worker'[i].pc # "commit"
  <2>1. CASE NextMessage(i)
    BY <2>1, IdleType DEF NextMessage
  <2>2. CASE worker' = [worker EXCEPT ![i] = [@ EXCEPT !.pc = "session", !.offset = 0]]
    BY <2>2 DEF Worker
  <2> QED
    BY <2>1, <2>2 DEF CommitMessages
<1>4. \A j \in Instances : j # i => worker'[j] = worker[j]
  BY OneWorkerSteps DEF VoteConsumer
<1>5. \A n \in Nat : Clean(n)' <=> Clean(n)
  BY <1>1 DEF Clean
<1>6. ASSUME NEW n \in delivered, Clean(n) PROVE DeliveredBehind(n)'
  <2>1. DeliveredBehind(n) /\ n \in Nat /\ n < m
    BY <1>0, <1>1, <1>6 DEF DeliveryInv, DeliveredBehind
  <2>2. n <= committed'
    BY <1>1, <1>2, <2>1 DEF DeliveredBehind
  <2> QED
    BY <1>1, <1>3, <1>4, <2>1, <2>2 DEF DeliveredBehind
<1>7. ASSUME Clean(m), committed' = m PROVE DeliveredBehind(m)'
  <2>1. owner = i /\ position[i] = m
    BY <1>0, <1>1, <1>7 DEF DeliveryInv, OwnersHand
  <2>2. ASSUME NEW j \in Instances, worker'[j].pc = "commit" PROVE m < worker'[j].offset
    <3>1. j # i /\ worker'[j] = worker[j] /\ worker[j].pc = "commit"
      BY <1>3, <1>4, <2>2
    <3>2. ~Clean(worker[j].offset)
      BY <2>1, <3>1 DEF DeliveryInv, OwnersHand
    <3>3. overtaken # 0 /\ overtaken <= worker[j].offset
      BY <1>1, <3>2 DEF Clean
    <3> QED
      BY <1>1, <1>7, <3>1, <3>3 DEF Clean
  <2>3. m # None
    BY <1>1, PipelineAssumption
  <2> QED
    BY <1>1, <1>7, <2>1, <2>2, <2>3 DEF DeliveredBehind
<1>8. \A n \in delivered' : Clean(n)' => DeliveredBehind(n)'
  <2> SUFFICES ASSUME NEW n \in delivered', Clean(n)' PROVE DeliveredBehind(n)'
    OBVIOUS
  <2>1. n \in Nat /\ Clean(n)
    BY <1>1, <1>2, <1>5
  <2> QED
    BY <1>2, <1>6, <1>7, <2>1
<1>9. ASSUME NEW j \in Instances, worker'[j].pc = "commit", Clean(worker[j].offset)'
      PROVE  OwnersHand(j)'
  <2>1. j # i /\ worker'[j] = worker[j] /\ worker[j].pc = "commit" /\ worker[j].offset \in Nat
    BY <1>1, <1>3, <1>4, <1>9
  <2>2. Clean(worker[j].offset)
    BY <1>5, <1>9, <2>1 DEF Clean
  <2> QED
    BY <1>1, <2>1, <2>2 DEF DeliveryInv, OwnersHand
<1> QED
  BY <1>8, <1>9 DEF DeliveryInv

LEMMA RebalanceDelivery ==
  ASSUME TypeInv, DeliveryInv, NEW i \in Instances, Rebalance(i)
  PROVE  DeliveryInv'
<1> USE DEF TypeInv, TypeOK
<1> DEFINE all == {overtaken} \cup {worker[j].offset : j \in Instances}
<1>1. /\ overtaken \in Nat /\ all \in SUBSET Nat /\ delivered \subseteq Nat /\ committed \in Nat
      /\ \A j \in Instances : worker[j].offset \in all /\ worker[j].offset \in Nat
      /\ overtaken \in all
  BY DEF Worker
<1>2. /\ overtaken' = Earliest(all) /\ owner' = i
      /\ UNCHANGED <<committed, delivered, worker>>
      /\ position'[i] = committed /\ committed # None
  BY PipelineAssumption DEF Rebalance, StartOffset
<1>3. \A j \in Instances : worker[j].pc = "commit" => worker[j].offset # 0
  BY DEF HandsFull
<1> HIDE DEF all
<1>e. /\ Earliest(all) \in all \cup {0}
      /\ \A n \in all \ {0} : Earliest(all) # 0 /\ Earliest(all) <= n
  BY <1>1, EarliestIsFirst
<1>4. /\ Earliest(all) \in Nat
      /\ overtaken # 0 => Earliest(all) # 0 /\ Earliest(all) <= overtaken
      /\ \A j \in Instances : worker[j].pc = "commit" =>
            Earliest(all) # 0 /\ Earliest(all) <= worker[j].offset
  BY <1>1, <1>3, <1>e
<1>5. ASSUME NEW n \in delivered', Clean(n)' PROVE DeliveredBehind(n)'
  <2>1. n \in Nat /\ n \in delivered /\ Clean(n)
    BY <1>1, <1>2, <1>4, <1>5 DEF Clean
  <2>2. DeliveredBehind(n)
    BY <2>1 DEF DeliveryInv
  <2> QED
    BY <1>2, <2>2 DEF DeliveredBehind
<1>6. \A j \in Instances : worker'[j].pc = "commit" => ~Clean(worker[j].offset)'
  BY <1>1, <1>2, <1>4 DEF Clean
<1> QED
  BY <1>5, <1>6 DEF DeliveryInv

LEMMA DeliveryStep == TypeInv /\ DeliveryInv /\ [Next]_vars => DeliveryInv'
<1> SUFFICES ASSUME TypeInv, DeliveryInv, [Next]_vars PROVE DeliveryInv'
  OBVIOUS
<1>1. ASSUME NEW i \in Instances, Processing(i) PROVE DeliveryInv'
  <2>1. \A j \in Instances : j # i => worker'[j] = worker[j]
    BY <1>1, OneWorkerSteps DEF Processing, VoteConsumer
  <2> QED
    BY <1>1, <2>1, ProcessingHoldsNone, DeliveryKept
<1>2. ASSUME NEW i \in Instances, Rejoin(i) PROVE DeliveryInv'
  BY <1>2, DeliveryKept DEF Rejoin, Outdated, TypeInv, TypeOK
<1>3. ASSUME NEW i \in Instances, Crash(i) PROVE DeliveryInv'
  <2>1. \A j \in Instances : j # i => worker'[j] = worker[j]
    BY <1>3, OneWorkerSteps
  <2>2. worker'[i].pc = "down"
    BY <1>3, IdleType DEF Crash, TypeInv, TypeOK
  <2>3. /\ owner' \in {owner, None} /\ owner' # None => position'[owner] = position[owner]
        /\ \A j \in Instances : j # i /\ owner = j => owner' = owner
    BY <1>3 DEF Crash, TypeInv, TypeOK
  <2> QED
    BY <1>3, <2>1, <2>2, <2>3, DeliveryKept DEF Crash
<1>4. ASSUME NEW i \in Instances, Restart(i) PROVE DeliveryInv'
  <2>1. \A j \in Instances : j # i => worker'[j] = worker[j]
    BY <1>4, OneWorkerSteps
  <2>2. worker'[i].pc = "read"
    BY <1>4, IdleType DEF Restart, NextMessage, TypeInv, TypeOK
  <2> QED
    BY <1>4, <2>1, <2>2, DeliveryKept DEF Restart, kafka
<1>5. ASSUME UNCHANGED <<committed, position, owner, delivered, overtaken, worker>>
      PROVE  DeliveryInv'
  BY <1>5, DeliveryKept
<1>6. \/ \E i \in Instances : \/ FetchMessage(i) \/ CommitMessages(i) \/ Rebalance(i)
                              \/ Processing(i) \/ Rejoin(i) \/ Crash(i) \/ Restart(i)
      \/ UNCHANGED <<committed, position, owner, delivered, overtaken, worker>>
  BY DEF Next, VoteConsumer, Processing, Environment, vars, kafka, SubmitVoteHandler, LockExpires,
         ResultsExpire
<1> QED
  BY <1>1, <1>2, <1>3, <1>4, <1>5, <1>6, FetchMessageDelivery, CommitMessagesDelivery,
     RebalanceDelivery

\* A message goes to processVoteMessage only when its commit succeeds.
LEMMA OnlyCommitStarts ==
  ASSUME TypeInv, [Next]_vars, NEW i \in Instances,
         worker[i].pc = "commit", worker'[i].pc = "session"
  PROVE  CommitMessages(i)
<1>1. ASSUME NEW j \in Instances, VoteConsumer(j) \/ Crash(j) \/ Restart(j)
      PROVE  j = i
  BY <1>1, OneWorkerSteps
<1>2. ~Crash(i) /\ ~Restart(i)
  BY IdleType DEF Crash, Restart, TypeInv, TypeOK
<1>3. VoteConsumer(i) => CommitMessages(i)
  BY DEF VoteConsumer, FetchMessage, GetSessionByID, CheckDuplicateVote, SaveVoteToMongo,
         LookupQuestion, GetVoteCountsForQuestion, GetUniqueVotersCount, CacheResultsInRedis,
         EmitResultsUpdated
<1>4. worker' # worker
  OBVIOUS
<1>5. \E j \in Instances : VoteConsumer(j) \/ Crash(j) \/ Restart(j)
  BY <1>4 DEF Next, Environment, vars, SubmitVoteHandler, Rebalance, Rejoin, LockExpires,
              ResultsExpire
<1> QED
  BY <1>1, <1>2, <1>3, <1>5

\* An offset is handed to processVoteMessage a second time only if it, or one
\* before it, was in a reader's hands, uncommitted, when the partition moved.
THEOREM RedeliveredOnlyIfOvertakenHolds == Spec => RedeliveredOnlyIfOvertaken
<1>1. Init => TypeInv /\ DeliveryInv
  BY TypeInit, DeliveryInit
<1>2. TypeInv /\ DeliveryInv /\ [Next]_vars => (TypeInv /\ DeliveryInv)'
  BY TypeStep, DeliveryStep
<1> DEFINE Excused == \A i \in Instances :
             /\ worker[i].pc = "commit" /\ worker'[i].pc = "session"
             /\ worker[i].offset \in delivered
             => overtaken \in 1..worker[i].offset
<1>3. TypeInv /\ DeliveryInv /\ [Next]_vars => [Excused]_vars
  <2> SUFFICES ASSUME TypeInv, DeliveryInv, [Next]_vars, NEW i \in Instances,
                      worker[i].pc = "commit", worker[i].offset \in delivered
               PROVE  overtaken \in 1..worker[i].offset
    OBVIOUS
  <2>1. worker[i].offset \in Nat /\ overtaken \in Nat
    BY DEF TypeInv, TypeOK, Worker
  <2>2. ~Clean(worker[i].offset)
    BY <2>1 DEF DeliveryInv, DeliveredBehind
  <2> QED
    BY <2>1, <2>2 DEF Clean
<1> QED
  BY <1>1, <1>2, <1>3, PTL DEF Spec, RedeliveredOnlyIfOvertaken
=============================================================================
