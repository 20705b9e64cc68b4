----------------------- MODULE VotePipelineQueueProofs -----------------------
(***************************************************************************)
(* No acknowledged vote is lost but by a failure, for any number of        *)
(* instances, votes, participants and retries and for any set of faults.   *)
(*                                                                         *)
(* The argument follows a vote through the queue.  A vote answered with    *)
(* 202 is on the topic.  Offsets up to the committed one were processed or *)
(* struck, and so were those before the position of any reader, but the    *)
(* one it has in its hands uncommitted: a commit may move the group's      *)
(* offset back or forth, but never past a message nobody took.  What is    *)
(* processed stays with the consumer until the vote is stored, struck, or  *)
(* found its lock taken; and a lock is only ever taken by a vote that is   *)
(* stored, struck, or about to be stored.                                  *)
(***************************************************************************)
EXTENDS VotePipelineProofs

Logged(v) == \E n \in 1..Len(votesLog) : votesLog[n] = v

\* Votes whose offset is committed and which a consumer works on.
Working == {v \in VoteIDs : \E i \in Instances : worker[i].pc \in Steps /\ worker[i].vote = v}

Kept(v) == \E w \in votes \cup Working \cup struck : ballot[w] = ballot[v]

AcksLogged == \A v \in VoteIDs : reply[v] = "202" => Logged(v)

\* Offsets the group has passed: their votes are kept.
Handled == \A n \in 1..committed : Kept(votesLog[n])

\* So are those of the offsets a reader has passed, up to what it has in its hands.
Passed(i) ==
  /\ position[i] # None => \A n \in 1..position[i] :
        Kept(votesLog[n]) \/ (worker[i].pc = "commit" /\ n = worker[i].offset)
  /\ worker[i].pc = "commit" => \A n \in 1..(worker[i].offset - 1) : Kept(votesLog[n])

PassedAll == \A i \in Instances : Passed(i)

LockUsed ==
  \A k \in voteLock :
    \/ \E u \in votes \cup struck : ballot[u] = k
    \/ \E i \in Instances : Saving(i, k)

\* A consumer has a vote in its hands from the fetch to the last step.
Hands ==
  \A i \in Instances :
    IF worker[i].pc \in {"read", "down"} THEN worker[i].vote = None
    ELSE /\ Logged(worker[i].vote)
         /\ worker[i].pc = "commit" => worker[i].vote = votesLog[worker[i].offset]

SavedSteps == {"lookup", "count", "voters", "cacheResults", "emit"}

AfterSave == \A i \in Instances : worker[i].pc \in SavedSteps => worker[i].vote \in votes

QueueInv == AcksLogged /\ Handled /\ PassedAll /\ LockUsed /\ Hands /\ AfterSave

-----------------------------------------------------------------------------
(* What the three ways to end a step do to the consumer. *)

LEMMA GotoEffect ==
  ASSUME TypeInv, NEW i \in Instances, NEW s, Goto(i, s)
  PROVE  /\ worker'[i].pc = s /\ worker'[i].vote = worker[i].vote
         /\ worker'[i].tally = worker[i].tally
         /\ \A j \in Instances \ {i} : worker'[j] = worker[j]
BY DEF TypeInv, TypeOK, Goto, Worker

LEMMA NextMessageEffect ==
  ASSUME TypeInv, NEW i \in Instances, NextMessage(i)
  PROVE  /\ worker'[i].pc = "read" /\ worker'[i].vote = None
         /\ \A j \in Instances \ {i} : worker'[j] = worker[j]
BY DEF TypeInv, TypeOK, NextMessage, Idle

LEMMA ProcessVoteFailedEffect ==
  ASSUME TypeInv, NEW i \in Instances, NEW err, ProcessVoteFailed(i, err)
  PROVE  /\ \/ worker'[i].pc = "read" /\ worker'[i].vote = None
            \/ worker'[i].pc = "session" /\ worker'[i].vote = worker[i].vote
         /\ \A j \in Instances \ {i} : worker'[j] = worker[j]
<1>1. CASE GiveUp(worker[i].attempt, err)
  BY <1>1, NextMessageEffect DEF ProcessVoteFailed
<1>2. CASE ~GiveUp(worker[i].attempt, err)
  <2> DEFINE r == [worker[i] EXCEPT !.pc = "session", !.attempt = worker[i].attempt + 1]
  <2>1. worker' = [worker EXCEPT ![i] = r]
    BY <1>2 DEF ProcessVoteFailed
  <2>2. r.pc = "session" /\ r.vote = worker[i].vote
    BY DEF TypeInv, TypeOK, Worker
  <2> HIDE DEF r
  <2> QED
    BY <2>1, <2>2 DEF TypeInv, TypeOK
<1> QED
  BY <1>1, <1>2

-----------------------------------------------------------------------------
(* Steps that touch neither the topic nor its committed offset. *)

\* What the consumer drops must be kept by somebody else.
Covered(i) ==
  worker[i].pc \in Steps =>
    \E w \in VoteIDs : /\ \/ w \in votes' \cup struck'
                          \/ \E j \in Instances \ {i} : worker[j].pc \in Steps /\ worker[j].vote = w
                       /\ ballot[w] = ballot[worker[i].vote]

\* One consumer goes on with its vote, or has none from here on.
OneStep(i) ==
  /\ UNCHANGED <<ballot, reply, votesLog, committed>>
  /\ \A j \in Instances : position'[j] \in {position[j], None}
  /\ worker[i].pc = "commit" => position'[i] = None
  /\ votes \subseteq votes' /\ struck \subseteq struck'
  /\ \A j \in Instances \ {i} : worker'[j] = worker[j]
  /\ \/ worker'[i].pc \in Steps /\ worker'[i].vote = worker[i].vote
        /\ worker[i].pc \in Steps
     \/ worker'[i].pc \in {"read", "down"} /\ worker'[i].vote = None /\ Covered(i)
  /\ worker'[i].pc \in SavedSteps => worker'[i].vote \in votes'

\* What is kept stays kept through such a step,
LEMMA OneStepKept ==
  ASSUME TypeInv, TypeInv', NEW i \in Instances, OneStep(i)
  PROVE  \A v \in VoteIDs : Kept(v) => Kept(v)'
<1> SUFFICES ASSUME NEW v \in VoteIDs, NEW w \in votes \cup Working \cup struck,
                    ballot[w] = ballot[v]
             PROVE  Kept(v)'
  BY DEF Kept
<1>1. CASE w \in votes \cup struck
  BY <1>1 DEF OneStep, Kept
<1>2. CASE w \in Working
  <2>1. PICK j \in Instances : worker[j].pc \in Steps /\ worker[j].vote = w /\ w \in VoteIDs
    BY <1>2 DEF Working
  <2>2. CASE worker'[j].pc \in Steps /\ worker'[j].vote = w
    BY <2>1, <2>2 DEF Working, Kept, OneStep
  <2>3. CASE ~(worker'[j].pc \in Steps /\ worker'[j].vote = w)
    <3>1. j = i /\ Covered(i)
      BY <2>1, <2>3 DEF OneStep
    <3>2. PICK u \in VoteIDs :
             /\ \/ u \in votes' \cup struck'
                \/ \E k \in Instances \ {i} : worker[k].pc \in Steps /\ worker[k].vote = u
             /\ ballot[u] = ballot[w]
      BY <2>1, <3>1 DEF Covered
    <3>3. u \in votes' \cup struck' \cup Working'
      BY <3>2 DEF OneStep, Working
    <3> QED
      BY <3>2, <3>3 DEF Kept, OneStep
  <2> QED
    BY <2>2, <2>3
<1> QED
  BY <1>1, <1>2

\* and so does the rest.
LEMMA OneStepKeeps ==
  ASSUME TypeInv, TypeInv', QueueInv, NEW i \in Instances, OneStep(i), LockUsed'
  PROVE  QueueInv'
<1>1. \A v \in VoteIDs : Kept(v) => Kept(v)'
  BY OneStepKept
<1>2. \A n \in 1..Len(votesLog) : votesLog[n] \in VoteIDs
  BY DEF TypeInv, TypeOK
<1>3. Len(votesLog) \in Nat /\ committed \in 0..Len(votesLog)
  BY DEF TypeInv, TypeOK
<1>4. Handled'
  BY <1>1, <1>2, <1>3 DEF QueueInv, Handled, OneStep
<1>5. ASSUME NEW j \in Instances PROVE Passed(j)'
  <2>1. Passed(j) /\ worker[j].offset \in Nat /\ worker[j].offset <= Len(votesLog)
        /\ position[j] \in 0..Len(votesLog) \cup {None}
    BY DEF QueueInv, PassedAll, TypeInv, TypeOK, Worker
  <2>2. worker'[j].pc = "commit" => worker'[j] = worker[j] /\ j # i
    BY DEF OneStep, Steps
  <2>3. ASSUME position'[j] # None, NEW n \in 1..position'[j], NEW v, v = votesLog[n]
        PROVE  Kept(v)' \/ (worker'[j].pc = "commit" /\ n = worker'[j].offset)
    <3>1. position'[j] = position[j] /\ v \in VoteIDs
      BY <1>2, <1>3, <2>1, <2>3 DEF OneStep
    <3>2. CASE Kept(v)
      BY <1>1, <3>1, <3>2
    <3>3. CASE worker[j].pc = "commit" /\ n = worker[j].offset
      <4>1. j # i
        BY <2>3, <3>1, <3>3 DEF OneStep
      <4> QED
        BY <3>3, <4>1 DEF OneStep
    <3> QED
      BY <2>1, <2>3, <3>1, <3>2, <3>3 DEF Passed
  <2>4. ASSUME worker'[j].pc = "commit", NEW n \in 1..(worker'[j].offset - 1), NEW v, v = votesLog[n]
        PROVE  Kept(v)'
    <3>1. worker'[j] = worker[j] /\ v \in VoteIDs /\ n \in 1..(worker[j].offset - 1)
      BY <1>2, <1>3, <2>1, <2>2, <2>4
    <3> QED
      BY <1>1, <2>1, <2>4, <3>1 DEF Passed
  <2> QED
    BY <2>3, <2>4 DEF Passed, OneStep
<1>6. AcksLogged' /\ PassedAll'
  BY <1>5 DEF QueueInv, AcksLogged, Logged, PassedAll, OneStep
<1>7. Hands'
  BY DEF QueueInv, Hands, Logged, OneStep, Steps
<1>8. AfterSave'
  BY DEF QueueInv, AfterSave, OneStep
<1> QED
  BY <1>4, <1>6, <1>7, <1>8 DEF QueueInv

\* A consumer that is not about to insert changes nothing of what the locks
\* stand for, unless it takes one.
LEMMA LockUsedKept ==
  ASSUME QueueInv, NEW i \in Instances, UNCHANGED ballot, voteLock' \subseteq voteLock,
         votes \subseteq votes', struck \subseteq struck', worker[i].pc # "save",
         \A j \in Instances \ {i} : worker'[j] = worker[j]
  PROVE  LockUsed'
BY DEF QueueInv, LockUsed, Saving

\* A consumer leaves the insert with its vote stored or struck.
LEMMA LockUsedSaved ==
  ASSUME QueueInv, NEW i \in Instances, UNCHANGED <<ballot, voteLock>>,
         votes \subseteq votes', struck \subseteq struck',
         worker[i].vote \in votes' \cup struck',
         \A j \in Instances \ {i} : worker'[j] = worker[j]
  PROVE  LockUsed'
BY DEF QueueInv, LockUsed, Saving

-----------------------------------------------------------------------------
(* One lemma per step of the consumer. *)

LEMMA GetSessionByIDKeeps ==
  ASSUME TypeInv, TypeInv', QueueInv, NEW i \in Instances, GetSessionByID(i)
  PROVE  QueueInv'
<1>1. PICK o \in Outcome("session") :
        /\ struck' = StruckBy(worker[i].vote, o)
        /\ IF o = "ok" THEN Goto(i, "lock") ELSE ProcessVoteFailed(i, "session not found: %v")
  BY DEF GetSessionByID
<1>2. /\ UNCHANGED <<ballot, reply, votesLog, committed, position, voteLock, votes>>
      /\ worker[i].pc = "session" /\ worker[i].vote \in VoteIDs
      /\ struck \subseteq struck'
  BY <1>1 DEF GetSessionByID, ingress, kafka, locks, StruckBy, TypeInv, HandsFull, Steps
<1>3. /\ \A j \in Instances \ {i} : worker'[j] = worker[j]
      /\ \/ worker'[i].pc \in {"session", "lock"} /\ worker'[i].vote = worker[i].vote
         \/ /\ worker'[i].pc = "read" /\ worker'[i].vote = None
            /\ worker[i].vote \in struck'
  BY <1>1, GotoEffect, ProcessVoteFailedEffect DEF StruckBy
<1>4. OneStep(i)
  BY <1>2, <1>3 DEF OneStep, Covered, Steps, SavedSteps
<1> QED
  BY <1>2, <1>3, <1>4, LockUsedKept, OneStepKeeps

LEMMA CheckDuplicateVoteKeeps ==
  ASSUME TypeInv, TypeInv', QueueInv, NEW i \in Instances, CheckDuplicateVote(i)
  PROVE  QueueInv'
<1>0. PICK v, k : v = worker[i].vote /\ k = ballot[v]
  OBVIOUS
<1>1. PICK o \in Outcome("redis") :
        /\ voteLock' = IF TakesEffect(o) THEN voteLock \cup {k} ELSE voteLock
        /\ struck' = StruckBy(v, o)
        /\ IF o = "ok" /\ LockFree(k) THEN Goto(i, "save")
           ELSE ProcessVoteFailed(i, "duplicate vote: %v")
  BY <1>0 DEF CheckDuplicateVote
<1>2. /\ UNCHANGED <<ballot, reply, votesLog, committed, position, votes>>
      /\ worker[i].pc = "lock" /\ v \in VoteIDs
      /\ struck \subseteq struck' /\ voteLock' \subseteq voteLock \cup {k}
  BY <1>0, <1>1 DEF CheckDuplicateVote, ingress, kafka, StruckBy, TypeInv, HandsFull, Steps
<1>3. \A j \in Instances \ {i} : worker'[j] = worker[j]
  BY <1>1, GotoEffect, ProcessVoteFailedEffect
<1>4. \/ worker'[i].pc = "save" /\ worker'[i].vote = v
      \/ /\ \/ worker'[i].pc = "session" /\ worker'[i].vote = v
            \/ worker'[i].pc = "read" /\ worker'[i].vote = None
         /\ o # "ok" \/ k \in voteLock
  BY <1>0, <1>1, GotoEffect, ProcessVoteFailedEffect DEF LockFree
<1>5. o # "ok" => v \in struck'
  BY <1>1 DEF StruckBy
<1>6. CASE worker'[i].pc = "save" /\ worker'[i].vote = v
  <2>1. OneStep(i)
    BY <1>0, <1>2, <1>3, <1>6 DEF OneStep, Steps, SavedSteps
  <2>2. Saving(i, k)'
    BY <1>0, <1>2, <1>6 DEF Saving
  <2>3. LockUsed'
    BY <1>2, <1>3, <2>2 DEF QueueInv, LockUsed, Saving
  <2> QED
    BY <2>1, <2>3, OneStepKeeps
<1>7. CASE /\ \/ worker'[i].pc = "session" /\ worker'[i].vote = v
              \/ worker'[i].pc = "read" /\ worker'[i].vote = None
           /\ o # "ok" \/ k \in voteLock
  <2>1. \/ \E u \in votes' \cup struck' : ballot[u] = k
        \/ \E j \in Instances \ {i} : Saving(j, k)
    BY <1>0, <1>2, <1>5, <1>7 DEF QueueInv, LockUsed, Saving
  <2>2. Covered(i)
    BY <1>0, <2>1 DEF Covered, Saving, TypeInv, TypeOK, HandsFull, Steps
  <2>3. OneStep(i)
    BY <1>0, <1>2, <1>3, <1>7, <2>2 DEF OneStep, Steps, SavedSteps
  <2>4. LockUsed'
    BY <1>2, <1>3, <2>1 DEF QueueInv, LockUsed, Saving
  <2> QED
    BY <2>3, <2>4, OneStepKeeps
<1> QED
  BY <1>4, <1>6, <1>7

LEMMA SaveVoteToMongoKeeps ==
  ASSUME TypeInv, TypeInv', QueueInv, NEW i \in Instances, SaveVoteToMongo(i)
  PROVE  QueueInv'
<1> DEFINE v == worker[i].vote
<1>1. PICK o \in Outcome("mongo") :
        /\ votes' = IF TakesEffect(o) THEN votes \cup {v} ELSE votes
        /\ struck' = StruckBy(v, o)
        /\ IF o = "ok" /\ v \notin votes THEN Goto(i, "lookup")
           ELSE ProcessVoteFailed(i, "failed to save vote: %v")
  BY DEF SaveVoteToMongo
<1>2. /\ UNCHANGED <<ballot, reply, votesLog, committed, position, voteLock>>
      /\ worker[i].pc = "save" /\ v \in VoteIDs
      /\ votes \subseteq votes' /\ struck \subseteq struck'
  BY <1>1 DEF SaveVoteToMongo, ingress, kafka, locks, StruckBy, TypeInv, HandsFull, Steps
<1>3. v \in votes' \cup struck' /\ (o = "ok" => v \in votes')
  BY <1>1 DEF StruckBy, TakesEffect
<1>4. /\ \A j \in Instances \ {i} : worker'[j] = worker[j]
      /\ \/ worker'[i].pc = "lookup" /\ worker'[i].vote = v /\ o = "ok"
         \/ worker'[i].pc = "session" /\ worker'[i].vote = v
         \/ worker'[i].pc = "read" /\ worker'[i].vote = None
  BY <1>1, GotoEffect, ProcessVoteFailedEffect
<1>5. OneStep(i)
  BY <1>2, <1>3, <1>4 DEF OneStep, Covered, Steps, SavedSteps
<1> QED
  BY <1>2, <1>3, <1>4, <1>5, LockUsedSaved, OneStepKeeps

\* After the insert the vote is in MongoDB, and nothing can lose it.
LEMMA SavedStepKeeps ==
  ASSUME TypeInv, TypeInv', QueueInv, NEW i \in Instances,
         \/ LookupQuestion(i) \/ GetVoteCountsForQuestion(i)
         \/ GetUniqueVotersCount(i) \/ CacheResultsInRedis(i) \/ EmitResultsUpdated(i)
  PROVE  QueueInv'
<1> DEFINE v == worker[i].vote
<1>1. /\ UNCHANGED <<ballot, reply, votesLog, committed, position, voteLock, votes, struck>>
      /\ worker[i].pc \in SavedSteps
  BY DEF LookupQuestion, GetVoteCountsForQuestion, GetUniqueVotersCount,
         CacheResultsInRedis, EmitResultsUpdated, ingress, kafka, locks, results, SavedSteps
<1>2. v \in votes /\ v \in VoteIDs
  BY <1>1 DEF QueueInv, AfterSave, TypeInv, TypeOK
<1>3. /\ \A j \in Instances \ {i} : worker'[j] = worker[j]
      /\ \/ worker'[i].pc \in SavedSteps /\ worker'[i].vote = v
         \/ worker'[i].pc = "read" /\ worker'[i].vote = None
  <2>1. CASE \/ NextMessage(i) \/ \E s \in SavedSteps : Goto(i, s)
    BY <2>1, GotoEffect, NextMessageEffect
  <2>2. CASE \E t : worker' = [worker EXCEPT ![i] = [@ EXCEPT !.pc = "voters", !.tally = t]]
    BY <2>2 DEF TypeInv, TypeOK, Worker, SavedSteps
  <2>3. CASE \E t : worker' = [worker EXCEPT ![i] =
                              [@ EXCEPT !.pc = "cacheResults", !.tally.voters = t]]
    BY <2>3 DEF TypeInv, TypeOK, Worker, SavedSteps
  <2> QED
    BY <2>1, <2>2, <2>3
       DEF LookupQuestion, GetVoteCountsForQuestion, GetUniqueVotersCount,
           CacheResultsInRedis, EmitResultsUpdated, SavedSteps
<1>4. OneStep(i)
  BY <1>1, <1>2, <1>3 DEF OneStep, Covered, Steps, SavedSteps
<1>5. worker[i].pc # "save"
  BY <1>1 DEF SavedSteps
<1> QED
  BY <1>1, <1>3, <1>4, <1>5, LockUsedKept, OneStepKeeps

\* The next message is taken into the hands.
LEMMA FetchMessageKeeps ==
  ASSUME TypeInv, TypeInv', QueueInv, NEW i \in Instances, FetchMessage(i)
  PROVE  QueueInv'
<1>0. PICK m : m = position[i] + 1
  OBVIOUS
<1>1. /\ UNCHANGED <<ballot, reply, votesLog, voteLock, votes, struck, committed>>
      /\ worker[i].pc = "read" /\ position[i] \in Nat /\ position[i] # None
      /\ position' = [position EXCEPT ![i] = m]
      /\ m \in 1..Len(votesLog) /\ m \in Nat
  BY <1>0 DEF FetchMessage, ingress, locks, TypeInv, TypeOK
<1>2. /\ worker'[i].pc = "commit" /\ worker'[i].offset = m /\ worker'[i].vote = votesLog[m]
      /\ \A j \in Instances \ {i} : worker'[j] = worker[j]
  BY <1>0 DEF FetchMessage, TypeInv, TypeOK, Worker
<1>3. Working' = Working
  BY <1>1, <1>2 DEF Working, Steps
<1>4. \A v : Kept(v)' <=> Kept(v)
  BY <1>1, <1>3 DEF Kept
<1>5. Handled' /\ AcksLogged' /\ AfterSave'
  BY <1>1, <1>2, <1>4 DEF QueueInv, Handled, AcksLogged, Logged, AfterSave, SavedSteps
<1>6. Hands'
  BY <1>1, <1>2 DEF QueueInv, Hands, Logged
<1>7. LockUsed'
  BY <1>1, <1>2, LockUsedKept
<1>8. Passed(i)'
  <2>1. ASSUME NEW n \in 1..(m - 1), NEW v, v = votesLog[n] PROVE Kept(v)'
    BY <1>0, <1>1, <1>4, <2>1 DEF QueueInv, PassedAll, Passed
  <2>2. position'[i] = m
    BY <1>1 DEF TypeInv, TypeOK
  <2> QED
    BY <1>1, <1>2, <2>1, <2>2 DEF Passed
<1>9. ASSUME NEW j \in Instances, j # i PROVE Passed(j)'
  BY <1>1, <1>2, <1>4, <1>9 DEF QueueInv, PassedAll, Passed, TypeInv, TypeOK
<1> QED
  BY <1>5, <1>6, <1>7, <1>8, <1>9 DEF QueueInv, PassedAll

\* With its commit it is in process, or struck, or still on the topic.
LEMMA CommitMessagesKeeps ==
  ASSUME TypeInv, TypeInv', QueueInv, NEW i \in Instances, CommitMessages(i)
  PROVE  QueueInv'
<1>0. PICK v, m : v = worker[i].vote /\ m = worker[i].offset
  OBVIOUS
<1>1. PICK o \in Outcome("kafka") :
        /\ committed' = CommittedAfter(i, o)
        /\ struck' = StruckBy(v, o)
        /\ IF o = "ok"
           THEN worker' = [worker EXCEPT ![i] = [@ EXCEPT !.pc = "session", !.offset = 0]]
           ELSE NextMessage(i)
  BY <1>0 DEF CommitMessages
<1>2. /\ UNCHANGED <<ballot, reply, votesLog, position, voteLock, votes>>
      /\ worker[i].pc = "commit" /\ v \in VoteIDs /\ m \in Nat /\ m # 0 /\ v = votesLog[m]
      /\ struck \subseteq struck' /\ committed \in Nat
  <2>1. worker[i].pc = "commit" /\ UNCHANGED <<ballot, reply, votesLog, position, voteLock, votes>>
    BY DEF CommitMessages, ingress, locks
  <2>2. v \in VoteIDs /\ m \in Nat /\ m # 0
    BY <1>0, <2>1 DEF TypeInv, TypeOK, HandsFull, Worker
  <2>3. v = votesLog[m]
    BY <1>0, <2>1 DEF QueueInv, Hands
  <2>4. struck \subseteq struck' /\ committed \in Nat
    BY <1>1 DEF StruckBy, TypeInv, TypeOK
  <2> QED
    BY <2>1, <2>2, <2>3, <2>4
<1>3. /\ \A j \in Instances \ {i} : worker'[j] = worker[j]
      /\ \/ o = "ok" /\ worker'[i].pc = "session" /\ worker'[i].vote = v
         \/ o # "ok" /\ worker'[i].pc = "read" /\ worker'[i].vote = None /\ v \in struck'
  <2> DEFINE r == [worker[i] EXCEPT !.pc = "session", !.offset = 0]
  <2>1. CASE o = "ok"
    <3>1. worker' = [worker EXCEPT ![i] = r]
      BY <1>1, <2>1
    <3>2. r.pc = "session" /\ r.vote = v
      BY <1>0 DEF TypeInv, TypeOK, Worker
    <3> HIDE DEF r
    <3> QED
      BY <2>1, <3>1, <3>2 DEF TypeInv, TypeOK
  <2>2. CASE o # "ok"
    BY <1>1, <2>2, NextMessageEffect DEF StruckBy
  <2> QED
    BY <2>1, <2>2
<1>4. Working \subseteq Working' /\ v \in Working' \cup struck'
  BY <1>2, <1>3 DEF Working, Steps
<1>5. \A u : Kept(u) => Kept(u)'
  BY <1>2, <1>4 DEF Kept
<1>6. Kept(v)'
  BY <1>4 DEF Kept
<1>7. committed' = m \/ committed' = committed
  BY <1>0, <1>1 DEF CommittedAfter
<1>8. ASSUME NEW n \in 1..(m - 1), NEW u, u = votesLog[n] PROVE Kept(u)
  BY <1>0, <1>2, <1>8 DEF QueueInv, PassedAll, Passed
<1>9. Handled'
  <2> SUFFICES ASSUME NEW n \in 1..committed', NEW u, u = votesLog[n] PROVE Kept(u)'
    BY <1>2 DEF Handled, Kept
  <2>1. n \in 1..committed \/ n \in 1..(m - 1) \/ n = m
    BY <1>2, <1>7
  <2>2. CASE n \in 1..committed
    BY <1>5, <2>2 DEF QueueInv, Handled
  <2> QED
    BY <1>2, <1>5, <1>6, <1>8, <2>1, <2>2
<1>10. Passed(i)'
  <2> SUFFICES ASSUME position[i] # None, NEW n \in 1..position[i], NEW u, u = votesLog[n]
               PROVE  Kept(u)'
    BY <1>2, <1>3 DEF Passed, Kept
  <2>1. Kept(u) \/ n = m
    BY <1>0 DEF QueueInv, PassedAll, Passed
  <2> QED
    BY <1>2, <1>5, <1>6, <2>1
<1>11. ASSUME NEW j \in Instances, j # i PROVE Passed(j)'
  <2>1. Passed(j) /\ worker'[j] = worker[j]
    BY <1>3, <1>11 DEF QueueInv, PassedAll
  <2>2. ASSUME position[j] # None, NEW n \in 1..position[j], NEW u, u = votesLog[n]
        PROVE  Kept(u)' \/ (worker[j].pc = "commit" /\ n = worker[j].offset)
    BY <1>5, <2>1, <2>2 DEF Passed
  <2>3. ASSUME worker[j].pc = "commit", NEW n \in 1..(worker[j].offset - 1), NEW u, u = votesLog[n]
        PROVE  Kept(u)'
    BY <1>5, <2>1, <2>3 DEF Passed
  <2> QED
    BY <1>2, <2>1, <2>2, <2>3 DEF Passed, Kept
<1>12. LockUsed'
  BY <1>2, <1>3, LockUsedKept
<1>13. Hands'
  <2>1. Logged(v)
    BY <1>0, <1>2 DEF QueueInv, Hands
  <2>2. \A u : Logged(u)' <=> Logged(u)
    BY <1>2 DEF Logged
  <2> QED
    BY <1>2, <1>3, <2>1, <2>2 DEF QueueInv, Hands
<1>14. AcksLogged' /\ AfterSave'
  BY <1>2, <1>3 DEF QueueInv, AcksLogged, Logged, AfterSave, SavedSteps
<1> QED
  BY <1>9, <1>10, <1>11, <1>12, <1>13, <1>14 DEF QueueInv, PassedAll

-----------------------------------------------------------------------------
(* The handler and the environment. *)

\* A topic that grows at its end keeps what was on it.
LEMMA ProduceKeeps ==
  ASSUME NEW S, NEW t \in Seq(S), NEW m \in S, NEW o
  PROVE  /\ \A n \in 1..Len(t) : Produce(t, m, o)[n] = t[n]
         /\ o # "error" => \E n \in 1..Len(Produce(t, m, o)) : Produce(t, m, o)[n] = m
<1> DEFINE a == Append(t, m)
<1>1. /\ a \in Seq(S) /\ Len(a) = Len(t) + 1 /\ Len(t) \in Nat
      /\ a[Len(t) + 1] = m /\ \A n \in 1..Len(t) : a[n] = t[n]
  OBVIOUS
<1> HIDE DEF a
<1>2. /\ Len(Append(a, m)) = Len(a) + 1
      /\ \A n \in 1..Len(a) : Append(a, m)[n] = a[n]
  BY <1>1
<1>3. Produce(t, m, o) = IF o = "error" THEN t ELSE IF o = "dup" THEN Append(a, m) ELSE a
  BY DEF Produce, a
<1>4. \A n \in 1..Len(t) : n \in 1..Len(a)
  BY <1>1
<1>5. Len(t) + 1 \in 1..Len(a) /\ Len(t) + 1 \in 1..(Len(a) + 1)
  BY <1>1
<1> QED
  BY <1>1, <1>2, <1>3, <1>4, <1>5

LEMMA SubmitVoteHandlerKeeps ==
  ASSUME TypeInv, TypeInv', QueueInv, NEW v \in VoteIDs, SubmitVoteHandler(v)
  PROVE  QueueInv'
<1>1. UNCHANGED <<ballot, committed, position, worker, voteLock, votes, struck>>
  BY DEF SubmitVoteHandler, locks
<1>2. /\ \A n \in 1..Len(votesLog) : votesLog'[n] = votesLog[n]
      /\ Len(votesLog) \in Nat /\ Len(votesLog') \in Nat /\ Len(votesLog) <= Len(votesLog')
      /\ committed \in 0..Len(votesLog)
  BY ProduceKeeps, ProduceType DEF SubmitVoteHandler, TypeInv, TypeOK
<1>3. /\ \A u : Logged(u) => Logged(u)'
      /\ \A u : Kept(u) => Kept(u)'
  BY <1>1, <1>2 DEF Logged, Kept, Working
<1>4. AcksLogged'
  <2> SUFFICES ASSUME NEW u \in VoteIDs, reply'[u] = "202" PROVE Logged(u)'
    BY DEF AcksLogged
  <2>1. CASE u # v
    BY <1>3, <2>1 DEF SubmitVoteHandler, QueueInv, AcksLogged, TypeInv, TypeOK
  <2>2. CASE u = v
    <3>1. PICK o : votesLog' = Produce(votesLog, v, o) /\ o # "error"
      BY <2>2 DEF SubmitVoteHandler, Succeeds, TypeInv, TypeOK
    <3> QED
      BY <2>2, <3>1, ProduceKeeps DEF Logged, TypeInv, TypeOK
  <2> QED
    BY <2>1, <2>2
<1>5. Handled'
  <2> SUFFICES ASSUME NEW n \in 1..committed, NEW u, u = votesLog[n] PROVE Kept(u)'
    BY <1>1, <1>2 DEF Handled, Kept
  <2> QED
    BY <1>3 DEF QueueInv, Handled
<1>6. ASSUME NEW i \in Instances PROVE Passed(i)'
  <2>1. /\ Passed(i) /\ worker[i].offset \in Nat /\ worker[i].offset <= Len(votesLog)
        /\ position[i] \in 0..Len(votesLog) \cup {None}
    BY DEF QueueInv, PassedAll, TypeInv, TypeOK, Worker
  <2>2. ASSUME NEW n \in 1..Len(votesLog), NEW u, u = votesLog[n] PROVE u = votesLog'[n]
    BY <1>2, <2>2
  <2>3. position[i] # None => \A n \in 1..position[i] : n \in 1..Len(votesLog)
    BY <1>2, <2>1
  <2>4. \A n \in 1..(worker[i].offset - 1) : n \in 1..Len(votesLog)
    BY <1>2, <2>1
  <2> QED
    BY <1>1, <1>3, <2>1, <2>2, <2>3, <2>4 DEF Passed, Kept
<1>7. LockUsed' /\ AfterSave'
  BY <1>1 DEF QueueInv, LockUsed, Saving, AfterSave
<1>8. Hands'
  <2>1. \A i \in Instances : worker[i].pc = "commit" => worker[i].offset \in 1..Len(votesLog)
    BY <1>2 DEF TypeInv, TypeOK, HandsFull, Worker
  <2>2. \A i \in Instances : worker[i].pc = "commit" =>
           votesLog'[worker[i].offset] = votesLog[worker[i].offset]
    BY <1>2, <2>1
  <2> QED
    BY <1>1, <1>3, <2>2 DEF QueueInv, Hands
<1> QED
  BY <1>4, <1>5, <1>6, <1>7, <1>8 DEF QueueInv, PassedAll

LEMMA CrashKeeps ==
  ASSUME TypeInv, TypeInv', QueueInv, NEW i \in Instances, Crash(i) \/ Restart(i)
  PROVE  QueueInv'
<1>1. /\ UNCHANGED <<ballot, reply, votesLog, committed, voteLock, votes>>
      /\ struck \subseteq struck'
      /\ \A j \in Instances : position'[j] \in {position[j], None}
  BY DEF Crash, Restart, ingress, kafka, locks, TypeInv, TypeOK
<1>2. /\ worker'[i].pc \in {"read", "down"} /\ worker'[i].vote = None
      /\ \A j \in Instances \ {i} : worker'[j] = worker[j]
  BY NextMessageEffect DEF Crash, Restart, TypeInv, TypeOK, Idle
<1>3. CASE Crash(i)
  <2>1. /\ worker[i].pc \in Steps => worker[i].vote \in VoteIDs /\ worker[i].vote \in struck'
        /\ position'[i] = None
    BY <1>3, PipelineAssumption DEF Crash, Steps, TypeInv, TypeOK, HandsFull
  <2>2. OneStep(i)
    BY <1>1, <1>2, <2>1 DEF OneStep, Covered, SavedSteps
  <2>3. CASE worker[i].pc = "save"
    BY <1>1, <1>2, <2>1, <2>2, <2>3, LockUsedSaved, OneStepKeeps DEF TypeInv, HandsFull, Steps
  <2>4. CASE worker[i].pc # "save"
    BY <1>1, <1>2, <2>2, <2>4, LockUsedKept, OneStepKeeps
  <2> QED
    BY <2>3, <2>4
<1>4. CASE Restart(i)
  <2>1. worker[i].pc = "down" /\ worker[i].pc \notin Steps
    BY <1>4 DEF Restart, Steps
  <2>2. OneStep(i)
    BY <1>1, <1>2, <2>1 DEF OneStep, Covered, SavedSteps
  <2> QED
    BY <1>1, <1>2, <2>1, <2>2, LockUsedKept, OneStepKeeps
<1> QED
  BY <1>3, <1>4

\* The rest of the environment takes locks and cached values away, or sets a
\* reader back to the committed offset or aside.
LEMMA ElsewhereKeeps ==
  ASSUME TypeInv, QueueInv,
         UNCHANGED <<ballot, reply, votesLog, committed, worker, votes, struck>>,
         voteLock' \subseteq voteLock,
         \A i \in Instances : position'[i] \in {position[i], committed, None}
  PROVE  QueueInv'
<1>1. AcksLogged' /\ Handled' /\ LockUsed' /\ Hands' /\ AfterSave'
  BY DEF QueueInv, AcksLogged, Handled, LockUsed, Hands, AfterSave, Kept, Logged, Saving, Working
<1>2. \A v : Kept(v)' <=> Kept(v)
  BY DEF Kept, Working
<1>3. ASSUME NEW i \in Instances PROVE Passed(i)'
  BY <1>2 DEF QueueInv, PassedAll, Passed, Handled
<1> QED
  BY <1>1, <1>3 DEF QueueInv, PassedAll

-----------------------------------------------------------------------------

LEMMA QueueInit == Init => QueueInv
BY DEF Init, QueueInv, AcksLogged, Handled, PassedAll, Passed, LockUsed, Hands, AfterSave, Idle, SavedSteps

LEMMA QueueStep == TypeInv /\ TypeInv' /\ QueueInv /\ [Next]_vars => QueueInv'
<1> SUFFICES ASSUME TypeInv, TypeInv', QueueInv, [Next]_vars PROVE QueueInv'
  OBVIOUS
<1>1. ASSUME NEW v \in VoteIDs, SubmitVoteHandler(v) PROVE QueueInv'
  BY <1>1, SubmitVoteHandlerKeeps
<1>2. ASSUME NEW i \in Instances, VoteConsumer(i) PROVE QueueInv'
  BY <1>2, FetchMessageKeeps, CommitMessagesKeeps, GetSessionByIDKeeps, CheckDuplicateVoteKeeps,
     SaveVoteToMongoKeeps, SavedStepKeeps DEF VoteConsumer
<1>3. CASE Environment
  <2>1. ASSUME NEW i \in Instances, Crash(i) \/ Restart(i) PROVE QueueInv'
    BY <2>1, CrashKeeps
  <2>2. ASSUME NEW i \in Instances, Rebalance(i) PROVE QueueInv'
    BY <2>2, ElsewhereKeeps DEF Rebalance, StartOffset, ingress, locks, TypeInv, TypeOK
  <2>2a. ASSUME NEW i \in Instances, Rejoin(i) PROVE QueueInv'
    BY <2>2a, ElsewhereKeeps DEF Rejoin, ingress, locks, TypeInv, TypeOK
  <2>3. ASSUME NEW k \in Ballots, LockExpires(k) PROVE QueueInv'
    BY <2>3, ElsewhereKeeps DEF LockExpires, ingress, kafka
  <2>4. ASSUME NEW q \in QuestionIDs, ResultsExpire(q) PROVE QueueInv'
    BY <2>4, ElsewhereKeeps DEF ResultsExpire, ingress, kafka, locks
  <2> QED
    BY <1>3, <2>1, <2>2, <2>2a, <2>3, <2>4 DEF Environment
<1>4. CASE UNCHANGED vars
  BY <1>4, ElsewhereKeeps DEF vars, ingress, kafka, locks
<1> QED
  BY <1>1, <1>2, <1>3, <1>4 DEF Next

\* What QueueInv says of an acknowledged vote.
LEMMA QueueImplies == TypeInv /\ QueueInv => VotesLostOnlyToFaults
<1> SUFFICES ASSUME TypeInv, QueueInv, NEW v \in VoteIDs, reply[v] = "202"
             PROVE  \E w \in votes \cup Unread \cup InProcess \cup struck : ballot[w] = ballot[v]
  BY DEF VotesLostOnlyToFaults
<1>1. PICK n \in 1..Len(votesLog) : votesLog[n] = v
  BY DEF QueueInv, AcksLogged, Logged
<1>2. CASE n \in 1..committed
  <2>1. Working \subseteq InProcess
    BY PipelineAssumption DEF Working, InProcess
  <2> QED
    BY <1>1, <1>2, <2>1 DEF QueueInv, Handled, Kept
<1>3. CASE n \in (committed + 1)..Len(votesLog)
  BY <1>1, <1>3 DEF Unread
<1>4. committed \in Nat /\ Len(votesLog) \in Nat
  BY DEF TypeInv, TypeOK
<1> QED
  BY <1>2, <1>3, <1>4

\* A vote answered with 202 is lost only to a failure that struck it, or struck
\* another vote with the same ballot.
THEOREM VotesLostOnlyToFaultsHolds == Spec => []VotesLostOnlyToFaults
<1>1. Init => TypeInv /\ QueueInv
  BY TypeInit, QueueInit
<1>2. TypeInv /\ QueueInv /\ [Next]_vars => (TypeInv /\ QueueInv)'
  BY TypeStep, QueueStep
<1>3. TypeInv /\ QueueInv => VotesLostOnlyToFaults
  BY QueueImplies
<1> QED
  BY <1>1, <1>2, <1>3, PTL DEF Spec

-----------------------------------------------------------------------------
(* Without failures nothing is struck.  A Kafka write that the client library *)
(* repeats is no failure: the vote is on the topic twice, and the second copy *)
(* finds the lock of the first.  Nor does a cursor that breaks off touch a     *)
(* vote.                                                                      *)

OnlyRepeatedWrites == Faults \subseteq {<<"kafka", "dup">>, <<"cursor", "error">>}

LEMMA CallsSucceed ==
  ASSUME OnlyRepeatedWrites
  PROVE  /\ \A service \in {"redis", "mongo", "session"} : Outcome(service) = {"ok"}
         /\ Outcome("kafka") \ {"dup"} = {"ok"}
         /\ <<"process", "crash">> \notin Faults
<1>1. \A service, o : <<service, o>> \in Faults =>
        service \in {"kafka", "cursor"} /\ (service = "kafka" => o = "dup")
  BY DEF OnlyRepeatedWrites
<1>2. \A service, o : o \in Outcome(service) => o = "ok" \/ <<service, o>> \in Faults
  BY DEF Outcome
<1>3. \A service : "ok" \in Outcome(service)
  BY DEF Outcome
<1>4. <<"process", "crash">> \notin Faults
  BY <1>1
<1>5. \A service \in {"redis", "mongo", "session"} : Outcome(service) = {"ok"}
  <2> SUFFICES ASSUME NEW service \in {"redis", "mongo", "session"} PROVE Outcome(service) = {"ok"}
    OBVIOUS
  <2>1. \A o : <<service, o>> \notin Faults
    BY <1>1
  <2> QED
    BY <1>2, <1>3, <2>1
<1>6. Outcome("kafka") \ {"dup"} = {"ok"}
  <2>1. \A o : o \in Outcome("kafka") => o = "ok" \/ o = "dup"
    BY <1>1, <1>2
  <2>2. "ok" \in Outcome("kafka") /\ "ok" # "dup"
    BY <1>3
  <2> QED
    BY <2>1, <2>2
<1> QED
  BY <1>4, <1>5, <1>6

LEMMA NothingStruck ==
  ASSUME OnlyRepeatedWrites, struck = {}, [Next]_vars
  PROVE  struck' = {}
<1>1. ASSUME NEW i \in Instances, VoteConsumer(i) PROVE struck' = {}
  <2>1. CASE CommitMessages(i) \/ GetSessionByID(i) \/ CheckDuplicateVote(i) \/ SaveVoteToMongo(i)
    <3>1. PICK v : struck' = StruckBy(v, "ok")
      BY <2>1, CallsSucceed DEF CommitMessages, GetSessionByID, CheckDuplicateVote, SaveVoteToMongo
    <3> QED
      BY <3>1 DEF StruckBy
  <2>2. CASE \/ FetchMessage(i) \/ LookupQuestion(i) \/ GetVoteCountsForQuestion(i)
             \/ GetUniqueVotersCount(i) \/ CacheResultsInRedis(i) \/ EmitResultsUpdated(i)
    BY <2>2 DEF FetchMessage, LookupQuestion, GetVoteCountsForQuestion,
       GetUniqueVotersCount, CacheResultsInRedis, EmitResultsUpdated
  <2> QED
    BY <1>1, <2>1, <2>2 DEF VoteConsumer
<1>2. ASSUME NEW v \in VoteIDs, SubmitVoteHandler(v) PROVE struck' = {}
  BY <1>2 DEF SubmitVoteHandler
<1>3. CASE Environment
  BY <1>3, CallsSucceed
  DEF Environment, Rebalance, Rejoin, Crash, Restart, LockExpires, ResultsExpire
<1>4. CASE UNCHANGED vars
  BY <1>4 DEF vars
<1> QED
  BY <1>1, <1>2, <1>3, <1>4 DEF Next

\* As long as no call fails and no process dies, a vote answered with 202 waits
\* on the topic or in a consumer until its participant has a vote on the
\* question in MongoDB, whatever rebalances, lock expiries and repeated writes.
THEOREM VotesQueueUntilSavedHolds ==
  ASSUME OnlyRepeatedWrites
  PROVE  Spec => []VotesQueueUntilSaved
<1> DEFINE Unstruck == struck = {}
<1>1. Init => Unstruck
  BY DEF Init
<1>2. Unstruck /\ [Next]_vars => Unstruck'
  BY NothingStruck
<1>3. Unstruck /\ VotesLostOnlyToFaults => VotesQueueUntilSaved
  BY DEF VotesLostOnlyToFaults, VotesQueueUntilSaved
<1> HIDE DEF Unstruck
<1> QED
  BY <1>1, <1>2, <1>3, VotesLostOnlyToFaultsHolds, PTL DEF Spec
=============================================================================
