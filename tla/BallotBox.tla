----------------------------- MODULE BallotBox -----------------------------
(***************************************************************************)
(* What the vote pipeline promises, without queues, workers, locks, caches *)
(* or failures.  A vote is cast; it may be stored, unless its participant  *)
(* already has a stored vote on the question; results are published, each  *)
(* of them a count of stored votes.  The one weakness the promise has is   *)
(* that the box forgets who voted: the lock of a ballot lives 24 hours.    *)
(* VotePipeline implements this specification.                             *)
(***************************************************************************)
CONSTANTS
  VoteIDs,    \* names of votes
  Ballots     \* records with a field question: who votes on what

VARIABLES
  ballot,     \* whose vote, and on which question, each vote is
  cast,       \* the votes put on votes.submitted
  stored,     \* the votes in MongoDB
  forgotten,  \* the ballots whose lock was lost at some time
  published   \* the results on votes.updated

vars == <<ballot, cast, stored, forgotten, published>>

Init ==
  /\ ballot \in [VoteIDs -> Ballots]
  /\ cast = {}
  /\ stored = {}
  /\ forgotten = {}
  /\ published = {}

Cast(v) ==
  /\ cast' = cast \cup {v}
  /\ UNCHANGED <<ballot, stored, forgotten, published>>

Store(v) ==
  /\ v \in cast
  /\ \A w \in stored : ballot[w] = ballot[v] => ballot[v] \in forgotten
  /\ stored' = stored \cup {v}
  /\ UNCHANGED <<ballot, cast, forgotten, published>>

Forget(k) ==
  /\ forgotten' = forgotten \cup {k}
  /\ UNCHANGED <<ballot, cast, stored, published>>

\* No results are published that count nothing, or a vote that is not stored
\* or is on another question.
Publish(r) ==
  /\ r.votes # {}
  /\ \A v \in r.votes : v \in stored /\ ballot[v].question = r.question
  /\ published' = published \cup {r}
  /\ UNCHANGED <<ballot, cast, stored, forgotten>>

Count == [question : {k.question : k \in Ballots}, votes : SUBSET VoteIDs]

Next ==
  \/ \E v \in VoteIDs : Cast(v) \/ Store(v)
  \/ \E k \in Ballots : Forget(k)
  \/ \E r \in Count : Publish(r)

Spec == Init /\ [][Next]_vars
=============================================================================
