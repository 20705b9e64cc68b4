# Real Time Polling System: specifications and proofs

TLA+ models of the polling back end (Go), TLC runs that check them on small
instances, and proofs, checked by TLAPS, that hold for every size. Paths such
as `kafkaImpl/consumer.go:30` are below `src/internal/`.

    tlc -config VotePipelineFaults.cfg MCVotePipeline.tla      # any run
    tlapm VotePipelineProofs.tla                               # the proofs

`PROJECT.json` lists every run, the lines of code each definition stands for,
the mutant of the code that each property detects, and the hazards.

## 1. The system

| Part | State | Operations | Talks to |
|---|---|---|---|
| Vote API, `handlers/CoreHandler.go:60` | none | `SubmitVoteHandler` | session store (read), Kafka `votes.submitted` (write) |
| Vote consumer, `kafkaImpl/consumer.go`, `VoteProcessor.go` | the message in hand, its attempt; the group's offset in Kafka | fetch, commit, process with retries, recompute results | Redis lock, MongoDB `votes`, session store, Redis results cache, Kafka `votes.updated` |
| Results broadcaster, `kafkaImpl/results_broadcaster.go` | the group's offset | fetch, commit, forward | Kafka `votes.updated`, `Hub.BroadcastToSession` |
| WebSocket hub, `realtime/` | `h.sessions`, one `SessionHub` per session, one channel per client | register, unregister, broadcast, stats; two pumps per client | network peers |
| Session store, `services/CoresRepo.go`, `repository/results.go` | MongoDB `session_polls`; Redis `session:`, `organizer_sessions:`, `session_joincode:` | create, change status, read through the cache | MongoDB, Redis |
| Accounts, `handlers/AuthHandlers.go`, `services/AuthRepo.go`, `pkg/jwt` | MongoDB `organizers`; Redis `user:email:` | register, login, check token | MongoDB, Redis |
| Gateway, `routers/`, `middleware/`, `cmd/server/main.go` | a rate limiter | route, limit, authenticate | everything above |
| Connections, `database/` | two singletons | `Init`, `GetCollection`, `Close` | MongoDB, Redis |

A vote travels: request -> `votes.submitted` -> one consumer of the group ->
Redis lock -> MongoDB -> aggregation -> results cache and `votes.updated` ->
one broadcaster of another group -> its hub -> the session's hub -> every
client's channel -> the connection.

What is hard in it, and what makes each part correct:

- **Vote pipeline.** Offsets are committed before the work and after the fetch,
  the lock is taken before the insert, nothing is transactional, and several
  instances share the topic. It is correct when a participant's votes on a
  question are stored at most once, an acknowledged vote is not lost, and the
  published results grow up to the complete ones.
- **Hub.** Three kinds of goroutines own parts of the same data, two of them
  close the same channels, one length is read without its lock, and channels
  are sent on under mutexes. It is correct when no client is forgotten, no
  goroutine waits in a circle, no channel is closed twice or sent on after
  that, and a client gets its session's broadcasts in order.
- **Session store.** A read that fills the cache races with the write that
  empties it, and the emptying is not checked. A session that is closed must not
  go on taking votes.
- **Results tally.** Documents carry arrays that nobody checks against the
  question, and a cursor that breaks off looks like one that ended. It is correct when the numbers of one event agree with each other.
- **Results broadcaster.** The instances share one group, so an event reaches
  one instance only, and the offset is committed between the fetch and the
  broadcast. It is
  correct when every event reaches every client of the session, once and in
  order.
- **Accounts.** Registration checks and then inserts, an error of MongoDB looks
  like an unknown email, and a cache answers first. There should be one account
  per email, its holder should be able to log in, and nobody else.
- **Gateway.** Which middlewares a request meets, and how long a limiter lives.
- **Connections.** Called once, before anything else runs.

The full list of hazards, at their lines, is in `PROJECT.json`.

## 2. The modules

| Module | Models | Used by |
|---|---|---|
| `VotePipeline` | the way of a vote up to its results event | `MCVotePipeline`, four proof modules |
| `BallotBox` | what `VotePipeline` promises, without queues, workers, locks or failures | `VotePipeline` (`INSTANCE ... WITH`) |
| `ResultsTally` | the numbers of a results event, and a reference for them | `VotePipeline` |
| `ResultsBroadcast` | several instances between `votes.updated` and their clients | `MCResultsBroadcast`, `ResultsBroadcastProofs` |
| `Hub` | the WebSocket hub of one process | `MCHub`, `HubProofs` |
| `SessionStore` | the status of a session in MongoDB and in the cache | `MCSessionStore`, `SessionStoreProofs` |
| `Accounts` | registration, login, the user cache | `MCAccounts`, `AccountsProofs` |
| `MC*` | small instances: fault sets, symmetry, session maps | the configurations |
| `*Proofs` | inductive invariants and theorems | |

The modules meet where the code's parts do. What `VotePipeline` appends to
`updates` is what `ResultsBroadcast` starts from (`EmitResultsUpdated` in both);
`ResultsBroadcast` sees a hub as a bounded queue whose head goes to the clients
of its session, which is what `Hub` shows of the real one (`NoGap`,
`MembersServed`); the read of a session in `VotePipeline` is an outcome,
`SessionStore` says what it may return.

### VotePipeline

One session, any number of questions, participants, votes and instances. A
vote is its id; `ballot` says what the request with that id contains. Each
call to Redis, MongoDB or Kafka is an action of its own, in the order of the
code: a worker's `pc` names the next one.

| Code | Model |
|---|---|
| topic `votes.submitted` | `votesLog`, one partition: `ProduceVoteSubmitted` gets a struct, hence the key `"default"` (`config.go:94`) |
| `vote-processor-group` | `owner` and `committed`, which the coordinator knows; `position`, where each instance's reader is, or `None` |
| `reader.ReadMessage` | `FetchMessage`, then `CommitMessages`, as in kafka-go; in between the worker holds the `offset` |
| `vote_lock:{session}:{question}:{participant}` | `voteLock`, a set of ballots |
| collection `votes` | `votes`, a set of vote ids (`_id` is unique, nothing else is) |
| `results:{session}:{question}`, `votes.updated` | `resultsCache`, `updates` |
| a results event | which documents the aggregation matched, which groups its cursor gave and which distinct `participant_id` values were found; its numbers are `ResultsTally`'s operators on these |
| `selectedOptions` of a request | `selection` |
| `processVoteMessageWithRetry` | `attempt`, `ProcessVoteFailed`, `GiveUp` |
| `ObjectIDFromHex` with its error ignored | `ObjectIDFromHex`: ids outside `HexParticipants` become `NilObjectID` |

*Faults.* `Faults` is the set of failures considered, pairs of a service and
an outcome: `error` (refused), `late` (done, but the caller saw an error),
`dup` (the client library sent the request again after a lost reply: a Kafka
message appears twice, a SETNX finds its own key) and `crash`. The service
`cursor` is the `getMore` of the aggregation: when it fails the loop over the
cursor just ends (`VoteProcessor.go:239`), and what was read of the groups is
published (`GroupsRead`). The theorems
hold for every such set unless they name the faults they allow; the runs each
name one. Rebalances and the ends of
TTLs need no fault: they are always possible. A crash between the write to
Kafka and the HTTP reply looks to the client like a lost reply, which the
outcome `late` covers.

*Assumed of Kafka and kafka-go.* `ReadMessage` of a reader with a GroupID
fetches a message and commits its offset before it returns. `Rebalance` gives
the partition to a member at any time, between the two as well, and the new
owner's reader starts at the committed offset. The reader that lost the
partition goes on to return what it has buffered, until it has joined the next
generation (`Rejoin`). Its commit waits for the generation it is a member of: sent
in one that is over (`Outdated`) it is refused, which the consumer sees as an
error; sent after the rejoin it is accepted, though the partition is somebody
else's, and since the broker does not compare offsets it may move the group's
offset back. So one message may be processed twice, and the messages after it.

*History.* `lapsed` (locks that expired), `delivered` (offsets handed to
`processVoteMessage`), `overtaken` (the first offset that a reader held, fetched
and not committed, when the partition moved, or fetched after it had) and
`struck` (votes on whose behalf a call failed before they were stored, or that a
crash took) are read by properties only.

*Abstracted.* `cacheVoteInRedis` writes keys nothing reads, so it is part of
`SaveVoteToMongo`. The session is known and active, or the request is answered 400
(`SessionStore` looks into that read); a request that fails validation is
answered 400 too. Back-off times and the wording of errors are left out, except
that `isNonRetriableError` compares whole texts, which is kept.

### BallotBox and its refinement

A vote is cast, stored, and counted in published results; the one weakness of
the promise is `Forget`. `VotePipeline!Box` maps `cast` to the votes on the
topic, `stored` to the collection, `forgotten` to the lapsed locks and
`published` to the votes the events on `votes.updated` are computed from. A step of
the pipeline is then a `Cast` (a write to Kafka, reported or not), a `Store`
(an insert, reported or not), a `Forget` (a lock lost), a `Publish`, or changes
nothing of the box.

### ResultsTally

| Code | Model |
|---|---|
| `$match`, `$unwind`, `$group` (`VoteProcessor.go:202-217`) | `e.votes`, `Unwind`, `Groups`, `GroupCount` |
| `voteCounts` and the sum over what the cursor gave (`VoteProcessor.go:239-248`) | `e.groups`, `OptionCount`, `TotalVotes` |
| the loop over `question.Options` | `OptionIndices`, `Percentage` |

`Selected` is the reference: what the documents select, added up document by
document, without groups. Percentages are truncated integers; the code computes
them in `float64`.

### Hub

| Code | Model |
|---|---|
| `Hub.Run` between two selects | `hub.pc`, `hub.client`, `hub.msg` |
| `h.sessions` | `sessions`; a `SessionHub` is named by the client whose registration created it |
| `sessionHub.run` | `shub[h]`: `pc`, `clients`, `queue`, the client or number in hand, the clients the loop has still to visit |
| `register`, `unregister`, `h.broadcast` (unbuffered) | joint steps of sender and receiver |
| `client.send`, `sessionHub.broadcast` (256) | `send` (`SendCap`), `queue` (`QueueCap`) |
| `h.mutex`, `sessionHub.mutex` | held by a `pc`: `HubWriteLocked`, `ShubReadLocked`, ... |
| `readPump`, `writePump` | `reader`, `writer`; `conn` is the connection |
| a panic in any goroutine | `panicked`, after which nothing happens |

A panic in `readPump` first runs its deferred function, which must be received
by `Hub.Run`, and only then ends the process: `reader` is `"panicking"` between
the two. The select of `Hub.Run` and of `sessionHub.run` takes any ready case.
The messages are numbered per session, replies are all alike.

### SessionStore

| Code | Model |
|---|---|
| collection of sessions, field `status` | `stored` |
| `session:{id}` in Redis | `cached` |
| a request in `CreateNewPoll`, `SubmitVoteHandler`, `UpdateSessionHandler` | `request[r]`: the next call, the copy in hand, the reply |
| `fetchSessionFromCache`, `fetchSessionFromMongoDB`, `cacheSessionInRedis` | an action each; an error of Redis counts as a miss |
| `UpdateOne`, then `Del` | `UpdateStatusInMongoDB`, `DeleteCachedSession`; the outcome of the second is not looked at |

A request decides what it is with its first step, so that a run covers every
mix of creations, votes and updates. The vote consumer's `GetSessionByID` is the
same read with another reply. `UpdateOne` on an unknown session changes nothing
and reports no error. Of the calls in `cacheSessionInRedis` only the first
matters to a reader; an error of a later one is only logged.

History: `outdated` are the requests that hold a copy read before an update,
`tainted` the sessions whose cached copy such a request wrote or whose
invalidation failed, was not tried (`CoresRepo.go:176`) or died with its
process, `open` the requests during which the session was active, or the cache
could be stale when they came.

### ResultsBroadcast

| Code | Model |
|---|---|
| topic `votes.updated`, keyed by session (`config.go:63`) | `topic`, one sequence per partition; `PartitionOf` |
| `results-broadcaster-group` | `owner`, `committed`; `position`, per reader and partition |
| `ReadMessage` | `FetchMessage`, `CommitMessages`; in between the event is in `held` |
| the message between `ReadMessage` and `BroadcastToSession` | `hand` |
| a hub, its unbuffered channel and the session's queue | `hub`, a queue of `HubCap` |
| a client and the process it is connected to | `at`, `shown` |

An event of any vote consumer, repeated or not, is one `EmitResultsUpdated`;
that their order need not be the order of the votes they count is
`VotePipeline`'s matter. Assumed of Kafka is the same as there, and `overtaken`
is the same history, per partition. A broadcaster that lost its partition still
hands over the event in its hand, and may get the partition back in the meantime.

### Accounts

| Code | Model |
|---|---|
| collection of users | `organizers`; an account is named by the request that registered it |
| `user:email:{email}` | `cached` |
| `jwt.Middleware` | `form[r].token`, `Unauthorized`: 401 |
| the body that is decoded, or not | `form[r].json`, `BadRequest`: 400 |
| `FetchOrganizerFromEmail` | `FetchOrganizerFromRedis`, `FetchOrganizerFromMongo`, `CacheOrganizerInRedis` |
| `HashPassword`, `GenerateToken`, `SaveOrganizer` | `SaveOrganizer`, then `CacheOrganizerInRedis` |
| a password and its hash | equal values: `PasswordMatches` |
| `CheckPasswordHash`, `GenerateToken` and the reply of a login | `Finish`, `Answer`: 200, 401, or 500 when the token cannot be signed |
| a token | the reply that carries it, 200 or 201 |

With two accounts of one email `FindOne` may return either. Every request comes
with a valid token or without one, and so does a login: `mainRouter.Use`
(`PollingRouter.go:37`) puts the middleware in front of `/login` too. Other
methods than the handlers' own are left out.

## 3. What is checked

Passing runs:

| Run | Instance | Shows |
|---|---|---|
| `pipeline_faults` | 2 instances, 2 votes with one ballot on a question the session does not have, 1 retry; errors and lost replies of Kafka, Redis and MongoDB, repeated SETNX, failed reads of the session, crashes | `TypeOK`, `OneVotePerLock`, `RedeliveredOnlyIfOvertaken`, `VotesLostOnlyToFaults`, `ImplementsBallotBox` |
| `pipeline_single` | 1 instance, 2 votes of 1 or 2 participants on one question, 1 retry, repeated Kafka writes and cursors that break off, three kinds of selection, fairness | `VotesQueueUntilSaved`, `ResultsMonotone`, `ResultsComplete`, `VotersCountUnique`, `TotalsAddUp`, `OptionWithinVoters`, `AcceptedEventuallyCounted`, `ImplementsBallotBox` |
| `hub_safety` | 2 clients of one session, channels of 1, 3 broadcasts, 1 request | `TypeOK`, `NoClientStranded`, `NeverOffersToClosed`, `PanicOnlyAfterSlow`, `NoGap` |
| `hub_live` | 2 clients of one session, channels of 1, 2 broadcasts, a stats reader, fairness | `HubNeverStuck`, `DeadClientsRemoved`, `MembersServed` |
| `session_store` | 4 requests of any kind, 1 session, every fault and crashes | `TypeOK`, `StaleOnlyByRace`, `AcceptedWhileOpen` |
| `broadcast` | 2 instances, 1 client, 2 sessions, 1 partition, 2 events, 2 moves, failed commits and crashes, fairness | `TypeOK`, `OneInstancePerEvent`, `ShownInOrder`, `OwnInstanceShows`, `EveryEventForwarded` |
| `accounts` | 3 requests, 2 emails, 2 passwords, every fault and crashes | `TypeOK`, `EmailTakenOnlyByRace`, `RegisteredCanLogin`, `TokensNeedAccounts` |

Several of these say *what goes wrong only how*: which votes may be lost, when
a cache may be stale, which accounts may share an email. The exceptions they
name do happen, and are the code's weak points:

- an acknowledged vote is lost when a call on its behalf fails, or on behalf of
  an earlier vote of the same participant that left its lock behind;
- a message of either topic is processed again, or by two instances, when the
  partition moves between a reader's fetch and its commit; the late commit may
  also repeat the messages after it. A vote then meets its own lock, an event is
  broadcast on two instances, or to a client twice or after a later one;
- an event counts less than the one before it when the cursor behind it broke
  off: `cursor.Err()` is never asked, and the partial counts are cached and
  published like any other. `TotalsAddUp` says that `totalVotes` is short then,
  and only then;
- a session that was closed goes on taking votes while its update has not yet
  deleted the cached copy, and for the 48 hours of the cache if the deletion
  failed, never came, was not tried, or was followed by a fill with a copy read
  before the update;
- two accounts share an email if their registrations overlapped, or if the
  query of the later one failed. The holder of the only one is let in, given a
  valid token to begin with, unless MongoDB, the signature of the new token or
  the process fails.

`AcceptedEventuallyCounted` is of the form `[]<>P`. Its `P` says of all votes at
once that those acknowledged are counted. Both replies and events stay, and there
are finitely many votes, so this is the same as a `~>` for each vote, and one
formula to check.

The conditions matter too. `VotesQueueUntilSaved` and `AcceptedEventuallyCounted`
are promises of a system whose services do not fail, the results properties those
of a single instance (below) in which no update of the results fails but for its
cursor, `VotersCountUnique` that of participants with ObjectID names.
Outside of them:

| Violated | Property | Why | Says otherwise |
|---|---|---|---|
| `pipeline_mongo_down` | `VotesQueueUntilSaved` | one failed insert: the retry meets its own lock, the offset is gone | `src/README.md:132` |
| `pipeline_lock_expiry` | `OneVotePerParticipant` | the unique index is never created | `src/README.md:122` |
| `pipeline_fingerprints` | `VotersCountUnique` | ids that are no ObjectIDs are stored as the zero id | `VoteProcessor.go:252` |
| `broadcast_two_instances` | `AllClientsShown` | one consumer group for all instances: an event reaches the clients of one | `src/README.md:185` |
| `hub_no_panic` | `NoPanic` | a slow client's channel is closed a second time | `session_hub.go:43` |

More disagreements are visible in the models, but need no search to be seen, so
no run looks for them:

- `src/README.md:131` lets votes fall back to MongoDB while Redis is down. In
  `CheckDuplicateVote` an error of Redis ends the attempt, MongoDB is not asked,
  and after the last retry the vote is gone.
- `consumer.go:98` lists the errors that must not be retried. `processVote`
  wraps them, the texts differ, and a duplicate is retried like any failure.
- `src/README.md:149` answers an unknown question with an error. The handler
  never looks it up, and the vote is accepted and stored.
- `src/README.md:69`, `models.go:22` and `CoreHandler.go:34` speak of a draft
  status, the last as the default. `CoreHandler.go:34` itself makes a new poll
  active, `UpdateSessionHandler` accepts active and closed only, and nothing uses
  `DRAFT`: `SessionStore` has no such status.
- `config.go:63` keys messages by session "for ordering". A consumer that lost
  the partition of `votes.submitted` may still publish results it computed
  before those of the new owner: with two instances `ResultsMonotone` does not
  hold, whatever the key.
- `src/README.md:54` calls emails unique; nothing creates the index.
- A `PATCH` on a session that does not exist is answered 200.
- `mainRouter.Use(jwt.Middleware)` (`PollingRouter.go:38`) covers the
  subrouters too, `/login` and `/register` included: without a token nobody gets
  the first one. In `Accounts` the account's holder without a token is answered
  401 (`Unauthorized`); `RegisteredCanLogin` is about logins that bring one.
- The token of a registration carries the id of the request's body, not the one
  `SaveOrganizer` gives the account.

One thing may go wrong with the hub that `DeadClientsRemoved` excepts by name:
a `readPump` that replies on a full channel after its `writePump` has returned
waits until a broadcast finds the channel full and closes it. `hub_live` has no
requests, so that nothing but a slow client keeps a dead one in the hubs there.

### Bounds

Votes with equal ballots are what the lock is about, and two are enough to
collide. `MaxRetries` is 3 in the code and in the violations; with the 1 of the
two passing runs a worker already retries and then gives up. Rebalances,
expiries and crashes are not bounded. Kafka writes are: each vote is submitted
once, at most doubled by a fault. In `pipeline_faults` the session has no
question, so that a vote's way ends with its insert (the lookup after it finds
nothing): what follows it is in `pipeline_single`, and the theorems cover both together.
Of the faults, repeated Kafka writes and broken cursors are only in
`pipeline_single`: the first lengthen the topic, the second come after the insert.
Two votes, one with the selection `<<0>>` and the other with `<<1, 1>>` or
`<<0, 2>>`, cover an option chosen, repeated and out of range. A cursor's first
batch has up to 101 groups in MongoDB and at least 1 here (`FirstBatch`), so that
a question of two options has something to lose.

In the hub, capacities of 1 make every channel overflow that overflows at 256.
Two clients are a member that leaves and one that stays or comes later, with
the session's hub dropped and made again in between. The third broadcast of
`hub_safety` is what a gap would need: one number received, one lost, one
received. One session is enough for the hub's own state: sessions meet only in
`Hub.Run`, which handles one request at a time and which `hub_live` shows
always to return to its select.

In `session_store` a stale copy that is then believed takes four requests: the
one that fills the cache, an update, another update or creation, and a vote.
Sessions do not interact: each has its own key and document.
In `broadcast` a broadcaster that loses its partition with an event in hand and
gets it back needs two moves (`MaxMoves` bounds rebalances of an owned partition
and crashes; orphans are assigned without limit), and a later event, of the same
session or another, that could overtake the one in hand. The same two moves take
a fetched event from a reader and give it back before the commit. Partitions do
not interact. In `accounts` two registrations race and a third request logs in or
registers again.

Deadlock is checked in every run of the pipeline, where an expiry or rebalance
is always possible. It is not in the others: there the bounded number of
requests, clients, events or broadcasts, or a panic, ends every behaviour. What
must not wait for ever there is stated by `HubNeverStuck`, `DeadClientsRemoved`
and `EveryEventForwarded`.

### Fairness

`VotePipeline` (`pipeline_single`): a running consumer goroutine takes its next
step, a reader that lost the partition hears of it (`Rejoin`: heartbeats end its
generation), and the coordinator gives an orphaned partition to some member.
Nothing is assumed of votes, rebalances, expiries or restarts. `Hub` (`hub_live`): weak
fairness for each goroutine as a whole (the Go scheduler), never for one case of
a select; stats calls return, and a pump whose connection is gone finds out (the
deadlines of 60 and 10 seconds). Peers, requests and broadcasts need never
happen. `ResultsBroadcast` (`broadcast`): a running broadcaster and its hub take
their next step, a reader hears of a rebalance, an orphaned partition is assigned, and a process that died is
started again by whatever runs the service. That the group does not rebalance
for ever is the bound `MaxMoves`; a group that does never delivers anything.

## 4. What is proved

Every theorem holds for any values of the constants that satisfy the module's
named assumption. Each is about `Spec`, without fairness. The invariants were
checked with TLC on the instances of the runs before they were proved. Where a
property is a promise of some deployments only (section 3), its theorem names
what it needs of them as a hypothesis; every other one holds for any set of
faults. Every invariant and every action property of a passing run is a theorem.

`VotePipelineProofs`, for any sets of instances, votes, participants and
questions, any number of retries and any set of faults, from
`PipelineAssumption` alone:

- `TypeCorrect`. `TypeOK` needs `HandsFull`: a worker in the middle of a
  message holds a vote, and after the count it holds results.
- `OneVotePerLockHolds`. `OneVotePerLock` speaks only of stored votes, and the
  step that stores one can break it. The invariant `LockInv` adds the consumer
  that has taken the lock and not yet inserted: such a consumer and a stored
  vote both have a *claim* to their ballot; while the lock of a ballot has
  never lapsed, a claim implies the lock and there is at most one claim. SETNX
  makes a claim only where there is none, an insert passes it on to the stored
  vote, failed inserts and crashes drop it, and an expiry moves the ballot to
  `lapsed`.
- `RedeliveredOnlyIfOvertakenHolds`. An offset is `Clean` if it is before the first
  one that was overtaken. `DeliveryInv` speaks of clean offsets only: one that was
  delivered is behind the group's offset, behind the owner's position and behind
  whatever other readers hold (`DeliveredBehind`), and one that is held is held by
  the owner, right at its position (`OwnersHand`). A rebalance that meets a held
  offset makes it, and all after it, unclean; a late commit sets the group's offset
  to an unclean one and so leaves what is before it alone. Only `CommitMessages`
  starts a consumer on a message (`OnlyCommitStarts`), and an offset it starts on
  that is clean was never delivered.

`VotePipelineQueueProofs`:

- `VotesLostOnlyToFaultsHolds`. The property speaks of acknowledged votes;
  `QueueInv` follows them: an acknowledged vote is on the topic (`AcksLogged`);
  the offsets up to the committed one belong to votes whose ballot has a vote
  that is stored, in process or struck (`Handled`), and so do those each reader
  has passed, but for the one in its hands (`PassedAll`), so that a late commit
  moves the group past no vote that was dropped; and a lock is held only for a
  ballot with a vote that is stored, struck or about to be stored (`LockUsed`). So a vote
  given up as a duplicate leaves behind a vote with its ballot, in one of the
  places the property names.
- `VotesQueueUntilSavedHolds`, if no call fails except that Kafka writes may be
  repeated and cursors break off (`OnlyRepeatedWrites`): then no vote is ever struck, and the theorem
  above leaves only the places where a vote is safe. Rebalances and lock expiries
  are allowed. Each other failure can lose a vote: a commit that reports an error
  or is late drops the message in hand, and one of Redis, MongoDB or the session
  read may fail on every retry, or once after the lock was taken.

`BallotBoxProofs`:

- `ImplementsBallotBoxHolds`. Every initial state maps to one of the box, every
  step to a step or to a stutter. `BoxInv` supplies what the box's guards ask:
  a worker's vote is on the topic, its tally counts stored votes on its own
  question and at least one, and an insert meets no stored vote with its ballot
  unless the ballot lapsed (from `LockInv`).

`VotePipelineResultsProofs`, about the events on `votes.updated`:

- `TotalsAddUpHolds` needs nothing: any instances, selections and failures.
  `PublishedInv` says that the votes an event is computed from are stored, hence
  finitely many, `GroupsInv` that the groups it read are some of theirs. The rest
  is about sums. `MapThenSumSet` is a recursive function that picks the elements of
  a set one by one, and the provers cannot do induction on it; `SumExists` and
  `SumUnique` go around that. The function that gives every
  set of keys the number of elements under it satisfies the recursion
  (`UnderLess`), and two functions that satisfy it agree: there is no least set
  on which they differ. So `totalVotes` is the number of unwound documents
  whose group was read (`SumOfCounts`), `Selected` the number of all of them
  (`SumOfLengths`), and a group is never empty.
- `ResultsMonotoneHolds`, with one instance (`OneInstance`) and any failures,
  crashes and restarts. `EventInv` adds `FreshTally`: nobody stores a vote while a
  tally is in hand, so it is computed from all stored votes on its question, and
  those of an earlier event are among them. More votes make no group smaller
  (`GroupsGrow`), and an event whose cursor gave every group shows their sizes
  (`CompleteCounts`); of one whose cursor broke off nothing more can be said.
  With two instances the property is false.
- `VotersCountUniqueHolds` and `OptionWithinVotersHolds`, if moreover MongoDB
  answers (`MongoAnswers`: a failed `Distinct` publishes 0 voters) and every
  participant id is an ObjectID (`HexParticipants = Participants`; without it
  `pipeline_fingerprints` fails). `VotersInv`: the voters of a tally are those of
  its votes. The second maps every vote for an option to its voter, one to one
  because of `OneVotePerLock`, and compares cardinalities.
- `ResultsCompleteHolds`, with one instance and no failures but lost replies and
  repeats of Kafka and Redis, and cursors that break off (`OnlyLostReplies`); an insert that is reported as
  failed but took effect is never counted unless another vote follows.
  `CompleteInv`: for every question of the session either its last event counts
  all its votes and the cache agrees or is empty (`Settled`), or the consumer has
  stored a vote on it and not announced it yet.

`SessionStoreProofs`:

- `SessionTypeCorrect`, `StaleOnlyByRaceHolds`, `AcceptedWhileOpenHolds`. The
  first strengthening: a request about to fill the cache, and not `outdated`,
  holds the stored status, so a fill either agrees with the collection or taints
  the session. The second: a request that holds an active copy is `open`.

`ResultsBroadcastProofs`:

- `BroadcastTypeCorrect`, `OneInstancePerEventHolds`, `ShownInOrderHolds`,
  `OwnInstanceShowsHolds`, from `BroadcastInv`. An event is `Clean` if it is before
  the first of its partition that was overtaken. `HeldInv`: the reader that holds a
  clean event still owns the partition and stands right behind it. `ClaimInv`: a
  clean event that `ReadMessage` returned is `Behind` the group's offset, the owner's
  position and everything held, so nobody will fetch it again, and it is in one hand
  or was forwarded by one instance. What a step overtakes only makes events unclean
  (`OvertakenStep`), so what holds of clean events is never asked of more of them.
  `OrderInv`: along one instance's way (the client, the hub, the hand) offsets of a
  partition rise after a clean event. `GroupInv` keeps offsets within the topic.
  `DueInv`: a due event forwarded on a client's instance is in its hub or was shown.

`AccountsProofs`:

- `AccountsTypeCorrect`, `EmailTakenOnlyByRaceHolds`, `RegisteredCanLoginHolds`,
  `TokensNeedAccountsHolds`, from `AccountsInv`. `HoldInv`: what a request holds
  and what the cache holds are stored accounts of the email they stand under.
  `RaceInv`: a registration on its way to insert, that was not blind, found no
  account of its email that was stored when it came. `RegisteredCanLogin` is
  inductive with these two: a request's own steps give its reply, from the account
  `HoldInv` says is the only one its email has, and the steps of others change
  neither its reply nor what was stored before it came.

`HubProofs`, for any numbers of clients, sessions and stats calls and any
capacities:

- `HubTypeCorrect`, with `HandsFull`: while `Hub.Run` is about to hand a client
  over, or to read the length, the session has its SessionHub; and once it has
  handed over a client that leaves, nobody hands that SessionHub one to add.
- `NoClientStrandedHolds`, `NeverOffersToClosedHolds`, `PanicOnlyAfterSlowHolds`,
  from `HubInv`. `MemberInv`: the session of every member names its SessionHub,
  and a member whose channel is closed, or that `Hub.Run` is seeing off, is just
  being removed. A removal holds the SessionHub's mutex, so no loop over the
  clients (`FanoutInv`) meets such a member. `BornInv`: the SessionHub a client's
  registration creates is new. `ClosedInv`: a channel that no SessionHub closed
  is closed once, by `Hub.Run`, after the client's reader is done; so a second
  close, or a reply on a closed channel, needs a client that was slow.
- `NoGapHolds`, from `OrderInv`, which follows a number on its way. `SourceInv`:
  what `Hub.Run` holds is the next number of its session after those it passed
  on. `QueueInv`: the queue of the session's SessionHub holds the last of these
  without a gap, and the number in its hand is the one before. `FreshInv`: a
  client that was not added yet has nothing but replies in its channel.
  `ChannelInv`: `client.send` mixes broadcasts with replies, so there is a
  numbering `g` of its positions, from the last broadcast received to the last
  one given, that grows by one at a broadcast and stands still at a reply. A
  client whose channel is full has it closed, so that a lost number is followed
  by nothing. `HubAssumption` asks that `None` is no message,
  since it stands for an empty hand.

Left to TLC: liveness, which is out of the prover's reach (`AcceptedEventuallyCounted`,
`EveryEventForwarded`, `HubNeverStuck`, `DeadClientsRemoved`, `MembersServed`).

## 5. Not modelled

- `organizer_sessions:` and `session_joincode:` are written by
  `cacheSessionInRedis` and never read by a handler: `GetSessionsByOrganizer` has
  no caller (its fallback reads the collection `"sessions"` by name), and nothing
  looks a join code up. `vote:`, `session_votes:` and `participant_vote:` are written
  by `cacheVoteInRedis`: `GetVotesForSession` (`CoresRepo.go:208`) has no caller, and
  nothing reads the other two.
- The gateway. mux applies the functions given to `Use` at every match, and
  `RateLimitMiddleware` makes its limiter when it is applied, so each request
  meets a new limiter and none is ever refused: there is no state to model.
- `database/`, whose `Init` runs once before any goroutine is started and which
  is I/O otherwise (`Init` keeps the old client when its ping fails and replaces
  it when it succeeds, but nothing calls it a second time).
- `utils/`, which formats responses, hashes passwords and draws join codes.
- Functions without a caller: `GetCachedResults`, `GetVoteCountForQuestion`,
  `InvalidateUserCache`, `EstablishIndexes`.

## 6. Plan

Done: `VotePipeline`, `BallotBox`, `ResultsTally`, `Hub`, `SessionStore`,
`ResultsBroadcast`, `Accounts`, and the proofs above. Left, in this order:

1. The safety core of `HubNeverStuck` as a theorem: whenever `Hub.Run` waits for a
   mutex or a channel, some goroutine of the chain it waits for can move, stated
   on the guards since `ENABLED` is out of reach.
2. The same for `DeadClientsRemoved`: what a client whose peer is gone still waits
   for.
3. That `Hub` implements the queue `ResultsBroadcast` sees of it, as a refinement.
