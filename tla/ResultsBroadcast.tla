-------------------------- MODULE ResultsBroadcast --------------------------
(***************************************************************************)
(* From the topic "votes.updated" to the screens.  Every server instance   *)
(* runs a results broadcaster; all of them are members of one consumer     *)
(* group, so the coordinator gives each partition of the topic to one of   *)
(* them.  It hands what it reads to the hub of its own process, which      *)
(* knows only the clients connected to that process.                       *)
(*                                                                         *)
(* A hub is seen from outside: a bounded queue whose head goes to every    *)
(* client the session has on this instance.  Module Hub shows that it      *)
(* keeps the order (NoGap) and serves its members (MembersServed).         *)
(***************************************************************************)
EXTENDS Naturals, Sequences, FiniteSets, FiniteSetsExt

CONSTANTS
  Instances,    \* server processes
  Clients,      \* WebSocket connections ever opened
  Sessions,     \* poll sessions
  SessionOf,    \* the sessionId each client connects with
  Partitions,   \* partitions of votes.updated
  PartitionOf,  \* the hash balancer: events are keyed by their session
  HubCap,       \* what a hub takes before BroadcastToSession blocks
  Faults,       \* the failures considered: pairs <<service, outcome>>
  MaxEvents,    \* bound: results events per partition
  MaxMoves,     \* bound: rebalances of an owned partition, and crashes
  None          \* "no event", "no member", "no subscription"

FaultKinds == {<<"kafka", "error">>, <<"kafka", "late">>, <<"process", "crash">>}

Events == [partition : Partitions, offset : 1..MaxEvents]

ASSUME BroadcastAssumption ==
  /\ SessionOf \in [Clients -> Sessions]
  /\ PartitionOf \in [Sessions -> Partitions]
  /\ HubCap \in Nat \ {0}
  /\ Faults \subseteq FaultKinds
  /\ MaxEvents \in Nat /\ MaxMoves \in Nat
  /\ None \notin Instances \cup Events \cup Nat
  /\ {"none", "gone"} \cap Instances = {}

VARIABLES
  topic,        \* votes.updated: for each partition the sessions of its events
  committed,    \* offsets committed by results-broadcaster-group
  position,     \* where each reader is in the partitions it subscribes, or None
  owner,        \* the member each partition is assigned to
  up,           \* the instances that run
  held,         \* the event each reader has fetched and not committed yet
  hand,         \* the event each broadcaster is about to broadcast
  hub,          \* events in each instance's hub
  at,           \* instance each client is connected to, "none" or "gone"
  shown,        \* events each client was sent, in order
  moves,        \* rebalances and crashes so far
  forwarded,    \* history: <<event, instance>> handed to a hub
  missed,       \* history: events a failed commit or a crash took
  overtaken,    \* history: for each partition the first offset that was in a
                \* reader's hands, not committed, when it moved; 0 if none was
  due           \* history: <<client, event>> connected when it was produced

group   == <<topic, committed, position, owner, overtaken>>
clients == <<at, shown>>
history == <<forwarded, missed, due>>
vars    == <<group, up, held, hand, hub, clients, moves, history>>

Init ==
  /\ topic = [p \in Partitions |-> <<>>]
  /\ committed = [p \in Partitions |-> 0]
  /\ position = [i \in Instances |-> [p \in Partitions |-> None]]
  /\ owner = [p \in Partitions |-> None]
  /\ up = Instances
  /\ held = [i \in Instances |-> None]
  /\ hand = [i \in Instances |-> None]
  /\ hub = [i \in Instances |-> <<>>]
  /\ at = [c \in Clients |-> "none"]
  /\ shown = [c \in Clients |-> <<>>]
  /\ moves = 0
  /\ forwarded = {}
  /\ missed = {}
  /\ overtaken = [p \in Partitions |-> 0]
  /\ due = {}

-----------------------------------------------------------------------------

Outcome == {"ok"} \cup {o \in {"error", "late"} : <<"kafka", o>> \in Faults}

SessionOfEvent(e) == topic[e.partition][e.offset]

NextEvent(i, p) == [partition |-> p, offset |-> position[i][p] + 1]

Connected == {c \in Clients : at[c] \in Instances}

\* UpdateRealTimeResults of some vote consumer writes the event; a write that
\* the client library repeats is one more event.
EmitResultsUpdated(s) ==
  LET p == PartitionOf[s]  n == Len(topic[p]) + 1 IN
  /\ n <= MaxEvents
  /\ topic' = [topic EXCEPT ![p] = Append(@, s)]
  /\ due' = due \cup {<<c, [partition |-> p, offset |-> n]>> :
                        c \in {d \in Connected : SessionOf[d] = s}}
  /\ UNCHANGED <<committed, position, owner, overtaken, up, held, hand, hub, clients,
                 moves, forwarded, missed>>

\* The first of some offsets, where 0 is none.
Earliest(offsets) == IF offsets \subseteq {0} THEN 0 ELSE Min(offsets \ {0})

\* ReadMessage, first half: FetchMessage takes the next message of a partition
\* the reader subscribes.  A reader that lost the partition goes on to return
\* what it has buffered until it has rejoined the group.
FetchMessage(i, p) ==
  /\ i \in up /\ hand[i] = None /\ held[i] = None
  /\ position[i][p] # None /\ position[i][p] < Len(topic[p])
  /\ position' = [position EXCEPT ![i][p] = @ + 1]
  /\ held' = [held EXCEPT ![i] = NextEvent(i, p)]
  /\ overtaken' = IF owner[p] = i THEN overtaken
                  ELSE [overtaken EXCEPT ![p] = Earliest({@, position[i][p] + 1})]
  /\ UNCHANGED <<topic, committed, owner, up, hand, hub, clients, moves, history>>

\* The group has assigned the partition to somebody else, and i's reader has not
\* rejoined yet.
Outdated(i, p) == owner[p] # i /\ position[i][p] # None

\* Mutant: FetchMessage without CommitMessages.
NotCommitted(e, o) == committed

\* The group's offset after the commit of e: whatever it was, and whoever has the
\* partition now.
CommittedAfter(e, o) ==
  IF o = "error" THEN committed ELSE [committed EXCEPT ![e.partition] = e.offset]

\* ReadMessage, second half: CommitMessages, before it returns.  The request waits
\* for the generation the reader is a member of; one sent for a generation that is
\* over is refused.  When ReadMessage fails, for whatever reason,
\* StartResultsBroadcaster only reads on.
CommitMessages(i) ==
  LET e == held[i] IN
  /\ i \in up /\ e # None
  /\ \E o \in Outcome :
       /\ Outdated(i, e.partition) => o = "error"
       /\ committed' = CommittedAfter(e, o)
       /\ IF o = "ok"
          THEN hand' = [hand EXCEPT ![i] = e] /\ UNCHANGED missed
          ELSE missed' = missed \cup {e} /\ UNCHANGED hand
  /\ held' = [held EXCEPT ![i] = None]
  /\ UNCHANGED <<topic, position, owner, overtaken, up, hub, clients, moves,
                 forwarded, due>>

\* Mutant: the broadcaster does not wait for the hub.
AlwaysRoom(i) == TRUE

\* h.broadcast is unbuffered and Hub.Run waits for the session's own queue.
HasRoom(i) == Len(hub[i]) < HubCap

\* processResultsMessage, broadcastResultsUpdate and Hub.BroadcastToSession;
\* then the loop reads the next message.
BroadcastResultsUpdate(i) ==
  /\ i \in up /\ hand[i] # None
  /\ HasRoom(i)
  /\ hub' = [hub EXCEPT ![i] = Append(@, hand[i])]
  /\ forwarded' = forwarded \cup {<<hand[i], i>>}
  /\ hand' = [hand EXCEPT ![i] = None]
  /\ UNCHANGED <<group, up, held, clients, moves, missed, due>>

Broadcaster(i) ==
  \/ \E p \in Partitions : FetchMessage(i, p)
  \/ CommitMessages(i)
  \/ BroadcastResultsUpdate(i)

\* Mutant: a client leaves the session's hub with its first message.
Newcomers(i, s) == {c \in Clients : at[c] = i /\ SessionOf[c] = s /\ shown[c] = <<>>}

\* The clients in the SessionHub of session s on instance i.
Audience(i, s) == {c \in Clients : at[c] = i /\ SessionOf[c] = s}

\* Hub.Run and sessionHub.run: the oldest message goes to the session's clients.
FanOut(i) ==
  LET e == Head(hub[i]) IN
  /\ i \in up /\ hub[i] # <<>>
  /\ hub' = [hub EXCEPT ![i] = Tail(@)]
  /\ shown' = [c \in Clients |->
       IF c \in Audience(i, SessionOfEvent(e)) THEN Append(shown[c], e) ELSE shown[c]]
  /\ UNCHANGED <<group, up, held, hand, at, moves, history>>

\* The load balancer connects the client to any instance.
Connect(c, i) ==
  /\ at[c] = "none"
  /\ i \in up
  /\ at' = [at EXCEPT ![c] = i]
  /\ UNCHANGED <<group, up, held, hand, hub, shown, moves, history>>

\* The peer goes, or the hub drops it as slow.
Disconnect(c) ==
  /\ c \in Connected
  /\ at' = [at EXCEPT ![c] = "gone"]
  /\ UNCHANGED <<group, up, held, hand, hub, shown, moves, history>>

-----------------------------------------------------------------------------

\* Mutant: a reader that starts at the end of the partition.
LatestOffset(p) == Len(topic[p])

\* Where the reader of a new owner starts.
StartOffset(p) == committed[p]

\* The offsets of the partition that some reader has fetched and not committed.
HeldOffsets(p) ==
  {held[i].offset : i \in {j \in Instances : held[j] # None /\ held[j].partition = p}}

\* The coordinator assigns the partition, an orphan or not, and the reader that
\* gets it starts at the committed offset.  What the others have fetched they keep.
Rebalance(i, p) ==
  /\ i \in up
  /\ IF owner[p] = None THEN UNCHANGED moves
     ELSE /\ moves < MaxMoves
          /\ moves' = moves + 1
  /\ owner' = [owner EXCEPT ![p] = i]
  /\ position' = [position EXCEPT ![i][p] = StartOffset(p)]
  /\ overtaken' = [overtaken EXCEPT ![p] = Earliest({@} \cup HeldOffsets(p))]
  /\ UNCHANGED <<topic, committed, up, held, hand, hub, clients, history>>

\* A reader that lost the partition joins the new generation: what it has
\* buffered is of an older version and not returned any more.
Rejoin(i, p) ==
  /\ Outdated(i, p)
  /\ position' = [position EXCEPT ![i][p] = None]
  /\ UNCHANGED <<topic, committed, owner, overtaken, up, held, hand, hub, clients, moves,
                 history>>

\* The process dies with its hub and its connections.  What was fetched and not
\* committed is still on the topic.
Crash(i) ==
  /\ <<"process", "crash">> \in Faults
  /\ i \in up
  /\ moves < MaxMoves
  /\ moves' = moves + 1
  /\ up' = up \ {i}
  /\ held' = [held EXCEPT ![i] = None]
  /\ hand' = [hand EXCEPT ![i] = None]
  /\ missed' = missed \cup ({hand[i]} \ {None})
  /\ hub' = [hub EXCEPT ![i] = <<>>]
  /\ at' = [c \in Clients |-> IF at[c] = i THEN "gone" ELSE at[c]]
  /\ owner' = [p \in Partitions |-> IF owner[p] = i THEN None ELSE owner[p]]
  /\ position' = [position EXCEPT ![i] = [p \in Partitions |-> None]]
  /\ UNCHANGED <<topic, committed, overtaken, shown, forwarded, due>>

Restart(i) ==
  /\ i \in Instances \ up
  /\ up' = up \cup {i}
  /\ UNCHANGED <<group, held, hand, hub, clients, moves, history>>

Next ==
  \/ \E s \in Sessions : EmitResultsUpdated(s)
  \/ \E i \in Instances : Broadcaster(i) \/ FanOut(i) \/ Crash(i) \/ Restart(i)
  \/ \E i \in Instances, p \in Partitions : Rebalance(i, p) \/ Rejoin(i, p)
  \/ \E c \in Clients : Disconnect(c) \/ \E i \in Instances : Connect(c, i)

Spec == Init /\ [][Next]_vars

\* A running broadcaster and its hub go on, a member of the group hears of a
\* rebalance, an orphaned partition finds an owner, and a process that died is
\* started again.
Fairness ==
  /\ \A i \in Instances : WF_vars(Broadcaster(i)) /\ WF_vars(FanOut(i))
  /\ \A i \in Instances, p \in Partitions : WF_vars(Rejoin(i, p))
  /\ \A p \in Partitions : WF_vars(owner[p] = None /\ \E i \in Instances : Rebalance(i, p))
  /\ \A i \in Instances : WF_vars(Restart(i))

FairSpec == Spec /\ Fairness

-----------------------------------------------------------------------------
(* Properties *)

TypeOK ==
  /\ topic \in [Partitions -> Seq(Sessions)]
  /\ \A p \in Partitions : Len(topic[p]) <= MaxEvents
  /\ committed \in [Partitions -> 0..MaxEvents]
  /\ position \in [Instances -> [Partitions -> 0..MaxEvents \cup {None}]]
  /\ owner \in [Partitions -> Instances \cup {None}]
  /\ up \subseteq Instances
  /\ held \in [Instances -> Events \cup {None}]
  /\ hand \in [Instances -> Events \cup {None}]
  /\ hub \in [Instances -> Seq(Events)]
  /\ \A i \in Instances : Len(hub[i]) <= HubCap
  /\ at \in [Clients -> Instances \cup {"none", "gone"}]
  /\ shown \in [Clients -> Seq(Events)]
  /\ moves \in 0..MaxMoves
  /\ forwarded \subseteq Events \X Instances
  /\ missed \subseteq Events
  /\ overtaken \in [Partitions -> 0..MaxEvents]
  /\ due \subseteq Clients \X Events

\* A reader was overtaken, with e or an event before it in its hands, when the
\* partition of e was assigned anew between its FetchMessage and CommitMessages.
Overtaken(e) == overtaken[e.partition] \in 1..e.offset

\* An event is broadcast on two instances only if a reader was overtaken: a crash,
\* a failed commit or a rebalance at any other time repeats nothing, because the
\* offset is committed before the broadcast.
OneInstancePerEvent ==
  \A x, y \in forwarded : x[1] = y[1] /\ x[2] # y[2] => Overtaken(x[1])

\* What a client is sent comes in the order of the topic, and nothing twice, even
\* when the partition leaves its instance and comes back, unless a reader was
\* overtaken: then an event that follows itself, or a later one, may be sent.
ShownInOrder ==
  \A c \in Clients : \A m, n \in 1..Len(shown[c]) :
    m < n => \/ shown[c][m].offset < shown[c][n].offset
             \/ Overtaken(shown[c][m])

InHub(i) == {hub[i][n] : n \in 1..Len(hub[i])}
ShownTo(c) == {shown[c][n] : n \in 1..Len(shown[c])}

\* A client that was connected when an event was produced, and still is, has
\* been shown it as soon as its own instance has broadcast it, or finds it in
\* the hub.
OwnInstanceShows ==
  \A c \in Connected, e \in Events :
    <<c, e>> \in due /\ <<e, at[c]>> \in forwarded => e \in ShownTo(c) \cup InHub(at[c])

\* Every event is broadcast by some instance, unless its commit failed or the
\* instance that held it died.
EveryEventForwarded ==
  \A e \in Events :
    e.offset <= Len(topic[e.partition])
      ~> e \in missed \/ \E i \in Instances : <<e, i>> \in forwarded

\* Nothing is on its way any more.
Quiet ==
  /\ \A p \in Partitions : committed[p] = Len(topic[p])
  /\ \A i \in Instances : held[i] = None /\ hand[i] = None /\ hub[i] = <<>>

\* The README's workflow, "broadcast to all connected clients": when nothing is
\* on its way, whoever was connected when an event of the session was produced,
\* and still is, has been shown it.
AllClientsShown ==
  Quiet => \A c \in Connected, e \in Events : <<c, e>> \in due => e \in ShownTo(c)
=============================================================================
