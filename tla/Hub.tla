-------------------------------- MODULE Hub ---------------------------------
(***************************************************************************)
(* The WebSocket hub of one server process.  Its threads are:              *)
(*   - Hub.Run, one goroutine, which owns h.sessions;                      *)
(*   - one sessionHub.run goroutine for each SessionHub ever created;      *)
(*   - a readPump and a writePump for each connected client;               *)
(*   - the results broadcaster, which calls BroadcastToSession;            *)
(*   - HTTP handlers that call GetSessionStats.                            *)
(* They meet at unbuffered channels (register, unregister, h.broadcast),   *)
(* at buffered ones (sessionHub.broadcast, client.send) and at the         *)
(* mutexes of the Hub and of each SessionHub.                              *)
(*                                                                         *)
(* A send on an unbuffered channel and its receive are one joint step.  A  *)
(* SessionHub is named by the client whose registration created it.        *)
(***************************************************************************)
EXTENDS Naturals, Sequences, FiniteSets

CONSTANTS
  Clients,        \* WebSocket connections ever opened
  Sessions,       \* poll sessions
  SessionOf,      \* the sessionId each client connects with
  Pollers,        \* HTTP handlers reading GetSessionStats
  SendCap,        \* capacity of client.send, 256 in the code
  QueueCap,       \* capacity of sessionHub.broadcast, 256 in the code
  MaxBroadcasts,  \* bound: broadcasts per session
  MaxRequests,    \* bound: messages a client sends that are answered
  None            \* "no client", "no session hub", "no message"

Reply == 0
Numbers == 1..MaxBroadcasts
Message == [session : Sessions, number : Numbers]

ASSUME HubAssumption ==
  /\ SessionOf \in [Clients -> Sessions]
  /\ SendCap \in Nat \ {0} /\ QueueCap \in Nat \ {0}
  /\ MaxBroadcasts \in Nat /\ MaxRequests \in Nat
  /\ None \notin Clients /\ None \notin Message

VARIABLES
  hub,        \* Hub.Run: where it is, and the client or message in hand
  sessions,   \* h.sessions
  shub,       \* the SessionHubs and their run goroutines
  conn,       \* each client's network connection
  reader,     \* readPump (and before it ServeWebSocket)
  writer,     \* writePump
  send,       \* contents of client.send; Reply or the number of a broadcast
  closed,     \* client.send has been closed
  requests,   \* answered messages so far
  publisher,  \* the message BroadcastToSession is sending, or None
  published,  \* number of broadcasts of each session so far
  poller,     \* GetSessionStats calls: the locks they hold
  panicked,   \* a goroutine panicked, which ends the process
  received,   \* history: broadcasts each client's connection accepted
  slow        \* history: clients a SessionHub disconnected as slow

hubVars    == <<hub, sessions>>
clientVars == <<conn, reader, writer, send, closed, requests, received, slow>>
sources    == <<publisher, published, poller>>
vars       == <<hubVars, shub, clientVars, sources, panicked>>

HubPC == {"select", "register", "handRegister", "unregister",
          "handUnregister", "checkEmpty", "closeSend", "broadcast"}

ShubPC == {"none", "select", "add", "remove", "broadcast", "fanout"}

Init ==
  /\ hub = [pc |-> "select", client |-> None, msg |-> None]
  /\ sessions = [s \in Sessions |-> None]
  /\ shub = [h \in Clients |-> [pc |-> "none", clients |-> {}, queue |-> <<>>,
                                client |-> None, number |-> Reply, todo |-> {}]]
  /\ conn = [c \in Clients |-> "none"]
  /\ reader = [c \in Clients |-> "none"]
  /\ writer = [c \in Clients |-> "none"]
  /\ send = [c \in Clients |-> <<>>]
  /\ closed = [c \in Clients |-> FALSE]
  /\ requests = [c \in Clients |-> 0]
  /\ publisher = None
  /\ published = [s \in Sessions |-> 0]
  /\ poller = [p \in Pollers |-> [pc |-> "idle", at |-> None]]
  /\ panicked = FALSE
  /\ received = [c \in Clients |-> <<>>]
  /\ slow = {}

-----------------------------------------------------------------------------
(* Mutexes.  A waiting writer keeps new readers out, as in sync.RWMutex. *)

HubWriteLocked == hub.pc \in {"register", "handRegister", "unregister",
                              "handUnregister", "checkEmpty", "closeSend"}
HubReadLocked == \E p \in Pollers : poller[p].pc # "idle"

ShubWriteLocked(h) == shub[h].pc \in {"add", "remove", "broadcast", "fanout"}
ShubReadLocked(h) == \E p \in Pollers : poller[p].pc = "counting" /\ poller[p].at = h

-----------------------------------------------------------------------------
(* Hub.Run *)

HubAt(pc) == hub' = [hub EXCEPT !.pc = pc]
HubSelect == hub' = [pc |-> "select", client |-> None, msg |-> None]

SessionHubOf(c) == sessions[SessionOf[c]]

\* case client := <-h.register.  ServeWebSocket goes on and starts the pumps.
TakeRegister(c) ==
  /\ hub.pc = "select"
  /\ reader[c] = "registering"
  /\ hub' = [hub EXCEPT !.pc = "register", !.client = c]
  /\ reader' = [reader EXCEPT ![c] = "reading"]
  /\ writer' = [writer EXCEPT ![c] = "running"]
  /\ UNCHANGED <<sessions, shub, conn, send, closed, requests, received, slow,
                 sources, panicked>>

\* registerClient up to the send on sessionHub.register.
RegisterClient ==
  LET c == hub.client  s == SessionOf[c] IN
  /\ hub.pc = "register"
  /\ ~HubReadLocked
  /\ IF sessions[s] = None
     THEN /\ sessions' = [sessions EXCEPT ![s] = c]
          /\ shub' = [shub EXCEPT ![c].pc = "select"]
     ELSE UNCHANGED <<sessions, shub>>
  /\ HubAt("handRegister")
  /\ UNCHANGED <<clientVars, sources, panicked>>

\* sessionHub.register <- client; registerClient returns.
HandRegister ==
  LET h == SessionHubOf(hub.client) IN
  /\ hub.pc = "handRegister"
  /\ shub[h].pc = "select"
  /\ shub' = [shub EXCEPT ![h].pc = "add", ![h].client = hub.client]
  /\ HubSelect
  /\ UNCHANGED <<sessions, clientVars, sources, panicked>>

\* case client := <-h.unregister, sent by readPump's deferred function, which
\* then closes the connection.  If it was a panic that ran the deferred
\* function, the process ends once it returns.
TakeUnregister(c) ==
  /\ hub.pc = "select"
  /\ reader[c] \in {"unregistering", "panicking"}
  /\ panicked' = (reader[c] = "panicking")
  /\ hub' = [hub EXCEPT !.pc = "unregister", !.client = c]
  /\ reader' = [reader EXCEPT ![c] = "done"]
  /\ conn' = [conn EXCEPT ![c] = "closed"]
  /\ UNCHANGED <<sessions, shub, writer, send, closed, requests, received, slow,
                 sources>>

\* unregisterClient: is there a SessionHub for the session?
UnregisterClient ==
  /\ hub.pc = "unregister"
  /\ ~HubReadLocked
  /\ HubAt(IF SessionHubOf(hub.client) = None THEN "closeSend" ELSE "handUnregister")
  /\ UNCHANGED <<sessions, shub, clientVars, sources, panicked>>

\* sessionHub.unregister <- client
HandUnregister ==
  LET h == SessionHubOf(hub.client) IN
  /\ hub.pc = "handUnregister"
  /\ shub[h].pc = "select"
  /\ shub' = [shub EXCEPT ![h].pc = "remove", ![h].client = hub.client]
  /\ HubAt("checkEmpty")
  /\ UNCHANGED <<sessions, clientVars, sources, panicked>>

\* Mutant: the session hub is dropped as soon as one client leaves.
NoClientLeft(h) == TRUE

\* len(sessionHub.clients) == 0, read without sessionHub.mutex: the SessionHub
\* may or may not have removed the client yet.
IsEmpty(h) == shub[h].clients = {}

\* if len(sessionHub.clients) == 0 { delete(h.sessions, ...) }
CheckEmpty ==
  LET s == SessionOf[hub.client] IN
  /\ hub.pc = "checkEmpty"
  /\ sessions' = IF IsEmpty(sessions[s]) THEN [sessions EXCEPT ![s] = None]
                 ELSE sessions
  /\ HubAt("closeSend")
  /\ UNCHANGED <<shub, clientVars, sources, panicked>>

\* close(client.send), which panics on a closed channel.
CloseSend ==
  LET c == hub.client IN
  /\ hub.pc = "closeSend"
  /\ panicked' = closed[c]
  /\ closed' = [closed EXCEPT ![c] = TRUE]
  /\ HubSelect
  /\ UNCHANGED <<sessions, shub, conn, reader, writer, send, requests, received,
                 slow, sources>>

\* case message := <-h.broadcast
TakeBroadcast ==
  /\ hub.pc = "select"
  /\ publisher # None
  /\ hub' = [hub EXCEPT !.pc = "broadcast", !.msg = publisher]
  /\ publisher' = None
  /\ UNCHANGED <<sessions, shub, clientVars, published, poller, panicked>>

\* broadcastToSession: nothing without a SessionHub; else
\* sessionHub.broadcast <- message, which blocks Hub.Run while the queue is
\* full.  Hub.Run is the only writer of h.mutex, so RLock does not wait.
BroadcastToSessionHub ==
  LET h == sessions[hub.msg.session] IN
  /\ hub.pc = "broadcast"
  /\ IF h = None THEN UNCHANGED shub
     ELSE /\ Len(shub[h].queue) < QueueCap
          /\ shub' = [shub EXCEPT ![h].queue = Append(@, hub.msg.number)]
  /\ HubSelect
  /\ UNCHANGED <<sessions, clientVars, sources, panicked>>

HubRun ==
  \/ \E c \in Clients : TakeRegister(c) \/ TakeUnregister(c)
  \/ RegisterClient \/ HandRegister
  \/ UnregisterClient \/ HandUnregister \/ CheckEmpty \/ CloseSend
  \/ TakeBroadcast \/ BroadcastToSessionHub

-----------------------------------------------------------------------------
(* sessionHub.run *)

\* case client := <-sh.register: sh.clients[client] = true
AddClient(h) ==
  /\ shub[h].pc = "add"
  /\ ~ShubReadLocked(h)
  /\ shub' = [shub EXCEPT ![h].pc = "select", ![h].client = None,
                          ![h].clients = @ \cup {shub[h].client}]
  /\ UNCHANGED <<hubVars, clientVars, sources, panicked>>

\* Mutant: the client stays in sh.clients.
KeepClient(h) == shub[h].clients

\* sh.clients after delete(sh.clients, client)
WithoutClient(h) == shub[h].clients \ {shub[h].client}

\* Mutant: run returns when its last client has left.
ReturnWhenEmpty(h) == IF shub[h].clients \subseteq {shub[h].client} THEN "none" ELSE "select"

\* run is an endless loop, whether or not the session has clients.
NextRound(h) == "select"

\* case client := <-sh.unregister
RemoveClient(h) ==
  /\ shub[h].pc = "remove"
  /\ ~ShubReadLocked(h)
  /\ shub' = [shub EXCEPT ![h].pc = NextRound(h), ![h].client = None,
                          ![h].clients = WithoutClient(h)]
  /\ UNCHANGED <<hubVars, clientVars, sources, panicked>>

\* case message := <-sh.broadcast
TakeMessage(h) ==
  /\ shub[h].pc = "select"
  /\ shub[h].queue # <<>>
  /\ shub' = [shub EXCEPT ![h].pc = "broadcast", ![h].number = Head(shub[h].queue),
                          ![h].queue = Tail(@)]
  /\ UNCHANGED <<hubVars, clientVars, sources, panicked>>

\* broadcastMessage takes the lock; the loop visits the clients in any order.
StartFanout(h) ==
  /\ shub[h].pc = "broadcast"
  /\ ~ShubReadLocked(h)
  /\ shub' = [shub EXCEPT ![h].pc = "fanout", ![h].todo = shub[h].clients]
  /\ UNCHANGED <<hubVars, clientVars, sources, panicked>>

\* Mutant: no room is needed.
NeverFull(c) == FALSE

\* client.send has no room, and the select takes its default case.
Full(c) == Len(send[c]) >= SendCap

\* One round of the loop: send without blocking, or, if client.send is full,
\* close it and drop the client.  Either operation panics on a closed channel.
Offer(h, c) ==
  LET full == Full(c) IN
  /\ shub[h].pc = "fanout"
  /\ c \in shub[h].todo
  /\ panicked' = closed[c]
  /\ send' = IF full \/ closed[c] THEN send
             ELSE [send EXCEPT ![c] = Append(@, shub[h].number)]
  /\ closed' = [closed EXCEPT ![c] = @ \/ full]
  /\ slow' = IF full THEN slow \cup {c} ELSE slow
  /\ shub' = [shub EXCEPT ![h].todo = @ \ {c},
                          ![h].clients = IF full THEN @ \ {c} ELSE @]
  /\ UNCHANGED <<hubVars, conn, reader, writer, requests, received, sources>>

\* Mutant: the loop may be left before every client was visited.
LeaveLoopEarly(h) == TRUE

AllVisited(h) == shub[h].todo = {}

\* The loop is over and the lock released.
EndFanout(h) ==
  /\ shub[h].pc = "fanout"
  /\ AllVisited(h)
  /\ shub' = [shub EXCEPT ![h].pc = "select", ![h].number = Reply]
  /\ UNCHANGED <<hubVars, clientVars, sources, panicked>>

ShubRun(h) ==
  \/ AddClient(h) \/ RemoveClient(h) \/ TakeMessage(h) \/ StartFanout(h)
  \/ \E c \in Clients : Offer(h, c)
  \/ EndFanout(h)

-----------------------------------------------------------------------------
(* A client: ServeWebSocket, readPump, writePump, and its peer *)

\* ServeWebSocket, up to h.register <- client.
ServeWebSocket(c) ==
  /\ conn[c] = "none"
  /\ conn' = [conn EXCEPT ![c] = "open"]
  /\ reader' = [reader EXCEPT ![c] = "registering"]
  /\ UNCHANGED <<hubVars, shub, writer, send, closed, requests, received, slow,
                 sources, panicked>>

\* The peer disconnects, or misses the read or write deadline.
PeerGone(c) ==
  /\ conn[c] = "open"
  /\ conn' = [conn EXCEPT ![c] = "gone"]
  /\ UNCHANGED <<hubVars, shub, reader, writer, send, closed, requests, received,
                 slow, sources, panicked>>

\* ReadMessage returns a message whose type handleMessage answers.  (One that
\* does not parse or has no type is only logged.)
ReadRequest(c) ==
  /\ reader[c] = "reading"
  /\ conn[c] = "open"
  /\ requests[c] < MaxRequests
  /\ requests' = [requests EXCEPT ![c] = @ + 1]
  /\ reader' = [reader EXCEPT ![c] = "replying"]
  /\ UNCHANGED <<hubVars, shub, conn, writer, send, closed, received, slow,
                 sources, panicked>>

\* handleMessage: c.send <- response blocks while the channel is full and
\* panics when it is closed; the panic first runs the deferred function.
HandleMessage(c) ==
  /\ reader[c] = "replying"
  /\ closed[c] \/ Len(send[c]) < SendCap
  /\ send' = IF closed[c] THEN send ELSE [send EXCEPT ![c] = Append(@, Reply)]
  /\ reader' = [reader EXCEPT ![c] = IF closed[c] THEN "panicking" ELSE "reading"]
  /\ UNCHANGED <<hubVars, shub, conn, writer, closed, requests, received, slow,
                 sources, panicked>>

\* ReadMessage fails: the deferred function offers c on h.unregister.
ReadFails(c) ==
  /\ reader[c] = "reading"
  /\ conn[c] \in {"gone", "closed"}
  /\ reader' = [reader EXCEPT ![c] = "unregistering"]
  /\ UNCHANGED <<hubVars, shub, conn, writer, send, closed, requests, received,
                 slow, sources, panicked>>

ReadPump(c) == ReadRequest(c) \/ HandleMessage(c) \/ ReadFails(c)

\* case message := <-c.send, written without error.  What is written to a peer
\* already gone is lost.
WriteMessage(c) ==
  /\ writer[c] = "running"
  /\ send[c] # <<>>
  /\ conn[c] # "closed"
  /\ send' = [send EXCEPT ![c] = Tail(@)]
  /\ received' = IF conn[c] = "open" /\ Head(send[c]) # Reply
                 THEN [received EXCEPT ![c] = Append(@, Head(send[c]))]
                 ELSE received
  /\ UNCHANGED <<hubVars, shub, conn, reader, writer, closed, requests, slow,
                 sources, panicked>>

WriterReturns(c) ==
  /\ writer' = [writer EXCEPT ![c] = "done"]
  /\ conn' = [conn EXCEPT ![c] = "closed"]
  /\ UNCHANGED <<hubVars, shub, reader, closed, requests, received, slow,
                 sources, panicked>>

\* A message or a ping cannot be written.
WriteFails(c) ==
  /\ writer[c] = "running"
  /\ conn[c] # "open"
  /\ \/ send' = send
     \/ /\ send[c] # <<>>
        /\ send' = [send EXCEPT ![c] = Tail(@)]
  /\ WriterReturns(c)

\* client.send is closed and drained: say goodbye and return.
SendClosed(c) ==
  /\ writer[c] = "running"
  /\ closed[c] /\ send[c] = <<>>
  /\ WriterReturns(c)
  /\ UNCHANGED send

WritePump(c) == WriteMessage(c) \/ WriteFails(c) \/ SendClosed(c)

-----------------------------------------------------------------------------
(* The results broadcaster and the statistics endpoint *)

\* BroadcastToSession, up to h.broadcast <- broadcastMsg.
BroadcastToSession(s) ==
  /\ publisher = None
  /\ published[s] < MaxBroadcasts
  /\ published' = [published EXCEPT ![s] = @ + 1]
  /\ publisher' = [session |-> s, number |-> published'[s]]
  /\ UNCHANGED <<hubVars, shub, clientVars, poller, panicked>>

\* GetSessionStats takes h.mutex.RLock and finds the SessionHub.
StatsLockHub(p, s) ==
  /\ poller[p].pc = "idle"
  /\ ~HubWriteLocked
  /\ sessions[s] # None
  /\ poller' = [poller EXCEPT ![p] = [pc |-> "locking", at |-> sessions[s]]]
  /\ UNCHANGED <<hubVars, shub, clientVars, publisher, published, panicked>>

\* sessionHub.mutex.RLock
StatsLockSessionHub(p) ==
  /\ poller[p].pc = "locking"
  /\ ~ShubWriteLocked(poller[p].at)
  /\ poller' = [poller EXCEPT ![p].pc = "counting"]
  /\ UNCHANGED <<hubVars, shub, clientVars, publisher, published, panicked>>

\* Both locks are released.
StatsReturn(p) ==
  /\ poller[p].pc = "counting"
  /\ poller' = [poller EXCEPT ![p] = [pc |-> "idle", at |-> None]]
  /\ UNCHANGED <<hubVars, shub, clientVars, publisher, published, panicked>>

GetSessionStats(p) ==
  (\E s \in Sessions : StatsLockHub(p, s)) \/ StatsLockSessionHub(p) \/ StatsReturn(p)

-----------------------------------------------------------------------------

Next ==
  /\ ~panicked
  /\ \/ HubRun
     \/ \E h \in Clients : ShubRun(h)
     \/ \E c \in Clients : ServeWebSocket(c) \/ PeerGone(c) \/ ReadPump(c) \/ WritePump(c)
     \/ \E s \in Sessions : BroadcastToSession(s)
     \/ \E p \in Pollers : GetSessionStats(p)

Spec == Init /\ [][Next]_vars

\* Every goroutine that can proceed eventually does; peers, requests,
\* broadcasts and stats calls need never come, but a stats call returns.
Fairness ==
  /\ WF_vars(~panicked /\ HubRun)
  /\ \A h \in Clients : WF_vars(~panicked /\ ShubRun(h))
  /\ \A c \in Clients : /\ WF_vars(~panicked /\ (HandleMessage(c) \/ ReadFails(c)))
                        /\ WF_vars(~panicked /\ WritePump(c))
  /\ \A p \in Pollers : WF_vars(~panicked /\ (StatsLockSessionHub(p) \/ StatsReturn(p)))

FairSpec == Spec /\ Fairness

-----------------------------------------------------------------------------
(* Properties *)

Shub == [pc : ShubPC, clients : SUBSET Clients, queue : Seq(Numbers),
         client : Clients \cup {None}, number : Numbers \cup {Reply},
         todo : SUBSET Clients]

TypeOK ==
  /\ hub \in [pc : HubPC, client : Clients \cup {None}, msg : Message \cup {None}]
  /\ sessions \in [Sessions -> Clients \cup {None}]
  /\ shub \in [Clients -> Shub]
  /\ \A h \in Clients : Len(shub[h].queue) <= QueueCap
  /\ conn \in [Clients -> {"none", "open", "gone", "closed"}]
  /\ reader \in [Clients -> {"none", "registering", "reading", "replying",
                             "unregistering", "panicking", "done"}]
  /\ writer \in [Clients -> {"none", "running", "done"}]
  /\ send \in [Clients -> Seq(Numbers \cup {Reply})]
  /\ \A c \in Clients : Len(send[c]) <= SendCap
  /\ closed \in [Clients -> BOOLEAN]
  /\ requests \in [Clients -> 0..MaxRequests]
  /\ publisher \in Message \cup {None}
  /\ published \in [Sessions -> 0..MaxBroadcasts]
  /\ poller \in [Pollers -> [pc : {"idle", "locking", "counting"},
                             at : Clients \cup {None}]]
  /\ panicked \in BOOLEAN
  /\ received \in [Clients -> Seq(Numbers)]
  /\ slow \subseteq Clients

\* The clients a SessionHub has, or has been handed and is about to add.
Members(h) == shub[h].clients \cup (IF shub[h].pc = "add" THEN {shub[h].client} ELSE {})

\* Every client of a SessionHub is reachable: h.sessions still names that
\* SessionHub, so a broadcast to the session and the client's own unregister
\* find it.  (unregisterClient deletes on a length it reads without the lock.)
NoClientStranded ==
  \A h \in Clients : \A c \in Members(h) : sessions[SessionOf[c]] = h

\* broadcastMessage never offers a message to a client whose send channel is
\* closed, although Hub.Run closes channels without the SessionHub's mutex.
NeverOffersToClosed ==
  \A h \in Clients : \A c \in shub[h].todo : ~closed[c]

\* The process panics only after some client was dropped as slow: every other
\* order of disconnects, replies and broadcasts closes each channel once and
\* sends on none after it is closed.
PanicOnlyAfterSlow == panicked => slow # {}

\* What a connection gets are consecutive broadcasts of its session, in order
\* and without repetition: whichever came first, none is left out after it.
NoGap ==
  \A c \in Clients : \A i \in 1..(Len(received[c]) - 1) :
    received[c][i + 1] = received[c][i] + 1

\* Hub.Run, which sends to SessionHubs while it holds h.mutex, always comes
\* back to its select: no cycle of goroutines waits for one another.
HubNeverStuck == []<>(hub.pc = "select" \/ panicked)

\* A client whose connection has ended is removed everywhere: both pumps end,
\* its channel is closed and no SessionHub keeps it.  (Only a reader that waits
\* to reply on a full channel, which nobody drains any more, is stuck.)
DeadClientsRemoved ==
  \A c \in Clients :
    []<>(\/ panicked
         \/ conn[c] \notin {"gone", "closed"}
         \/ reader[c] = "replying" /\ Full(c)
         \/ /\ reader[c] = "done" /\ writer[c] = "done" /\ closed[c]
            /\ \A h \in Clients : c \notin Members(h))

\* A broadcast reaches every client that is in its session hub when the
\* broadcaster sends it, unless the client's connection ends.
MembersServed ==
  \A c \in Clients, n \in Numbers :
    (publisher = [session |-> SessionOf[c], number |-> n]
       /\ \E h \in Clients : c \in shub[h].clients)
    ~> (panicked \/ conn[c] # "open"
          \/ \E i \in 1..Len(received[c]) : received[c][i] = n)

\* A slow client is disconnected, and nothing else happens.
NoPanic == ~panicked
=============================================================================
