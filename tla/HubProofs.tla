------------------------------ MODULE HubProofs ------------------------------
(***************************************************************************)
(* The WebSocket hub, for any number of clients, sessions and stats calls  *)
(* and any capacities: no client is forgotten, no message is offered on a  *)
(* closed channel, a panic needs a client that was dropped as slow, and    *)
(* what a connection gets are consecutive broadcasts of its session.       *)
(***************************************************************************)
EXTENDS Hub, Integers, TLAPS

\* Hub.Run is about to add the client in its hand, or to see it off.
Joining(c) == hub.pc \in {"register", "handRegister"} /\ hub.client = c
Leaving(c) ==
  /\ hub.pc \in {"unregister", "handUnregister", "checkEmpty", "closeSend"}
  /\ hub.client = c

\* What the goroutines hold.  While Hub.Run is about to hand a client over,
\* or to read the length, the session has its hub; and after it handed over a
\* client that leaves, nobody hands that hub one to add.
HandsFull ==
  /\ hub.pc \notin {"select", "broadcast"} => hub.client \in Clients
  /\ hub.pc = "broadcast" => hub.msg \in Message
  /\ \A h \in Clients : shub[h].pc \in {"add", "remove"} => shub[h].client \in Clients
  /\ hub.pc \in {"handRegister", "handUnregister", "checkEmpty"}
       => SessionHubOf(hub.client) \in Clients
  /\ hub.pc = "checkEmpty" => shub[SessionHubOf(hub.client)].pc # "add"

TypeInv == TypeOK /\ HandsFull

LEMMA TypeInit == Init => TypeInv
<1> SUFFICES ASSUME Init PROVE TypeInv
  OBVIOUS
<1> USE HubAssumption
<1> DEFINE new == [pc |-> "none", clients |-> {}, queue |-> <<>>,
                   client |-> None, number |-> Reply, todo |-> {}]
<1>1. new \in Shub /\ Len(new.queue) = 0 /\ new.pc = "none"
  BY DEF Shub, ShubPC, Reply, Numbers
<1>2. shub = [h \in Clients |-> new]
  BY DEF Init
<1> HIDE DEF new
<1>3. \A h \in Clients : shub[h] = new
  BY <1>2
<1>4. shub \in [Clients -> Shub]
  BY <1>1, <1>2
<1>5. \A h \in Clients : Len(shub[h].queue) <= QueueCap
  BY <1>1, <1>3
<1>6. \A c \in Clients : Len(send[c]) <= SendCap
  BY DEF Init
<1>7. 0 \in 0..MaxRequests /\ 0 \in 0..MaxBroadcasts
  OBVIOUS
<1>8. /\ hub \in [pc : HubPC, client : Clients \cup {None}, msg : Message \cup {None}]
      /\ hub.pc = "select"
  BY DEF Init, HubPC
<1>9. poller \in [Pollers -> [pc : {"idle", "locking", "counting"}, at : Clients \cup {None}]]
  BY DEF Init
<1>10. /\ send \in [Clients -> Seq(Numbers \cup {Reply})]
       /\ received \in [Clients -> Seq(Numbers)]
  BY DEF Init
<1>11. TypeOK
  BY <1>4, <1>5, <1>6, <1>7, <1>8, <1>9, <1>10 DEF Init, TypeOK
<1> QED
  BY <1>1, <1>3, <1>8, <1>11 DEF TypeInv, HandsFull

-----------------------------------------------------------------------------
(* Types.  What a SessionHub becomes is a SessionHub. *)

LEMMA ShubStep ==
  ASSUME TypeInv, NEW h \in Clients, NEW x \in Shub, Len(x.queue) <= QueueCap,
         shub' = [shub EXCEPT ![h] = x]
  PROVE  /\ shub' \in [Clients -> Shub]
         /\ \A g \in Clients : Len(shub'[g].queue) <= QueueCap
BY DEF TypeInv, TypeOK

LEMMA HubRunType ==
  ASSUME TypeInv, HubRun
  PROVE  TypeInv'
<1> USE HubAssumption
<1>1. ASSUME NEW c \in Clients, TakeRegister(c) PROVE TypeInv'
  BY <1>1 DEF TypeInv, TypeOK, HandsFull, TakeRegister, HubPC, clientVars, sources, SessionHubOf
<1>2. ASSUME NEW c \in Clients, TakeUnregister(c) PROVE TypeInv'
  BY <1>2 DEF TypeInv, TypeOK, HandsFull, TakeUnregister, HubPC, sources, SessionHubOf
<1>3. CASE RegisterClient
  <2>1. PICK c \in Clients, s \in Sessions : c = hub.client /\ s = SessionOf[c]
    BY <1>3 DEF RegisterClient, TypeInv, HandsFull
  <2>2. hub' = [hub EXCEPT !.pc = "handRegister"] /\ UNCHANGED <<clientVars, sources, panicked>>
    BY <1>3 DEF RegisterClient, HubAt
  <2>3. CASE sessions[s] = None
    <3> DEFINE x == [shub[c] EXCEPT !.pc = "select"]
    <3>1. x \in Shub /\ Len(x.queue) <= QueueCap
      <4>1. shub[c] \in Shub /\ Len(shub[c].queue) <= QueueCap
        BY DEF TypeInv, TypeOK
      <4>2. x \in Shub
        BY <4>1 DEF Shub, ShubPC
      <4>3. x.queue = shub[c].queue
        BY <4>1 DEF Shub
      <4> QED
        BY <4>1, <4>2, <4>3
    <3>2. shub' = [shub EXCEPT ![c] = x] /\ sessions' = [sessions EXCEPT ![s] = c]
      BY <1>3, <2>1, <2>3 DEF RegisterClient
    <3>3. x.pc = "select"
      BY DEF TypeInv, TypeOK, Shub
    <3> HIDE DEF x
    <3>4. /\ shub' \in [Clients -> Shub]
          /\ \A g \in Clients : Len(shub'[g].queue) <= QueueCap
      BY <3>1, <3>2, ShubStep
    <3>5. \A g \in Clients : shub'[g].pc \in {"add", "remove"} => shub'[g] = shub[g]
      BY <3>2, <3>3 DEF TypeInv, TypeOK
    <3> QED
      BY <2>1, <2>2, <3>2, <3>4, <3>5
      DEF TypeInv, TypeOK, HandsFull, HubPC, clientVars, sources, SessionHubOf
  <2>4. CASE sessions[s] # None
    BY <1>3, <2>1, <2>2, <2>4
    DEF RegisterClient, TypeInv, TypeOK, HandsFull, HubPC, clientVars, sources, SessionHubOf
  <2> QED
    BY <2>3, <2>4
<1>4. CASE HandRegister
  <2>1. PICK h \in Clients : h = SessionHubOf(hub.client)
    BY <1>4 DEF HandRegister, TypeInv, HandsFull
  <2> DEFINE x == [shub[h] EXCEPT !.pc = "add", !.client = hub.client]
  <2>2. hub.client \in Clients
    BY <1>4 DEF HandRegister, TypeInv, HandsFull
  <2>3. x \in Shub /\ Len(x.queue) <= QueueCap /\ x.pc = "add" /\ x.client = hub.client
    <3>1. shub[h] \in Shub /\ Len(shub[h].queue) <= QueueCap
      BY DEF TypeInv, TypeOK
    <3>2. x \in Shub
      BY <2>2, <3>1 DEF Shub, ShubPC
    <3>3. x.queue = shub[h].queue /\ x.pc = "add" /\ x.client = hub.client
      BY <3>1 DEF Shub
    <3> QED
      BY <3>1, <3>2, <3>3
  <2>4. shub' = [shub EXCEPT ![h] = x]
    BY <1>4, <2>1 DEF HandRegister, TypeInv, TypeOK
  <2>5. hub' = [pc |-> "select", client |-> None, msg |-> None]
    BY <1>4 DEF HandRegister, HubSelect
  <2>6. UNCHANGED <<sessions, clientVars, sources, panicked>>
    BY <1>4 DEF HandRegister
  <2> HIDE DEF x
  <2>7. /\ shub' \in [Clients -> Shub]
        /\ \A g \in Clients : Len(shub'[g].queue) <= QueueCap
    BY <2>3, <2>4, ShubStep
  <2>8. /\ \A g \in Clients : g # h => shub'[g] = shub[g]
        /\ shub'[h] = x
    BY <2>4 DEF TypeInv, TypeOK
  <2> QED
    BY <2>1, <2>2, <2>3, <2>5, <2>6, <2>7, <2>8
    DEF TypeInv, TypeOK, HandsFull, HubPC, clientVars, sources, SessionHubOf
<1>5. CASE UnregisterClient
  BY <1>5 DEF TypeInv, TypeOK, HandsFull, UnregisterClient, HubAt, HubPC, clientVars, sources,
              SessionHubOf
<1>6. CASE HandUnregister
  <2>1. PICK h \in Clients : h = SessionHubOf(hub.client)
    BY <1>6 DEF HandUnregister, TypeInv, HandsFull
  <2> DEFINE x == [shub[h] EXCEPT !.pc = "remove", !.client = hub.client]
  <2>2. hub.client \in Clients
    BY <1>6 DEF HandUnregister, TypeInv, HandsFull
  <2>3. x \in Shub /\ Len(x.queue) <= QueueCap /\ x.pc = "remove" /\ x.client = hub.client
    <3>1. shub[h] \in Shub /\ Len(shub[h].queue) <= QueueCap
      BY DEF TypeInv, TypeOK
    <3>2. x \in Shub
      BY <2>2, <3>1 DEF Shub, ShubPC
    <3>3. x.queue = shub[h].queue /\ x.pc = "remove" /\ x.client = hub.client
      BY <3>1 DEF Shub
    <3> QED
      BY <3>1, <3>2, <3>3
  <2>4. shub' = [shub EXCEPT ![h] = x]
    BY <1>6, <2>1 DEF HandUnregister, TypeInv, TypeOK
  <2>5. hub' = [hub EXCEPT !.pc = "checkEmpty"]
    BY <1>6 DEF HandUnregister, HubAt
  <2>6. UNCHANGED <<sessions, clientVars, sources, panicked>>
    BY <1>6 DEF HandUnregister
  <2> HIDE DEF x
  <2>7. /\ shub' \in [Clients -> Shub]
        /\ \A g \in Clients : Len(shub'[g].queue) <= QueueCap
    BY <2>3, <2>4, ShubStep
  <2>8. /\ \A g \in Clients : g # h => shub'[g] = shub[g]
        /\ shub'[h] = x
    BY <2>4 DEF TypeInv, TypeOK
  <2> QED
    BY <2>1, <2>2, <2>3, <2>5, <2>6, <2>7, <2>8
    DEF TypeInv, TypeOK, HandsFull, HubPC, clientVars, sources, SessionHubOf
<1>7. CASE CheckEmpty
  BY <1>7 DEF TypeInv, TypeOK, HandsFull, CheckEmpty, HubAt, HubPC, clientVars, sources,
              SessionHubOf
<1>8. CASE CloseSend
  BY <1>8 DEF TypeInv, TypeOK, HandsFull, CloseSend, HubSelect, HubPC, sources, SessionHubOf
<1>9. CASE TakeBroadcast
  BY <1>9 DEF TypeInv, TypeOK, HandsFull, TakeBroadcast, HubPC, clientVars, SessionHubOf
<1>10. CASE BroadcastToSessionHub
  <2>1. hub.msg \in Message
    BY <1>10 DEF BroadcastToSessionHub, TypeInv, HandsFull
  <2>2. PICK h : h = sessions[hub.msg.session]
    OBVIOUS
  <2>3. /\ hub' = [pc |-> "select", client |-> None, msg |-> None]
        /\ UNCHANGED <<sessions, clientVars, sources, panicked>>
    BY <1>10 DEF BroadcastToSessionHub, HubSelect
  <2>4. CASE h = None
    BY <1>10, <2>2, <2>3, <2>4
    DEF BroadcastToSessionHub, TypeInv, TypeOK, HandsFull, HubPC, clientVars, sources, SessionHubOf
  <2>5. CASE h # None
    <3> DEFINE q == Append(shub[h].queue, hub.msg.number)
               x == [shub[h] EXCEPT !.queue = q]
    <3>1. h \in Clients
      BY <2>1, <2>2, <2>5 DEF TypeInv, TypeOK, Message
    <3>2. shub[h].queue \in Seq(Numbers) /\ Len(shub[h].queue) < QueueCap
      BY <1>10, <2>2, <2>5, <3>1 DEF BroadcastToSessionHub, TypeInv, TypeOK, Shub
    <3>3. q \in Seq(Numbers) /\ Len(q) <= QueueCap
      BY <2>1, <3>2 DEF Message
    <3>4. shub' = [shub EXCEPT ![h] = x]
      BY <1>10, <2>2, <2>5 DEF BroadcastToSessionHub
    <3> HIDE DEF q
    <3>5. x \in Shub /\ Len(x.queue) <= QueueCap /\ x.pc = shub[h].pc /\ x.client = shub[h].client
      <4>1. shub[h] \in Shub
        BY <3>1 DEF TypeInv, TypeOK
      <4>2. x.queue = q /\ x.pc = shub[h].pc /\ x.client = shub[h].client
        BY <4>1 DEF Shub
      <4>3. x \in Shub
        BY <3>3, <4>1 DEF Shub
      <4> QED
        BY <3>3, <4>2, <4>3
    <3> HIDE DEF x
    <3>6. /\ shub' \in [Clients -> Shub]
          /\ \A g \in Clients : Len(shub'[g].queue) <= QueueCap
      BY <3>1, <3>4, <3>5, ShubStep
    <3>7. \A g \in Clients : shub'[g].pc = shub[g].pc /\ shub'[g].client = shub[g].client
      BY <3>1, <3>4, <3>5 DEF TypeInv, TypeOK
    <3> QED
      BY <2>3, <3>6, <3>7
      DEF TypeInv, TypeOK, HandsFull, HubPC, clientVars, sources, SessionHubOf
  <2> QED
    BY <2>4, <2>5
<1> QED
  BY <1>1, <1>2, <1>3, <1>4, <1>5, <1>6, <1>7, <1>8, <1>9, <1>10 DEF HubRun

\* A step of a SessionHub that hands nobody over and leaves the queue alone.
LEMMA ShubTypeStep ==
  ASSUME TypeInv, NEW h \in Clients, NEW x \in Shub, x.queue = shub[h].queue,
         x.pc \notin {"add", "remove"},
         shub' = [shub EXCEPT ![h] = x],
         UNCHANGED <<hubVars, clientVars, sources, panicked>>
  PROVE  TypeInv'
<1>1. Len(x.queue) <= QueueCap
  BY DEF TypeInv, TypeOK
<1>2. /\ shub' \in [Clients -> Shub]
      /\ \A g \in Clients : Len(shub'[g].queue) <= QueueCap
  BY <1>1, ShubStep
<1>3. \A g \in Clients : shub'[g].pc \in {"add", "remove"} => shub'[g] = shub[g]
  BY DEF TypeInv, TypeOK
<1> QED
  BY <1>2, <1>3 DEF TypeInv, TypeOK, HandsFull, hubVars, clientVars, sources, SessionHubOf

LEMMA ShubRunType ==
  ASSUME TypeInv, NEW h \in Clients, ShubRun(h)
  PROVE  TypeInv'
<1>0. shub[h] \in Shub /\ Len(shub[h].queue) <= QueueCap
  BY DEF TypeInv, TypeOK
<1>1. CASE AddClient(h)
  <2> DEFINE x == [shub[h] EXCEPT !.pc = "select", !.client = None,
                                !.clients = @ \cup {shub[h].client}]
  <2>1. x \in Shub /\ x.queue = shub[h].queue /\ x.pc = "select"
    BY <1>0, <1>1 DEF AddClient, Shub, ShubPC, HandsFull, TypeInv
  <2>2. shub' = [shub EXCEPT ![h] = x]
    BY <1>0, <1>1 DEF AddClient, TypeInv, TypeOK
  <2>3. UNCHANGED <<hubVars, clientVars, sources, panicked>>
    BY <1>1 DEF AddClient
  <2> HIDE DEF x
  <2> QED
    BY <1>0, <2>1, <2>2, <2>3, ShubTypeStep
<1>2. CASE RemoveClient(h)
  <2> DEFINE x == [shub[h] EXCEPT !.pc = "select", !.client = None,
                                !.clients = WithoutClient(h)]
  <2>1. x \in Shub /\ x.queue = shub[h].queue /\ x.pc = "select"
    BY <1>0, <1>2 DEF RemoveClient, Shub, ShubPC, HandsFull, TypeInv, NextRound, WithoutClient
  <2>2. shub' = [shub EXCEPT ![h] = x]
    BY <1>0, <1>2 DEF RemoveClient, TypeInv, TypeOK, NextRound, WithoutClient
  <2>3. UNCHANGED <<hubVars, clientVars, sources, panicked>>
    BY <1>2 DEF RemoveClient
  <2> HIDE DEF x
  <2> QED
    BY <1>0, <2>1, <2>2, <2>3, ShubTypeStep
<1>3. CASE TakeMessage(h)
  <2> DEFINE x == [shub[h] EXCEPT !.pc = "broadcast", !.number = Head(shub[h].queue),
                                  !.queue = Tail(@)]
  <2>1. shub[h].queue \in Seq(Numbers) /\ shub[h].queue # <<>>
    BY <1>0, <1>3 DEF TakeMessage, Shub
  <2>2. /\ Head(shub[h].queue) \in Numbers
        /\ Tail(shub[h].queue) \in Seq(Numbers)
        /\ Len(Tail(shub[h].queue)) <= QueueCap
    BY <1>0, <2>1, HubAssumption
  <2>3. x.queue = Tail(shub[h].queue) /\ x.pc = "broadcast"
    BY <1>0 DEF Shub
  <2>4. x \in Shub
    BY <1>0, <2>2 DEF Shub, ShubPC
  <2>5. shub' = [shub EXCEPT ![h] = x]
    BY <1>0, <1>3 DEF TakeMessage, TypeInv, TypeOK
  <2>6. UNCHANGED <<hubVars, clientVars, sources, panicked>>
    BY <1>3 DEF TakeMessage
  <2> HIDE DEF x
  <2>7. /\ shub' \in [Clients -> Shub]
        /\ \A g \in Clients : Len(shub'[g].queue) <= QueueCap
    BY <2>2, <2>3, <2>4, <2>5, ShubStep
  <2>8. \A g \in Clients : shub'[g].pc \in {"add", "remove"} => shub'[g] = shub[g]
    BY <2>3, <2>5 DEF TypeInv, TypeOK
  <2> QED
    BY <2>6, <2>7, <2>8 DEF TypeInv, TypeOK, HandsFull, hubVars, clientVars, sources, SessionHubOf
<1>4. CASE StartFanout(h)
  <2> DEFINE x == [shub[h] EXCEPT !.pc = "fanout", !.todo = shub[h].clients]
  <2>1. x \in Shub /\ x.queue = shub[h].queue /\ x.pc = "fanout"
    BY <1>0, <1>4 DEF StartFanout, Shub, ShubPC, HandsFull, TypeInv
  <2>2. shub' = [shub EXCEPT ![h] = x]
    BY <1>0, <1>4 DEF StartFanout, TypeInv, TypeOK
  <2>3. UNCHANGED <<hubVars, clientVars, sources, panicked>>
    BY <1>4 DEF StartFanout
  <2> HIDE DEF x
  <2> QED
    BY <1>0, <2>1, <2>2, <2>3, ShubTypeStep
<1>5. CASE EndFanout(h)
  <2> DEFINE x == [shub[h] EXCEPT !.pc = "select", !.number = Reply]
  <2>1. x \in Shub /\ x.queue = shub[h].queue /\ x.pc = "select"
    BY <1>0, <1>5 DEF EndFanout, Shub, ShubPC, HandsFull, TypeInv
  <2>2. shub' = [shub EXCEPT ![h] = x]
    BY <1>0, <1>5 DEF EndFanout, TypeInv, TypeOK
  <2>3. UNCHANGED <<hubVars, clientVars, sources, panicked>>
    BY <1>5 DEF EndFanout
  <2> HIDE DEF x
  <2> QED
    BY <1>0, <2>1, <2>2, <2>3, ShubTypeStep
<1>6. ASSUME NEW c \in Clients, Offer(h, c) PROVE TypeInv'
  <2> DEFINE x == [shub[h] EXCEPT !.todo = @ \ {c},
                                  !.clients = IF Full(c) THEN @ \ {c} ELSE @]
  <2>1. x \in Shub /\ x.queue = shub[h].queue /\ x.pc = shub[h].pc /\ x.pc = "fanout"
    BY <1>0, <1>6 DEF Offer, Shub
  <2>2. shub' = [shub EXCEPT ![h] = x]
    BY <1>0, <1>6 DEF Offer, TypeInv, TypeOK
  <2>3. /\ UNCHANGED <<hubVars, conn, reader, writer, requests, received, sources>>
        /\ closed' = [closed EXCEPT ![c] = @ \/ Full(c)]
        /\ slow' = IF Full(c) THEN slow \cup {c} ELSE slow
        /\ panicked' = closed[c]
    BY <1>6 DEF Offer
  <2> HIDE DEF x
  <2>4. /\ shub' \in [Clients -> Shub]
        /\ \A g \in Clients : Len(shub'[g].queue) <= QueueCap
    BY <1>0, <2>1, <2>2, ShubStep
  <2>5. \A g \in Clients : shub'[g].pc \in {"add", "remove"} => shub'[g] = shub[g]
    BY <2>1, <2>2 DEF TypeInv, TypeOK
  <2>6. /\ send' \in [Clients -> Seq(Numbers \cup {Reply})]
        /\ \A d \in Clients : Len(send'[d]) <= SendCap
    <3>1. CASE Full(c) \/ closed[c]
      BY <1>6, <3>1 DEF Offer, TypeInv, TypeOK
    <3>2. CASE ~Full(c) /\ ~closed[c]
      <4> DEFINE q == Append(send[c], shub[h].number)
      <4>1. /\ send[c] \in Seq(Numbers \cup {Reply}) /\ Len(send[c]) < SendCap
            /\ shub[h].number \in Numbers \cup {Reply}
        <5>1. send[c] \in Seq(Numbers \cup {Reply}) /\ Len(send[c]) \in Nat
          BY DEF TypeInv, TypeOK
        <5>2. Len(send[c]) < SendCap
          BY <3>2, <5>1, HubAssumption DEF Full
        <5>3. shub[h].number \in Numbers \cup {Reply}
          BY <1>0 DEF Shub
        <5> QED
          BY <5>1, <5>2, <5>3
      <4>2. q \in Seq(Numbers \cup {Reply}) /\ Len(q) <= SendCap
        BY <4>1, HubAssumption
      <4>3. send' = [send EXCEPT ![c] = q]
        BY <1>6, <3>2 DEF Offer
      <4> HIDE DEF q
      <4> QED
        BY <4>2, <4>3 DEF TypeInv, TypeOK
    <3> QED
      BY <3>1, <3>2
  <2>7. panicked' \in BOOLEAN /\ closed' \in [Clients -> BOOLEAN] /\ slow' \subseteq Clients
    BY <2>3 DEF TypeInv, TypeOK
  <2> QED
    BY <2>3, <2>4, <2>5, <2>6, <2>7 DEF TypeInv, TypeOK, HandsFull, hubVars, sources, SessionHubOf
<1> QED
  BY <1>1, <1>2, <1>3, <1>4, <1>5, <1>6 DEF ShubRun

LEMMA ClientType ==
  ASSUME TypeInv, NEW c \in Clients,
         ServeWebSocket(c) \/ PeerGone(c) \/ ReadPump(c) \/ WritePump(c)
  PROVE  TypeInv'
<1> USE HubAssumption
<1>0. /\ send[c] \in Seq(Numbers \cup {Reply}) /\ Len(send[c]) <= SendCap
      /\ received[c] \in Seq(Numbers)
  BY DEF TypeInv, TypeOK
<1> DEFINE Kept == /\ HandsFull'
                   /\ \A q \in Seq(Numbers \cup {Reply}) :
                        Len(q) <= SendCap /\ send' = [send EXCEPT ![c] = q] =>
                          /\ send' \in [Clients -> Seq(Numbers \cup {Reply})]
                          /\ \A d \in Clients : Len(send'[d]) <= SendCap
<1>1. ASSUME UNCHANGED <<hubVars, shub>> PROVE Kept
  <2>1. HandsFull'
    BY <1>1 DEF TypeInv, HandsFull, hubVars, SessionHubOf
  <2>2. ASSUME NEW q \in Seq(Numbers \cup {Reply}), Len(q) <= SendCap,
               send' = [send EXCEPT ![c] = q]
        PROVE  /\ send' \in [Clients -> Seq(Numbers \cup {Reply})]
               /\ \A d \in Clients : Len(send'[d]) <= SendCap
    BY <2>2 DEF TypeInv, TypeOK
  <2> QED
    BY <2>1, <2>2
<1>2. send[c] # <<>> => /\ Tail(send[c]) \in Seq(Numbers \cup {Reply})
                        /\ Len(Tail(send[c])) <= SendCap
                        /\ Head(send[c]) \in Numbers \cup {Reply}
  BY <1>0
<1> HIDE DEF Kept
<1>3. CASE ServeWebSocket(c)
  BY <1>1, <1>3 DEF Kept, ServeWebSocket, TypeInv, TypeOK, hubVars, sources
<1>4. CASE PeerGone(c)
  BY <1>1, <1>4 DEF Kept, PeerGone, TypeInv, TypeOK, hubVars, sources
<1>5. CASE ReadRequest(c)
  BY <1>1, <1>5 DEF Kept, ReadRequest, TypeInv, TypeOK, hubVars, sources
<1>6. CASE HandleMessage(c)
  <2> DEFINE q == IF closed[c] THEN send[c] ELSE Append(send[c], Reply)
  <2>1. q \in Seq(Numbers \cup {Reply}) /\ Len(q) <= SendCap
    BY <1>0, <1>6 DEF HandleMessage
  <2>2. send' = [send EXCEPT ![c] = q]
    BY <1>6 DEF HandleMessage, TypeInv, TypeOK
  <2> HIDE DEF q
  <2>3. UNCHANGED <<hubVars, shub>>
    BY <1>6 DEF HandleMessage
  <2>4. /\ HandsFull' /\ send' \in [Clients -> Seq(Numbers \cup {Reply})]
        /\ \A d \in Clients : Len(send'[d]) <= SendCap
    BY <1>1, <2>1, <2>2, <2>3 DEF Kept
  <2> QED
    BY <1>6, <2>4 DEF HandleMessage, TypeInv, TypeOK, hubVars, sources
<1>7. CASE ReadFails(c)
  BY <1>1, <1>7 DEF Kept, ReadFails, TypeInv, TypeOK, hubVars, sources
<1>8. CASE WriteMessage(c)
  <2>1. UNCHANGED <<hubVars, shub>>
    BY <1>8 DEF WriteMessage
  <2>2. /\ HandsFull' /\ send' \in [Clients -> Seq(Numbers \cup {Reply})]
        /\ \A d \in Clients : Len(send'[d]) <= SendCap
    BY <1>1, <1>2, <1>8, <2>1 DEF WriteMessage, Kept
  <2>3. received' \in [Clients -> Seq(Numbers)]
    BY <1>0, <1>2, <1>8 DEF WriteMessage, TypeInv, TypeOK
  <2> QED
    BY <1>8, <2>2, <2>3 DEF WriteMessage, TypeInv, TypeOK, hubVars, sources
<1>9. CASE WriteFails(c)
  <2>1. UNCHANGED <<hubVars, shub>>
    BY <1>9 DEF WriteFails, WriterReturns
  <2>2. /\ HandsFull' /\ send' \in [Clients -> Seq(Numbers \cup {Reply})]
        /\ \A d \in Clients : Len(send'[d]) <= SendCap
    BY <1>0, <1>1, <1>2, <1>9, <2>1 DEF WriteFails, Kept, TypeInv, TypeOK
  <2> QED
    BY <1>9, <2>2 DEF WriteFails, WriterReturns, TypeInv, TypeOK, hubVars, sources
<1>10. CASE SendClosed(c)
  BY <1>1, <1>10 DEF Kept, SendClosed, WriterReturns, TypeInv, TypeOK, hubVars, sources
<1> QED
  BY <1>3, <1>4, <1>5, <1>6, <1>7, <1>8, <1>9, <1>10 DEF ReadPump, WritePump

LEMMA SourceType ==
  ASSUME TypeInv,
         \/ \E s \in Sessions : BroadcastToSession(s)
         \/ \E p \in Pollers : GetSessionStats(p)
  PROVE  TypeInv'
<1> USE HubAssumption
<1>1. ASSUME NEW s \in Sessions, BroadcastToSession(s) PROVE TypeInv'
  <2>1. /\ published' = [published EXCEPT ![s] = @ + 1]
        /\ publisher' = [session |-> s, number |-> published[s] + 1]
        /\ UNCHANGED <<hubVars, shub, clientVars, poller, panicked>>
    BY <1>1 DEF BroadcastToSession, TypeInv, TypeOK
  <2>2. published[s] + 1 \in Numbers /\ published[s] + 1 \in 0..MaxBroadcasts
    BY <1>1 DEF BroadcastToSession, TypeInv, TypeOK, Numbers
  <2>3. publisher' \in Message /\ published' \in [Sessions -> 0..MaxBroadcasts]
    BY <2>1, <2>2 DEF Message, TypeInv, TypeOK
  <2> QED
    BY <2>1, <2>3 DEF TypeInv, TypeOK, HandsFull, hubVars, clientVars, SessionHubOf
<1>2. ASSUME NEW p \in Pollers, NEW s \in Sessions, StatsLockHub(p, s) PROVE TypeInv'
  <2>1. sessions[s] \in Clients
    BY <1>2 DEF StatsLockHub, TypeInv, TypeOK
  <2>2. poller' \in [Pollers -> [pc : {"idle", "locking", "counting"}, at : Clients \cup {None}]]
    BY <1>2, <2>1 DEF StatsLockHub, TypeInv, TypeOK
  <2> QED
    BY <1>2, <2>2 DEF StatsLockHub, TypeInv, TypeOK, HandsFull, hubVars, clientVars, SessionHubOf
<1>3. ASSUME NEW p \in Pollers, StatsLockSessionHub(p) PROVE TypeInv'
  <2>1. PICK x : x = poller[p]
    OBVIOUS
  <2>2. x \in [pc : {"idle", "locking", "counting"}, at : Clients \cup {None}]
    BY <2>1 DEF TypeInv, TypeOK
  <2>3. [x EXCEPT !.pc = "counting"] \in [pc : {"idle", "locking", "counting"}, at : Clients \cup {None}]
    BY <2>2
  <2>4. poller' = [poller EXCEPT ![p] = [x EXCEPT !.pc = "counting"]]
    BY <1>3, <2>1 DEF StatsLockSessionHub, TypeInv, TypeOK
  <2>5. poller' \in [Pollers -> [pc : {"idle", "locking", "counting"}, at : Clients \cup {None}]]
    BY <2>3, <2>4 DEF TypeInv, TypeOK
  <2> QED
    BY <1>3, <2>5 DEF StatsLockSessionHub, TypeInv, TypeOK, HandsFull, hubVars, clientVars, SessionHubOf
<1>4. ASSUME NEW p \in Pollers, StatsReturn(p) PROVE TypeInv'
  <2>1. poller' \in [Pollers -> [pc : {"idle", "locking", "counting"}, at : Clients \cup {None}]]
    BY <1>4 DEF StatsReturn, TypeInv, TypeOK
  <2> QED
    BY <1>4, <2>1 DEF StatsReturn, TypeInv, TypeOK, HandsFull, hubVars, clientVars, SessionHubOf
<1> QED
  BY <1>1, <1>2, <1>3, <1>4 DEF GetSessionStats

LEMMA TypeStep == TypeInv /\ [Next]_vars => TypeInv'
<1> SUFFICES ASSUME TypeInv, [Next]_vars PROVE TypeInv'
  OBVIOUS
<1>1. CASE UNCHANGED vars
  BY <1>1 DEF vars, hubVars, clientVars, sources, TypeInv, TypeOK, HandsFull, SessionHubOf
<1>2. CASE Next
  BY <1>2, HubRunType, ShubRunType, ClientType, SourceType DEF Next
<1> QED
  BY <1>1, <1>2

\* Hub.Run, the session hubs, the pumps, the broadcaster and the stats calls
\* keep every variable in its type, channels within their capacities included.
THEOREM HubTypeCorrect == Spec => []TypeOK
<1>1. TypeInv => TypeOK
  BY DEF TypeInv
<1> QED
  BY <1>1, TypeInit, TypeStep, PTL DEF Spec

-----------------------------------------------------------------------------
(* Who is where.  A member of a SessionHub whose channel is closed, or which *)
(* Hub.Run has handed over to be removed, is just being removed.             *)

Removing(h, c) == shub[h].pc = "remove" /\ shub[h].client = c
SeenOff(c) == hub.pc \in {"checkEmpty", "closeSend"} /\ hub.client = c

MemberInv ==
  \A h, c \in Clients : c \in Members(h) =>
    /\ sessions[SessionOf[c]] = h
    /\ reader[c] \notin {"none", "registering"}
    /\ ~Joining(c)
    /\ closed[c] \/ SeenOff(c) => Removing(h, c)

FanoutInv ==
  \A h \in Clients :
    /\ shub[h].todo \subseteq shub[h].clients
    /\ shub[h].todo # {} => shub[h].pc = "fanout"

\* A client that is not slow has its channel closed by Hub.Run, once, after its
\* reader is done.
ClosedInv ==
  \A c \in Clients :
    /\ conn[c] = "none" => reader[c] = "none"
    /\ reader[c] \in {"none", "registering"} => ~closed[c]
    /\ Joining(c) => reader[c] \notin {"none", "registering"} /\ ~closed[c]
    /\ Leaving(c) => reader[c] = "done"
    /\ closed[c] /\ c \notin slow => reader[c] = "done" /\ ~Leaving(c)
    /\ reader[c] = "panicking" => c \in slow

\* A SessionHub is named by a client that registered, and starts empty.
BornInv ==
  \A h \in Clients :
    /\ shub[h].pc # "none" => /\ reader[h] \notin {"none", "registering"}
                             /\ ~(hub.pc = "register" /\ hub.client = h)
    /\ shub[h].pc = "none" => shub[h].clients = {}

HubInv ==
  TypeInv /\ MemberInv /\ FanoutInv /\ BornInv /\ ClosedInv /\ PanicOnlyAfterSlow

LEMMA HubInit == Init => HubInv
BY TypeInit DEF Init, HubInv, MemberInv, FanoutInv, BornInv, ClosedInv, PanicOnlyAfterSlow, Members,
                Joining, Leaving

\* While nothing that MemberInv, FanoutInv and BornInv speak of changes, they stay.
LEMMA MembersKept ==
  ASSUME HubInv, UNCHANGED <<hubVars, shub, closed>>,
         \A c \in Clients : reader[c] \notin {"none", "registering"}
                              => reader'[c] \notin {"none", "registering"}
  PROVE  MemberInv' /\ FanoutInv' /\ BornInv'
BY DEF HubInv, MemberInv, FanoutInv, BornInv, Members, Removing, SeenOff, Joining, hubVars

LEMMA HubRunMembers ==
  ASSUME HubInv, HubRun
  PROVE  MemberInv' /\ FanoutInv' /\ BornInv'
<1> USE HubAssumption
<1>a. MemberInv /\ FanoutInv /\ BornInv
  BY DEF HubInv
<1>b. /\ shub \in [Clients -> Shub] /\ sessions \in [Sessions -> Clients \cup {None}]
      /\ reader \in [Clients -> {"none", "registering", "reading", "replying",
                                 "unregistering", "panicking", "done"}]
      /\ hub \in [pc : HubPC, client : Clients \cup {None}, msg : Message \cup {None}]
  BY DEF HubInv, TypeInv, TypeOK
<1>1. ASSUME NEW c \in Clients, TakeRegister(c) PROVE MemberInv' /\ FanoutInv' /\ BornInv'
  <2>1. /\ UNCHANGED <<sessions, shub, closed>> /\ reader' = [reader EXCEPT ![c] = "reading"]
        /\ hub'.pc = "register" /\ hub'.client = c
        /\ hub.pc = "select" /\ reader[c] = "registering"
    BY <1>1, <1>b DEF TakeRegister
  <2> QED
    BY <1>a, <1>b, <2>1 DEF MemberInv, FanoutInv, BornInv, Members, Removing, SeenOff, Joining
<1>2. ASSUME NEW c \in Clients, TakeUnregister(c) PROVE MemberInv' /\ FanoutInv' /\ BornInv'
  <2>1. /\ UNCHANGED <<sessions, shub, closed>> /\ reader' = [reader EXCEPT ![c] = "done"]
        /\ hub'.pc = "unregister" /\ hub.pc = "select"
    BY <1>2, <1>b DEF TakeUnregister
  <2> QED
    BY <1>a, <1>b, <2>1 DEF MemberInv, FanoutInv, BornInv, Members, Removing, SeenOff, Joining
<1>3. CASE RegisterClient
  <2>1. PICK c \in Clients, s \in Sessions : c = hub.client /\ s = SessionOf[c]
    BY <1>3 DEF RegisterClient, HubInv, TypeInv, HandsFull
  <2>2. /\ hub'.pc = "handRegister" /\ hub'.client = c /\ UNCHANGED <<reader, closed>>
        /\ hub.pc = "register"
    BY <1>3, <1>b, <2>1 DEF RegisterClient, HubAt, clientVars
  <2>3. CASE sessions[s] = None
    \* No client is a member of a hub for this session, which has none; and the
    \* SessionHub named by c is new.
    <3>1. sessions' = [sessions EXCEPT ![s] = c] /\ shub' = [shub EXCEPT ![c].pc = "select"]
      BY <1>3, <2>1, <2>3 DEF RegisterClient
    <3>2. /\ shub'[c].pc = "select" /\ shub'[c].clients = shub[c].clients
          /\ shub'[c].todo = shub[c].todo
      BY <1>b, <3>1 DEF Shub
    <3>3. \A g \in Clients : g # c => shub'[g] = shub[g]
      BY <1>b, <3>1
    <3>4. shub[c].pc = "none" /\ shub[c].clients = {} /\ shub[c].todo = {}
      BY <1>a, <2>1, <2>2 DEF BornInv, FanoutInv
    <3>5. \A h, d \in Clients : d \in Members(h)' => h # c /\ d \in Members(h)
      BY <3>2, <3>3, <3>4 DEF Members
    <3>6. \A h, d \in Clients : d \in Members(h) => sessions'[SessionOf[d]] = sessions[SessionOf[d]]
      BY <1>a, <1>b, <2>3, <3>1 DEF MemberInv
    <3>7. MemberInv'
      BY <1>a, <2>1, <2>2, <3>3, <3>5, <3>6 DEF MemberInv, Removing, SeenOff, Joining
    <3>8. FanoutInv'
      BY <1>a, <3>2, <3>3, <3>4 DEF FanoutInv
    <3>9. reader[c] \notin {"none", "registering"}
      BY <2>1, <2>2 DEF HubInv, ClosedInv, Joining
    <3> QED
      BY <1>a, <2>1, <2>2, <3>2, <3>3, <3>7, <3>8, <3>9 DEF BornInv
  <2>4. CASE sessions[s] # None
    <3>1. UNCHANGED <<sessions, shub>>
      BY <1>3, <2>1, <2>4 DEF RegisterClient
    <3> QED
      BY <1>a, <2>1, <2>2, <3>1
      DEF MemberInv, FanoutInv, BornInv, Members, Removing, SeenOff, Joining
  <2> QED
    BY <2>3, <2>4
<1>4. CASE HandRegister
  <2>1. PICK h, c \in Clients : h = SessionHubOf(hub.client) /\ c = hub.client
    BY <1>4 DEF HandRegister, HubInv, TypeInv, HandsFull
  <2>2. /\ hub.pc = "handRegister" /\ shub[h].pc = "select" /\ hub'.pc = "select"
        /\ UNCHANGED <<sessions, reader, closed>>
    BY <1>4, <2>1 DEF HandRegister, HubSelect, clientVars
  <2>a. shub' = [shub EXCEPT ![h].pc = "add", ![h].client = c]
    BY <1>4, <2>1 DEF HandRegister
  <2>3. /\ shub'[h].pc = "add" /\ shub'[h].client = c
        /\ shub'[h].clients = shub[h].clients /\ shub'[h].todo = shub[h].todo
    BY <1>b, <2>a DEF Shub
  <2>4. \A g \in Clients : g # h => shub'[g] = shub[g]
    BY <1>b, <2>a
  <2>5. reader[c] \notin {"none", "registering"} /\ ~closed[c]
    BY <2>1, <2>2 DEF HubInv, ClosedInv, Joining
  <2>6. sessions[SessionOf[c]] = h
    BY <2>1 DEF SessionHubOf
  <2>7. shub[h].todo = {}
    BY <1>a, <2>2 DEF FanoutInv
  <2>8. \A g, d \in Clients : d \in Members(g)' => d \in Members(g) \/ (g = h /\ d = c)
    BY <2>3, <2>4 DEF Members
  <2>9. \A d \in Clients : ~Removing(h, d)
    BY <2>2 DEF Removing
  <2>10. MemberInv'
    BY <1>a, <2>2, <2>4, <2>5, <2>6, <2>8, <2>9 DEF MemberInv, Removing, SeenOff, Joining
  <2> QED
    BY <1>a, <2>2, <2>3, <2>4, <2>7, <2>10 DEF FanoutInv, BornInv
<1>5. CASE UnregisterClient
  <2>1. /\ UNCHANGED <<sessions, shub, reader, closed>>
        /\ hub'.pc \in {"closeSend", "handUnregister"} /\ hub'.client = hub.client
        /\ hub.pc = "unregister"
        /\ hub'.pc = "closeSend" => sessions[SessionOf[hub.client]] = None
    BY <1>5, <1>b DEF UnregisterClient, HubAt, SessionHubOf, clientVars
  <2> QED
    BY <1>a, <2>1 DEF MemberInv, FanoutInv, BornInv, Members, Removing, SeenOff, Joining
<1>6. CASE HandUnregister
  <2>1. PICK h, c \in Clients : h = SessionHubOf(hub.client) /\ c = hub.client
    BY <1>6 DEF HandUnregister, HubInv, TypeInv, HandsFull
  <2>2. /\ hub.pc = "handUnregister" /\ shub[h].pc = "select"
        /\ hub'.pc = "checkEmpty" /\ hub'.client = c
        /\ UNCHANGED <<sessions, reader, closed>>
    BY <1>6, <1>b, <2>1 DEF HandUnregister, HubAt, clientVars
  <2>a. shub' = [shub EXCEPT ![h].pc = "remove", ![h].client = c]
    BY <1>6, <2>1 DEF HandUnregister
  <2>3. /\ shub'[h].pc = "remove" /\ shub'[h].client = c
        /\ shub'[h].clients = shub[h].clients /\ shub'[h].todo = shub[h].todo
    BY <1>b, <2>a DEF Shub
  <2>4. \A g \in Clients : g # h => shub'[g] = shub[g]
    BY <1>b, <2>a
  <2>5. shub[h].todo = {}
    BY <1>a, <2>2 DEF FanoutInv
  <2>6. \A g, d \in Clients : d \in Members(g)' => d \in Members(g)
    BY <2>3, <2>4 DEF Members
  <2>7. \A d \in Clients : ~Removing(h, d) /\ (d = c => Removing(h, d)')
    BY <2>2, <2>3 DEF Removing
  <2>8. sessions[SessionOf[c]] = h
    BY <2>1 DEF SessionHubOf
  <2>9. MemberInv'
    BY <1>a, <2>2, <2>4, <2>6, <2>7, <2>8 DEF MemberInv, Removing, SeenOff, Joining
  <2> QED
    BY <1>a, <2>2, <2>3, <2>4, <2>5, <2>9 DEF FanoutInv, BornInv
<1>7. CASE CheckEmpty
  <2>1. PICK h, c \in Clients : h = SessionHubOf(hub.client) /\ c = hub.client
    BY <1>7 DEF CheckEmpty, HubInv, TypeInv, HandsFull
  <2>2. /\ hub.pc = "checkEmpty" /\ hub'.pc = "closeSend" /\ hub'.client = c
        /\ UNCHANGED <<shub, reader, closed>>
        /\ sessions' = IF shub[h].clients = {} THEN [sessions EXCEPT ![SessionOf[c]] = None]
                       ELSE sessions
    BY <1>7, <1>b, <2>1 DEF CheckEmpty, HubAt, IsEmpty, SessionHubOf, clientVars
  <2>3. sessions[SessionOf[c]] = h /\ shub[h].pc # "add"
    BY <2>1, <2>2 DEF HubInv, TypeInv, HandsFull, SessionHubOf
  <2>4. shub[h].clients = {} => Members(h) = {}
    BY <2>3 DEF Members
  <2>5. \A g, d \in Clients : d \in Members(g) => sessions'[SessionOf[d]] = g
    BY <1>a, <1>b, <2>2, <2>3, <2>4 DEF MemberInv
  <2> QED
    BY <1>a, <2>1, <2>2, <2>5
    DEF MemberInv, FanoutInv, BornInv, Members, Removing, SeenOff, Joining
<1>8. CASE CloseSend
  <2>1. PICK c \in Clients : c = hub.client
    BY <1>8 DEF CloseSend, HubInv, TypeInv, HandsFull
  <2>2. /\ hub.pc = "closeSend" /\ hub'.pc = "select"
        /\ UNCHANGED <<sessions, shub, reader>> /\ closed' = [closed EXCEPT ![c] = TRUE]
    BY <1>8, <2>1 DEF CloseSend, HubSelect
  <2>3. closed \in [Clients -> BOOLEAN]
    BY DEF HubInv, TypeInv, TypeOK
  <2> QED
    BY <1>a, <2>1, <2>2, <2>3
    DEF MemberInv, FanoutInv, BornInv, Members, Removing, SeenOff, Joining
<1>9. CASE TakeBroadcast
  <2>1. UNCHANGED <<sessions, shub, reader, closed>> /\ hub'.pc = "broadcast"
    BY <1>9, <1>b DEF TakeBroadcast, clientVars
  <2> QED
    BY <1>a, <2>1 DEF MemberInv, FanoutInv, BornInv, Members, Removing, SeenOff, Joining
<1>10. CASE BroadcastToSessionHub
  <2>1. UNCHANGED <<sessions, reader, closed>> /\ hub'.pc = "select" /\ hub.pc = "broadcast"
    BY <1>10 DEF BroadcastToSessionHub, HubSelect, clientVars
  <2>2. \A g \in Clients : /\ shub'[g].pc = shub[g].pc /\ shub'[g].client = shub[g].client
                           /\ shub'[g].clients = shub[g].clients
                           /\ shub'[g].todo = shub[g].todo
    <3>1. PICK q, h : shub' = shub \/ shub' = [shub EXCEPT ![h].queue = q]
      BY <1>10 DEF BroadcastToSessionHub
    <3> QED
      BY <1>b, <3>1 DEF Shub
  <2> QED
    BY <1>a, <2>1, <2>2 DEF MemberInv, FanoutInv, BornInv, Members, Removing, SeenOff, Joining
<1> QED
  BY <1>1, <1>2, <1>3, <1>4, <1>5, <1>6, <1>7, <1>8, <1>9, <1>10 DEF HubRun

LEMMA ShubRunMembers ==
  ASSUME HubInv, NEW h \in Clients, ShubRun(h)
  PROVE  MemberInv' /\ FanoutInv' /\ BornInv'
<1>a. MemberInv /\ FanoutInv /\ BornInv
  BY DEF HubInv
<1>b. shub \in [Clients -> Shub] /\ closed \in [Clients -> BOOLEAN]
  BY DEF HubInv, TypeInv, TypeOK
<1>1. CASE AddClient(h)
  <2>1. UNCHANGED <<hub, sessions, reader, closed>> /\ shub[h].pc = "add"
    BY <1>1 DEF AddClient, hubVars, clientVars
  <2>2. /\ shub'[h].pc = "select" /\ shub'[h].clients = shub[h].clients \cup {shub[h].client}
        /\ shub'[h].todo = shub[h].todo
        /\ \A g \in Clients : g # h => shub'[g] = shub[g]
    BY <1>1, <1>b DEF AddClient, Shub
  <2>3. \A g, d \in Clients : d \in Members(g)' => d \in Members(g)
    BY <2>1, <2>2 DEF Members
  <2>4. MemberInv'
    BY <1>a, <2>1, <2>2, <2>3 DEF MemberInv, Removing, SeenOff, Joining
  <2> QED
    BY <1>a, <2>1, <2>2, <2>4 DEF FanoutInv, BornInv
<1>2. CASE RemoveClient(h)
  <2>1. UNCHANGED <<hub, sessions, reader, closed>> /\ shub[h].pc = "remove"
    BY <1>2 DEF RemoveClient, hubVars, clientVars
  <2>2. /\ shub'[h].pc = "select" /\ shub'[h].clients = shub[h].clients \ {shub[h].client}
        /\ shub'[h].todo = shub[h].todo
        /\ \A g \in Clients : g # h => shub'[g] = shub[g]
    BY <1>2, <1>b DEF RemoveClient, NextRound, WithoutClient, Shub
  <2>3. \A g, d \in Clients : d \in Members(g)' => /\ d \in Members(g)
                                                   /\ g = h => d # shub[h].client
    BY <2>1, <2>2 DEF Members
  <2>4. MemberInv'
    BY <1>a, <2>1, <2>2, <2>3 DEF MemberInv, Removing, SeenOff, Joining
  <2> QED
    BY <1>a, <2>1, <2>2, <2>4 DEF FanoutInv, BornInv
<1>3. CASE TakeMessage(h)
  <2>1. UNCHANGED <<hub, sessions, reader, closed>> /\ shub[h].pc = "select"
    BY <1>3 DEF TakeMessage, hubVars, clientVars
  <2>2. PICK q, n : shub' = [shub EXCEPT ![h].pc = "broadcast", ![h].number = n, ![h].queue = q]
    BY <1>3 DEF TakeMessage
  <2>3. /\ shub'[h].pc = "broadcast" /\ shub'[h].clients = shub[h].clients
        /\ shub'[h].todo = shub[h].todo
        /\ \A g \in Clients : g # h => shub'[g] = shub[g]
    BY <1>b, <2>2 DEF Shub
  <2>4. \A g, d \in Clients : d \in Members(g)' => d \in Members(g)
    BY <2>1, <2>3 DEF Members
  <2>5. MemberInv'
    BY <1>a, <2>1, <2>3, <2>4 DEF MemberInv, Removing, SeenOff, Joining
  <2> QED
    BY <1>a, <2>1, <2>3, <2>5 DEF FanoutInv, BornInv
<1>4. CASE StartFanout(h)
  <2>1. UNCHANGED <<hub, sessions, reader, closed>> /\ shub[h].pc = "broadcast"
    BY <1>4 DEF StartFanout, hubVars, clientVars
  <2>2. /\ shub'[h].pc = "fanout" /\ shub'[h].clients = shub[h].clients
        /\ shub'[h].todo = shub[h].clients
        /\ \A g \in Clients : g # h => shub'[g] = shub[g]
    BY <1>4, <1>b DEF StartFanout, Shub
  <2>3. \A g, d \in Clients : d \in Members(g)' => d \in Members(g)
    BY <2>1, <2>2 DEF Members
  <2>4. MemberInv'
    BY <1>a, <2>1, <2>2, <2>3 DEF MemberInv, Removing, SeenOff, Joining
  <2> QED
    BY <1>a, <2>1, <2>2, <2>4 DEF FanoutInv, BornInv
<1>5. CASE EndFanout(h)
  <2>1. /\ UNCHANGED <<hub, sessions, reader, closed>> /\ shub[h].pc = "fanout"
        /\ shub[h].todo = {}
    BY <1>5 DEF EndFanout, AllVisited, hubVars, clientVars
  <2>2. /\ shub'[h].pc = "select" /\ shub'[h].clients = shub[h].clients
        /\ shub'[h].todo = shub[h].todo
        /\ \A g \in Clients : g # h => shub'[g] = shub[g]
    BY <1>5, <1>b DEF EndFanout, Shub
  <2>3. \A g, d \in Clients : d \in Members(g)' => d \in Members(g)
    BY <2>1, <2>2 DEF Members
  <2>4. MemberInv'
    BY <1>a, <2>1, <2>2, <2>3 DEF MemberInv, Removing, SeenOff, Joining
  <2> QED
    BY <1>a, <2>1, <2>2, <2>4 DEF FanoutInv, BornInv
<1>6. ASSUME NEW c \in Clients, Offer(h, c) PROVE MemberInv' /\ FanoutInv' /\ BornInv'
  \* A client dropped as slow is no member any more: it has one hub.
  <2>1. UNCHANGED <<hub, sessions, reader>> /\ shub[h].pc = "fanout"
    BY <1>6 DEF Offer, hubVars
  <2>2. PICK full \in BOOLEAN :
          /\ closed' = [closed EXCEPT ![c] = @ \/ full]
          /\ shub' = [shub EXCEPT ![h].todo = @ \ {c},
                                  ![h].clients = IF full THEN @ \ {c} ELSE @]
    BY <1>6 DEF Offer, Full
  <2>3. c \in shub[h].todo
    BY <1>6 DEF Offer
  <2>4. /\ shub'[h].pc = "fanout" /\ shub'[h].todo = shub[h].todo \ {c}
        /\ shub'[h].clients = IF full THEN shub[h].clients \ {c} ELSE shub[h].clients
        /\ \A g \in Clients : g # h => shub'[g] = shub[g]
    BY <1>b, <2>1, <2>2 DEF Shub
  <2>5. \A g, d \in Clients : d \in Members(g)' => /\ d \in Members(g)
                                                   /\ full /\ g = h => d # c
    BY <2>1, <2>4 DEF Members
  <2>6. c \in Members(h)
    BY <1>a, <2>3 DEF FanoutInv, Members
  <2>7. \A g, d \in Clients : d \in Members(g)' /\ closed'[d] => closed[d]
    BY <1>a, <1>b, <2>2, <2>5, <2>6 DEF MemberInv
  <2>8. MemberInv'
    BY <1>a, <2>1, <2>4, <2>5, <2>7 DEF MemberInv, Removing, SeenOff, Joining
  <2>9. FanoutInv'
    BY <1>a, <2>1, <2>4 DEF FanoutInv
  <2> QED
    BY <1>a, <2>1, <2>4, <2>8, <2>9 DEF BornInv
<1> QED
  BY <1>1, <1>2, <1>3, <1>4, <1>5, <1>6 DEF ShubRun

LEMMA MemberStep ==
  ASSUME HubInv, [Next]_vars
  PROVE  MemberInv' /\ FanoutInv' /\ BornInv'
<1>1. CASE UNCHANGED vars
  BY <1>1, MembersKept DEF vars, hubVars, clientVars
<1>2. ASSUME NEW c \in Clients, ServeWebSocket(c) PROVE MemberInv' /\ FanoutInv' /\ BornInv'
  BY <1>2, MembersKept DEF ServeWebSocket, HubInv, ClosedInv, TypeInv, TypeOK
<1>3. ASSUME NEW c \in Clients, PeerGone(c) \/ ReadPump(c) \/ WritePump(c)
      PROVE  MemberInv' /\ FanoutInv' /\ BornInv'
  BY <1>3, MembersKept DEF HubInv, TypeInv, TypeOK, PeerGone, ReadPump, ReadRequest,
     HandleMessage, ReadFails, WritePump, WriteMessage, WriteFails, SendClosed, WriterReturns
<1>4. CASE \/ \E s \in Sessions : BroadcastToSession(s)
           \/ \E p \in Pollers : GetSessionStats(p)
  BY <1>4, MembersKept DEF BroadcastToSession, GetSessionStats, StatsLockHub,
     StatsLockSessionHub, StatsReturn, clientVars
<1> QED
  BY <1>1, <1>2, <1>3, <1>4, HubRunMembers, ShubRunMembers DEF Next

-----------------------------------------------------------------------------
(* Closed channels *)

LEMMA ClosedStep ==
  ASSUME HubInv, [Next]_vars
  PROVE  ClosedInv' /\ PanicOnlyAfterSlow'
<1> USE HubAssumption
<1>a. ClosedInv /\ PanicOnlyAfterSlow
  BY DEF HubInv
<1>b. /\ hub \in [pc : HubPC, client : Clients \cup {None}, msg : Message \cup {None}]
      /\ conn \in [Clients -> {"none", "open", "gone", "closed"}]
      /\ reader \in [Clients -> {"none", "registering", "reading", "replying",
                                 "unregistering", "panicking", "done"}]
      /\ closed \in [Clients -> BOOLEAN]
  BY DEF HubInv, TypeInv, TypeOK
<1>1. CASE UNCHANGED vars
  BY <1>1, <1>a DEF vars, hubVars, clientVars, ClosedInv, PanicOnlyAfterSlow, Joining, Leaving
<1>2. ASSUME NEW c \in Clients, TakeRegister(c) PROVE ClosedInv' /\ PanicOnlyAfterSlow'
  <2>1. /\ UNCHANGED <<conn, closed, slow, panicked>> /\ reader' = [reader EXCEPT ![c] = "reading"]
        /\ hub'.pc = "register" /\ hub'.client = c
        /\ hub.pc = "select" /\ reader[c] = "registering"
    BY <1>2, <1>b DEF TakeRegister
  <2> QED
    BY <1>a, <1>b, <2>1 DEF ClosedInv, PanicOnlyAfterSlow, Joining, Leaving
<1>3. ASSUME NEW c \in Clients, TakeUnregister(c) PROVE ClosedInv' /\ PanicOnlyAfterSlow'
  \* A reader that panicked has found its channel closed by a SessionHub.
  <2>1. /\ UNCHANGED <<closed, slow>> /\ reader' = [reader EXCEPT ![c] = "done"]
        /\ conn' = [conn EXCEPT ![c] = "closed"]
        /\ hub'.pc = "unregister" /\ hub'.client = c
        /\ reader[c] \in {"unregistering", "panicking"}
        /\ panicked' => reader[c] = "panicking"
    BY <1>3, <1>b DEF TakeUnregister
  <2> QED
    BY <1>a, <1>b, <2>1 DEF ClosedInv, PanicOnlyAfterSlow, Joining, Leaving
<1>4. CASE RegisterClient \/ HandRegister \/ UnregisterClient \/ HandUnregister \/ CheckEmpty
           \/ TakeBroadcast \/ BroadcastToSessionHub
  <2>1. UNCHANGED <<conn, reader, closed, slow, panicked>>
    BY <1>4 DEF RegisterClient, HandRegister, UnregisterClient, HandUnregister, CheckEmpty,
       TakeBroadcast, BroadcastToSessionHub, clientVars
  <2>2. \/ hub'.pc \in {"select", "broadcast"}
        \/ /\ hub'.client = hub.client
           /\ \/ hub.pc = "register" /\ hub'.pc = "handRegister"
              \/ /\ hub.pc \in {"unregister", "handUnregister", "checkEmpty"}
                 /\ hub'.pc \in {"handUnregister", "checkEmpty", "closeSend"}
    <3>1. CASE RegisterClient
      BY <3>1, <1>b DEF RegisterClient, HubAt
    <3>2. CASE HandRegister \/ BroadcastToSessionHub
      BY <3>2 DEF HandRegister, BroadcastToSessionHub, HubSelect
    <3>3. CASE UnregisterClient \/ HandUnregister \/ CheckEmpty
      <4>1. \E pc : HubAt(pc) /\ pc \in {"handUnregister", "checkEmpty", "closeSend"}
        BY <3>3 DEF UnregisterClient, HandUnregister, CheckEmpty
      <4>2. hub.pc \in {"unregister", "handUnregister", "checkEmpty"}
        BY <3>3 DEF UnregisterClient, HandUnregister, CheckEmpty
      <4> QED
        BY <4>1, <4>2, <1>b DEF HubAt
    <3>4. CASE TakeBroadcast
      BY <3>4, <1>b DEF TakeBroadcast
    <3> QED
      BY <1>4, <3>1, <3>2, <3>3, <3>4
  <2>3. \A c \in Clients : (Joining(c)' => Joining(c)) /\ (Leaving(c)' => Leaving(c))
    BY <2>2 DEF Joining, Leaving
  <2> QED
    BY <1>a, <2>1, <2>3 DEF ClosedInv, PanicOnlyAfterSlow
<1>5. CASE CloseSend
  \* Hub.Run sees a client off once, so a closed channel here was a SessionHub's.
  <2>1. PICK c \in Clients : c = hub.client
    BY <1>5 DEF CloseSend, HubInv, TypeInv, HandsFull
  <2>2. /\ UNCHANGED <<conn, reader, slow>> /\ closed' = [closed EXCEPT ![c] = TRUE]
        /\ hub.pc = "closeSend" /\ hub'.pc = "select" /\ panicked' = closed[c]
    BY <1>5, <2>1 DEF CloseSend, HubSelect
  <2>3. Leaving(c)
    BY <2>1, <2>2 DEF Leaving
  <2> QED
    BY <1>a, <1>b, <2>2, <2>3 DEF ClosedInv, PanicOnlyAfterSlow, Joining, Leaving
<1>6. ASSUME NEW h \in Clients, NEW c \in Clients, Offer(h, c)
      PROVE  ClosedInv' /\ PanicOnlyAfterSlow'
  <2>1. PICK full \in BOOLEAN :
          /\ closed' = [closed EXCEPT ![c] = @ \/ full]
          /\ slow' = IF full THEN slow \cup {c} ELSE slow
    BY <1>6 DEF Offer, Full
  <2>2. /\ UNCHANGED <<hub, conn, reader>> /\ panicked' = closed[c]
        /\ c \in shub[h].todo /\ shub[h].pc = "fanout"
    BY <1>6 DEF Offer, hubVars
  <2>3. c \in Members(h) /\ ~Removing(h, c)
    BY <2>2 DEF HubInv, FanoutInv, Members, Removing
  <2>4. reader[c] \notin {"none", "registering"} /\ ~Joining(c) /\ ~closed[c]
    BY <2>3 DEF HubInv, MemberInv
  <2> QED
    BY <1>a, <1>b, <2>1, <2>2, <2>4 DEF ClosedInv, PanicOnlyAfterSlow, Joining, Leaving
<1>7. ASSUME NEW h \in Clients,
             AddClient(h) \/ RemoveClient(h) \/ TakeMessage(h) \/ StartFanout(h) \/ EndFanout(h)
      PROVE  ClosedInv' /\ PanicOnlyAfterSlow'
  <2>1. UNCHANGED <<hub, conn, reader, closed, slow, panicked>>
    BY <1>7 DEF AddClient, RemoveClient, TakeMessage, StartFanout, EndFanout, hubVars, clientVars
  <2> QED
    BY <1>a, <2>1 DEF ClosedInv, PanicOnlyAfterSlow, Joining, Leaving
<1>8. ASSUME NEW c \in Clients, ServeWebSocket(c) PROVE ClosedInv' /\ PanicOnlyAfterSlow'
  BY <1>8, <1>a, <1>b DEF ServeWebSocket, hubVars, ClosedInv, PanicOnlyAfterSlow, Joining, Leaving
<1>9. ASSUME NEW c \in Clients, PeerGone(c) \/ WritePump(c)
      PROVE  ClosedInv' /\ PanicOnlyAfterSlow'
  <2>1. /\ UNCHANGED <<hub, reader, closed, slow, panicked>>
        /\ conn' = conn \/ \E e \in {"gone", "closed"} : conn' = [conn EXCEPT ![c] = e]
        /\ conn[c] = "none" => reader[c] = "none"
    BY <1>9, <1>a DEF PeerGone, WritePump, WriteMessage, WriteFails, SendClosed, WriterReturns,
       hubVars, ClosedInv
  <2> QED
    BY <1>a, <1>b, <2>1 DEF ClosedInv, PanicOnlyAfterSlow, Joining, Leaving
<1>10. ASSUME NEW c \in Clients, ReadPump(c) PROVE ClosedInv' /\ PanicOnlyAfterSlow'
  \* A reader that replies is not done: only a SessionHub can have closed c.
  <2>1. /\ UNCHANGED <<hub, conn, closed, slow, panicked>>
        /\ reader[c] \in {"reading", "replying"}
        /\ \E r \in {"reading", "replying", "unregistering", "panicking"} :
             /\ reader' = [reader EXCEPT ![c] = r]
             /\ r = "panicking" => closed[c]
    BY <1>10 DEF ReadPump, ReadRequest, HandleMessage, ReadFails, hubVars
  <2> QED
    BY <1>a, <1>b, <2>1 DEF ClosedInv, PanicOnlyAfterSlow, Joining, Leaving
<1>11. CASE \/ \E s \in Sessions : BroadcastToSession(s)
            \/ \E p \in Pollers : GetSessionStats(p)
  <2>1. UNCHANGED <<hub, conn, reader, closed, slow, panicked>>
    BY <1>11 DEF BroadcastToSession, GetSessionStats, StatsLockHub, StatsLockSessionHub,
       StatsReturn, hubVars, clientVars
  <2> QED
    BY <1>a, <2>1 DEF ClosedInv, PanicOnlyAfterSlow, Joining, Leaving
<1> QED
  BY <1>1, <1>2, <1>3, <1>4, <1>5, <1>6, <1>7, <1>8, <1>9, <1>10, <1>11
  DEF Next, HubRun, ShubRun

LEMMA HubInvariant == Spec => []HubInv
<1>1. HubInv /\ [Next]_vars => HubInv'
  BY TypeStep, MemberStep, ClosedStep DEF HubInv
<1> QED
  BY <1>1, HubInit, PTL DEF Spec

\* unregisterClient deletes a session from h.sessions on a length it reads
\* without the SessionHub's mutex, and never forgets a client that way.
THEOREM NoClientStrandedHolds == Spec => []NoClientStranded
<1>1. HubInv => NoClientStranded
  <2> SUFFICES ASSUME HubInv, NEW h \in Clients, NEW c \in Members(h)
               PROVE  sessions[SessionOf[c]] = h
    BY DEF NoClientStranded
  <2>1. c \in Clients
    <3>1. shub[h] \in Shub /\ (shub[h].pc = "add" => shub[h].client \in Clients)
      BY DEF HubInv, TypeInv, TypeOK, HandsFull
    <3> QED
      BY <3>1 DEF Members, Shub
  <2> QED
    BY <2>1 DEF HubInv, MemberInv
<1> QED
  BY <1>1, HubInvariant, PTL

\* broadcastMessage sends on no closed channel, although Hub.Run closes
\* channels without the SessionHub's mutex.
THEOREM NeverOffersToClosedHolds == Spec => []NeverOffersToClosed
<1>1. HubInv => NeverOffersToClosed
  <2> SUFFICES ASSUME HubInv, NEW h \in Clients, NEW c \in shub[h].todo
               PROVE  ~closed[c]
    BY DEF NeverOffersToClosed
  <2>1. c \in shub[h].clients /\ shub[h].pc = "fanout"
    BY DEF HubInv, FanoutInv
  <2>2. c \in Clients
    <3>1. shub[h] \in Shub
      BY DEF HubInv, TypeInv, TypeOK
    <3> QED
      BY <2>1, <3>1 DEF Shub
  <2> QED
    BY <2>1, <2>2 DEF HubInv, MemberInv, Members, Removing
<1> QED
  BY <1>1, HubInvariant, PTL

\* Whatever the order of disconnects, replies and broadcasts, the process
\* panics only after broadcastMessage dropped a slow client.
THEOREM PanicOnlyAfterSlowHolds == Spec => []PanicOnlyAfterSlow
<1>1. HubInv => PanicOnlyAfterSlow
  BY DEF HubInv
<1> QED
  BY <1>1, HubInvariant, PTL

-----------------------------------------------------------------------------
(* Broadcasts in order.  A broadcast is on its way from the broadcaster to   *)
(* Hub.Run, then in the queue of a SessionHub, then in the hands of its run, *)
(* then in client.send, among the replies of readPump.                       *)

\* The last broadcast of s that Hub.Run has passed on, and the last one that
\* the SessionHub h of the session has taken from its queue.
Sent(s) == published[s] - (IF publisher # None /\ publisher.session = s THEN 1 ELSE 0)
                        - (IF hub.pc = "broadcast" /\ hub.msg.session = s THEN 1 ELSE 0)
Taken(h) == Sent(SessionOf[h]) - Len(shub[h].queue)

SourceInv ==
  /\ publisher # None => publisher.number = published[publisher.session]
  /\ hub.pc = "broadcast" => hub.msg.number = Sent(hub.msg.session) + 1

\* The queue of a session's SessionHub leads up to what Hub.Run has passed on.
Queued(h) ==
  /\ \A i \in 1..Len(shub[h].queue) : shub[h].queue[i] = Taken(h) + i
  /\ shub[h].pc \in {"broadcast", "fanout"} => shub[h].number = Taken(h)

QueueInv ==
  /\ \A s \in Sessions : sessions[s] # None =>
       SessionOf[sessions[s]] = s /\ shub[sessions[s]].pc # "none"
  /\ \A h \in Clients : /\ shub[h].pc = "none" => Len(shub[h].queue) = 0
                        /\ sessions[SessionOf[h]] = h => Queued(h)

\* A client that no SessionHub has added yet has been sent replies at most.
Fresh(c) ==
  \/ reader[c] \in {"none", "registering"} \/ Joining(c)
  \/ \E h \in Clients : shub[h].pc = "add" /\ shub[h].client = c

FreshInv ==
  \A c \in Clients : Fresh(c) =>
    Len(received[c]) = 0 /\ \A i \in 1..Len(send[c]) : send[c][i] = Reply

\* The SessionHub h has yet to offer c the message it took last; and the last
\* broadcast it has put into the channel of c.
Due(h, c) == shub[h].pc = "broadcast" \/ c \in shub[h].todo
Given(h, c) == IF Due(h, c) THEN Taken(h) - 1 ELSE Taken(h)

\* g counts the broadcasts in the channel of c, from the last one received to
\* the last one given: g[i] is the latest one among the first i messages.
Numbering(c, g) ==
  /\ Len(received[c]) > 0 => received[c][Len(received[c])] = g[0]
  /\ \A i \in 1..Len(send[c]) :
       \/ send[c][i] = Reply /\ g[i] = g[i - 1]
       \/ send[c][i] = g[i] /\ g[i] = g[i - 1] + 1
  /\ \A h \in Clients : c \in shub[h].clients => g[Len(send[c])] = Given(h, c)

HasNumbering(c) == \E g \in [Nat -> Int] : Numbering(c, g)

\* A connection that is closed or gone accepts nothing any more.
ChannelInv == \A c \in Clients : conn[c] = "open" => HasNumbering(c)

OrderInv == SourceInv /\ QueueInv /\ FreshInv /\ ChannelInv /\ NoGap

LEMMA OrderInit == Init => OrderInv
<1> SUFFICES ASSUME Init PROVE OrderInv
  OBVIOUS
<1>1. SourceInv /\ FreshInv /\ ChannelInv
  BY DEF Init, SourceInv, FreshInv, ChannelInv
<1>2. \A h \in Clients : shub[h].queue = <<>> /\ sessions[SessionOf[h]] = None
  BY HubAssumption DEF Init
<1>3. QueueInv
  BY <1>2, HubAssumption DEF Init, QueueInv
<1>4. NoGap
  BY DEF Init, NoGap
<1> QED
  BY <1>1, <1>3, <1>4 DEF OrderInv

LEMMA SentInt ==
  ASSUME TypeInv
  PROVE  /\ \A s \in Sessions : Sent(s) \in Int
         /\ \A h \in Clients : Len(shub[h].queue) \in Nat /\ Taken(h) \in Int
<1>1. \A s \in Sessions : Sent(s) \in Int
  BY HubAssumption DEF TypeInv, TypeOK, Sent
<1>2. \A h \in Clients : Len(shub[h].queue) \in Nat
  BY DEF TypeInv, TypeOK, Shub
<1> QED
  BY <1>1, <1>2, HubAssumption DEF Taken

-----------------------------------------------------------------------------
(* What most steps leave alone *)

LEMMA SentKept ==
  ASSUME SourceInv, UNCHANGED <<publisher, published>>,
         hub' = hub \/ (hub.pc # "broadcast" /\ hub'.pc # "broadcast")
  PROVE  SourceInv' /\ \A s : Sent(s)' = Sent(s)
<1>1. \A s : Sent(s)' = Sent(s)
  BY DEF Sent
<1> QED
  BY <1>1 DEF SourceInv

\* The SessionHub h does not touch its queue or the number it broadcasts.
SameQueue(h) ==
  /\ shub'[h].queue = shub[h].queue
  /\ shub'[h].pc = "none" => shub[h].pc = "none"
  /\ shub'[h].pc \in {"broadcast", "fanout"} =>
       shub[h].pc \in {"broadcast", "fanout"} /\ shub'[h].number = shub[h].number

LEMMA QueueKept ==
  ASSUME QueueInv, NEW h \in Clients, SameQueue(h),
         Sent(SessionOf[h])' = Sent(SessionOf[h])
  PROVE  /\ Taken(h)' = Taken(h) /\ (Queued(h) => Queued(h)')
         /\ (shub[h].pc = "none" => Len(shub[h].queue) = 0)'
<1>1. Taken(h)' = Taken(h)
  BY DEF Taken, SameQueue
<1>2. Queued(h) => Queued(h)'
  BY <1>1 DEF Queued, SameQueue
<1> QED
  BY <1>1, <1>2 DEF SameQueue, QueueInv

LEMMA NumberingKept ==
  ASSUME NEW c \in Clients, HasNumbering(c),
         send'[c] = send[c], received'[c] = received[c],
         \A h \in Clients : c \in shub'[h].clients =>
           c \in shub[h].clients /\ Given(h, c)' = Given(h, c)
  PROVE  HasNumbering(c)'
<1>1. PICK g \in [Nat -> Int] : Numbering(c, g)
  BY DEF HasNumbering
<1>2. Numbering(c, g)'
  BY <1>1 DEF Numbering
<1> QED
  BY <1>2 DEF HasNumbering

\* A SessionHub that h.sessions has just been given.
NewHub(s) ==
  LET h == sessions[s] IN
  h \in Clients /\ SessionOf[h] = s /\ Len(shub[h].queue) = 0 /\ shub[h].pc = "select"

\* A step that moves no message and adds no client, and leaves what every
\* member has been given alone.
LEMMA QuietOrder ==
  ASSUME HubInv, OrderInv, UNCHANGED <<send, received>>,
         SourceInv', \A s \in Sessions : Sent(s)' = Sent(s),
         \A h \in Clients : SameQueue(h) /\ shub'[h].clients \subseteq shub[h].clients,
         \A h, c \in Clients : c \in shub'[h].clients => Due(h, c)' = Due(h, c),
         \A s \in Sessions : sessions'[s] \in {None, sessions[s]} \/ NewHub(s)',
         \A c \in Clients : conn'[c] = "open" => conn[c] = "open",
         \A c \in Clients : Fresh(c)' => Fresh(c)
  PROVE  OrderInv'
<1>2. \A h \in Clients : /\ Taken(h)' = Taken(h) /\ (Queued(h) => Queued(h)')
                         /\ (shub[h].pc = "none" => Len(shub[h].queue) = 0)'
  BY QueueKept, HubAssumption DEF OrderInv
<1>3. QueueInv'
  <2>1. \A s \in Sessions : sessions'[s] # None =>
          SessionOf[sessions'[s]] = s /\ shub'[sessions'[s]].pc # "none"
    <3>1. \A s \in Sessions : sessions[s] # None => sessions[s] \in Clients
      BY DEF HubInv, TypeInv, TypeOK
    <3> QED
      BY <3>1 DEF OrderInv, QueueInv, NewHub, SameQueue
  <2>2. ASSUME NEW h \in Clients, sessions'[SessionOf[h]] = h PROVE Queued(h)'
    <3>1. SessionOf[h] \in Sessions
      BY HubAssumption
    <3>2. CASE sessions'[SessionOf[h]] \in {None, sessions[SessionOf[h]]}
      BY <1>2, <2>2, <3>2, HubAssumption DEF OrderInv, QueueInv
    <3>3. CASE NewHub(SessionOf[h])'
      BY <2>2, <3>3 DEF NewHub, Queued
    <3> QED
      BY <3>1, <3>2, <3>3
  <2> QED
    BY <1>2, <2>1, <2>2 DEF QueueInv
<1>4. FreshInv'
  BY DEF OrderInv, FreshInv
<1>5. \A h, c \in Clients : c \in shub'[h].clients => Given(h, c)' = Given(h, c)
  BY <1>2 DEF Given
<1>6. ASSUME NEW c \in Clients, conn'[c] = "open" PROVE HasNumbering(c)'
  <2>1. HasNumbering(c)
    BY <1>6 DEF OrderInv, ChannelInv
  <2> QED
    BY <1>5, <2>1, NumberingKept
<1>7. ChannelInv' /\ NoGap'
  BY <1>6 DEF ChannelInv, OrderInv, NoGap
<1> QED
  BY <1>3, <1>4, <1>7 DEF OrderInv

LEMMA SameShubs ==
  ASSUME UNCHANGED shub
  PROVE  /\ \A h \in Clients : SameQueue(h) /\ shub'[h].clients \subseteq shub[h].clients
         /\ \A h, c \in Clients : Due(h, c)' = Due(h, c)
BY DEF SameQueue, Due

LEMMA HandoverOrder ==
  ASSUME HubInv, OrderInv,
         \/ \E c \in Clients : TakeRegister(c) \/ TakeUnregister(c)
         \/ RegisterClient \/ HandRegister
         \/ UnregisterClient \/ HandUnregister \/ CheckEmpty \/ CloseSend
  PROVE  OrderInv'
<1> USE HubAssumption
<1>b. /\ shub \in [Clients -> Shub] /\ sessions \in [Sessions -> Clients \cup {None}]
      /\ reader \in [Clients -> {"none", "registering", "reading", "replying",
                                 "unregistering", "panicking", "done"}]
      /\ conn \in [Clients -> {"none", "open", "gone", "closed"}]
      /\ hub \in [pc : HubPC, client : Clients \cup {None}, msg : Message \cup {None}]
  BY DEF HubInv, TypeInv, TypeOK
<1>1. UNCHANGED <<publisher, published, send, received>>
  BY DEF TakeRegister, TakeUnregister, RegisterClient, HandRegister, UnregisterClient,
     HandUnregister, CheckEmpty, CloseSend, clientVars, sources
<1> DEFINE Quiet ==
      /\ hub.pc # "broadcast" /\ hub'.pc # "broadcast"
      /\ \A h \in Clients : SameQueue(h) /\ shub'[h].clients \subseteq shub[h].clients
      /\ \A h, c \in Clients : c \in shub'[h].clients => Due(h, c)' = Due(h, c)
      /\ \A s \in Sessions : sessions'[s] \in {None, sessions[s]} \/ NewHub(s)'
      /\ \A c \in Clients : conn'[c] = "open" => conn[c] = "open"
      /\ \A c \in Clients : Fresh(c)' => Fresh(c)
<1> SUFFICES Quiet
  BY <1>1, SentKept, QuietOrder DEF OrderInv
<1>2. ASSUME NEW c \in Clients, TakeRegister(c) PROVE Quiet
  <2>1. /\ UNCHANGED <<sessions, shub, conn>> /\ reader' = [reader EXCEPT ![c] = "reading"]
        /\ hub'.pc = "register" /\ hub'.client = c
        /\ hub.pc = "select" /\ reader[c] = "registering"
    BY <1>2, <1>b DEF TakeRegister
  <2> QED
    BY <1>b, <2>1 DEF SameQueue, Due, Fresh, Joining
<1>3. ASSUME NEW c \in Clients, TakeUnregister(c) PROVE Quiet
  <2>1. /\ UNCHANGED <<sessions, shub>> /\ reader' = [reader EXCEPT ![c] = "done"]
        /\ conn' = [conn EXCEPT ![c] = "closed"]
        /\ hub'.pc = "unregister" /\ hub.pc = "select"
    BY <1>3, <1>b DEF TakeUnregister
  <2> QED
    BY <1>b, <2>1 DEF SameQueue, Due, Fresh, Joining
<1>4. CASE RegisterClient
  <2>1. PICK c \in Clients, s \in Sessions : c = hub.client /\ s = SessionOf[c]
    BY <1>4 DEF RegisterClient, HubInv, TypeInv, HandsFull
  <2>2. /\ hub'.pc = "handRegister" /\ hub'.client = c /\ UNCHANGED <<reader, conn>>
        /\ hub.pc = "register"
    BY <1>4, <1>b, <2>1 DEF RegisterClient, HubAt, clientVars
  <2>3. CASE sessions[s] = None
    <3>1. sessions' = [sessions EXCEPT ![s] = c] /\ shub' = [shub EXCEPT ![c].pc = "select"]
      BY <1>4, <2>1, <2>3 DEF RegisterClient
    <3>2. /\ shub'[c].pc = "select" /\ shub'[c].clients = shub[c].clients
          /\ shub'[c].todo = shub[c].todo /\ shub'[c].queue = shub[c].queue
          /\ \A g \in Clients : g # c => shub'[g] = shub[g]
      BY <1>b, <3>1 DEF Shub
    <3>3. shub[c].pc = "none"
      BY <2>1, <2>2 DEF HubInv, BornInv
    <3>4. NewHub(s)'
      BY <1>b, <2>1, <3>1, <3>2, <3>3 DEF NewHub, OrderInv, QueueInv
    <3>5. \A r \in Sessions : sessions'[r] \in {None, sessions[r]} \/ NewHub(r)'
      <4>1. \A r \in Sessions : r # s => sessions'[r] = sessions[r]
        BY <3>1
      <4> QED
        BY <3>4, <4>1
    <3>6. \A h, d \in Clients : Due(h, d)' = Due(h, d)
      BY <3>2, <3>3 DEF Due
    <3>7. \A d \in Clients : Fresh(d)' => Fresh(d)
      BY <2>1, <2>2, <3>2 DEF Fresh, Joining
    <3>8. \A h \in Clients : SameQueue(h) /\ shub'[h].clients \subseteq shub[h].clients
      BY <3>2, <3>3 DEF SameQueue
    <3> QED
      BY <2>2, <3>5, <3>6, <3>7, <3>8
  <2>4. CASE sessions[s] # None
    <3>1. UNCHANGED <<sessions, shub>>
      BY <1>4, <2>1, <2>4 DEF RegisterClient
    <3> QED
      BY <2>1, <2>2, <3>1, SameShubs DEF Fresh, Joining
  <2> QED
    BY <2>3, <2>4
<1>5. CASE HandRegister \/ HandUnregister
  <2>1. PICK h, c \in Clients : h = SessionHubOf(hub.client) /\ c = hub.client
    BY <1>5 DEF HandRegister, HandUnregister, HubInv, TypeInv, HandsFull
  <2>2. PICK pc \in {"add", "remove"} :
          /\ shub' = [shub EXCEPT ![h].pc = pc, ![h].client = c]
          /\ pc = "add" => hub.pc = "handRegister"
    BY <1>5, <2>1 DEF HandRegister, HandUnregister
  <2>3. /\ shub[h].pc = "select" /\ UNCHANGED <<sessions, reader, conn>>
        /\ hub.pc \in {"handRegister", "handUnregister"}
        /\ hub'.pc \in {"select", "checkEmpty"}
    BY <1>5, <1>b, <2>1 DEF HandRegister, HandUnregister, HubSelect, HubAt, clientVars
  <2>4. /\ shub'[h].pc = pc /\ shub'[h].client = c /\ shub'[h].queue = shub[h].queue
        /\ shub'[h].clients = shub[h].clients /\ shub'[h].todo = shub[h].todo
        /\ \A g \in Clients : g # h => shub'[g] = shub[g]
    BY <1>b, <2>2 DEF Shub
  <2>5. \A g, d \in Clients : Due(g, d)' = Due(g, d)
    BY <2>3, <2>4 DEF Due
  <2>6. \A d \in Clients : Fresh(d)' => Fresh(d)
    BY <2>1, <2>2, <2>3, <2>4 DEF Fresh, Joining
  <2> QED
    <3>1. \A g \in Clients : SameQueue(g) /\ shub'[g].clients \subseteq shub[g].clients
      BY <2>3, <2>4 DEF SameQueue
    <3> QED
      BY <2>3, <2>5, <2>6, <3>1
<1>6. CASE UnregisterClient \/ CheckEmpty \/ CloseSend
  <2>1. /\ UNCHANGED <<shub, conn, reader>> /\ hub'.pc \notin {"broadcast", "register", "handRegister"}
        /\ hub.pc # "broadcast"
        /\ \A s \in Sessions : sessions'[s] \in {None, sessions[s]}
    BY <1>6, <1>b DEF UnregisterClient, CheckEmpty, CloseSend, HubAt, HubSelect, clientVars
  <2> QED
    <3>1. \A c \in Clients : Fresh(c)' => Fresh(c)
      BY <2>1 DEF Fresh, Joining
    <3> QED
      BY <2>1, <3>1, SameShubs
<1> HIDE DEF Quiet
<1> QED
  BY <1>2, <1>3, <1>4, <1>5, <1>6

-----------------------------------------------------------------------------
(* The messages move *)

LEMMA UpstreamOrder ==
  ASSUME HubInv, OrderInv, (\E s \in Sessions : BroadcastToSession(s)) \/ TakeBroadcast
  PROVE  OrderInv'
<1>b. /\ hub \in [pc : HubPC, client : Clients \cup {None}, msg : Message \cup {None}]
      /\ publisher \in Message \cup {None} /\ published \in [Sessions -> 0..MaxBroadcasts]
  BY DEF HubInv, TypeInv, TypeOK
<1>1. UNCHANGED <<sessions, shub, conn, reader, send, received>>
  BY DEF BroadcastToSession, TakeBroadcast, hubVars, clientVars
<1>2. SourceInv' /\ \A s \in Sessions : Sent(s)' = Sent(s)
  <2>1. ASSUME NEW s \in Sessions, BroadcastToSession(s)
        PROVE  SourceInv' /\ \A r \in Sessions : Sent(r)' = Sent(r)
    <3> DEFINE m == [session |-> s, number |-> published[s] + 1]
    <3>1. /\ publisher = None /\ published[s] \in Nat /\ published[s] + 1 \in Numbers
          /\ published' = [published EXCEPT ![s] = @ + 1]
          /\ publisher' = [session |-> s, number |-> published'[s]]
          /\ hub' = hub
      BY <1>b, <2>1, HubAssumption DEF BroadcastToSession, Numbers, hubVars
    <3>2. publisher' = m
      BY <1>b, <3>1
    <3>3. m \in Message /\ m.session = s /\ m.number = published[s] + 1
      BY <3>1 DEF Message
    <3> HIDE DEF m
    <3>4. /\ publisher'.session = s /\ publisher' # None
          /\ publisher'.number = published[s] + 1
      BY <3>2, <3>3, HubAssumption
    <3> QED
      BY <1>b, <3>1, <3>4, HubAssumption DEF Sent, SourceInv, OrderInv
  <2>2. CASE TakeBroadcast
    <3>1. /\ publisher # None /\ hub.pc = "select" /\ publisher' = None
          /\ hub'.pc = "broadcast" /\ hub'.msg = publisher /\ published' = published
          /\ publisher \in Message
      BY <1>b, <2>2 DEF TakeBroadcast
    <3>2. published[publisher.session] \in Nat
      BY <1>b, <3>1, HubAssumption DEF Message
    <3> QED
      BY <1>b, <3>1, <3>2, HubAssumption DEF Sent, SourceInv, OrderInv
  <2> QED
    BY <2>1, <2>2
<1>3. \A c \in Clients : Fresh(c)' => Fresh(c)
  <2>1. hub' = hub \/ hub'.pc = "broadcast"
    BY <1>b DEF BroadcastToSession, TakeBroadcast, hubVars
  <2> QED
    BY <1>1, <2>1 DEF Fresh, Joining
<1> QED
  BY <1>1, <1>2, <1>3, QuietOrder, SameShubs

\* A SessionHub with members is the one h.sessions names, and its queue is the
\* one that Hub.Run fills.
LEMMA MemberQueue ==
  ASSUME HubInv, QueueInv, NEW h \in Clients, NEW c \in Clients, c \in shub[h].clients
  PROVE  SessionOf[h] = SessionOf[c] /\ sessions[SessionOf[h]] = h /\ Queued(h)
<1>1. sessions[SessionOf[c]] = h
  BY DEF HubInv, MemberInv, Members
<1>2. h # None /\ SessionOf[c] \in Sessions
  BY HubAssumption
<1> QED
  BY <1>1, <1>2 DEF QueueInv

\* broadcastToSession moves the message into the queue of the session's hub.
LEMMA BroadcastOrder ==
  ASSUME HubInv, OrderInv, BroadcastToSessionHub
  PROVE  OrderInv'
<1>b. /\ hub \in [pc : HubPC, client : Clients \cup {None}, msg : Message \cup {None}]
      /\ publisher \in Message \cup {None} /\ published \in [Sessions -> 0..MaxBroadcasts]
      /\ shub \in [Clients -> Shub] /\ sessions \in [Sessions -> Clients \cup {None}]
  BY DEF HubInv, TypeInv, TypeOK
<1>1. /\ hub.pc = "broadcast" /\ hub'.pc = "select" /\ hub.msg \in Message
      /\ UNCHANGED <<sessions, conn, reader, send, received, publisher, published>>
  BY DEF BroadcastToSessionHub, HubSelect, clientVars, sources, HubInv, TypeInv, HandsFull
<1>2. PICK s \in Sessions, n \in Int : s = hub.msg.session /\ n = hub.msg.number
  BY <1>1, HubAssumption DEF Message, Numbers
<1>3. /\ n = Sent(s) + 1 /\ Sent(s)' = Sent(s) + 1
      /\ \A r \in Sessions : r # s => Sent(r)' = Sent(r)
  <2>1. n = Sent(s) + 1
    BY <1>1, <1>2 DEF OrderInv, SourceInv
  <2> QED
    BY <1>b, <1>1, <1>2, <2>1, HubAssumption DEF Sent
<1>4. \A h \in Clients : /\ shub'[h].pc = shub[h].pc /\ shub'[h].number = shub[h].number
                         /\ shub'[h].client = shub[h].client
                         /\ shub'[h].clients = shub[h].clients /\ shub'[h].todo = shub[h].todo
                         /\ IF h = sessions[s] THEN shub'[h].queue = Append(shub[h].queue, n)
                            ELSE shub'[h].queue = shub[h].queue
  <2>1. CASE sessions[s] = None
    <3>1. shub' = shub
      BY <1>2, <2>1 DEF BroadcastToSessionHub
    <3> QED
      BY <2>1, <3>1, HubAssumption
  <2>2. CASE sessions[s] # None
    <3>1. PICK g \in Clients : g = sessions[s]
      BY <1>b, <2>2
    <3>2. PICK q : q = Append(shub[g].queue, n)
      OBVIOUS
    <3>3. shub' = [shub EXCEPT ![g].queue = q]
      BY <1>2, <2>2, <3>1, <3>2 DEF BroadcastToSessionHub
    <3> QED
      BY <1>b, <3>1, <3>2, <3>3 DEF Shub
  <2> QED
    BY <2>1, <2>2
<1>5. ASSUME NEW h \in Clients, sessions[SessionOf[h]] = h, Queued(h)
      PROVE  Taken(h)' = Taken(h) /\ Queued(h)'
  <2>1. CASE h = sessions[s]
    <3>1. shub[h].queue \in Seq(Int)
      BY <1>b, HubAssumption DEF Shub, Numbers
    <3>2. SessionOf[h] = s
      BY <2>1, HubAssumption DEF OrderInv, QueueInv
    <3>3. Sent(s) \in Int
      BY SentInt DEF HubInv
    <3>4. PICK q \in Seq(Int) : q = shub[h].queue
      BY <3>1
    <3>5. shub'[h].queue = Append(q, n)
      BY <1>4, <2>1, <3>4
    <3>6. /\ Len(Append(q, n)) = Len(q) + 1 /\ Len(q) \in Nat
          /\ \A i \in 1..Len(q) : Append(q, n)[i] = q[i]
          /\ Append(q, n)[Len(q) + 1] = n
      OBVIOUS
    <3>7. Taken(h)' = Taken(h) /\ Taken(h) = Sent(s) - Len(q) /\ Taken(h) \in Int
      <4>1. Taken(h) = Sent(s) - Len(q)
        BY <3>2, <3>4 DEF Taken
      <4>2. Taken(h)' = Sent(s)' - Len(Append(q, n))
        BY <3>2, <3>5 DEF Taken
      <4>3. Sent(s)' - Len(Append(q, n)) = Sent(s) - Len(q)
        BY <1>3, <3>3, <3>6
      <4> QED
        BY <3>3, <3>6, <4>1, <4>2, <4>3
    <3>8. \A i \in 1..(Len(q) + 1) : Append(q, n)[i] = Taken(h) + i
      <4>1. \A i \in 1..Len(q) : q[i] = Taken(h) + i
        BY <1>5, <3>4 DEF Queued
      <4>2. n = Taken(h) + (Len(q) + 1)
        BY <1>3, <3>3, <3>6, <3>7
      <4>3. \A i \in 1..(Len(q) + 1) : i \in 1..Len(q) \/ i = Len(q) + 1
        BY <3>6
      <4> QED
        BY <3>6, <4>1, <4>2, <4>3
    <3> QED
      BY <1>4, <1>5, <3>5, <3>6, <3>7, <3>8 DEF Queued
  <2>2. CASE h # sessions[s]
    <3>1. SessionOf[h] # s /\ SessionOf[h] \in Sessions
      BY <1>5, <2>2, HubAssumption
    <3> QED
      BY <1>3, <1>4, <1>5, <2>2, <3>1 DEF Taken, Queued
  <2> QED
    BY <2>1, <2>2
<1>6. SourceInv'
  BY <1>1 DEF OrderInv, SourceInv
<1>7. QueueInv'
  <2>1. ASSUME NEW h \in Clients, shub'[h].pc = "none" PROVE Len(shub'[h].queue) = 0
    \* A SessionHub that h.sessions names is running.
    <3>1. h # sessions[s]
      BY <1>4, <2>1, HubAssumption DEF OrderInv, QueueInv
    <3> QED
      BY <1>4, <2>1, <3>1 DEF OrderInv, QueueInv
  <2>2. QueueInv'
    <3>1. \A r \in Sessions : sessions[r] # None => sessions[r] \in Clients
      BY <1>b
    <3> QED
      BY <1>1, <1>4, <1>5, <2>1, <3>1 DEF OrderInv, QueueInv
  <2> QED
    BY <2>2
<1>8. FreshInv'
  BY <1>1, <1>4 DEF OrderInv, FreshInv, Fresh, Joining
<1>9. ASSUME NEW c \in Clients, conn'[c] = "open" PROVE HasNumbering(c)'
  <2>1. \A h \in Clients : c \in shub'[h].clients =>
          c \in shub[h].clients /\ Given(h, c)' = Given(h, c)
    BY <1>4, <1>5, MemberQueue DEF OrderInv, Given, Due
  <2> QED
    BY <1>1, <1>9, <2>1, NumberingKept DEF OrderInv, ChannelInv
<1>10. ChannelInv' /\ NoGap'
  BY <1>1, <1>9 DEF ChannelInv, OrderInv, NoGap
<1> QED
  BY <1>6, <1>7, <1>8, <1>10 DEF OrderInv

\* A SessionHub removes a client, starts or ends a round.
LEMMA RoundOrder ==
  ASSUME HubInv, OrderInv, NEW h \in Clients, RemoveClient(h) \/ StartFanout(h) \/ EndFanout(h)
  PROVE  OrderInv'
<1>b. shub \in [Clients -> Shub]
  BY DEF HubInv, TypeInv, TypeOK
<1>1. UNCHANGED <<hub, sessions, conn, reader, send, received, publisher, published>>
  BY DEF RemoveClient, StartFanout, EndFanout, hubVars, clientVars, sources
<1>2. /\ shub'[h].queue = shub[h].queue /\ shub'[h].clients \subseteq shub[h].clients
      /\ \/ /\ shub[h].pc = "remove" /\ shub'[h].pc = "select" /\ shub'[h].todo = shub[h].todo
         \/ /\ shub[h].pc = "broadcast" /\ shub'[h].pc = "fanout"
            /\ shub'[h].number = shub[h].number /\ shub'[h].todo = shub'[h].clients
         \/ shub[h].pc = "fanout" /\ shub'[h].pc = "select" /\ shub'[h].todo = shub[h].todo
  BY <1>b DEF RemoveClient, StartFanout, EndFanout, NextRound, WithoutClient, Shub
<1>3. \A g \in Clients : g # h => shub'[g] = shub[g]
  BY <1>b DEF RemoveClient, StartFanout, EndFanout
<1>4. \A g \in Clients : SameQueue(g) /\ shub'[g].clients \subseteq shub[g].clients
  BY <1>2, <1>3 DEF SameQueue
<1>5. \A g, c \in Clients : c \in shub'[g].clients => Due(g, c)' = Due(g, c)
  BY <1>2, <1>3 DEF Due
<1>6. \A c \in Clients : Fresh(c)' => Fresh(c)
  BY <1>1, <1>2, <1>3 DEF Fresh, Joining
<1>7. SourceInv' /\ \A s \in Sessions : Sent(s)' = Sent(s)
  BY <1>1 DEF OrderInv, SourceInv, Sent
<1> QED
  BY <1>1, <1>4, <1>5, <1>6, <1>7, QuietOrder

\* The head of the queue follows what the members have been given.
LEMMA TakeMessageOrder ==
  ASSUME HubInv, OrderInv, NEW h \in Clients, TakeMessage(h)
  PROVE  OrderInv'
<1>b. shub \in [Clients -> Shub]
  BY DEF HubInv, TypeInv, TypeOK
<1>1. UNCHANGED <<hub, sessions, conn, reader, send, received, publisher, published>>
  BY DEF TakeMessage, hubVars, clientVars, sources
<1>2. PICK q \in Seq(Int) : q = shub[h].queue
  BY <1>b, HubAssumption DEF Shub, Numbers
<1>3. /\ shub[h].pc = "select" /\ shub'[h].pc = "broadcast" /\ q # <<>>
      /\ shub'[h].number = Head(q) /\ shub'[h].queue = Tail(q)
      /\ shub'[h].clients = shub[h].clients /\ shub'[h].todo = shub[h].todo
  BY <1>b, <1>2 DEF TakeMessage, Shub
<1>4. \A g \in Clients : g # h => shub'[g] = shub[g]
  BY <1>b DEF TakeMessage
<1>5. /\ Len(q) \in Nat /\ Len(q) > 0 /\ Len(Tail(q)) = Len(q) - 1 /\ Head(q) = q[1]
      /\ \A i \in 1..Len(Tail(q)) : Tail(q)[i] = q[i + 1] /\ i + 1 \in 1..Len(q)
  BY <1>3
<1>6. SourceInv' /\ \A s \in Sessions : Sent(s)' = Sent(s)
  BY <1>1 DEF OrderInv, SourceInv, Sent
<1>7. Taken(h)' = Taken(h) + 1 /\ Taken(h) \in Int
  <2>1. Sent(SessionOf[h])' = Sent(SessionOf[h]) /\ Sent(SessionOf[h]) \in Int
    BY <1>6, SentInt, HubAssumption DEF HubInv
  <2>2. Taken(h) = Sent(SessionOf[h]) - Len(q)
    BY <1>2 DEF Taken
  <2>3. Taken(h)' = Sent(SessionOf[h])' - Len(Tail(q))
    BY <1>3 DEF Taken
  <2> QED
    BY <1>5, <2>1, <2>2, <2>3
<1>8. Queued(h) => Queued(h)'
  <2> SUFFICES ASSUME Queued(h) PROVE Queued(h)'
    OBVIOUS
  <2>1. \A i \in 1..Len(q) : q[i] = Taken(h) + i
    BY <1>2 DEF Queued
  <2>2. \A i \in 1..Len(Tail(q)) : Tail(q)[i] = Taken(h)' + i
    BY <1>5, <1>7, <2>1
  <2>3. Head(q) = Taken(h)'
    BY <1>5, <1>7, <2>1
  <2> QED
    BY <1>3, <2>2, <2>3 DEF Queued
<1>9. \A g \in Clients : g # h => Taken(g)' = Taken(g) /\ (Queued(g) => Queued(g)')
  <2>1. \A g \in Clients : g # h => Taken(g)' = Taken(g)
    BY <1>4, <1>6, HubAssumption DEF Taken
  <2> QED
    BY <1>4, <2>1 DEF Queued
<1>10. QueueInv'
  <2>1. \A s \in Sessions : sessions[s] # None => sessions[s] \in Clients
    BY DEF HubInv, TypeInv, TypeOK
  <2>2. \A s \in Sessions : sessions'[s] # None =>
          SessionOf[sessions'[s]] = s /\ shub'[sessions'[s]].pc # "none"
    BY <1>1, <1>3, <1>4, <2>1 DEF OrderInv, QueueInv
  <2>3. \A g \in Clients : shub'[g].pc = "none" => Len(shub'[g].queue) = 0
    BY <1>3, <1>4 DEF OrderInv, QueueInv
  <2>4. \A g \in Clients : sessions'[SessionOf[g]] = g => Queued(g)'
    BY <1>1, <1>8, <1>9 DEF OrderInv, QueueInv
  <2> QED
    BY <2>2, <2>3, <2>4 DEF QueueInv
<1>11. FreshInv'
  BY <1>1, <1>3, <1>4 DEF OrderInv, FreshInv, Fresh, Joining
<1>12. ASSUME NEW c \in Clients, conn'[c] = "open" PROVE HasNumbering(c)'
  <2>1. ASSUME NEW g \in Clients, c \in shub'[g].clients
        PROVE  c \in shub[g].clients /\ Given(g, c)' = Given(g, c)
    <3>1. CASE g = h
      <4>1. Due(h, c)' /\ ~Due(h, c)
        BY <1>3 DEF Due, HubInv, FanoutInv
      <4> QED
        BY <1>3, <1>7, <2>1, <3>1, <4>1 DEF Given
    <3>2. CASE g # h
      BY <1>4, <1>9, <2>1, <3>2 DEF Given, Due
    <3> QED
      BY <3>1, <3>2
  <2> QED
    BY <1>1, <1>12, <2>1, NumberingKept DEF OrderInv, ChannelInv
<1>13. ChannelInv' /\ NoGap'
  BY <1>1, <1>12 DEF ChannelInv, OrderInv, NoGap
<1> QED
  BY <1>6, <1>10, <1>11, <1>13 DEF OrderInv

\* One more message in the channel of c: the next broadcast, or a reply.
LEMMA NumberingAppend ==
  ASSUME TypeInv, NEW c \in Clients, NEW g \in [Nat -> Int], Numbering(c, g),
         NEW m, NEW n \in Int, send'[c] = Append(send[c], m), received'[c] = received[c],
         \/ m = Reply /\ n = g[Len(send[c])]
         \/ m = n /\ n = g[Len(send[c])] + 1,
         \A h \in Clients : c \in shub'[h].clients => n = Given(h, c)'
  PROVE  HasNumbering(c)'
<1>1. PICK q : q = send[c]
  OBVIOUS
<1>2. q \in Seq(Numbers \cup {Reply}) /\ Len(q) \in Nat
  BY <1>1 DEF TypeInv, TypeOK
<1>3. PICK S : q \in Seq(S) /\ m \in S
  <2>1. q \in Seq(Numbers \cup {Reply, m})
    BY <1>2
  <2> QED
    BY <2>1
<1>4. /\ Len(Append(q, m)) = Len(q) + 1
      /\ \A i \in 1..Len(q) : Append(q, m)[i] = q[i]
      /\ Append(q, m)[Len(q) + 1] = m
  BY <1>3
<1>5. PICK k \in Nat : k = Len(q) + 1
  BY <1>2
<1>6. PICK f \in [Nat -> Int] : f[k] = n /\ \A i \in Nat : i # k => f[i] = g[i]
  <2>1. [g EXCEPT ![k] = n] \in [Nat -> Int]
    OBVIOUS
  <2> QED
    BY <2>1
<1>7. Numbering(c, f)'
  <2>1. (Len(received[c]) > 0 => received[c][Len(received[c])] = f[0])'
    <3>1. f[0] = g[0]
      BY <1>2, <1>5, <1>6
    <3>2. Len(received[c]) > 0 => received[c][Len(received[c])] = g[0]
      BY DEF Numbering
    <3> QED
      BY <3>1, <3>2
  <2>2. ASSUME NEW i \in 1..Len(send'[c])
        PROVE  \/ send'[c][i] = Reply /\ f[i] = f[i - 1]
               \/ send'[c][i] = f[i] /\ f[i] = f[i - 1] + 1
    <3>1. CASE i = k
      <4>1. f[i] = n /\ f[i - 1] = g[Len(q)] /\ send'[c][i] = m
        BY <1>1, <1>2, <1>4, <1>5, <1>6, <3>1
      <4> QED
        BY <1>1, <4>1
    <3>2. CASE i # k
      <4>1. i \in 1..Len(q)
        BY <1>1, <1>2, <1>4, <1>5, <2>2, <3>2
      <4>2. f[i] = g[i] /\ f[i - 1] = g[i - 1]
        <5>1. i \in Nat /\ i # k /\ i - 1 \in Nat /\ i - 1 # k
          BY <1>2, <1>5, <3>2, <4>1
        <5> QED
          BY <1>6, <5>1
      <4>3. send'[c][i] = send[c][i]
        BY <1>1, <1>4, <4>1
      <4>4. \/ send[c][i] = Reply /\ g[i] = g[i - 1]
            \/ send[c][i] = g[i] /\ g[i] = g[i - 1] + 1
        BY <1>1, <4>1 DEF Numbering
      <4> QED
        BY <4>2, <4>3, <4>4
    <3> QED
      BY <3>1, <3>2
  <2>3. \A h \in Clients : c \in shub'[h].clients => f[Len(send'[c])] = Given(h, c)'
    BY <1>1, <1>4, <1>5, <1>6
  <2> QED
    BY <2>1, <2>2, <2>3 DEF Numbering
<1> QED
  BY <1>6, <1>7 DEF HasNumbering

\* A client that has been sent replies at most can be counted from any number.
LEMMA NumberingFresh ==
  ASSUME NEW c \in Clients, NEW n \in Int,
         Len(received'[c]) = 0, \A i \in 1..Len(send'[c]) : send'[c][i] = Reply,
         Len(send'[c]) \in Nat,
         \A h \in Clients : c \in shub'[h].clients => n = Given(h, c)'
  PROVE  HasNumbering(c)'
<1> DEFINE g == [i \in Nat |-> n]
<1>1. g \in [Nat -> Int] /\ \A i \in Nat : g[i] = n
  OBVIOUS
<1> HIDE DEF g
<1>2. \A i \in 1..Len(send'[c]) : i \in Nat /\ i - 1 \in Nat
  OBVIOUS
<1>3. Numbering(c, g)'
  BY <1>1, <1>2 DEF Numbering
<1> QED
  BY <1>1, <1>3 DEF HasNumbering

\* A new member starts after the last broadcast its SessionHub has taken.
LEMMA AddClientOrder ==
  ASSUME HubInv, OrderInv, NEW h \in Clients, AddClient(h)
  PROVE  OrderInv'
<1>b. shub \in [Clients -> Shub] /\ send \in [Clients -> Seq(Numbers \cup {Reply})]
  BY DEF HubInv, TypeInv, TypeOK
<1>1. UNCHANGED <<hub, sessions, conn, reader, send, received, publisher, published>>
  BY DEF AddClient, hubVars, clientVars, sources
<1>2. PICK c \in Clients : c = shub[h].client
  BY DEF AddClient, HubInv, TypeInv, HandsFull
<1>3. /\ shub[h].pc = "add" /\ shub'[h].pc = "select" /\ shub'[h].queue = shub[h].queue
      /\ shub'[h].clients = shub[h].clients \cup {c} /\ shub'[h].todo = shub[h].todo
  BY <1>b, <1>2 DEF AddClient, Shub
<1>4. \A g \in Clients : g # h => shub'[g] = shub[g]
  BY <1>b DEF AddClient
<1>5. SourceInv' /\ \A s \in Sessions : Sent(s)' = Sent(s)
  BY <1>1 DEF OrderInv, SourceInv, Sent
<1>6. \A g \in Clients : SameQueue(g)
  BY <1>3, <1>4 DEF SameQueue
<1>7. \A g \in Clients : /\ Taken(g)' = Taken(g) /\ (Queued(g) => Queued(g)')
                         /\ (shub[g].pc = "none" => Len(shub[g].queue) = 0)'
  BY <1>5, <1>6, QueueKept, HubAssumption DEF OrderInv
<1>8. QueueInv'
  <2>1. \A s \in Sessions : sessions[s] # None => sessions[s] \in Clients
    BY DEF HubInv, TypeInv, TypeOK
  <2> QED
    BY <1>1, <1>6, <1>7, <2>1 DEF OrderInv, QueueInv, SameQueue
<1>9. FreshInv'
  BY <1>1, <1>3, <1>4 DEF OrderInv, FreshInv, Fresh, Joining
<1>10. ASSUME NEW d \in Clients, conn'[d] = "open" PROVE HasNumbering(d)'
  <2>1. CASE d = c
    \* A client has one SessionHub.
    <3>1. \A g \in Clients : c \in shub'[g].clients => g = h
      <4>1. c \in Members(h)
        BY <1>2, <1>3 DEF Members
      <4>2. \A g \in Clients : g # h /\ c \in shub'[g].clients => c \in Members(g)
        BY <1>4 DEF Members
      <4> QED
        BY <4>1, <4>2 DEF HubInv, MemberInv
    <3>2. Given(h, c)' = Taken(h)' /\ Taken(h)' \in Int
      <4>1. ~Due(h, c)'
        BY <1>3 DEF Due, HubInv, FanoutInv
      <4> QED
        BY <1>7, <4>1, SentInt DEF Given, HubInv
    <3>3. Fresh(c)
      BY <1>2, <1>3 DEF Fresh
    <3>4. /\ Len(received'[c]) = 0 /\ \A i \in 1..Len(send'[c]) : send'[c][i] = Reply
          /\ Len(send'[c]) \in Nat
      BY <1>b, <1>1, <3>3 DEF OrderInv, FreshInv
    <3> QED
      BY <2>1, <3>1, <3>2, <3>4, NumberingFresh
  <2>2. CASE d # c
    <3>1. \A g \in Clients : d \in shub'[g].clients =>
            d \in shub[g].clients /\ Given(g, d)' = Given(g, d)
      BY <1>3, <1>4, <1>7, <2>2 DEF Given, Due
    <3> QED
      BY <1>1, <1>10, <3>1, NumberingKept DEF OrderInv, ChannelInv
  <2> QED
    BY <2>1, <2>2
<1>11. ChannelInv' /\ NoGap'
  BY <1>1, <1>10 DEF ChannelInv, OrderInv, NoGap
<1> QED
  BY <1>5, <1>8, <1>9, <1>11 DEF OrderInv

\* broadcastMessage offers a member the message it has not been given yet; a
\* member it drops instead is given nothing any more.
LEMMA OfferOrder ==
  ASSUME HubInv, OrderInv, NEW h \in Clients, NEW c \in Clients, Offer(h, c)
  PROVE  OrderInv'
<1>b. shub \in [Clients -> Shub] /\ send \in [Clients -> Seq(Numbers \cup {Reply})]
  BY DEF HubInv, TypeInv, TypeOK
<1>1. UNCHANGED <<hub, sessions, conn, reader, received, publisher, published>>
  BY DEF Offer, hubVars, sources
<1>2. c \in shub[h].todo /\ c \in shub[h].clients /\ shub[h].pc = "fanout"
  BY DEF Offer, HubInv, FanoutInv
<1>3. /\ shub'[h].pc = "fanout" /\ shub'[h].queue = shub[h].queue
      /\ shub'[h].number = shub[h].number /\ shub'[h].todo = shub[h].todo \ {c}
      /\ shub'[h].clients = IF Full(c) THEN shub[h].clients \ {c} ELSE shub[h].clients
  BY <1>b, <1>2 DEF Offer, Shub
<1>4. \A g \in Clients : g # h => shub'[g] = shub[g]
  BY <1>b DEF Offer
<1>5. c \in Members(h)
  BY <1>2 DEF Members
<1>6. ~closed[c] /\ \A g \in Clients : c \in Members(g) => g = h
  BY <1>2, <1>5 DEF HubInv, MemberInv, Removing
<1>7. IF Full(c) THEN send' = send ELSE send' = [send EXCEPT ![c] = Append(@, shub[h].number)]
  BY <1>6 DEF Offer
<1>8. SourceInv' /\ \A s \in Sessions : Sent(s)' = Sent(s)
  BY <1>1 DEF OrderInv, SourceInv, Sent
<1>9. \A g \in Clients : SameQueue(g)
  BY <1>2, <1>3, <1>4 DEF SameQueue
<1>10. \A g \in Clients : /\ Taken(g)' = Taken(g) /\ (Queued(g) => Queued(g)')
                          /\ (shub[g].pc = "none" => Len(shub[g].queue) = 0)'
  BY <1>8, <1>9, QueueKept, HubAssumption DEF OrderInv
<1>11. QueueInv'
  <2>1. \A s \in Sessions : sessions[s] # None => sessions[s] \in Clients
    BY DEF HubInv, TypeInv, TypeOK
  <2> QED
    BY <1>1, <1>9, <1>10, <2>1 DEF OrderInv, QueueInv, SameQueue
<1>12. FreshInv'
  \* A member of a SessionHub in a round is on no way into one.
  <2>1. ~Fresh(c)
    <3>1. \A g \in Clients : ~(shub[g].pc = "add" /\ shub[g].client = c)
      BY <1>2, <1>6 DEF Members
    <3> QED
      BY <1>5, <3>1 DEF Fresh, HubInv, MemberInv
  <2>2. \A d \in Clients : Fresh(d)' => Fresh(d)
    BY <1>1, <1>3, <1>4 DEF Fresh, Joining
  <2>3. \A d \in Clients : d # c => send'[d] = send[d]
    BY <1>b, <1>7
  <2> QED
    BY <1>1, <2>1, <2>2, <2>3 DEF OrderInv, FreshInv
<1>13. ASSUME NEW d \in Clients, conn'[d] = "open" PROVE HasNumbering(d)'
  <2>1. HasNumbering(d)
    BY <1>1, <1>13 DEF OrderInv, ChannelInv
  <2>2. CASE d = c /\ ~Full(c)
    <3>1. PICK g \in [Nat -> Int] : Numbering(c, g)
      BY <2>1, <2>2 DEF HasNumbering
    <3>2. PICK n \in Int : n = Taken(h)
      BY SentInt DEF HubInv
    <3>3. shub[h].number = n /\ send'[c] = Append(send[c], n)
      BY <1>b, <1>2, <1>7, <2>2, <3>2, MemberQueue DEF OrderInv, Queued
    <3>4. n = g[Len(send[c])] + 1
      <4>1. g[Len(send[c])] = n - 1
        BY <1>2, <3>1, <3>2 DEF Numbering, Given, Due
      <4> QED
        BY <3>2, <4>1
    <3>5. \A k \in Clients : c \in shub'[k].clients => n = Given(k, c)'
      <4>1. \A k \in Clients : c \in shub'[k].clients => k = h
        BY <1>4, <1>6 DEF Members
      <4>2. ~Due(h, c)'
        BY <1>3 DEF Due
      <4> QED
        BY <1>10, <3>2, <4>1, <4>2 DEF Given
    <3> QED
      BY <1>1, <2>2, <3>1, <3>2, <3>3, <3>4, <3>5, NumberingAppend DEF HubInv
  <2>3. CASE d # c \/ Full(c)
    <3>1. send'[d] = send[d]
      BY <1>b, <1>7, <2>3
    <3>2. \A g \in Clients : d \in shub'[g].clients =>
            d \in shub[g].clients /\ Given(g, d)' = Given(g, d)
      <4>1. \A g \in Clients : g # h => Given(g, d)' = Given(g, d)
        BY <1>4, <1>10 DEF Given, Due
      <4>2. d \in shub'[h].clients => d # c /\ d \in shub[h].clients
        BY <1>3, <2>3
      <4>3. d # c => Given(h, d)' = Given(h, d)
        BY <1>2, <1>3, <1>10 DEF Given, Due
      <4> QED
        BY <1>4, <4>1, <4>2, <4>3
    <3> QED
      BY <1>1, <2>1, <3>1, <3>2, NumberingKept
  <2> QED
    BY <2>2, <2>3
<1>14. ChannelInv' /\ NoGap'
  BY <1>1, <1>13 DEF ChannelInv, OrderInv, NoGap
<1> QED
  BY <1>8, <1>11, <1>12, <1>14 DEF OrderInv

\* A step of one client, other than those of Hub.Run and the SessionHubs: only
\* its own channel and connection are in question.
LEMMA ClientStepOrder ==
  ASSUME HubInv, OrderInv, NEW c \in Clients,
         UNCHANGED <<hub, sessions, shub, publisher, published>>,
         \A d \in Clients : Fresh(d)' => Fresh(d),
         \A d \in Clients : d # c => /\ send'[d] = send[d] /\ received'[d] = received[d]
                                     /\ conn'[d] = conn[d],
         Fresh(c) => /\ Len(received'[c]) = 0
                     /\ \A i \in 1..Len(send'[c]) : send'[c][i] = Reply,
         conn'[c] = "open" => HasNumbering(c)',
         \A i \in 1..(Len(received'[c]) - 1) : received'[c][i + 1] = received'[c][i] + 1
  PROVE  OrderInv'
<1>1. \A s : Sent(s)' = Sent(s)
  BY DEF Sent
<1>2. SourceInv'
  BY <1>1 DEF OrderInv, SourceInv
<1>3. \A h \in Clients : Taken(h)' = Taken(h)
  BY <1>1 DEF Taken
<1>4. QueueInv'
  BY <1>3 DEF OrderInv, QueueInv, Queued
<1>5. FreshInv'
  <2>1. \A d \in Clients : d # c /\ Fresh(d)' =>
          Len(received'[d]) = 0 /\ \A i \in 1..Len(send'[d]) : send'[d][i] = Reply
    BY DEF OrderInv, FreshInv
  <2> QED
    BY <2>1 DEF FreshInv
<1>6. ASSUME NEW d \in Clients, d # c, conn'[d] = "open" PROVE HasNumbering(d)'
  <2>1. HasNumbering(d)
    BY <1>6 DEF OrderInv, ChannelInv
  <2>2. \A h \in Clients : d \in shub'[h].clients =>
          d \in shub[h].clients /\ Given(h, d)' = Given(h, d)
    BY <1>3 DEF Given, Due
  <2> QED
    BY <1>6, <2>1, <2>2, NumberingKept
<1>7. ChannelInv'
  BY <1>6 DEF ChannelInv
<1>8. NoGap'
  <2>1. \A d \in Clients : d # c => received'[d] = received[d]
    OBVIOUS
  <2> QED
    BY <2>1 DEF OrderInv, NoGap
<1> QED
  BY <1>2, <1>4, <1>5, <1>7, <1>8 DEF OrderInv

\* The first message of the channel is written: what was counted before it is
\* the last broadcast received now.
LEMMA NumberingTail ==
  ASSUME TypeInv, NEW c \in Clients, UNCHANGED <<hub, shub, publisher, published>>,
         NEW g \in [Nat -> Int], Numbering(c, g), send[c] # <<>>, send'[c] = Tail(send[c]),
         received'[c] = IF Head(send[c]) # Reply THEN Append(received[c], Head(send[c]))
                        ELSE received[c]
  PROVE  /\ HasNumbering(c)'
         /\ Head(send[c]) # Reply /\ Len(received[c]) > 0 =>
              Head(send[c]) = received[c][Len(received[c])] + 1
<1>1. PICK q \in Seq(Numbers \cup {Reply}), r \in Seq(Numbers) : q = send[c] /\ r = received[c]
  BY DEF TypeInv, TypeOK
<1>2. /\ Len(q) \in Nat /\ Len(q) > 0 /\ Len(Tail(q)) = Len(q) - 1 /\ Head(q) = q[1]
      /\ \A i \in 1..Len(Tail(q)) : Tail(q)[i] = q[i + 1]
      /\ Head(q) \in Numbers \cup {Reply}
  BY <1>1
<1>3. PICK f \in [Nat -> Int] : \A i \in Nat : f[i] = g[i + 1]
  <2>1. [i \in Nat |-> g[i + 1]] \in [Nat -> Int]
    OBVIOUS
  <2> QED
    BY <2>1
<1>4. \/ q[1] = Reply /\ g[1] = g[0]
      \/ q[1] = g[1] /\ g[1] = g[0] + 1
  <2>1. 1 \in 1..Len(send[c]) /\ 1 - 1 = 0
    BY <1>1, <1>2
  <2> QED
    BY <1>1, <2>1 DEF Numbering
<1>5. Len(r) > 0 => r[Len(r)] = g[0] /\ r[Len(r)] > 0
  <2>1. Len(r) > 0 => r[Len(r)] \in Numbers
    BY <1>1
  <2>2. \A n \in Numbers : n > 0
    BY HubAssumption DEF Numbers
  <2> QED
    BY <1>1, <2>1, <2>2 DEF Numbering
<1>6. f[0] = g[1]
  BY <1>3
<1>7. Numbering(c, f)'
  <2>1. Len(received'[c]) > 0 => received'[c][Len(received'[c])] = f[0]
    <3>1. CASE q[1] = Reply
      <4>1. received'[c] = r
        BY <1>1, <1>2, <3>1
      <4>2. Len(r) > 0 => g[1] = g[0]
        BY <1>4, <1>5, <3>1 DEF Reply
      <4> QED
        BY <1>5, <1>6, <4>1, <4>2
    <3>2. CASE q[1] # Reply
      <4>1. received'[c] = Append(r, q[1]) /\ q[1] \in Numbers
        BY <1>1, <1>2, <3>2
      <4>2. Len(Append(r, q[1])) = Len(r) + 1 /\ Append(r, q[1])[Len(r) + 1] = q[1]
        BY <4>1
      <4> QED
        BY <1>4, <1>6, <3>2, <4>1, <4>2
    <3> QED
      BY <3>1, <3>2
  <2>2. ASSUME NEW i \in 1..Len(Tail(q))
        PROVE  \/ Tail(q)[i] = Reply /\ f[i] = f[i - 1]
               \/ Tail(q)[i] = f[i] /\ f[i] = f[i - 1] + 1
    <3>1. i \in Nat /\ i - 1 \in Nat /\ i + 1 \in 1..Len(q) /\ (i + 1) - 1 = (i - 1) + 1
      BY <1>2, <2>2
    <3>2. f[i] = g[i + 1] /\ f[i - 1] = g[(i - 1) + 1]
      BY <1>3, <3>1
    <3>3. \/ q[i + 1] = Reply /\ g[i + 1] = g[(i + 1) - 1]
          \/ q[i + 1] = g[i + 1] /\ g[i + 1] = g[(i + 1) - 1] + 1
      BY <1>1, <3>1 DEF Numbering
    <3> QED
      BY <1>2, <2>2, <3>1, <3>2, <3>3
  <2>3. ASSUME NEW h \in Clients, c \in shub'[h].clients
        PROVE  f[Len(Tail(q))] = Given(h, c)'
    <3>1. g[Len(q)] = Given(h, c)
      BY <1>1, <2>3 DEF Numbering
    <3>2. Given(h, c)' = Given(h, c)
      BY DEF Given, Due, Taken, Sent
    <3>3. f[Len(Tail(q))] = g[Len(q)]
      <4>1. Len(Tail(q)) \in Nat /\ Len(Tail(q)) + 1 = Len(q)
        BY <1>2
      <4> QED
        BY <1>3, <4>1
    <3> QED
      BY <3>1, <3>2, <3>3
  <2>4. send'[c] = Tail(q)
    BY <1>1
  <2> QED
    BY <2>1, <2>2, <2>3, <2>4 DEF Numbering
<1>8. HasNumbering(c)'
  BY <1>7 DEF HasNumbering
<1>9. q[1] # Reply /\ Len(r) > 0 => q[1] = r[Len(r)] + 1
  BY <1>4, <1>5
<1> QED
  BY <1>1, <1>2, <1>8, <1>9

LEMMA ClientOrder ==
  ASSUME HubInv, OrderInv, NEW c \in Clients,
         ServeWebSocket(c) \/ PeerGone(c) \/ ReadPump(c) \/ WritePump(c)
  PROVE  OrderInv'
<1>b. /\ send \in [Clients -> Seq(Numbers \cup {Reply})] /\ received \in [Clients -> Seq(Numbers)]
      /\ conn \in [Clients -> {"none", "open", "gone", "closed"}]
      /\ reader \in [Clients -> {"none", "registering", "reading", "replying",
                                 "unregistering", "panicking", "done"}]
  BY DEF HubInv, TypeInv, TypeOK
<1>c. PICK q \in Seq(Numbers \cup {Reply}), r \in Seq(Numbers) : q = send[c] /\ r = received[c]
  BY <1>b
<1>d. /\ Fresh(c) => Len(r) = 0 /\ \A i \in 1..Len(q) : q[i] = Reply
      /\ \A i \in 1..(Len(r) - 1) : r[i + 1] = r[i] + 1
      /\ conn[c] = "open" => HasNumbering(c)
  BY <1>c DEF OrderInv, FreshInv, NoGap, ChannelInv
<1>e. Len(q) \in Nat /\ Len(r) \in Nat
  BY <1>c
<1>f. q # <<>> => /\ Len(Tail(q)) = Len(q) - 1 /\ Len(q) > 0 /\ Head(q) = q[1]
                  /\ \A i \in 1..Len(Tail(q)) : Tail(q)[i] = q[i + 1] /\ i + 1 \in 1..Len(q)
  BY <1>c
<1>1. UNCHANGED <<hub, sessions, shub, publisher, published>>
  BY DEF ServeWebSocket, PeerGone, ReadPump, ReadRequest, HandleMessage, ReadFails, WritePump,
     WriteMessage, WriteFails, SendClosed, WriterReturns, hubVars, sources
<1>2. \A d \in Clients : Fresh(d)' => Fresh(d)
  <2>1. \A d \in Clients : reader'[d] \in {"none", "registering"} =>
                             reader[d] \in {"none", "registering"}
    <3>1. CASE ServeWebSocket(c)
      <4>1. reader[c] = "none" /\ reader' = [reader EXCEPT ![c] = "registering"]
        BY <3>1 DEF ServeWebSocket, HubInv, ClosedInv
      <4> QED
        BY <1>b, <4>1
    <3>2. CASE ReadPump(c)
      <4>1. PICK x \in {"reading", "replying", "unregistering", "panicking"} :
              reader' = [reader EXCEPT ![c] = x]
        BY <3>2 DEF ReadPump, ReadRequest, HandleMessage, ReadFails
      <4> QED
        BY <1>b, <4>1
    <3>3. CASE PeerGone(c) \/ WritePump(c)
      BY <3>3 DEF PeerGone, WritePump, WriteMessage, WriteFails, SendClosed, WriterReturns
    <3> QED
      BY <3>1, <3>2, <3>3
  <2> QED
    BY <1>1, <2>1 DEF Fresh, Joining
<1>3. CASE ServeWebSocket(c)
  <2>1. /\ conn' = [conn EXCEPT ![c] = "open"] /\ UNCHANGED <<send, received>>
        /\ reader[c] = "none"
    BY <1>3 DEF ServeWebSocket, HubInv, ClosedInv
  <2>2. Fresh(c) /\ \A h \in Clients : c \notin shub[h].clients
    BY <2>1 DEF Fresh, HubInv, MemberInv, Members
  <2>3. HasNumbering(c)'
    <3>1. /\ Len(received'[c]) = 0 /\ \A i \in 1..Len(send'[c]) : send'[c][i] = Reply
          /\ Len(send'[c]) \in Nat /\ 0 \in Int
          /\ \A h \in Clients : c \notin shub'[h].clients
      BY <1>1, <1>c, <1>d, <1>e, <2>1, <2>2
    <3> QED
      BY <3>1, NumberingFresh
  <2>4. \A d \in Clients : d # c => conn'[d] = conn[d]
    BY <1>b, <2>1
  <2> QED
    BY <1>1, <1>2, <1>c, <1>d, <2>1, <2>3, <2>4, ClientStepOrder
<1>4. CASE PeerGone(c) \/ ReadRequest(c) \/ ReadFails(c) \/ SendClosed(c)
  <2>1. UNCHANGED <<send, received>>
    BY <1>4 DEF PeerGone, ReadRequest, ReadFails, SendClosed, WriterReturns
  <2>2. \A d \in Clients : conn'[d] = "open" => conn[d] = "open"
    BY <1>4, <1>b DEF PeerGone, ReadRequest, ReadFails, SendClosed, WriterReturns
  <2>3. SourceInv' /\ \A s \in Sessions : Sent(s)' = Sent(s)
    BY <1>1 DEF OrderInv, SourceInv, Sent
  <2> QED
    BY <1>1, <1>2, <2>1, <2>2, <2>3, QuietOrder, SameShubs
<1>5. CASE HandleMessage(c)
  \* A reply is put into the channel behind what is there.
  <2>1. UNCHANGED <<conn, received>>
    BY <1>5 DEF HandleMessage
  <2>2. CASE closed[c]
    <3>1. send' = send
      BY <1>5, <2>2 DEF HandleMessage
    <3>2. SourceInv' /\ \A s \in Sessions : Sent(s)' = Sent(s)
      BY <1>1 DEF OrderInv, SourceInv, Sent
    <3> QED
      BY <1>1, <1>2, <2>1, <3>1, <3>2, QuietOrder, SameShubs
  <2>3. CASE ~closed[c]
    <3>1. send'[c] = Append(q, Reply) /\ \A d \in Clients : d # c => send'[d] = send[d]
      BY <1>5, <1>b, <1>c, <2>3 DEF HandleMessage
    <3>2. Fresh(c) => \A i \in 1..Len(Append(q, Reply)) : Append(q, Reply)[i] = Reply
      BY <1>c, <1>d
    <3>3. conn'[c] = "open" => HasNumbering(c)'
      <4> SUFFICES ASSUME conn[c] = "open" PROVE HasNumbering(c)'
        BY <2>1
      <4>1. PICK g \in [Nat -> Int] : Numbering(c, g)
        BY <1>d DEF HasNumbering
      <4>2. PICK n \in Int : n = g[Len(send[c])]
        BY <1>c, <1>e
      <4>3. \A h \in Clients : c \in shub'[h].clients => n = Given(h, c)'
        <5>1. \A h \in Clients : Given(h, c)' = Given(h, c)
          BY <1>1 DEF Given, Due, Taken, Sent
        <5> QED
          BY <1>1, <4>1, <4>2, <5>1 DEF Numbering
      <4> QED
        BY <1>c, <2>1, <3>1, <4>1, <4>2, <4>3, NumberingAppend DEF HubInv
    <3> QED
      BY <1>1, <1>2, <1>c, <1>d, <2>1, <3>1, <3>2, <3>3, ClientStepOrder
  <2> QED
    BY <2>2, <2>3
<1>6. CASE WriteMessage(c)
  <2>1. /\ q # <<>> /\ send'[c] = Tail(q) /\ UNCHANGED conn
        /\ \A d \in Clients : d # c => send'[d] = send[d] /\ received'[d] = received[d]
    BY <1>6, <1>b, <1>c DEF WriteMessage
  <2>2. received'[c] = IF conn[c] = "open" /\ Head(q) # Reply THEN Append(r, Head(q)) ELSE r
    BY <1>6, <1>b, <1>c DEF WriteMessage
  <2>3. Fresh(c) => /\ Len(received'[c]) = 0
                    /\ \A i \in 1..Len(send'[c]) : send'[c][i] = Reply
    BY <1>d, <1>e, <1>f, <2>1, <2>2
  <2>4. CASE conn[c] = "open"
    <3>1. PICK g \in [Nat -> Int] : Numbering(c, g)
      BY <1>d, <2>4 DEF HasNumbering
    <3>2. /\ HasNumbering(c)'
          /\ Head(q) # Reply /\ Len(r) > 0 => Head(q) = r[Len(r)] + 1
      BY <1>1, <1>c, <2>1, <2>2, <2>4, <3>1, NumberingTail DEF HubInv
    <3>3. \A i \in 1..(Len(received'[c]) - 1) : received'[c][i + 1] = received'[c][i] + 1
      <4>1. CASE Head(q) = Reply
        BY <1>d, <2>2, <4>1
      <4>2. CASE Head(q) # Reply
        <5>1. PICK p \in Seq(Numbers) : p = Append(r, Head(q)) /\ received'[c] = p
          <6>1. Head(q) \in Numbers
            BY <1>c, <2>1, <4>2
          <6>2. Append(r, Head(q)) \in Seq(Numbers)
            BY <1>c, <6>1
          <6> QED
            BY <2>2, <2>4, <4>2, <6>2
        <5>2. /\ Len(p) = Len(r) + 1 /\ p[Len(r) + 1] = Head(q)
              /\ \A i \in 1..Len(r) : p[i] = r[i]
          BY <1>c, <5>1
        <5>3. ASSUME NEW i \in 1..(Len(p) - 1) PROVE p[i + 1] = p[i] + 1
          <6>1. CASE i = Len(r)
            BY <1>e, <3>2, <4>2, <5>2, <5>3, <6>1
          <6>2. CASE i # Len(r)
            <7>1. i \in 1..(Len(r) - 1) /\ i \in 1..Len(r) /\ i + 1 \in 1..Len(r)
              BY <1>e, <5>2, <5>3, <6>2
            <7> QED
              BY <1>d, <5>2, <7>1
          <6> QED
            BY <6>1, <6>2
        <5> QED
          BY <5>1, <5>3
      <4> QED
        BY <4>1, <4>2
    <3> QED
      BY <1>1, <1>2, <2>1, <2>3, <3>2, <3>3, ClientStepOrder
  <2>5. CASE conn[c] # "open"
    <3>1. received'[c] = r
      BY <2>2, <2>5
    <3> QED
      BY <1>1, <1>2, <1>d, <2>1, <2>3, <2>5, <3>1, ClientStepOrder
  <2> QED
    BY <2>4, <2>5
<1>7. CASE WriteFails(c)
  \* The connection is closed, and what is left in the channel is lost.
  <2>1. /\ \/ send'[c] = q
           \/ q # <<>> /\ send'[c] = Tail(q)
        /\ \A d \in Clients : d # c => send'[d] = send[d] /\ conn'[d] = conn[d]
        /\ conn'[c] = "closed" /\ UNCHANGED received
    <3>1. conn' = [conn EXCEPT ![c] = "closed"] /\ UNCHANGED received
      BY <1>7 DEF WriteFails, WriterReturns
    <3>2. \/ send' = send
          \/ send[c] # <<>> /\ send' = [send EXCEPT ![c] = Tail(@)]
      BY <1>7 DEF WriteFails
    <3>3. \A d \in Clients : d # c => send'[d] = send[d] /\ conn'[d] = conn[d]
      BY <1>b, <3>1, <3>2
    <3>4. conn'[c] = "closed"
      BY <1>b, <3>1
    <3>5. \/ send'[c] = send[c]
          \/ send[c] # <<>> /\ send'[c] = Tail(send[c])
      <4>1. CASE send' = send
        BY <4>1
      <4>2. CASE send[c] # <<>> /\ send' = [send EXCEPT ![c] = Tail(@)]
        <5>1. send'[c] = Tail(send[c])
          BY <1>b, <4>2
        <5> QED
          BY <4>2, <5>1
      <4> QED
        BY <3>2, <4>1, <4>2
    <3> QED
      BY <1>c, <3>1, <3>3, <3>4, <3>5
  <2>2. Fresh(c) => /\ Len(received'[c]) = 0
                    /\ \A i \in 1..Len(send'[c]) : send'[c][i] = Reply
    BY <1>c, <1>d, <1>e, <1>f, <2>1
  <2> QED
    BY <1>1, <1>2, <1>c, <1>d, <2>1, <2>2, ClientStepOrder
<1> QED
  BY <1>3, <1>4, <1>5, <1>6, <1>7 DEF ReadPump, WritePump

LEMMA OrderStep ==
  ASSUME HubInv, OrderInv, [Next]_vars
  PROVE  OrderInv'
<1>1. CASE UNCHANGED vars \/ \E p \in Pollers : GetSessionStats(p)
  <2>1. UNCHANGED <<hub, sessions, shub, conn, reader, send, received, publisher, published>>
    BY <1>1 DEF vars, hubVars, clientVars, sources, GetSessionStats, StatsLockHub,
       StatsLockSessionHub, StatsReturn
  <2>2. SourceInv' /\ \A s \in Sessions : Sent(s)' = Sent(s)
    BY <2>1 DEF OrderInv, SourceInv, Sent
  <2>3. \A c \in Clients : Fresh(c)' => Fresh(c)
    BY <2>1 DEF Fresh, Joining
  <2> QED
    BY <2>1, <2>2, <2>3, QuietOrder, SameShubs
<1>2. CASE HubRun
  BY <1>2, HandoverOrder, UpstreamOrder, BroadcastOrder DEF HubRun
<1>3. ASSUME NEW h \in Clients, ShubRun(h) PROVE OrderInv'
  BY <1>3, AddClientOrder, RoundOrder, TakeMessageOrder, OfferOrder DEF ShubRun
<1>4. CASE \E s \in Sessions : BroadcastToSession(s)
  BY <1>4, UpstreamOrder
<1> QED
  BY <1>1, <1>2, <1>3, <1>4, ClientOrder DEF Next

\* What a connection gets are consecutive broadcasts of its session, in order,
\* whatever joins, leaves, replies and slow clients come between.
THEOREM NoGapHolds == Spec => []NoGap
<1>1. OrderInv => NoGap
  BY DEF OrderInv
<1>2. HubInv /\ OrderInv /\ [Next]_vars => OrderInv'
  BY OrderStep
<1> QED
  BY <1>1, <1>2, OrderInit, HubInvariant, PTL DEF Spec
=============================================================================
