----------------------- MODULE ResultsBroadcastProofs -----------------------
(***************************************************************************)
(* What a client is sent is what its instance broadcasts, in the order of  *)
(* the topic, and it misses none of it; and an event is broadcast by one   *)
(* instance, and sent once, unless a reader was overtaken: for any number  *)
(* of instances, clients, sessions, partitions, rebalances and crashes,    *)
(* and any set of faults.                                                  *)
(***************************************************************************)
EXTENDS ResultsBroadcast, TLAPS, WellFoundedInduction

\* Neither e nor an event before it in its partition was in the hands of a reader
\* that was overtaken, when o is the record of those that were.
Clean(o, e) == o[e.partition] \notin 1..e.offset

\* e is on the topic.
Produced(e) == e.offset <= Len(topic[e.partition])

\* No reader will hand out e again: the group, the partition's owner and whoever
\* has fetched something are past it.
Behind(e) ==
  /\ e.offset <= committed[e.partition]
  /\ \A i \in Instances : owner[e.partition] = i => e.offset <= position[i][e.partition]
  /\ \A i \in Instances : held[i] # None /\ held[i].partition = e.partition
                            => e.offset < held[i].offset

\* What is so of every event that ReadMessage returned.
Handed(e) == Produced(e) /\ (Clean(overtaken, e) => Behind(e))

\* Offsets never run ahead of the topic, an owner subscribes its partition, and the
\* balancer keeps a session's events in the session's partition.
GroupInv ==
  /\ \A p \in Partitions : committed[p] <= Len(topic[p])
  /\ \A i \in Instances, p \in Partitions :
       /\ position[i][p] # None => position[i][p] <= Len(topic[p])
       /\ owner[p] = i => position[i][p] # None
  /\ \A p \in Partitions : \A n \in 1..Len(topic[p]) : PartitionOf[topic[p][n]] = p

\* A reader that was not overtaken still owns the partition of what it has
\* fetched, and stands right behind it.
HeldInv ==
  \A i \in Instances :
    held[i] # None =>
      /\ Produced(held[i])
      /\ Clean(overtaken, held[i]) =>
           /\ owner[held[i].partition] = i
           /\ position[i][held[i].partition] = held[i].offset

\* A clean event that was read is in one hand, or was broadcast by one instance.
ClaimInv ==
  /\ \A i \in Instances : hand[i] # None => Handed(hand[i])
  /\ \A x \in forwarded : Handed(x[1])
  /\ \A i, j \in Instances :
       hand[i] # None /\ hand[i] = hand[j] /\ i # j => ~Clean(overtaken, hand[i])
  /\ \A i \in Instances : \A x \in forwarded : x[1] = hand[i] => ~Clean(overtaken, hand[i])
  /\ OneInstancePerEvent

\* y comes after x, if x is clean.
Before(o, x, y) == x.partition = y.partition /\ Clean(o, x) => x.offset < y.offset

Sorted(o, t) == \A m, n \in 1..Len(t) : m < n => Before(o, t[m], t[n])
Elements(t) == {t[n] : n \in 1..Len(t)}

\* What a client was sent precedes what its hub holds, and that precedes what
\* its broadcaster holds.
HubOrder(i) ==
  /\ Sorted(overtaken, hub[i])
  /\ \A e \in Elements(hub[i]) :
       Handed(e) /\ (hand[i] # None => Before(overtaken, e, hand[i]))

ClientOrder(c) ==
  /\ Sorted(overtaken, shown[c])
  /\ \A e \in Elements(shown[c]) : Handed(e) /\ e.partition = PartitionOf[SessionOf[c]]
  /\ at[c] = "none" => shown[c] = <<>>

ChainOrder(c) ==
  \A e \in Elements(shown[c]) :
    /\ \A f \in Elements(hub[at[c]]) : Before(overtaken, e, f)
    /\ hand[at[c]] # None => Before(overtaken, e, hand[at[c]])

OrderInv ==
  /\ \A i \in Instances : HubOrder(i)
  /\ \A c \in Clients : ClientOrder(c)
  /\ \A c \in Connected : ChainOrder(c)

\* A client waits for events of its own session only, from its connection on.
DueInv ==
  /\ \A x \in due : /\ Produced(x[2])
                    /\ SessionOfEvent(x[2]) = SessionOf[x[1]]
                    /\ at[x[1]] # "none"
  /\ OwnInstanceShows

-----------------------------------------------------------------------------

\* What Append puts where.
LEMMA AppendElements ==
  ASSUME NEW S, NEW s \in Seq(S), NEW e \in S
  PROVE  /\ Append(s, e) \in Seq(S)
         /\ Len(Append(s, e)) = Len(s) + 1
         /\ \A n \in 1..Len(s) : Append(s, e)[n] = s[n]
         /\ Append(s, e)[Len(s) + 1] = e
  OBVIOUS

\* What Head and Tail leave where.
LEMMA TailElements ==
  ASSUME NEW S, NEW s \in Seq(S), s # <<>>
  PROVE  /\ Head(s) \in S /\ Head(s) = s[1]
         /\ Tail(s) \in Seq(S)
         /\ Len(s) >= 1
         /\ Len(Tail(s)) = Len(s) - 1
         /\ \A n \in 1..(Len(s) - 1) : Tail(s)[n] = s[n + 1]
  OBVIOUS

\* The elements and the order of a sequence that grows at the end.
LEMMA SortedAppend ==
  ASSUME NEW S, NEW t \in Seq(S), NEW e \in S
  PROVE  /\ Elements(Append(t, e)) = Elements(t) \cup {e}
         /\ \A o : Sorted(o, t) /\ (\A f \in Elements(t) : Before(o, f, e))
                    => Sorted(o, Append(t, e))
  <1> DEFINE u == Append(t, e)
  <1>1. Len(t) \in Nat /\ Len(u) = Len(t) + 1 /\ (\A n \in 1..Len(t) : u[n] = t[n]) /\ u[Len(t) + 1] = e
    BY AppendElements
  <1> HIDE DEF u
  <1>2. \A n \in 1..Len(u) : n \in 1..Len(t) \/ n = Len(t) + 1
    BY <1>1
  <1>3. \A n \in 1..Len(t) : n \in 1..Len(u)
    BY <1>1
  <1>4. Len(t) + 1 \in 1..Len(u)
    BY <1>1
  <1>5. Elements(u) = Elements(t) \cup {e}
    BY <1>1, <1>2, <1>3, <1>4 DEF Elements
  <1>6. ASSUME NEW o, Sorted(o, t), \A f \in Elements(t) : Before(o, f, e)
        PROVE  Sorted(o, u)
    <2> SUFFICES ASSUME NEW m \in 1..Len(u), NEW n \in 1..Len(u), m < n
                 PROVE  Before(o, u[m], u[n])
      BY DEF Sorted
    <2>1. m \in 1..Len(t)
      BY <1>1, <1>2
    <2>2. CASE n \in 1..Len(t)
      BY <1>1, <1>6, <2>1, <2>2 DEF Sorted
    <2>3. CASE n = Len(t) + 1
      BY <1>1, <1>6, <2>1, <2>3 DEF Elements
    <2> QED
      BY <1>2, <2>2, <2>3
  <1> QED
    BY <1>5, <1>6 DEF u

\* The same when the head is taken.
LEMMA SortedTail ==
  ASSUME NEW S, NEW t \in Seq(S), t # <<>>
  PROVE  /\ Elements(t) = {Head(t)} \cup Elements(Tail(t))
         /\ \A o : Sorted(o, t) => /\ Sorted(o, Tail(t))
                                  /\ \A f \in Elements(Tail(t)) : Before(o, Head(t), f)
  <1> DEFINE u == Tail(t)
  <1>1. /\ Len(t) \in Nat /\ Len(t) >= 1 /\ Len(u) = Len(t) - 1 /\ Head(t) = t[1]
        /\ \A n \in 1..(Len(t) - 1) : u[n] = t[n + 1]
    BY TailElements
  <1> HIDE DEF u
  <1>2. \A n \in 1..Len(u) : n + 1 \in 1..Len(t) /\ u[n] = t[n + 1] /\ n \in Nat
    BY <1>1
  <1>3. \A n \in 1..Len(t) : n = 1 \/ (n - 1 \in 1..Len(u) /\ t[n] = u[n - 1])
    <2> SUFFICES ASSUME NEW n \in 1..Len(t), n # 1
                 PROVE  n - 1 \in 1..Len(u) /\ t[n] = u[n - 1]
      OBVIOUS
    <2>1. n - 1 \in 1..Len(u) /\ (n - 1) + 1 = n
      BY <1>1
    <2> QED
      BY <1>2, <2>1
  <1>4. Elements(t) = {Head(t)} \cup Elements(u)
    <2>1. 1 \in 1..Len(t)
      BY <1>1
    <2>2. \A x \in Elements(t) : x = Head(t) \/ x \in Elements(u)
      BY <1>1, <1>3 DEF Elements
    <2>3. Head(t) \in Elements(t)
      BY <1>1, <2>1 DEF Elements
    <2>4. \A x \in Elements(u) : x \in Elements(t)
      BY <1>2 DEF Elements
    <2> QED
      BY <2>2, <2>3, <2>4
  <1>5. ASSUME NEW o, Sorted(o, t)
        PROVE  Sorted(o, u) /\ \A f \in Elements(u) : Before(o, Head(t), f)
    <2>1. ASSUME NEW m \in 1..Len(u), NEW n \in 1..Len(u), m < n
          PROVE  Before(o, u[m], u[n])
      <3>1. m + 1 \in 1..Len(t) /\ n + 1 \in 1..Len(t) /\ m + 1 < n + 1
        BY <1>2, <2>1
      <3> QED
        BY <1>2, <1>5, <3>1 DEF Sorted
    <2>2. ASSUME NEW n \in 1..Len(u)
          PROVE  Before(o, Head(t), u[n])
      <3>1. 1 \in 1..Len(t) /\ n + 1 \in 1..Len(t) /\ 1 < n + 1
        BY <1>1, <1>2
      <3> QED
        BY <1>1, <1>2, <1>5, <3>1 DEF Sorted
    <2> QED
      BY <2>1, <2>2 DEF Sorted, Elements
  <1> QED
    BY <1>4, <1>5 DEF u

LEMMA EmptySorted == (\A o : Sorted(o, <<>>)) /\ Elements(<<>>) = {}
  BY DEF Sorted, Elements

\* The first of some offsets is one of them, unless there is none; and none but
\* 0 is before it.
LEMMA EarliestIsFirst ==
  ASSUME NEW S \in SUBSET Nat
  PROVE  /\ Earliest(S) \in S \cup {0}
         /\ \A n \in S \ {0} : Earliest(S) # 0 /\ Earliest(S) <= n
  <1> DEFINE T == S \ {0}
             R == OpToRel(<, Nat)
  <1>1. CASE S \subseteq {0}
    BY <1>1 DEF Earliest
  <1>2. CASE ~(S \subseteq {0})
    <2>1. T \subseteq Nat /\ T # {} /\ 0 \notin T
      BY <1>2
    <2>2. IsWellFoundedOn(R, Nat)
      BY NatLessThanWellFounded
    <2>3. \A x, y \in Nat : y < x => <<y, x>> \in R
      BY DEF OpToRel
    <2> HIDE DEF R, T
    <2>4. PICK x \in T : \A y \in T : ~(<<y, x>> \in R)
      BY <2>1, <2>2, WFMin
    <2>5. \A y \in T : ~(y < x)
      BY <2>1, <2>3, <2>4
    <2>6. \A y \in T : x <= y
      BY <2>1, <2>5
    <2>7. Min(T) \in T /\ \A y \in T : Min(T) <= y
      BY <2>6 DEF Min
    <2>8. Earliest(S) = Min(T)
      BY <1>2 DEF Earliest, T
    <2> QED
      BY <2>1, <2>7, <2>8 DEF T
  <1> QED
    BY <1>1, <1>2

\* The event that a reader fetches is the next one on the topic.
LEMMA NextEventType ==
  ASSUME BroadcastAssumption, TypeOK, GroupInv, NEW i \in Instances, NEW p \in Partitions,
         position[i][p] # None, position[i][p] < Len(topic[p])
  PROVE  /\ position[i][p] \in Nat /\ position[i][p] + 1 \in 1..MaxEvents
         /\ NextEvent(i, p) \in Events
         /\ NextEvent(i, p) # None
         /\ NextEvent(i, p).partition = p /\ NextEvent(i, p).offset = position[i][p] + 1
         /\ Produced(NextEvent(i, p))
  <1>1. /\ Len(topic[p]) \in Nat /\ Len(topic[p]) <= MaxEvents /\ MaxEvents \in Nat
        /\ position[i][p] \in Nat
    BY DEF TypeOK, BroadcastAssumption
  <1>2. position[i][p] + 1 \in 1..MaxEvents /\ position[i][p] + 1 <= Len(topic[p])
    BY <1>1
  <1>3. NextEvent(i, p) \in Events
    BY <1>2 DEF NextEvent, Events
  <1>4. NextEvent(i, p).partition = p /\ NextEvent(i, p).offset = position[i][p] + 1
    BY DEF NextEvent
  <1> QED
    BY <1>1, <1>2, <1>3, <1>4 DEF Produced, BroadcastAssumption

\* The initial state satisfies the invariants.
LEMMA BroadcastInit ==
  ASSUME BroadcastAssumption, Init
  PROVE  TypeOK /\ GroupInv /\ HeldInv /\ ClaimInv /\ OrderInv /\ DueInv
  <1>1. Nat # {} /\ MaxEvents \in Nat /\ MaxMoves \in Nat /\ HubCap \in Nat
    BY DEF BroadcastAssumption
  <1>2. TypeOK
    BY <1>1 DEF Init, TypeOK
  <1>3. GroupInv
    BY <1>1 DEF Init, GroupInv, BroadcastAssumption
  <1>4. HeldInv /\ ClaimInv
    BY DEF Init, HeldInv, ClaimInv, OneInstancePerEvent
  <1>5. OrderInv
    BY EmptySorted DEF Init, OrderInv, HubOrder, ClientOrder, ChainOrder, Connected, BroadcastAssumption
  <1>6. DueInv
    BY DEF Init, DueInv, OwnInstanceShows
  <1> QED
    BY <1>2, <1>3, <1>4, <1>5, <1>6

-----------------------------------------------------------------------------

\* A fetch by a reader that lost the partition records the event as overtaken.
LEMMA FetchOvertakes ==
  ASSUME BroadcastAssumption, TypeOK, GroupInv,
         NEW i \in Instances, NEW p \in Partitions, FetchMessage(i, p)
  PROVE  /\ overtaken' \in [Partitions -> 0..MaxEvents]
         /\ \A q \in Partitions : overtaken[q] # 0 =>
              overtaken'[q] # 0 /\ overtaken'[q] <= overtaken[q]
         /\ owner[p] # i => overtaken'[p] # 0 /\ overtaken'[p] <= position[i][p] + 1
  <1>1. PICK n : n = position[i][p] + 1
    OBVIOUS
  <1>2. n \in 1..MaxEvents /\ n \in Nat \ {0} /\ MaxEvents \in Nat
    BY <1>1, NextEventType DEF FetchMessage, BroadcastAssumption
  <1>3. overtaken \in [Partitions -> 0..MaxEvents] /\ overtaken[p] \in Nat
    BY <1>2 DEF TypeOK
  <1>4. PICK first : first = Earliest({overtaken[p], n})
    OBVIOUS
  <1>5. /\ first \in {overtaken[p], n, 0}
        /\ \A m \in {overtaken[p], n} \ {0} : first # 0 /\ first <= m
    BY <1>2, <1>3, <1>4, EarliestIsFirst
  <1>6. overtaken' = IF owner[p] = i THEN overtaken ELSE [overtaken EXCEPT ![p] = first]
    BY <1>1, <1>4 DEF FetchMessage
  <1>7. first \in 0..MaxEvents
    BY <1>2, <1>3, <1>5
  <1>8. first # 0 /\ first <= n /\ (overtaken[p] # 0 => first <= overtaken[p])
    BY <1>2, <1>3, <1>5
  <1>9. \A q \in Partitions : overtaken[q] \in Nat /\ overtaken[q] <= overtaken[q]
    BY <1>2, <1>3
  <1> QED
    BY <1>1, <1>3, <1>6, <1>7, <1>8, <1>9

\* An assignment records what the readers have fetched of the partition as overtaken.
LEMMA RebalanceOvertakes ==
  ASSUME BroadcastAssumption, TypeOK,
         NEW i \in Instances, NEW p \in Partitions, Rebalance(i, p)
  PROVE  /\ overtaken' \in [Partitions -> 0..MaxEvents]
         /\ \A q \in Partitions : overtaken[q] # 0 =>
              overtaken'[q] # 0 /\ overtaken'[q] <= overtaken[q]
         /\ \A j \in Instances : held[j] # None /\ held[j].partition = p =>
              overtaken'[p] # 0 /\ overtaken'[p] <= held[j].offset
  <1>1. PICK S : S = {overtaken[p]} \cup HeldOffsets(p)
    OBVIOUS
  <1>2. overtaken \in [Partitions -> 0..MaxEvents] /\ overtaken[p] \in 0..MaxEvents
        /\ MaxEvents \in Nat
    BY DEF TypeOK, BroadcastAssumption
  <1>3. HeldOffsets(p) \subseteq 1..MaxEvents
    BY DEF HeldOffsets, TypeOK, Events
  <1>4. S \subseteq 0..MaxEvents /\ S \subseteq Nat
    BY <1>1, <1>2, <1>3
  <1>5. PICK first : first = Earliest(S)
    OBVIOUS
  <1>6. first \in S \cup {0} /\ \A m \in S \ {0} : first # 0 /\ first <= m
    BY <1>4, <1>5, EarliestIsFirst
  <1>7. overtaken' = [overtaken EXCEPT ![p] = first]
    BY <1>1, <1>5 DEF Rebalance
  <1>8. first \in 0..MaxEvents
    BY <1>2, <1>4, <1>6
  <1>9. \A q \in Partitions : overtaken[q] \in Nat /\ overtaken[q] <= overtaken[q]
    BY <1>2
  <1>10. overtaken[p] # 0 => first # 0 /\ first <= overtaken[p]
    BY <1>1, <1>6
  <1>11. \A j \in Instances : held[j] # None /\ held[j].partition = p =>
           first # 0 /\ first <= held[j].offset
    <2> SUFFICES ASSUME NEW j \in Instances, held[j] # None, held[j].partition = p
                 PROVE  first # 0 /\ first <= held[j].offset
      OBVIOUS
    <2>1. held[j].offset \in HeldOffsets(p)
      BY DEF HeldOffsets
    <2> QED
      BY <1>1, <1>3, <1>6, <2>1
  <1> QED
    BY <1>2, <1>7, <1>8, <1>9, <1>10, <1>11

\* What was overtaken stays so.
LEMMA OvertakenStep ==
  ASSUME BroadcastAssumption, TypeOK, GroupInv, [Next]_vars
  PROVE  /\ overtaken' \in [Partitions -> 0..MaxEvents]
         /\ \A e \in Events : Clean(overtaken', e) => Clean(overtaken, e)
  <1>0. overtaken \in [Partitions -> 0..MaxEvents] /\ MaxEvents \in Nat
    BY DEF TypeOK, BroadcastAssumption
  <1>1. ASSUME overtaken' \in [Partitions -> 0..MaxEvents],
               \A q \in Partitions : overtaken[q] # 0 =>
                 overtaken'[q] # 0 /\ overtaken'[q] <= overtaken[q]
        PROVE  \A e \in Events : Clean(overtaken', e) => Clean(overtaken, e)
    <2> SUFFICES ASSUME NEW e \in Events, overtaken[e.partition] \in 1..e.offset
                 PROVE  overtaken'[e.partition] \in 1..e.offset
      BY DEF Clean
    <2>1. e.partition \in Partitions /\ e.offset \in Nat
      BY DEF Events
    <2>2. overtaken'[e.partition] \in Nat /\ overtaken[e.partition] \in Nat
      BY <1>0, <1>1, <2>1
    <2> QED
      BY <1>1, <2>1, <2>2
  <1>2. ASSUME NEW i \in Instances, NEW p \in Partitions, FetchMessage(i, p) \/ Rebalance(i, p)
        PROVE  /\ overtaken' \in [Partitions -> 0..MaxEvents]
               /\ \A e \in Events : Clean(overtaken', e) => Clean(overtaken, e)
    BY <1>1, <1>2, FetchOvertakes, RebalanceOvertakes
  <1>3. CASE UNCHANGED overtaken
    BY <1>0, <1>3
  <1> QED
    BY <1>2, <1>3
    DEF Next, Broadcaster, EmitResultsUpdated, CommitMessages, BroadcastResultsUpdate, FanOut,
        Rejoin, Crash, Restart, Connect, Disconnect, vars, group

\* Every action keeps the types.
LEMMA TypeStep ==
  ASSUME BroadcastAssumption, TypeOK, GroupInv, [Next]_vars
  PROVE  TypeOK'
  <1> USE DEF TypeOK
  <1>1. ASSUME NEW s \in Sessions, EmitResultsUpdated(s)
        PROVE  TypeOK'
    <2> DEFINE p == PartitionOf[s]
    <2>1. p \in Partitions /\ topic[p] \in Seq(Sessions)
      BY DEF BroadcastAssumption
    <2>2. Append(topic[p], s) \in Seq(Sessions) /\ Len(Append(topic[p], s)) = Len(topic[p]) + 1
      BY <2>1, AppendElements
    <2>3. topic' \in [Partitions -> Seq(Sessions)] /\ \A q \in Partitions : Len(topic'[q]) <= MaxEvents
      BY <1>1, <2>1, <2>2 DEF EmitResultsUpdated
    <2>4. Len(topic[p]) + 1 \in 1..MaxEvents
      BY <1>1, <2>1 DEF EmitResultsUpdated, BroadcastAssumption
    <2>5. [partition |-> p, offset |-> Len(topic[p]) + 1] \in Events
      BY <2>1, <2>4 DEF Events
    <2>6. due' \subseteq Clients \X Events
      BY <1>1, <2>5 DEF EmitResultsUpdated, Connected
    <2> QED
      BY <1>1, <2>3, <2>6 DEF EmitResultsUpdated, clients
  <1>2. ASSUME NEW i \in Instances, NEW p \in Partitions, FetchMessage(i, p)
        PROVE  TypeOK'
    <2>1. NextEvent(i, p) \in Events /\ position[i][p] + 1 \in 1..MaxEvents
      BY <1>2, NextEventType DEF FetchMessage
    <2>2. position' \in [Instances -> [Partitions -> 0..MaxEvents \cup {None}]]
      BY <1>2, <2>1 DEF FetchMessage
    <2>3. held' \in [Instances -> Events \cup {None}]
      BY <1>2, <2>1 DEF FetchMessage
    <2> QED
      BY <1>2, <2>2, <2>3, OvertakenStep DEF FetchMessage, clients, history
  <1>3. ASSUME NEW i \in Instances, CommitMessages(i)
        PROVE  TypeOK'
    <2>1. held[i] \in Events
      BY <1>3 DEF CommitMessages
    <2>2. held[i].partition \in Partitions /\ held[i].offset \in 0..MaxEvents
      BY <2>1 DEF Events
    <2>3. PICK o \in Outcome :
            /\ committed' = CommittedAfter(held[i], o)
            /\ IF o = "ok" THEN hand' = [hand EXCEPT ![i] = held[i]] /\ missed' = missed
               ELSE missed' = missed \cup {held[i]} /\ hand' = hand
      BY <1>3 DEF CommitMessages
    <2>4. committed' \in [Partitions -> 0..MaxEvents]
      BY <2>2, <2>3 DEF CommittedAfter
    <2>5. hand' \in [Instances -> Events \cup {None}] /\ missed' \subseteq Events
      BY <2>1, <2>3
    <2>6. held' \in [Instances -> Events \cup {None}]
      BY <1>3 DEF CommitMessages
    <2> QED
      BY <1>3, <2>4, <2>5, <2>6 DEF CommitMessages, clients
  <1>4. ASSUME NEW i \in Instances, BroadcastResultsUpdate(i)
        PROVE  TypeOK'
    <2>1. hand[i] \in Events /\ hub[i] \in Seq(Events)
      BY <1>4 DEF BroadcastResultsUpdate
    <2>2. Append(hub[i], hand[i]) \in Seq(Events) /\ Len(Append(hub[i], hand[i])) = Len(hub[i]) + 1
      BY <2>1, AppendElements
    <2>3. Len(hub[i]) + 1 <= HubCap
      BY <1>4, <2>1 DEF BroadcastResultsUpdate, HasRoom, BroadcastAssumption
    <2> QED
      BY <1>4, <2>1, <2>2, <2>3 DEF BroadcastResultsUpdate, group, clients
  <1>5. ASSUME NEW i \in Instances, FanOut(i)
        PROVE  TypeOK'
    <2>1. hub[i] \in Seq(Events) /\ hub[i] # <<>>
      BY <1>5 DEF FanOut
    <2>2. /\ Head(hub[i]) \in Events
          /\ Tail(hub[i]) \in Seq(Events)
          /\ Len(Tail(hub[i])) = Len(hub[i]) - 1
      BY <2>1, TailElements
    <2>3. Len(Tail(hub[i])) <= HubCap
      BY <2>1, <2>2 DEF BroadcastAssumption
    <2>4. \A c \in Clients : Append(shown[c], Head(hub[i])) \in Seq(Events)
      BY <2>2, AppendElements
    <2>5. shown' \in [Clients -> Seq(Events)]
      BY <1>5, <2>4 DEF FanOut
    <2>6. hub' \in [Instances -> Seq(Events)] /\ \A j \in Instances : Len(hub'[j]) <= HubCap
      BY <1>5, <2>2, <2>3 DEF FanOut
    <2> QED
      BY <1>5, <2>5, <2>6 DEF FanOut, group, history
  <1>6. ASSUME NEW i \in Instances, Crash(i)
        PROVE  TypeOK'
    <2>1. moves' \in 0..MaxMoves
      BY <1>6 DEF Crash, BroadcastAssumption
    <2>2. missed' \subseteq Events
      BY <1>6 DEF Crash
    <2>3. at' \in [Clients -> Instances \cup {"none", "gone"}]
      BY <1>6 DEF Crash
    <2>4. position' \in [Instances -> [Partitions -> 0..MaxEvents \cup {None}]]
      BY <1>6 DEF Crash
    <2>5. hub' \in [Instances -> Seq(Events)] /\ \A j \in Instances : Len(hub'[j]) <= HubCap
      BY <1>6 DEF Crash, BroadcastAssumption
    <2> QED
      BY <1>6, <2>1, <2>2, <2>3, <2>4, <2>5 DEF Crash
  <1>7. ASSUME NEW i \in Instances, NEW p \in Partitions, Rebalance(i, p)
        PROVE  TypeOK'
    <2>1. moves' \in 0..MaxMoves
      BY <1>7 DEF Rebalance, BroadcastAssumption
    <2>2. owner' \in [Partitions -> Instances \cup {None}]
      BY <1>7 DEF Rebalance
    <2>3. position' \in [Instances -> [Partitions -> 0..MaxEvents \cup {None}]]
      BY <1>7 DEF Rebalance, StartOffset
    <2> QED
      BY <1>7, <2>1, <2>2, <2>3, OvertakenStep DEF Rebalance, clients, history
  <1>8. ASSUME NEW i \in Instances, NEW p \in Partitions, Rejoin(i, p)
        PROVE  TypeOK'
    <2>1. position' \in [Instances -> [Partitions -> 0..MaxEvents \cup {None}]]
      BY <1>8 DEF Rejoin
    <2> QED
      BY <1>8, <2>1 DEF Rejoin, clients, history
  <1>9. ASSUME NEW i \in Instances, Restart(i)
        PROVE  TypeOK'
    BY <1>9 DEF Restart, group, clients, history
  <1>10. ASSUME NEW c \in Clients, Disconnect(c) \/ \E i \in Instances : Connect(c, i)
         PROVE  TypeOK'
    BY <1>10 DEF Connect, Disconnect, group, history
  <1>11. CASE UNCHANGED vars
    BY <1>11 DEF vars, group, clients, history
  <1> QED
    BY <1>1, <1>2, <1>3, <1>4, <1>5, <1>6, <1>7, <1>8, <1>9, <1>10, <1>11 DEF Next, Broadcaster

\* Every action keeps the offsets in range and the partitions pure.
LEMMA GroupStep ==
  ASSUME BroadcastAssumption, TypeOK, GroupInv, HeldInv, [Next]_vars
  PROVE  GroupInv'
  <1> USE DEF GroupInv
  <1>0. /\ \A p \in Partitions : committed[p] \in Nat /\ topic[p] \in Seq(Sessions) /\ Len(topic[p]) \in Nat
        /\ \A i \in Instances, p \in Partitions : position[i][p] # None => position[i][p] \in Nat
    BY DEF TypeOK
  <1>1. ASSUME NEW s \in Sessions, EmitResultsUpdated(s)
        PROVE  GroupInv'
    <2>1. PICK p \in Partitions : p = PartitionOf[s]
      BY DEF BroadcastAssumption
    <2>2. /\ topic' = [topic EXCEPT ![p] = Append(topic[p], s)]
          /\ UNCHANGED <<committed, position, owner>>
      BY <1>1, <2>1 DEF EmitResultsUpdated
    <2>3. /\ topic'[p] = Append(topic[p], s)
          /\ \A q \in Partitions \ {p} : topic'[q] = topic[q]
      BY <2>2 DEF TypeOK
    <2>4. /\ Len(topic'[p]) = Len(topic[p]) + 1
          /\ \A n \in 1..Len(topic[p]) : topic'[p][n] = topic[p][n]
          /\ topic'[p][Len(topic[p]) + 1] = s
      BY <1>0, <2>3, AppendElements
    <2>5. \A q \in Partitions : \A n \in 1..Len(topic'[q]) : PartitionOf[topic'[q][n]] = q
      <3> SUFFICES ASSUME NEW q \in Partitions, NEW n \in 1..Len(topic'[q])
                   PROVE  PartitionOf[topic'[q][n]] = q
        OBVIOUS
      <3>1. CASE q # p
        BY <2>3, <3>1
      <3>2. CASE q = p /\ n <= Len(topic[p])
        <4>1. n \in 1..Len(topic[p])
          BY <1>0, <2>4, <3>2
        <4> QED
          BY <2>4, <3>2, <4>1
      <3>3. CASE q = p /\ n > Len(topic[p])
        <4>1. n = Len(topic[p]) + 1
          BY <1>0, <2>4, <3>3
        <4> QED
          BY <2>1, <2>4, <3>3, <4>1
      <3> QED
        BY <1>0, <2>4, <3>1, <3>2, <3>3
    <2>6. \A q \in Partitions : committed'[q] <= Len(topic'[q])
      BY <1>0, <2>2, <2>3, <2>4
    <2>7. \A i \in Instances, q \in Partitions : position'[i][q] # None => position'[i][q] <= Len(topic'[q])
      BY <1>0, <2>2, <2>3, <2>4
    <2> QED
      BY <2>2, <2>5, <2>6, <2>7
  <1>2. ASSUME NEW i \in Instances, NEW p \in Partitions, FetchMessage(i, p)
        PROVE  GroupInv'
    <2>1. /\ position' = [position EXCEPT ![i][p] = position[i][p] + 1]
          /\ UNCHANGED <<topic, committed, owner>>
          /\ position[i][p] # None /\ position[i][p] < Len(topic[p])
      BY <1>2 DEF FetchMessage
    <2>2. \A j \in Instances, q \in Partitions :
            position'[j][q] = IF j = i /\ q = p THEN position[i][p] + 1 ELSE position[j][q]
      BY <2>1 DEF TypeOK
    <2>3. position[i][p] + 1 # None /\ position[i][p] + 1 <= Len(topic[p])
      BY <1>0, <2>1 DEF BroadcastAssumption
    <2> QED
      BY <2>1, <2>2, <2>3
  <1>3. ASSUME NEW i \in Instances, CommitMessages(i)
        PROVE  GroupInv'
    <2>1. UNCHANGED <<topic, position, owner>>
      BY <1>3 DEF CommitMessages
    <2>2. held[i] \in Events /\ held[i].offset <= Len(topic[held[i].partition])
      BY <1>3 DEF CommitMessages, HeldInv, Produced, TypeOK
    <2>3. PICK o \in Outcome : committed' = CommittedAfter(held[i], o)
      BY <1>3 DEF CommitMessages
    <2>4. committed' = committed \/ committed' = [committed EXCEPT ![held[i].partition] = held[i].offset]
      BY <2>3 DEF CommittedAfter
    <2>5. \A q \in Partitions : committed'[q] <= Len(topic[q])
      BY <2>2, <2>4 DEF TypeOK
    <2> QED
      BY <2>1, <2>5
  <1>4. ASSUME NEW i \in Instances, NEW p \in Partitions, Rebalance(i, p)
        PROVE  GroupInv'
    <2>1. /\ topic' = topic /\ committed' = committed
          /\ \A q \in Partitions : owner'[q] = IF q = p THEN i ELSE owner[q]
          /\ \A j \in Instances, q \in Partitions :
               position'[j][q] = IF j = i /\ q = p THEN committed[p] ELSE position[j][q]
      BY <1>4 DEF Rebalance, StartOffset, TypeOK
    <2>2. committed[p] # None
      BY <1>0 DEF BroadcastAssumption
    <2> QED
      BY <2>1, <2>2
  <1>5. ASSUME NEW i \in Instances, NEW p \in Partitions, Rejoin(i, p)
        PROVE  GroupInv'
    <2>1. /\ UNCHANGED <<topic, committed, owner>> /\ owner[p] # i
          /\ \A j \in Instances, q \in Partitions :
               position'[j][q] = IF j = i /\ q = p THEN None ELSE position[j][q]
      BY <1>5 DEF Rejoin, Outdated, TypeOK
    <2> QED
      BY <2>1
  <1>6. ASSUME NEW i \in Instances, Crash(i)
        PROVE  GroupInv'
    <2>1. /\ UNCHANGED <<topic, committed>>
          /\ \A q \in Partitions : owner'[q] = IF owner[q] = i THEN None ELSE owner[q]
          /\ \A j \in Instances, q \in Partitions :
               position'[j][q] = IF j = i THEN None ELSE position[j][q]
      BY <1>6 DEF Crash, TypeOK
    <2>2. None \notin Instances
      BY DEF BroadcastAssumption
    <2> QED
      BY <2>1, <2>2
  <1>7. CASE UNCHANGED <<topic, committed, position, owner>>
    BY <1>7
  <1> QED
    BY <1>1, <1>2, <1>3, <1>4, <1>5, <1>6, <1>7
    DEF Next, Broadcaster, BroadcastResultsUpdate, FanOut, Restart, Connect, Disconnect, vars, group

\* What is on the topic stays there, as it is.
LEMMA ProducedStep ==
  ASSUME BroadcastAssumption, TypeOK, [Next]_vars
  PROVE  \A e \in Events : Produced(e) => Produced(e)' /\ SessionOfEvent(e)' = SessionOfEvent(e)
  <1>1. CASE UNCHANGED topic
    BY <1>1 DEF Produced, SessionOfEvent
  <1>2. ASSUME NEW s \in Sessions, EmitResultsUpdated(s)
        PROVE  \A e \in Events : Produced(e) => Produced(e)' /\ SessionOfEvent(e)' = SessionOfEvent(e)
    <2>1. PICK p \in Partitions : p = PartitionOf[s]
      BY DEF BroadcastAssumption
    <2>2. topic' = [topic EXCEPT ![p] = Append(topic[p], s)]
      BY <1>2, <2>1 DEF EmitResultsUpdated
    <2>3. /\ topic[p] \in Seq(Sessions) /\ Len(topic[p]) \in Nat
          /\ topic'[p] = Append(topic[p], s)
          /\ \A q \in Partitions : q # p => topic'[q] = topic[q]
      BY <2>2 DEF TypeOK
    <2>4. /\ Len(topic'[p]) = Len(topic[p]) + 1
          /\ \A n \in 1..Len(topic[p]) : topic'[p][n] = topic[p][n]
      BY <2>3, AppendElements
    <2> SUFFICES ASSUME NEW e \in Events, e.offset <= Len(topic[e.partition])
                 PROVE  /\ e.offset <= Len(topic'[e.partition])
                        /\ topic'[e.partition][e.offset] = topic[e.partition][e.offset]
      BY DEF Produced, SessionOfEvent
    <2>5. e.partition \in Partitions /\ e.offset \in Nat /\ e.offset >= 1
      BY DEF Events
    <2>6. CASE e.partition = p
      <3>1. e.offset \in 1..Len(topic[p])
        BY <2>3, <2>5, <2>6
      <3> QED
        BY <2>3, <2>4, <2>5, <2>6, <3>1
    <2>7. CASE e.partition # p
      BY <2>3, <2>5, <2>7
    <2> QED
      BY <2>6, <2>7
  <1> QED
    BY <1>1, <1>2
    DEF Next, Broadcaster, FetchMessage, CommitMessages, BroadcastResultsUpdate, FanOut,
        Rebalance, Rejoin, Crash, Restart, Connect, Disconnect, vars, group

\* Every action keeps what the readers hold in line with the group.
LEMMA HeldStep ==
  ASSUME BroadcastAssumption, TypeOK, GroupInv, HeldInv, [Next]_vars
  PROVE  HeldInv'
  <1>0. /\ held \in [Instances -> Events \cup {None}]
        /\ \A e \in Events : e.partition \in Partitions /\ e.offset \in Nat /\ e.offset >= 1
        /\ \A e \in Events : Produced(e) => Produced(e)'
        /\ \A e \in Events : Clean(overtaken', e) => Clean(overtaken, e)
        /\ overtaken' \in [Partitions -> 0..MaxEvents] /\ MaxEvents \in Nat
    <2>1. held \in [Instances -> Events \cup {None}] /\ MaxEvents \in Nat
      BY DEF TypeOK, BroadcastAssumption
    <2>2. \A e \in Events : e.partition \in Partitions /\ e.offset \in Nat /\ e.offset >= 1
      BY DEF Events
    <2> QED
      BY <2>1, <2>2, ProducedStep, OvertakenStep
  <1>1. CASE UNCHANGED <<held, owner, position, overtaken>>
    BY <1>0, <1>1 DEF HeldInv
  <1>2. ASSUME NEW i \in Instances, NEW p \in Partitions, FetchMessage(i, p)
        PROVE  HeldInv'
    <2>1. PICK e : e = NextEvent(i, p)
      OBVIOUS
    <2>2. /\ e \in Events /\ Produced(e) /\ e # None
          /\ e.partition = p /\ e.offset = position[i][p] + 1 /\ position[i][p] \in Nat
      BY <1>2, <2>1, NextEventType DEF FetchMessage
    <2>3. /\ \A j \in Instances : held'[j] = IF j = i THEN e ELSE held[j]
          /\ \A j \in Instances, q \in Partitions :
               position'[j][q] = IF j = i /\ q = p THEN e.offset ELSE position[j][q]
          /\ owner' = owner /\ held[i] = None
      BY <1>2, <2>1, <2>2 DEF FetchMessage, TypeOK
    <2>4. owner[p] # i => ~Clean(overtaken', e)
      <3> SUFFICES ASSUME owner[p] # i PROVE overtaken'[p] \in 1..e.offset
        BY <2>2 DEF Clean
      <3>1. overtaken'[p] # 0 /\ overtaken'[p] <= e.offset
        BY <1>2, <2>2, FetchOvertakes
      <3>2. overtaken'[p] \in Nat
        BY <1>0
      <3> QED
        BY <1>0, <2>2, <3>1, <3>2
    <2> QED
      BY <1>0, <2>2, <2>3, <2>4 DEF HeldInv
  <1>3. ASSUME NEW i \in Instances, CommitMessages(i)
        PROVE  HeldInv'
    <2>1. /\ \A j \in Instances : held'[j] = IF j = i THEN None ELSE held[j]
          /\ UNCHANGED <<owner, position, overtaken>>
      BY <1>3 DEF CommitMessages, TypeOK
    <2> QED
      BY <1>0, <2>1 DEF HeldInv
  <1>4. ASSUME NEW i \in Instances, NEW p \in Partitions, Rebalance(i, p)
        PROVE  HeldInv'
    <2>1. /\ held' = held
          /\ \A q \in Partitions : q # p => owner'[q] = owner[q]
          /\ \A j \in Instances, q \in Partitions : q # p => position'[j][q] = position[j][q]
      BY <1>4 DEF Rebalance, TypeOK
    <2>2. \A j \in Instances : held[j] # None /\ held[j].partition = p => ~Clean(overtaken', held[j])
      <3> SUFFICES ASSUME NEW j \in Instances, held[j] # None, held[j].partition = p
                   PROVE  overtaken'[p] \in 1..held[j].offset
        BY DEF Clean
      <3>1. overtaken'[p] # 0 /\ overtaken'[p] <= held[j].offset
        BY <1>4, RebalanceOvertakes
      <3>2. overtaken'[p] \in Nat /\ held[j].offset \in Nat
        BY <1>0
      <3> QED
        BY <3>1, <3>2
    <2> QED
      BY <1>0, <2>1, <2>2 DEF HeldInv
  <1>5. ASSUME NEW i \in Instances, NEW p \in Partitions, Rejoin(i, p)
        PROVE  HeldInv'
    <2>1. /\ held' = held /\ owner' = owner /\ overtaken' = overtaken /\ owner[p] # i
          /\ \A j \in Instances, q \in Partitions :
               ~(j = i /\ q = p) => position'[j][q] = position[j][q]
      BY <1>5 DEF Rejoin, Outdated, TypeOK
    <2> QED
      BY <1>0, <2>1 DEF HeldInv
  <1>6. ASSUME NEW i \in Instances, Crash(i)
        PROVE  HeldInv'
    <2>1. /\ \A j \in Instances : held'[j] = IF j = i THEN None ELSE held[j]
          /\ \A q \in Partitions : owner[q] # i => owner'[q] = owner[q]
          /\ \A j \in Instances, q \in Partitions : j # i => position'[j][q] = position[j][q]
          /\ overtaken' = overtaken
      BY <1>6 DEF Crash, TypeOK
    <2> QED
      BY <1>0, <2>1 DEF HeldInv
  <1> QED
    BY <1>1, <1>2, <1>3, <1>4, <1>5, <1>6
    DEF Next, Broadcaster, EmitResultsUpdated, BroadcastResultsUpdate, FanOut, Restart, Connect,
        Disconnect, vars, group

\* What the commit of an event that ReadMessage returns means for the others.
LEMMA CommitMessagesEffect ==
  ASSUME BroadcastAssumption, TypeOK, NEW i \in Instances, CommitMessages(i)
  PROVE  /\ held[i] \in Events
         /\ \A j \in Instances : held'[j] = IF j = i THEN None ELSE held[j]
         /\ UNCHANGED <<topic, position, owner, overtaken, hub, at, shown, forwarded, due>>
         /\ \/ UNCHANGED committed
            \/ \A p \in Partitions :
                 committed'[p] = IF p = held[i].partition THEN held[i].offset ELSE committed[p]
         /\ \/ UNCHANGED hand
            \/ /\ \A j \in Instances : hand'[j] = IF j = i THEN held[i] ELSE hand[j]
               /\ committed'[held[i].partition] = held[i].offset
  <1>1. held[i] \in Events /\ held[i].partition \in Partitions
    BY DEF CommitMessages, TypeOK, Events
  <1>2. PICK o \in Outcome :
          /\ committed' = CommittedAfter(held[i], o)
          /\ IF o = "ok" THEN hand' = [hand EXCEPT ![i] = held[i]] ELSE hand' = hand
    BY DEF CommitMessages
  <1>3. CASE o = "error"
    BY <1>1, <1>2, <1>3 DEF CommitMessages, CommittedAfter, TypeOK, clients
  <1>4. CASE o # "error"
    <2>1. committed' = [committed EXCEPT ![held[i].partition] = held[i].offset]
      BY <1>2, <1>4 DEF CommittedAfter
    <2>2. \A p \in Partitions :
            committed'[p] = IF p = held[i].partition THEN held[i].offset ELSE committed[p]
      BY <1>1, <2>1 DEF TypeOK
    <2>3. hand' = hand \/ hand' = [hand EXCEPT ![i] = held[i]]
      BY <1>2
    <2>4. hand' = hand \/ \A j \in Instances : hand'[j] = IF j = i THEN held[i] ELSE hand[j]
      BY <2>3 DEF TypeOK
    <2> QED
      BY <1>1, <2>2, <2>4 DEF CommitMessages, TypeOK, clients
  <1> QED
    BY <1>3, <1>4

\* What was handed out stays behind the group, as long as it is clean.
LEMMA HandedStep ==
  ASSUME BroadcastAssumption, TypeOK, GroupInv, HeldInv, [Next]_vars
  PROVE  \A e \in Events : Handed(e) => Handed(e)'
  <1> SUFFICES ASSUME NEW e \in Events, Handed(e), Clean(overtaken', e)
               PROVE  Behind(e)'
    BY ProducedStep DEF Handed
  <1>0. /\ e.partition \in Partitions /\ e.offset \in Nat /\ e.offset >= 1
        /\ Clean(overtaken, e) /\ Behind(e) /\ e.offset <= Len(topic[e.partition])
        /\ held \in [Instances -> Events \cup {None}]
        /\ committed[e.partition] \in Nat
        /\ overtaken' \in [Partitions -> 0..MaxEvents] /\ MaxEvents \in Nat
    <2>1. e.partition \in Partitions /\ e.offset \in Nat /\ e.offset >= 1
      BY DEF Events
    <2>2. Clean(overtaken, e) /\ overtaken' \in [Partitions -> 0..MaxEvents]
      BY OvertakenStep
    <2> QED
      BY <2>1, <2>2 DEF Handed, Produced, TypeOK, BroadcastAssumption
  <1>1. CASE UNCHANGED <<committed, owner, position, held>>
    BY <1>0, <1>1 DEF Behind
  <1>2. ASSUME NEW i \in Instances, NEW p \in Partitions, FetchMessage(i, p)
        PROVE  Behind(e)'
    <2>1. PICK f : f = NextEvent(i, p)
      OBVIOUS
    <2>2. /\ f \in Events /\ f.partition = p
          /\ f.offset = position[i][p] + 1 /\ position[i][p] \in Nat
      BY <1>2, <2>1, NextEventType DEF FetchMessage
    <2>3. /\ \A j \in Instances : held'[j] = IF j = i THEN f ELSE held[j]
          /\ \A j \in Instances, q \in Partitions :
               position'[j][q] = IF j = i /\ q = p THEN f.offset ELSE position[j][q]
          /\ committed' = committed /\ owner' = owner
      BY <1>2, <2>1, <2>2 DEF FetchMessage, TypeOK
    <2>4. e.partition = p => e.offset < f.offset
      <3> SUFFICES ASSUME e.partition = p PROVE e.offset < f.offset
        OBVIOUS
      <3>1. CASE owner[p] = i
        BY <1>0, <2>2, <3>1 DEF Behind
      <3>2. CASE owner[p] # i
        <4>1. overtaken'[p] # 0 /\ overtaken'[p] <= f.offset /\ overtaken'[p] \in Nat
          BY <1>0, <1>2, <2>2, <3>2, FetchOvertakes
        <4>2. ~(overtaken'[p] <= e.offset)
          BY <1>0, <4>1 DEF Clean
        <4> QED
          BY <1>0, <2>2, <4>1, <4>2
      <3> QED
        BY <3>1, <3>2
    <2>5. \A j \in Instances :
            owner[e.partition] = j => e.offset <= position'[j][e.partition]
      <3>1. \A j \in Instances :
              owner[e.partition] = j => e.offset <= position[j][e.partition]
        BY <1>0 DEF Behind
      <3>2. f.offset \in Nat
        BY <2>2
      <3> QED
        BY <1>0, <2>3, <2>4, <3>1, <3>2
    <2>6. \A j \in Instances : held'[j] # None /\ held'[j].partition = e.partition
                                => e.offset < held'[j].offset
      BY <1>0, <2>2, <2>3, <2>4 DEF Behind
    <2> QED
      BY <1>0, <2>3, <2>5, <2>6 DEF Behind
  <1>3. ASSUME NEW i \in Instances, CommitMessages(i)
        PROVE  Behind(e)'
    <2>1. held[i] # None
      BY <1>3 DEF CommitMessages
    <2>2. held[i].partition = e.partition => e.offset < held[i].offset
      BY <1>0, <2>1 DEF Behind
    <2>3. held[i] \in Events /\ held[i].offset \in Nat
      BY <1>3, CommitMessagesEffect DEF Events
    <2>4. /\ \A j \in Instances : held'[j] = IF j = i THEN None ELSE held[j]
          /\ position' = position /\ owner' = owner
          /\ \/ committed' = committed
             \/ \A p \in Partitions :
                  committed'[p] = IF p = held[i].partition THEN held[i].offset ELSE committed[p]
      BY <1>3, CommitMessagesEffect
    <2>5. e.offset <= committed[e.partition]
      BY <1>0 DEF Behind
    <2>6. e.offset <= committed'[e.partition]
      BY <1>0, <2>2, <2>3, <2>4, <2>5
    <2>7. \A j \in Instances : held'[j] # None /\ held'[j].partition = e.partition
                                => e.offset < held'[j].offset
      BY <1>0, <2>4 DEF Behind
    <2> QED
      BY <1>0, <2>4, <2>6, <2>7 DEF Behind
  <1>4. ASSUME NEW i \in Instances, NEW p \in Partitions, Rebalance(i, p)
        PROVE  Behind(e)'
    <2>1. /\ held' = held /\ committed' = committed
          /\ \A q \in Partitions : owner'[q] = IF q = p THEN i ELSE owner[q]
          /\ \A j \in Instances, q \in Partitions :
               position'[j][q] = IF j = i /\ q = p THEN committed[p] ELSE position[j][q]
      BY <1>4 DEF Rebalance, StartOffset, TypeOK
    <2> QED
      BY <1>0, <2>1 DEF Behind
  <1>5. ASSUME NEW i \in Instances, NEW p \in Partitions, Rejoin(i, p)
        PROVE  Behind(e)'
    <2>1. /\ held' = held /\ committed' = committed /\ owner' = owner /\ owner[p] # i
          /\ \A j \in Instances, q \in Partitions :
               ~(j = i /\ q = p) => position'[j][q] = position[j][q]
      BY <1>5 DEF Rejoin, Outdated, TypeOK
    <2> QED
      BY <1>0, <2>1 DEF Behind
  <1>6. ASSUME NEW i \in Instances, Crash(i)
        PROVE  Behind(e)'
    <2>1. /\ \A j \in Instances : held'[j] = IF j = i THEN None ELSE held[j]
          /\ \A q \in Partitions : owner'[q] = IF owner[q] = i THEN None ELSE owner[q]
          /\ \A j \in Instances, q \in Partitions : j # i => position'[j][q] = position[j][q]
          /\ committed' = committed
      BY <1>6 DEF Crash, TypeOK
    <2>2. None \notin Instances
      BY DEF BroadcastAssumption
    <2>3. \A j \in Instances : held'[j] # None /\ held'[j].partition = e.partition
                                => e.offset < held'[j].offset
      BY <1>0, <2>1 DEF Behind
    <2>4. \A j \in Instances :
            owner'[e.partition] = j => e.offset <= position'[j][e.partition]
      <3> SUFFICES ASSUME NEW j \in Instances, owner'[e.partition] = j
                   PROVE  e.offset <= position'[j][e.partition]
        OBVIOUS
      <3>1. j # i /\ owner[e.partition] = j
        BY <1>0, <2>1, <2>2
      <3>2. position'[j][e.partition] = position[j][e.partition]
        BY <1>0, <2>1, <3>1
      <3> QED
        BY <1>0, <3>1, <3>2 DEF Behind
    <2> QED
      BY <1>0, <2>1, <2>3, <2>4 DEF Behind
  <1> QED
    BY <1>1, <1>2, <1>3, <1>4, <1>5, <1>6
    DEF Next, Broadcaster, EmitResultsUpdated, BroadcastResultsUpdate, FanOut, Restart, Connect,
        Disconnect, vars, group

\* An event that ReadMessage returns comes after every clean one that it returned
\* before, on whatever instance.
LEMMA ReturnedIsNew ==
  ASSUME BroadcastAssumption, TypeOK, GroupInv, HeldInv,
         NEW i \in Instances, CommitMessages(i), hand' # hand
  PROVE  \E e \in Events :
           /\ e # None /\ \A j \in Instances : hand'[j] = IF j = i THEN e ELSE hand[j]
           /\ Handed(e)'
           /\ \A f \in Events : Handed(f) => Before(overtaken, f, e)
  <1>1. PICK e : e = held[i]
    OBVIOUS
  <1>2. e \in Events /\ e # None /\ e.partition \in Partitions /\ e.offset \in Nat
    BY <1>1, CommitMessagesEffect DEF Events, BroadcastAssumption
  <1>3. /\ \A j \in Instances : hand'[j] = IF j = i THEN e ELSE hand[j]
        /\ committed'[e.partition] = e.offset
        /\ \A j \in Instances : held'[j] = IF j = i THEN None ELSE held[j]
        /\ UNCHANGED <<topic, position, owner, overtaken>>
    BY <1>1, CommitMessagesEffect
  <1>4. \A f \in Events : Handed(f) => Before(overtaken, f, e)
    BY <1>1, <1>2 DEF Handed, Behind, Before
  <1>5. Produced(e) /\ (Clean(overtaken, e) => owner[e.partition] = i /\ position[i][e.partition] = e.offset)
    BY <1>1, <1>2 DEF HeldInv
  <1>6. ASSUME Clean(overtaken, e), NEW j \in Instances, j # i,
               held[j] # None, held[j].partition = e.partition
        PROVE  e.offset < held[j].offset
    <2>1. held[j] \in Events /\ held[j].offset \in Nat
      BY <1>6 DEF TypeOK, Events
    <2>2. ~Clean(overtaken, held[j])
      BY <1>5, <1>6 DEF HeldInv
    <2>3. overtaken[e.partition] \in 1..held[j].offset /\ overtaken[e.partition] \notin 1..e.offset
      BY <1>6, <2>2 DEF Clean
    <2> QED
      BY <1>2, <2>1, <2>3
  <1>7. Clean(overtaken, e) => Behind(e)'
    BY <1>2, <1>3, <1>5, <1>6 DEF Behind
  <1>8. Handed(e)'
    BY <1>3, <1>5, <1>7 DEF Handed, Produced
  <1> QED
    BY <1>2, <1>3, <1>4, <1>8

\* Every action keeps the claims.
LEMMA ClaimStep ==
  ASSUME BroadcastAssumption, TypeOK, GroupInv, HeldInv, ClaimInv, [Next]_vars
  PROVE  ClaimInv'
  <1>0. /\ \A e \in Events : Handed(e) => Handed(e)'
        /\ \A e \in Events : Clean(overtaken', e) => Clean(overtaken, e)
        /\ \A i \in Instances : hand[i] # None => hand[i] \in Events
        /\ \A x \in forwarded : x[1] \in Events /\ x[1] # None
    BY HandedStep, OvertakenStep DEF TypeOK, BroadcastAssumption
  <1>1. \A e : Overtaken(e) <=> ~Clean(overtaken, e)
    BY DEF Overtaken, Clean
  <1>2. \A e : Overtaken(e)' <=> ~Clean(overtaken', e)
    BY DEF Overtaken, Clean
  <1>3. CASE UNCHANGED <<hand, forwarded>>
    <2>1. \A i \in Instances : (hand[i] # None => Handed(hand[i]))'
      BY <1>0, <1>3 DEF ClaimInv
    <2>2. \A x \in forwarded' : Handed(x[1])'
      BY <1>0, <1>3 DEF ClaimInv
    <2>3. OneInstancePerEvent'
      BY <1>0, <1>1, <1>2, <1>3 DEF ClaimInv, OneInstancePerEvent
    <2> QED
      BY <1>0, <1>3, <2>1, <2>2, <2>3 DEF ClaimInv
  <1>4. ASSUME NEW i \in Instances, CommitMessages(i), hand' # hand
        PROVE  ClaimInv'
    <2>1. PICK e \in Events :
            /\ e # None /\ \A j \in Instances : hand'[j] = IF j = i THEN e ELSE hand[j]
            /\ Handed(e)'
            /\ \A f \in Events : Handed(f) => Before(overtaken, f, e)
      BY <1>4, ReturnedIsNew
    <2>2. forwarded' = forwarded /\ overtaken' = overtaken
      BY <1>4, CommitMessagesEffect
    <2>3. \A f \in Events : Handed(f) /\ f = e => ~Clean(overtaken, e)
      <3>1. e.offset \in Nat
        BY DEF Events
      <3> QED
        BY <2>1, <3>1 DEF Before
    <2>4. \A j \in Instances : (hand[j] # None => Handed(hand[j]))'
      BY <1>0, <2>1 DEF ClaimInv
    <2>5. \A x \in forwarded' : Handed(x[1])'
      BY <1>0, <2>2 DEF ClaimInv
    <2>6. \A j, k \in Instances :
            hand'[j] # None /\ hand'[j] = hand'[k] /\ j # k => ~Clean(overtaken, hand'[j])
      BY <1>0, <2>1, <2>3 DEF ClaimInv
    <2>7. \A j \in Instances : \A x \in forwarded : x[1] = hand'[j] => ~Clean(overtaken, hand'[j])
      BY <1>0, <2>1, <2>3 DEF ClaimInv
    <2>8. OneInstancePerEvent'
      BY <1>1, <1>2, <2>2 DEF ClaimInv, OneInstancePerEvent
    <2> QED
      BY <2>2, <2>4, <2>5, <2>6, <2>7, <2>8 DEF ClaimInv
  <1>5. ASSUME NEW i \in Instances, BroadcastResultsUpdate(i)
        PROVE  ClaimInv'
    <2>1. /\ hand[i] # None /\ hand[i] \in Events
          /\ forwarded' = forwarded \cup {<<hand[i], i>>}
          /\ \A j \in Instances : hand'[j] = IF j = i THEN None ELSE hand[j]
          /\ overtaken' = overtaken
      BY <1>0, <1>5 DEF BroadcastResultsUpdate, TypeOK, group
    <2>2. ASSUME NEW x \in forwarded'
          PROVE  x \in forwarded \/ (x[1] = hand[i] /\ x[2] = i)
      <3>1. x \in forwarded \/ x = <<hand[i], i>>
        BY <2>1
      <3> QED
        BY <3>1
    <2>3. \A x \in forwarded : x[1] = hand[i] => ~Clean(overtaken, hand[i])
      BY DEF ClaimInv
    <2>4. OneInstancePerEvent'
      <3> SUFFICES ASSUME NEW x \in forwarded', NEW y \in forwarded', x[1] = y[1], x[2] # y[2]
                   PROVE  ~Clean(overtaken, x[1])
        BY <1>2, <2>1 DEF OneInstancePerEvent
      <3>1. CASE x \in forwarded /\ y \in forwarded
        BY <1>1, <3>1 DEF ClaimInv, OneInstancePerEvent
      <3>2. CASE ~(x \in forwarded /\ y \in forwarded)
        BY <2>2, <2>3, <3>2
      <3> QED
        BY <3>1, <3>2
    <2>5. \A x \in forwarded' : Handed(x[1])'
      BY <1>0, <2>1, <2>2 DEF ClaimInv
    <2>6. \A j \in Instances : \A x \in forwarded' :
            x[1] = hand'[j] => ~Clean(overtaken, hand'[j])
      BY <1>0, <2>1, <2>2, <2>3 DEF ClaimInv
    <2>7. \A j \in Instances : (hand[j] # None => Handed(hand[j]))'
      BY <1>0, <2>1 DEF ClaimInv
    <2>8. \A j, k \in Instances :
            hand'[j] # None /\ hand'[j] = hand'[k] /\ j # k => ~Clean(overtaken, hand'[j])
      BY <2>1 DEF ClaimInv
    <2> QED
      BY <2>1, <2>4, <2>5, <2>6, <2>7, <2>8 DEF ClaimInv
  <1>6. ASSUME NEW i \in Instances, Crash(i)
        PROVE  ClaimInv'
    <2>1. /\ forwarded' = forwarded /\ overtaken' = overtaken
          /\ \A j \in Instances : hand'[j] = IF j = i THEN None ELSE hand[j]
      BY <1>6 DEF Crash, TypeOK
    <2>2. \A j \in Instances : (hand[j] # None => Handed(hand[j]))'
      BY <1>0, <2>1 DEF ClaimInv
    <2>3. \A x \in forwarded : Handed(x[1])'
      BY <1>0 DEF ClaimInv
    <2>4. OneInstancePerEvent'
      BY <1>1, <1>2, <2>1 DEF ClaimInv, OneInstancePerEvent
    <2> QED
      BY <1>0, <2>1, <2>2, <2>3, <2>4 DEF ClaimInv
  <1>7. ASSUME NEW i \in Instances, CommitMessages(i)
        PROVE  ClaimInv'
    <2>1. CASE hand' = hand
      BY <1>3, <1>7, <2>1, CommitMessagesEffect
    <2> QED
      BY <1>4, <1>7, <2>1
  <1> QED
    BY <1>3, <1>5, <1>6, <1>7
    DEF Next, Broadcaster, EmitResultsUpdated, FetchMessage, FanOut, Rebalance, Rejoin, Restart,
        Connect, Disconnect, vars, history

\* Every action keeps the order.
LEMMA OrderStep ==
  ASSUME BroadcastAssumption, TypeOK, GroupInv, HeldInv, ClaimInv, OrderInv, [Next]_vars
  PROVE  OrderInv'
  <1>0. /\ \A e \in Events : Handed(e) => Handed(e)'
        /\ \A i \in Instances : Elements(hub[i]) \subseteq Events
        /\ \A c \in Clients : Elements(shown[c]) \subseteq Events
        /\ hand \in [Instances -> Events \cup {None}]
        /\ \A x, y \in Events : Before(overtaken, x, y) => Before(overtaken', x, y)
    <2>1. /\ \A e \in Events : Handed(e) => Handed(e)'
          /\ \A x, y \in Events : Before(overtaken, x, y) => Before(overtaken', x, y)
      BY HandedStep, OvertakenStep DEF Before
    <2> QED
      BY <2>1 DEF TypeOK, Elements
  <1>1. CASE UNCHANGED <<hand, hub, at, shown>>
    <2>1. \A i \in Instances : HubOrder(i)'
      <3> SUFFICES ASSUME NEW i \in Instances PROVE HubOrder(i)'
        OBVIOUS
      <3>1. HubOrder(i)
        BY DEF OrderInv
      <3>2. \A m \in 1..Len(hub[i]) : hub[i][m] \in Events
        BY <1>0 DEF Elements
      <3>3. Sorted(overtaken', hub[i])
        BY <1>0, <3>1, <3>2 DEF HubOrder, Sorted
      <3>4. \A e \in Elements(hub[i]) :
              Handed(e)' /\ (hand[i] # None => Before(overtaken', e, hand[i]))
        BY <1>0, <3>1 DEF HubOrder
      <3> QED
        BY <1>1, <3>3, <3>4 DEF HubOrder
    <2>2. \A c \in Clients : ClientOrder(c)'
      <3> SUFFICES ASSUME NEW c \in Clients PROVE ClientOrder(c)'
        OBVIOUS
      <3>1. ClientOrder(c)
        BY DEF OrderInv
      <3>2. \A m \in 1..Len(shown[c]) : shown[c][m] \in Events
        BY <1>0 DEF Elements
      <3>3. Sorted(overtaken', shown[c])
        BY <1>0, <3>1, <3>2 DEF ClientOrder, Sorted
      <3> QED
        BY <1>0, <1>1, <3>1, <3>3 DEF ClientOrder
    <2>3. \A c \in Connected' : ChainOrder(c)'
      <3> SUFFICES ASSUME NEW c \in Connected PROVE ChainOrder(c)'
        BY <1>1 DEF Connected
      <3>1. ChainOrder(c) /\ at[c] \in Instances /\ c \in Clients
        BY DEF OrderInv, Connected
      <3>2. \A e \in Elements(shown[c]) :
              /\ \A f \in Elements(hub[at[c]]) : Before(overtaken', e, f)
              /\ hand[at[c]] # None => Before(overtaken', e, hand[at[c]])
        BY <1>0, <3>1 DEF ChainOrder
      <3> QED
        BY <1>1, <3>2 DEF ChainOrder
    <2> QED
      BY <2>1, <2>2, <2>3 DEF OrderInv
  <1>2. ASSUME NEW i \in Instances, CommitMessages(i), hand' # hand
        PROVE  OrderInv'
    <2>1. hub' = hub /\ at' = at /\ shown' = shown /\ overtaken' = overtaken
      BY <1>2, CommitMessagesEffect
    <2>2. PICK e \in Events :
            /\ e # None /\ \A j \in Instances : hand'[j] = IF j = i THEN e ELSE hand[j]
            /\ Handed(e)'
            /\ \A f \in Events : Handed(f) => Before(overtaken, f, e)
      BY <1>2, ReturnedIsNew
    <2>3. \A j \in Instances : HubOrder(j)'
      BY <1>0, <2>1, <2>2 DEF OrderInv, HubOrder
    <2>4. \A c \in Clients : ClientOrder(c)'
      BY <1>0, <2>1 DEF OrderInv, ClientOrder
    <2>5. \A c \in Connected' : ChainOrder(c)'
      BY <1>0, <2>1, <2>2 DEF OrderInv, ChainOrder, ClientOrder, Connected
    <2> QED
      BY <2>3, <2>4, <2>5 DEF OrderInv
  <1>3. ASSUME NEW i \in Instances, BroadcastResultsUpdate(i)
        PROVE  OrderInv'
    <2>1. PICK e : e = hand[i]
      OBVIOUS
    <2>2. /\ e \in Events /\ e # None /\ hub[i] \in Seq(Events)
          /\ at' = at /\ shown' = shown /\ overtaken' = overtaken
          /\ \A j \in Instances : hand'[j] = IF j = i THEN None ELSE hand[j]
          /\ \A j \in Instances : hub'[j] = IF j = i THEN Append(hub[i], e) ELSE hub[j]
      BY <1>3, <2>1 DEF BroadcastResultsUpdate, TypeOK, clients, group
    <2>3. Handed(e)
      BY <2>1, <2>2 DEF ClaimInv
    <2>4. Sorted(overtaken, hub[i]) /\ \A f \in Elements(hub[i]) : Before(overtaken, f, e)
      BY <2>1, <2>2 DEF OrderInv, HubOrder
    <2>5. /\ Elements(Append(hub[i], e)) = Elements(hub[i]) \cup {e}
          /\ Sorted(overtaken, Append(hub[i], e))
      BY <2>2, <2>4, SortedAppend
    <2>6. \A j \in Instances : HubOrder(j)'
      <3> SUFFICES ASSUME NEW j \in Instances PROVE HubOrder(j)'
        OBVIOUS
      <3>1. CASE j = i
        BY <1>0, <2>2, <2>3, <2>5, <3>1 DEF OrderInv, HubOrder
      <3>2. CASE j # i
        BY <1>0, <2>2, <3>2 DEF OrderInv, HubOrder
      <3> QED
        BY <3>1, <3>2
    <2>7. \A c \in Clients : ClientOrder(c)'
      BY <1>0, <2>2 DEF OrderInv, ClientOrder
    <2>8. \A c \in Connected' : ChainOrder(c)'
      <3> SUFFICES ASSUME NEW c \in Connected PROVE ChainOrder(c)'
        BY <2>2 DEF Connected
      <3>1. ChainOrder(c) /\ at[c] \in Instances
        BY DEF OrderInv, Connected
      <3>2. CASE at[c] = i
        BY <2>1, <2>2, <2>5, <3>1, <3>2 DEF ChainOrder
      <3>3. CASE at[c] # i
        BY <2>2, <3>1, <3>3 DEF ChainOrder
      <3> QED
        BY <3>2, <3>3
    <2> QED
      BY <2>6, <2>7, <2>8 DEF OrderInv
  <1>4. ASSUME NEW i \in Instances, FanOut(i)
        PROVE  OrderInv'
    <2>1. PICK e : e = Head(hub[i])
      OBVIOUS
    <2>2. PICK t : t = Tail(hub[i])
      OBVIOUS
    <2>3. PICK served : served = Audience(i, SessionOfEvent(e))
      OBVIOUS
    <2>4. /\ hub[i] \in Seq(Events) /\ hub[i] # <<>> /\ e \in Events
          /\ hub' = [hub EXCEPT ![i] = t]
          /\ at' = at /\ hand' = hand /\ overtaken' = overtaken
          /\ \A c \in Clients : shown'[c] = IF c \in served THEN Append(shown[c], e) ELSE shown[c]
      BY <1>4, <2>1, <2>2, <2>3, TailElements DEF FanOut, TypeOK, group
    <2>5. /\ Elements(hub[i]) = {e} \cup Elements(t)
          /\ Sorted(overtaken, hub[i]) => Sorted(overtaken, t) /\ \A f \in Elements(t) : Before(overtaken, e, f)
      BY <2>1, <2>2, <2>4, SortedTail
    <2>6. /\ Sorted(overtaken, t) /\ Handed(e) /\ (hand[i] # None => Before(overtaken, e, hand[i]))
          /\ \A f \in Elements(t) : Before(overtaken, e, f) /\ Handed(f) /\ (hand[i] # None => Before(overtaken, f, hand[i]))
      BY <2>5 DEF OrderInv, HubOrder
    <2>7. \A j \in Instances : hub'[j] = IF j = i THEN t ELSE hub[j]
      BY <2>4 DEF TypeOK
    <2>8. \A c \in served : c \in Clients /\ at[c] = i /\ SessionOf[c] = SessionOfEvent(e)
      BY <2>3 DEF Audience
    <2>9. e.partition = PartitionOf[SessionOfEvent(e)]
      <3>1. e.partition \in Partitions /\ e.offset \in Nat /\ e.offset >= 1
        BY <2>4 DEF Events
      <3>2. e.offset <= Len(topic[e.partition])
        BY <2>6 DEF Handed, Produced
      <3>3. e.offset \in 1..Len(topic[e.partition])
        BY <3>1, <3>2 DEF TypeOK
      <3> QED
        BY <3>1, <3>3 DEF GroupInv, SessionOfEvent
    <2>10. \A c \in served :
             /\ Elements(Append(shown[c], e)) = Elements(shown[c]) \cup {e}
             /\ Sorted(overtaken, Append(shown[c], e))
      <3> SUFFICES ASSUME NEW c \in served
                   PROVE  /\ Elements(Append(shown[c], e)) = Elements(shown[c]) \cup {e}
                          /\ Sorted(overtaken, Append(shown[c], e))
        OBVIOUS
      <3>1. c \in Connected /\ shown[c] \in Seq(Events) /\ at[c] = i /\ c \in Clients
        BY <2>8 DEF Connected, TypeOK
      <3>2. Sorted(overtaken, shown[c]) /\ \A f \in Elements(shown[c]) : Before(overtaken, f, e)
        BY <2>5, <3>1 DEF OrderInv, ClientOrder, ChainOrder
      <3> QED
        BY <2>4, <3>1, <3>2, SortedAppend
    <2>11. \A j \in Instances : HubOrder(j)'
      <3> SUFFICES ASSUME NEW j \in Instances PROVE HubOrder(j)'
        OBVIOUS
      <3>1. CASE j = i
        BY <1>0, <2>4, <2>5, <2>6, <2>7, <3>1 DEF HubOrder
      <3>2. CASE j # i
        BY <1>0, <2>4, <2>7, <3>2 DEF OrderInv, HubOrder
      <3> QED
        BY <3>1, <3>2
    <2>12. \A c \in Clients : ClientOrder(c)'
      <3> SUFFICES ASSUME NEW c \in Clients PROVE ClientOrder(c)'
        OBVIOUS
      <3>1. CASE c \in served
        <4>1. at[c] # "none"
          BY <2>8, <3>1 DEF BroadcastAssumption
        <4> QED
          BY <1>0, <2>4, <2>6, <2>8, <2>9, <2>10, <3>1, <4>1 DEF OrderInv, ClientOrder
      <3>2. CASE c \notin served
        BY <1>0, <2>4, <3>2 DEF OrderInv, ClientOrder
      <3> QED
        BY <3>1, <3>2
    <2>13. \A c \in Connected' : ChainOrder(c)'
      <3> SUFFICES ASSUME NEW c \in Connected PROVE ChainOrder(c)'
        BY <2>4 DEF Connected
      <3>1. ChainOrder(c) /\ at[c] \in Instances /\ c \in Clients
        BY DEF OrderInv, Connected
      <3>2. CASE c \in served
        BY <2>4, <2>5, <2>6, <2>7, <2>8, <2>10, <3>1, <3>2 DEF ChainOrder
      <3>3. CASE c \notin served /\ at[c] = i
        BY <2>4, <2>5, <2>7, <3>1, <3>3 DEF ChainOrder
      <3>4. CASE at[c] # i
        BY <2>4, <2>7, <2>8, <3>1, <3>4 DEF ChainOrder
      <3> QED
        BY <3>2, <3>3, <3>4
    <2> QED
      BY <2>11, <2>12, <2>13 DEF OrderInv
  <1>5. ASSUME NEW i \in Instances, Crash(i)
        PROVE  OrderInv'
    <2>1. /\ \A j \in Instances : hub'[j] = IF j = i THEN <<>> ELSE hub[j]
          /\ \A j \in Instances : hand'[j] = IF j = i THEN None ELSE hand[j]
          /\ \A c \in Clients : at'[c] = IF at[c] = i THEN "gone" ELSE at[c]
          /\ shown' = shown /\ overtaken' = overtaken
      BY <1>5 DEF Crash, TypeOK
    <2>2. \A j \in Instances : HubOrder(j)'
      BY <1>0, <2>1, EmptySorted DEF OrderInv, HubOrder
    <2>3. \A c \in Clients : ClientOrder(c)'
      BY <1>0, <2>1 DEF OrderInv, ClientOrder
    <2>4. \A c \in Connected' : ChainOrder(c)'
      BY <2>1 DEF OrderInv, ChainOrder, Connected, BroadcastAssumption
    <2> QED
      BY <2>2, <2>3, <2>4 DEF OrderInv
  <1>6. ASSUME NEW c \in Clients, NEW i \in Instances, Connect(c, i)
        PROVE  OrderInv'
    <2>1. /\ \A d \in Clients : at'[d] = IF d = c THEN i ELSE at[d]
          /\ hub' = hub /\ hand' = hand /\ shown' = shown /\ overtaken' = overtaken
          /\ at[c] = "none"
      BY <1>6 DEF Connect, TypeOK, group
    <2>2. Elements(shown[c]) = {}
      BY <2>1, EmptySorted DEF OrderInv, ClientOrder
    <2>3. i # "none"
      BY DEF BroadcastAssumption
    <2>4. \A d \in Clients : ClientOrder(d)'
      BY <1>0, <2>1, <2>3 DEF OrderInv, ClientOrder
    <2>5. \A d \in Connected' : ChainOrder(d)'
      BY <2>1, <2>2 DEF OrderInv, ChainOrder, Connected
    <2> QED
      BY <1>0, <2>1, <2>4, <2>5 DEF OrderInv, HubOrder
  <1>7. ASSUME NEW c \in Clients, Disconnect(c)
        PROVE  OrderInv'
    <2>1. /\ \A d \in Clients : at'[d] = IF d = c THEN "gone" ELSE at[d]
          /\ hub' = hub /\ hand' = hand /\ shown' = shown /\ overtaken' = overtaken
      BY <1>7 DEF Disconnect, TypeOK, group
    <2>2. \A d \in Connected' : d \in Connected /\ at'[d] = at[d]
      BY <2>1 DEF Connected, BroadcastAssumption
    <2> QED
      BY <1>0, <2>1, <2>2 DEF OrderInv, HubOrder, ClientOrder, ChainOrder
  <1>8. ASSUME NEW i \in Instances, CommitMessages(i)
        PROVE  OrderInv'
    <2>1. CASE hand' = hand
      BY <1>1, <1>8, <2>1, CommitMessagesEffect
    <2> QED
      BY <1>2, <1>8, <2>1
  <1> QED
    BY <1>1, <1>3, <1>4, <1>5, <1>6, <1>7, <1>8
    DEF Next, Broadcaster, EmitResultsUpdated, FetchMessage, Rebalance, Rejoin, Restart, vars,
        clients

\* Every action keeps what the clients wait for.
LEMMA DueStep ==
  ASSUME BroadcastAssumption, TypeOK, GroupInv, HeldInv, ClaimInv, OrderInv, DueInv, [Next]_vars
  PROVE  DueInv'
  <1>0. /\ \A c \in Clients : ShownTo(c) = Elements(shown[c]) /\ ShownTo(c)' = Elements(shown'[c])
        /\ \A i \in Instances : InHub(i) = Elements(hub[i]) /\ InHub(i)' = Elements(hub'[i])
        /\ due \subseteq Clients \X Events
    BY DEF ShownTo, InHub, Elements, TypeOK
  <1>1. CASE UNCHANGED <<topic, hub, at, shown, forwarded, due>>
    BY <1>1 DEF DueInv, OwnInstanceShows, Connected, ShownTo, InHub, SessionOfEvent, Produced
  <1>2. ASSUME NEW s \in Sessions, EmitResultsUpdated(s)
        PROVE  DueInv'
    <2>1. PICK p \in Partitions : p = PartitionOf[s]
      BY DEF BroadcastAssumption
    <2>2. PICK new : new = [partition |-> p, offset |-> Len(topic[p]) + 1]
      OBVIOUS
    <2>3. /\ topic' = [topic EXCEPT ![p] = Append(topic[p], s)]
          /\ UNCHANGED <<hub, at, shown, forwarded>>
          /\ due' = due \cup {<<c, new>> : c \in {d \in Connected : SessionOf[d] = s}}
          /\ topic[p] \in Seq(Sessions) /\ Len(topic[p]) \in Nat
      BY <1>2, <2>1, <2>2 DEF EmitResultsUpdated, clients, TypeOK
    <2>4. /\ \A q \in Partitions : q # p => topic'[q] = topic[q]
          /\ Len(topic'[p]) = Len(topic[p]) + 1
          /\ \A n \in 1..Len(topic[p]) : topic'[p][n] = topic[p][n]
          /\ topic'[p][Len(topic[p]) + 1] = s
      <3>1. topic'[p] = Append(topic[p], s) /\ \A q \in Partitions : q # p => topic'[q] = topic[q]
        BY <2>3 DEF TypeOK
      <3> QED
        BY <2>3, <3>1, AppendElements
    <2>5. \A x \in due' : x \in due \/ (x[2] = new /\ x[1] \in Connected /\ SessionOf[x[1]] = s)
      BY <2>3
    <2>6. \A e \in Events : Produced(e) => Produced(e)' /\ SessionOfEvent(e)' = SessionOfEvent(e)
      BY ProducedStep
    <2>7. Produced(new)' /\ SessionOfEvent(new)' = s
      BY <2>2, <2>3, <2>4 DEF Produced, SessionOfEvent
    <2>8. \A x \in due' : /\ Produced(x[2])'
                          /\ SessionOfEvent(x[2])' = SessionOf[x[1]]
                          /\ at'[x[1]] # "none"
      <3> SUFFICES ASSUME NEW x \in due'
                   PROVE  /\ Produced(x[2])'
                          /\ SessionOfEvent(x[2])' = SessionOf[x[1]]
                          /\ at'[x[1]] # "none"
        OBVIOUS
      <3>1. CASE x \in due
        <4>1. x[2] \in Events
          BY <1>0, <3>1
        <4> QED
          BY <2>3, <2>6, <3>1, <4>1 DEF DueInv
      <3>2. CASE x[2] = new /\ x[1] \in Connected /\ SessionOf[x[1]] = s
        BY <2>3, <2>7, <3>2 DEF Connected, BroadcastAssumption
      <3> QED
        BY <2>5, <3>1, <3>2
    <2>9. \A i \in Instances : <<new, i>> \notin forwarded
      <3> SUFFICES ASSUME NEW i \in Instances, <<new, i>> \in forwarded
                   PROVE  FALSE
        OBVIOUS
      <3>1. Produced(new)
        BY DEF ClaimInv, Handed
      <3> QED
        BY <2>2, <2>3, <3>1 DEF Produced
    <2>10. OwnInstanceShows'
      <3> SUFFICES ASSUME NEW c \in Connected, NEW e \in Events,
                          <<c, e>> \in due', <<e, at[c]>> \in forwarded
                   PROVE  e \in ShownTo(c) \cup InHub(at[c])
        BY <2>3 DEF OwnInstanceShows, Connected, ShownTo, InHub
      <3>1. e # new
        BY <2>9 DEF Connected
      <3>2. <<c, e>> \in due
        BY <2>3, <3>1
      <3> QED
        BY <3>2 DEF DueInv, OwnInstanceShows
    <2> QED
      BY <2>8, <2>10 DEF DueInv
  <1>3. ASSUME NEW i \in Instances, BroadcastResultsUpdate(i)
        PROVE  DueInv'
    <2>1. PICK e : e = hand[i]
      OBVIOUS
    <2>2. /\ e \in Events /\ hub[i] \in Seq(Events)
          /\ topic' = topic /\ at' = at /\ shown' = shown /\ due' = due
          /\ forwarded' = forwarded \cup {<<e, i>>}
          /\ \A j \in Instances : hub'[j] = IF j = i THEN Append(hub[i], e) ELSE hub[j]
      BY <1>3, <2>1 DEF BroadcastResultsUpdate, TypeOK, clients, group
    <2>3. Elements(Append(hub[i], e)) = Elements(hub[i]) \cup {e}
      BY <2>2, SortedAppend
    <2>4. OwnInstanceShows'
      <3> SUFFICES ASSUME NEW c \in Connected, NEW f \in Events,
                          <<c, f>> \in due, <<f, at[c]>> \in forwarded'
                   PROVE  f \in Elements(shown[c]) \cup Elements(hub'[at[c]])
        BY <1>0, <2>2 DEF OwnInstanceShows, Connected
      <3>1. at[c] \in Instances /\ c \in Clients
        BY DEF Connected
      <3>2. CASE <<f, at[c]>> \in forwarded
        <4>1. f \in Elements(shown[c]) \cup Elements(hub[at[c]])
          BY <1>0, <3>1, <3>2 DEF DueInv, OwnInstanceShows
        <4> QED
          BY <2>2, <2>3, <3>1, <4>1
      <3>3. CASE f = e /\ at[c] = i
        BY <2>2, <2>3, <3>3
      <3> QED
        BY <2>2, <3>2, <3>3
    <2> QED
      BY <2>2, <2>4 DEF DueInv, SessionOfEvent, Produced
  <1>4. ASSUME NEW i \in Instances, FanOut(i)
        PROVE  DueInv'
    <2>1. PICK e : e = Head(hub[i])
      OBVIOUS
    <2>2. /\ hub[i] \in Seq(Events) /\ hub[i] # <<>> /\ e \in Events
          /\ topic' = topic /\ at' = at /\ forwarded' = forwarded /\ due' = due
          /\ \A j \in Instances : hub'[j] = IF j = i THEN Tail(hub[i]) ELSE hub[j]
          /\ \A c \in Clients : shown'[c] = IF c \in Audience(i, SessionOfEvent(e))
                                         THEN Append(shown[c], e) ELSE shown[c]
      BY <1>4, <2>1, TailElements DEF FanOut, TypeOK, group, history
    <2>3. Elements(hub[i]) = {e} \cup Elements(Tail(hub[i]))
      BY <2>1, <2>2, SortedTail
    <2>4. \A c \in Clients : Elements(Append(shown[c], e)) = Elements(shown[c]) \cup {e}
      BY <2>2, SortedAppend DEF TypeOK
    <2>5. OwnInstanceShows'
      <3> SUFFICES ASSUME NEW c \in Connected, NEW f \in Events,
                          <<c, f>> \in due, <<f, at[c]>> \in forwarded
                   PROVE  f \in Elements(shown'[c]) \cup Elements(hub'[at[c]])
        BY <1>0, <2>2 DEF OwnInstanceShows, Connected
      <3>1. at[c] \in Instances /\ c \in Clients
        BY DEF Connected
      <3>2. f \in Elements(shown[c]) \cup Elements(hub[at[c]])
        BY <1>0, <3>1 DEF DueInv, OwnInstanceShows
      <3>3. Elements(shown[c]) \subseteq Elements(shown'[c])
        BY <2>2, <2>4, <3>1
      <3>4. CASE f = e /\ at[c] = i
        <4>1. SessionOfEvent(e) = SessionOf[c]
          BY <3>4 DEF DueInv
        <4>2. c \in Audience(i, SessionOfEvent(e))
          BY <3>1, <3>4, <4>1 DEF Audience
        <4> QED
          BY <2>2, <2>4, <3>1, <3>4, <4>2
      <3>5. CASE f # e \/ at[c] # i
        BY <2>2, <2>3, <3>1, <3>2, <3>3, <3>5
      <3> QED
        BY <3>4, <3>5
    <2> QED
      BY <2>2, <2>5 DEF DueInv, SessionOfEvent, Produced
  <1>5. ASSUME NEW i \in Instances, Crash(i)
        PROVE  DueInv'
    <2>1. /\ \A j \in Instances : j # i => hub'[j] = hub[j]
          /\ \A c \in Clients : at'[c] = IF at[c] = i THEN "gone" ELSE at[c]
          /\ topic' = topic /\ shown' = shown /\ forwarded' = forwarded /\ due' = due
      BY <1>5 DEF Crash, TypeOK
    <2>2. \A c \in Connected' : c \in Connected /\ at'[c] = at[c] /\ at[c] # i
      BY <2>1 DEF Connected, BroadcastAssumption
    <2>3. OwnInstanceShows'
      BY <1>0, <2>1, <2>2 DEF DueInv, OwnInstanceShows, Connected
    <2>4. \A x \in due : x[1] \in Clients
      BY <1>0
    <2> QED
      BY <2>1, <2>3, <2>4 DEF DueInv, SessionOfEvent, Produced
  <1>6. ASSUME NEW c \in Clients, NEW i \in Instances, Connect(c, i)
        PROVE  DueInv'
    <2>1. /\ \A d \in Clients : at'[d] = IF d = c THEN i ELSE at[d]
          /\ UNCHANGED <<topic, hub, shown, forwarded, due>>
          /\ at[c] = "none"
      BY <1>6 DEF Connect, TypeOK, group, history
    <2>2. \A x \in due : x[1] \in Clients /\ x[1] # c
      BY <1>0, <2>1 DEF DueInv
    <2>3. \A e : <<c, e>> \notin due
      BY <2>2
    <2>4. OwnInstanceShows'
      BY <2>1, <2>3 DEF DueInv, OwnInstanceShows, Connected, ShownTo, InHub
    <2> QED
      BY <2>1, <2>2, <2>4 DEF DueInv, SessionOfEvent, Produced
  <1>7. ASSUME NEW c \in Clients, Disconnect(c)
        PROVE  DueInv'
    <2>1. /\ \A d \in Clients : at'[d] = IF d = c THEN "gone" ELSE at[d]
          /\ UNCHANGED <<topic, hub, shown, forwarded, due>>
      BY <1>7 DEF Disconnect, TypeOK, group, history
    <2>2. \A x \in due : x[1] \in Clients
      BY <1>0
    <2>3. \A d \in Connected' : d \in Connected /\ at'[d] = at[d]
      BY <2>1 DEF Connected, BroadcastAssumption
    <2>4. OwnInstanceShows'
      BY <2>1, <2>3 DEF DueInv, OwnInstanceShows, ShownTo, InHub
    <2> QED
      BY <2>1, <2>2, <2>4 DEF DueInv, SessionOfEvent, Produced
  <1> QED
    BY <1>1, <1>2, <1>3, <1>4, <1>5, <1>6, <1>7
    DEF Next, Broadcaster, FetchMessage, CommitMessages, Rebalance, Rejoin, Restart, vars, group, clients, history

BroadcastInv == TypeOK /\ GroupInv /\ HeldInv /\ ClaimInv /\ OrderInv /\ DueInv

LEMMA BroadcastInvariant == Spec => []BroadcastInv
  <1>1. Init => BroadcastInv
    BY BroadcastAssumption, BroadcastInit DEF BroadcastInv
  <1>2. BroadcastInv /\ [Next]_vars => BroadcastInv'
    BY BroadcastAssumption, TypeStep, GroupStep, HeldStep, ClaimStep, OrderStep, DueStep DEF BroadcastInv
  <1> QED
    BY <1>1, <1>2, PTL DEF Spec

\* Every variable of the broadcast keeps its type: offsets stay in the topic,
\* and no hub is handed more than it takes.
THEOREM BroadcastTypeCorrect == Spec => []TypeOK
  <1>1. BroadcastInv => TypeOK
    BY DEF BroadcastInv
  <1> QED
    BY <1>1, BroadcastInvariant, PTL

\* StartResultsBroadcaster commits before it broadcasts: only an event whose reader,
\* or that of an event before it, was overtaken between FetchMessage and
\* CommitMessages is broadcast by two instances.
THEOREM OneInstancePerEventHolds == Spec => []OneInstancePerEvent
  <1>1. BroadcastInv => OneInstancePerEvent
    BY DEF BroadcastInv, ClaimInv
  <1> QED
    BY <1>1, BroadcastInvariant, PTL

\* A connection is sent its session's events in the order of the topic, and none
\* again that was not overtaken.
THEOREM ShownInOrderHolds == Spec => []ShownInOrder
  <1>1. BroadcastInv => ShownInOrder
    <2> SUFFICES ASSUME BroadcastInv, NEW c \in Clients,
                        NEW m \in 1..Len(shown[c]), NEW n \in 1..Len(shown[c]), m < n,
                        ~Overtaken(shown[c][m])
                 PROVE  shown[c][m].offset < shown[c][n].offset
      BY DEF ShownInOrder
    <2>1. ClientOrder(c)
      BY DEF BroadcastInv, OrderInv
    <2>2. shown[c][m] \in Elements(shown[c]) /\ shown[c][n] \in Elements(shown[c])
      BY DEF Elements
    <2>3. Before(overtaken, shown[c][m], shown[c][n])
      BY <2>1 DEF ClientOrder, Sorted
    <2>4. Clean(overtaken, shown[c][m])
      BY DEF Overtaken, Clean
    <2> QED
      BY <2>1, <2>2, <2>3, <2>4 DEF ClientOrder, Before
  <1> QED
    BY <1>1, BroadcastInvariant, PTL

\* The hub of a client's instance shows it every event this instance broadcasts
\* of those produced since it connected.
THEOREM OwnInstanceShowsHolds == Spec => []OwnInstanceShows
  <1>1. BroadcastInv => OwnInstanceShows
    BY DEF BroadcastInv, DueInv
  <1> QED
    BY <1>1, BroadcastInvariant, PTL
=============================================================================
