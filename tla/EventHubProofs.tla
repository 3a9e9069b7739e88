---------------------------- MODULE EventHubProofs ----------------------------
(***************************************************************************)
(* Theorems about EventHub, for every number of connections, users and     *)
(* events, every capacity of the channels and every limit.  That the hub   *)
(* never closes a channel twice rests on where a connection may be queued; *)
(* how many copies of an event are sent, on how many are under way.        *)
(***************************************************************************)
EXTENDS EventHub, FiniteSetTheorems, TLAPS

\* How often e occurs in s.
Places(s, e) == {i \in 1..Len(s) : s[i] = e}
Occ(s, e) == Cardinality(Places(s, e))

\* A connection enters the hub's map from the register channel, once, and its
\* channel is closed when it is in neither.
SubscribedOnce ==
  /\ clients \cap closed = {}
  /\ \A c \in Clients :
       conn[c] \in {"new", "accepted", "refused"} =>
         c \notin clients \cup closed /\ \A i \in 1..Len(register) : register[i] # c
  /\ \A i \in 1..Len(register) : register[i] \notin clients \cup closed
  /\ \A i, j \in 1..Len(register) : register[i] = register[j] => i = j

\* The limit of a user is that of a finite map.
MapIsBounded == IsFiniteSet(clients) /\ LimitHolds

\* Copies of an event that its publisher has handed out.
Handed(e) ==
  LET local == IF Origin[e] = "api" THEN 1 ELSE 0 IN
  CASE pub[e] \in {"new", "send"} -> 0
    [] pub[e] = "relay"           -> local
    [] pub[e] = "done"            -> local + 1

UnderWay(e) == Occ(events, e) + Occ(broadcast, e) + Occ(redis, e)

\* None is made on the way: what a client got and what is under way, together.
NoCopyIsMade == \A c \in Clients, e \in Events : got[c][e] + UnderWay(e) <= Handed(e)

OnlyForTheAddressee ==
  \A c \in Clients, e \in Events :
    got[c][e] > 0 => MatchesFilters(c, e) /\ MatchesScope(c, e)

USE ConstantsAssumption

-----------------------------------------------------------------------------
(* Occurrences.                                                            *)

LEMMA OccType ==
  ASSUME NEW S, NEW s \in Seq(S), NEW e
  PROVE  IsFiniteSet(Places(s, e)) /\ Occ(s, e) \in Nat
<1>1. IsFiniteSet(1..Len(s))
  BY FS_Interval
<1>2. Places(s, e) \in SUBSET (1..Len(s))
  BY DEF Places
<1>3. IsFiniteSet(Places(s, e))
  BY <1>1, <1>2, FS_Subset
<1> QED BY <1>3, FS_CardinalityType DEF Occ

LEMMA OccEmpty == ASSUME NEW e PROVE Occ(<<>>, e) = 0
<1>1. Places(<<>>, e) = {}
  BY DEF Places
<1> QED BY <1>1, FS_EmptySet DEF Occ

LEMMA OccAppend ==
  ASSUME NEW S, NEW s \in Seq(S), NEW x \in S, NEW e
  PROVE  Occ(Append(s, x), e) = IF x = e THEN Occ(s, e) + 1 ELSE Occ(s, e)
<1>1. IsFiniteSet(Places(s, e))
  BY OccType
<1>2. Len(s) + 1 \notin Places(s, e)
  BY DEF Places
<1>3. Places(Append(s, x), e) =
        IF x = e THEN Places(s, e) \cup {Len(s) + 1} ELSE Places(s, e)
  BY DEF Places
<1>4. Cardinality(Places(s, e) \cup {Len(s) + 1}) = Cardinality(Places(s, e)) + 1
  BY <1>1, <1>2, FS_AddElement
<1> QED BY <1>3, <1>4 DEF Occ

LEMMA OccTail ==
  ASSUME NEW S, NEW s \in Seq(S), s # <<>>, NEW e
  PROVE  /\ Head(s) = e => Occ(s, e) = Occ(Tail(s), e) + 1
         /\ Head(s) # e => Occ(s, e) = Occ(Tail(s), e)
<1> DEFINE moved == {i \in 2..Len(s) : s[i] = e}
           f == [i \in Places(Tail(s), e) |-> i + 1]
<1>1. Tail(s) \in Seq(S) /\ Len(s) \in Nat \ {0} /\ Len(Tail(s)) = Len(s) - 1
  OBVIOUS
<1>2. IsFiniteSet(Places(Tail(s), e))
  BY <1>1, OccType
<1>3. f \in Bijection(Places(Tail(s), e), moved)
  <2>1. \A i \in Places(Tail(s), e) : i \in Nat /\ i + 1 \in moved
    BY <1>1 DEF Places
  <2>2. \A j \in moved : j - 1 \in Places(Tail(s), e) /\ (j - 1) + 1 = j
    BY <1>1 DEF Places
  <2>3. f \in [Places(Tail(s), e) -> moved]
    BY <2>1
  <2>4. \A i, j \in Places(Tail(s), e) : f[i] = f[j] => i = j
    BY <2>1
  <2>5. \A j \in moved : \E i \in Places(Tail(s), e) : f[i] = j
    BY <2>2
  <2> QED BY <2>3, <2>4, <2>5 DEF Bijection, Injection, Surjection, IsInjective
<1>4. ExistsBijection(Places(Tail(s), e), moved)
  BY <1>3 DEF ExistsBijection
<1>5. IsFiniteSet(moved) /\ Cardinality(moved) = Cardinality(Places(Tail(s), e))
  BY <1>2, <1>4, FS_Bijection
<1>6. Places(s, e) = IF Head(s) = e THEN moved \cup {1} ELSE moved
  BY <1>1 DEF Places
<1>7. 1 \notin moved
  OBVIOUS
<1> HIDE DEF moved
<1>8. Cardinality(moved \cup {1}) = Cardinality(moved) + 1
  BY <1>5, <1>7, FS_AddElement
<1> QED BY <1>5, <1>6, <1>8 DEF Occ

-----------------------------------------------------------------------------
(* Type correctness.                                                       *)

LEMMA InitTypeOK == Init => TypeOK
<1> SUFFICES ASSUME Init PROVE TypeOK
  OBVIOUS
<1> USE DEF Init
<1>1. conn \in [Clients -> Conn] /\ pub \in [Events -> Pub]
  BY DEF Conn, Pub
<1>2. buf \in [Clients -> Seq(Events)] /\ \A c \in Clients : Len(buf[c]) <= BufCap
  OBVIOUS
<1>3. got \in [Clients -> [Events -> Nat]]
  OBVIOUS
<1>4. /\ register \in Seq(Clients) /\ unregister \in Seq(Clients)
      /\ events \in Seq(Events) /\ broadcast \in Seq(Events) /\ redis \in Seq(Events)
      /\ Len(<<>>) = 0
  OBVIOUS
<1>5. losses \in 0..MaxLosses
  OBVIOUS
<1>6. panicked \in BOOLEAN
  OBVIOUS
<1> QED BY <1>1, <1>2, <1>3, <1>4, <1>5, <1>6 DEF TypeOK

LEMMA DispatchType ==
  ASSUME TypeOK, NEW e \in Events, Dispatch(e)
  PROVE  /\ buf' \in [Clients -> Seq(Events)] /\ \A c \in Clients : Len(buf'[c]) <= BufCap
         /\ got' \in [Clients -> [Events -> Nat]]
         /\ panicked' \in BOOLEAN
<1> DEFINE to == {c \in clients : MatchesFilters(c, e) /\ MatchesScope(c, e) /\ Room(c)}
<1>1. /\ buf' = [c \in Clients |-> IF c \in to THEN Append(buf[c], e) ELSE buf[c]]
      /\ got' = [c \in Clients |-> IF c \in to THEN [got[c] EXCEPT ![e] = @ + 1] ELSE got[c]]
      /\ panicked' \in BOOLEAN
  BY DEF Dispatch, TypeOK
<1>2. \A c \in to : Len(buf[c]) < BufCap
  BY DEF Room
<1> HIDE DEF to
<1>3. \A c \in Clients : buf[c] \in Seq(Events) /\ Len(buf[c]) <= BufCap
  BY DEF TypeOK
<1>4. ASSUME NEW c \in Clients
      PROVE  buf'[c] \in Seq(Events) /\ Len(buf'[c]) <= BufCap
  BY <1>1, <1>2, <1>3
<1>5. \A c \in Clients : got'[c] \in [Events -> Nat]
  BY <1>1 DEF TypeOK
<1> QED BY <1>1, <1>4, <1>5

LEMMA TailType ==
  ASSUME NEW S, NEW s \in Seq(S), s # <<>>
  PROVE  /\ Head(s) \in S /\ Tail(s) \in Seq(S)
         /\ Len(Tail(s)) = Len(s) - 1 /\ Len(s) \in Nat \ {0}
  OBVIOUS

LEMMA AppendType ==
  ASSUME NEW S, NEW s \in Seq(S), NEW x \in S
  PROVE  Append(s, x) \in Seq(S) /\ Len(Append(s, x)) = Len(s) + 1 /\ Len(s) \in Nat
  OBVIOUS

LEMMA ConnectionTypeOK ==
  ASSUME TypeOK, NEW c \in Clients,
         Connect(c) \/ Subscribe(c) \/ Read(c) \/ Leave(c) \/ Cleanup(c)
  PROVE  TypeOK'
<1> USE DEF TypeOK, hub
<1>1. CASE Connect(c)   BY <1>1 DEF Connect, Conn
<1>2. CASE Subscribe(c) BY <1>2, AppendType DEF Subscribe, Conn
<1>3. CASE Read(c)
  <2>1. /\ buf[c] \in Seq(Events) /\ Len(buf[c]) <= BufCap
        /\ Tail(buf[c]) \in Seq(Events) /\ Len(Tail(buf[c])) <= BufCap
    BY <1>3, TailType DEF Read
  <2> QED BY <1>3, <2>1 DEF Read
<1>4. CASE Leave(c)     BY <1>4 DEF Leave, Conn
<1>5. CASE Cleanup(c)   BY <1>5, AppendType DEF Cleanup, Conn
<1> QED BY <1>1, <1>2, <1>3, <1>4, <1>5

LEMMA HubTypeOK ==
  ASSUME TypeOK, HubRegister \/ HubUnregister \/ HubEvent \/ HubBroadcast
  PROVE  TypeOK'
<1> USE DEF TypeOK
<1>1. CASE HubRegister
  <2>1. /\ Head(register) \in Clients /\ register' = Tail(register)
        /\ Tail(register) \in Seq(Clients) /\ Len(Tail(register)) <= ChanCap
    BY <1>1, TailType DEF HubRegister
  <2>2. clients' \subseteq Clients /\ closed' \subseteq Clients /\ panicked' \in BOOLEAN
    BY <1>1, <2>1 DEF HubRegister, Close
  <2> QED BY <1>1, <2>1, <2>2 DEF HubRegister
<1>2. CASE HubUnregister
  <2>1. /\ Head(unregister) \in Clients /\ unregister' = Tail(unregister)
        /\ Tail(unregister) \in Seq(Clients) /\ Len(Tail(unregister)) <= ChanCap
    BY <1>2, TailType DEF HubUnregister
  <2>2. clients' \subseteq Clients /\ closed' \subseteq Clients /\ panicked' \in BOOLEAN
    BY <1>2, <2>1 DEF HubUnregister, Close
  <2> QED BY <1>2, <2>1, <2>2 DEF HubUnregister
<1>3. CASE HubEvent
  <2>1. events # <<>> /\ Head(events) \in Events /\ Dispatch(Head(events))
    BY <1>3, TailType DEF HubEvent
  <2> QED BY <1>3, <2>1, DispatchType, TailType DEF HubEvent
<1>4. CASE HubBroadcast
  <2>1. broadcast # <<>> /\ Head(broadcast) \in Events /\ Dispatch(Head(broadcast))
    BY <1>4, TailType DEF HubBroadcast
  <2> QED BY <1>4, <2>1, DispatchType, TailType DEF HubBroadcast
<1> QED BY <1>1, <1>2, <1>3, <1>4

LEMMA PublisherTypeOK ==
  ASSUME TypeOK, NEW e \in Events, StartPublish(e) \/ SendToHub(e) \/ PublishToRedis(e)
  PROVE  TypeOK'
<1> USE DEF TypeOK, hub, Pub
<1>1. CASE StartPublish(e)   BY <1>1 DEF StartPublish
<1>2. CASE SendToHub(e)
  <2>1. CASE Len(events) < ChanCap /\ events' = Append(events, e) /\ UNCHANGED broadcast
    <3>1. events' \in Seq(Events) /\ Len(events') <= ChanCap
      BY <2>1, AppendType
    <3>2. pub' \in [Events -> Pub]
      BY <1>2 DEF SendToHub
    <3> QED BY <1>2, <2>1, <3>1, <3>2 DEF SendToHub
  <2>2. CASE Len(broadcast) < ChanCap /\ broadcast' = Append(broadcast, e) /\ UNCHANGED events
    <3>1. broadcast' \in Seq(Events) /\ Len(broadcast') <= ChanCap
      BY <2>2, AppendType
    <3>2. pub' \in [Events -> Pub]
      BY <1>2 DEF SendToHub
    <3> QED BY <1>2, <2>2, <3>1, <3>2 DEF SendToHub
  <2> QED BY <1>2, <2>1, <2>2 DEF SendToHub
<1>3. CASE PublishToRedis(e)
  <2>1. redis' \in Seq(Events) /\ losses' \in 0..MaxLosses
    <3>1. CASE redis' = Append(redis, e) /\ UNCHANGED losses
      BY <3>1, AppendType
    <3>2. CASE losses < MaxLosses /\ losses' = losses + 1 /\ UNCHANGED redis
      BY <3>2
    <3> QED BY <1>3, <3>1, <3>2 DEF PublishToRedis
  <2>2. pub' \in [Events -> Pub]
    BY <1>3 DEF PublishToRedis
  <2> QED BY <1>3, <2>1, <2>2 DEF PublishToRedis
<1> QED BY <1>1, <1>2, <1>3

LEMMA RedisTypeOK ==
  ASSUME TypeOK, Relay \/ RedisLoses
  PROVE  TypeOK'
<1> USE DEF TypeOK, hub
<1>1. CASE Relay      BY <1>1, AppendType, TailType DEF Relay
<1>2. CASE RedisLoses BY <1>2, TailType DEF RedisLoses
<1> QED BY <1>1, <1>2

LEMMA StepTypeOK == TypeOK /\ [Next]_vars => TypeOK'
<1> SUFFICES ASSUME TypeOK, [Next]_vars PROVE TypeOK'
  OBVIOUS
<1>1. CASE UNCHANGED vars
  BY <1>1 DEF TypeOK, vars, hub
<1> QED
  BY <1>1, ConnectionTypeOK, HubTypeOK, PublisherTypeOK, RedisTypeOK DEF Next

\* Every variable has its type in every reachable state; above all, no channel
\* ever holds more than its capacity (NewHub and Subscribe in events.go).
THEOREM TypeCorrect == Spec => []TypeOK
  BY InitTypeOK, StepTypeOK, PTL DEF Spec

-----------------------------------------------------------------------------
(* Closing.                                                                *)

\* Only these steps touch what SubscribedOnce speaks of.
LEMMA OthersKeepSubscriptions ==
  ASSUME [Next]_vars,
         \A c \in Clients : ~Connect(c) /\ ~Subscribe(c) /\ ~Leave(c) /\ ~Cleanup(c),
         ~HubRegister, ~HubUnregister
  PROVE  UNCHANGED <<conn, register, clients, closed>>
<1> USE DEF hub
<1>1. CASE UNCHANGED vars BY <1>1 DEF vars
<1>2. ASSUME NEW c \in Clients, Read(c) PROVE UNCHANGED <<conn, register, clients, closed>>
  BY <1>2 DEF Read
<1>3. CASE HubEvent     BY <1>3 DEF HubEvent
<1>4. CASE HubBroadcast BY <1>4 DEF HubBroadcast
<1>5. ASSUME NEW e \in Events, StartPublish(e) \/ SendToHub(e) \/ PublishToRedis(e)
      PROVE  UNCHANGED <<conn, register, clients, closed>>
  BY <1>5 DEF StartPublish, SendToHub, PublishToRedis
<1>6. CASE Relay \/ RedisLoses BY <1>6 DEF Relay, RedisLoses
<1> QED BY <1>1, <1>2, <1>3, <1>4, <1>5, <1>6 DEF Next

LEMMA StepSubscribedOnce == TypeOK /\ SubscribedOnce /\ [Next]_vars => SubscribedOnce'
<1> SUFFICES ASSUME TypeOK, SubscribedOnce, [Next]_vars PROVE SubscribedOnce'
  OBVIOUS
<1> USE DEF SubscribedOnce
<1>0. conn \in [Clients -> Conn] /\ register \in Seq(Clients)
  BY DEF TypeOK
<1>1. ASSUME NEW c \in Clients, Connect(c) PROVE SubscribedOnce'
  BY <1>0, <1>1 DEF Connect, hub
<1>2. ASSUME NEW c \in Clients, Subscribe(c) PROVE SubscribedOnce'
  <2>1. /\ conn[c] = "accepted" /\ register' = Append(register, c)
        /\ conn' = [conn EXCEPT ![c] = "open"] /\ UNCHANGED <<clients, closed>>
    BY <1>2 DEF Subscribe
  <2>2. /\ Len(register') = Len(register) + 1 /\ Len(register) \in Nat
        /\ register'[Len(register) + 1] = c
        /\ \A i \in 1..Len(register) : register'[i] = register[i]
    BY <1>0, <2>1
  <2>3. c \notin clients \cup closed /\ \A i \in 1..Len(register) : register[i] # c
    BY <2>1
  <2>4. \A d \in Clients : conn'[d] \in {"new", "accepted", "refused"} =>
          d # c /\ conn'[d] = conn[d]
    BY <1>0, <2>1
  <2>5. \A i \in 1..Len(register') : i = Len(register) + 1 \/ i \in 1..Len(register)
    BY <2>2
  <2> QED BY <2>1, <2>2, <2>3, <2>4, <2>5
<1>3. ASSUME NEW c \in Clients, Leave(c) PROVE SubscribedOnce'
  BY <1>0, <1>3 DEF Leave, hub
<1>4. ASSUME NEW c \in Clients, Cleanup(c) PROVE SubscribedOnce'
  BY <1>0, <1>4 DEF Cleanup
<1>5. CASE HubRegister
  <2> DEFINE c == Head(register)
  <2>1. register # <<>> /\ register' = Tail(register) /\ UNCHANGED conn
    BY <1>5 DEF HubRegister
  <2>2. clients' \cup closed' = clients \cup closed \cup {c} /\ clients' \cap closed' = {}
    <3>1. c \notin clients \cup closed
      BY <1>0, <2>1
    <3> QED BY <1>5, <3>1 DEF HubRegister, Close
  <2>3. /\ Len(register') = Len(register) - 1 /\ Len(register) \in Nat \ {0}
        /\ register[1] = c
        /\ \A i \in 1..Len(register') : register'[i] = register[i + 1] /\ i + 1 \in 1..Len(register)
    BY <1>0, <2>1
  <2>4. 1 \in 1..Len(register)
    BY <2>3
  <2>5. \A i \in 1..Len(register') : register'[i] # c
    BY <2>3, <2>4
  <2> HIDE DEF c
  <2>6. \A i \in 1..Len(register') : register'[i] \notin clients' \cup closed'
    BY <2>2, <2>3, <2>5
  <2>7. ASSUME NEW i \in 1..Len(register'), NEW j \in 1..Len(register'), register'[i] = register'[j]
        PROVE  i = j
    <3>1. /\ register[i + 1] = register[j + 1]
          /\ i + 1 \in 1..Len(register) /\ j + 1 \in 1..Len(register)
      BY <2>3, <2>7
    <3>2. i + 1 = j + 1
      BY <3>1
    <3> QED BY <3>2
  <2>8. \A d \in Clients : conn'[d] \in {"new", "accepted", "refused"} =>
          d \notin clients' \cup closed' /\ \A i \in 1..Len(register') : register'[i] # d
    BY <2>1, <2>2, <2>3, <2>4
  <2> QED BY <2>2, <2>6, <2>7, <2>8
<1>6. CASE HubUnregister
  <2>1. /\ clients' \cap closed' = {} /\ clients' \cup closed' \subseteq clients \cup closed
        /\ UNCHANGED <<conn, register>>
    BY <1>6 DEF HubUnregister, Close
  <2> QED BY <2>1
<1>7. ASSUME UNCHANGED <<conn, register, clients, closed>> PROVE SubscribedOnce'
  BY <1>7
<1> QED BY <1>1, <1>2, <1>3, <1>4, <1>5, <1>6, <1>7, OthersKeepSubscriptions

LEMMA StepNeverPanics == TypeOK /\ SubscribedOnce /\ NeverPanics /\ [Next]_vars => NeverPanics'
<1> SUFFICES ASSUME TypeOK, SubscribedOnce, ~panicked, [Next]_vars PROVE ~panicked'
  BY DEF NeverPanics
<1> USE DEF hub
<1>1. CASE UNCHANGED vars BY <1>1 DEF vars
<1>2. ASSUME NEW c \in Clients, Connect(c) \/ Subscribe(c) \/ Read(c) \/ Leave(c) \/ Cleanup(c)
      PROVE  ~panicked'
  BY <1>2 DEF Connect, Subscribe, Read, Leave, Cleanup
<1>3. CASE HubRegister
  <2>1. register \in Seq(Clients) /\ register # <<>>
    BY <1>3 DEF HubRegister, TypeOK
  <2>2. Head(register) = register[1] /\ 1 \in 1..Len(register)
    BY <2>1
  <2>3. Head(register) \notin closed
    BY <2>2 DEF SubscribedOnce
  <2> QED BY <1>3, <2>3 DEF HubRegister, Close
<1>4. CASE HubUnregister
  <2>1. Head(unregister) \in clients => Head(unregister) \notin closed
    BY DEF SubscribedOnce
  <2> QED BY <1>4, <2>1 DEF HubUnregister, Close
<1>5. ASSUME NEW e, Dispatch(e) PROVE ~panicked'
  BY <1>5 DEF Dispatch, SubscribedOnce
<1>6. CASE HubEvent     BY <1>5, <1>6 DEF HubEvent
<1>7. CASE HubBroadcast BY <1>5, <1>7 DEF HubBroadcast
<1>8. ASSUME NEW e \in Events, StartPublish(e) \/ SendToHub(e) \/ PublishToRedis(e)
      PROVE  ~panicked'
  BY <1>8 DEF StartPublish, SendToHub, PublishToRedis
<1>9. CASE Relay \/ RedisLoses BY <1>9 DEF Relay, RedisLoses
<1> QED BY <1>1, <1>2, <1>3, <1>4, <1>6, <1>7, <1>8, <1>9 DEF Next

LEMMA InitSubscribed == Init => SubscribedOnce /\ NeverPanics
  BY DEF Init, SubscribedOnce, NeverPanics

\* The API process survives whatever connections do: however subscriptions,
\* cancellations and events are ordered, no channel of a client is closed
\* twice or sent to after it was closed (EventHub.run and dispatchToClients).
THEOREM NeverPanicsHolds == Spec => []NeverPanics
<1>1. TypeOK /\ (SubscribedOnce /\ NeverPanics) /\ [Next]_vars => (SubscribedOnce /\ NeverPanics)'
  BY StepSubscribedOnce, StepNeverPanics
<1> QED BY <1>1, InitSubscribed, TypeCorrect, PTL DEF Spec

-----------------------------------------------------------------------------
(* The limit.                                                              *)

ConnectionsOfUser(u) == {c \in clients : UserOf[c] = u}

LEMMA StepMapIsBounded == TypeOK /\ MapIsBounded /\ [Next]_vars => MapIsBounded'
<1> SUFFICES ASSUME TypeOK, MapIsBounded, [Next]_vars PROVE MapIsBounded'
  OBVIOUS
<1>1. /\ IsFiniteSet(clients)
      /\ \A u \in Users : /\ IsFiniteSet(ConnectionsOfUser(u))
                          /\ Cardinality(ConnectionsOfUser(u)) \in Nat
                          /\ Cardinality(ConnectionsOfUser(u)) <= MaxPerUser
  BY FS_Subset, FS_CardinalityType DEF MapIsBounded, LimitHolds, ConnectionsOfUser
<1>2. ASSUME IsFiniteSet(clients'),
             \A u \in Users : Cardinality(ConnectionsOfUser(u)') <= MaxPerUser
      PROVE  MapIsBounded'
  BY <1>2 DEF MapIsBounded, LimitHolds, ConnectionsOfUser
<1>3. CASE UNCHANGED clients
  BY <1>3 DEF MapIsBounded, LimitHolds
<1>4. CASE HubRegister
  <2> DEFINE c == Head(register)
  <2>1. c \in Clients
    BY <1>4, TailType DEF HubRegister, TypeOK
  <2>2. \/ UNCHANGED clients
        \/ /\ clients' = clients \cup {c}
           /\ UserOf[c] # NoUser => ~(Cardinality(ConnectionsOfUser(UserOf[c])) >= MaxPerUser)
    BY <1>4 DEF HubRegister, ConnectionsOf, ConnectionsOfUser
  <2> HIDE DEF c
  <2>3. SUFFICES ASSUME clients' = clients \cup {c},
                        UserOf[c] # NoUser =>
                          ~(Cardinality(ConnectionsOfUser(UserOf[c])) >= MaxPerUser)
                 PROVE  MapIsBounded'
    BY <1>3, <2>2
  <2>4. IsFiniteSet(clients')
    BY <1>1, <2>3, FS_AddElement
  <2>5. ASSUME NEW u \in Users PROVE Cardinality(ConnectionsOfUser(u)') <= MaxPerUser
    <3>1. CASE UserOf[c] = u
      <4>1. ConnectionsOfUser(u)' = ConnectionsOfUser(u) \cup {c}
        BY <2>3, <3>1 DEF ConnectionsOfUser
      <4>2. Cardinality(ConnectionsOfUser(u)) < MaxPerUser
        BY <1>1, <2>3, <3>1
      <4>3. IsFiniteSet(ConnectionsOfUser(u)) /\ Cardinality(ConnectionsOfUser(u)) \in Nat
        BY <1>1
      <4>4. Cardinality(ConnectionsOfUser(u) \cup {c}) =
              IF c \in ConnectionsOfUser(u) THEN Cardinality(ConnectionsOfUser(u))
                                            ELSE Cardinality(ConnectionsOfUser(u)) + 1
        BY <4>3, FS_AddElement
      <4> QED BY <4>1, <4>2, <4>3, <4>4
    <3>2. CASE UserOf[c] # u
      <4>1. ConnectionsOfUser(u)' = ConnectionsOfUser(u)
        BY <2>3, <3>2 DEF ConnectionsOfUser
      <4> QED BY <1>1, <4>1
    <3> QED BY <3>1, <3>2
  <2> QED BY <1>2, <2>4, <2>5
<1>5. CASE HubUnregister
  <2>1. clients' \subseteq clients
    BY <1>5 DEF HubUnregister
  <2>2. IsFiniteSet(clients')
    BY <1>1, <2>1, FS_Subset
  <2>3. ASSUME NEW u \in Users PROVE Cardinality(ConnectionsOfUser(u)') <= MaxPerUser
    <3>1. ConnectionsOfUser(u)' \in SUBSET ConnectionsOfUser(u)
      BY <2>1 DEF ConnectionsOfUser
    <3>2. /\ IsFiniteSet(ConnectionsOfUser(u)')
          /\ Cardinality(ConnectionsOfUser(u)') <= Cardinality(ConnectionsOfUser(u))
      BY <1>1, <3>1, FS_Subset
    <3>3. Cardinality(ConnectionsOfUser(u)') \in Nat
      BY <3>2, FS_CardinalityType
    <3> QED BY <1>1, <3>2, <3>3
  <2> QED BY <1>2, <2>2, <2>3
<1>6. ~HubRegister /\ ~HubUnregister => UNCHANGED clients
  <2> USE DEF hub
  <2>1. CASE UNCHANGED vars BY <2>1 DEF vars
  <2>2. ASSUME NEW c \in Clients, Connect(c) \/ Subscribe(c) \/ Read(c) \/ Leave(c) \/ Cleanup(c)
        PROVE  UNCHANGED clients
    BY <2>2 DEF Connect, Subscribe, Read, Leave, Cleanup
  <2>3. CASE HubEvent \/ HubBroadcast \/ Relay \/ RedisLoses
    BY <2>3 DEF HubEvent, HubBroadcast, Relay, RedisLoses
  <2>4. ASSUME NEW e \in Events, StartPublish(e) \/ SendToHub(e) \/ PublishToRedis(e)
        PROVE  UNCHANGED clients
    BY <2>4 DEF StartPublish, SendToHub, PublishToRedis
  <2> QED BY <2>1, <2>2, <2>3, <2>4 DEF Next
<1> QED BY <1>3, <1>4, <1>5, <1>6

LEMMA InitMapIsBounded == Init => MapIsBounded
<1> SUFFICES ASSUME Init PROVE MapIsBounded
  OBVIOUS
<1>1. clients = {} /\ \A u \in Users : {c \in clients : UserOf[c] = u} = {}
  BY DEF Init
<1> QED BY <1>1, FS_EmptySet DEF MapIsBounded, LimitHolds

\* No user is in the hub's map more often than the limit, whatever number of
\* connections passed the first check together (HandleSSEEvents and run).
THEOREM LimitHoldsAlways == Spec => []LimitHolds
<1>1. MapIsBounded => LimitHolds
  BY DEF MapIsBounded
<1> QED BY <1>1, InitMapIsBounded, StepMapIsBounded, TypeCorrect, PTL DEF Spec

-----------------------------------------------------------------------------
(* Copies.                                                                 *)

LEMMA InitNoCopyIsMade == Init => NoCopyIsMade /\ OnlyForTheAddressee
<1> SUFFICES ASSUME Init, NEW c \in Clients, NEW e \in Events
    PROVE  got[c][e] + UnderWay(e) <= Handed(e) /\ ~(got[c][e] > 0)
  BY DEF NoCopyIsMade, OnlyForTheAddressee
<1>1. UnderWay(e) = 0
  BY OccEmpty DEF Init, UnderWay
<1> QED BY <1>1 DEF Init, Handed

LEMMA CountsAreNaturals ==
  ASSUME TypeOK, NEW c \in Clients, NEW e \in Events
  PROVE  /\ got[c][e] \in Nat
         /\ Occ(events, e) \in Nat /\ Occ(broadcast, e) \in Nat /\ Occ(redis, e) \in Nat
         /\ Handed(e) \in Nat
<1>1. Handed(e) \in Nat
  BY DEF TypeOK, Handed, Pub
<1> QED BY <1>1, OccType DEF TypeOK

\* A dispatch of d gives each client at most one copy of it, and only if d is
\* meant for the client.
LEMMA DispatchCopies ==
  ASSUME TypeOK, NEW d \in Events, Dispatch(d), NEW c \in Clients, NEW e \in Events
  PROVE  \/ got'[c][e] = got[c][e]
         \/ e = d /\ got'[c][e] = got[c][e] + 1 /\ MatchesFilters(c, e) /\ MatchesScope(c, e)
  BY DEF Dispatch, TypeOK

\* What a step does to the copies of one event.
CopyStep(c, e) ==
  /\ got[c][e] + UnderWay(e) <= Handed(e) => got'[c][e] + UnderWay(e)' <= Handed(e)'
  /\ got'[c][e] > got[c][e] => MatchesFilters(c, e) /\ MatchesScope(c, e)

LEMMA StepCopies ==
  ASSUME TypeOK, [Next]_vars, NEW c \in Clients, NEW e \in Events
  PROVE  CopyStep(c, e)
<1>0. /\ got[c][e] \in Nat /\ Handed(e) \in Nat
      /\ Occ(events, e) \in Nat /\ Occ(broadcast, e) \in Nat /\ Occ(redis, e) \in Nat
  BY CountsAreNaturals
<1>1. /\ UnderWay(e) = Occ(events, e) + Occ(broadcast, e) + Occ(redis, e)
      /\ UnderWay(e)' = Occ(events', e) + Occ(broadcast', e) + Occ(redis', e)
  BY DEF UnderWay, Occ, Places
<1>u. UNCHANGED pub => Handed(e)' = Handed(e)
  BY DEF Handed
<1>s. ASSUME UNCHANGED <<got, events, broadcast, redis, pub>> PROVE CopyStep(c, e)
  BY <1>0, <1>1, <1>u, <1>s DEF CopyStep
<1>2. ASSUME NEW s \in Seq(Events), s # <<>>, Dispatch(Head(s))
      PROVE  \/ got'[c][e] = got[c][e] /\ Occ(Tail(s), e) <= Occ(s, e)
             \/ /\ got'[c][e] = got[c][e] + 1 /\ Occ(s, e) = Occ(Tail(s), e) + 1
                /\ MatchesFilters(c, e) /\ MatchesScope(c, e)
  <2>1. Head(s) \in Events /\ Tail(s) \in Seq(Events)
    BY <1>2
  <2>2. Occ(Tail(s), e) \in Nat
    BY <2>1, OccType
  <2> QED BY <1>2, <2>1, <2>2, OccTail, DispatchCopies
<1>3. CASE HubEvent
  <2>1. /\ events \in Seq(Events) /\ events # <<>> /\ Dispatch(Head(events))
        /\ events' = Tail(events) /\ UNCHANGED <<broadcast, redis, pub>>
    BY <1>3 DEF HubEvent, TypeOK
  <2>2. Occ(Tail(events), e) \in Nat
    BY <2>1, TailType, OccType
  <2>3. \/ got'[c][e] = got[c][e] /\ Occ(events', e) <= Occ(events, e)
        \/ /\ got'[c][e] = got[c][e] + 1 /\ Occ(events, e) = Occ(events', e) + 1
           /\ MatchesFilters(c, e) /\ MatchesScope(c, e)
    BY <1>2, <2>1
  <2>4. /\ Handed(e)' = Handed(e) /\ Occ(events', e) \in Nat
        /\ UnderWay(e)' = Occ(events', e) + Occ(broadcast', e) + Occ(redis', e)
        /\ Occ(broadcast', e) = Occ(broadcast, e) /\ Occ(redis', e) = Occ(redis, e)
    BY <1>1, <1>u, <2>1, <2>2
  <2>5. CASE got'[c][e] = got[c][e] /\ Occ(events', e) <= Occ(events, e)
    BY <1>0, <1>1, <2>4, <2>5 DEF CopyStep
  <2>6. CASE /\ got'[c][e] = got[c][e] + 1 /\ Occ(events, e) = Occ(events', e) + 1
             /\ MatchesFilters(c, e) /\ MatchesScope(c, e)
    BY <1>0, <1>1, <2>4, <2>6 DEF CopyStep
  <2> QED BY <2>3, <2>5, <2>6
<1>4. CASE HubBroadcast
  <2>1. /\ broadcast \in Seq(Events) /\ broadcast # <<>> /\ Dispatch(Head(broadcast))
        /\ broadcast' = Tail(broadcast) /\ UNCHANGED <<events, redis, pub>>
    BY <1>4 DEF HubBroadcast, TypeOK
  <2>2. Occ(Tail(broadcast), e) \in Nat
    BY <2>1, TailType, OccType
  <2>3. \/ got'[c][e] = got[c][e] /\ Occ(broadcast', e) <= Occ(broadcast, e)
        \/ /\ got'[c][e] = got[c][e] + 1 /\ Occ(broadcast, e) = Occ(broadcast', e) + 1
           /\ MatchesFilters(c, e) /\ MatchesScope(c, e)
    BY <1>2, <2>1
  <2>4. /\ Handed(e)' = Handed(e) /\ Occ(broadcast', e) \in Nat
        /\ UnderWay(e)' = Occ(events', e) + Occ(broadcast', e) + Occ(redis', e)
        /\ Occ(events', e) = Occ(events, e) /\ Occ(redis', e) = Occ(redis, e)
    BY <1>1, <1>u, <2>1, <2>2
  <2>5. CASE got'[c][e] = got[c][e] /\ Occ(broadcast', e) <= Occ(broadcast, e)
    BY <1>0, <1>1, <2>4, <2>5 DEF CopyStep
  <2>6. CASE /\ got'[c][e] = got[c][e] + 1 /\ Occ(broadcast, e) = Occ(broadcast', e) + 1
             /\ MatchesFilters(c, e) /\ MatchesScope(c, e)
    BY <1>0, <1>1, <2>4, <2>6 DEF CopyStep
  <2> QED BY <2>3, <2>5, <2>6
<1>5. ASSUME NEW d \in Events, StartPublish(d) PROVE CopyStep(c, e)
  <2>1. UNCHANGED <<got, events, broadcast, redis>>
    BY <1>5 DEF StartPublish, hub
  <2>2. Handed(e)' = Handed(e)
    BY <1>5 DEF StartPublish, Handed, TypeOK
  <2> QED BY <1>0, <1>1, <2>1, <2>2 DEF CopyStep
<1>6. ASSUME NEW d \in Events, SendToHub(d) PROVE CopyStep(c, e)
  <2>1. UNCHANGED <<got, redis>> /\ pub[d] = "send"
    BY <1>6 DEF SendToHub
  <2>2. IF e = d THEN Handed(e) = 0 /\ Handed(e)' = 1 ELSE Handed(e)' = Handed(e)
    <3>1. \/ Origin[d] = "api" /\ pub' = [pub EXCEPT ![d] = "relay"]
          \/ Origin[d] = "broadcast" /\ pub' = [pub EXCEPT ![d] = "done"]
      BY <1>6 DEF SendToHub
    <3>2. CASE e # d
      BY <3>1, <3>2 DEF Handed, TypeOK
    <3>3. CASE e = d
      BY <2>1, <3>1, <3>3 DEF Handed, TypeOK
    <3> QED BY <3>2, <3>3
  <2>3. \/ events' = Append(events, d) /\ UNCHANGED broadcast
        \/ broadcast' = Append(broadcast, d) /\ UNCHANGED events
    BY <1>6 DEF SendToHub
  <2>4. /\ Occ(Append(events, d), e) = IF d = e THEN Occ(events, e) + 1 ELSE Occ(events, e)
        /\ Occ(Append(broadcast, d), e) = IF d = e THEN Occ(broadcast, e) + 1 ELSE Occ(broadcast, e)
    BY OccAppend DEF TypeOK
  <2>5. CASE d = e
    <3>1. Handed(e) = 0 /\ Handed(e)' = 1 /\ redis' = redis /\ got' = got
      BY <2>1, <2>2, <2>5
    <3>2. \/ Occ(events', e) = Occ(events, e) + 1 /\ Occ(broadcast', e) = Occ(broadcast, e)
          \/ Occ(broadcast', e) = Occ(broadcast, e) + 1 /\ Occ(events', e) = Occ(events, e)
      BY <2>3, <2>4, <2>5
    <3> QED BY <1>0, <1>1, <3>1, <3>2 DEF CopyStep
  <2>6. CASE d # e
    <3>1. Handed(e)' = Handed(e) /\ redis' = redis /\ got' = got
      BY <2>1, <2>2, <2>6
    <3>2. Occ(events', e) = Occ(events, e) /\ Occ(broadcast', e) = Occ(broadcast, e)
      BY <2>3, <2>4, <2>6
    <3> QED BY <1>0, <1>1, <3>1, <3>2 DEF CopyStep
  <2> QED BY <2>5, <2>6
<1>7. ASSUME NEW d \in Events, PublishToRedis(d) PROVE CopyStep(c, e)
  <2>1. UNCHANGED <<got, events, broadcast>> /\ pub[d] = "relay"
    BY <1>7 DEF PublishToRedis, hub
  <2>2. IF e = d THEN Handed(e)' = Handed(e) + 1 ELSE Handed(e)' = Handed(e)
    BY <1>7 DEF PublishToRedis, Handed, TypeOK
  <2>3. redis' = Append(redis, d) \/ UNCHANGED redis
    BY <1>7 DEF PublishToRedis
  <2>4. Occ(Append(redis, d), e) = IF d = e THEN Occ(redis, e) + 1 ELSE Occ(redis, e)
    BY OccAppend DEF TypeOK
  <2>5. CASE d = e
    <3>1. Handed(e)' = Handed(e) + 1 /\ UNCHANGED <<got, events, broadcast>>
      BY <2>1, <2>2, <2>5
    <3>2. Occ(redis', e) = Occ(redis, e) + 1 \/ Occ(redis', e) = Occ(redis, e)
      BY <2>3, <2>4, <2>5
    <3> QED BY <1>0, <1>1, <3>1, <3>2 DEF CopyStep
  <2>6. CASE d # e
    <3>1. Handed(e)' = Handed(e) /\ UNCHANGED <<got, events, broadcast>>
      BY <2>1, <2>2, <2>6
    <3>2. Occ(redis', e) = Occ(redis, e)
      BY <2>3, <2>4, <2>6
    <3> QED BY <1>0, <1>1, <3>1, <3>2 DEF CopyStep
  <2> QED BY <2>5, <2>6
<1>8. CASE Relay
  <2>1. /\ UNCHANGED <<got, broadcast, pub>> /\ redis # <<>> /\ redis \in Seq(Events)
        /\ events \in Seq(Events) /\ events' = Append(events, Head(redis)) /\ redis' = Tail(redis)
    BY <1>8 DEF Relay, TypeOK
  <2>2. Head(redis) \in Events /\ Tail(redis) \in Seq(Events)
    BY <2>1
  <2>3. Occ(Tail(redis), e) \in Nat
    BY <2>2, OccType
  <2>4. /\ Head(redis) = e => /\ Occ(events', e) = Occ(events, e) + 1
                               /\ Occ(redis, e) = Occ(redis', e) + 1
        /\ Head(redis) # e => Occ(events', e) = Occ(events, e) /\ Occ(redis, e) = Occ(redis', e)
    BY <2>1, <2>2, OccAppend, OccTail
  <2> QED BY <1>0, <1>1, <1>u, <2>1, <2>3, <2>4 DEF CopyStep
<1>9. CASE RedisLoses
  <2>1. /\ UNCHANGED <<got, broadcast, events, pub>> /\ redis # <<>> /\ redis \in Seq(Events)
        /\ redis' = Tail(redis)
    BY <1>9 DEF RedisLoses, TypeOK, hub
  <2>2. Tail(redis) \in Seq(Events)
    BY <2>1
  <2>3. Occ(Tail(redis), e) \in Nat
    BY <2>2, OccType
  <2>4. Occ(redis, e) = Occ(Tail(redis), e) \/ Occ(redis, e) = Occ(Tail(redis), e) + 1
    BY <2>1, OccTail
  <2> QED BY <1>0, <1>1, <1>u, <2>1, <2>3, <2>4 DEF CopyStep
<1>10. CASE HubRegister \/ HubUnregister
  <2>1. UNCHANGED <<got, events, broadcast, redis, pub>>
    BY <1>10 DEF HubRegister, HubUnregister
  <2> QED BY <1>s, <2>1
<1>11. ASSUME NEW d \in Clients, Connect(d) \/ Subscribe(d) \/ Read(d) \/ Leave(d) \/ Cleanup(d)
       PROVE  CopyStep(c, e)
  BY <1>s, <1>11 DEF Connect, Subscribe, Read, Leave, Cleanup, hub
<1>12. CASE UNCHANGED vars
  <2>1. UNCHANGED <<got, events, broadcast, redis, pub>>
    BY <1>12 DEF vars, hub
  <2> QED BY <1>s, <2>1
<1> QED
  BY <1>3, <1>4, <1>5, <1>6, <1>7, <1>8, <1>9, <1>10, <1>11, <1>12 DEF Next

LEMMA StepNoCopyIsMade ==
  TypeOK /\ (NoCopyIsMade /\ OnlyForTheAddressee) /\ [Next]_vars
    => (NoCopyIsMade /\ OnlyForTheAddressee)'
<1> SUFFICES ASSUME TypeOK, NoCopyIsMade, OnlyForTheAddressee, [Next]_vars,
                    NEW c \in Clients, NEW e \in Events
    PROVE  /\ got'[c][e] + UnderWay(e)' <= Handed(e)'
           /\ got'[c][e] > 0 => MatchesFilters(c, e) /\ MatchesScope(c, e)
  BY DEF NoCopyIsMade, OnlyForTheAddressee, MatchesFilters, MatchesScope
<1>1. got[c][e] \in Nat /\ got'[c][e] \in Nat
  BY StepTypeOK DEF TypeOK
<1>2. got[c][e] + UnderWay(e) <= Handed(e)
  BY DEF NoCopyIsMade
<1>3. got[c][e] > 0 => MatchesFilters(c, e) /\ MatchesScope(c, e)
  BY DEF OnlyForTheAddressee
<1> QED BY <1>1, <1>2, <1>3, StepCopies DEF CopyStep

\* A client gets an event of the worker once at most, one of the API twice at
\* most, and none published for another user, in whatever order the hub, the
\* publishers and the relay run (Publish, dispatchToClients, SubscribeFromRedis).
THEOREM CopiesAreBoundedAlways == Spec => []CopiesAreBounded
<1>1. TypeOK /\ (NoCopyIsMade /\ OnlyForTheAddressee) => CopiesAreBounded
  <2> SUFFICES ASSUME TypeOK, NoCopyIsMade, OnlyForTheAddressee,
                      NEW c \in Clients, NEW e \in Events
      PROVE  /\ got[c][e] <= IF Origin[e] = "api" THEN 2 ELSE 1
             /\ Origin[e] # "broadcast" /\ got[c][e] > 0 =>
                  MatchesFilters(c, e) /\ (Target[e] = NoUser \/ UserOf[c] \in {NoUser, Target[e]})
    BY DEF CopiesAreBounded
  <2>1. got[c][e] \in Nat /\ UnderWay(e) \in Nat /\ got[c][e] + UnderWay(e) <= Handed(e)
    BY CountsAreNaturals DEF NoCopyIsMade, UnderWay
  <2>2. Handed(e) <= IF Origin[e] = "api" THEN 2 ELSE 1
    BY DEF Handed, TypeOK, Pub
  <2>3. Handed(e) \in Nat
    BY CountsAreNaturals
  <2>4. got[c][e] > 0 => MatchesFilters(c, e) /\ MatchesScope(c, e)
    BY DEF OnlyForTheAddressee
  <2> QED BY <2>1, <2>2, <2>3, <2>4 DEF MatchesScope
<1> QED BY <1>1, InitNoCopyIsMade, StepNoCopyIsMade, TypeCorrect, PTL DEF Spec
=============================================================================
