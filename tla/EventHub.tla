------------------------------- MODULE EventHub -------------------------------
(***************************************************************************)
(* Server-sent events: the hub goroutine of the API process, the HTTP      *)
(* handlers that subscribe to it and leave, publishers in the API and in   *)
(* the worker, and the Redis channel between the two processes.            *)
(*                                                                         *)
(* Every channel is bounded.  The hub serves four of them from one select, *)
(* so a subscription and its cancellation, queued in this order, may be    *)
(* served in the other.  The worker's own hub has no clients and is left   *)
(* out; heartbeats and payloads are abstracted.                            *)
(***************************************************************************)
EXTENDS Naturals, Sequences, FiniteSets, SequencesExt

CONSTANTS Clients,     \* connections, by clientID
          Users, NoUser,
          UserOf,      \* the user of a connection, or NoUser
          Events,
          Origin,      \* "api", "worker" (Publish) or "broadcast"
          Target,      \* an event's Metadata.UserID, or NoUser
          TypeOf,      \* an event's type
          Filters,     \* the types a connection asks for; {} is all
          MaxPerUser,  \* maxConnectionsPerUser
          ChanCap,     \* capacity of the hub's channels (100)
          BufCap,      \* capacity of a client's channel (50)
          MaxLosses    \* bound: messages Redis loses

ASSUME ConstantsAssumption ==
  /\ NoUser \notin Users
  /\ UserOf \in [Clients -> Users \cup {NoUser}]
  /\ Origin \in [Events -> {"api", "worker", "broadcast"}]
  /\ Target \in [Events -> Users \cup {NoUser}]
  /\ MaxPerUser \in Nat /\ MaxLosses \in Nat
  /\ ChanCap \in Nat \ {0} /\ BufCap \in Nat \ {0}

VARIABLES
  conn,                      \* where the HTTP handler of a connection is
  register, unregister,      \* the hub's channels
  events, broadcast,
  clients,                   \* the hub's map
  buf,                       \* client.events, not yet read by its handler
  closed,                    \* clients whose channel has been closed
  got,                       \* history: copies of an event sent to a client
  pub,                       \* where the publisher of an event is
  redis,                     \* messages published and not yet relayed
  losses,
  panicked                   \* a closed channel was closed or sent to

hub == <<register, unregister, events, broadcast, clients, closed, panicked>>
vars == <<conn, hub, buf, got, pub, redis, losses>>

Conn == {"new", "accepted", "open", "leaving", "left", "refused"}
Pub  == {"new", "send", "relay", "done"}

TypeOK ==
  /\ conn \in [Clients -> Conn]
  /\ register \in Seq(Clients) /\ Len(register) <= ChanCap
  /\ unregister \in Seq(Clients) /\ Len(unregister) <= ChanCap
  /\ events \in Seq(Events) /\ Len(events) <= ChanCap
  /\ broadcast \in Seq(Events) /\ Len(broadcast) <= ChanCap
  /\ clients \subseteq Clients /\ closed \subseteq Clients
  /\ buf \in [Clients -> Seq(Events)] /\ \A c \in Clients : Len(buf[c]) <= BufCap
  /\ got \in [Clients -> [Events -> Nat]]
  /\ pub \in [Events -> Pub]
  /\ redis \in Seq(Events)
  /\ losses \in 0..MaxLosses
  /\ panicked \in BOOLEAN

Init ==
  /\ conn = [c \in Clients |-> "new"]
  /\ register = <<>> /\ unregister = <<>> /\ events = <<>> /\ broadcast = <<>>
  /\ clients = {} /\ closed = {}
  /\ buf = [c \in Clients |-> <<>>]
  /\ got = [c \in Clients |-> [e \in Events |-> 0]]
  /\ pub = [e \in Events |-> "new"]
  /\ redis = <<>>
  /\ losses = 0
  /\ panicked = FALSE

-----------------------------------------------------------------------------
(* The HTTP handler of a connection.                                       *)

ConnectionsOf(c) == {d \in clients : UserOf[d] = UserOf[c]}

\* HandleSSEEvents: a first look at the user's connections, then subscribe.
Connect(c) ==
  /\ conn[c] = "new"
  /\ conn' = [conn EXCEPT ![c] =
       IF UserOf[c] # NoUser /\ Cardinality(ConnectionsOf(c)) >= MaxPerUser
         THEN "refused" ELSE "accepted"]
  /\ UNCHANGED <<hub, buf, got, pub, redis, losses>>

\* h.register <- client blocks while the channel is full.
Subscribe(c) ==
  /\ conn[c] = "accepted"
  /\ Len(register) < ChanCap
  /\ register' = Append(register, c)
  /\ conn' = [conn EXCEPT ![c] = "open"]
  /\ UNCHANGED <<unregister, events, broadcast, clients, closed, panicked, buf, got, pub, redis, losses>>

Read(c) ==
  /\ conn[c] = "open"
  /\ buf[c] # <<>>
  /\ buf' = [buf EXCEPT ![c] = Tail(@)]
  /\ UNCHANGED <<conn, hub, got, pub, redis, losses>>

\* The browser goes away, or the handler reads that its channel is closed.
Leave(c) ==
  /\ conn[c] = "open"
  /\ conn' = [conn EXCEPT ![c] = "leaving"]
  /\ UNCHANGED <<hub, buf, got, pub, redis, losses>>

\* cleanup: h.unregister <- clientID, once.
Cleanup(c) ==
  /\ conn[c] = "leaving"
  /\ Len(unregister) < ChanCap
  /\ unregister' = Append(unregister, c)
  /\ conn' = [conn EXCEPT ![c] = "left"]
  /\ UNCHANGED <<register, events, broadcast, clients, closed, panicked, buf, got, pub, redis, losses>>

-----------------------------------------------------------------------------
(* The hub: run's select.                                                  *)

Close(c) == /\ closed' = closed \cup {c}
            /\ panicked' = (panicked \/ c \in closed)

\* Faulty: relies on the check the HTTP handler has made.
HubRegisterUnchecked ==
  /\ register # <<>>
  /\ register' = Tail(register)
  /\ clients' = clients \cup {Head(register)}
  /\ UNCHANGED <<conn, unregister, events, broadcast, closed, panicked, buf, got, pub, redis, losses>>

HubRegister ==
  LET c == Head(register)
  IN  /\ register # <<>>
      /\ register' = Tail(register)
      /\ IF UserOf[c] # NoUser /\ Cardinality(ConnectionsOf(c)) >= MaxPerUser
           THEN Close(c) /\ UNCHANGED clients
           ELSE clients' = clients \cup {c} /\ UNCHANGED <<closed, panicked>>
      /\ UNCHANGED <<conn, unregister, events, broadcast, buf, got, pub, redis, losses>>

\* Faulty: closes the channel and forgets the delete.
HubUnregisterKeeps ==
  LET c == Head(unregister)
  IN  /\ unregister # <<>>
      /\ unregister' = Tail(unregister)
      /\ IF c \in clients THEN Close(c) ELSE UNCHANGED <<closed, panicked>>
      /\ UNCHANGED <<conn, register, events, broadcast, clients, buf, got, pub, redis, losses>>

\* An id that is not in the map is ignored, also if its client is still
\* waiting to be registered.
HubUnregister ==
  LET c == Head(unregister)
  IN  /\ unregister # <<>>
      /\ unregister' = Tail(unregister)
      /\ IF c \in clients THEN Close(c) /\ clients' = clients \ {c}
                         ELSE UNCHANGED <<clients, closed, panicked>>
      /\ UNCHANGED <<conn, register, events, broadcast, buf, got, pub, redis, losses>>

MatchesFilters(c, e) == Filters[c] = {} \/ TypeOf[e] \in Filters[c]

\* Faulty: an event addressed to a user reaches the clients of every user.
MatchesScopeAny(c, e) == Target[e] = NoUser \/ UserOf[c] \in Users \cup {NoUser}

MatchesScope(c, e) == UserOf[c] = NoUser \/ Target[e] = NoUser \/ UserOf[c] = Target[e]

Room(c) == Len(buf[c]) < BufCap

\* Faulty: a client's backlog grows without bound.
DispatchUnbounded(e) ==
  LET to == {c \in clients : MatchesFilters(c, e) /\ MatchesScope(c, e)}
  IN  /\ buf' = [c \in Clients |-> IF c \in to THEN Append(buf[c], e) ELSE buf[c]]
      /\ got' = [c \in Clients |-> IF c \in to THEN [got[c] EXCEPT ![e] = @ + 1] ELSE got[c]]
      /\ panicked' = (panicked \/ to \cap closed # {})

\* Faulty: a plain send waits for the slowest client.
DispatchBlocking(e) ==
  LET to == {c \in clients : MatchesFilters(c, e) /\ MatchesScope(c, e)}
  IN  /\ \A c \in to : Room(c)
      /\ buf' = [c \in Clients |-> IF c \in to THEN Append(buf[c], e) ELSE buf[c]]
      /\ got' = [c \in Clients |-> IF c \in to THEN [got[c] EXCEPT ![e] = @ + 1] ELSE got[c]]
      /\ panicked' = (panicked \/ to \cap closed # {})

\* dispatchToClients: whoever has no room misses the event.
Dispatch(e) ==
  LET matching == {c \in clients : MatchesFilters(c, e) /\ MatchesScope(c, e)}
      to == {c \in matching : Room(c)}
  IN  /\ buf' = [c \in Clients |-> IF c \in to THEN Append(buf[c], e) ELSE buf[c]]
      /\ got' = [c \in Clients |-> IF c \in to THEN [got[c] EXCEPT ![e] = @ + 1] ELSE got[c]]
      /\ panicked' = (panicked \/ matching \cap closed # {})

HubEvent ==
  /\ events # <<>>
  /\ events' = Tail(events)
  /\ Dispatch(Head(events))
  /\ UNCHANGED <<conn, register, unregister, broadcast, clients, closed, pub, redis, losses>>

HubBroadcast ==
  /\ broadcast # <<>>
  /\ broadcast' = Tail(broadcast)
  /\ Dispatch(Head(broadcast))
  /\ UNCHANGED <<conn, register, unregister, events, clients, closed, pub, redis, losses>>

-----------------------------------------------------------------------------
(* Publishers and the Redis bridge.                                        *)

\* The worker's hub takes the event at once: only its relay matters here.
StartPublish(e) ==
  /\ pub[e] = "new"
  /\ pub' = [pub EXCEPT ![e] = IF Origin[e] = "worker" THEN "relay" ELSE "send"]
  /\ UNCHANGED <<conn, hub, buf, got, redis, losses>>

\* GetHub().events <- event (or .broadcast) blocks while the channel is full.
SendToHub(e) ==
  /\ pub[e] = "send"
  /\ \/ /\ Origin[e] = "api" /\ Len(events) < ChanCap
        /\ events' = Append(events, e)
        /\ pub' = [pub EXCEPT ![e] = "relay"]
        /\ UNCHANGED broadcast
     \/ /\ Origin[e] = "broadcast" /\ Len(broadcast) < ChanCap
        /\ broadcast' = Append(broadcast, e)
        /\ pub' = [pub EXCEPT ![e] = "done"]
        /\ UNCHANGED events
  /\ UNCHANGED <<conn, register, unregister, clients, closed, panicked, buf, got, redis, losses>>

\* PublishToRedis: errors and the 2s timeout are logged.
PublishToRedis(e) ==
  /\ pub[e] = "relay"
  /\ pub' = [pub EXCEPT ![e] = "done"]
  /\ \/ redis' = Append(redis, e) /\ UNCHANGED losses
     \/ losses < MaxLosses /\ losses' = losses + 1 /\ UNCHANGED redis
  /\ UNCHANGED <<conn, hub, buf, got>>

\* Faulty: the subscriber hands the event to Publish.
RelayRepublishes ==
  /\ redis # <<>>
  /\ Len(events) < ChanCap
  /\ events' = Append(events, Head(redis))
  /\ redis' = Append(Tail(redis), Head(redis))
  /\ UNCHANGED <<conn, register, unregister, broadcast, clients, closed, panicked, buf, got, pub, losses>>

\* SubscribeFromRedis in the API: every message, the API's own ones too.
Relay ==
  /\ redis # <<>>
  /\ Len(events) < ChanCap
  /\ events' = Append(events, Head(redis))
  /\ redis' = Tail(redis)
  /\ UNCHANGED <<conn, register, unregister, broadcast, clients, closed, panicked, buf, got, pub, losses>>

\* Pub/sub keeps nothing for a subscriber that is reconnecting.
RedisLoses ==
  /\ redis # <<>> /\ losses < MaxLosses
  /\ redis' = Tail(redis)
  /\ losses' = losses + 1
  /\ UNCHANGED <<conn, hub, buf, got, pub>>

-----------------------------------------------------------------------------
Next ==
  \/ \E c \in Clients : Connect(c) \/ Subscribe(c) \/ Read(c) \/ Leave(c) \/ Cleanup(c)
  \/ HubRegister \/ HubUnregister \/ HubEvent \/ HubBroadcast
  \/ \E e \in Events : StartPublish(e) \/ SendToHub(e) \/ PublishToRedis(e)
  \/ Relay \/ RedisLoses

Spec == Init /\ [][Next]_vars

(* Goroutines run.  Go's select picks among the ready cases at random, so   *)
(* no channel of the hub is passed over forever (a channel with something   *)
(* in it stays ready until the hub takes it).  Browsers are under no        *)
(* obligation to read.                                                      *)
Fairness ==
  /\ WF_vars(HubRegister) /\ WF_vars(HubUnregister)
  /\ WF_vars(HubEvent) /\ WF_vars(HubBroadcast)
  /\ \A c \in Clients : WF_vars(Subscribe(c) \/ Cleanup(c))
  /\ \A e \in Events : WF_vars(SendToHub(e) \/ PublishToRedis(e))
  /\ WF_vars(Relay)

FairSpec == Spec /\ Fairness

\* Publishers need less: not even the relay has to run.
PublishFairSpec ==
  /\ Spec
  /\ WF_vars(HubEvent) /\ WF_vars(HubBroadcast)
  /\ \A e \in Events : WF_vars(SendToHub(e) \/ PublishToRedis(e))

-----------------------------------------------------------------------------
(* Properties.                                                             *)

\* Closing a channel is the hub's alone and happens once: a second close, or
\* an event sent to a closed channel, would bring the API process down.
NeverPanics == ~ panicked

\* No user holds more connections than the limit, although the HTTP handler
\* looks at the count before others subscribe (the hub looks again).
LimitHolds ==
  \A u \in Users : Cardinality({c \in clients : UserOf[c] = u}) <= MaxPerUser

\* An event of the worker reaches a client at most once, one of the API at
\* most twice (directly and through Redis); and what is published reaches only
\* a client it is for (Publish, matchesFilters, matchesScope).
CopiesAreBounded ==
  \A c \in Clients, e \in Events :
    /\ got[c][e] <= IF Origin[e] = "api" THEN 2 ELSE 1
    /\ Origin[e] # "broadcast" /\ got[c][e] > 0 =>
         MatchesFilters(c, e) /\ (Target[e] = NoUser \/ UserOf[c] \in {NoUser, Target[e]})

\* A slow or dead browser never blocks a publisher: Publish is called inside
\* HTTP and task handlers.
PublishReturns == \A e \in Events : pub[e] = "send" ~> pub[e] = "done"

\* "Handle context cancellation": a connection that is gone leaves the map,
\* and no longer counts against its user's limit.
DisconnectedIsForgotten == \A c \in Clients : conn[c] = "left" ~> c \notin clients

\* "Publish sends an event to all connected clients and broadcasts it via
\* Redis so that other processes ... can deliver it to their SSE clients":
\* the clients of the publishing process get one copy.
DeliveredOnce == \A c \in Clients, e \in Events : got[c][e] <= 1
=============================================================================
