------------------------------ MODULE Realtime ------------------------------
(***************************************************************************)
(* The realtime hub (realtime/hub.go) and the two goroutines of a          *)
(* WebSocket connection (handleConnection, writeLoop and readLoop of       *)
(* realtime/server.go), on several API instances joined by one Redis       *)
(* channel.                                                                *)
(*                                                                         *)
(* PublishToUsers delivers to the connections of its own instance under    *)
(* the hub's read lock, then publishes to Redis, where the client library  *)
(* repeats a command whose connection broke; every other instance delivers *)
(* what it receives.  register, unregister and Close change the map of     *)
(* connections under the write lock, which is one step here that waits for *)
(* the deliveries under way.                                               *)
(***************************************************************************)
EXTENDS Naturals, Sequences, FiniteSets

CONSTANTS
  Instances,  \* API processes, each with one hub
  Conns,      \* WebSocket connections
  UserOf,     \* UserOf[c]: its user
  Publishers, \* goroutines that call PublishToUsers
  At,         \* At[p]: the instance of a publisher
  Plan,       \* Plan[p]: the events it publishes, one call after the other
  To,         \* To[e]: the users an event is for
  Cap,        \* the places of a connection's queue (128 in the code)
  Retries,    \* Retries[e]: how often the Redis client may send e again (3 times
              \* in the code, whatever the event)
  MaxReplies, \* bound: the frames of a client that readLoop answers
  None        \* the absent value

Planned(p) == {Plan[p][n] : n \in DOMAIN Plan[p]}
Events == UNION {Planned(p) : p \in Publishers}

ASSUME PlanAssumption ==
  \A p, q \in Publishers : \A m \in DOMAIN Plan[p], n \in DOMAIN Plan[q] :
     Plan[p][m] = Plan[q][n] => p = q /\ m = n
\* handleConnection's own frames are never published, and a publisher is a
\* goroutine of one API process.
ASSUME EventsAssumption == Events \cap {None, "ready", "reply"} = {}
ASSUME PublishersAssumption ==
  /\ Publishers \cap Instances = {} /\ At \in [Publishers -> Instances]
  /\ \A p \in Publishers : Plan[p] \in Seq(Planned(p))
ASSUME NoneAssumption == None \notin Instances
ASSUME CapAssumption == Cap \in Nat \ {0}
ASSUME RetriesAssumption == Retries \in [Events -> Nat]
ASSUME MaxRepliesAssumption == MaxReplies \in Nat

VARIABLES
  closed,     \* Hub.closed
  closing,    \* the connections Close has still to close
  registered, \* Hub.connections, of each instance
  inbox,      \* what Redis has sent each instance, None once it is closed
  delayed,    \* unanswered publications that may still reach Redis
  pub,        \* the publishers
  delivery,   \* the calls of deliverLocal under way
  conn,       \* the handler and the reader of each connection, and its hub
  writer,     \* its writer
  done,       \* connection.done is closed
  stream,     \* everything that was ever put into connection.send
  written,    \* how much of it the writer has taken
  tries,      \* how often the publication of an event was repeated
  strayed     \* history: the events that ever had a publication in delayed

hub == <<closed, closing, registered>>
redis == <<inbox, delayed, strayed, tries>>
sockets == <<conn, writer, done, stream, written>>
vars == <<hub, redis, pub, delivery, sockets>>

-----------------------------------------------------------------------------
(* deliverLocal, run by publishers and by each instance's consumer.        *)

Deliverers == Publishers \cup Instances
InstanceOf(d) == IF d \in Publishers THEN At[d] ELSE d

NoDelivery == [event |-> None, todo |-> {}]
Delivering(d) == delivery[d].event # None

\* The write lock: no deliverLocal holds the read lock.
Unlocked(i) == \A d \in Deliverers : InstanceOf(d) = i => ~Delivering(d)

BeginDelivery(d, i, e) ==
  delivery' = [delivery EXCEPT ![d] =
                 [event |-> e, todo |-> {c \in registered[i] :
                                           UserOf[c] \in To[e]}]]

Queued(c) == Len(stream[c]) - written[c]

\* Fault: the queue is not bounded.
PutUnbounded(c, m) == stream' = [stream EXCEPT ![c] = Append(@, m)]

\* enqueue: nothing for a closed connection, and a full queue drops it.
Put(c, m) ==
  stream' = IF done[c] \/ Queued(c) = Cap THEN stream
                                          ELSE [stream EXCEPT ![c] = Append(@, m)]

\* Fault: the delivery waits for a place in the queue.
EnqueueWaits(d, c) ==
  /\ c \in delivery[d].todo
  /\ Queued(c) < Cap
  /\ Put(c, delivery[d].event)
  /\ delivery' = [delivery EXCEPT ![d].todo = @ \ {c}]
  /\ UNCHANGED <<hub, redis, pub, conn, writer, done, written>>

Enqueue(d, c) ==
  /\ c \in delivery[d].todo
  /\ Put(c, delivery[d].event)
  /\ delivery' = [delivery EXCEPT ![d].todo = @ \ {c}]
  /\ UNCHANGED <<hub, redis, pub, conn, writer, done, written>>

-----------------------------------------------------------------------------
(* PublishToUsers.                                                         *)

NextEvent(p) == Plan[p][pub[p].n + 1]

\* A closed hub delivers nothing.
Publish(p) ==
  /\ pub[p].pc = "idle"
  /\ pub[p].n < Len(Plan[p])
  /\ IF closed[At[p]]
       THEN /\ pub' = [pub EXCEPT ![p].pc = "broker"]
            /\ UNCHANGED delivery
       ELSE /\ pub' = [pub EXCEPT ![p].pc = "deliver"]
            /\ BeginDelivery(p, At[p], NextEvent(p))
  /\ UNCHANGED <<hub, redis, sockets>>

\* Fault: the local delivery is left to a goroutine of its own.
PublishUndelivered(p) ==
  /\ pub[p].pc = "deliver"
  /\ pub' = [pub EXCEPT ![p].pc = "broker"]
  /\ UNCHANGED <<hub, redis, delivery, sockets>>

PublishDelivered(p) ==
  /\ pub[p].pc = "deliver"
  /\ delivery[p].todo = {}
  /\ pub' = [pub EXCEPT ![p].pc = "broker"]
  /\ delivery' = [delivery EXCEPT ![p] = NoDelivery]
  /\ UNCHANGED <<hub, redis, sockets>>

Broadcast(m) ==
  inbox' = [i \in Instances |-> IF inbox[i] = None THEN None
                                                   ELSE Append(inbox[i], m)]

Envelope(p) == [origin |-> At[p], event |-> NextEvent(p)]
Returned(p) == [pub EXCEPT ![p].pc = "idle", ![p].n = @ + 1]

\* A copy that is not answered and that Redis may yet receive.
Stray(p) ==
  /\ delayed' = delayed \cup {[env |-> Envelope(p), try |-> tries[NextEvent(p)]]}
  /\ strayed' = strayed \cup {NextEvent(p)}

\* Fault: the publication is not awaited.
PublishBrokerAsync(p) ==
  /\ pub[p].pc = "broker"
  /\ delayed' = delayed \cup {[env |-> Envelope(p), try |-> tries[NextEvent(p)]]}
  /\ pub' = Returned(p)
  /\ UNCHANGED <<hub, inbox, strayed, tries, delivery, sockets>>

\* The connection to Redis breaks before the answer, and the client sends the
\* command again; Redis has executed it, never will, or will.
PublishAgain(p) ==
  /\ pub[p].pc = "broker"
  /\ tries[NextEvent(p)] < Retries[NextEvent(p)]
  /\ \/ Broadcast(Envelope(p)) /\ UNCHANGED <<delayed, strayed>>
     \/ UNCHANGED <<inbox, delayed, strayed>>
     \/ Stray(p) /\ UNCHANGED inbox
  /\ tries' = [tries EXCEPT ![NextEvent(p)] = @ + 1]
  /\ UNCHANGED <<hub, pub, delivery, sockets>>

PublishBroker(p) ==
  /\ pub[p].pc = "broker"
  /\ Broadcast(Envelope(p))
  /\ pub' = Returned(p)
  /\ UNCHANGED <<hub, delayed, strayed, tries, delivery, sockets>>

\* After two seconds, or on an error it does not retry, the call returns; the
\* command is lost or still on its way.
PublishTimesOut(p) ==
  /\ pub[p].pc = "broker"
  /\ UNCHANGED <<delayed, strayed>> \/ Stray(p)
  /\ pub' = Returned(p)
  /\ UNCHANGED <<hub, inbox, tries, delivery, sockets>>

ArriveLate(d) ==
  /\ d \in delayed
  /\ Broadcast(d.env)
  /\ delayed' = delayed \ {d}
  /\ UNCHANGED <<hub, strayed, tries, pub, delivery, sockets>>

-----------------------------------------------------------------------------
(* consume.                                                                *)

HasMail(i) == inbox[i] \notin {None, <<>>}

\* Fault: an instance delivers what it has published itself.
ConsumeOwnToo(i) ==
  /\ HasMail(i)
  /\ ~Delivering(i)
  /\ IF closed[i] THEN UNCHANGED delivery
                  ELSE BeginDelivery(i, i, Head(inbox[i]).event)
  /\ inbox' = [inbox EXCEPT ![i] = Tail(@)]
  /\ UNCHANGED <<hub, delayed, strayed, tries, pub, sockets>>

Consume(i) ==
  /\ HasMail(i)
  /\ ~Delivering(i)
  /\ IF Head(inbox[i]).origin = i \/ closed[i]
       THEN UNCHANGED delivery
       ELSE BeginDelivery(i, i, Head(inbox[i]).event)
  /\ inbox' = [inbox EXCEPT ![i] = Tail(@)]
  /\ UNCHANGED <<hub, delayed, strayed, tries, pub, sockets>>

ConsumeDelivered(i) ==
  /\ Delivering(i)
  /\ delivery[i].todo = {}
  /\ delivery' = [delivery EXCEPT ![i] = NoDelivery]
  /\ UNCHANGED <<hub, redis, pub, sockets>>

\* Redis drops what it has for a subscriber that reconnects or is too slow.
LoseMail(i) ==
  /\ HasMail(i)
  /\ inbox' = [inbox EXCEPT ![i] = Tail(@)]
  /\ UNCHANGED <<hub, delayed, strayed, tries, pub, delivery, sockets>>

-----------------------------------------------------------------------------
(* A connection: register, the reader, the writer, unregister.             *)

\* Fault: register does not look at closed.
RegisterAnyway(c, i) ==
  /\ conn[c].pc = "new"
  /\ Unlocked(i)
  /\ registered' = [registered EXCEPT ![i] = @ \cup {c}]
  /\ conn' = [conn EXCEPT ![c].pc = "registered", ![c].hub = i]
  /\ UNCHANGED <<closed, closing, redis, pub, delivery, writer, done, stream,
                 written>>

\* The load balancer has picked an instance.
Register(c, i) ==
  /\ conn[c].pc = "new"
  /\ Unlocked(i)
  /\ IF closed[i]
       THEN /\ conn' = [conn EXCEPT ![c].pc = "gone", ![c].hub = i]
            /\ UNCHANGED registered
       ELSE /\ conn' = [conn EXCEPT ![c].pc = "registered", ![c].hub = i]
            /\ registered' = [registered EXCEPT ![i] = @ \cup {c}]
  /\ UNCHANGED <<closed, closing, redis, pub, delivery, writer, done, stream,
                 written>>

\* realtime.ready is queued, behind what was delivered since register, and the
\* writer starts.
Ready(c) ==
  /\ conn[c].pc = "registered"
  /\ Put(c, "ready")
  /\ conn' = [conn EXCEPT ![c].pc = "open"]
  /\ writer' = [writer EXCEPT ![c] = "writing"]
  /\ UNCHANGED <<hub, redis, pub, delivery, done, written>>

\* pong and realtime.error.
Reply(c) ==
  /\ conn[c].pc = "open"
  /\ conn[c].replies < MaxReplies
  /\ Put(c, "reply")
  /\ conn' = [conn EXCEPT ![c].replies = @ + 1]
  /\ UNCHANGED <<hub, redis, pub, delivery, writer, done, written>>

\* The reader meets an error: the client left, the deadline passed, which is
\* never after the access token's expiry, or the writer has closed the socket.
ReaderEnds(c) ==
  /\ conn[c].pc = "open"
  /\ conn' = [conn EXCEPT ![c].pc = "closing"]
  /\ done' = [done EXCEPT ![c] = TRUE]
  /\ UNCHANGED <<hub, redis, pub, delivery, writer, stream, written>>

Write(c) ==
  /\ writer[c] = "writing"
  /\ Queued(c) > 0
  /\ written' = [written EXCEPT ![c] = @ + 1]
  /\ UNCHANGED <<hub, redis, pub, delivery, conn, writer, done, stream>>

\* The writer sees done, fails to write, or finds the access token expired when
\* it would ping; it closes the socket.
WriterEnds(c) ==
  /\ writer[c] = "writing"
  /\ writer' = [writer EXCEPT ![c] = "ended"]
  /\ UNCHANGED <<hub, redis, pub, delivery, conn, done, stream, written>>

Unregister(c) ==
  /\ conn[c].pc = "closing"
  /\ writer[c] = "ended"
  /\ Unlocked(conn[c].hub)
  /\ registered' = [registered EXCEPT ![conn[c].hub] = @ \ {c}]
  /\ conn' = [conn EXCEPT ![c].pc = "gone"]
  /\ UNCHANGED <<closed, closing, redis, pub, delivery, writer, done, stream,
                 written>>

-----------------------------------------------------------------------------
(* Close.                                                                  *)

\* Fault: the map is replaced and its connections are forgotten.
CloseForgets(i) ==
  /\ ~closed[i]
  /\ Unlocked(i)
  /\ closed' = [closed EXCEPT ![i] = TRUE]
  /\ registered' = [registered EXCEPT ![i] = {}]
  /\ UNCHANGED <<closing, redis, pub, delivery, sockets>>

Close(i) ==
  /\ ~closed[i]
  /\ Unlocked(i)
  /\ closed' = [closed EXCEPT ![i] = TRUE]
  /\ closing' = [closing EXCEPT ![i] = registered[i]]
  /\ registered' = [registered EXCEPT ![i] = {}]
  /\ UNCHANGED <<redis, pub, delivery, sockets>>

CloseConn(i, c) ==
  /\ c \in closing[i]
  /\ closing' = [closing EXCEPT ![i] = @ \ {c}]
  /\ done' = [done EXCEPT ![c] = TRUE]
  /\ UNCHANGED <<closed, registered, redis, pub, delivery, conn, writer, stream,
                 written>>

\* pubsub.Close ends the consumer.
CloseSubscription(i) ==
  /\ closed[i] /\ closing[i] = {}
  /\ inbox[i] # None
  /\ ~Delivering(i)
  /\ inbox' = [inbox EXCEPT ![i] = None]
  /\ UNCHANGED <<hub, delayed, strayed, tries, pub, delivery, sockets>>

-----------------------------------------------------------------------------
Init ==
  /\ closed = [i \in Instances |-> FALSE]
  /\ closing = [i \in Instances |-> {}]
  /\ registered = [i \in Instances |-> {}]
  /\ inbox = [i \in Instances |-> <<>>]
  /\ delayed = {} /\ strayed = {} /\ tries = [e \in Events |-> 0]
  /\ pub = [p \in Publishers |-> [pc |-> "idle", n |-> 0]]
  /\ delivery = [d \in Deliverers |-> NoDelivery]
  /\ conn = [c \in Conns |-> [pc |-> "new", hub |-> None, replies |-> 0]]
  /\ writer = [c \in Conns |-> "none"]
  /\ done = [c \in Conns |-> FALSE]
  /\ stream = [c \in Conns |-> <<>>]
  /\ written = [c \in Conns |-> 0]

Deliver(d) == \E c \in Conns : Enqueue(d, c)

Next ==
  \/ \E p \in Publishers :
       \/ Publish(p) \/ PublishDelivered(p)
       \/ PublishBroker(p) \/ PublishAgain(p) \/ PublishTimesOut(p)
  \/ \E d \in Deliverers : Deliver(d)
  \/ \E d \in delayed : ArriveLate(d)
  \/ \E i \in Instances :
       \/ Consume(i) \/ ConsumeDelivered(i) \/ LoseMail(i)
       \/ Close(i) \/ CloseSubscription(i)
       \/ \E c \in Conns : CloseConn(i, c) \/ Register(c, i)
  \/ \E c \in Conns :
       \/ Ready(c) \/ Reply(c) \/ ReaderEnds(c)
       \/ Write(c) \/ WriterEnds(c) \/ Unregister(c)

Spec == Init /\ [][Next]_vars

\* Goroutines that can run do run, a publication to Redis ends within its two
\* seconds, a writer whose connection is done stops, and a reader whose socket
\* is closed meets an error.  Clients owe nothing: they need not read what is
\* written, and no writer need ever succeed in writing.
FairSpec ==
  /\ Spec
  /\ \A p \in Publishers :
       /\ WF_vars(PublishDelivered(p))
       /\ WF_vars(PublishBroker(p) \/ PublishTimesOut(p))
  /\ \A d \in Deliverers : WF_vars(Deliver(d))
  /\ \A i \in Instances :
       /\ WF_vars(ConsumeDelivered(i))
       /\ \A c \in Conns : WF_vars(CloseConn(i, c))
  /\ \A c \in Conns :
       /\ WF_vars(Ready(c)) /\ WF_vars(Unregister(c))
       /\ WF_vars(done[c] /\ WriterEnds(c))
       /\ WF_vars(writer[c] = "ended" /\ ReaderEnds(c))

-----------------------------------------------------------------------------
(* Properties.                                                             *)

Envelopes == [origin : Instances, event : Events]

\* Every variable has its type, and no queue is longer than its channel.
TypeOK ==
  /\ closed \in [Instances -> BOOLEAN]
  /\ closing \in [Instances -> SUBSET Conns]
  /\ registered \in [Instances -> SUBSET Conns]
  /\ inbox \in [Instances -> {None} \cup Seq(Envelopes)]
  /\ delayed \subseteq [env : Envelopes, try : Nat]
  /\ strayed \subseteq Events /\ tries \in [Events -> Nat]
  /\ pub \in [Publishers -> [pc : {"idle", "deliver", "broker"}, n : Nat]]
  /\ delivery \in [Deliverers -> [event : Events \cup {None},
                                  todo : SUBSET Conns]]
  /\ conn \in [Conns -> [pc : {"new", "registered", "open", "closing", "gone"},
                         hub : Instances \cup {None}, replies : 0..MaxReplies]]
  /\ writer \in [Conns -> {"none", "writing", "ended"}]
  /\ done \in [Conns -> BOOLEAN]
  /\ stream \in [Conns -> Seq(Events \cup {"ready", "reply"})]
  /\ written \in [Conns -> Nat]
  /\ \A c \in Conns : Queued(c) \in 0..Cap

\* A connection gets events for its user only, and one twice only if Redis was
\* sent it again, never on the publisher's instance: Redis sends the event to
\* that one too, which leaves its own envelopes aside (hub.go:114-124, 189).
OnlyRetriesRepeat ==
  \A c \in Conns : \A m, n \in DOMAIN stream[c] :
    LET e == stream[c][m] IN
    e \in Events =>
      /\ UserOf[c] \in To[e]
      /\ stream[c][n] = e /\ m # n =>
           /\ tries[e] > 0
           /\ \A p \in Publishers : e \in Planned(p) => conn[c].hub # At[p]

\* Whoever publishes one event after another, as chat does for one sender's
\* messages, is heard in that order on every connection, local or not, unless
\* a copy of the earlier event was left, unanswered, on its way to Redis.
PublishersAreHeardInOrder ==
  \A p \in Publishers : \A j, k \in DOMAIN Plan[p] :
    j < k /\ Plan[p][j] \notin strayed =>
      \A c \in Conns : \A m, n \in DOMAIN stream[c] :
        stream[c][m] = Plan[p][j] /\ stream[c][n] = Plan[p][k] => m < n

\* No connection is left in a closed hub, where nothing would ever close it:
\* one that registers during Close is refused (hub.go:133, 77-86).
ClosedHubIsEmpty == \A i \in Instances : closed[i] => registered[i] = {}

\* A publication ends, whatever its recipients' clients do: a full queue makes
\* no publisher, and so no handler, wait (hub.go:248-253).
EveryPublishEnds ==
  \A p \in Publishers : pub[p].pc # "idle" ~> pub[p].pc = "idle"

\* Once the hub is closed the handlers of all its connections return.
ClosedHubLetsGo ==
  \A i \in Instances :
    closed[i] ~> \A c \in Conns : conn[c].hub = i => conn[c].pc = "gone"

\* Of a publisher, the calls it has begun; of a connection, how often an event
\* was put into its queue.
Told(p) == IF pub[p].pc = "idle" THEN pub[p].n ELSE pub[p].n + 1
Times(c, e) == Cardinality({n \in DOMAIN stream[c] : stream[c][n] = e})

News == INSTANCE Feed WITH
  told <- [p \in Publishers |-> Told(p)],
  calling <- {p \in Publishers : pub[p].pc # "idle"},
  late <- strayed, repeated <- {e \in Events : tries[e] > 0},
  home <- [c \in Conns |-> conn[c].hub],
  heard <- [c \in Conns |-> [e \in Events |-> Times(c, e)]]

\* However events travel, through the hub, through Redis, late, or past a full
\* queue, connections see what Feed promises: the publisher's order, nothing
\* twice but what Redis was sent again, and on the publisher's own instance an
\* event once and during its call only, which chat's answer to a sender comes
\* after (hub.go:100-128, 189, 201-212).
ImplementsFeed == News!Spec
=============================================================================
