--------------------------- MODULE RealtimeProofs ---------------------------
(***************************************************************************)
(* Proofs about Realtime, for any instances, connections, publishers and   *)
(* queue sizes: a connection gets an event twice only if Redis was sent it *)
(* twice, and one publisher's events in their order, no queue overruns its *)
(* channel, and a closed hub is empty.                                     *)
(*                                                                         *)
(* An event reaches a connection on one of two ways only: through the call *)
(* of its publisher, if the connection's hub is the publisher's, and       *)
(* through the mail of its own hub otherwise.  The invariant says that     *)
(* what has been heard is no longer on that way (Heard), that each way     *)
(* carries an event once (Mailed, Served), both but for what Redis was     *)
(* sent again, and that mail, deliveries and what is heard are in the      *)
(* publishers' order but for late arrivals (MailOrdered, ServedInOrder,    *)
(* HeardInOrder).                                                          *)
(***************************************************************************)
EXTENDS Realtime, FiniteSetTheorems, TLAPS

\* The events in an instance's inbox, in late publications, and on a
\* connection's stream.
Mail(i) == IF inbox[i] = None THEN {}
           ELSE {inbox[i][n].event : n \in DOMAIN inbox[i]}
Late == {d.env.event : d \in delayed}

\* The events Redis may have been sent more than once.
Repeated == {e \in Events : tries[e] > 0}
Stream(c) == {stream[c][n] : n \in DOMAIN stream[c]}

Publisher == [pc : {"idle", "deliver", "broker"}, n : Nat]
DeliveryCall == [event : Events \cup {None}, todo : SUBSET Conns]
Connection == [pc : {"new", "registered", "open", "closing", "gone"},
               hub : Instances \cup {None}, replies : 0..MaxReplies]

\* Redis may have been sent the kth event of p.
Sent(p, k) ==
  \/ k <= pub[p].n
  \/ k = pub[p].n + 1 /\ pub[p].pc = "broker" /\ Plan[p][k] \in Repeated

\* An envelope names the instance of its publisher, which has sent it.
Posted(m) ==
  \A p \in Publishers : \A k \in DOMAIN Plan[p] :
    m.event = Plan[p][k] => m.origin = At[p] /\ Sent(p, k)

Mailed ==
  /\ \A i \in Instances : inbox[i] # None =>
       /\ \A n \in DOMAIN inbox[i] : Posted(inbox[i][n])
       /\ \A m, n \in DOMAIN inbox[i] :
            inbox[i][m].event = inbox[i][n].event =>
              m = n \/ inbox[i][m].event \in Repeated
       /\ Mail(i) \cap Late \subseteq Repeated
  /\ \A d \in delayed : Posted(d.env) /\ d.try <= tries[d.env.event]
  /\ Late \subseteq strayed

Served ==
  /\ \A d \in Deliverers : delivery[d].event = None => delivery[d].todo = {}
  /\ \A p \in Publishers :
       /\ pub[p].pc # "idle" => pub[p].n < Len(Plan[p])
       /\ delivery[p].event # None =>
            pub[p].pc = "deliver" /\ delivery[p].event = NextEvent(p)
  /\ \A i \in Instances, p \in Publishers : \A k \in DOMAIN Plan[p] :
       delivery[i].event = Plan[p][k] =>
         /\ At[p] # i /\ Sent(p, k)
         /\ Plan[p][k] \in Repeated \/ Plan[p][k] \notin Mail(i) \cup Late

Placed ==
  /\ \A i \in Instances : \A c \in registered[i] :
       conn[c].hub = i /\ conn[c].pc # "new"
  /\ \A d \in Deliverers : \A c \in delivery[d].todo :
       /\ conn[c].hub = InstanceOf(d) /\ conn[c].pc # "new"
       /\ UserOf[c] \in To[delivery[d].event]
  /\ \A c \in Conns :
       /\ conn[c].pc = "new" => stream[c] = <<>> /\ conn[c].hub = None
       /\ conn[c].pc # "new" => conn[c].hub \in Instances

HeardHere(c, p, k) ==
  \/ k <= pub[p].n
  \/ k = pub[p].n + 1 /\ pub[p].pc = "broker"
  \/ k = pub[p].n + 1 /\ pub[p].pc = "deliver" /\ c \notin delivery[p].todo

HeardElsewhere(c, p, k) ==
  LET i == conn[c].hub IN
  /\ Sent(p, k)
  /\ \/ Plan[p][k] \in Repeated
     \/ /\ Plan[p][k] \notin Mail(i) \cup Late
        /\ delivery[i].event = Plan[p][k] => c \notin delivery[i].todo

Heard ==
  \A c \in Conns, p \in Publishers : \A k \in DOMAIN Plan[p] :
    Plan[p][k] \in Stream(c) =>
      /\ UserOf[c] \in To[Plan[p][k]]
      /\ conn[c].hub = At[p] => HeardHere(c, p, k)
      /\ conn[c].hub # At[p] => HeardElsewhere(c, p, k)

\* What a publisher sends first and in time, its kth event finds no more in
\* the mail behind it, none is delivered while the earlier is still in the
\* mail, and none is heard before it.
InTime(p, j, k) == j < k /\ Plan[p][j] \notin strayed

MailOrdered ==
  \A p \in Publishers : \A j, k \in DOMAIN Plan[p] : InTime(p, j, k) =>
    \A i \in Instances : inbox[i] # None =>
      \A m, n \in DOMAIN inbox[i] :
        inbox[i][m].event = Plan[p][j] /\ inbox[i][n].event = Plan[p][k] => m < n

ServedInOrder ==
  \A p \in Publishers : \A j, k \in DOMAIN Plan[p] : InTime(p, j, k) =>
    \A i \in Instances :
      delivery[i].event = Plan[p][k] => Plan[p][j] \notin Mail(i)

HeardInOrder ==
  \A p \in Publishers : \A j, k \in DOMAIN Plan[p] : InTime(p, j, k) =>
    \A c \in Conns :
      Plan[p][k] \in Stream(c) /\ conn[c].hub # At[p] =>
        /\ Plan[p][j] \notin Mail(conn[c].hub)
        /\ delivery[conn[c].hub].event # Plan[p][j]

RealtimeInv ==
  /\ TypeOK /\ ClosedHubIsEmpty
  /\ Mailed /\ Served /\ Placed
  /\ Heard /\ OnlyRetriesRepeat
  /\ MailOrdered /\ ServedInOrder /\ HeardInOrder
  /\ PublishersAreHeardInOrder

-----------------------------------------------------------------------------
(* The plans, sequences, and what the parts of the invariant say.          *)

LEMMA PlanFacts ==
  ASSUME NEW p \in Publishers
  PROVE  /\ DOMAIN Plan[p] = 1..Len(Plan[p]) /\ Len(Plan[p]) \in Nat
         /\ \A k \in DOMAIN Plan[p] :
              Plan[p][k] \in Events /\ Plan[p][k] \notin {None, "ready", "reply"}
         /\ At[p] \in Instances /\ p \notin Instances /\ p \in Deliverers
<1>1. \A k \in DOMAIN Plan[p] : Plan[p][k] \in Events
  BY DEF Planned, Events
<1> QED
  BY <1>1, PublishersAssumption, EventsAssumption DEF Deliverers

LEMMA EventFacts ==
  ASSUME NEW e \in Events
  PROVE  /\ \E p \in Publishers : \E k \in DOMAIN Plan[p] : e = Plan[p][k]
         /\ e \notin {None, "ready", "reply"}
BY EventsAssumption DEF Planned, Events

\* No two publications are of one event.
LEMMA OneEvent ==
  ASSUME NEW p \in Publishers, NEW k \in DOMAIN Plan[p], NEW e, e = Plan[p][k]
  PROVE  \A q \in Publishers : \A l \in DOMAIN Plan[q] :
           e = Plan[q][l] => q = p /\ l = k
<1> SUFFICES ASSUME NEW q \in Publishers, NEW l \in DOMAIN Plan[q], e = Plan[q][l]
             PROVE  q = p /\ l = k
  OBVIOUS
<1>1. Plan[p][k] = Plan[q][l]
  OBVIOUS
<1> QED
  BY <1>1, PlanAssumption

LEMMA AppendFacts ==
  ASSUME NEW S, NEW s \in Seq(S), NEW e \in S
  PROVE  /\ Append(s, e) \in Seq(S) /\ Len(Append(s, e)) = Len(s) + 1
         /\ DOMAIN Append(s, e) = 1..(Len(s) + 1) /\ DOMAIN s = 1..Len(s)
         /\ Len(s) \in Nat
         /\ \A n \in DOMAIN s : Append(s, e)[n] = s[n]
         /\ Append(s, e)[Len(s) + 1] = e
OBVIOUS

LEMMA TailFacts ==
  ASSUME NEW S, NEW s \in Seq(S), s # <<>>
  PROVE  /\ Tail(s) \in Seq(S) /\ DOMAIN Tail(s) = 1..(Len(s) - 1)
         /\ DOMAIN s = 1..Len(s) /\ Len(s) \in Nat \ {0}
         /\ \A n \in DOMAIN Tail(s) : Tail(s)[n] = s[n + 1] /\ n + 1 \in DOMAIN s
         /\ Head(s) = s[1] /\ Head(s) \in S
OBVIOUS

LEMMA RealtimeTypes ==
  ASSUME RealtimeInv
  PROVE  /\ pub \in [Publishers -> Publisher]
         /\ delivery \in [Deliverers -> DeliveryCall]
         /\ conn \in [Conns -> Connection]
         /\ registered \in [Instances -> SUBSET Conns]
         /\ inbox \in [Instances -> {None} \cup Seq(Envelopes)]
         /\ stream \in [Conns -> Seq(Events \cup {"ready", "reply"})]
         /\ written \in [Conns -> Nat] /\ \A c \in Conns : Queued(c) \in 0..Cap
         /\ closed \in [Instances -> BOOLEAN] /\ closing \in [Instances -> SUBSET Conns]
         /\ writer \in [Conns -> {"none", "writing", "ended"}] /\ done \in [Conns -> BOOLEAN]
         /\ delayed \subseteq [env : Envelopes, try : Nat] /\ strayed \subseteq Events
         /\ tries \in [Events -> Nat]
BY DEF RealtimeInv, TypeOK, Publisher, DeliveryCall, Connection

\* What was sent and repeated stays so with the publishers and the retries.
LEMMA SentStays ==
  ASSUME UNCHANGED <<pub, tries>>
  PROVE  /\ Repeated' = Repeated
         /\ \A p \in Publishers : \A k \in DOMAIN Plan[p] : Sent(p, k)' <=> Sent(p, k)
         /\ \A m : Posted(m) => Posted(m)'
<1>1. Repeated' = Repeated
  BY DEF Repeated
<1>2. \A p \in Publishers : \A k \in DOMAIN Plan[p] : Sent(p, k)' <=> Sent(p, k)
  BY <1>1 DEF Sent
<1> QED
  BY <1>1, <1>2 DEF Posted

\* A publisher that is not idle has an event to send, which is no frame of a
\* connection's own.
LEMMA NextEventFacts ==
  ASSUME RealtimeInv, NEW p \in Publishers, pub[p].n < Len(Plan[p])
  PROVE  /\ pub[p].n + 1 \in DOMAIN Plan[p] /\ pub[p].n \in Nat
         /\ NextEvent(p) = Plan[p][pub[p].n + 1]
         /\ NextEvent(p) \in Events /\ NextEvent(p) # None
         /\ Envelope(p) \in Envelopes /\ Envelope(p).event = NextEvent(p)
         /\ Envelope(p).origin = At[p]
<1>1. pub[p].n \in Nat
  BY RealtimeTypes DEF Publisher
<1>2. pub[p].n + 1 \in DOMAIN Plan[p] /\ NextEvent(p) = Plan[p][pub[p].n + 1]
  BY <1>1, PlanFacts DEF NextEvent
<1> QED
  BY <1>1, <1>2, PlanFacts DEF Envelope, Envelopes

\* Steps that neither publish, deliver nor mail: connections come and go, and
\* handlers queue frames of their own.
LEMMA HubSteps ==
  ASSUME RealtimeInv, UNCHANGED <<inbox, delayed, strayed, tries, pub, delivery>>,
         TypeOK', ClosedHubIsEmpty',
         \A i \in Instances : registered'[i] \subseteq registered[i],
         \A c \in Conns : /\ conn'[c].hub = conn[c].hub
                          /\ conn'[c].pc = "new" <=> conn[c].pc = "new"
                          /\ conn[c].pc = "new" => stream'[c] = <<>>,
         \A c \in Conns : \A n \in DOMAIN stream'[c] :
           stream'[c][n] \in Events =>
             n \in DOMAIN stream[c] /\ stream[c][n] = stream'[c][n]
  PROVE  RealtimeInv'
<1>1. \A i \in Instances : Mail(i)' = Mail(i)
  BY DEF Mail
<1>2. Late' = Late
  BY DEF Late
<1>3. \A c \in Conns : \A e \in Events : e \in Stream(c)' => e \in Stream(c)
  BY DEF Stream
<1>0. /\ Repeated' = Repeated
      /\ \A p \in Publishers : \A k \in DOMAIN Plan[p] : Sent(p, k)' <=> Sent(p, k)
      /\ \A m : Posted(m) => Posted(m)'
  BY SentStays
<1>4. Mailed'
  BY <1>0, <1>1, <1>2 DEF RealtimeInv, Mailed
<1>5. Served'
  BY <1>0, <1>1, <1>2 DEF RealtimeInv, Served, NextEvent
<1>6. Placed'
  <2>1. \A d \in Deliverers : delivery[d].todo \subseteq Conns
    BY RealtimeTypes DEF DeliveryCall
  <2>2. \A i \in Instances : registered[i] \subseteq Conns
    BY RealtimeTypes
  <2> QED
    BY <2>1, <2>2 DEF RealtimeInv, Placed
<1>7. Heard'
  <2> SUFFICES ASSUME NEW c \in Conns, NEW p \in Publishers, NEW k \in DOMAIN Plan[p],
                      Plan[p][k] \in Stream(c)'
               PROVE  /\ UserOf[c] \in To[Plan[p][k]]
                      /\ conn'[c].hub = At[p] => HeardHere(c, p, k)'
                      /\ conn'[c].hub # At[p] => HeardElsewhere(c, p, k)'
    BY DEF Heard
  <2>1. Plan[p][k] \in Stream(c)
    BY <1>3, PlanFacts
  <2>2. conn[c].hub \in Instances
    <3>1. stream[c] # <<>>
      BY <2>1 DEF Stream
    <3> QED
      BY <3>1 DEF RealtimeInv, Placed
  <2> QED
    BY <1>0, <1>1, <1>2, <2>1, <2>2 DEF RealtimeInv, Heard, HeardHere, HeardElsewhere
<1>8. OnlyRetriesRepeat'
  <2> SUFFICES ASSUME NEW c \in Conns, NEW m \in DOMAIN stream'[c], NEW n \in DOMAIN stream'[c],
                      stream'[c][m] \in Events
               PROVE  /\ UserOf[c] \in To[stream'[c][m]]
                      /\ stream'[c][n] = stream'[c][m] /\ m # n =>
                           /\ tries[stream'[c][m]] > 0
                           /\ \A p \in Publishers :
                                stream'[c][m] \in Planned(p) => conn'[c].hub # At[p]
    BY DEF OnlyRetriesRepeat
  <2>1. m \in DOMAIN stream[c] /\ stream[c][m] = stream'[c][m]
    OBVIOUS
  <2>2. stream'[c][n] = stream'[c][m] => n \in DOMAIN stream[c] /\ stream[c][n] = stream'[c][n]
    OBVIOUS
  <2> QED
    BY <2>1, <2>2 DEF RealtimeInv, OnlyRetriesRepeat
<1>9. MailOrdered' /\ ServedInOrder'
  BY <1>1 DEF RealtimeInv, MailOrdered, ServedInOrder, InTime
<1>10. HeardInOrder'
  <2> SUFFICES ASSUME NEW c \in Conns, NEW p \in Publishers,
                      NEW j \in DOMAIN Plan[p], NEW k \in DOMAIN Plan[p],
                      InTime(p, j, k)', Plan[p][k] \in Stream(c)', conn'[c].hub # At[p]
               PROVE  /\ Plan[p][j] \notin Mail(conn[c].hub)'
                      /\ delivery'[conn'[c].hub].event # Plan[p][j]
    BY DEF HeardInOrder
  <2>1. Plan[p][k] \in Stream(c)
    BY <1>3, PlanFacts
  <2>2. conn[c].hub \in Instances
    <3>1. stream[c] # <<>>
      BY <2>1 DEF Stream
    <3> QED
      BY <3>1 DEF RealtimeInv, Placed
  <2> QED
    BY <1>1, <2>1, <2>2 DEF RealtimeInv, HeardInOrder, InTime
<1>11. PublishersAreHeardInOrder'
  <2> SUFFICES ASSUME NEW p \in Publishers, NEW j \in DOMAIN Plan[p],
                      NEW k \in DOMAIN Plan[p], j < k, Plan[p][j] \notin strayed',
                      NEW c \in Conns, NEW m \in DOMAIN stream'[c],
                      NEW n \in DOMAIN stream'[c],
                      stream'[c][m] = Plan[p][j], stream'[c][n] = Plan[p][k]
               PROVE  m < n
    BY DEF PublishersAreHeardInOrder
  <2> QED
    BY PlanFacts DEF RealtimeInv, PublishersAreHeardInOrder
<1> QED
  BY <1>4, <1>5, <1>6, <1>7, <1>8, <1>9, <1>10, <1>11 DEF RealtimeInv

-----------------------------------------------------------------------------
(* Steps of a connection and of Close.                                     *)

LEMMA ReaderEndsKeeps ==
  ASSUME RealtimeInv, NEW c \in Conns, ReaderEnds(c)
  PROVE  RealtimeInv'
<1>1. /\ UNCHANGED <<hub, redis, pub, delivery, writer, stream, written>>
      /\ conn' = [conn EXCEPT ![c].pc = "closing"] /\ conn[c].pc = "open"
      /\ done' = [done EXCEPT ![c] = TRUE]
  BY DEF ReaderEnds
<1>2. conn' \in [Conns -> Connection] /\ done' \in [Conns -> BOOLEAN]
  BY ZenonT(60), <1>1, RealtimeTypes DEF Connection
<1>3. TypeOK' /\ ClosedHubIsEmpty'
  BY <1>1, <1>2 DEF RealtimeInv, TypeOK, ClosedHubIsEmpty, Connection, Queued, hub, redis
<1>4. \A x \in Conns : /\ conn'[x].hub = conn[x].hub
                       /\ conn'[x].pc = "new" <=> conn[x].pc = "new"
  BY <1>1, RealtimeTypes DEF Connection
<1>5. \A x \in Conns : conn[x].pc = "new" => stream'[x] = <<>>
  BY <1>1 DEF RealtimeInv, Placed
<1> QED
  BY <1>1, <1>3, <1>4, <1>5, HubSteps DEF hub, redis

LEMMA WriterKeeps ==
  ASSUME RealtimeInv, NEW c \in Conns, Write(c) \/ WriterEnds(c)
  PROVE  RealtimeInv'
<1>1. UNCHANGED <<hub, redis, pub, delivery, conn, done, stream>>
  BY DEF Write, WriterEnds
<1>2. TypeOK'
  <2>1. CASE Write(c)
    <3>1. UNCHANGED writer /\ written' = [written EXCEPT ![c] = written[c] + 1] /\ Queued(c) > 0
      BY <2>1 DEF Write
    <3>2. \A x \in Conns : Len(stream[x]) \in Nat /\ written[x] \in Nat
                           /\ Len(stream[x]) - written[x] \in 0..Cap
      BY RealtimeTypes DEF Queued
    <3>3. written' \in [Conns -> Nat] /\ \A x \in Conns : Len(stream[x]) - written'[x] \in 0..Cap
      BY <3>1, <3>2, RealtimeTypes, CapAssumption DEF Queued
    <3> QED
      BY <1>1, <3>1, <3>3 DEF RealtimeInv, TypeOK, Queued, hub, redis
  <2>2. CASE WriterEnds(c)
    BY <1>1, <2>2 DEF RealtimeInv, TypeOK, WriterEnds, Queued, hub, redis
  <2> QED
    BY <2>1, <2>2
<1>3. ClosedHubIsEmpty'
  BY <1>1 DEF RealtimeInv, ClosedHubIsEmpty, hub
<1>4. \A x \in Conns : conn[x].pc = "new" => stream'[x] = <<>>
  BY <1>1 DEF RealtimeInv, Placed
<1> QED
  BY <1>1, <1>2, <1>3, <1>4, HubSteps DEF hub, redis

LEMMA UnregisterKeeps ==
  ASSUME RealtimeInv, NEW c \in Conns, Unregister(c)
  PROVE  RealtimeInv'
<1>1. /\ UNCHANGED <<closed, closing, redis, pub, delivery, writer, done, stream, written>>
      /\ registered' = [registered EXCEPT ![conn[c].hub] = @ \ {c}]
      /\ conn' = [conn EXCEPT ![c].pc = "gone"] /\ conn[c].pc = "closing"
  BY DEF Unregister
<1>2. conn' \in [Conns -> Connection] /\ registered' \in [Instances -> SUBSET Conns]
      /\ \A i \in Instances : registered'[i] \subseteq registered[i]
  BY ZenonT(60), <1>1, RealtimeTypes DEF Connection
<1>3. TypeOK' /\ ClosedHubIsEmpty'
  BY <1>1, <1>2 DEF RealtimeInv, TypeOK, ClosedHubIsEmpty, Connection, Queued, redis
<1>4. \A x \in Conns : /\ conn'[x].hub = conn[x].hub
                       /\ conn'[x].pc = "new" <=> conn[x].pc = "new"
  BY <1>1, RealtimeTypes DEF Connection
<1>5. \A x \in Conns : conn[x].pc = "new" => stream'[x] = <<>>
  BY <1>1 DEF RealtimeInv, Placed
<1> QED
  BY <1>1, <1>2, <1>3, <1>4, <1>5, HubSteps DEF redis

LEMMA CloseKeeps ==
  ASSUME RealtimeInv, NEW i \in Instances, Close(i) \/ \E c \in Conns : CloseConn(i, c)
  PROVE  RealtimeInv'
<1>1. UNCHANGED <<redis, pub, delivery, conn, writer, stream, written>>
  BY DEF Close, CloseConn, sockets
<1>2. TypeOK' /\ ClosedHubIsEmpty' /\ \A j \in Instances : registered'[j] \subseteq registered[j]
  <2>1. CASE Close(i)
    <3>1. /\ closed' = [closed EXCEPT ![i] = TRUE]
          /\ closing' = [closing EXCEPT ![i] = registered[i]]
          /\ registered' = [registered EXCEPT ![i] = {}] /\ UNCHANGED done
      BY <2>1 DEF Close, sockets
    <3>2. /\ closed' \in [Instances -> BOOLEAN] /\ closing' \in [Instances -> SUBSET Conns]
          /\ registered' \in [Instances -> SUBSET Conns]
          /\ \A j \in Instances : registered'[j] \subseteq registered[j]
      BY <3>1, RealtimeTypes
    <3>3. TypeOK'
      BY <1>1, <3>1, <3>2 DEF RealtimeInv, TypeOK, Queued, redis
    <3>4. ClosedHubIsEmpty'
      BY <3>1, RealtimeTypes DEF RealtimeInv, ClosedHubIsEmpty
    <3> QED
      BY <3>2, <3>3, <3>4
  <2>2. CASE \E c \in Conns : CloseConn(i, c)
    <3>1. PICK c \in Conns : CloseConn(i, c)
      BY <2>2
    <3>2. /\ UNCHANGED <<closed, registered>> /\ closing' = [closing EXCEPT ![i] = @ \ {c}]
          /\ done' = [done EXCEPT ![c] = TRUE]
      BY <3>1 DEF CloseConn
    <3>3. closing' \in [Instances -> SUBSET Conns] /\ done' \in [Conns -> BOOLEAN]
      BY <3>2, RealtimeTypes
    <3> QED
      BY <1>1, <3>2, <3>3 DEF RealtimeInv, TypeOK, ClosedHubIsEmpty, Queued, redis
  <2> QED
    BY <2>1, <2>2
<1>3. \A x \in Conns : conn[x].pc = "new" => stream'[x] = <<>>
  BY <1>1 DEF RealtimeInv, Placed
<1> QED
  BY <1>1, <1>2, <1>3, HubSteps DEF redis

\* What enqueue does: nothing, or it puts the frame last, with a place free.
LEMMA PutFacts ==
  ASSUME RealtimeInv, NEW c \in Conns, NEW m \in Events \cup {"ready", "reply"}, Put(c, m)
  PROVE  /\ stream' \in [Conns -> Seq(Events \cup {"ready", "reply"})]
         /\ \A x \in Conns : Len(stream'[x]) - written[x] \in 0..Cap
         /\ \/ stream' = stream
            \/ /\ stream'[c] = Append(stream[c], m)
               /\ \A x \in Conns \ {c} : stream'[x] = stream[x]
<1>1. \A x \in Conns : /\ stream[x] \in Seq(Events \cup {"ready", "reply"})
                       /\ Len(stream[x]) \in Nat /\ written[x] \in Nat
                       /\ Len(stream[x]) - written[x] \in 0..Cap
  BY RealtimeTypes DEF Queued
<1>2. CASE stream' = stream
  BY <1>1, <1>2, RealtimeTypes
<1>3. CASE stream' # stream
  <2>1. stream' = [stream EXCEPT ![c] = Append(stream[c], m)]
        /\ Len(stream[c]) - written[c] # Cap
    BY <1>3 DEF Put, Queued
  <2>2. /\ stream'[c] = Append(stream[c], m)
        /\ \A x \in Conns \ {c} : stream'[x] = stream[x]
    BY <2>1, RealtimeTypes
  <2>3. Len(stream'[c]) = Len(stream[c]) + 1
    BY <1>1, <2>2, AppendFacts
  <2>4. \A x \in Conns : Len(stream'[x]) - written[x] \in 0..Cap
    BY <1>1, <2>1, <2>2, <2>3, CapAssumption
  <2>5. stream' \in [Conns -> Seq(Events \cup {"ready", "reply"})]
    BY <1>1, <2>1, AppendFacts, RealtimeTypes
  <2> QED
    BY <2>2, <2>4, <2>5
<1> QED
  BY <1>2, <1>3

LEMMA FramesKeep ==
  ASSUME RealtimeInv, NEW c \in Conns, Ready(c) \/ Reply(c)
  PROVE  RealtimeInv'
<1>1. PICK m \in {"ready", "reply"} : Put(c, m)
  BY DEF Ready, Reply
<1>2. UNCHANGED <<hub, redis, pub, delivery, done, written>>
  BY DEF Ready, Reply
<1>3. /\ conn' \in [Conns -> Connection] /\ writer' \in [Conns -> {"none", "writing", "ended"}]
      /\ conn[c].pc # "new"
      /\ \A x \in Conns : /\ conn'[x].hub = conn[x].hub
                          /\ conn'[x].pc = "new" <=> conn[x].pc = "new"
  <2>1. CASE Ready(c)
    BY <2>1, RealtimeTypes DEF Ready, Connection
  <2>2. CASE Reply(c)
    <3>1. /\ conn[c].pc = "open" /\ conn[c].replies < MaxReplies /\ UNCHANGED writer
          /\ conn' = [conn EXCEPT ![c].replies = conn[c].replies + 1]
      BY <2>2 DEF Reply
    <3>2. conn[c] \in Connection /\ conn[c].replies + 1 \in 0..MaxReplies
      BY <3>1, RealtimeTypes, MaxRepliesAssumption DEF Connection
    <3> QED
      BY <3>1, <3>2, RealtimeTypes DEF Connection
  <2> QED
    BY <2>1, <2>2
<1>4. /\ stream' \in [Conns -> Seq(Events \cup {"ready", "reply"})]
      /\ \A x \in Conns : Len(stream'[x]) - written[x] \in 0..Cap
      /\ \/ stream' = stream
         \/ /\ stream'[c] = Append(stream[c], m)
            /\ \A x \in Conns \ {c} : stream'[x] = stream[x]
  BY <1>1, PutFacts
<1>5. TypeOK' /\ ClosedHubIsEmpty'
  BY <1>2, <1>3, <1>4 DEF RealtimeInv, TypeOK, ClosedHubIsEmpty, Connection, Queued, hub, redis
<1>6. \A x \in Conns : \A n \in DOMAIN stream'[x] :
        stream'[x][n] \in Events =>
          n \in DOMAIN stream[x] /\ stream[x][n] = stream'[x][n]
  <2> SUFFICES ASSUME stream'[c] = Append(stream[c], m), NEW n \in DOMAIN stream'[c],
                      stream'[c][n] \in Events
               PROVE  n \in DOMAIN stream[c] /\ stream[c][n] = stream'[c][n]
    BY <1>4
  <2>1. stream[c] \in Seq(Events \cup {"ready", "reply"})
    BY RealtimeTypes
  <2>2. /\ DOMAIN stream'[c] = 1..(Len(stream[c]) + 1) /\ DOMAIN stream[c] = 1..Len(stream[c])
        /\ Len(stream[c]) \in Nat
        /\ \A k \in DOMAIN stream[c] : stream'[c][k] = stream[c][k]
        /\ stream'[c][Len(stream[c]) + 1] = m
    BY <2>1, AppendFacts
  <2>3. m \notin Events
    BY <1>1, EventFacts
  <2>4. n # Len(stream[c]) + 1
    BY <2>2, <2>3
  <2> QED
    BY <2>2, <2>4
<1>7. \A x \in Conns : conn[x].pc = "new" => stream'[x] = <<>>
  BY <1>3, <1>4 DEF RealtimeInv, Placed
<1> QED
  BY <1>2, <1>3, <1>5, <1>6, <1>7, HubSteps DEF hub, redis

LEMMA RegisterKeeps ==
  ASSUME RealtimeInv, NEW c \in Conns, NEW i \in Instances, Register(c, i)
  PROVE  RealtimeInv'
<1>1. /\ UNCHANGED <<closed, closing, redis, pub, delivery, writer, done, stream, written>>
      /\ conn[c].pc = "new"
  BY DEF Register
<1>2. /\ conn' \in [Conns -> Connection]
      /\ conn'[c].pc # "new" /\ conn'[c].hub = i
      /\ \A x \in Conns \ {c} : conn'[x] = conn[x]
      /\ registered' \in [Instances -> SUBSET Conns]
      /\ registered'[i] \subseteq registered[i] \cup {c}
      /\ \A j \in Instances \ {i} : registered'[j] = registered[j]
      /\ closed[i] => registered' = registered
  <2>1. PICK s \in {"gone", "registered"} :
          conn' = [conn EXCEPT ![c].pc = s, ![c].hub = i]
    BY DEF Register
  <2>2. PICK r : r = [conn[c] EXCEPT !.pc = s, !.hub = i]
    OBVIOUS
  <2>3. conn[c] \in Connection
    BY RealtimeTypes
  <2>4. r \in Connection /\ r.pc # "new" /\ r.hub = i
    BY <2>2, <2>3 DEF Connection
  <2>5. conn' = [conn EXCEPT ![c] = r]
    BY <2>1, <2>2
  <2>6. conn' \in [Conns -> Connection] /\ conn'[c] = r
        /\ \A x \in Conns \ {c} : conn'[x] = conn[x]
    BY <2>4, <2>5, RealtimeTypes
  <2>7. registered' \in {registered, [registered EXCEPT ![i] = @ \cup {c}]}
        /\ (closed[i] => registered' = registered)
    BY DEF Register
  <2>8. /\ registered' \in [Instances -> SUBSET Conns]
        /\ registered'[i] \subseteq registered[i] \cup {c}
        /\ \A j \in Instances \ {i} : registered'[j] = registered[j]
    <3>1. CASE registered' = registered
      BY <3>1, RealtimeTypes
    <3>2. CASE registered' = [registered EXCEPT ![i] = @ \cup {c}]
      <4>1. registered \in [Instances -> SUBSET Conns]
        BY RealtimeTypes
      <4> QED
        BY <3>2, <4>1
    <3> QED
      BY <2>7, <3>1, <3>2
  <2> QED
    BY <2>4, <2>6, <2>7, <2>8
<1>3. TypeOK'
  BY <1>1, <1>2 DEF RealtimeInv, TypeOK, Connection, Queued, redis
<1>4. ClosedHubIsEmpty'
  BY <1>1, <1>2 DEF RealtimeInv, ClosedHubIsEmpty
<1>5. \A j \in Instances : Mail(j)' = Mail(j)
  BY <1>1 DEF Mail, redis
<1>6. Late' = Late
  BY <1>1 DEF Late, redis
<1>0. /\ Repeated' = Repeated
      /\ \A p \in Publishers : \A k \in DOMAIN Plan[p] : Sent(p, k)' <=> Sent(p, k)
      /\ \A m : Posted(m) => Posted(m)'
  BY <1>1, SentStays DEF redis
<1>7. Mailed' /\ MailOrdered' /\ ServedInOrder' /\ Served'
  <2>1. UNCHANGED <<inbox, delayed, strayed, tries, pub, delivery>>
    BY <1>1 DEF redis
  <2>2. Mailed'
    BY <1>0, <1>5, <1>6, <2>1 DEF RealtimeInv, Mailed
  <2>3. MailOrdered' /\ ServedInOrder'
    BY <1>5, <2>1 DEF RealtimeInv, MailOrdered, ServedInOrder, InTime
  <2>4. Served'
    BY <1>0, <1>5, <1>6, <2>1 DEF RealtimeInv, Served, NextEvent
  <2> QED
    BY <2>2, <2>3, <2>4
<1>8. OnlyRetriesRepeat' /\ PublishersAreHeardInOrder'
  <2>1. UNCHANGED <<stream, strayed, tries>> /\ stream[c] = <<>>
    BY <1>1 DEF redis, RealtimeInv, Placed
  <2>2. \A x \in Conns : DOMAIN stream[x] # {} => x # c /\ conn'[x] = conn[x]
    BY <1>2, <2>1
  <2>3. OnlyRetriesRepeat'
    BY <2>1, <2>2 DEF RealtimeInv, OnlyRetriesRepeat
  <2>4. PublishersAreHeardInOrder'
    BY <2>1 DEF RealtimeInv, PublishersAreHeardInOrder
  <2> QED
    BY <2>3, <2>4
<1>9. stream[c] = <<>> /\ \A e : e \notin Stream(c)
  BY <1>1 DEF RealtimeInv, Placed, Stream
<1>10. Placed'
  <2>1. ASSUME NEW j \in Instances, NEW x \in registered'[j]
        PROVE  conn'[x].hub = j /\ conn'[x].pc # "new"
    <3>1. CASE x = c
      <4>1. c \notin registered[j]
        BY <1>1 DEF RealtimeInv, Placed
      <4> QED
        BY <1>2, <2>1, <3>1, <4>1
    <3>2. CASE x # c
      <4>1. x \in registered[j]
        <5>1. CASE j = i
          BY <1>2, <2>1, <3>2, <5>1
        <5>2. CASE j # i
          BY <1>2, <2>1, <5>2
        <5> QED
          BY <5>1, <5>2
      <4>2. x \in Conns
        BY <1>2, <2>1
      <4> QED
        BY <1>2, <3>2, <4>1, <4>2 DEF RealtimeInv, Placed
    <3> QED
      BY <3>1, <3>2
  <2>2. \A d \in Deliverers : \A x \in delivery[d].todo : x \in Conns /\ x # c
    BY <1>1, RealtimeTypes DEF RealtimeInv, Placed, DeliveryCall
  <2>3. \A x \in Conns : /\ conn'[x].pc = "new" => stream[x] = <<>>
                         /\ conn'[x].pc # "new" => conn'[x].hub \in Instances
    BY <1>2 DEF RealtimeInv, Placed
  <2> QED
    BY <1>1, <1>2, <2>1, <2>2, <2>3 DEF RealtimeInv, Placed
\* A connection that has heard something was registered before.
<1>11. ASSUME NEW x \in Conns, NEW e, e \in Stream(x)'
       PROVE  /\ e \in Stream(x) /\ x # c /\ conn'[x] = conn[x] /\ conn[x].hub \in Instances
  <2>1. e \in Stream(x) /\ x # c /\ stream[x] # <<>>
    BY <1>1, <1>9, <1>11 DEF Stream
  <2> QED
    BY <1>2, <2>1 DEF RealtimeInv, Placed
<1>12. Heard'
  <2> SUFFICES ASSUME NEW x \in Conns, NEW p \in Publishers, NEW k \in DOMAIN Plan[p],
                      Plan[p][k] \in Stream(x)'
               PROVE  /\ UserOf[x] \in To[Plan[p][k]]
                      /\ conn'[x].hub = At[p] => HeardHere(x, p, k)'
                      /\ conn'[x].hub # At[p] => HeardElsewhere(x, p, k)'
    BY DEF Heard
  <2>1. Plan[p][k] \in Stream(x) /\ conn'[x] = conn[x] /\ conn[x].hub \in Instances
    BY <1>11
  <2> QED
    BY <1>0, <1>1, <1>5, <1>6, <2>1 DEF RealtimeInv, Heard, HeardHere, HeardElsewhere
<1>13. HeardInOrder'
  <2> SUFFICES ASSUME NEW x \in Conns, NEW p \in Publishers,
                      NEW j \in DOMAIN Plan[p], NEW k \in DOMAIN Plan[p],
                      InTime(p, j, k)', Plan[p][k] \in Stream(x)', conn'[x].hub # At[p]
               PROVE  /\ Plan[p][j] \notin Mail(conn[x].hub)'
                      /\ delivery'[conn'[x].hub].event # Plan[p][j]
    BY <1>11 DEF HeardInOrder
  <2>1. Plan[p][k] \in Stream(x) /\ conn'[x] = conn[x] /\ conn[x].hub \in Instances
    BY <1>11
  <2> QED
    BY <1>1, <1>5, <2>1 DEF RealtimeInv, HeardInOrder, InTime, redis
<1> QED
  BY <1>3, <1>4, <1>7, <1>8, <1>10, <1>12, <1>13 DEF RealtimeInv

-----------------------------------------------------------------------------
(* deliverLocal.                                                           *)

\* What a delivery is about to enqueue has not been heard on that connection,
\* unless it was sent again, and neither has anything that must come after it.
LEMMA EnqueueFacts ==
  ASSUME RealtimeInv, NEW d \in Deliverers, NEW c \in delivery[d].todo
  PROVE  \E p \in Publishers : \E k \in DOMAIN Plan[p] :
           /\ delivery[d].event = Plan[p][k] /\ UserOf[c] \in To[Plan[p][k]]
           /\ c \in Conns /\ conn[c].hub = InstanceOf(d) /\ conn[c].pc # "new"
           /\ \A l \in DOMAIN Plan[p] : InTime(p, k, l) => Plan[p][l] \notin Stream(c)
           /\ \/ /\ d = p /\ k = pub[p].n + 1 /\ pub[p].pc = "deliver"
                 /\ conn[c].hub = At[p] /\ Plan[p][k] \notin Stream(c)
              \/ /\ d \in Instances /\ conn[c].hub = d /\ At[p] # d /\ Sent(p, k)
                 /\ \/ Plan[p][k] \in Repeated
                    \/ Plan[p][k] \notin Stream(c) \cup Mail(d) \cup Late
<1>1. PICK e \in Events : delivery[d].event = e
  BY RealtimeTypes DEF DeliveryCall, RealtimeInv, Served
<1>2. /\ c \in Conns /\ conn[c].hub = InstanceOf(d) /\ conn[c].pc # "new"
      /\ UserOf[c] \in To[e]
  BY <1>1, RealtimeTypes DEF RealtimeInv, Placed, DeliveryCall
<1>3. CASE d \in Publishers
  <2>1. pub[d].pc = "deliver" /\ e = NextEvent(d) /\ pub[d].n < Len(Plan[d])
    BY <1>1, <1>3, EventFacts DEF RealtimeInv, Served
  <2>2. PICK k \in DOMAIN Plan[d] : k = pub[d].n + 1 /\ e = Plan[d][k] /\ pub[d].n \in Nat
    BY <1>3, <2>1, NextEventFacts
  <2>3. conn[c].hub = At[d]
    BY <1>2, <1>3 DEF InstanceOf
  <2>4. \A l \in DOMAIN Plan[d] : l \in Nat
    BY <1>3, PlanFacts
  <2>5. \A l \in DOMAIN Plan[d] : k <= l => ~HeardHere(c, d, l)
    BY <1>3, <2>1, <2>2, <2>4 DEF HeardHere
  <2>6. \A l \in DOMAIN Plan[d] : k <= l => Plan[d][l] \notin Stream(c)
    BY <1>2, <1>3, <2>3, <2>5 DEF RealtimeInv, Heard
  <2>7. Plan[d][k] \notin Stream(c)
        /\ \A l \in DOMAIN Plan[d] : InTime(d, k, l) => Plan[d][l] \notin Stream(c)
    BY <2>4, <2>6 DEF InTime
  <2> QED
    BY <1>1, <1>2, <1>3, <2>1, <2>2, <2>3, <2>7
<1>4. CASE d \in Instances
  <2>1. PICK p \in Publishers : \E k \in DOMAIN Plan[p] : e = Plan[p][k]
    BY EventFacts
  <2>2. PICK k \in DOMAIN Plan[p] : e = Plan[p][k]
    BY <2>1
  <2>3. /\ conn[c].hub = d /\ At[p] # d /\ Sent(p, k)
        /\ Plan[p][k] \in Repeated \/ Plan[p][k] \notin Mail(d) \cup Late
    <3>1. d \notin Publishers
      BY <1>4, PublishersAssumption
    <3> QED
      BY <1>1, <1>2, <1>4, <2>2, <3>1 DEF RealtimeInv, Served, InstanceOf
  <2>4. Plan[p][k] \in Repeated \/ Plan[p][k] \notin Stream(c)
    BY <1>1, <1>2, <2>2, <2>3 DEF RealtimeInv, Heard, HeardElsewhere
  <2>5. \A l \in DOMAIN Plan[p] : InTime(p, k, l) => Plan[p][l] \notin Stream(c)
    BY <1>1, <1>2, <2>2, <2>3 DEF RealtimeInv, HeardInOrder
  <2> QED
    BY <1>1, <1>2, <1>4, <2>2, <2>3, <2>4, <2>5
<1> QED
  BY <1>3, <1>4 DEF Deliverers

LEMMA AppendKeepsOrder ==
  ASSUME RealtimeInv, NEW c \in Conns, NEW p \in Publishers, NEW k \in DOMAIN Plan[p],
         UserOf[c] \in To[Plan[p][k]],
         Plan[p][k] \in Stream(c) => Plan[p][k] \in Repeated /\ conn[c].hub # At[p],
         \A l \in DOMAIN Plan[p] : InTime(p, k, l) => Plan[p][l] \notin Stream(c),
         stream'[c] = Append(stream[c], Plan[p][k]),
         \A x \in Conns \ {c} : stream'[x] = stream[x], UNCHANGED <<strayed, tries, conn>>
  PROVE  OnlyRetriesRepeat' /\ PublishersAreHeardInOrder' /\ Stream(c)' = Stream(c) \cup {Plan[p][k]}
<1>1. stream[c] \in Seq(Events \cup {"ready", "reply"}) /\ Plan[p][k] \in Events
  BY RealtimeTypes, PlanFacts
<1>2. PICK L \in Nat : L = Len(stream[c])
  BY <1>1
<1>3. /\ DOMAIN stream'[c] = 1..(L + 1) /\ DOMAIN stream[c] = 1..L
      /\ \A n \in DOMAIN stream[c] : stream'[c][n] = stream[c][n]
      /\ stream'[c][L + 1] = Plan[p][k]
  BY <1>1, <1>2, AppendFacts
<1>4. \A n \in DOMAIN stream'[c] :
        /\ n \in DOMAIN stream[c] => stream'[c][n] \in Stream(c)
        /\ n \notin DOMAIN stream[c] => n = L + 1 /\ stream'[c][n] = Plan[p][k]
  BY <1>3 DEF Stream
<1>5. Stream(c)' = Stream(c) \cup {Plan[p][k]}
  BY <1>3 DEF Stream
<1>6. OnlyRetriesRepeat'
  <2> SUFFICES ASSUME NEW x \in Conns, NEW m \in DOMAIN stream'[x], NEW n \in DOMAIN stream'[x],
                      stream'[x][m] \in Events
               PROVE  /\ UserOf[x] \in To[stream'[x][m]]
                      /\ stream'[x][n] = stream'[x][m] /\ m # n =>
                           /\ tries[stream'[x][m]] > 0
                           /\ \A q \in Publishers :
                                stream'[x][m] \in Planned(q) => conn[x].hub # At[q]
    BY DEF OnlyRetriesRepeat
  <2>1. CASE x # c
    BY <2>1 DEF RealtimeInv, OnlyRetriesRepeat
  <2>2. CASE x = c
    <3>1. UserOf[c] \in To[stream'[c][m]]
      BY <1>3, <1>4, <2>2 DEF RealtimeInv, OnlyRetriesRepeat
    <3>2. CASE m \in DOMAIN stream[c] /\ n \in DOMAIN stream[c]
      BY <1>3, <2>2, <3>1, <3>2 DEF RealtimeInv, OnlyRetriesRepeat
    \* One of the two is the new frame, the other an older one of its event.
    <3>3. ASSUME stream'[c][n] = stream'[c][m], m # n,
                 m \notin DOMAIN stream[c] \/ n \notin DOMAIN stream[c]
          PROVE  /\ tries[stream'[c][m]] > 0
                 /\ \A q \in Publishers : stream'[c][m] \in Planned(q) => conn[c].hub # At[q]
      <4>1. stream'[c][m] = Plan[p][k] /\ Plan[p][k] \in Stream(c)
        BY <1>4, <2>2, <3>3
      <4>2. Plan[p][k] \in Repeated /\ conn[c].hub # At[p]
        BY <4>1
      <4>3. \A q \in Publishers : Plan[p][k] \in Planned(q) => q = p
        BY PlanAssumption DEF Planned
      <4> QED
        BY <4>1, <4>2, <4>3 DEF Repeated
    <3> QED
      BY <2>2, <3>1, <3>2, <3>3
  <2> QED
    BY <2>1, <2>2
<1>7. PublishersAreHeardInOrder'
  <2> SUFFICES ASSUME NEW q \in Publishers, NEW j \in DOMAIN Plan[q],
                      NEW l \in DOMAIN Plan[q], j < l, Plan[q][j] \notin strayed,
                      NEW x \in Conns, NEW m \in DOMAIN stream'[x],
                      NEW n \in DOMAIN stream'[x],
                      stream'[x][m] = Plan[q][j], stream'[x][n] = Plan[q][l]
               PROVE  m < n
    BY DEF PublishersAreHeardInOrder
  <2>1. CASE x # c \/ (m \in DOMAIN stream[c] /\ n \in DOMAIN stream[c])
    <3>1. /\ m \in DOMAIN stream[x] /\ stream[x][m] = Plan[q][j]
          /\ n \in DOMAIN stream[x] /\ stream[x][n] = Plan[q][l]
      BY <1>3, <2>1
    <3> QED
      BY <3>1 DEF RealtimeInv, PublishersAreHeardInOrder
  <2>2. CASE x = c /\ m \notin DOMAIN stream[c]
    <3>1. Plan[q][j] = Plan[p][k]
      BY <1>4, <2>2
    <3>2. q = p /\ j = k
      BY <3>1, PlanAssumption
    <3>3. Plan[p][l] \notin Stream(c) /\ l # k
      BY <3>2, PlanFacts DEF InTime
    <3>4. Plan[p][l] # Plan[p][k]
      BY <3>2, <3>3, PlanAssumption
    <3> QED
      BY <1>4, <2>2, <3>2, <3>3, <3>4
  <2>3. CASE x = c /\ m \in DOMAIN stream[c] /\ n \notin DOMAIN stream[c]
    BY <1>3, <1>4, <2>3
  <2> QED
    BY <2>1, <2>2, <2>3
<1> QED
  BY <1>5, <1>6, <1>7

LEMMA EnqueueKeeps ==
  ASSUME RealtimeInv, NEW d \in Deliverers, NEW c \in Conns, Enqueue(d, c)
  PROVE  RealtimeInv'
<1>1. /\ c \in delivery[d].todo /\ Put(c, delivery[d].event)
      /\ delivery' = [delivery EXCEPT ![d].todo = @ \ {c}]
      /\ UNCHANGED <<hub, redis, pub, conn, writer, done, written>>
  BY DEF Enqueue
<1>0. PICK p \in Publishers : \E k \in DOMAIN Plan[p] :
           /\ delivery[d].event = Plan[p][k] /\ UserOf[c] \in To[Plan[p][k]]
           /\ c \in Conns /\ conn[c].hub = InstanceOf(d) /\ conn[c].pc # "new"
           /\ \A l \in DOMAIN Plan[p] : InTime(p, k, l) => Plan[p][l] \notin Stream(c)
           /\ \/ /\ d = p /\ k = pub[p].n + 1 /\ pub[p].pc = "deliver"
                 /\ conn[c].hub = At[p] /\ Plan[p][k] \notin Stream(c)
              \/ /\ d \in Instances /\ conn[c].hub = d /\ At[p] # d /\ Sent(p, k)
                 /\ \/ Plan[p][k] \in Repeated
                    \/ Plan[p][k] \notin Stream(c) \cup Mail(d) \cup Late
  BY <1>1, EnqueueFacts
<1>2. PICK k \in DOMAIN Plan[p] :
           /\ delivery[d].event = Plan[p][k] /\ UserOf[c] \in To[Plan[p][k]]
           /\ c \in Conns /\ conn[c].hub = InstanceOf(d) /\ conn[c].pc # "new"
           /\ \A l \in DOMAIN Plan[p] : InTime(p, k, l) => Plan[p][l] \notin Stream(c)
           /\ \/ /\ d = p /\ k = pub[p].n + 1 /\ pub[p].pc = "deliver"
                 /\ conn[c].hub = At[p] /\ Plan[p][k] \notin Stream(c)
              \/ /\ d \in Instances /\ conn[c].hub = d /\ At[p] # d /\ Sent(p, k)
                 /\ \/ Plan[p][k] \in Repeated
                    \/ Plan[p][k] \notin Stream(c) \cup Mail(d) \cup Late
  BY <1>0
<1>3. /\ delivery' \in [Deliverers -> DeliveryCall]
      /\ delivery'[d].event = delivery[d].event
      /\ delivery'[d].todo = delivery[d].todo \ {c}
      /\ \A b \in Deliverers \ {d} : delivery'[b] = delivery[b]
  BY ZenonT(60), <1>1, RealtimeTypes DEF DeliveryCall
<1>4. /\ stream' \in [Conns -> Seq(Events \cup {"ready", "reply"})]
      /\ \A x \in Conns : Len(stream'[x]) - written[x] \in 0..Cap
      /\ \/ stream' = stream
         \/ /\ stream'[c] = Append(stream[c], Plan[p][k])
            /\ \A x \in Conns \ {c} : stream'[x] = stream[x]
  BY <1>1, <1>2, PlanFacts, PutFacts
<1>5. TypeOK' /\ ClosedHubIsEmpty'
  BY <1>1, <1>3, <1>4 DEF RealtimeInv, TypeOK, ClosedHubIsEmpty, DeliveryCall, Queued, hub, redis
<1>6. /\ OnlyRetriesRepeat' /\ PublishersAreHeardInOrder'
      /\ Stream(c)' \subseteq Stream(c) \cup {Plan[p][k]}
      /\ \A x \in Conns \ {c} : Stream(x)' = Stream(x)
  <2>1. CASE stream' = stream
    <3>1. UNCHANGED <<strayed, tries, conn, stream>>
      BY <1>1, <2>1 DEF redis
    <3> QED
      BY <3>1 DEF RealtimeInv, OnlyRetriesRepeat, PublishersAreHeardInOrder, Stream
  <2>2. CASE /\ stream'[c] = Append(stream[c], Plan[p][k])
             /\ \A x \in Conns \ {c} : stream'[x] = stream[x]
    <3>1. \A x \in Conns \ {c} : Stream(x)' = Stream(x)
      BY <2>2 DEF Stream
    <3>2. UNCHANGED <<strayed, tries, conn>>
      BY <1>1 DEF redis
    <3>3. Plan[p][k] \in Stream(c) => Plan[p][k] \in Repeated /\ conn[c].hub # At[p]
      BY <1>2
    <3> QED
      BY <1>2, <2>2, <3>1, <3>2, <3>3, AppendKeepsOrder
  <2> QED
    BY <1>4, <2>1, <2>2
<1>7. \A i \in Instances : Mail(i)' = Mail(i)
  BY <1>1 DEF Mail, redis
<1>8. Late' = Late
  BY <1>1 DEF Late, redis
<1>16. UNCHANGED <<inbox, delayed, strayed, tries, pub>>
  BY <1>1 DEF redis
<1>17. /\ Repeated' = Repeated
       /\ \A q \in Publishers : \A l \in DOMAIN Plan[q] : Sent(q, l)' <=> Sent(q, l)
       /\ \A m : Posted(m) => Posted(m)'
  BY <1>16, SentStays
<1>9. Mailed' /\ MailOrdered'
  BY <1>16, <1>17, <1>7, <1>8 DEF RealtimeInv, Mailed, MailOrdered, InTime
<1>10. \A b \in Deliverers : /\ delivery'[b].event = delivery[b].event
                             /\ delivery'[b].todo \subseteq delivery[b].todo
  BY <1>3
<1>11. Deliverers = Publishers \cup Instances
  BY DEF Deliverers
<1>12. Served' /\ ServedInOrder'
  BY <1>16, <1>17, <1>7, <1>8, <1>10, <1>11
     DEF RealtimeInv, Served, ServedInOrder, NextEvent, InTime
<1>13. Placed'
  <2>1. \A x \in Conns : conn[x].pc = "new" => stream'[x] = <<>>
    BY <1>2, <1>4 DEF RealtimeInv, Placed
  <2> QED
    BY <1>1, <1>10, <2>1 DEF RealtimeInv, Placed, hub
<1>14. Heard'
  <2> SUFFICES ASSUME NEW x \in Conns, NEW q \in Publishers, NEW l \in DOMAIN Plan[q],
                      Plan[q][l] \in Stream(x)'
               PROVE  /\ UserOf[x] \in To[Plan[q][l]]
                      /\ conn[x].hub = At[q] => HeardHere(x, q, l)'
                      /\ conn[x].hub # At[q] => HeardElsewhere(x, q, l)'
    BY <1>1 DEF Heard
  <2>1. CASE Plan[q][l] \in Stream(x)
    <3>1. conn[x].hub \in Instances
      <4>1. stream[x] # <<>>
        BY <2>1 DEF Stream
      <4> QED
        BY <4>1 DEF RealtimeInv, Placed
    <3>2. HeardHere(x, q, l) => HeardHere(x, q, l)'
      BY <1>1, <1>10, <1>11 DEF HeardHere
    <3>3. HeardElsewhere(x, q, l) => HeardElsewhere(x, q, l)'
      BY <1>17, <1>1, <1>7, <1>8, <1>10, <1>11, <3>1 DEF HeardElsewhere
    <3> QED
      BY <2>1, <3>2, <3>3 DEF RealtimeInv, Heard
  <2>2. CASE Plan[q][l] \notin Stream(x)
    <3>1. x = c /\ q = p /\ l = k
      BY <1>6, <2>2, PlanAssumption
    <3>2. CASE conn[c].hub = At[p]
      BY <1>1, <1>2, <1>3, <3>1, <3>2 DEF HeardHere
    <3>3. CASE conn[c].hub # At[p]
      <4>1. /\ d \in Instances /\ conn[c].hub = d /\ Sent(p, k)
            /\ Plan[p][k] \in Repeated \/ Plan[p][k] \notin Mail(d) \cup Late
        BY <1>2, <3>3
      <4>2. HeardElsewhere(c, p, k)'
        BY <1>17, <1>1, <1>3, <1>7, <1>8, <4>1 DEF HeardElsewhere
      <4> QED
        BY <1>2, <3>1, <3>3, <4>2
    <3> QED
      BY <3>2, <3>3
  <2> QED
    BY <2>1, <2>2
<1>15. HeardInOrder'
  <2> SUFFICES ASSUME NEW x \in Conns, NEW q \in Publishers,
                      NEW j \in DOMAIN Plan[q], NEW l \in DOMAIN Plan[q],
                      InTime(q, j, l), Plan[q][l] \in Stream(x)', conn[x].hub # At[q]
               PROVE  /\ Plan[q][j] \notin Mail(conn[x].hub)'
                      /\ delivery'[conn'[x].hub].event # Plan[q][j]
    BY <1>1 DEF HeardInOrder, InTime, redis
  <2>1. CASE Plan[q][l] \in Stream(x)
    <3>1. conn[x].hub \in Instances
      <4>1. stream[x] # <<>>
        BY <2>1 DEF Stream
      <4> QED
        BY <4>1 DEF RealtimeInv, Placed
    <3> QED
      BY <1>1, <1>7, <1>10, <1>11, <2>1, <3>1 DEF RealtimeInv, HeardInOrder
  <2>2. CASE Plan[q][l] \notin Stream(x)
    <3>1. x = c /\ q = p /\ l = k
      BY <1>6, <2>2, PlanAssumption
    <3>2. d \in Instances /\ conn[c].hub = d
      BY <1>2, <2>2, <3>1
    <3>3. Plan[q][j] \notin Mail(d)
      BY <1>2, <3>1, <3>2 DEF RealtimeInv, ServedInOrder
    <3>4. delivery[d].event # Plan[q][j]
      <4>1. j # l
        BY <3>1, PlanFacts DEF InTime
      <4> QED
        BY <1>2, <3>1, <4>1, PlanAssumption
    <3> QED
      BY <1>1, <1>3, <1>7, <3>1, <3>2, <3>3, <3>4
  <2> QED
    BY <2>1, <2>2
<1> QED
  BY <1>5, <1>6, <1>9, <1>12, <1>13, <1>14, <1>15 DEF RealtimeInv

\* A call or a consumer is through with its connections.
LEMMA DeliveredKeeps ==
  ASSUME RealtimeInv, NEW d \in Deliverers,
         \/ d \in Publishers /\ PublishDelivered(d)
         \/ d \in Instances /\ ConsumeDelivered(d)
  PROVE  RealtimeInv'
<1>1. /\ delivery' = [delivery EXCEPT ![d] = NoDelivery] /\ delivery[d].todo = {}
      /\ UNCHANGED <<hub, redis, sockets>>
  BY DEF PublishDelivered, ConsumeDelivered
<1>2. /\ pub' \in [Publishers -> Publisher]
      /\ \A p \in Publishers : /\ pub'[p].n = pub[p].n
                               /\ pub'[p] = pub[p] \/ (pub[p].pc = "deliver" /\ pub'[p].pc = "broker" /\ p = d)
  <2>1. CASE d \in Publishers /\ PublishDelivered(d)
    BY <2>1, RealtimeTypes DEF PublishDelivered, Publisher
  <2>2. CASE d \in Instances /\ ConsumeDelivered(d)
    BY <2>2, RealtimeTypes DEF ConsumeDelivered
  <2> QED
    BY <2>1, <2>2
<1>0. /\ Repeated' = Repeated /\ UNCHANGED <<strayed, tries, delayed>>
      /\ \A q \in Publishers : \A l \in DOMAIN Plan[q] : Sent(q, l) => Sent(q, l)'
      /\ \A m : Posted(m) => Posted(m)'
  <2>1. Repeated' = Repeated /\ UNCHANGED <<strayed, tries, delayed>>
    BY <1>1 DEF redis, Repeated
  <2>2. \A q \in Publishers : \A l \in DOMAIN Plan[q] : Sent(q, l) => Sent(q, l)'
    BY <1>2, <2>1 DEF Sent
  <2> QED
    BY <2>1, <2>2 DEF Posted
<1>3. /\ delivery' \in [Deliverers -> DeliveryCall]
      /\ delivery'[d].event = None /\ delivery'[d].todo = {}
      /\ \A b \in Deliverers \ {d} : delivery'[b] = delivery[b]
  <2>1. NoDelivery \in DeliveryCall /\ NoDelivery.event = None /\ NoDelivery.todo = {}
    BY DEF NoDelivery, DeliveryCall
  <2> QED
    BY <1>1, <2>1, RealtimeTypes
<1>4. TypeOK' /\ ClosedHubIsEmpty'
  <2>1. UNCHANGED <<closed, closing, registered, inbox, delayed, strayed, tries, conn, writer, done,
                    stream, written>>
    BY <1>1 DEF hub, redis, sockets
  <2> QED
    BY <1>2, <1>3, <2>1 DEF RealtimeInv, TypeOK, ClosedHubIsEmpty, Queued, DeliveryCall, Publisher
<1>5. \A i \in Instances : Mail(i)' = Mail(i)
  BY <1>1 DEF Mail, redis
<1>6. Late' = Late
  BY <1>1 DEF Late, redis
<1>7. \A c \in Conns : Stream(c)' = Stream(c)
  BY <1>1 DEF Stream, sockets
<1>8. OnlyRetriesRepeat' /\ PublishersAreHeardInOrder'
  BY <1>0, <1>1 DEF RealtimeInv, OnlyRetriesRepeat, PublishersAreHeardInOrder, sockets
<1>9. Mailed' /\ MailOrdered'
  <2>1. UNCHANGED inbox
    BY <1>1 DEF redis
  <2> QED
    BY <1>0, <1>5, <1>6, <2>1 DEF RealtimeInv, Mailed, MailOrdered, InTime
<1>10. \A b \in Deliverers : b = d \/ delivery'[b] = delivery[b]
  BY <1>3
<1>11. Deliverers = Publishers \cup Instances
  BY DEF Deliverers
<1>12. \A e \in Events : delivery'[d].event # e
  BY <1>3, EventFacts
<1>13. Served'
  <2>1. \A b \in Deliverers : delivery'[b].event = None => delivery'[b].todo = {}
    BY <1>3, <1>10 DEF RealtimeInv, Served
  <2>2. ASSUME NEW p \in Publishers
        PROVE  /\ pub'[p].pc # "idle" => pub'[p].n < Len(Plan[p])
               /\ delivery'[p].event # None =>
                    pub'[p].pc = "deliver" /\ delivery'[p].event = NextEvent(p)'
    BY <1>2, <1>3, <1>10, <1>11 DEF RealtimeInv, Served, NextEvent
  <2>3. ASSUME NEW i \in Instances, NEW p \in Publishers, NEW k \in DOMAIN Plan[p],
               delivery'[i].event = Plan[p][k]
        PROVE  /\ At[p] # i /\ Sent(p, k)'
               /\ Plan[p][k] \in Repeated' \/ Plan[p][k] \notin Mail(i)' \cup Late'
    BY <1>0, <1>5, <1>6, <1>10, <1>11, <1>12, <2>3, PlanFacts DEF RealtimeInv, Served
  <2> QED
    BY <2>1, <2>2, <2>3 DEF Served
<1>14. ServedInOrder'
  BY <1>1, <1>5, <1>10, <1>11, <1>12, PlanFacts DEF RealtimeInv, ServedInOrder, InTime, redis
<1>15. Placed'
  BY <1>1, <1>3, <1>10 DEF RealtimeInv, Placed, hub, sockets
<1>16. ASSUME NEW x \in Conns, NEW e, e \in Stream(x)
       PROVE  conn[x].hub \in Instances
  <2>1. stream[x] # <<>>
    BY <1>16 DEF Stream
  <2> QED
    BY <2>1 DEF RealtimeInv, Placed
<1>17. Heard'
  <2> SUFFICES ASSUME NEW x \in Conns, NEW q \in Publishers, NEW l \in DOMAIN Plan[q],
                      Plan[q][l] \in Stream(x)
               PROVE  /\ UserOf[x] \in To[Plan[q][l]]
                      /\ conn[x].hub = At[q] => HeardHere(x, q, l)'
                      /\ conn[x].hub # At[q] => HeardElsewhere(x, q, l)'
    BY <1>1, <1>7 DEF Heard, sockets
  <2>1. conn[x].hub \in Instances
    BY <1>16
  <2>2. HeardHere(x, q, l) => HeardHere(x, q, l)'
    BY <1>2, <1>3, <1>10, <1>11 DEF HeardHere
  <2>3. HeardElsewhere(x, q, l) => HeardElsewhere(x, q, l)'
    BY <1>0, <1>1, <1>3, <1>5, <1>6, <1>10, <1>11, <2>1 DEF HeardElsewhere, sockets
  <2> QED
    BY <2>2, <2>3 DEF RealtimeInv, Heard
<1>18. HeardInOrder'
  <2> SUFFICES ASSUME NEW x \in Conns, NEW q \in Publishers,
                      NEW j \in DOMAIN Plan[q], NEW l \in DOMAIN Plan[q],
                      InTime(q, j, l), Plan[q][l] \in Stream(x), conn[x].hub # At[q]
               PROVE  /\ Plan[q][j] \notin Mail(conn[x].hub)'
                      /\ delivery'[conn'[x].hub].event # Plan[q][j]
    BY <1>1, <1>7 DEF HeardInOrder, InTime, redis, sockets
  <2>1. conn[x].hub \in Instances /\ conn' = conn
    BY <1>1, <1>16 DEF sockets
  <2> QED
    BY <1>5, <1>10, <1>11, <1>12, <2>1, PlanFacts DEF RealtimeInv, HeardInOrder
<1> QED
  BY <1>4, <1>8, <1>9, <1>13, <1>14, <1>15, <1>17, <1>18 DEF RealtimeInv

\* A call begins: to the connections of the publisher's hub, or past a closed
\* one.
LEMMA PublishKeeps ==
  ASSUME RealtimeInv, NEW p \in Publishers, Publish(p)
  PROVE  RealtimeInv'
<1>1. /\ pub[p].pc = "idle" /\ pub[p].n < Len(Plan[p])
      /\ UNCHANGED <<closed, closing, registered, inbox, delayed, strayed, tries, conn, writer, done,
                     stream, written>>
  BY DEF Publish, hub, redis, sockets
<1>2. /\ p \in Deliverers /\ At[p] \in Instances /\ p \notin Instances
      /\ NextEvent(p) \in Events /\ NextEvent(p) # None
  BY <1>1, PlanFacts, NextEventFacts
<1>3. PICK s \in {"deliver", "broker"} : pub' = [pub EXCEPT ![p].pc = s]
  BY DEF Publish
<1>4. /\ pub' \in [Publishers -> Publisher] /\ pub'[p].pc = s
      /\ \A q \in Publishers : pub'[q].n = pub[q].n
      /\ \A q \in Publishers \ {p} : pub'[q] = pub[q]
  BY ZenonT(60), <1>3, RealtimeTypes DEF Publisher
<1>0. /\ Repeated' = Repeated /\ UNCHANGED <<strayed, tries, delayed>>
      /\ \A q \in Publishers : \A l \in DOMAIN Plan[q] : Sent(q, l) => Sent(q, l)'
      /\ \A m : Posted(m) => Posted(m)'
  <2>1. Repeated' = Repeated
    BY <1>1 DEF Repeated
  <2>2. \A q \in Publishers : \A l \in DOMAIN Plan[q] : Sent(q, l) => Sent(q, l)'
    BY <1>1, <1>4, <2>1 DEF Sent
  <2> QED
    BY <1>1, <2>1, <2>2 DEF Posted
<1>5. delivery[p].event = None /\ delivery[p].todo = {}
  BY <1>1, <1>2 DEF RealtimeInv, Served
<1>6. /\ delivery' \in [Deliverers -> DeliveryCall]
      /\ \A b \in Deliverers \ {p} : delivery'[b] = delivery[b]
      /\ \/ delivery'[p].event = None /\ delivery'[p].todo = {}
         \/ /\ delivery'[p].event = NextEvent(p) /\ pub'[p].pc = "deliver"
            /\ delivery'[p].todo = {c \in registered[At[p]] : UserOf[c] \in To[NextEvent(p)]}
  <2>1. CASE closed[At[p]]
    BY <1>5, <2>1, RealtimeTypes DEF Publish
  <2>2. CASE ~closed[At[p]]
    <3>1. PICK T : T = {c \in registered[At[p]] : UserOf[c] \in To[NextEvent(p)]}
      OBVIOUS
    <3>2. T \in SUBSET Conns
      BY <1>2, <3>1, RealtimeTypes
    <3>3. PICK r : r = [event |-> NextEvent(p), todo |-> T]
      OBVIOUS
    <3>4. r \in DeliveryCall /\ r.event = NextEvent(p) /\ r.todo = T
      BY <1>2, <3>2, <3>3 DEF DeliveryCall
    <3>5. delivery' = [delivery EXCEPT ![p] = r] /\ pub' = [pub EXCEPT ![p].pc = "deliver"]
      BY <2>2, <3>1, <3>3 DEF Publish, BeginDelivery
    <3>6. pub'[p].pc = "deliver"
      BY <3>5, RealtimeTypes DEF Publisher
    <3>7. /\ delivery' \in [Deliverers -> DeliveryCall] /\ delivery'[p] = r
          /\ \A b \in Deliverers \ {p} : delivery'[b] = delivery[b]
      BY <1>2, <3>4, <3>5, RealtimeTypes
    <3> QED
      BY <3>1, <3>4, <3>6, <3>7
  <2> QED
    BY <2>1, <2>2
<1>7. TypeOK' /\ ClosedHubIsEmpty'
  BY <1>1, <1>4, <1>6 DEF RealtimeInv, TypeOK, ClosedHubIsEmpty, Queued, DeliveryCall, Publisher
<1>8. \A i \in Instances : Mail(i)' = Mail(i)
  BY <1>1 DEF Mail
<1>9. Late' = Late
  BY <1>1 DEF Late
<1>10. \A c \in Conns : Stream(c)' = Stream(c)
  BY <1>1 DEF Stream
<1>11. OnlyRetriesRepeat' /\ PublishersAreHeardInOrder'
  BY <1>1 DEF RealtimeInv, OnlyRetriesRepeat, PublishersAreHeardInOrder
<1>12. Mailed' /\ MailOrdered'
  BY <1>0, <1>1, <1>8, <1>9 DEF RealtimeInv, Mailed, MailOrdered, InTime
<1>13. Deliverers = Publishers \cup Instances /\ \A i \in Instances : delivery'[i] = delivery[i]
  BY <1>2, <1>6 DEF Deliverers
<1>14. Served'
  <2>1. \A b \in Deliverers : delivery'[b].event = None => delivery'[b].todo = {}
    BY <1>2, <1>6 DEF RealtimeInv, Served
  <2>2. ASSUME NEW q \in Publishers
        PROVE  /\ pub'[q].pc # "idle" => pub'[q].n < Len(Plan[q])
               /\ delivery'[q].event # None =>
                    pub'[q].pc = "deliver" /\ delivery'[q].event = NextEvent(q)'
    BY <1>1, <1>4, <1>6, <1>13 DEF RealtimeInv, Served, NextEvent
  <2>3. ASSUME NEW i \in Instances, NEW q \in Publishers, NEW k \in DOMAIN Plan[q],
               delivery'[i].event = Plan[q][k]
        PROVE  /\ At[q] # i /\ Sent(q, k)'
               /\ Plan[q][k] \in Repeated' \/ Plan[q][k] \notin Mail(i)' \cup Late'
    BY <1>0, <1>8, <1>9, <1>13, <2>3 DEF RealtimeInv, Served
  <2> QED
    BY <2>1, <2>2, <2>3 DEF Served
<1>15. ServedInOrder'
  BY <1>1, <1>8, <1>13 DEF RealtimeInv, ServedInOrder, InTime
<1>16. Placed'
  <2>1. ASSUME NEW d \in Deliverers, NEW c \in delivery'[d].todo
        PROVE  /\ conn[c].hub = InstanceOf(d) /\ conn[c].pc # "new"
               /\ UserOf[c] \in To[delivery'[d].event]
    <3>1. CASE d = p
      <4>1. c \in registered[At[p]] /\ UserOf[c] \in To[NextEvent(p)]
            /\ delivery'[p].event = NextEvent(p)
        BY <1>6, <2>1, <3>1
      <4> QED
        BY <1>2, <3>1, <4>1 DEF RealtimeInv, Placed, InstanceOf
    <3>2. CASE d # p
      BY <1>6, <2>1, <3>2 DEF RealtimeInv, Placed
    <3> QED
      BY <3>1, <3>2
  <2> QED
    BY <1>1, <2>1 DEF RealtimeInv, Placed
<1>17. ASSUME NEW x \in Conns, NEW e, e \in Stream(x)
       PROVE  conn[x].hub \in Instances
  <2>1. stream[x] # <<>>
    BY <1>17 DEF Stream
  <2> QED
    BY <2>1 DEF RealtimeInv, Placed
<1>18. Heard'
  <2> SUFFICES ASSUME NEW x \in Conns, NEW q \in Publishers, NEW l \in DOMAIN Plan[q],
                      Plan[q][l] \in Stream(x)
               PROVE  /\ UserOf[x] \in To[Plan[q][l]]
                      /\ conn[x].hub = At[q] => HeardHere(x, q, l)'
                      /\ conn[x].hub # At[q] => HeardElsewhere(x, q, l)'
    BY <1>1, <1>10 DEF Heard
  <2>1. conn[x].hub \in Instances
    BY <1>17
  <2>2. HeardHere(x, q, l) => HeardHere(x, q, l)'
    BY <1>1, <1>4, <1>6, <1>13 DEF HeardHere
  <2>3. HeardElsewhere(x, q, l) => HeardElsewhere(x, q, l)'
    BY <1>0, <1>1, <1>8, <1>9, <1>13, <2>1 DEF HeardElsewhere
  <2> QED
    BY <2>2, <2>3 DEF RealtimeInv, Heard
<1>19. HeardInOrder'
  <2> SUFFICES ASSUME NEW x \in Conns, NEW q \in Publishers,
                      NEW j \in DOMAIN Plan[q], NEW l \in DOMAIN Plan[q],
                      InTime(q, j, l), Plan[q][l] \in Stream(x), conn[x].hub # At[q]
               PROVE  /\ Plan[q][j] \notin Mail(conn[x].hub)'
                      /\ delivery'[conn'[x].hub].event # Plan[q][j]
    BY <1>1, <1>10 DEF HeardInOrder, InTime
  <2>1. conn[x].hub \in Instances
    BY <1>17
  <2> QED
    BY <1>1, <1>8, <1>13, <2>1 DEF RealtimeInv, HeardInOrder
<1> QED
  BY <1>7, <1>11, <1>12, <1>14, <1>15, <1>16, <1>18, <1>19 DEF RealtimeInv

-----------------------------------------------------------------------------
(* The mail of an instance.                                                *)

\* An instance takes or loses its first envelope, or has no mail any more.
LEMMA MailShrinks ==
  ASSUME RealtimeInv, NEW i \in Instances, UNCHANGED <<delayed, strayed, tries, pub>>,
         \/ inbox' = [inbox EXCEPT ![i] = None]
         \/ HasMail(i) /\ inbox' = [inbox EXCEPT ![i] = Tail(@)]
  PROVE  /\ inbox' \in [Instances -> {None} \cup Seq(Envelopes)]
         /\ Mailed' /\ MailOrdered' /\ Late' = Late
         /\ \A h \in Instances : Mail(h)' \subseteq Mail(h)
<1>0. /\ Repeated' = Repeated
      /\ \A m : Posted(m) => Posted(m)'
  BY SentStays
<1>1. /\ inbox' \in [Instances -> {None} \cup Seq(Envelopes)]
      /\ \A h \in Instances \ {i} : inbox'[h] = inbox[h]
      /\ inbox'[i] # None =>
           \A n \in DOMAIN inbox'[i] : /\ inbox[i] # None /\ n \in Nat /\ n + 1 \in DOMAIN inbox[i]
                                       /\ inbox'[i][n] = inbox[i][n + 1]
  <2>1. CASE inbox' = [inbox EXCEPT ![i] = None]
    BY <2>1, RealtimeTypes
  <2>2. CASE HasMail(i) /\ inbox' = [inbox EXCEPT ![i] = Tail(@)]
    <3>1. inbox[i] \in Seq(Envelopes) /\ inbox[i] # <<>> /\ inbox[i] # None
      BY <2>2, RealtimeTypes DEF HasMail
    <3>2. /\ Tail(inbox[i]) \in Seq(Envelopes)
          /\ \A n \in DOMAIN Tail(inbox[i]) :
               /\ n \in Nat /\ n + 1 \in DOMAIN inbox[i]
               /\ Tail(inbox[i])[n] = inbox[i][n + 1]
      BY <3>1, TailFacts
    <3>3. inbox'[i] = Tail(inbox[i]) /\ \A h \in Instances \ {i} : inbox'[h] = inbox[h]
      BY <2>2, RealtimeTypes
    <3>4. inbox' \in [Instances -> {None} \cup Seq(Envelopes)]
      BY <2>2, <3>2, RealtimeTypes
    <3> QED
      BY <3>1, <3>2, <3>3, <3>4
  <2> QED
    BY <2>1, <2>2
<1>2. Mail(i)' \subseteq Mail(i)
  BY <1>1 DEF Mail
<1>3. \A h \in Instances : Mail(h)' \subseteq Mail(h)
  <2>1. ASSUME NEW h \in Instances, h # i PROVE Mail(h)' = Mail(h)
    <3>1. inbox'[h] = inbox[h]
      BY <1>1, <2>1
    <3> QED
      BY <3>1 DEF Mail
  <2> QED
    BY <1>2, <2>1
<1>4. Late' = Late
  BY DEF Late
<1>5. Mailed'
  <2>1. ASSUME NEW h \in Instances, inbox'[h] # None
        PROVE  /\ \A n \in DOMAIN inbox'[h] :
                    Posted(inbox'[h][n])
               /\ \A m, n \in DOMAIN inbox'[h] :
                    inbox'[h][m].event = inbox'[h][n].event =>
                      m = n \/ inbox'[h][m].event \in Repeated
               /\ Mail(h)' \cap Late \subseteq Repeated
    <3>1. CASE h = i
      <4>1. \A n \in DOMAIN inbox'[i] :
              /\ inbox[i] # None /\ n \in Nat /\ n + 1 \in DOMAIN inbox[i]
              /\ inbox'[i][n] = inbox[i][n + 1]
        BY <1>1, <2>1, <3>1
      <4>2. inbox[i] # None =>
              /\ \A n \in DOMAIN inbox[i] : Posted(inbox[i][n])
              /\ \A m, n \in DOMAIN inbox[i] : inbox[i][m].event = inbox[i][n].event =>
                   m = n \/ inbox[i][m].event \in Repeated
              /\ Mail(i) \cap Late \subseteq Repeated
        BY DEF RealtimeInv, Mailed
      <4>3. \A n \in DOMAIN inbox'[i] :
              Posted(inbox'[i][n])
        BY <4>1, <4>2
      <4>4. ASSUME NEW m \in DOMAIN inbox'[i], NEW n \in DOMAIN inbox'[i],
                   inbox'[i][m].event = inbox'[i][n].event
            PROVE  m = n \/ inbox'[i][m].event \in Repeated
        <5>1. m + 1 = n + 1 \/ inbox'[i][m].event \in Repeated
          BY <4>1, <4>2, <4>4
        <5> QED
          BY <4>1, <5>1
      <4>5. Mail(i) \cap Late \subseteq Repeated
        BY <4>2 DEF Mail
      <4> QED
        BY <1>2, <3>1, <4>3, <4>4, <4>5
    <3>2. CASE h # i
      <4>1. inbox'[h] = inbox[h] /\ inbox[h] # None
        BY <1>1, <2>1, <3>2
      <4>2. /\ \A n \in DOMAIN inbox[h] : Posted(inbox[h][n])
            /\ \A m, n \in DOMAIN inbox[h] : inbox[h][m].event = inbox[h][n].event =>
                 m = n \/ inbox[h][m].event \in Repeated
            /\ Mail(h) \cap Late \subseteq Repeated
        BY <4>1 DEF RealtimeInv, Mailed
      <4>3. Mail(h)' \cap Late \subseteq Repeated
        BY <1>3, <4>2
      <4> QED
        BY <4>1, <4>2, <4>3
    <3> QED
      BY <3>1, <3>2
  <2>2. \A d \in delayed : Posted(d.env) /\ d.try <= tries[d.env.event]
    BY DEF RealtimeInv, Mailed
  <2>3. Late \subseteq strayed
    BY DEF RealtimeInv, Mailed
  <2> QED
    BY <1>0, <1>4, <2>1, <2>2, <2>3 DEF Mailed
<1>6. MailOrdered'
  <2> SUFFICES ASSUME NEW p \in Publishers, NEW j \in DOMAIN Plan[p], NEW k \in DOMAIN Plan[p],
                      InTime(p, j, k), NEW h \in Instances, inbox'[h] # None,
                      NEW m \in DOMAIN inbox'[h], NEW n \in DOMAIN inbox'[h],
                      inbox'[h][m].event = Plan[p][j], inbox'[h][n].event = Plan[p][k]
               PROVE  m < n
    BY DEF MailOrdered, InTime
  <2>1. CASE h = i
    <3>1. /\ inbox[i] # None /\ m \in Nat /\ n \in Nat
          /\ m + 1 \in DOMAIN inbox[i] /\ n + 1 \in DOMAIN inbox[i]
          /\ inbox[i][m + 1].event = Plan[p][j] /\ inbox[i][n + 1].event = Plan[p][k]
      BY <1>1, <2>1
    <3>2. m + 1 < n + 1
      BY <3>1 DEF RealtimeInv, MailOrdered
    <3> QED
      BY <3>1, <3>2
  <2>2. CASE h # i
    BY <1>1, <2>2 DEF RealtimeInv, MailOrdered
  <2> QED
    BY <2>1, <2>2
<1> QED
  BY <1>1, <1>3, <1>4, <1>5, <1>6

\* Mail that is lost, or thrown away with the subscription, changes nothing for
\* what is delivered and heard.
LEMMA LoseMailKeeps ==
  ASSUME RealtimeInv, NEW i \in Instances,
         \/ CloseSubscription(i) \/ LoseMail(i)
         \/ Consume(i) /\ UNCHANGED delivery
  PROVE  RealtimeInv'
<1>1. /\ UNCHANGED <<closed, closing, registered, delayed, strayed, tries, pub, delivery, conn, writer,
                     done, stream, written>>
      /\ \/ inbox' = [inbox EXCEPT ![i] = None]
         \/ HasMail(i) /\ inbox' = [inbox EXCEPT ![i] = Tail(@)]
  BY DEF CloseSubscription, LoseMail, Consume, hub, sockets
<1>2. /\ inbox' \in [Instances -> {None} \cup Seq(Envelopes)]
      /\ Mailed' /\ MailOrdered' /\ Late' = Late
      /\ \A h \in Instances : Mail(h)' \subseteq Mail(h)
  BY <1>1, MailShrinks
<1>0. /\ Repeated' = Repeated
      /\ \A q \in Publishers : \A l \in DOMAIN Plan[q] : Sent(q, l)' <=> Sent(q, l)
  BY <1>1, SentStays
<1>3. TypeOK' /\ ClosedHubIsEmpty'
  BY <1>1, <1>2 DEF RealtimeInv, TypeOK, ClosedHubIsEmpty, Queued
<1>4. OnlyRetriesRepeat' /\ PublishersAreHeardInOrder'
  BY <1>1 DEF RealtimeInv, OnlyRetriesRepeat, PublishersAreHeardInOrder
<1>5. Served' /\ ServedInOrder'
  BY <1>0, <1>1, <1>2 DEF RealtimeInv, Served, ServedInOrder, NextEvent, InTime
<1>6. Placed'
  BY <1>1 DEF RealtimeInv, Placed
<1>7. \A c \in Conns : Stream(c)' = Stream(c)
  BY <1>1 DEF Stream
<1>8. ASSUME NEW x \in Conns, NEW e, e \in Stream(x)
      PROVE  conn[x].hub \in Instances
  <2>1. stream[x] # <<>>
    BY <1>8 DEF Stream
  <2> QED
    BY <2>1 DEF RealtimeInv, Placed
<1>9. Heard'
  <2> SUFFICES ASSUME NEW x \in Conns, NEW q \in Publishers, NEW l \in DOMAIN Plan[q],
                      Plan[q][l] \in Stream(x)
               PROVE  /\ UserOf[x] \in To[Plan[q][l]]
                      /\ conn[x].hub = At[q] => HeardHere(x, q, l)'
                      /\ conn[x].hub # At[q] => HeardElsewhere(x, q, l)'
    BY <1>1, <1>7 DEF Heard
  <2>1. conn[x].hub \in Instances
    BY <1>8
  <2>2. HeardHere(x, q, l) => HeardHere(x, q, l)'
    BY <1>1 DEF HeardHere
  <2>3. HeardElsewhere(x, q, l) => HeardElsewhere(x, q, l)'
    BY <1>0, <1>1, <1>2, <2>1 DEF HeardElsewhere
  <2> QED
    BY <2>2, <2>3 DEF RealtimeInv, Heard
<1>10. HeardInOrder'
  <2> SUFFICES ASSUME NEW x \in Conns, NEW q \in Publishers,
                      NEW j \in DOMAIN Plan[q], NEW l \in DOMAIN Plan[q],
                      InTime(q, j, l), Plan[q][l] \in Stream(x), conn[x].hub # At[q]
               PROVE  /\ Plan[q][j] \notin Mail(conn[x].hub)'
                      /\ delivery'[conn'[x].hub].event # Plan[q][j]
    BY <1>1, <1>7 DEF HeardInOrder, InTime
  <2>1. conn[x].hub \in Instances
    BY <1>8
  <2> QED
    BY <1>1, <1>2, <2>1 DEF RealtimeInv, HeardInOrder
<1> QED
  BY <1>2, <1>3, <1>4, <1>5, <1>6, <1>9, <1>10 DEF RealtimeInv

\* The consumer of an instance begins to deliver its first envelope.
LEMMA ConsumeKeeps ==
  ASSUME RealtimeInv, NEW i \in Instances, Consume(i), ~UNCHANGED delivery
  PROVE  RealtimeInv'
<1>1. /\ UNCHANGED <<closed, closing, registered, delayed, strayed, tries, pub, conn, writer, done,
                     stream, written>>
      /\ HasMail(i) /\ inbox' = [inbox EXCEPT ![i] = Tail(@)] /\ ~Delivering(i)
      /\ Head(inbox[i]).origin # i
      /\ BeginDelivery(i, i, Head(inbox[i]).event)
  BY DEF Consume, hub, sockets
<1>2. /\ inbox' \in [Instances -> {None} \cup Seq(Envelopes)]
      /\ Mailed' /\ MailOrdered' /\ Late' = Late
      /\ \A h \in Instances : Mail(h)' \subseteq Mail(h)
  BY <1>1, MailShrinks
<1>0. /\ Repeated' = Repeated
      /\ \A q \in Publishers : \A l \in DOMAIN Plan[q] : Sent(q, l)' <=> Sent(q, l)
  BY <1>1, SentStays
<1>3. /\ inbox[i] \in Seq(Envelopes) /\ inbox[i] # <<>> /\ inbox[i] # None
      /\ inbox'[i] = Tail(inbox[i])
  BY <1>1, RealtimeTypes DEF HasMail
<1>4. PICK m \in Envelopes : m = Head(inbox[i]) /\ m = inbox[i][1] /\ 1 \in DOMAIN inbox[i]
  <2>1. Head(inbox[i]) \in Envelopes /\ Head(inbox[i]) = inbox[i][1]
        /\ DOMAIN inbox[i] = 1..Len(inbox[i]) /\ Len(inbox[i]) \in Nat \ {0}
    BY <1>3, TailFacts
  <2> QED
    BY <2>1
<1>5. m.event \in Events /\ m.event # None
  BY EventFacts DEF Envelopes
<1>6. PICK p \in Publishers : \E k \in DOMAIN Plan[p] : m.event = Plan[p][k]
  BY <1>5, EventFacts
<1>7. PICK k \in DOMAIN Plan[p] : m.event = Plan[p][k]
  BY <1>6
<1>8. At[p] # i /\ Sent(p, k)
  BY <1>1, <1>3, <1>4, <1>7 DEF RealtimeInv, Mailed, Posted
<1>9. m.event \in Mail(i) /\ (m.event \in Repeated \/ m.event \notin Late)
  <2>1. m.event \in Mail(i)
    BY <1>3, <1>4 DEF Mail
  <2> QED
    BY <1>3, <2>1 DEF RealtimeInv, Mailed
<1>10. ASSUME NEW e, e \in Mail(i)'
       PROVE  \E n \in DOMAIN inbox[i] : n \in Nat /\ n > 1 /\ inbox[i][n].event = e
  <2>1. \A n \in DOMAIN Tail(inbox[i]) :
          n \in Nat /\ n > 0 /\ Tail(inbox[i])[n] = inbox[i][n + 1] /\ n + 1 \in DOMAIN inbox[i]
    BY <1>3, TailFacts
  <2>2. PICK n \in DOMAIN inbox'[i] : e = inbox'[i][n].event
    BY <1>10 DEF Mail
  <2>3. n \in Nat /\ n > 0 /\ inbox[i][n + 1].event = e /\ n + 1 \in DOMAIN inbox[i]
    BY <1>3, <2>1, <2>2
  <2> QED
    BY <2>3
<1>11. m.event \in Repeated \/ m.event \notin Mail(i)'
  BY <1>3, <1>4, <1>10 DEF RealtimeInv, Mailed
<1>12. /\ delivery' \in [Deliverers -> DeliveryCall]
       /\ delivery'[i].event = m.event
       /\ delivery'[i].todo = {c \in registered[i] : UserOf[c] \in To[m.event]}
       /\ \A b \in Deliverers \ {i} : delivery'[b] = delivery[b]
  <2>1. PICK T : T = {c \in registered[i] : UserOf[c] \in To[m.event]}
    OBVIOUS
  <2>2. T \in SUBSET Conns
    BY <2>1, RealtimeTypes
  <2>3. PICK r : r = [event |-> m.event, todo |-> T]
    OBVIOUS
  <2>4. r \in DeliveryCall /\ r.event = m.event /\ r.todo = T
    BY <1>5, <2>2, <2>3 DEF DeliveryCall
  <2>5. delivery' = [delivery EXCEPT ![i] = r]
    BY <1>1, <1>4, <2>1, <2>3 DEF BeginDelivery
  <2>6. i \in Deliverers
    BY DEF Deliverers
  <2>7. /\ delivery' \in [Deliverers -> DeliveryCall] /\ delivery'[i] = r
        /\ \A b \in Deliverers \ {i} : delivery'[b] = delivery[b]
    BY <2>4, <2>5, <2>6, RealtimeTypes
  <2> QED
    BY <2>1, <2>4, <2>7
<1>13. /\ \A q \in Publishers : delivery'[q] = delivery[q]
       /\ \A h \in Instances : h = i \/ delivery'[h] = delivery[h]
       /\ i \in Deliverers /\ InstanceOf(i) = i
  BY <1>12, PublishersAssumption DEF Deliverers, InstanceOf
<1>14. TypeOK' /\ ClosedHubIsEmpty'
  BY <1>1, <1>2, <1>12 DEF RealtimeInv, TypeOK, ClosedHubIsEmpty, Queued, DeliveryCall
<1>15. OnlyRetriesRepeat' /\ PublishersAreHeardInOrder'
  BY <1>1 DEF RealtimeInv, OnlyRetriesRepeat, PublishersAreHeardInOrder
<1>16. Served'
  <2>1. \A b \in Deliverers : delivery'[b].event = None => delivery'[b].todo = {}
    BY <1>5, <1>12 DEF RealtimeInv, Served
  <2>2. ASSUME NEW q \in Publishers
        PROVE  /\ pub'[q].pc # "idle" => pub'[q].n < Len(Plan[q])
               /\ delivery'[q].event # None =>
                    pub'[q].pc = "deliver" /\ delivery'[q].event = NextEvent(q)'
    BY <1>1, <1>13 DEF RealtimeInv, Served, NextEvent
  <2>3. ASSUME NEW h \in Instances, NEW q \in Publishers, NEW l \in DOMAIN Plan[q],
               delivery'[h].event = Plan[q][l]
        PROVE  /\ At[q] # h /\ Sent(q, l)'
               /\ Plan[q][l] \in Repeated' \/ Plan[q][l] \notin Mail(h)' \cup Late'
    <3>1. CASE h = i
      <4>1. q = p /\ l = k
        BY <1>7, <1>12, <2>3, <3>1, PlanAssumption
      <4> QED
        BY <1>0, <1>2, <1>7, <1>8, <1>9, <1>11, <3>1, <4>1
    <3>2. CASE h # i
      BY <1>0, <1>2, <1>13, <2>3, <3>2 DEF RealtimeInv, Served
    <3> QED
      BY <3>1, <3>2
  <2> QED
    BY <2>1, <2>2, <2>3 DEF Served
<1>17. ServedInOrder'
  <2> SUFFICES ASSUME NEW q \in Publishers, NEW j \in DOMAIN Plan[q], NEW l \in DOMAIN Plan[q],
                      InTime(q, j, l), NEW h \in Instances, delivery'[h].event = Plan[q][l],
                      Plan[q][j] \in Mail(h)'
               PROVE  FALSE
    BY <1>1 DEF ServedInOrder, InTime
  <2>1. CASE h = i
    <3>1. q = p /\ l = k
      BY <1>7, <1>12, <2>1, PlanAssumption
    <3>2. PICK n \in DOMAIN inbox[i] : n \in Nat /\ n > 1 /\ inbox[i][n].event = Plan[p][j]
      BY <1>10, <2>1, <3>1
    <3>3. n < 1
      BY <1>3, <1>4, <1>7, <3>1, <3>2 DEF RealtimeInv, MailOrdered
    <3> QED
      BY <3>2, <3>3
  <2>2. CASE h # i
    BY <1>2, <1>13, <2>2 DEF RealtimeInv, ServedInOrder
  <2> QED
    BY <2>1, <2>2
<1>18. Placed'
  <2>1. ASSUME NEW d \in Deliverers, NEW c \in delivery'[d].todo
        PROVE  /\ conn[c].hub = InstanceOf(d) /\ conn[c].pc # "new"
               /\ UserOf[c] \in To[delivery'[d].event]
    <3>1. CASE d = i
      <4>1. c \in registered[i] /\ UserOf[c] \in To[m.event] /\ delivery'[i].event = m.event
        BY <1>12, <2>1, <3>1
      <4> QED
        BY <1>13, <3>1, <4>1 DEF RealtimeInv, Placed
    <3>2. CASE d # i
      BY <1>12, <2>1, <3>2 DEF RealtimeInv, Placed
    <3> QED
      BY <3>1, <3>2
  <2> QED
    BY <1>1, <2>1 DEF RealtimeInv, Placed
<1>19. \A c \in Conns : Stream(c)' = Stream(c)
  BY <1>1 DEF Stream
<1>20. ASSUME NEW x \in Conns, NEW e, e \in Stream(x)
       PROVE  conn[x].hub \in Instances
  <2>1. stream[x] # <<>>
    BY <1>20 DEF Stream
  <2> QED
    BY <2>1 DEF RealtimeInv, Placed
\* What was in the mail of a hub has not been heard there, but if sent again.
<1>21. ASSUME NEW x \in Conns, conn[x].hub = i
       PROVE  Plan[p][k] \in Repeated \/ Plan[p][k] \notin Stream(x)
  BY <1>7, <1>8, <1>9, <1>21 DEF RealtimeInv, Heard, HeardElsewhere
<1>22. Heard'
  <2> SUFFICES ASSUME NEW x \in Conns, NEW q \in Publishers, NEW l \in DOMAIN Plan[q],
                      Plan[q][l] \in Stream(x)
               PROVE  /\ UserOf[x] \in To[Plan[q][l]]
                      /\ conn[x].hub = At[q] => HeardHere(x, q, l)'
                      /\ conn[x].hub # At[q] => HeardElsewhere(x, q, l)'
    BY <1>1, <1>19 DEF Heard
  <2>1. conn[x].hub \in Instances
    BY <1>20
  <2>2. HeardHere(x, q, l) => HeardHere(x, q, l)'
    BY <1>1, <1>13 DEF HeardHere
  <2>3. ASSUME HeardElsewhere(x, q, l) PROVE HeardElsewhere(x, q, l)'
    <3>1. CASE conn[x].hub = i
      <4>1. Plan[q][l] \in Repeated \/ delivery'[i].event # Plan[q][l]
        BY <1>7, <1>12, <1>21, <3>1
      <4> QED
        BY <1>0, <1>1, <1>2, <2>3, <3>1, <4>1 DEF HeardElsewhere
    <3>2. CASE conn[x].hub # i
      BY <1>0, <1>1, <1>2, <1>13, <2>1, <2>3, <3>2 DEF HeardElsewhere
    <3> QED
      BY <3>1, <3>2
  <2> QED
    BY <2>2, <2>3 DEF RealtimeInv, Heard
<1>23. HeardInOrder'
  <2> SUFFICES ASSUME NEW x \in Conns, NEW q \in Publishers,
                      NEW j \in DOMAIN Plan[q], NEW l \in DOMAIN Plan[q],
                      InTime(q, j, l), Plan[q][l] \in Stream(x), conn[x].hub # At[q]
               PROVE  /\ Plan[q][j] \notin Mail(conn[x].hub)'
                      /\ delivery'[conn'[x].hub].event # Plan[q][j]
    BY <1>1, <1>19 DEF HeardInOrder, InTime
  <2>1. conn[x].hub \in Instances
    BY <1>20
  <2>2. /\ Plan[q][j] \notin Mail(conn[x].hub)
        /\ delivery[conn[x].hub].event # Plan[q][j]
    BY DEF RealtimeInv, HeardInOrder
  <2> QED
    BY <1>1, <1>2, <1>9, <1>12, <1>13, <2>1, <2>2
<1> QED
  BY <1>2, <1>14, <1>15, <1>16, <1>17, <1>18, <1>22, <1>23 DEF RealtimeInv

-----------------------------------------------------------------------------
(* Redis.                                                                  *)

LEMMA ReturnedFacts ==
  ASSUME RealtimeInv, NEW p \in Publishers, pub' = Returned(p), pub[p].pc = "broker"
  PROVE  /\ pub' \in [Publishers -> Publisher]
         /\ pub'[p].pc = "idle" /\ pub'[p].n = pub[p].n + 1 /\ pub[p].n \in Nat
         /\ \A q \in Publishers \ {p} : pub'[q] = pub[q]
         /\ pub[p].n < Len(Plan[p]) /\ delivery[p].event = None
<1>1. PICK o \in Publisher : o = pub[p]
  BY RealtimeTypes
<1>2. PICK r : r = [o EXCEPT !.pc = "idle", !.n = o.n + 1]
  OBVIOUS
<1>3. r \in Publisher /\ r.pc = "idle" /\ r.n = pub[p].n + 1 /\ pub[p].n \in Nat
  <2>1. o.n \in Nat /\ o.n + 1 \in Nat /\ o.n = pub[p].n
    BY <1>1 DEF Publisher
  <2>2. r.pc = "idle" /\ r.n = o.n + 1
    BY <1>1, <1>2 DEF Publisher
  <2>3. r \in Publisher
    BY <1>1, <1>2, <2>1 DEF Publisher
  <2> QED
    BY <2>1, <2>2, <2>3
<1>4. pub' = [pub EXCEPT ![p] = r]
  BY <1>1, <1>2 DEF Returned
<1>5. pub[p].n < Len(Plan[p]) /\ delivery[p].event = None
  BY DEF RealtimeInv, Served
<1> QED
  BY <1>3, <1>4, <1>5, RealtimeTypes

\* A step that moves the kth event of p to Redis, towards it or out of it:
\* nothing later of p has been sent in time, and unless the event was sent
\* again, it has been nowhere but on the connections of its own hub.
Moves(p, k) ==
  /\ UNCHANGED <<closed, closing, registered, delivery, sockets>>
  /\ strayed \subseteq strayed' /\ \A e \in Events : tries[e] <= tries'[e]
  /\ \A q \in Publishers :
       /\ pub'[q].pc # "idle" => pub'[q] = pub[q]
       /\ delivery[q].event # None => pub'[q] = pub[q]
       /\ \A l \in DOMAIN Plan[q] :
            /\ Sent(q, l) => Sent(q, l)'
            /\ \A c \in Conns : HeardHere(c, q, l) => HeardHere(c, q, l)'
  /\ \A l \in DOMAIN Plan[p] : InTime(p, k, l) => ~Sent(p, l)
  /\ \/ Plan[p][k] \in Repeated'
     \/ /\ \A i \in Instances : Plan[p][k] \notin Mail(i) /\ delivery[i].event # Plan[p][k]
        /\ \A c \in Conns : Plan[p][k] \in Stream(c) => conn[c].hub = At[p]

\* What such a step may leave among the late publications.
LateFits(p, k) ==
  /\ Late' \subseteq Late \cup {Plan[p][k]} /\ Late' \subseteq strayed'
  /\ \A d \in delayed' : Posted(d.env)' /\ d.try <= tries'[d.env.event]

LEMMA StillRepeated ==
  ASSUME RealtimeInv, NEW p \in Publishers, NEW k \in DOMAIN Plan[p], Moves(p, k),
         tries' \in [Events -> Nat]
  PROVE  /\ Repeated \subseteq Repeated' /\ \A m : Posted(m) => Posted(m)'
         /\ \A d \in delayed : Posted(d.env)' /\ d.try <= tries'[d.env.event]
         /\ Late \subseteq strayed'
<1>1. \A e \in Events : tries[e] \in Nat /\ tries'[e] \in Nat /\ tries[e] <= tries'[e]
  BY RealtimeTypes DEF Moves
<1>2. Repeated \subseteq Repeated'
  BY <1>1 DEF Repeated
<1>3. \A m : Posted(m) => Posted(m)'
  BY DEF Posted, Moves
<1>4. ASSUME NEW d \in delayed PROVE Posted(d.env)' /\ d.try <= tries'[d.env.event]
  <2>1. d.env.event \in Events /\ d.try \in Nat
    BY RealtimeTypes DEF Envelopes
  <2>2. Posted(d.env) /\ d.try <= tries[d.env.event]
    BY DEF RealtimeInv, Mailed
  <2> QED
    BY <1>1, <1>3, <2>1, <2>2
<1>5. Late \subseteq strayed'
  BY DEF RealtimeInv, Mailed, Moves
<1> QED
  BY <1>2, <1>3, <1>4, <1>5

\* Deliveries and what has been heard are as they were.
LEMMA EventMoves ==
  ASSUME RealtimeInv, NEW p \in Publishers, NEW k \in DOMAIN Plan[p], Moves(p, k),
         TypeOK', Mailed', MailOrdered', Late' \subseteq Late \cup {Plan[p][k]},
         \A i \in Instances : Mail(i)' \subseteq Mail(i) \cup {Plan[p][k]}
  PROVE  RealtimeInv'
<1>1. UNCHANGED <<closed, closing, registered, delivery, conn, writer, done, stream, written>>
  BY DEF Moves, sockets
<1>2. tries' \in [Events -> Nat] /\ pub' \in [Publishers -> Publisher]
  BY DEF TypeOK, Publisher
<1>3. Repeated \subseteq Repeated'
  BY <1>2, StillRepeated
<1>4. \A q \in Publishers : \A l \in DOMAIN Plan[q] :
        /\ Sent(q, l) => Sent(q, l)'
        /\ \A c \in Conns : HeardHere(c, q, l) => HeardHere(c, q, l)'
  BY DEF Moves
<1>5. \A q \in Publishers : \A j, l \in DOMAIN Plan[q] : InTime(q, j, l)' => InTime(q, j, l)
  BY DEF Moves, InTime
\* The event that moves is sent again, or it is not there yet.
<1>6. PICK e \in Events : e = Plan[p][k]
  BY PlanFacts
<1>7. \A q \in Publishers : \A l \in DOMAIN Plan[q] : e = Plan[q][l] => q = p /\ l = k
  BY <1>6, OneEvent
<1>8. \/ e \in Repeated'
      \/ /\ \A i \in Instances : delivery[i].event # e
         /\ \A c \in Conns : e \in Stream(c) => conn[c].hub = At[p]
  BY <1>6 DEF Moves
<1>9. ClosedHubIsEmpty'
  BY <1>1 DEF RealtimeInv, ClosedHubIsEmpty
<1>10. \A c \in Conns : Stream(c)' = Stream(c)
  BY <1>1 DEF Stream
<1>11. OnlyRetriesRepeat'
  <2>1. \A x \in Events : tries[x] \in Nat /\ tries'[x] \in Nat /\ tries[x] <= tries'[x]
    BY <1>2, RealtimeTypes DEF Moves
  <2>2. \A x \in Events : tries[x] > 0 => tries'[x] > 0
    BY <2>1
  <2> QED
    BY <1>1, <2>2 DEF RealtimeInv, OnlyRetriesRepeat
<1>12. PublishersAreHeardInOrder'
  <2>1. strayed \subseteq strayed'
    BY DEF Moves
  <2> QED
    BY <1>1, <2>1 DEF RealtimeInv, PublishersAreHeardInOrder
<1>13. Deliverers = Publishers \cup Instances
  BY DEF Deliverers
<1>14. Served'
  <2>1. \A b \in Deliverers : delivery'[b].event = None => delivery'[b].todo = {}
    BY <1>1 DEF RealtimeInv, Served
  <2>2. ASSUME NEW q \in Publishers
        PROVE  /\ pub'[q].pc # "idle" => pub'[q].n < Len(Plan[q])
               /\ delivery'[q].event # None =>
                    pub'[q].pc = "deliver" /\ delivery'[q].event = NextEvent(q)'
    BY <1>1 DEF RealtimeInv, Served, NextEvent, Moves
  <2>3. ASSUME NEW i \in Instances, NEW q \in Publishers, NEW l \in DOMAIN Plan[q],
               delivery[i].event = Plan[q][l]
        PROVE  /\ At[q] # i /\ Sent(q, l)'
               /\ Plan[q][l] \in Repeated' \/ Plan[q][l] \notin Mail(i)' \cup Late'
    <3>1. /\ At[q] # i /\ Sent(q, l)
          /\ Plan[q][l] \in Repeated \/ Plan[q][l] \notin Mail(i) \cup Late
      BY <2>3 DEF RealtimeInv, Served
    <3>2. e \in Repeated' \/ Plan[q][l] # e
      BY <1>8, <2>3
    <3> QED
      BY <1>3, <1>4, <1>6, <3>1, <3>2
  <2> QED
    BY <1>1, <2>1, <2>2, <2>3 DEF Served
<1>15. ServedInOrder'
  <2> SUFFICES ASSUME NEW q \in Publishers, NEW j \in DOMAIN Plan[q], NEW l \in DOMAIN Plan[q],
                      InTime(q, j, l), NEW i \in Instances, delivery[i].event = Plan[q][l],
                      Plan[q][j] \in Mail(i)'
               PROVE  FALSE
    BY <1>1, <1>5 DEF ServedInOrder
  <2>1. Plan[q][j] \notin Mail(i)
    BY DEF RealtimeInv, ServedInOrder
  <2>2. e = Plan[q][j]
    BY <1>6, <2>1
  <2>3. q = p /\ j = k
    BY <1>7, <2>2
  <2>4. ~Sent(p, l)
    BY <2>3 DEF Moves
  <2>5. Sent(q, l)
    BY DEF RealtimeInv, Served
  <2> QED
    BY <2>3, <2>4, <2>5
<1>16. Placed'
  BY <1>1 DEF RealtimeInv, Placed
<1>17. ASSUME NEW x \in Conns, NEW f, f \in Stream(x)
       PROVE  conn[x].hub \in Instances
  <2>1. stream[x] # <<>>
    BY <1>17 DEF Stream
  <2> QED
    BY <2>1 DEF RealtimeInv, Placed
<1>18. Heard'
  <2> SUFFICES ASSUME NEW x \in Conns, NEW q \in Publishers, NEW l \in DOMAIN Plan[q],
                      Plan[q][l] \in Stream(x)
               PROVE  /\ UserOf[x] \in To[Plan[q][l]]
                      /\ conn[x].hub = At[q] => HeardHere(x, q, l)'
                      /\ conn[x].hub # At[q] => HeardElsewhere(x, q, l)'
    BY <1>1, <1>10 DEF Heard
  <2>1. conn[x].hub \in Instances
    BY <1>17
  <2>2. ASSUME HeardElsewhere(x, q, l), conn[x].hub # At[q] PROVE HeardElsewhere(x, q, l)'
    <3>1. Sent(q, l)'
      BY <1>4, <2>2 DEF HeardElsewhere
    <3>2. CASE Plan[q][l] \in Repeated'
      BY <3>1, <3>2 DEF HeardElsewhere
    <3>3. CASE Plan[q][l] \notin Repeated'
      <4>1. Plan[q][l] # e
        BY <1>7, <1>8, <2>2, <3>3
      <4>2. /\ Plan[q][l] \notin Mail(conn[x].hub) \cup Late
            /\ delivery[conn[x].hub].event = Plan[q][l] => x \notin delivery[conn[x].hub].todo
        BY <1>3, <2>2, <3>3 DEF HeardElsewhere
      <4>3. Plan[q][l] \notin Mail(conn[x].hub)' \cup Late'
        BY <1>1, <1>6, <2>1, <4>1, <4>2
      <4> QED
        BY <1>1, <3>1, <4>2, <4>3 DEF HeardElsewhere
    <3> QED
      BY <3>2, <3>3
  <2> QED
    BY <1>4, <2>2 DEF RealtimeInv, Heard
<1>19. HeardInOrder'
  <2> SUFFICES ASSUME NEW x \in Conns, NEW q \in Publishers,
                      NEW j \in DOMAIN Plan[q], NEW l \in DOMAIN Plan[q],
                      InTime(q, j, l), Plan[q][l] \in Stream(x), conn[x].hub # At[q]
               PROVE  /\ Plan[q][j] \notin Mail(conn[x].hub)'
                      /\ delivery'[conn'[x].hub].event # Plan[q][j]
    BY <1>1, <1>5, <1>10 DEF HeardInOrder
  <2>1. conn[x].hub \in Instances
    BY <1>17
  <2>2. /\ Plan[q][j] \notin Mail(conn[x].hub)
        /\ delivery[conn[x].hub].event # Plan[q][j]
    BY DEF RealtimeInv, HeardInOrder
  <2>3. e # Plan[q][j]
    <3> SUFFICES ASSUME e = Plan[q][j] PROVE FALSE
      OBVIOUS
    <3>1. q = p /\ j = k
      BY <1>7
    <3>2. ~Sent(p, l)
      BY <3>1 DEF Moves
    <3>3. Sent(q, l)
      BY DEF RealtimeInv, Heard, HeardElsewhere
    <3> QED
      BY <3>1, <3>2, <3>3
  <2> QED
    BY <1>1, <1>6, <2>1, <2>2, <2>3
<1> QED
  BY <1>9, <1>11, <1>12, <1>14, <1>15, <1>16, <1>18, <1>19 DEF RealtimeInv

\* The inboxes stay, or the event arrives with every instance that listens.
LEMMA MailMoves ==
  ASSUME RealtimeInv, NEW p \in Publishers, NEW k \in DOMAIN Plan[p], Moves(p, k), LateFits(p, k),
         tries' \in [Events -> Nat],
         NEW m \in Envelopes, m.event = Plan[p][k], m.origin = At[p],
         \/ UNCHANGED inbox
         \/ Broadcast(m) /\ Sent(p, k)' /\ (m.event \in Repeated' \/ m.event \notin Late')
  PROVE  /\ inbox' \in [Instances -> {None} \cup Seq(Envelopes)]
         /\ Mailed' /\ MailOrdered'
         /\ \A i \in Instances : Mail(i)' \subseteq Mail(i) \cup {Plan[p][k]}
<1>1. \A i \in Instances :
        \/ inbox'[i] = inbox[i]
        \/ /\ inbox[i] \in Seq(Envelopes) /\ inbox[i] # None /\ inbox'[i] = Append(inbox[i], m)
           /\ Sent(p, k)' /\ (m.event \in Repeated' \/ m.event \notin Late')
  <2>1. \A i \in Instances : inbox[i] = None \/ inbox[i] \in Seq(Envelopes)
    BY RealtimeTypes
  <2> QED
    BY <2>1 DEF Broadcast
<1>2. inbox' \in [Instances -> {None} \cup Seq(Envelopes)]
  <2>1. CASE UNCHANGED inbox
    BY <2>1, RealtimeTypes
  <2>2. CASE Broadcast(m)
    <3>1. ASSUME NEW i \in Instances PROVE inbox'[i] \in {None} \cup Seq(Envelopes)
      <4>1. CASE inbox'[i] = inbox[i]
        BY <4>1, RealtimeTypes
      <4>2. CASE inbox[i] \in Seq(Envelopes) /\ inbox'[i] = Append(inbox[i], m)
        BY <4>2, AppendFacts
      <4> QED
        BY <1>1, <4>1, <4>2
    <3> QED
      BY <2>2, <3>1 DEF Broadcast
  <2> QED
    BY <2>1, <2>2
<1>3. ASSUME NEW i \in Instances, inbox'[i] # None
      PROVE  /\ inbox[i] # None
             /\ \A n \in DOMAIN inbox'[i] :
                  /\ n \in Nat
                  /\ \/ n \in DOMAIN inbox[i] /\ inbox'[i][n] = inbox[i][n]
                     \/ /\ n \notin DOMAIN inbox[i] /\ inbox'[i][n] = m
                        /\ \A b \in DOMAIN inbox'[i] : b <= n
                        /\ Sent(p, k)' /\ (m.event \in Repeated' \/ m.event \notin Late')
  <2>1. inbox[i] \in Seq(Envelopes) /\ inbox[i] # None
    <3>1. inbox[i] = None \/ inbox[i] \in Seq(Envelopes)
      BY RealtimeTypes
    <3> QED
      BY <1>1, <1>3, <3>1
  <2>2. CASE inbox'[i] = inbox[i]
    BY <2>1, <2>2
  <2>3. CASE /\ inbox'[i] = Append(inbox[i], m)
             /\ Sent(p, k)' /\ (m.event \in Repeated' \/ m.event \notin Late')
    <3>1. PICK L \in Nat : L = Len(inbox[i])
      BY <2>1
    <3>2. /\ DOMAIN inbox'[i] = 1..(L + 1) /\ DOMAIN inbox[i] = 1..L
          /\ \A n \in DOMAIN inbox[i] : inbox'[i][n] = inbox[i][n]
          /\ inbox'[i][L + 1] = m
      BY <2>1, <2>3, <3>1, AppendFacts
    <3>3. ASSUME NEW n \in DOMAIN inbox'[i]
          PROVE  /\ n \in Nat
                 /\ \/ n \in DOMAIN inbox[i] /\ inbox'[i][n] = inbox[i][n]
                    \/ /\ n \notin DOMAIN inbox[i] /\ inbox'[i][n] = m
                       /\ \A b \in DOMAIN inbox'[i] : b <= n
      <4>1. n \in Nat /\ (n \in 1..L \/ n = L + 1)
        BY <3>2
      <4>2. CASE n \in 1..L
        BY <3>2, <4>1, <4>2
      <4>3. CASE n = L + 1
        <5>1. n \notin DOMAIN inbox[i] /\ \A b \in DOMAIN inbox'[i] : b <= n
          BY <3>2, <4>3
        <5> QED
          BY <3>2, <4>1, <4>3, <5>1
      <4> QED
        BY <4>1, <4>2, <4>3
    <3> QED
      BY <2>1, <2>3, <3>3
  <2> QED
    BY <1>1, <2>1, <2>2, <2>3
<1>4. ASSUME NEW i \in Instances
      PROVE  Mail(i)' \subseteq Mail(i) \cup {m.event}
  <2>1. CASE inbox'[i] = None
    BY <2>1 DEF Mail
  <2>2. CASE inbox'[i] # None
    <3>1. inbox[i] # None
      BY <1>3, <2>2
    <3>2. \A n \in DOMAIN inbox'[i] :
            inbox'[i][n] = m \/ (n \in DOMAIN inbox[i] /\ inbox'[i][n] = inbox[i][n])
      BY <1>3, <2>2
    <3> QED
      BY <2>2, <3>1, <3>2 DEF Mail
  <2> QED
    BY <2>1, <2>2
<1>5. Repeated \subseteq Repeated' /\ \A n : Posted(n) => Posted(n)'
  BY StillRepeated
<1>6. m.event \in Repeated' \/ \A i \in Instances : m.event \notin Mail(i)
  BY DEF Moves
<1>7. PICK e \in Events : e = Plan[p][k] /\ e = m.event
  BY PlanFacts
<1>8. ASSUME NEW q \in Publishers, NEW l \in DOMAIN Plan[q], e = Plan[q][l]
      PROVE  q = p /\ l = k
  <2>1. Plan[p][k] = Plan[q][l]
    BY <1>7, <1>8
  <2> QED
    BY <2>1, PlanAssumption
<1>9. ASSUME Sent(p, k)' PROVE Posted(m)'
  <2> SUFFICES ASSUME NEW q \in Publishers, NEW l \in DOMAIN Plan[q],
                      m.event = Plan[q][l]
               PROVE  m.origin = At[q] /\ Sent(q, l)'
    BY DEF Posted
  <2>1. q = p /\ l = k
    BY <1>7, <1>8
  <2> QED
    BY <1>9, <2>1
<1>10. Mailed'
  <2>1. ASSUME NEW i \in Instances, inbox'[i] # None
        PROVE  /\ \A n \in DOMAIN inbox'[i] : Posted(inbox[i][n])'
               /\ \A a, n \in DOMAIN inbox'[i] :
                    inbox'[i][a].event = inbox'[i][n].event =>
                      a = n \/ inbox'[i][a].event \in Repeated'
               /\ Mail(i)' \cap Late' \subseteq Repeated'
    <3>1. /\ inbox[i] # None
          /\ \A n \in DOMAIN inbox[i] : Posted(inbox[i][n])
          /\ \A a, n \in DOMAIN inbox[i] : inbox[i][a].event = inbox[i][n].event =>
               a = n \/ inbox[i][a].event \in Repeated
          /\ Mail(i) \cap Late \subseteq Repeated
      BY <1>3, <2>1 DEF RealtimeInv, Mailed
    <3>2. ASSUME NEW n \in DOMAIN inbox'[i]
          PROVE  Posted(inbox[i][n])'
      <4>1. CASE n \in DOMAIN inbox[i] /\ inbox'[i][n] = inbox[i][n]
        <5>1. PICK b : b = inbox[i][n] /\ b = inbox'[i][n]
          BY <4>1
        <5>2. Posted(b)
          BY <3>1, <4>1, <5>1
        <5>3. Posted(b)'
          BY <1>5, <5>2
        <5> QED
          BY <5>1, <5>3 DEF Posted
      <4>2. CASE inbox'[i][n] = m /\ Sent(p, k)'
        BY <1>9, <4>2 DEF Posted
      <4> QED
        BY <1>3, <2>1, <4>1, <4>2
    <3>3. ASSUME NEW a \in DOMAIN inbox'[i], NEW n \in DOMAIN inbox'[i],
                 inbox'[i][a].event = inbox'[i][n].event
          PROVE  a = n \/ inbox'[i][a].event \in Repeated'
      <4>1. m.event \in Repeated' \/ \A b \in DOMAIN inbox[i] : inbox[i][b].event # m.event
        <5>1. \A b \in DOMAIN inbox[i] : inbox[i][b].event \in Mail(i)
          BY <3>1 DEF Mail
        <5> QED
          BY <1>6, <5>1
      <4>2. /\ a \in Nat /\ n \in Nat
            /\ \/ a \in DOMAIN inbox[i] /\ inbox'[i][a] = inbox[i][a]
               \/ inbox'[i][a] = m /\ n <= a
            /\ \/ n \in DOMAIN inbox[i] /\ inbox'[i][n] = inbox[i][n]
               \/ inbox'[i][n] = m /\ a <= n
        BY <1>3, <2>1
      <4> QED
        BY <1>5, <3>1, <3>3, <4>1, <4>2
    <3>4. ASSUME NEW f, f \in Mail(i)' \cap Late' PROVE f \in Repeated'
      <4>1. CASE f = m.event
        <5>1. PICK n \in DOMAIN inbox'[i] : inbox'[i][n].event = f
          BY <2>1, <3>4 DEF Mail
        <5>2. inbox'[i][n] = inbox[i][n] /\ n \in DOMAIN inbox[i] => f \in Mail(i)
          BY <3>1, <5>1 DEF Mail
        <5> QED
          BY <1>3, <1>6, <2>1, <3>4, <4>1, <5>2
      <4>2. CASE f # m.event
        <5>1. f \in Mail(i) /\ f \in Late
          BY <1>4, <3>4, <4>2 DEF LateFits
        <5> QED
          BY <1>5, <3>1, <5>1
      <4> QED
        BY <4>1, <4>2
    <3> QED
      BY <3>2, <3>3, <3>4
  <2> QED
    BY <2>1 DEF Mailed, LateFits
<1>11. MailOrdered'
  <2> SUFFICES ASSUME NEW q \in Publishers, NEW j \in DOMAIN Plan[q], NEW l \in DOMAIN Plan[q],
                      InTime(q, j, l), NEW i \in Instances, inbox'[i] # None,
                      NEW a \in DOMAIN inbox'[i], NEW n \in DOMAIN inbox'[i],
                      inbox'[i][a].event = Plan[q][j], inbox'[i][n].event = Plan[q][l]
               PROVE  a < n
    <3>1. \A q \in Publishers : \A j, l \in DOMAIN Plan[q] : InTime(q, j, l)' => InTime(q, j, l)
      BY DEF Moves, InTime
    <3> QED
      BY <3>1 DEF MailOrdered
  <2>1. j \in Nat /\ l \in Nat /\ j < l
    BY PlanFacts DEF InTime
  <2>2. inbox[i] # None
    BY <1>3
  <2>3. CASE a \in DOMAIN inbox[i] /\ n \in DOMAIN inbox[i]
    BY <1>3, <2>2, <2>3 DEF RealtimeInv, MailOrdered
  <2>4. CASE a \in DOMAIN inbox[i] /\ n \notin DOMAIN inbox[i]
    <3>1. a <= n /\ a # n /\ a \in Nat /\ n \in Nat
      BY <1>3, <2>4
    <3> QED
      BY <3>1
  <2>5. CASE a \notin DOMAIN inbox[i]
    <3>1. inbox'[i][a] = m /\ e = Plan[q][j]
      BY <1>3, <1>7, <2>5
    <3>2. q = p /\ j = k
      BY <1>8, <3>1
    <3>3. ~Sent(p, l)
      BY <3>2 DEF Moves
    <3>4. Plan[q][l] # e
      BY <1>8, <2>1, <3>2
    <3>5. n \in DOMAIN inbox[i] /\ inbox[i][n].event = Plan[q][l]
      BY <1>3, <1>7, <3>4
    <3>6. Sent(q, l)
      BY <2>2, <3>5 DEF RealtimeInv, Mailed, Posted
    <3> QED
      BY <3>2, <3>3, <3>6
  <2> QED
    BY <2>3, <2>4, <2>5
<1> QED
  BY <1>2, <1>4, <1>7, <1>10, <1>11

\* What a publisher is about to send to Redis is, unless it was sent again,
\* nowhere but on the connections of its own hub, and nothing later is sent.
LEMMA UnsentFacts ==
  ASSUME RealtimeInv, NEW p \in Publishers, pub[p].pc = "broker"
  PROVE  \E k \in DOMAIN Plan[p] :
           /\ NextEvent(p) = Plan[p][k] /\ k = pub[p].n + 1 /\ pub[p].n \in Nat
           /\ NextEvent(p) \in Events /\ Envelope(p) \in Envelopes
           /\ Envelope(p).event = NextEvent(p) /\ Envelope(p).origin = At[p]
           /\ \A l \in DOMAIN Plan[p] : InTime(p, k, l) => ~Sent(p, l)
           /\ \/ NextEvent(p) \in Repeated
              \/ /\ NextEvent(p) \notin Late
                 /\ \A i \in Instances :
                      NextEvent(p) \notin Mail(i) /\ delivery[i].event # NextEvent(p)
                 /\ \A c \in Conns : NextEvent(p) \in Stream(c) => conn[c].hub = At[p]
<1>1. pub[p].n < Len(Plan[p])
  BY DEF RealtimeInv, Served
<1>2. PICK k \in DOMAIN Plan[p] : k = pub[p].n + 1
  BY <1>1, NextEventFacts
<1>3. /\ NextEvent(p) = Plan[p][k] /\ pub[p].n \in Nat
      /\ NextEvent(p) \in Events /\ NextEvent(p) # None /\ Envelope(p) \in Envelopes
      /\ Envelope(p).event = NextEvent(p) /\ Envelope(p).origin = At[p]
  BY <1>1, <1>2, NextEventFacts
<1>4. Sent(p, k) => Plan[p][k] \in Repeated
  BY <1>2, <1>3 DEF Sent
<1>5. ASSUME NEW l \in DOMAIN Plan[p], InTime(p, k, l) PROVE ~Sent(p, l)
  <2>1. l \in Nat /\ k \in Nat /\ k < l
    BY <1>5, PlanFacts DEF InTime
  <2> QED
    BY <1>2, <1>3, <2>1 DEF Sent
<1>6. CASE ~Sent(p, k)
  <2>1. NextEvent(p) \notin Late
    BY <1>3, <1>6 DEF RealtimeInv, Mailed, Posted, Late
  <2>2. ASSUME NEW i \in Instances, NextEvent(p) \in Mail(i) PROVE FALSE
    <3>1. inbox[i] # None
      BY <2>2 DEF Mail
    <3>2. PICK n \in DOMAIN inbox[i] : inbox[i][n].event = Plan[p][k]
      BY <1>3, <2>2, <3>1 DEF Mail
    <3>3. Posted(inbox[i][n])
      BY <3>1 DEF RealtimeInv, Mailed
    <3> QED
      BY <1>6, <3>2, <3>3 DEF Posted
  <2>3. \A i \in Instances : delivery[i].event # NextEvent(p)
    BY <1>3, <1>6 DEF RealtimeInv, Served
  <2>4. \A c \in Conns : NextEvent(p) \in Stream(c) => conn[c].hub = At[p]
    BY <1>3, <1>6 DEF RealtimeInv, Heard, HeardElsewhere
  <2> QED
    BY <1>2, <1>3, <1>5, <2>1, <2>2, <2>3, <2>4
<1> QED
  BY <1>2, <1>3, <1>4, <1>5, <1>6

\* A call returns: what was sent and heard from it stands.
LEMMA ReturnMoves ==
  ASSUME RealtimeInv, NEW p \in Publishers, pub[p].pc = "broker", pub' = Returned(p),
         NEW k \in DOMAIN Plan[p], k = pub[p].n + 1, NextEvent(p) = Plan[p][k],
         UNCHANGED <<closed, closing, registered, delivery, sockets, tries>>,
         strayed \subseteq strayed'
  PROVE  Moves(p, k) /\ Sent(p, k)' /\ pub' \in [Publishers -> Publisher]
<1>1. /\ pub' \in [Publishers -> Publisher]
      /\ pub'[p].pc = "idle" /\ pub'[p].n = pub[p].n + 1 /\ pub[p].n \in Nat
      /\ \A q \in Publishers \ {p} : pub'[q] = pub[q]
      /\ delivery[p].event = None
  BY ReturnedFacts
<1>2. Repeated' = Repeated
  BY DEF Repeated
<1>3. ASSUME NEW q \in Publishers, NEW l \in DOMAIN Plan[q]
      PROVE  /\ Sent(q, l) => Sent(q, l)'
             /\ \A c \in Conns : HeardHere(c, q, l) => HeardHere(c, q, l)'
  <2>1. l \in Nat
    BY PlanFacts
  <2>2. CASE q = p
    BY <1>1, <2>1, <2>2 DEF Sent, HeardHere
  <2>3. CASE q # p
    BY <1>1, <1>2, <2>3 DEF Sent, HeardHere
  <2> QED
    BY <2>2, <2>3
<1>4. \A e \in Events : tries[e] <= tries'[e]
  BY RealtimeTypes
<1>5. /\ \A l \in DOMAIN Plan[p] : InTime(p, k, l) => ~Sent(p, l)
      /\ \/ Plan[p][k] \in Repeated
         \/ /\ \A i \in Instances :
                 Plan[p][k] \notin Mail(i) /\ delivery[i].event # Plan[p][k]
            /\ \A c \in Conns : Plan[p][k] \in Stream(c) => conn[c].hub = At[p]
  BY UnsentFacts
<1>6. Moves(p, k)
  BY <1>1, <1>2, <1>3, <1>4, <1>5 DEF Moves
<1>7. Sent(p, k)'
  BY <1>1 DEF Sent
<1> QED
  BY <1>1, <1>6, <1>7

\* The last copy is the only one, or the event was sent again.
LEMMA PublishBrokerKeeps ==
  ASSUME RealtimeInv, NEW p \in Publishers, PublishBroker(p)
  PROVE  RealtimeInv'
<1>1. /\ pub[p].pc = "broker" /\ Broadcast(Envelope(p)) /\ pub' = Returned(p)
      /\ UNCHANGED <<closed, closing, registered, delivery, sockets, strayed, delayed, tries>>
  BY DEF PublishBroker, hub
<1>2. PICK k \in DOMAIN Plan[p] :
        /\ NextEvent(p) = Plan[p][k] /\ k = pub[p].n + 1
        /\ Envelope(p) \in Envelopes
        /\ Envelope(p).event = NextEvent(p) /\ Envelope(p).origin = At[p]
        /\ NextEvent(p) \in Repeated \/ NextEvent(p) \notin Late
  BY <1>1, UnsentFacts
<1>3. PICK m \in Envelopes : m = Envelope(p)
  BY <1>2
<1>4. m.event = Plan[p][k] /\ m.origin = At[p] /\ Broadcast(m)
  BY <1>1, <1>2, <1>3
<1>5. Moves(p, k) /\ Sent(p, k)' /\ pub' \in [Publishers -> Publisher]
  BY <1>1, <1>2, ReturnMoves
<1>6. Late' = Late /\ Repeated' = Repeated /\ tries' \in [Events -> Nat]
  BY <1>1, RealtimeTypes DEF Late, Repeated
<1>7. LateFits(p, k)
  BY <1>1, <1>5, <1>6, StillRepeated DEF LateFits
<1>8. /\ inbox' \in [Instances -> {None} \cup Seq(Envelopes)]
      /\ Mailed' /\ MailOrdered'
      /\ \A i \in Instances : Mail(i)' \subseteq Mail(i) \cup {Plan[p][k]}
  BY <1>2, <1>4, <1>5, <1>6, <1>7, MailMoves
<1>9. TypeOK'
  BY <1>1, <1>5, <1>8 DEF RealtimeInv, TypeOK, Queued, Publisher, sockets
<1> QED
  BY <1>5, <1>6, <1>8, <1>9, EventMoves

\* A late copy is the only one, or the event was sent again.
LEMMA ArriveLateKeeps ==
  ASSUME RealtimeInv, NEW d \in delayed, ArriveLate(d)
  PROVE  RealtimeInv'
<1>1. /\ Broadcast(d.env) /\ delayed' = delayed \ {d}
      /\ UNCHANGED <<closed, closing, registered, delivery, sockets, strayed, tries, pub>>
  BY DEF ArriveLate, hub
<1>2. PICK m \in Envelopes : m = d.env
  BY RealtimeTypes
<1>3. /\ m.event \in Late /\ m.event \in strayed /\ m.event \in Events
      /\ d.try \in Nat /\ d.try <= tries[m.event] /\ tries[m.event] \in Nat
  BY <1>2, RealtimeTypes DEF RealtimeInv, Mailed, Late, Envelopes
<1>4. PICK p \in Publishers : \E k \in DOMAIN Plan[p] : m.event = Plan[p][k]
  BY <1>3, EventFacts
<1>5. PICK k \in DOMAIN Plan[p] : m.event = Plan[p][k]
  BY <1>4
<1>6. m.origin = At[p] /\ Sent(p, k)
  BY <1>2, <1>5 DEF RealtimeInv, Mailed, Posted
<1>7. /\ Repeated' = Repeated /\ Late' \subseteq Late /\ tries' \in [Events -> Nat]
      /\ \A q \in Publishers : \A l \in DOMAIN Plan[q] : Sent(q, l)' <=> Sent(q, l)
  BY <1>1, SentStays, RealtimeTypes DEF Late
\* The copies of an event that was not sent again are one.
<1>8. m.event \in Repeated \/ m.event \notin Late'
  <2> SUFFICES ASSUME m.event \notin Repeated, NEW x \in delayed, x # d, x.env.event = m.event
               PROVE  FALSE
    BY <1>1 DEF Late
  <2>1. tries[m.event] = 0
    BY <1>3 DEF Repeated
  <2>2. x.env \in Envelopes /\ x.try \in Nat /\ x.try <= tries[m.event]
        /\ x \in [env : Envelopes, try : Nat] /\ d \in [env : Envelopes, try : Nat]
    BY RealtimeTypes DEF RealtimeInv, Mailed
  <2>3. x.env.origin = At[p]
    BY <1>5 DEF RealtimeInv, Mailed, Posted
  <2>4. x.env = m
    BY <1>6, <2>2, <2>3 DEF Envelopes
  <2>5. x.try = d.try
    BY <1>3, <2>1, <2>2
  <2> QED
    BY <1>2, <2>2, <2>4, <2>5
<1>9. Moves(p, k)
  <2>1. \A e \in Events : tries[e] <= tries'[e]
    BY <1>1, RealtimeTypes
  <2>2. \A l \in DOMAIN Plan[p] : ~InTime(p, k, l)
    BY <1>3, <1>5 DEF InTime
  <2>3. ASSUME m.event \notin Repeated
        PROVE  /\ \A i \in Instances : m.event \notin Mail(i) /\ delivery[i].event # m.event
               /\ \A c \in Conns : m.event \in Stream(c) => conn[c].hub = At[p]
    <3>1. \A i \in Instances : m.event \notin Mail(i)
      <4>1. ASSUME NEW i \in Instances, m.event \in Mail(i) PROVE FALSE
        <5>1. inbox[i] # None
          BY <4>1 DEF Mail
        <5> QED
          BY <1>3, <2>3, <4>1, <5>1 DEF RealtimeInv, Mailed
      <4> QED
        BY <4>1
    <3>2. \A i \in Instances : delivery[i].event # m.event
      BY <1>3, <1>5, <2>3 DEF RealtimeInv, Served
    <3>3. \A c \in Conns : m.event \in Stream(c) => conn[c].hub = At[p]
      BY <1>3, <1>5, <2>3 DEF RealtimeInv, Heard, HeardElsewhere
    <3> QED
      BY <3>1, <3>2, <3>3
  <2>4. \A q \in Publishers : \A l \in DOMAIN Plan[q] : \A c \in Conns :
          HeardHere(c, q, l) => HeardHere(c, q, l)'
    BY <1>1 DEF HeardHere
  <2> QED
    BY <1>1, <1>5, <1>7, <2>1, <2>2, <2>3, <2>4 DEF Moves
<1>10. LateFits(p, k)
  <2>1. /\ \A x \in delayed : Posted(x.env)' /\ x.try <= tries'[x.env.event]
        /\ Late \subseteq strayed'
    BY <1>7, <1>9, StillRepeated
  <2> QED
    BY <1>1, <1>7, <2>1 DEF LateFits
<1>11. /\ inbox' \in [Instances -> {None} \cup Seq(Envelopes)]
       /\ Mailed' /\ MailOrdered'
       /\ \A i \in Instances : Mail(i)' \subseteq Mail(i) \cup {Plan[p][k]}
  BY <1>1, <1>2, <1>5, <1>6, <1>7, <1>8, <1>9, <1>10, MailMoves
<1>12. TypeOK'
  BY <1>1, <1>11 DEF RealtimeInv, TypeOK, Queued, sockets
<1> QED
  BY <1>7, <1>9, <1>11, <1>12, EventMoves

\* What Stray does: one more late copy, or none.
LEMMA StrayFits ==
  ASSUME RealtimeInv, NEW p \in Publishers, NEW k \in DOMAIN Plan[p], Moves(p, k), Sent(p, k)',
         NextEvent(p) = Plan[p][k], Envelope(p) \in Envelopes,
         Envelope(p).event = NextEvent(p), Envelope(p).origin = At[p],
         tries' \in [Events -> Nat], UNCHANGED <<delayed, strayed>> \/ Stray(p)
  PROVE  /\ LateFits(p, k) /\ Late' \subseteq Late \cup {Plan[p][k]}
         /\ delayed' \subseteq [env : Envelopes, try : Nat] /\ strayed' \subseteq Events
<1>1. /\ \A m : Posted(m) => Posted(m)'
      /\ \A d \in delayed : Posted(d.env)' /\ d.try <= tries'[d.env.event]
      /\ Late \subseteq strayed'
  BY StillRepeated
<1>2. CASE UNCHANGED <<delayed, strayed>>
  BY <1>1, <1>2, RealtimeTypes DEF LateFits, Late
<1>3. CASE Stray(p)
  <2>1. PICK x : x = [env |-> Envelope(p), try |-> tries[NextEvent(p)]]
    OBVIOUS
  <2>2. delayed' = delayed \cup {x} /\ strayed' = strayed \cup {NextEvent(p)}
    BY <1>3, <2>1 DEF Stray
  <2>3. /\ NextEvent(p) \in Events /\ tries[NextEvent(p)] \in Nat
        /\ tries[NextEvent(p)] <= tries'[NextEvent(p)]
    BY PlanFacts, RealtimeTypes DEF Moves
  <2>4. x \in [env : Envelopes, try : Nat] /\ x.env.event = Plan[p][k] /\ x.env.origin = At[p]
        /\ x.try <= tries'[x.env.event]
    BY <2>1, <2>3
  <2>5. Posted(x.env)'
    <3> SUFFICES ASSUME NEW q \in Publishers, NEW l \in DOMAIN Plan[q],
                        x.env.event = Plan[q][l]
                 PROVE  x.env.origin = At[q] /\ Sent(q, l)'
      BY DEF Posted
    <3>1. Plan[p][k] = Plan[q][l]
      BY <2>4
    <3>2. q = p /\ l = k
      BY <3>1, PlanAssumption
    <3> QED
      BY <2>4, <3>2
  <2>6. Late' = Late \cup {Plan[p][k]}
    BY <2>2, <2>4 DEF Late
  <2>7. LateFits(p, k)
    BY <1>1, <2>2, <2>4, <2>5, <2>6 DEF LateFits
  <2> QED
    BY <2>2, <2>3, <2>4, <2>6, <2>7, RealtimeTypes
<1> QED
  BY <1>2, <1>3

\* A publication whose call gives up may still be on its way.
LEMMA PublishTimesOutKeeps ==
  ASSUME RealtimeInv, NEW p \in Publishers, PublishTimesOut(p)
  PROVE  RealtimeInv'
<1>1. /\ pub[p].pc = "broker" /\ pub' = Returned(p)
      /\ UNCHANGED <<delayed, strayed>> \/ Stray(p)
      /\ UNCHANGED <<closed, closing, registered, delivery, inbox, sockets, tries>>
  BY DEF PublishTimesOut, hub
<1>2. PICK k \in DOMAIN Plan[p] :
        /\ NextEvent(p) = Plan[p][k] /\ k = pub[p].n + 1
        /\ Envelope(p) \in Envelopes
        /\ Envelope(p).event = NextEvent(p) /\ Envelope(p).origin = At[p]
  BY <1>1, UnsentFacts
<1>3. strayed \subseteq strayed' /\ tries' \in [Events -> Nat]
  BY <1>1, RealtimeTypes DEF Stray
<1>4. Moves(p, k) /\ Sent(p, k)' /\ pub' \in [Publishers -> Publisher]
  BY <1>1, <1>2, <1>3, ReturnMoves
<1>5. /\ LateFits(p, k) /\ Late' \subseteq Late \cup {Plan[p][k]}
      /\ delayed' \subseteq [env : Envelopes, try : Nat] /\ strayed' \subseteq Events
  BY <1>1, <1>2, <1>3, <1>4, StrayFits
<1>6. PICK m \in Envelopes : m = Envelope(p)
  BY <1>2
<1>7. m.event = Plan[p][k] /\ m.origin = At[p]
  BY <1>2, <1>6
<1>8. /\ inbox' \in [Instances -> {None} \cup Seq(Envelopes)]
      /\ Mailed' /\ MailOrdered'
      /\ \A i \in Instances : Mail(i)' \subseteq Mail(i) \cup {Plan[p][k]}
  BY <1>1, <1>3, <1>4, <1>5, <1>7, MailMoves
<1>9. TypeOK'
  BY <1>1, <1>3, <1>4, <1>5, <1>8 DEF RealtimeInv, TypeOK, Queued, Publisher, sockets
<1> QED
  BY <1>4, <1>5, <1>8, <1>9, EventMoves

\* The connection to Redis breaks: the event was sent, and is sent again.
LEMMA PublishAgainKeeps ==
  ASSUME RealtimeInv, NEW p \in Publishers, PublishAgain(p)
  PROVE  RealtimeInv'
<1>1. /\ pub[p].pc = "broker" /\ tries' = [tries EXCEPT ![NextEvent(p)] = @ + 1]
      /\ \/ Broadcast(Envelope(p)) /\ UNCHANGED <<delayed, strayed>>
         \/ UNCHANGED inbox /\ (UNCHANGED <<delayed, strayed>> \/ Stray(p))
      /\ UNCHANGED <<closed, closing, registered, pub, delivery, sockets>>
  BY DEF PublishAgain, hub
<1>2. PICK k \in DOMAIN Plan[p] :
        /\ NextEvent(p) = Plan[p][k] /\ k = pub[p].n + 1 /\ pub[p].n \in Nat
        /\ NextEvent(p) \in Events /\ Envelope(p) \in Envelopes
        /\ Envelope(p).event = NextEvent(p) /\ Envelope(p).origin = At[p]
        /\ \A l \in DOMAIN Plan[p] : InTime(p, k, l) => ~Sent(p, l)
  BY <1>1, UnsentFacts
<1>3. /\ tries' \in [Events -> Nat] /\ tries'[NextEvent(p)] = tries[NextEvent(p)] + 1
      /\ \A e \in Events : tries[e] \in Nat /\ tries[e] <= tries'[e]
  BY <1>1, <1>2, RealtimeTypes
<1>4. Plan[p][k] \in Repeated' /\ Repeated \subseteq Repeated'
  BY <1>2, <1>3 DEF Repeated
<1>5. Sent(p, k)'
  BY <1>1, <1>2, <1>4 DEF Sent
<1>6. Moves(p, k)
  <2>1. \A q \in Publishers : \A l \in DOMAIN Plan[q] :
          /\ Sent(q, l) => Sent(q, l)'
          /\ \A c \in Conns : HeardHere(c, q, l) => HeardHere(c, q, l)'
    BY <1>1, <1>4 DEF Sent, HeardHere
  <2>2. strayed \subseteq strayed'
    BY <1>1 DEF Stray
  <2> QED
    BY <1>1, <1>2, <1>3, <1>4, <2>1, <2>2 DEF Moves
<1>7. /\ LateFits(p, k) /\ Late' \subseteq Late \cup {Plan[p][k]}
      /\ delayed' \subseteq [env : Envelopes, try : Nat] /\ strayed' \subseteq Events
  BY <1>1, <1>2, <1>3, <1>5, <1>6, StrayFits
<1>8. PICK m \in Envelopes : m = Envelope(p)
  BY <1>2
<1>9. m.event = Plan[p][k] /\ m.origin = At[p] /\ (UNCHANGED inbox \/ Broadcast(m))
  BY <1>1, <1>2, <1>8
<1>10. /\ inbox' \in [Instances -> {None} \cup Seq(Envelopes)]
       /\ Mailed' /\ MailOrdered'
       /\ \A i \in Instances : Mail(i)' \subseteq Mail(i) \cup {Plan[p][k]}
  BY <1>3, <1>4, <1>5, <1>6, <1>7, <1>9, MailMoves
<1>11. TypeOK'
  BY <1>1, <1>3, <1>7, <1>10 DEF RealtimeInv, TypeOK, Queued, sockets
<1> QED
  BY <1>6, <1>7, <1>10, <1>11, EventMoves

-----------------------------------------------------------------------------
(* The invariant, and what it says of Realtime's specification.            *)

LEMMA RealtimeStart ==
  ASSUME Init
  PROVE  RealtimeInv
<1>1. \A c \in Conns : stream[c] = <<>> /\ written[c] = 0 /\ Queued(c) = 0
  BY DEF Init, Queued
<1>2. TypeOK
  <2>1. \A i \in Instances : inbox[i] = <<>>
    BY DEF Init
  <2>2. <<>> \in Seq(Envelopes) /\ <<>> \in Seq(Events \cup {"ready", "reply"})
    OBVIOUS
  <2>3. inbox \in [Instances -> {None} \cup Seq(Envelopes)]
    BY <2>2 DEF Init
  <2>4. stream \in [Conns -> Seq(Events \cup {"ready", "reply"})]
    BY <2>2 DEF Init
  <2>5. \A c \in Conns : Queued(c) \in 0..Cap
    BY <1>1, CapAssumption
  <2>6. conn \in [Conns -> [pc : {"new", "registered", "open", "closing", "gone"},
                            hub : Instances \cup {None}, replies : 0..MaxReplies]]
    BY MaxRepliesAssumption DEF Init
  <2> QED
    BY <2>3, <2>4, <2>5, <2>6 DEF Init, TypeOK, NoDelivery
<1>3. \A c \in Conns : Stream(c) = {}
  BY <1>1 DEF Stream
<1>4. \A i \in Instances : inbox[i] = <<>> /\ Mail(i) = {}
  BY DEF Init, Mail
<1>5. Late = {} /\ delayed = {}
  BY DEF Init, Late
<1>6. \A d \in Deliverers : delivery[d].event = None /\ delivery[d].todo = {}
  BY DEF Init, NoDelivery
<1>7. \A i \in Instances : i \in Deliverers
  BY DEF Deliverers
<1>8. Mailed
  BY <1>4, <1>5 DEF Mailed
<1>9. Served
  <2>1. \A p \in Publishers : pub[p].pc = "idle" /\ p \in Deliverers
    BY DEF Init, Deliverers
  <2>2. \A i \in Instances, p \in Publishers : \A k \in DOMAIN Plan[p] :
          delivery[i].event # Plan[p][k]
    BY <1>6, <1>7, PlanFacts
  <2> QED
    BY <1>6, <2>1, <2>2 DEF Served
<1>10. Placed
  BY <1>1, <1>6 DEF Init, Placed
<1>11. Heard /\ HeardInOrder
  BY <1>3 DEF Heard, HeardInOrder
<1>12. OnlyRetriesRepeat /\ PublishersAreHeardInOrder
  BY <1>1 DEF OnlyRetriesRepeat, PublishersAreHeardInOrder
<1>13. MailOrdered /\ ServedInOrder
  BY <1>4 DEF MailOrdered, ServedInOrder
<1>14. ClosedHubIsEmpty
  BY DEF Init, ClosedHubIsEmpty
<1> QED
  BY <1>2, <1>8, <1>9, <1>10, <1>11, <1>12, <1>13, <1>14 DEF RealtimeInv

LEMMA RealtimeStep ==
  ASSUME RealtimeInv, [Next]_vars
  PROVE  RealtimeInv'
<1>1. CASE UNCHANGED vars
  <2>1. UNCHANGED <<closed, closing, registered, inbox, delayed, strayed, tries, pub, delivery,
                    conn, writer, done, stream, written>>
    BY <1>1 DEF vars, hub, redis, sockets
  <2>2. TypeOK' /\ ClosedHubIsEmpty'
    BY <2>1 DEF RealtimeInv, TypeOK, ClosedHubIsEmpty, Queued
  <2>3. \A c \in Conns : conn[c].pc = "new" => stream'[c] = <<>>
    BY <2>1 DEF RealtimeInv, Placed
  <2> QED
    BY <2>1, <2>2, <2>3, HubSteps
<1>2. ASSUME NEW p \in Publishers,
             \/ Publish(p) \/ PublishDelivered(p)
             \/ PublishBroker(p) \/ PublishAgain(p) \/ PublishTimesOut(p)
      PROVE  RealtimeInv'
  <2>1. p \in Deliverers
    BY DEF Deliverers
  <2> QED
    BY <1>2, <2>1, PublishKeeps, DeliveredKeeps, PublishBrokerKeeps, PublishAgainKeeps,
       PublishTimesOutKeeps
<1>3. ASSUME NEW d \in Deliverers, Deliver(d)
      PROVE  RealtimeInv'
  BY <1>3, EnqueueKeeps DEF Deliver
<1>4. ASSUME NEW d \in delayed, ArriveLate(d)
      PROVE  RealtimeInv'
  BY <1>4, ArriveLateKeeps
<1>5. ASSUME NEW i \in Instances,
             \/ Consume(i) \/ ConsumeDelivered(i) \/ LoseMail(i)
             \/ Close(i) \/ CloseSubscription(i)
             \/ \E c \in Conns : CloseConn(i, c) \/ Register(c, i)
      PROVE  RealtimeInv'
  <2>1. CASE Consume(i)
    BY <2>1, ConsumeKeeps, LoseMailKeeps
  <2>2. CASE ConsumeDelivered(i)
    BY <2>2, DeliveredKeeps DEF Deliverers
  <2>3. CASE LoseMail(i) \/ CloseSubscription(i)
    BY <2>3, LoseMailKeeps
  <2>4. CASE Close(i) \/ \E c \in Conns : CloseConn(i, c)
    BY <2>4, CloseKeeps
  <2>5. CASE \E c \in Conns : Register(c, i)
    BY <2>5, RegisterKeeps
  <2> QED
    BY <1>5, <2>1, <2>2, <2>3, <2>4, <2>5
<1>6. ASSUME NEW c \in Conns,
             \/ Ready(c) \/ Reply(c) \/ ReaderEnds(c)
             \/ Write(c) \/ WriterEnds(c) \/ Unregister(c)
      PROVE  RealtimeInv'
  BY <1>6, FramesKeep, ReaderEndsKeeps, WriterKeeps, UnregisterKeeps
<1> QED
  BY <1>1, <1>2, <1>3, <1>4, <1>5, <1>6 DEF Next

LEMMA InvariantOfRealtime == Spec => []RealtimeInv
BY RealtimeStart, RealtimeStep, PTL DEF Spec

\* The hub's maps, queues, deliveries and connections have their types, and no
\* connection's queue is ever longer than its channel (hub.go:248-253).
THEOREM RealtimeTypesHold == Spec => []TypeOK
<1>1. RealtimeInv => TypeOK
  BY DEF RealtimeInv
<1> QED
  BY <1>1, InvariantOfRealtime, PTL

\* A connection gets events for its user only, and none twice unless the client
\* sent it to Redis again, and then not on the publisher's instance, although
\* each event comes by two ways, through the publisher's hub and through Redis
\* (hub.go:114-124, 189).
THEOREM RepeatsAreRetries == Spec => []OnlyRetriesRepeat
<1>1. RealtimeInv => OnlyRetriesRepeat
  BY DEF RealtimeInv
<1> QED
  BY <1>1, InvariantOfRealtime, PTL

\* One publisher's events reach every connection in the order of its calls,
\* local or not and whatever mail is lost or sent again, but for those of which a
\* copy was left, unanswered, on its way to Redis.
THEOREM EventsComeInOrder == Spec => []PublishersAreHeardInOrder
<1>1. RealtimeInv => PublishersAreHeardInOrder
  BY DEF RealtimeInv
<1> QED
  BY <1>1, InvariantOfRealtime, PTL

\* A closed hub has no connection, and none joins it (hub.go:77-86, 133).
THEOREM ClosedHubsStayEmpty == Spec => []ClosedHubIsEmpty
<1>1. RealtimeInv => ClosedHubIsEmpty
  BY DEF RealtimeInv
<1> QED
  BY <1>1, InvariantOfRealtime, PTL

-----------------------------------------------------------------------------
(* Realtime implements Feed: a call begins with Publish and returns when   *)
(* Redis has answered or not, a command that is sent again is a Resend, a  *)
(* connection joins when it registers and hears an event when it is put    *)
(* into its queue; nothing else is seen.                                   *)

\* The refinement mapping of News.
ToldBy == [p \in Publishers |-> Told(p)]
Callers == {p \in Publishers : pub[p].pc # "idle"}
Homes == [c \in Conns |-> conn[c].hub]
HeardBy == [c \in Conns |-> [e \in Events |-> Times(c, e)]]
news == <<ToldBy, Callers, strayed, Repeated, Homes, HeardBy>>

LEMMA Unheard ==
  ASSUME NEW c, NEW e, e \notin Stream(c) PROVE Times(c, e) = 0
<1>1. {n \in DOMAIN stream[c] : stream[c][n] = e} = {}
  BY DEF Stream
<1> QED
  BY <1>1, FS_EmptySet DEF Times

LEMMA FeedStarts == Init => News!Init
<1> SUFFICES ASSUME Init PROVE News!Init
  OBVIOUS
<1>1. ASSUME NEW c \in Conns, NEW e \in Events PROVE Times(c, e) = 0
  <2>1. Stream(c) = {}
    BY DEF Init, Stream
  <2> QED
    BY <2>1, Unheard
<1>2. ToldBy = [p \in Publishers |-> 0] /\ Callers = {}
  BY DEF Init, ToldBy, Told, Callers
<1>3. Homes = [c \in Conns |-> None] /\ strayed = {} /\ Repeated = {}
  BY DEF Init, Homes, Repeated
<1>4. HeardBy = [c \in Conns |-> [e \in Events |-> 0]]
  BY <1>1 DEF HeardBy
<1> QED
  BY <1>2, <1>3, <1>4 DEF News!Init, ToldBy, Callers, Repeated, Homes, HeardBy

\* Steps that are not seen.
LEMMA Unseen ==
  ASSUME UNCHANGED <<pub, strayed, tries, stream>>,
         \A c \in Conns : conn'[c].hub = conn[c].hub
  PROVE  UNCHANGED news
<1>1. ToldBy' = ToldBy /\ Callers' = Callers /\ Repeated' = Repeated
  BY DEF ToldBy, Told, Callers, Repeated
<1>2. Homes' = Homes
  BY DEF Homes
<1>3. HeardBy' = HeardBy
  BY DEF HeardBy, Times
<1> QED
  BY <1>1, <1>2, <1>3 DEF news

\* What a step of a publisher makes of the calls.
LEMMA CallerMoves ==
  ASSUME RealtimeInv, NEW p \in Publishers,
         \A q \in Publishers \ {p} : pub'[q] = pub[q]
  PROVE  /\ ToldBy' = [ToldBy EXCEPT ![p] = Told(p)']
         /\ Told(p)' = ToldBy[p] => ToldBy' = ToldBy
         /\ Callers' = IF pub'[p].pc = "idle" THEN Callers \ {p} ELSE Callers \cup {p}
<1>1. \A q \in Publishers \ {p} : Told(q)' = Told(q)
  BY DEF Told
<1>2. ToldBy' = [q \in Publishers |-> Told(q)']
  BY DEF ToldBy
<1>3. ToldBy' = [ToldBy EXCEPT ![p] = Told(p)']
  BY <1>1, <1>2 DEF ToldBy
<1>4. ASSUME Told(p)' = ToldBy[p] PROVE ToldBy' = ToldBy
  <2>1. \A q \in Publishers : Told(q)' = Told(q)
    BY <1>1, <1>4 DEF ToldBy
  <2> QED
    BY <1>2, <2>1 DEF ToldBy
<1>5. Callers' = IF pub'[p].pc = "idle" THEN Callers \ {p} ELSE Callers \cup {p}
  BY DEF Callers
<1> QED
  BY <1>3, <1>4, <1>5

LEMMA TimesIsNat ==
  ASSUME RealtimeInv, NEW c \in Conns, NEW e
  PROVE  Times(c, e) \in Nat /\ IsFiniteSet({n \in DOMAIN stream[c] : stream[c][n] = e})
<1>1. PICK L \in Nat : DOMAIN stream[c] = 1..L
  BY RealtimeTypes
<1>2. IsFiniteSet(1..L)
  BY FS_Interval
<1>3. IsFiniteSet({n \in DOMAIN stream[c] : stream[c][n] = e})
  BY <1>1, <1>2, FS_Subset
<1> QED
  BY <1>3, FS_CardinalityType DEF Times

\* What is put into a queue is heard once more.
LEMMA PutIsHeard ==
  ASSUME RealtimeInv, NEW c \in Conns, NEW m \in Events \cup {"ready", "reply"},
         stream'[c] = Append(stream[c], m),
         \A x \in Conns \ {c} : stream'[x] = stream[x]
  PROVE  /\ m \in Events => HeardBy' = [HeardBy EXCEPT ![c][m] = @ + 1]
         /\ m \notin Events => HeardBy' = HeardBy
<1>1. stream[c] \in Seq(Events \cup {"ready", "reply"})
  BY RealtimeTypes
<1>2. PICK L \in Nat : L = Len(stream[c])
  BY <1>1
<1>3. /\ DOMAIN stream'[c] = 1..(L + 1) /\ DOMAIN stream[c] = 1..L
      /\ \A n \in 1..L : stream'[c][n] = stream[c][n]
      /\ stream'[c][L + 1] = m
  BY <1>1, <1>2, AppendFacts
<1>4. ASSUME NEW x \in Conns, NEW e \in Events, x # c \/ e # m
      PROVE  Times(x, e)' = Times(x, e)
  <2>1. {n \in DOMAIN stream'[x] : stream'[x][n] = e} =
          {n \in DOMAIN stream[x] : stream[x][n] = e}
    BY <1>3, <1>4
  <2> QED
    BY <2>1 DEF Times
<1>5. Times(c, m)' = Times(c, m) + 1
  <2> DEFINE S == {n \in DOMAIN stream[c] : stream[c][n] = m}
  <2>1. {n \in DOMAIN stream'[c] : stream'[c][n] = m} = S \cup {L + 1}
    BY <1>3
  <2>2. L + 1 \notin S
    BY <1>3
  <2>3. IsFiniteSet(S)
    BY TimesIsNat
  <2>4. Cardinality(S \cup {L + 1}) = Cardinality(S) + 1
    <3> HIDE DEF S
    <3> QED
      BY <2>2, <2>3, FS_AddElement
  <2> QED
    BY <2>1, <2>4 DEF Times
<1>6. HeardBy' = [x \in Conns |-> [e \in Events |-> Times(x, e)']]
  BY DEF HeardBy
<1>7. CASE m \in Events
  <2>1. \A x \in Conns : \A e \in Events :
          Times(x, e)' = IF x = c /\ e = m THEN Times(c, m) + 1 ELSE Times(x, e)
    BY <1>4, <1>5, <1>7
  <2>2. HeardBy' = [x \in Conns |-> [e \in Events |->
                     IF x = c /\ e = m THEN Times(c, m) + 1 ELSE Times(x, e)]]
    BY <1>6, <2>1
  <2>3. [HeardBy EXCEPT ![c][m] = @ + 1] =
          [x \in Conns |-> [e \in Events |->
             IF x = c /\ e = m THEN Times(c, m) + 1 ELSE Times(x, e)]]
    BY <1>7 DEF HeardBy
  <2> QED
    BY <1>7, <2>2, <2>3
<1>8. CASE m \notin Events
  <2>1. \A x \in Conns : \A e \in Events : Times(x, e)' = Times(x, e)
    BY <1>4, <1>8
  <2> QED
    BY <1>6, <1>8, <2>1 DEF HeardBy
<1> QED
  BY <1>7, <1>8

LEMMA EnqueueHears ==
  ASSUME RealtimeInv, NEW d \in Deliverers, NEW c \in Conns, Enqueue(d, c)
  PROVE  [News!Next]_news
<1>1. /\ c \in delivery[d].todo /\ Put(c, delivery[d].event)
      /\ UNCHANGED <<strayed, tries, pub, conn>>
  BY DEF Enqueue, redis
<1>2. PICK p \in Publishers : \E k \in DOMAIN Plan[p] :
           /\ delivery[d].event = Plan[p][k] /\ UserOf[c] \in To[Plan[p][k]]
           /\ conn[c].hub = InstanceOf(d) /\ conn[c].pc # "new"
           /\ \A l \in DOMAIN Plan[p] : InTime(p, k, l) => Plan[p][l] \notin Stream(c)
           /\ \/ /\ d = p /\ k = pub[p].n + 1 /\ pub[p].pc = "deliver"
                 /\ conn[c].hub = At[p] /\ Plan[p][k] \notin Stream(c)
              \/ /\ d \in Instances /\ conn[c].hub = d /\ At[p] # d /\ Sent(p, k)
                 /\ Plan[p][k] \in Repeated \/ Plan[p][k] \notin Stream(c)
  BY <1>1, EnqueueFacts
<1>3. PICK k \in DOMAIN Plan[p] :
           /\ delivery[d].event = Plan[p][k] /\ UserOf[c] \in To[Plan[p][k]]
           /\ conn[c].hub = InstanceOf(d) /\ conn[c].pc # "new"
           /\ \A l \in DOMAIN Plan[p] : InTime(p, k, l) => Plan[p][l] \notin Stream(c)
           /\ \/ /\ d = p /\ k = pub[p].n + 1 /\ pub[p].pc = "deliver"
                 /\ conn[c].hub = At[p] /\ Plan[p][k] \notin Stream(c)
              \/ /\ d \in Instances /\ conn[c].hub = d /\ At[p] # d /\ Sent(p, k)
                 /\ Plan[p][k] \in Repeated \/ Plan[p][k] \notin Stream(c)
  BY <1>2
<1>4. PICK e \in Events : e = Plan[p][k]
  BY PlanFacts
<1>5. /\ ToldBy' = ToldBy /\ Callers' = Callers /\ Homes' = Homes
      /\ Repeated' = Repeated
  BY <1>1 DEF ToldBy, Told, Callers, Homes, Repeated
<1>6. CASE stream' = stream
  BY <1>1, <1>6, Unseen
<1>7. CASE stream'[c] = Append(stream[c], e)
           /\ \A x \in Conns \ {c} : stream'[x] = stream[x]
  <2>1. HeardBy' = [HeardBy EXCEPT ![c][e] = @ + 1]
    BY <1>7, PutIsHeard
  <2>2. HeardBy[c][e] = 0 \/ (Homes[c] # At[p] /\ e \in Repeated)
    <3>1. CASE e \notin Stream(c)
      BY <3>1, Unheard DEF HeardBy
    <3>2. CASE conn[c].hub # At[p] /\ e \in Repeated
      BY <3>2 DEF Homes
    <3> QED
      BY <1>3, <1>4, <3>1, <3>2
  <2>3. ASSUME NEW l \in DOMAIN Plan[p], k < l, HeardBy[c][Plan[p][l]] > 0
        PROVE  e \in strayed
    <3>1. Plan[p][l] \in Events
      BY PlanFacts
    <3>2. Plan[p][l] \in Stream(c)
      BY <2>3, <3>1, Unheard DEF HeardBy
    <3> QED
      BY <1>3, <1>4, <2>3, <3>2 DEF InTime
  <2>4. /\ k <= ToldBy[p]
        /\ Homes[c] = At[p] => p \in Callers /\ k = ToldBy[p]
        /\ Homes[c] # None
    <3>1. pub[p].n \in Nat /\ k \in Nat /\ conn[c].hub # None
      BY <1>3, RealtimeTypes, PlanFacts, NoneAssumption DEF Publisher, RealtimeInv, Placed
    <3> QED
      BY <1>3, <3>1 DEF ToldBy, Told, Callers, Homes, Sent
  <2>5. News!Hear(c, p, k)
    BY <1>1, <1>3, <1>4, <1>5, <2>1, <2>2, <2>3, <2>4
    DEF News!Hear, ToldBy, Callers, Repeated, Homes, HeardBy
  <2> QED
    BY <2>5 DEF News!Next
<1> QED
  BY <1>1, <1>3, <1>4, <1>6, <1>7, PutFacts

\* Publish begins a call, an answer of Redis or its absence ends it, and the
\* client may send its command again before.
LEMMA CallsBeginAndReturn ==
  ASSUME RealtimeInv, NEW p \in Publishers,
         \/ Publish(p) \/ PublishDelivered(p)
         \/ PublishBroker(p) \/ PublishAgain(p) \/ PublishTimesOut(p)
  PROVE  [News!Next]_news
<1>1. pub \in [Publishers -> Publisher] /\ pub[p] \in Publisher
  BY RealtimeTypes
<1>2. UNCHANGED <<conn, stream>>
  BY DEF Publish, PublishDelivered, PublishBroker, PublishAgain, PublishTimesOut, sockets
<1>3. Homes' = Homes /\ HeardBy' = HeardBy
  BY <1>2 DEF Homes, HeardBy, Times
<1>4. CASE Publish(p)
  <2>1. /\ pub[p].pc = "idle" /\ pub[p].n < Len(Plan[p])
        /\ strayed' = strayed /\ Repeated' = Repeated
        /\ pub' = [pub EXCEPT ![p].pc = "broker"] \/ pub' = [pub EXCEPT ![p].pc = "deliver"]
    BY <1>4 DEF Publish, redis, Repeated
  <2>2. /\ pub'[p].pc # "idle" /\ pub'[p].n = pub[p].n
        /\ \A q \in Publishers \ {p} : pub'[q] = pub[q]
    BY <1>1, <2>1 DEF Publisher
  <2>3. Told(p)' = ToldBy[p] + 1 /\ ToldBy[p] = pub[p].n /\ p \notin Callers
    BY <2>1, <2>2 DEF Told, ToldBy, Callers
  <2>4. ToldBy' = [ToldBy EXCEPT ![p] = ToldBy[p] + 1] /\ Callers' = Callers \cup {p}
    BY <2>2, <2>3, CallerMoves
  <2>5. News!Begin(p)
    BY <1>3, <2>1, <2>3, <2>4 DEF News!Begin, ToldBy, Callers, Repeated, Homes, HeardBy
  <2> QED
    BY <2>5 DEF News!Next
<1>5. CASE PublishDelivered(p)
  <2>1. /\ pub[p].pc = "deliver" /\ pub' = [pub EXCEPT ![p].pc = "broker"]
        /\ strayed' = strayed /\ Repeated' = Repeated
    BY <1>5 DEF PublishDelivered, redis, Repeated
  <2>2. /\ pub'[p].pc = "broker" /\ pub'[p].n = pub[p].n
        /\ \A q \in Publishers \ {p} : pub'[q] = pub[q]
    BY <1>1, <2>1 DEF Publisher
  <2>3. Told(p)' = ToldBy[p] /\ p \in Callers
    BY <2>1, <2>2 DEF Told, ToldBy, Callers
  <2>4. ToldBy' = ToldBy /\ Callers' = Callers \cup {p}
    BY <2>2, <2>3, CallerMoves
  <2> QED
    BY <1>3, <2>1, <2>3, <2>4 DEF news
<1>6. CASE PublishBroker(p) \/ PublishTimesOut(p)
  <2>1. /\ pub[p].pc = "broker" /\ pub' = [pub EXCEPT ![p].pc = "idle", ![p].n = @ + 1]
        /\ strayed' \in {strayed, strayed \cup {NextEvent(p)}} /\ Repeated' = Repeated
    BY <1>6 DEF PublishBroker, PublishTimesOut, Stray, Returned, Repeated
  <2>2. /\ pub'[p].pc = "idle" /\ pub'[p].n = pub[p].n + 1
        /\ \A q \in Publishers \ {p} : pub'[q] = pub[q]
    BY <1>1, <2>1 DEF Publisher
  <2>3. Told(p)' = ToldBy[p] /\ ToldBy[p] = pub[p].n + 1 /\ p \in Callers
    BY <2>1, <2>2 DEF Told, ToldBy, Callers
  <2>4. ToldBy' = ToldBy /\ Callers' = Callers \ {p}
    BY <2>2, <2>3, CallerMoves
  <2>5. strayed' \in {strayed, strayed \cup {Plan[p][ToldBy[p]]}}
    BY <2>1, <2>3 DEF NextEvent
  <2>6. News!Return(p)
    BY <1>3, <2>1, <2>3, <2>4, <2>5 DEF News!Return, ToldBy, Callers, Repeated, Homes, HeardBy
  <2> QED
    BY <2>6 DEF News!Next
<1>7. CASE PublishAgain(p)
  <2>1. /\ pub[p].pc = "broker" /\ pub' = pub
        /\ strayed' \in {strayed, strayed \cup {NextEvent(p)}}
        /\ tries' = [tries EXCEPT ![NextEvent(p)] = @ + 1]
    BY <1>7 DEF PublishAgain, Stray
  <2>2. /\ NextEvent(p) \in Events /\ pub[p].n < Len(Plan[p])
        /\ NextEvent(p) = Plan[p][ToldBy[p]] /\ p \in Callers
    BY <2>1, NextEventFacts DEF RealtimeInv, Served, ToldBy, Told, Callers
  <2>3. ToldBy' = ToldBy /\ Callers' = Callers
    BY <2>1 DEF ToldBy, Told, Callers
  <2>4. Repeated' = Repeated \cup {NextEvent(p)}
    BY <2>1, <2>2, RealtimeTypes DEF Repeated
  <2>5. News!Resend(p)
    BY <1>3, <2>1, <2>2, <2>3, <2>4
    DEF News!Resend, ToldBy, Callers, Repeated, Homes, HeardBy
  <2> QED
    BY <2>5 DEF News!Next
<1> QED
  BY <1>4, <1>5, <1>6, <1>7

\* A connection joins its instance.
LEMMA RegisterJoins ==
  ASSUME RealtimeInv, NEW c \in Conns, NEW i \in Instances, Register(c, i)
  PROVE  News!Next
<1>1. /\ conn[c].pc = "new" /\ UNCHANGED <<pub, strayed, tries, stream>>
      /\ \/ conn' = [conn EXCEPT ![c].pc = "gone", ![c].hub = i]
         \/ conn' = [conn EXCEPT ![c].pc = "registered", ![c].hub = i]
  BY DEF Register, redis
<1>2. conn'[c].hub = i /\ \A x \in Conns \ {c} : conn'[x] = conn[x]
  BY <1>1, RealtimeTypes DEF Connection
<1>3. Homes' = [Homes EXCEPT ![c] = i]
  BY <1>2 DEF Homes
<1>4. Homes[c] = None
  BY <1>1 DEF Homes, RealtimeInv, Placed
<1>5. /\ ToldBy' = ToldBy /\ Callers' = Callers /\ HeardBy' = HeardBy
      /\ Repeated' = Repeated
  BY <1>1 DEF ToldBy, Told, Callers, HeardBy, Times, Repeated
<1>6. News!Join(c, i)
  BY <1>1, <1>3, <1>4, <1>5 DEF News!Join, ToldBy, Callers, Repeated, Homes, HeardBy
<1> QED
  BY <1>6 DEF News!Next

\* A step of a connection's handler, reader or writer leaves it on its instance.
LEMMA HubKept ==
  ASSUME RealtimeInv, NEW c \in Conns,
         \/ conn' = conn
         \/ conn' = [conn EXCEPT ![c].pc = "open"]
         \/ conn' = [conn EXCEPT ![c].pc = "closing"]
         \/ conn' = [conn EXCEPT ![c].pc = "gone"]
         \/ conn' = [conn EXCEPT ![c].replies = @ + 1]
  PROVE  \A x \in Conns : conn'[x].hub = conn[x].hub
<1>1. conn \in [Conns -> Connection]
  BY RealtimeTypes
<1>2. CASE \E pc \in {"open", "closing", "gone"} : conn' = [conn EXCEPT ![c].pc = pc]
  <2>1. PICK pc \in {"open", "closing", "gone"} : conn' = [conn EXCEPT ![c].pc = pc]
    BY <1>2
  <2>2. \A x \in Conns \ {c} : conn'[x] = conn[x]
    BY <1>1, <2>1
  <2>3. conn'[c] = [conn[c] EXCEPT !.pc = pc]
    BY <1>1, <2>1
  <2>4. conn'[c].hub = conn[c].hub
    BY <1>1, <2>3 DEF Connection
  <2> QED
    BY <2>2, <2>4
<1>3. CASE conn' = [conn EXCEPT ![c].replies = @ + 1]
  <2>1. \A x \in Conns \ {c} : conn'[x] = conn[x]
    BY <1>1, <1>3
  <2>2. conn'[c] = [conn[c] EXCEPT !.replies = @ + 1]
    BY <1>1, <1>3
  <2>3. conn'[c].hub = conn[c].hub
    BY <1>1, <2>2 DEF Connection
  <2> QED
    BY <2>1, <2>3
<1> QED
  BY <1>2, <1>3

\* The frames of a connection's own handler are no events.
LEMMA FramesAreUnseen ==
  ASSUME RealtimeInv, NEW c \in Conns, Ready(c) \/ Reply(c)
  PROVE  UNCHANGED news
<1>1. PICK m \in {"ready", "reply"} : Put(c, m)
  BY DEF Ready, Reply
<1>2. /\ UNCHANGED <<pub, strayed, tries>>
      /\ \/ conn' = [conn EXCEPT ![c].pc = "open"]
         \/ conn' = [conn EXCEPT ![c].replies = @ + 1]
  BY DEF Ready, Reply, redis
<1>3. \A x \in Conns : conn'[x].hub = conn[x].hub
  BY <1>2, HubKept
<1>4. m \notin Events
  BY <1>1, EventsAssumption
<1>5. CASE stream' = stream
  BY <1>2, <1>3, <1>5, Unseen
<1>6. CASE stream'[c] = Append(stream[c], m)
           /\ \A x \in Conns \ {c} : stream'[x] = stream[x]
  <2>1. HeardBy' = HeardBy
    BY <1>4, <1>6, PutIsHeard
  <2>2. /\ ToldBy' = ToldBy /\ Callers' = Callers /\ Homes' = Homes
        /\ Repeated' = Repeated
    BY <1>2, <1>3 DEF ToldBy, Told, Callers, Homes, Repeated
  <2> QED
    BY <1>2, <2>1, <2>2 DEF news
<1> QED
  BY <1>1, <1>5, <1>6, PutFacts

LEMMA FeedNext == RealtimeInv /\ [Next]_vars => [News!Next]_news
<1> SUFFICES ASSUME RealtimeInv, [Next]_vars PROVE [News!Next]_news
  OBVIOUS
<1>1. ASSUME NEW p \in Publishers,
             \/ Publish(p) \/ PublishDelivered(p)
             \/ PublishBroker(p) \/ PublishAgain(p) \/ PublishTimesOut(p)
      PROVE  [News!Next]_news
  BY <1>1, CallsBeginAndReturn
<1>2. ASSUME NEW d \in Deliverers, Deliver(d) PROVE [News!Next]_news
  BY <1>2, EnqueueHears DEF Deliver
<1>3. ASSUME NEW m \in delayed, ArriveLate(m) PROVE UNCHANGED news
  BY <1>3, Unseen DEF ArriveLate, sockets
<1>4. ASSUME NEW i \in Instances,
             \/ Consume(i) \/ ConsumeDelivered(i) \/ LoseMail(i) \/ CloseSubscription(i)
             \/ Close(i)
      PROVE  UNCHANGED news
  BY <1>4, Unseen
  DEF Consume, ConsumeDelivered, LoseMail, CloseSubscription, Close, redis, sockets
<1>5. ASSUME NEW i \in Instances, NEW c \in Conns, CloseConn(i, c) PROVE UNCHANGED news
  BY <1>5, Unseen DEF CloseConn, redis
<1>6. ASSUME NEW i \in Instances, NEW c \in Conns, Register(c, i) PROVE [News!Next]_news
  BY <1>6, RegisterJoins
<1>7. ASSUME NEW c \in Conns, Ready(c) \/ Reply(c) PROVE UNCHANGED news
  BY <1>7, FramesAreUnseen
<1>8. ASSUME NEW c \in Conns, ReaderEnds(c) \/ Write(c) \/ WriterEnds(c) \/ Unregister(c)
      PROVE  UNCHANGED news
  <2>1. /\ UNCHANGED <<pub, strayed, tries, stream>>
        /\ \/ conn' = conn \/ conn' = [conn EXCEPT ![c].pc = "closing"]
           \/ conn' = [conn EXCEPT ![c].pc = "gone"]
    BY <1>8 DEF ReaderEnds, Write, WriterEnds, Unregister, redis
  <2>2. \A x \in Conns : conn'[x].hub = conn[x].hub
    BY <2>1, HubKept
  <2> QED
    BY <2>1, <2>2, Unseen
<1>9. CASE UNCHANGED vars
  BY <1>9, Unseen DEF vars, redis, sockets
<1> QED
  BY <1>1, <1>2, <1>3, <1>4, <1>5, <1>6, <1>7, <1>8, <1>9 DEF Next

\* However events travel, any number of connections on any number of instances
\* are sent one publisher's events in order, none twice but those that Redis
\* was sent again, and those on the publisher's own instance each once at most,
\* during its call: Realtime implements Feed (realtime/hub.go:100-128, 184-212).
THEOREM RealtimeImplementsFeed == Spec => ImplementsFeed
<1>1. Spec => News!Spec
  BY FeedStarts, FeedNext, InvariantOfRealtime, PTL
  DEF Spec, News!Spec, news, ToldBy, Callers, Repeated, Homes, HeardBy
<1> QED
  BY <1>1 DEF ImplementsFeed

=============================================================================
