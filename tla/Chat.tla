-------------------------------- MODULE Chat --------------------------------
(***************************************************************************)
(* One chat of two members: chat/service.go (SendMessage, MarkRead,        *)
(* ListMessages and the unread count of ListChats), run concurrently       *)
(* against PostgreSQL under READ COMMITTED.  One action is one SQL         *)
(* statement of a handler; an inserted message becomes visible at Commit,  *)
(* with the time at which its transaction began.  Requests of users who    *)
(* are not members and sends with another's pet as the sender end without  *)
(* an effect and are left out.                                             *)
(***************************************************************************)
EXTENDS Naturals, FiniteSets

CONSTANTS
  Members,    \* the chat's members
  ClientIds,  \* client_message_id values
  Contents,   \* message type, body, media and sender pet of a message
  Sends,      \* the <<member, client id, content>> sent in this instance
  Readers,    \* the members who mark messages as read in it
  Earlier,    \* the messages of the chat at the start
  Ids,        \* messages.id, ordered as ORDER BY orders uuids
  Requests,   \* HTTP requests, each of which runs one handler once
  PageSize,   \* the limit of a page
  MaxTime,    \* bound: the clock stops here
  None        \* the absent value

ASSUME SendsAssumption == Sends \subseteq Members \X ClientIds \X Contents
ASSUME ReadersAssumption == Readers \subseteq Members
ASSUME IdsAssumption == Ids \subseteq Nat
ASSUME MaxTimeAssumption == MaxTime \in Nat \ {0}
ASSUME PageSizeAssumption == PageSize \in Nat \ {0}
ASSUME ChatNoneAssumption ==
  None \notin Members \cup ClientIds \cup Contents \cup Ids

Times == 1..MaxTime
Row == [id : Ids, sender : Members, client : ClientIds, content : Contents,
        at : Times]
Drafts == [sender : Members, client : ClientIds, content : Contents, at : Times]

ASSUME DraftsAssumption == None \notin Drafts
ASSUME EarlierAssumption ==
  /\ Earlier \subseteq Row /\ IsFiniteSet(Earlier)
  /\ \A m, n \in Earlier :
        m.id = n.id \/ (m.sender = n.sender /\ m.client = n.client) => m = n

VARIABLES
  status,     \* matches.status of the chat's match
  messages,   \* committed rows of messages
  notices,    \* notices[i]: notifications of the other member about i
  lastRead,   \* chat_members.last_read_at; 0 for NULL, before every message
  marked,     \* history: <<user, message>> a MarkRead has succeeded for
  published,  \* history: the events handed to the hub
  clock,      \* now(), with the resolution of timestamptz
  tx,         \* the requests and their open transactions
  walk        \* a client that reads the chat page by page

db == <<status, messages, notices, lastRead, marked>>
vars == <<db, published, clock, tx, walk>>

-----------------------------------------------------------------------------
(* Requests.                                                               *)

PCs == {"idle", "check", "insert", "load", "commit", "publish",
        "markCheck", "mark", "announce", "done"}

Idle == [pc |-> "idle", user |-> None, client |-> None, content |-> None,
         at |-> 0, new |-> {}, answer |-> None, target |-> None]

Transaction ==
  [pc : PCs, user : Members \cup {None}, client : ClientIds \cup {None},
   content : Contents \cup {None}, at : Times \cup {0},
   new : SUBSET Row,             \* uncommitted: the inserted message
   answer : Ids \cup {None},     \* the message a send answers with
   target : Ids \cup {None}]     \* the message to mark as read

\* The index of UNIQUE (chat_id, sender_user_id, client_message_id): what is
\* stored under a request's key, and whether the key is being inserted.
Stored(r) == {m \in messages : m.sender = r.user /\ m.client = r.client}
KeyFree(p) ==
  \A q \in Requests \ {p} : \A m \in tx[q].new :
     tx[q].pc = "commit" => <<m.sender, m.client>> # <<tx[p].user, tx[p].client>>

FreshIds == Ids \ ({m.id : m \in messages}
                     \cup {m.id : m \in UNION {tx[q].new : q \in Requests}})

Set(p, r) == tx' = [tx EXCEPT ![p] = r]
Step(p, r) == Set(p, r) /\ UNCHANGED <<db, published, clock, walk>>
Finished == [Idle EXCEPT !.pc = "done"]
Answered(r) == [r EXCEPT !.pc = "done", !.at = 0, !.new = {}]
End(p) == Step(p, Finished)

-----------------------------------------------------------------------------
(* SendMessage.                                                            *)

\* Fault: validateMessage lets an empty message pass.
BeginSendUnvalidated(p, u, c, x) ==
  /\ tx[p].pc = "idle"
  /\ \E content \in {x, "empty"} :
       Step(p, [Idle EXCEPT !.pc = "check", !.user = u, !.client = c,
                            !.content = content, !.at = clock])

BeginSend(p, u, c, x) ==
  /\ tx[p].pc = "idle"
  /\ Step(p, [Idle EXCEPT !.pc = "check", !.user = u, !.client = c,
                          !.content = x, !.at = clock])

\* Fault: a send does not ask whether the match is still active.
CheckMembershipOnly(p) ==
  /\ tx[p].pc = "check"
  /\ Step(p, [tx[p] EXCEPT !.pc = "insert"])

\* ensureMembership, requireActive.
CheckActive(p) ==
  /\ tx[p].pc = "check"
  /\ status = "active"
  /\ Step(p, [tx[p] EXCEPT !.pc = "insert"])

\* ErrChatInactive, of a send or of a MarkRead.
Refuse(p) ==
  /\ \/ tx[p].pc = "check" /\ status # "active"
     \/ tx[p].pc = "markCheck" /\ status = "blocked"
  /\ End(p)

NewMessage(r, i) == [id |-> i, sender |-> r.user, client |-> r.client,
                     content |-> r.content, at |-> r.at]

\* INSERT ... ON CONFLICT DO NOTHING waits for an insertion of the same key.
Insert(p) ==
  /\ tx[p].pc = "insert"
  /\ KeyFree(p)
  /\ IF Stored(tx[p]) # {}
       THEN Step(p, [tx[p] EXCEPT !.pc = "load"])
       ELSE \E i \in FreshIds :
              Step(p, [tx[p] EXCEPT !.pc = "commit", !.answer = i,
                                    !.new = {NewMessage(tx[p], i)}])

\* Fault: the stored message is the answer, whatever it says.
LoadUncompared(p) ==
  /\ tx[p].pc = "load"
  /\ \E m \in Stored(tx[p]) :
       Step(p, [tx[p] EXCEPT !.pc = "commit", !.answer = m.id])

\* Fault: a message that is loaded is notified about like a new one.
LoadAsCreated(p) ==
  /\ tx[p].pc = "load"
  /\ \E m \in Stored(tx[p]) :
       IF m.content = tx[p].content
         THEN Step(p, [tx[p] EXCEPT !.pc = "commit", !.answer = m.id,
                                    !.new = {m}])
         ELSE End(p)

\* The message of an earlier send, or ErrIdempotencyConflict.
Load(p) ==
  /\ tx[p].pc = "load"
  /\ \E m \in Stored(tx[p]) :
       IF m.content = tx[p].content
         THEN Step(p, [tx[p] EXCEPT !.pc = "commit", !.answer = m.id])
         ELSE End(p)

\* COMMIT of the message and of the notification of the other member.
Commit(p) ==
  LET r == tx[p] IN
  /\ r.pc = "commit"
  /\ messages' = messages \cup r.new
  /\ notices' = [i \in Ids |-> IF i \in {m.id : m \in r.new}
                                 THEN notices[i] + 1 ELSE notices[i]]
  /\ Set(p, IF r.new = {} THEN Answered(r)
                           ELSE [Answered(r) EXCEPT !.pc = "publish"])
  /\ UNCHANGED <<status, lastRead, marked, published, clock, walk>>

\* PublishToUsers, its error ignored.
Publish(p) ==
  /\ tx[p].pc = "publish"
  /\ published' = published \cup {<<"message.created", tx[p].answer>>}
  /\ Set(p, [tx[p] EXCEPT !.pc = "done"])
  /\ UNCHANGED <<db, clock, walk>>

-----------------------------------------------------------------------------
(* MarkRead: three statements, each a transaction of its own.              *)

\* Clients mark messages they have received; for any other id the UPDATE finds
\* no row and the request ends without an effect.
BeginMark(p, u, i) ==
  /\ tx[p].pc = "idle"
  /\ i \in {m.id : m \in messages}
  /\ Step(p, [Idle EXCEPT !.pc = "markCheck", !.user = u, !.target = i])

CheckMember(p) ==
  /\ tx[p].pc = "markCheck"
  /\ status # "blocked"
  /\ Step(p, [tx[p] EXCEPT !.pc = "mark"])

Later(s, t) == IF s < t THEN t ELSE s

\* Fault: the cursor becomes the marked message's time, be it earlier or later.
MarkAssigns(p) ==
  /\ tx[p].pc = "mark"
  /\ \E m \in messages :
       /\ m.id = tx[p].target
       /\ lastRead' = [lastRead EXCEPT ![tx[p].user] = m.at]
       /\ marked' = marked \cup {<<tx[p].user, m.id>>}
       /\ Set(p, [tx[p] EXCEPT !.pc = "announce", !.at = m.at])
  /\ UNCHANGED <<status, messages, notices, published, clock, walk>>

\* UPDATE ... SET last_read_at = GREATEST(...).
Mark(p) ==
  /\ tx[p].pc = "mark"
  /\ \E m \in messages :
       /\ m.id = tx[p].target
       /\ lastRead' = [lastRead EXCEPT ![tx[p].user] = Later(@, m.at)]
       /\ marked' = marked \cup {<<tx[p].user, m.id>>}
       /\ Set(p, [tx[p] EXCEPT !.pc = "announce",
                               !.at = Later(lastRead[tx[p].user], m.at)])
  /\ UNCHANGED <<status, messages, notices, published, clock, walk>>

\* chat.read.
Announce(p) ==
  /\ tx[p].pc = "announce"
  /\ published' = published \cup {<<"chat.read", tx[p].user, tx[p].at>>}
  /\ Set(p, Finished)
  /\ UNCHANGED <<db, clock, walk>>

\* A failed statement, a cancelled request or a crash rolls the message back,
\* or a commit gets no answer.  A request that fails with nothing uncommitted
\* is one that takes no further step.
Fail(p) == tx[p].pc = "commit" /\ End(p)

-----------------------------------------------------------------------------
(* ListMessages: a client follows next_cursor to the end of the chat.      *)

\* (created_at, id), which the cursor's text carries exactly: RFC3339Nano is
\* finer than timestamptz.
Cursor(m) == <<m.at, m.id>>

\* ORDER BY created_at DESC, id DESC.
Before(m, n) == m.at > n.at \/ (m.at = n.at /\ m.id > n.id)

\* Fault: pages continue below the cursor's time.
BelowTime(m, c) == c = <<>> \/ m.at < c[1]

\* (created_at, id) < (cursor's), or no cursor.
Below(m, c) == c = <<>> \/ m.at < c[1] \/ (m.at = c[1] /\ m.id < c[2])

\* The first PageSize of the messages below the cursor.
Page(c) ==
  LET below == {m \in messages : Below(m, c)} IN
  {m \in below : Cardinality({n \in below : Before(n, m)}) < PageSize}

BeginWalk ==
  /\ walk.pc = "idle"
  /\ walk' = [walk EXCEPT !.pc = "check", !.before = {m.id : m \in messages}]
  /\ UNCHANGED <<db, published, clock, tx>>

\* ensureMembership of each page.
WalkCheck ==
  /\ walk.pc = "check"
  /\ walk' = [walk EXCEPT !.pc = IF status = "blocked" THEN "refused"
                                                       ELSE "page"]
  /\ UNCHANGED <<db, published, clock, tx>>

\* One query for PageSize + 1 rows; next_cursor is there if it finds as many.
ReadPage ==
  LET page == Page(walk.cursor)
      more == \E m \in messages \ page : Below(m, walk.cursor)
      last == CHOOSE m \in page : \A n \in page : ~Before(m, n)
  IN
  /\ walk.pc = "page"
  /\ walk' = [walk EXCEPT
                 !.pc = IF more THEN "check" ELSE "done",
                 !.cursor = IF more THEN Cursor(last) ELSE @,
                 !.got = [i \in Ids |-> IF i \in {m.id : m \in page}
                                          THEN walk.got[i] + 1
                                          ELSE walk.got[i]]]
  /\ UNCHANGED <<db, published, clock, tx>>

-----------------------------------------------------------------------------
(* createBlock commits (Matching has its steps); time passes.              *)

Block ==
  /\ status = "active"
  /\ status' = "blocked"
  /\ UNCHANGED <<messages, notices, lastRead, marked, published, clock, tx,
                 walk>>

Tick ==
  /\ clock < MaxTime
  /\ clock' = clock + 1
  /\ UNCHANGED <<db, published, tx, walk>>

Init ==
  /\ status = "active"
  /\ messages = Earlier
  /\ notices = [i \in Ids |-> IF i \in {m.id : m \in Earlier} THEN 1 ELSE 0]
  /\ lastRead = [u \in Members |-> 0]
  /\ marked = {} /\ published = {}
  /\ clock = 1
  /\ tx = [p \in Requests |-> Idle]
  /\ walk = [pc |-> "idle", cursor |-> <<>>, before |-> {},
             got |-> [i \in Ids |-> 0]]

SendStep(p) == CheckActive(p) \/ Insert(p) \/ Load(p) \/ Commit(p) \/ Publish(p)
MarkStep(p) == CheckMember(p) \/ Mark(p) \/ Announce(p)

Next ==
  \/ \E p \in Requests :
       \/ \E s \in Sends : BeginSend(p, s[1], s[2], s[3])
       \/ \E u \in Readers, i \in Ids : BeginMark(p, u, i)
       \/ SendStep(p) \/ MarkStep(p) \/ Refuse(p) \/ Fail(p)
  \/ BeginWalk \/ WalkCheck \/ ReadPage
  \/ Block \/ Tick

Spec == Init /\ [][Next]_vars

-----------------------------------------------------------------------------
(* Properties.                                                             *)

\* Every variable has its type.
TypeOK ==
  /\ status \in {"active", "blocked"}
  /\ messages \subseteq Row
  /\ notices \in [Ids -> Nat]
  /\ lastRead \in [Members -> Times \cup {0}]
  /\ marked \subseteq Members \X Ids
  /\ clock \in Times
  /\ tx \in [Requests -> Transaction]
  /\ walk.pc \in {"idle", "check", "page", "refused", "done"}
  /\ walk.cursor \in {<<>>} \cup (Times \X Ids)
  /\ walk.before \subseteq Ids /\ walk.got \in [Ids -> Nat]

\* However often a client sends a message again, and whichever of its sends
\* fail, the message is stored once (service.go:342-380).
SentOnce ==
  \A m, n \in messages :
    m.sender = n.sender /\ m.client = n.client => m = n

\* ... the other member is notified of it once, and events tell of committed
\* messages and of read cursors that are kept, whatever fails between a
\* handler's statements (service.go:256-275, 306-313).
ToldOnce ==
  /\ \A i \in Ids : notices[i] = Cardinality({m \in messages : m.id = i})
  /\ \A e \in published :
       IF e[1] = "message.created"
         THEN \E m \in messages : m.id = e[2]
         ELSE e[3] <= lastRead[e[2]]

\* A send that is answered with a message has stored that message, with the
\* content of this very request: an id is not reused for another message, and
\* a retry that overtakes the first send does not lose it.
AnswersStand ==
  \A p \in Requests :
    LET r == tx[p] IN
    r.pc = "done" /\ r.answer # None =>
      \E m \in Stored(r) : m.id = r.answer /\ m.content = r.content

\* Unread as ListChats counts it: of the other member and above the cursor.
Unread(u) == {m \in messages : m.sender # u /\ m.at > lastRead[u]}

\* What a member has marked as read stays read, although two devices mark
\* different messages at once and in any order (service.go:286-298).
ReadStaysRead ==
  \A u \in Members : \A m \in Unread(u) : <<u, m.id>> \notin marked

\* Following next_cursor to the end yields every message that was there at the
\* first page exactly once, and none twice, although messages with equal and
\* with earlier times are committed in between (service.go:156-193).
WalkIsComplete ==
  /\ \A i \in Ids : walk.got[i] <= 1
  /\ walk.pc = "done" => \A i \in walk.before : walk.got[i] = 1

\* To whoever reads the database and hears the events, sending is one step: it
\* was accepted while the match was active, although SendMessage inserts after
\* its check without a lock (service.go:225-256), and a send is answered with
\* the one message that has its id and content or with none.
DraftOf(r) ==
  IF r.pc \in {"insert", "load", "commit"}
    THEN [sender |-> r.user, client |-> r.client, content |-> r.content, at |-> r.at]
    ELSE None
AnswerOf(r) == IF r.pc \in {"publish", "done"} THEN r.answer ELSE None
Box == INSTANCE Mailbox WITH
  open <- (status = "active"), told <- published,
  accepted <- [p \in Requests |-> DraftOf(tx[p])],
  answer <- [p \in Requests |-> AnswerOf(tx[p])]
ImplementsMailbox == Box!Spec
=============================================================================
