----------------------------- MODULE ChatProofs -----------------------------
(***************************************************************************)
(* Proofs about Chat, for any members, requests, messages and page size:   *)
(* messages are stored, told and answered once, what was marked as read    *)
(* stays read, and a walk over the pages of a chat is complete.            *)
(*                                                                         *)
(* A message that is inserted and not yet committed has a key and an id    *)
(* that no other message has, committed or not (Held, Apart); so the       *)
(* unique index does its work although the handlers look at different      *)
(* snapshots.  Of the walk: what is not below its cursor has been read if  *)
(* it was there at the first page, and what is below has not (WalkKeeps).  *)
(***************************************************************************)
EXTENDS Chat, FiniteSetTheorems, WellFoundedInduction, TLAPS

Walk == [pc : {"idle", "check", "page", "refused", "done"},
         cursor : {<<>>} \cup (Times \X Ids),
         before : SUBSET Ids, got : [Ids -> Nat]]

\* The answer of r is a message that r has sent.
Stands(r) == \E m \in Stored(r) : m.id = r.answer /\ m.content = r.content

Held(r) ==
  /\ r.pc \in {"check", "insert", "load", "commit"} =>
       /\ r.user \in Members /\ r.client \in ClientIds /\ r.content \in Contents
       /\ r.at \in Times
  /\ r.pc # "commit" => r.new = {}
  /\ r.pc = "commit" =>
       /\ r.answer \in Ids
       /\ \/ /\ r.new = {NewMessage(r, r.answer)} /\ Stored(r) = {}
             /\ \A m \in messages : m.id # r.answer
          \/ r.new = {} /\ Stands(r)
  /\ r.pc = "publish" => r.answer # None
  /\ r.pc \in {"publish", "done"} /\ r.answer # None => Stands(r)
  /\ r.pc \in {"markCheck", "mark", "announce"} => r.user \in Members
  /\ r.pc = "announce" => r.at <= lastRead[r.user]

Apart ==
  \A p, q \in Requests : p # q =>
    \A m \in tx[p].new, n \in tx[q].new :
      m.id # n.id /\ (m.sender # n.sender \/ m.client # n.client)

OneId == \A m, n \in messages : m.id = n.id => m = n

MarkedBelow ==
  /\ marked \subseteq Members \X Ids
  /\ \A u \in Members, i \in Ids : <<u, i>> \in marked =>
       \E m \in messages : m.id = i /\ m.at <= lastRead[u]

Told ==
  /\ notices = [i \in Ids |-> IF i \in {m.id : m \in messages} THEN 1 ELSE 0]
  /\ published \subseteq ({"message.created"} \X {m.id : m \in messages})
                            \cup ({"chat.read"} \X Members \X (Times \cup {0}))
  /\ \A u \in Members, t \in Times \cup {0} :
       <<"chat.read", u, t>> \in published => t <= lastRead[u]

WalkKeeps ==
  /\ walk.before \subseteq {m.id : m \in messages}
  /\ walk.pc = "idle" => walk.cursor = <<>>
  /\ walk.pc # "done" =>
       \A i \in Ids : walk.got[i] > 0 =>
         \E m \in messages : m.id = i /\ ~Below(m, walk.cursor)
  /\ walk.pc # "done" =>
       \A m \in messages : m.id \in walk.before /\ ~Below(m, walk.cursor) =>
         walk.got[m.id] = 1

ChatInv ==
  /\ TypeOK /\ walk \in Walk /\ IsFiniteSet(messages)
  /\ \A p \in Requests : Held(tx[p])
  /\ Apart /\ OneId /\ SentOnce /\ MarkedBelow /\ Told
  /\ WalkKeeps /\ WalkIsComplete

-----------------------------------------------------------------------------
(* What the parts of the invariant say of a step.                          *)

LEMMA IdleFacts ==
  /\ Idle \in Transaction /\ Idle.pc = "idle" /\ Idle.new = {} /\ Held(Idle)
  /\ Finished \in Transaction /\ Finished.pc = "done" /\ Finished.new = {} /\ Held(Finished)
<1>1. /\ Idle \in Transaction /\ Idle.pc = "idle" /\ Idle.new = {} /\ Idle.answer = None
  BY DEF Idle, Transaction, PCs
<1>2. /\ Finished \in Transaction /\ Finished.pc = "done" /\ Finished.new = {}
      /\ Finished.answer = None
  BY DEF Finished, Idle, Transaction, PCs
<1> QED
  BY <1>1, <1>2 DEF Held

LEMMA ChatTypes ==
  ASSUME ChatInv
  PROVE  /\ tx \in [Requests -> Transaction] /\ messages \subseteq Row
         /\ lastRead \in [Members -> Times \cup {0}] /\ clock \in Times
         /\ \A p \in Requests : tx[p] \in Transaction /\ Held(tx[p])
         /\ IsFiniteSet(messages)
BY DEF ChatInv, TypeOK

\* What a request has said stays true when others commit messages of their
\* own and cursors move on.
LEMMA HeldStays ==
  ASSUME NEW r \in Transaction, Held(r), messages \subseteq messages',
         lastRead \in [Members -> Times \cup {0}], lastRead' \in [Members -> Times \cup {0}],
         \A u \in Members : lastRead[u] <= lastRead'[u],
         \A m \in messages' \ messages, n \in r.new :
           m.id # n.id /\ (m.sender # n.sender \/ m.client # n.client)
  PROVE  Held(r)'
<1>1. Stands(r) => Stands(r)'
  BY DEF Stands, Stored
<1>2. ASSUME r.pc = "commit", r.new = {NewMessage(r, r.answer)}, Stored(r) = {},
             \A m \in messages : m.id # r.answer
      PROVE  /\ Stored(r)' = {} /\ \A m \in messages' : m.id # r.answer
  <2>1. PICK n : n = NewMessage(r, r.answer)
    OBVIOUS
  <2>2. n.id = r.answer /\ n.sender = r.user /\ n.client = r.client /\ n \in r.new
    BY <1>2, <2>1 DEF NewMessage
  <2> QED
    BY <1>2, <2>2 DEF Stored
<1>3. r.pc = "announce" => r.at <= lastRead'[r.user]
  BY DEF Held, Transaction, Times
<1> QED
  BY <1>1, <1>2, <1>3 DEF Held, NewMessage

LEMMA WalkStays ==
  ASSUME ChatInv, walk' = walk, messages \subseteq messages', OneId'
  PROVE  WalkKeeps' /\ WalkIsComplete' /\ walk' \in Walk
<1>1. /\ walk.before \subseteq {m.id : m \in messages'}
      /\ walk.pc = "idle" => walk.cursor = <<>>
  BY DEF ChatInv, WalkKeeps
<1>2. walk.pc # "done" =>
       \A i \in Ids : walk.got[i] > 0 =>
         \E m \in messages' : m.id = i /\ ~Below(m, walk.cursor)
  BY DEF ChatInv, WalkKeeps
<1>3. walk.pc # "done" =>
       \A m \in messages' : m.id \in walk.before /\ ~Below(m, walk.cursor) =>
         walk.got[m.id] = 1
  <2> SUFFICES ASSUME walk.pc # "done", NEW m \in messages', m.id \in walk.before,
                      ~Below(m, walk.cursor)
               PROVE walk.got[m.id] = 1
    OBVIOUS
  <2>1. PICK n \in messages : n.id = m.id
    BY DEF ChatInv, WalkKeeps
  <2>2. n = m
    BY <2>1 DEF OneId
  <2> QED
    BY <2>1, <2>2 DEF ChatInv, WalkKeeps
<1>4. WalkKeeps'
  BY <1>1, <1>2, <1>3 DEF WalkKeeps, Below
<1> QED
  BY <1>4 DEF ChatInv, WalkIsComplete, Walk

\* A request goes on, and the tables stay as they are.
LEMMA StepKeeps ==
  ASSUME ChatInv, NEW p \in Requests, NEW r \in Transaction, Step(p, r), Held(r),
         \A q \in Requests \ {p} : \A m \in r.new, n \in tx[q].new :
           m.id # n.id /\ (m.sender # n.sender \/ m.client # n.client)
  PROVE  ChatInv'
<1>1. /\ tx' \in [Requests -> Transaction] /\ tx'[p] = r
      /\ \A q \in Requests \ {p} : tx'[q] = tx[q]
  BY ChatTypes DEF Step, Set
<1>2. UNCHANGED <<status, messages, notices, lastRead, marked, published, clock, walk>>
  BY DEF Step, db
<1>3. TypeOK'
  BY <1>1, <1>2 DEF ChatInv, TypeOK
<1>4. \A q \in Requests : Held(tx[q])'
  <2> SUFFICES ASSUME NEW q \in Requests PROVE Held(tx[q])'
    OBVIOUS
  <2>1. PICK o \in Transaction : o = tx'[q] /\ Held(o)
    <3>1. CASE q = p
      BY <1>1, <3>1
    <3>2. CASE q # p
      BY <1>1, <3>2, ChatTypes
    <3> QED
      BY <3>1, <3>2
  <2>2. Held(o)'
    BY <1>2, <2>1 DEF Held, Stands, Stored
  <2> QED
    BY <2>1, <2>2 DEF Held, Stands, Stored, NewMessage
<1>5. Apart'
  BY <1>1 DEF ChatInv, Apart
<1>6. OneId' /\ SentOnce' /\ MarkedBelow' /\ Told' /\ IsFiniteSet(messages')
  BY <1>2 DEF ChatInv, OneId, SentOnce, MarkedBelow, Told
<1>7. WalkKeeps' /\ WalkIsComplete' /\ walk' \in Walk
  BY <1>2, <1>6, WalkStays
<1> QED
  BY <1>3, <1>4, <1>5, <1>6, <1>7 DEF ChatInv

-----------------------------------------------------------------------------
(* Sending.                                                                *)

LEMMA ChatInit == Init => ChatInv
<1> SUFFICES ASSUME Init PROVE ChatInv
  OBVIOUS
<1>1. /\ tx \in [Requests -> Transaction] /\ \A p \in Requests : tx[p].new = {} /\ Held(tx[p])
  BY IdleFacts DEF Init
<1>2. messages = Earlier /\ messages \subseteq Row /\ IsFiniteSet(messages)
  BY EarlierAssumption DEF Init
<1>3. 1 \in Times
  BY MaxTimeAssumption DEF Times
<1>4. /\ walk \in Walk /\ walk.pc = "idle" /\ walk.cursor = <<>> /\ walk.before = {}
      /\ walk.got = [i \in Ids |-> 0]
  BY DEF Init, Walk
<1>5. TypeOK
  <2>1. notices \in [Ids -> Nat] /\ lastRead \in [Members -> Times \cup {0}]
    BY DEF Init
  <2>2. /\ walk.pc \in {"idle", "check", "page", "refused", "done"}
        /\ walk.cursor \in {<<>>} \cup (Times \X Ids)
        /\ walk.before \subseteq Ids /\ walk.got \in [Ids -> Nat]
    BY <1>4
  <2> QED
    BY <1>1, <1>2, <1>3, <2>1, <2>2 DEF Init, TypeOK
<1>6. Apart
  BY <1>1 DEF Apart
<1>7. OneId /\ SentOnce
  BY <1>2, EarlierAssumption DEF OneId, SentOnce
<1>8. MarkedBelow /\ Told
  BY <1>2 DEF Init, MarkedBelow, Told
<1>9. WalkKeeps /\ WalkIsComplete
  BY <1>4 DEF WalkKeeps, WalkIsComplete
<1> QED
  BY <1>1, <1>2, <1>4, <1>5, <1>6, <1>7, <1>8, <1>9 DEF ChatInv

LEMMA BeginSendKeeps ==
  ASSUME ChatInv, NEW p \in Requests, NEW s \in Sends, BeginSend(p, s[1], s[2], s[3])
  PROVE  ChatInv'
<1>1. s[1] \in Members /\ s[2] \in ClientIds /\ s[3] \in Contents
  BY SendsAssumption
<1>2. PICK r : r = [Idle EXCEPT !.pc = "check", !.user = s[1], !.client = s[2],
                                !.content = s[3], !.at = clock]
  OBVIOUS
<1>3. /\ r \in Transaction /\ r.pc = "check" /\ r.user = s[1] /\ r.client = s[2]
      /\ r.content = s[3] /\ r.at = clock /\ r.new = {} /\ r.answer = None
  BY <1>1, <1>2, ChatTypes DEF Idle, Transaction, PCs
<1>4. Held(r)
  BY <1>1, <1>3, ChatTypes DEF Held
<1> QED
  BY <1>2, <1>3, <1>4, StepKeeps DEF BeginSend

LEMMA CheckActiveKeeps ==
  ASSUME ChatInv, NEW p \in Requests, CheckActive(p)
  PROVE  ChatInv'
<1>1. PICK r : r = [tx[p] EXCEPT !.pc = "insert"]
  OBVIOUS
<1>2. /\ r \in Transaction /\ r.pc = "insert" /\ r.user = tx[p].user
      /\ r.client = tx[p].client /\ r.content = tx[p].content /\ r.at = tx[p].at
      /\ r.new = tx[p].new /\ r.answer = tx[p].answer /\ tx[p].pc = "check"
  BY <1>1, ChatTypes DEF Transaction, PCs, CheckActive
<1>3. Held(r) /\ r.new = {}
  <2>1. Held(tx[p])
    BY ChatTypes
  <2> QED
    BY <1>2, <2>1 DEF Held
<1> QED
  BY <1>1, <1>2, <1>3, StepKeeps DEF CheckActive

LEMMA EndKeeps ==
  ASSUME ChatInv, NEW p \in Requests, End(p)
  PROVE  ChatInv'
BY IdleFacts, StepKeeps DEF End

LEMMA InsertKeeps ==
  ASSUME ChatInv, NEW p \in Requests, Insert(p)
  PROVE  ChatInv'
<1>1. /\ tx[p] \in Transaction /\ tx[p].pc = "insert" /\ tx[p].new = {}
      /\ tx[p].user \in Members /\ tx[p].client \in ClientIds
      /\ tx[p].content \in Contents /\ tx[p].at \in Times
  <2>1. Held(tx[p]) /\ tx[p].pc = "insert"
    BY ChatTypes DEF Insert
  <2> QED
    BY <2>1, ChatTypes DEF Held
<1>2. CASE Stored(tx[p]) # {}
  <2>1. PICK r : r = [tx[p] EXCEPT !.pc = "load"]
    OBVIOUS
  <2>2. /\ r \in Transaction /\ r.pc = "load" /\ r.user = tx[p].user
        /\ r.client = tx[p].client /\ r.content = tx[p].content /\ r.at = tx[p].at
        /\ r.new = {}
    BY <1>1, <2>1 DEF Transaction, PCs
  <2>3. Held(r)
    BY <1>1, <2>2 DEF Held
  <2>4. Step(p, r)
    BY <1>2, <2>1 DEF Insert
  <2> QED
    BY <2>2, <2>3, <2>4, StepKeeps
<1>3. CASE Stored(tx[p]) = {}
  <2>1. PICK i \in FreshIds :
          Step(p, [tx[p] EXCEPT !.pc = "commit", !.answer = i,
                                    !.new = {NewMessage(tx[p], i)}])
    BY <1>3 DEF Insert
  <2>2. PICK n : n = NewMessage(tx[p], i)
    OBVIOUS
  <2>3. /\ i \in Ids /\ \A m \in messages : m.id # i
        /\ \A q \in Requests : \A m \in tx[q].new : m.id # i
    BY <2>1 DEF FreshIds
  <2>4. /\ n \in Row /\ n.id = i /\ n.sender = tx[p].user /\ n.client = tx[p].client
    BY <1>1, <2>2, <2>3 DEF NewMessage, Row
  <2>5. PICK r : r = [tx[p] EXCEPT !.pc = "commit", !.answer = i, !.new = {n}]
    OBVIOUS
  <2>6. /\ r \in Transaction /\ r.pc = "commit" /\ r.user = tx[p].user
        /\ r.client = tx[p].client /\ r.content = tx[p].content /\ r.at = tx[p].at
        /\ r.new = {n} /\ r.answer = i
    BY <1>1, <2>3, <2>4, <2>5 DEF Transaction, PCs
  <2>7. NewMessage(r, r.answer) = n
    BY <2>2, <2>6 DEF NewMessage
  <2>8. Stored(r) = {}
    BY <1>3, <2>6 DEF Stored
  <2>9. Held(r)
    BY <1>1, <2>3, <2>6, <2>7, <2>8 DEF Held
  <2>10. Step(p, r)
    BY <2>1, <2>2, <2>5
  <2>11. \A q \in Requests \ {p} : \A m \in r.new, o \in tx[q].new :
           m.id # o.id /\ (m.sender # o.sender \/ m.client # o.client)
    <3> SUFFICES ASSUME NEW q \in Requests \ {p}, NEW o \in tx[q].new
                 PROVE n.id # o.id /\ (n.sender # o.sender \/ n.client # o.client)
      BY <2>6
    <3>1. tx[q].pc = "commit"
      <4>1. Held(tx[q])
        BY ChatTypes
      <4> QED
        BY <4>1 DEF Held
    <3>2. <<o.sender, o.client>> # <<tx[p].user, tx[p].client>>
      BY <3>1 DEF Insert, KeyFree
    <3> QED
      BY <2>3, <2>4, <3>2
  <2> QED
    BY <2>6, <2>9, <2>10, <2>11, StepKeeps
<1> QED
  BY <1>2, <1>3

LEMMA LoadKeeps ==
  ASSUME ChatInv, NEW p \in Requests, Load(p)
  PROVE  ChatInv'
<1>1. PICK m \in Stored(tx[p]) :
         IF m.content = tx[p].content
           THEN Step(p, [tx[p] EXCEPT !.pc = "commit", !.answer = m.id])
           ELSE End(p)
  BY DEF Load
<1>2. CASE m.content # tx[p].content
  BY <1>1, <1>2, EndKeeps
<1>3. CASE m.content = tx[p].content
  <2>1. PICK r : r = [tx[p] EXCEPT !.pc = "commit", !.answer = m.id]
    OBVIOUS
  <2>2. m \in messages /\ m.id \in Ids
    BY ChatTypes DEF Stored, Row
  <2>3. /\ r \in Transaction /\ r.pc = "commit" /\ r.user = tx[p].user
        /\ r.client = tx[p].client /\ r.content = tx[p].content /\ r.at = tx[p].at
        /\ r.new = tx[p].new /\ r.answer = m.id
    BY <2>1, <2>2, ChatTypes DEF Transaction, PCs
  <2>4. Stands(r)
    BY <1>3, <2>3 DEF Stands, Stored
  <2>5. Held(r) /\ r.new = {}
    <3>1. Held(tx[p]) /\ tx[p].pc = "load"
      BY ChatTypes DEF Load
    <3> QED
      BY <2>2, <2>3, <2>4, <3>1 DEF Held
  <2>6. Step(p, r)
    BY <1>1, <1>3, <2>1
  <2> QED
    BY <2>3, <2>5, <2>6, StepKeeps
<1> QED
  BY <1>2, <1>3

LEMMA TablesStay ==
  ASSUME ChatInv, UNCHANGED <<messages, notices, lastRead>>
  PROVE  /\ messages' \subseteq Row /\ IsFiniteSet(messages')
         /\ notices' \in [Ids -> Nat] /\ lastRead' \in [Members -> Times \cup {0}]
         /\ \A u \in Members : lastRead[u] <= lastRead'[u]
<1>1. \A u \in Members : lastRead[u] \in Nat
  BY ChatTypes DEF Times
<1>2. \A u \in Members : lastRead[u] <= lastRead'[u]
  BY <1>1
<1> QED
  BY <1>2 DEF ChatInv, TypeOK

\* A request changes the tables and holds nothing uncommitted afterwards.
LEMMA TablesKeep ==
  ASSUME ChatInv, NEW p \in Requests, NEW r \in Transaction, Set(p, r), r.new = {}, Held(r)',
         UNCHANGED <<status, clock, walk>>,
         messages \subseteq messages', messages' \subseteq Row, IsFiniteSet(messages'),
         notices' \in [Ids -> Nat],
         lastRead' \in [Members -> Times \cup {0}],
         \A u \in Members : lastRead[u] <= lastRead'[u],
         \A q \in Requests \ {p} : \A m \in messages' \ messages, n \in tx[q].new :
           m.id # n.id /\ (m.sender # n.sender \/ m.client # n.client),
         OneId', SentOnce', MarkedBelow', Told'
  PROVE  ChatInv'
<1>1. /\ tx' \in [Requests -> Transaction] /\ tx'[p] = r
      /\ \A q \in Requests \ {p} : tx'[q] = tx[q]
  BY ChatTypes DEF Set
<1>2. TypeOK'
  BY <1>1 DEF ChatInv, TypeOK, MarkedBelow
<1>3. \A q \in Requests : Held(tx[q])'
  <2> SUFFICES ASSUME NEW q \in Requests PROVE Held(tx[q])'
    OBVIOUS
  <2>1. CASE q = p
    BY <1>1, <2>1 DEF Held, Stands, Stored, NewMessage
  <2>2. CASE q # p
    <3>1. PICK o \in Transaction : o = tx[q] /\ o = tx'[q] /\ Held(o)
      BY <1>1, <2>2, ChatTypes
    <3>2. \A m \in messages' \ messages, n \in o.new :
            m.id # n.id /\ (m.sender # n.sender \/ m.client # n.client)
      BY <2>2, <3>1
    <3>3. Held(o)'
      BY <3>1, <3>2, ChatTypes, HeldStays
    <3> QED
      BY <3>1, <3>3 DEF Held, Stands, Stored, NewMessage
  <2> QED
    BY <2>1, <2>2
<1>4. Apart'
  BY <1>1 DEF ChatInv, Apart
<1>5. WalkKeeps' /\ WalkIsComplete' /\ walk' \in Walk
  BY WalkStays
<1> QED
  BY <1>2, <1>3, <1>4, <1>5 DEF ChatInv

LEMMA AnsweredFacts ==
  ASSUME NEW r \in Transaction
  PROVE  LET a == Answered(r)
             b == [Answered(r) EXCEPT !.pc = "publish"] IN
         /\ a \in Transaction /\ b \in Transaction /\ a.pc = "done" /\ b.pc = "publish"
         /\ a.new = {} /\ b.new = {} /\ a.answer = r.answer /\ b.answer = r.answer
         /\ a.user = r.user /\ b.user = r.user /\ a.client = r.client /\ b.client = r.client
         /\ a.content = r.content /\ b.content = r.content
<1>1. PICK a : a = Answered(r)
  OBVIOUS
<1>2. /\ a \in Transaction /\ a.pc = "done" /\ a.new = {} /\ a.answer = r.answer
      /\ a.user = r.user /\ a.client = r.client /\ a.content = r.content
  BY <1>1 DEF Answered, Transaction, PCs
<1>3. PICK b : b = [a EXCEPT !.pc = "publish"]
  OBVIOUS
<1>4. /\ b \in Transaction /\ b.pc = "publish" /\ b.new = {} /\ b.answer = r.answer
      /\ b.user = r.user /\ b.client = r.client /\ b.content = r.content
  BY <1>2, <1>3 DEF Transaction, PCs
<1> QED
  BY <1>1, <1>2, <1>3, <1>4

LEMMA CommitKeeps ==
  ASSUME ChatInv, NEW p \in Requests, Commit(p)
  PROVE  ChatInv'
<1>1. PICK r \in Transaction : r = tx[p] /\ Held(r) /\ r.pc = "commit"
  BY ChatTypes DEF Commit
<1>2. /\ messages' = messages \cup r.new
      /\ notices' = [i \in Ids |-> IF i \in {m.id : m \in r.new}
                                     THEN notices[i] + 1 ELSE notices[i]]
      /\ UNCHANGED <<status, lastRead, marked, published, clock, walk>>
  BY <1>1 DEF Commit
<1>3. \A u \in Members : lastRead[u] <= lastRead'[u]
  BY <1>2, ChatTypes DEF Times
<1>4. CASE r.new = {}
  <2>1. PICK a \in Transaction :
          /\ Set(p, a) /\ a.pc = "done" /\ a.new = {} /\ a.answer = r.answer
          /\ a.user = r.user /\ a.client = r.client /\ a.content = r.content
    BY <1>1, <1>4, AnsweredFacts DEF Commit
  <2>2. messages' = messages
    BY <1>2, <1>4
  <2>3. Held(a)'
    BY <1>1, <1>4, <2>1, <2>2 DEF Held, Stands, Stored, NewMessage
  <2>4. notices' = notices
    BY <1>2, <1>4 DEF ChatInv, Told
  <2>5. OneId' /\ SentOnce' /\ MarkedBelow' /\ Told'
    BY <1>2, <2>2, <2>4 DEF ChatInv, OneId, SentOnce, MarkedBelow, Told
  <2>6. notices' \in [Ids -> Nat] /\ messages' \subseteq Row /\ IsFiniteSet(messages')
    BY <2>2, <2>4 DEF ChatInv, TypeOK
  <2> QED
    BY <1>2, <1>3, <2>1, <2>2, <2>3, <2>5, <2>6, ChatTypes, TablesKeep
<1>5. CASE r.new # {}
  <2>1. PICK n : n = NewMessage(r, r.answer)
    OBVIOUS
  <2>2. r.new = {n} /\ Stored(r) = {} /\ r.answer \in Ids /\ \A m \in messages : m.id # n.id
    BY <1>1, <1>5, <2>1 DEF Held, NewMessage
  <2>3. /\ n.id = r.answer /\ n.sender = r.user /\ n.client = r.client
        /\ n.content = r.content /\ n \in Row
    BY <1>1, <2>1, <2>2 DEF NewMessage, Row, Held
  <2>4. messages' = messages \cup {n}
    BY <1>2, <2>2
  <2>5. \A m \in messages : m.sender # n.sender \/ m.client # n.client
    BY <2>2, <2>3 DEF Stored
  <2>6. PICK b \in Transaction :
          /\ Set(p, b) /\ b.pc = "publish" /\ b.new = {} /\ b.answer = r.answer
          /\ b.user = r.user /\ b.client = r.client /\ b.content = r.content
    BY ZenonT(60), <1>1, <1>5, AnsweredFacts DEF Commit
  <2>7. Stands(b)'
    BY <2>3, <2>4, <2>6 DEF Stands, Stored
  <2>8. Held(b)'
    BY <2>2, <2>6, <2>7, ChatNoneAssumption DEF Held
  <2>9. messages' \subseteq Row /\ IsFiniteSet(messages')
    BY <2>3, <2>4, ChatTypes, FS_AddElement
  <2>10. OneId' /\ SentOnce'
    BY <2>2, <2>4, <2>5 DEF ChatInv, OneId, SentOnce
  <2>11. MarkedBelow'
    BY <1>2, <2>4 DEF ChatInv, MarkedBelow
  <2>12. notices' = [i \in Ids |-> IF i \in {m.id : m \in messages'} THEN 1 ELSE 0]
    <3>1. notices' = [i \in Ids |-> IF i = n.id THEN notices[i] + 1 ELSE notices[i]]
      BY <1>2, <2>2
    <3>2. notices = [i \in Ids |-> IF i \in {m.id : m \in messages} THEN 1 ELSE 0]
      BY DEF ChatInv, Told
    <3>3. \A i \in Ids : notices'[i] = IF i \in {m.id : m \in messages'} THEN 1 ELSE 0
      BY <2>2, <2>4, <3>1, <3>2
    <3> QED
      BY <3>1, <3>3
  <2>13. Told'
    BY <1>2, <2>4, <2>12 DEF ChatInv, Told
  <2>14. notices' \in [Ids -> Nat]
    BY <2>12
  <2>15. \A q \in Requests \ {p} : \A m \in messages' \ messages, o \in tx[q].new :
           m.id # o.id /\ (m.sender # o.sender \/ m.client # o.client)
    BY <1>1, <2>2, <2>4 DEF ChatInv, Apart
  <2>16. messages \subseteq messages' /\ lastRead' \in [Members -> Times \cup {0}]
    BY <1>2, ChatTypes
  <2> QED
    BY <1>2, <1>3, <2>6, <2>8, <2>9, <2>10, <2>11, <2>13, <2>14, <2>15, <2>16, TablesKeep
<1> QED
  BY <1>4, <1>5

LEMMA PublishKeeps ==
  ASSUME ChatInv, NEW p \in Requests, Publish(p)
  PROVE  ChatInv'
<1>1. PICK r \in Transaction : r = tx[p] /\ Held(r) /\ r.pc = "publish"
  BY ChatTypes DEF Publish
<1>2. UNCHANGED <<status, messages, notices, lastRead, marked, clock, walk>>
  BY DEF Publish, db
<1>3. PICK o : o = [r EXCEPT !.pc = "done"]
  OBVIOUS
<1>4. /\ o \in Transaction /\ o.pc = "done" /\ o.new = {} /\ o.answer = r.answer
      /\ o.user = r.user /\ o.client = r.client /\ o.content = r.content
  BY <1>1, <1>3 DEF Transaction, PCs, Held
<1>5. Stands(r) /\ r.answer \in {m.id : m \in messages}
  BY <1>1 DEF Held, Stands, Stored
<1>6. Held(o)'
  BY <1>2, <1>4, <1>5 DEF Held, Stands, Stored
<1>7. OneId' /\ SentOnce' /\ MarkedBelow'
  BY <1>2 DEF ChatInv, OneId, SentOnce, MarkedBelow
<1>8. Told'
  <2>1. published' = published \cup {<<"message.created", r.answer>>}
    BY <1>1 DEF Publish
  <2>2. published' \subseteq ({"message.created"} \X {m.id : m \in messages})
                            \cup ({"chat.read"} \X Members \X (Times \cup {0}))
    BY <1>5, <2>1 DEF ChatInv, Told
  <2>3. \A u \in Members, t \in Times \cup {0} :
          <<"chat.read", u, t>> \in published' => t <= lastRead[u]
    BY <2>1 DEF ChatInv, Told
  <2> QED
    BY <1>2, <2>2, <2>3 DEF ChatInv, Told
<1>9. /\ Set(p, o) /\ messages' \subseteq Row /\ IsFiniteSet(messages')
      /\ notices' \in [Ids -> Nat] /\ lastRead' \in [Members -> Times \cup {0}]
      /\ \A u \in Members : lastRead[u] <= lastRead'[u]
  BY <1>1, <1>2, <1>3, TablesStay DEF Publish
<1> QED
  BY <1>2, <1>4, <1>6, <1>7, <1>8, <1>9, TablesKeep

-----------------------------------------------------------------------------
(* Reading.                                                                *)

LEMMA BeginMarkKeeps ==
  ASSUME ChatInv, NEW p \in Requests, NEW u \in Readers, NEW i \in Ids, BeginMark(p, u, i)
  PROVE  ChatInv'
<1>1. PICK r : r = [Idle EXCEPT !.pc = "markCheck", !.user = u, !.target = i]
  OBVIOUS
<1>2. /\ r \in Transaction /\ r.pc = "markCheck" /\ r.user = u /\ r.new = {}
      /\ r.answer = None
  BY <1>1, ReadersAssumption DEF Idle, Transaction, PCs
<1>3. Held(r)
  BY <1>2, ReadersAssumption DEF Held
<1> QED
  BY <1>1, <1>2, <1>3, StepKeeps DEF BeginMark

LEMMA CheckMemberKeeps ==
  ASSUME ChatInv, NEW p \in Requests, CheckMember(p)
  PROVE  ChatInv'
<1>1. PICK r : r = [tx[p] EXCEPT !.pc = "mark"]
  OBVIOUS
<1>2. /\ r \in Transaction /\ r.pc = "mark" /\ r.user = tx[p].user
      /\ r.new = tx[p].new /\ r.answer = tx[p].answer /\ tx[p].pc = "markCheck"
  BY <1>1, ChatTypes DEF Transaction, PCs, CheckMember
<1>3. Held(r) /\ r.new = {}
  <2>1. Held(tx[p])
    BY ChatTypes
  <2> QED
    BY <1>2, <2>1 DEF Held
<1> QED
  BY <1>1, <1>2, <1>3, StepKeeps DEF CheckMember

LEMMA MarkKeeps ==
  ASSUME ChatInv, NEW p \in Requests, Mark(p)
  PROVE  ChatInv'
<1>1. PICK r \in Transaction : r = tx[p] /\ Held(r) /\ r.pc = "mark"
  BY ChatTypes DEF Mark
<1>2. PICK u \in Members : u = r.user
  BY <1>1 DEF Held
<1>3. PICK m \in messages :
       /\ m.id = r.target
       /\ lastRead' = [lastRead EXCEPT ![u] = Later(@, m.at)]
       /\ marked' = marked \cup {<<u, m.id>>}
       /\ Set(p, [r EXCEPT !.pc = "announce", !.at = Later(lastRead[u], m.at)])
  BY <1>1, <1>2 DEF Mark
<1>4. UNCHANGED <<status, messages, notices, published, clock, walk>>
  BY DEF Mark
<1>5. m.at \in Times /\ m.id \in Ids
  BY ChatTypes DEF Row
<1>6. PICK t : t = Later(lastRead[u], m.at)
  OBVIOUS
<1>7. t \in Times \cup {0} /\ lastRead[u] <= t /\ m.at <= t
  BY <1>5, <1>6, ChatTypes, MaxTimeAssumption DEF Later, Times
<1>8. PICK o : o = [r EXCEPT !.pc = "announce", !.at = t]
  OBVIOUS
<1>9. /\ o \in Transaction /\ o.pc = "announce" /\ o.new = {} /\ o.user = u /\ o.at = t
  BY <1>1, <1>2, <1>7, <1>8 DEF Transaction, PCs, Held
<1>10. /\ lastRead' \in [Members -> Times \cup {0}] /\ lastRead'[u] = t
       /\ \A v \in Members : lastRead[v] <= lastRead'[v]
  <2>1. lastRead' = [lastRead EXCEPT ![u] = t]
    BY <1>3, <1>6
  <2>2. \A v \in Members : lastRead[v] \in Nat
    BY ChatTypes DEF Times
  <2> QED
    BY <1>7, <2>1, <2>2, ChatTypes
<1>11. Held(o)'
  BY <1>7, <1>9, <1>10 DEF Held, Times
<1>12. OneId' /\ SentOnce'
  BY <1>4 DEF ChatInv, OneId, SentOnce
<1>13. \A v \in Members, s \in Times \cup {0} : s <= lastRead[v] => s <= lastRead'[v]
  BY <1>10, ChatTypes DEF Times
<1>14. MarkedBelow'
  <2> SUFFICES ASSUME NEW v \in Members, NEW i \in Ids, <<v, i>> \in marked'
               PROVE \E n \in messages : n.id = i /\ n.at <= lastRead'[v]
    BY <1>2, <1>3, <1>4, <1>5 DEF ChatInv, MarkedBelow
  <2>1. CASE <<v, i>> \in marked
    <3>1. PICK n \in messages : n.id = i /\ n.at <= lastRead[v]
      BY <2>1 DEF ChatInv, MarkedBelow
    <3>2. n.at \in Times \cup {0}
      BY ChatTypes DEF Row
    <3> QED
      BY <1>13, <3>1, <3>2
  <2>2. CASE v = u /\ i = m.id
    BY <1>7, <1>10, <2>2
  <2> QED
    BY <1>3, <2>1, <2>2
<1>15. Told'
  BY <1>4, <1>13 DEF ChatInv, Told
<1>16. /\ Set(p, o) /\ messages' \subseteq Row /\ IsFiniteSet(messages')
       /\ notices' \in [Ids -> Nat]
  BY <1>3, <1>4, <1>6, <1>8 DEF ChatInv, TypeOK
<1> QED
  BY <1>4, <1>9, <1>10, <1>11, <1>12, <1>14, <1>15, <1>16, TablesKeep

LEMMA AnnounceKeeps ==
  ASSUME ChatInv, NEW p \in Requests, Announce(p)
  PROVE  ChatInv'
<1>1. PICK r \in Transaction : r = tx[p] /\ Held(r) /\ r.pc = "announce"
  BY ChatTypes DEF Announce
<1>2. UNCHANGED <<status, messages, notices, lastRead, marked, clock, walk>>
  BY DEF Announce, db
<1>3. r.user \in Members /\ r.at \in Times \cup {0} /\ r.at <= lastRead[r.user]
  BY <1>1 DEF Held, Transaction
<1>4. Held(Finished)'
  BY IdleFacts DEF Finished, Idle, Held
<1>5. OneId' /\ SentOnce' /\ MarkedBelow'
  BY <1>2 DEF ChatInv, OneId, SentOnce, MarkedBelow
<1>6. Told'
  <2>1. published' = published \cup {<<"chat.read", r.user, r.at>>}
    BY <1>1 DEF Announce
  <2>2. published' \subseteq ({"message.created"} \X {m.id : m \in messages})
                            \cup ({"chat.read"} \X Members \X (Times \cup {0}))
    BY <1>3, <2>1 DEF ChatInv, Told
  <2>3. \A u \in Members, t \in Times \cup {0} :
          <<"chat.read", u, t>> \in published' => t <= lastRead[u]
    BY <1>3, <2>1 DEF ChatInv, Told
  <2> QED
    BY <1>2, <2>2, <2>3 DEF ChatInv, Told
<1>7. Set(p, Finished) /\ Finished \in Transaction /\ Finished.new = {}
  BY IdleFacts DEF Announce
<1> QED
  BY <1>2, <1>4, <1>5, <1>6, <1>7, TablesStay, TablesKeep

-----------------------------------------------------------------------------
(* The pages of a chat.                                                    *)

LEMMA BeforeIsAnOrder ==
  ASSUME NEW m \in Row, NEW n \in Row, NEW o \in Row
  PROVE  /\ ~Before(m, m)
         /\ Before(m, n) /\ Before(n, o) => Before(m, o)
         /\ Before(m, n) => ~Before(n, m)
         /\ Before(n, o) /\ ~Before(n, m) => Before(m, o)
<1>1. /\ m.at \in Nat /\ m.id \in Nat /\ n.at \in Nat /\ n.id \in Nat
      /\ o.at \in Nat /\ o.id \in Nat
  <2>1. Times \subseteq Nat /\ Ids \subseteq Nat
    BY IdsAssumption, MaxTimeAssumption DEF Times
  <2>2. /\ m.at \in Times /\ m.id \in Ids /\ n.at \in Times /\ n.id \in Ids
        /\ o.at \in Times /\ o.id \in Ids
    BY DEF Row
  <2> QED
    BY <2>1, <2>2
<1> QED
  BY <1>1 DEF Before

\* Among finite sets one has no other that is a part of it.
LEMMA LeastSet ==
  ASSUME NEW S, IsFiniteSet(S), NEW C \in SUBSET (SUBSET S), C # {}
  PROVE  \E T \in C : \A U \in C : U \subseteq T => U = T
<1>1. IsWellFoundedOn(StrictSubsetOrdering(S), FiniteSubsetsOf(S))
  BY FS_StrictSubsetOrderingWellFounded
<1>2. C \subseteq FiniteSubsetsOf(S)
  BY FS_FiniteSubsetsOfFinite
<1>3. PICK T \in C : \A U \in C : <<U, T>> \notin StrictSubsetOrdering(S)
  BY <1>1, <1>2, WFMin
<1> QED
  BY <1>3 DEF StrictSubsetOrdering

Ahead(S, m) == {n \in S : Before(n, m)}
Behind(S, m) == {n \in S : Before(m, n)}

\* A set of messages has a first and a last one in the order of the pages.
LEMMA FirstAndLast ==
  ASSUME NEW S \in SUBSET Row, IsFiniteSet(S), S # {}
  PROVE  /\ \E m \in S : Ahead(S, m) = {}
         /\ \E m \in S : Behind(S, m) = {}
<1>1. \E m \in S : Ahead(S, m) = {}
  <2>1. PICK C : C = {Ahead(S, m) : m \in S}
    OBVIOUS
  <2>2. PICK T \in C : \A U \in C : U \subseteq T => U = T
    <3>1. C \in SUBSET (SUBSET S) /\ C # {}
      BY <2>1 DEF Ahead
    <3> QED
      BY <3>1, LeastSet
  <2>3. PICK m \in S : T = Ahead(S, m)
    BY <2>1
  <2>4. ASSUME NEW n \in Ahead(S, m) PROVE FALSE
    <3>1. n \in S /\ Before(n, m)
      BY <2>4 DEF Ahead
    <3>2. Ahead(S, n) \subseteq T /\ n \notin Ahead(S, n) /\ n \in T
      BY <2>3, <3>1, BeforeIsAnOrder DEF Ahead
    <3> QED
      BY <2>1, <2>2, <3>1, <3>2
  <2> QED
    BY <2>4
<1>2. \E m \in S : Behind(S, m) = {}
  <2>1. PICK C : C = {Behind(S, m) : m \in S}
    OBVIOUS
  <2>2. PICK T \in C : \A U \in C : U \subseteq T => U = T
    <3>1. C \in SUBSET (SUBSET S) /\ C # {}
      BY <2>1 DEF Behind
    <3> QED
      BY <3>1, LeastSet
  <2>3. PICK m \in S : T = Behind(S, m)
    BY <2>1
  <2>4. ASSUME NEW n \in Behind(S, m) PROVE FALSE
    <3>1. n \in S /\ Before(m, n)
      BY <2>4 DEF Behind
    <3>2. Behind(S, n) \subseteq T /\ n \notin Behind(S, n) /\ n \in T
      BY <2>3, <3>1, BeforeIsAnOrder DEF Behind
    <3> QED
      BY <2>1, <2>2, <3>1, <3>2
  <2> QED
    BY <2>4
<1> QED
  BY <1>1, <1>2

BelowOf(c) == {m \in messages : Below(m, c)}

\* A page is not empty while there is something below the cursor, and whatever
\* comes before one of its messages is on it.
LEMMA PageFacts ==
  ASSUME ChatInv, NEW c
  PROVE  /\ Page(c) \subseteq BelowOf(c)
         /\ BelowOf(c) # {} => Page(c) # {}
         /\ \A m \in Page(c), n \in BelowOf(c) : ~Before(m, n) => n \in Page(c)
<1>1. BelowOf(c) \in SUBSET Row /\ IsFiniteSet(BelowOf(c))
  BY ChatTypes, FS_Subset DEF BelowOf
<1>2. Page(c) = {m \in BelowOf(c) : Cardinality(Ahead(BelowOf(c), m)) < PageSize}
  BY DEF Page, BelowOf, Ahead
<1>3. BelowOf(c) # {} => Page(c) # {}
  <2> SUFFICES ASSUME BelowOf(c) # {} PROVE Page(c) # {}
    OBVIOUS
  <2>1. PICK m \in BelowOf(c) : Ahead(BelowOf(c), m) = {}
    BY <1>1, FirstAndLast
  <2>2. Cardinality(Ahead(BelowOf(c), m)) < PageSize
    BY <2>1, FS_EmptySet, PageSizeAssumption
  <2> QED
    BY <1>2, <2>2
<1>4. ASSUME NEW m \in Page(c), NEW n \in BelowOf(c), ~Before(m, n)
      PROVE  n \in Page(c)
  <2>1. m \in BelowOf(c) /\ Cardinality(Ahead(BelowOf(c), m)) < PageSize
    BY <1>2
  <2>2. Ahead(BelowOf(c), n) \subseteq Ahead(BelowOf(c), m)
    <3> SUFFICES ASSUME NEW o \in BelowOf(c), Before(o, n), ~Before(o, m) PROVE FALSE
      BY DEF Ahead
    <3> QED
      BY <1>1, <1>4, <2>1, BeforeIsAnOrder
  <2>3. IsFiniteSet(Ahead(BelowOf(c), m))
    BY <1>1, FS_Subset DEF Ahead
  <2>4. /\ Cardinality(Ahead(BelowOf(c), n)) <= Cardinality(Ahead(BelowOf(c), m))
        /\ Cardinality(Ahead(BelowOf(c), m)) \in Nat
        /\ Cardinality(Ahead(BelowOf(c), n)) \in Nat
    BY <2>2, <2>3, FS_Subset, FS_CardinalityType
  <2>5. Cardinality(Ahead(BelowOf(c), n)) < PageSize
    BY <2>1, <2>4, PageSizeAssumption
  <2> QED
    BY <1>2, <2>5
<1> QED
  BY <1>2, <1>3, <1>4

\* What is below a message's cursor comes after that message, and below every
\* cursor the message itself is below of.
LEMMA CursorFacts ==
  ASSUME NEW m \in Row, NEW n \in Row, NEW c \in {<<>>} \cup (Times \X Ids)
  PROVE  /\ Cursor(m) \in Times \X Ids
         /\ Below(n, Cursor(m)) <=> Before(m, n)
         /\ Below(m, c) /\ Before(m, n) => Below(n, c)
<1>1. /\ m.at \in Times /\ m.id \in Ids /\ n.at \in Times /\ n.id \in Ids
      /\ Times \subseteq Nat /\ Ids \subseteq Nat
  BY IdsAssumption, MaxTimeAssumption DEF Row, Times
<1>2. PICK d : d = Cursor(m)
  OBVIOUS
<1>3. d \in Times \X Ids /\ d # <<>> /\ d[1] = m.at /\ d[2] = m.id
  BY <1>1, <1>2 DEF Cursor
<1>4. Below(n, d) <=> Before(m, n)
  BY <1>1, <1>3 DEF Below, Before
<1>5. ASSUME Below(m, c), Before(m, n) PROVE Below(n, c)
  <2>1. CASE c = <<>>
    BY <2>1 DEF Below
  <2>2. CASE c # <<>>
    <3>1. c[1] \in Nat /\ c[2] \in Nat
      BY <1>1, <2>2
    <3>2. m.at < c[1] \/ (m.at = c[1] /\ m.id < c[2])
      BY <1>5, <2>2 DEF Below
    <3>3. m.at > n.at \/ (m.at = n.at /\ m.id > n.id)
      BY <1>5 DEF Before
    <3>4. /\ m.at \in Nat /\ m.id \in Nat /\ n.at \in Nat /\ n.id \in Nat
      BY <1>1
    <3>5. n.at < c[1] \/ (n.at = c[1] /\ n.id < c[2])
      BY <3>1, <3>2, <3>3, <3>4
    <3> QED
      BY <3>5 DEF Below
  <2> QED
    BY <2>1, <2>2
<1> QED
  BY <1>2, <1>3, <1>4, <1>5

\* The tables stay as they are, and the clock, the match or the walk moves.
LEMMA OthersKeep ==
  ASSUME ChatInv, UNCHANGED <<messages, notices, lastRead, marked, published, tx>>,
         status' \in {"active", "blocked"}, clock' \in Times,
         walk' \in Walk, WalkKeeps', WalkIsComplete'
  PROVE  ChatInv'
<1>1. TypeOK'
  <2>1. /\ walk'.pc \in {"idle", "check", "page", "refused", "done"}
        /\ walk'.cursor \in {<<>>} \cup (Times \X Ids)
        /\ walk'.before \subseteq Ids /\ walk'.got \in [Ids -> Nat]
    BY DEF Walk
  <2> QED
    BY <2>1 DEF ChatInv, TypeOK
<1>2. \A q \in Requests : Held(tx[q])'
  BY DEF ChatInv, Held, Stands, Stored, NewMessage
<1>3. Apart' /\ OneId' /\ SentOnce' /\ MarkedBelow' /\ Told' /\ IsFiniteSet(messages')
  BY DEF ChatInv, Apart, OneId, SentOnce, MarkedBelow, Told
<1> QED
  BY <1>1, <1>2, <1>3 DEF ChatInv

LEMMA BeginWalkKeeps ==
  ASSUME ChatInv, BeginWalk
  PROVE  ChatInv'
<1>1. PICK w \in Walk : w = walk /\ w.pc = "idle"
  BY DEF ChatInv, BeginWalk
<1>2. PICK B : B = {m.id : m \in messages}
  OBVIOUS
<1>3. PICK v : v = [w EXCEPT !.pc = "check", !.before = B]
  OBVIOUS
<1>4. B \subseteq Ids
  BY <1>2, ChatTypes DEF Row
<1>5. /\ v \in Walk /\ v.pc = "check" /\ v.cursor = w.cursor /\ v.before = B
      /\ v.got = w.got
  BY <1>1, <1>3, <1>4 DEF Walk
<1>6. walk' = v /\ UNCHANGED <<db, published, clock, tx>>
  BY <1>1, <1>2, <1>3 DEF BeginWalk
<1>7. w.cursor = <<>> /\ \A m \in messages : Below(m, w.cursor)
  BY <1>1 DEF ChatInv, WalkKeeps, Below
<1>8. messages' = messages
  BY <1>6 DEF db
<1>9. \A i \in Ids : ~(v.got[i] > 0)
  BY <1>1, <1>5, <1>7 DEF ChatInv, WalkKeeps
<1>10. WalkKeeps'
  BY <1>2, <1>5, <1>6, <1>7, <1>8, <1>9 DEF WalkKeeps, Below
<1>11. WalkIsComplete'
  BY <1>1, <1>5, <1>6 DEF ChatInv, WalkIsComplete
<1>12. status' \in {"active", "blocked"} /\ clock' \in Times
  BY <1>6 DEF ChatInv, TypeOK, db
<1> QED
  BY <1>5, <1>6, <1>10, <1>11, <1>12, OthersKeep DEF db

LEMMA WalkCheckKeeps ==
  ASSUME ChatInv, WalkCheck
  PROVE  ChatInv'
<1>1. PICK w \in Walk : w = walk /\ w.pc = "check"
  BY DEF ChatInv, WalkCheck
<1>2. PICK s \in {"refused", "page"} : walk' = [w EXCEPT !.pc = s]
  BY <1>1 DEF WalkCheck
<1>3. PICK v : v = [w EXCEPT !.pc = s]
  OBVIOUS
<1>4. /\ v \in Walk /\ v.pc \in {"refused", "page"} /\ v.cursor = w.cursor
      /\ v.before = w.before /\ v.got = w.got
  BY <1>1, <1>3 DEF Walk
<1>5. walk' = v /\ UNCHANGED <<db, published, clock, tx>>
  BY <1>2, <1>3 DEF WalkCheck
<1>6. messages' = messages
  BY <1>5 DEF db
<1>7. WalkKeeps'
  BY <1>1, <1>4, <1>5, <1>6 DEF ChatInv, WalkKeeps, Below
<1>8. WalkIsComplete'
  BY <1>1, <1>4, <1>5 DEF ChatInv, WalkIsComplete
<1>9. status' \in {"active", "blocked"} /\ clock' \in Times
  BY <1>5 DEF ChatInv, TypeOK, db
<1> QED
  BY <1>4, <1>5, <1>7, <1>8, <1>9, OthersKeep DEF db

\* Nothing on a page has been read before: what has been is not below the
\* cursor, and has an id of its own.
LEMMA PageIsNew ==
  ASSUME ChatInv, walk.pc = "page", NEW m \in Page(walk.cursor)
  PROVE  m \in messages /\ m.id \in Ids /\ walk.got[m.id] = 0
<1>1. m \in messages /\ Below(m, walk.cursor)
  BY DEF Page
<1>2. m.id \in Ids
  BY <1>1, ChatTypes DEF Row
<1>3. walk.got[m.id] \in Nat
  BY <1>2 DEF ChatInv, TypeOK
<1>4. ~(walk.got[m.id] > 0)
  <2> SUFFICES ASSUME walk.got[m.id] > 0 PROVE FALSE
    OBVIOUS
  <2>1. PICK n \in messages : n.id = m.id /\ ~Below(n, walk.cursor)
    BY <1>2 DEF ChatInv, WalkKeeps
  <2>2. n = m
    BY <1>1, <2>1 DEF ChatInv, OneId
  <2> QED
    BY <1>1, <2>1, <2>2
<1> QED
  BY <1>1, <1>2, <1>3, <1>4

LEMMA ReadPageKeeps ==
  ASSUME ChatInv, ReadPage
  PROVE  ChatInv'
<1>1. PICK w \in Walk : w = walk /\ w.pc = "page"
  BY DEF ChatInv, ReadPage
<1>2. PICK page : page = Page(w.cursor)
  OBVIOUS
<1>3. PICK got : got = [i \in Ids |-> IF i \in {m.id : m \in page}
                                        THEN w.got[i] + 1 ELSE w.got[i]]
  OBVIOUS
<1>4. /\ \A m \in page : m \in messages /\ m.id \in Ids /\ w.got[m.id] = 0
      /\ page \subseteq Row /\ IsFiniteSet(page)
  <2>1. \A m \in page : m \in messages /\ m.id \in Ids /\ w.got[m.id] = 0
    BY <1>1, <1>2, PageIsNew
  <2> QED
    BY <2>1, ChatTypes, FS_Subset
<1>5. /\ got \in [Ids -> Nat]
      /\ \A m \in page : got[m.id] = 1
      /\ \A i \in Ids : i \notin {m.id : m \in page} => got[i] = w.got[i]
      /\ \A i \in Ids : got[i] <= 1
  <2>1. w.got \in [Ids -> Nat] /\ \A i \in Ids : w.got[i] <= 1
    BY <1>1 DEF ChatInv, WalkIsComplete, Walk
  <2>2. \A m \in page : got[m.id] = 1
    BY <1>3, <1>4
  <2>3. \A i \in Ids : i \notin {m.id : m \in page} => got[i] = w.got[i]
    BY <1>3
  <2>4. \A i \in Ids : got[i] \in Nat /\ got[i] <= 1
    BY <2>1, <2>2, <2>3
  <2> QED
    BY <1>3, <2>2, <2>3, <2>4
<1>6. w.before \subseteq {m.id : m \in messages} /\ w.before \subseteq Ids
  BY <1>1 DEF ChatInv, WalkKeeps, Walk
<1>7. messages' = messages /\ UNCHANGED <<db, published, clock, tx>>
  BY DEF ReadPage, db
<1>8. status' \in {"active", "blocked"} /\ clock' \in Times
  BY <1>7 DEF ChatInv, TypeOK, db
\* What was there at the first page and is not below the old cursor, or is on
\* this page, has been read now.
<1>9. \A m \in messages : m.id \in w.before /\ (m \in page \/ ~Below(m, w.cursor))
                            => got[m.id] = 1
  <2> SUFFICES ASSUME NEW m \in messages, m.id \in w.before, ~Below(m, w.cursor),
                      m.id \notin {n.id : n \in page}
               PROVE  got[m.id] = 1
    BY <1>5
  <2>1. w.got[m.id] = 1
    BY <1>1 DEF ChatInv, WalkKeeps
  <2> QED
    BY <1>5, <1>6, <2>1
<1>10. CASE \E m \in messages \ page : Below(m, w.cursor)
  <2>1. PICK last : last = CHOOSE m \in page : \A n \in page : ~Before(m, n)
    OBVIOUS
  <2>2. page \subseteq BelowOf(w.cursor) /\ page # {}
    BY <1>2, <1>10, PageFacts DEF BelowOf
  <2>3. last \in page /\ \A n \in page : ~Before(last, n)
    <3>1. \E m \in page : Behind(page, m) = {}
      BY <1>4, <2>2, FirstAndLast
    <3>2. \E m \in page : \A n \in page : ~Before(m, n)
      BY <3>1 DEF Behind
    <3> QED
      BY <2>1, <3>2
  <2>4. last \in Row /\ Below(last, w.cursor)
    BY <1>4, <2>2, <2>3 DEF BelowOf
  <2>5. PICK d : d = Cursor(last)
    OBVIOUS
  <2>6. /\ d \in Times \X Ids
        /\ \A m \in messages : Below(m, d) => Below(m, w.cursor)
        /\ \A m \in page : ~Below(m, d)
        /\ \A m \in messages : Below(m, w.cursor) /\ ~Below(m, d) => m \in page
    <3>1. messages \subseteq Row /\ w.cursor \in {<<>>} \cup (Times \X Ids)
      BY ChatTypes DEF Walk
    <3>2. /\ d \in Times \X Ids
          /\ \A m \in messages : Below(m, d) <=> Before(last, m)
          /\ \A m \in messages : Before(last, m) => Below(m, w.cursor)
      BY <2>4, <2>5, <3>1, CursorFacts
    <3>3. \A m \in messages : Below(m, w.cursor) /\ ~Before(last, m) => m \in page
      BY <1>2, <2>3, PageFacts DEF BelowOf
    <3> QED
      BY <1>4, <2>3, <3>2, <3>3
  <2>7. PICK v : v = [w EXCEPT !.pc = "check", !.cursor = d, !.got = got]
    OBVIOUS
  <2>8. /\ v \in Walk /\ v.pc = "check" /\ v.cursor = d /\ v.before = w.before
        /\ v.got = got
    BY <1>5, <2>6, <2>7 DEF Walk
  <2>9. walk' = v
    BY <1>1, <1>2, <1>3, <1>10, <2>1, <2>5, <2>7 DEF ReadPage
  <2>10. \A i \in Ids : got[i] > 0 =>
           \E m \in messages : m.id = i /\ ~Below(m, d)
    <3> SUFFICES ASSUME NEW i \in Ids, got[i] > 0
                 PROVE  \E m \in messages : m.id = i /\ ~Below(m, d)
      OBVIOUS
    <3>1. CASE i \in {m.id : m \in page}
      BY <1>4, <2>6, <3>1
    <3>2. CASE i \notin {m.id : m \in page}
      <4>1. w.got[i] > 0
        BY <1>5, <3>2
      <4>2. PICK m \in messages : m.id = i /\ ~Below(m, w.cursor)
        BY <1>1, <4>1 DEF ChatInv, WalkKeeps
      <4> QED
        BY <2>6, <4>2
    <3> QED
      BY <3>1, <3>2
  <2>11. \A m \in messages : m.id \in w.before /\ ~Below(m, d) => got[m.id] = 1
    BY <1>9, <2>6
  <2>12. WalkKeeps'
    BY <1>6, <1>7, <2>8, <2>9, <2>10, <2>11 DEF WalkKeeps, Below
  <2>13. WalkIsComplete'
    BY <1>5, <2>8, <2>9 DEF WalkIsComplete
  <2> QED
    BY <1>7, <1>8, <2>8, <2>9, <2>12, <2>13, OthersKeep DEF db
<1>11. CASE ~\E m \in messages \ page : Below(m, w.cursor)
  <2>1. PICK v : v = [w EXCEPT !.pc = "done", !.cursor = w.cursor, !.got = got]
    OBVIOUS
  <2>2. /\ v \in Walk /\ v.pc = "done" /\ v.cursor = w.cursor /\ v.before = w.before
        /\ v.got = got
    BY <1>5, <2>1 DEF Walk
  <2>3. walk' = v
    BY <1>1, <1>2, <1>3, <1>11, <2>1 DEF ReadPage
  <2>4. WalkKeeps'
    BY <1>6, <1>7, <2>2, <2>3 DEF WalkKeeps
  <2>5. \A i \in w.before : got[i] = 1
    BY <1>6, <1>9, <1>11
  <2>6. WalkIsComplete'
    BY <1>5, <2>2, <2>3, <2>5 DEF WalkIsComplete
  <2> QED
    BY <1>7, <1>8, <2>2, <2>3, <2>4, <2>6, OthersKeep DEF db
<1> QED
  BY <1>10, <1>11

-----------------------------------------------------------------------------
(* The theorems.                                                           *)

LEMMA ChatNext == ChatInv /\ [Next]_vars => ChatInv'
<1> SUFFICES ASSUME ChatInv, [Next]_vars PROVE ChatInv'
  OBVIOUS
<1>1. ASSUME NEW p \in Requests, NEW s \in Sends, BeginSend(p, s[1], s[2], s[3])
      PROVE  ChatInv'
  BY <1>1, BeginSendKeeps
<1>2. ASSUME NEW p \in Requests, NEW u \in Readers, NEW i \in Ids, BeginMark(p, u, i)
      PROVE  ChatInv'
  BY <1>2, BeginMarkKeeps
<1>3. ASSUME NEW p \in Requests, SendStep(p) PROVE ChatInv'
  BY <1>3, CheckActiveKeeps, InsertKeeps, LoadKeeps, CommitKeeps, PublishKeeps
     DEF SendStep
<1>4. ASSUME NEW p \in Requests, MarkStep(p) PROVE ChatInv'
  BY <1>4, CheckMemberKeeps, MarkKeeps, AnnounceKeeps DEF MarkStep
<1>5. ASSUME NEW p \in Requests, Refuse(p) \/ Fail(p) PROVE ChatInv'
  BY <1>5, EndKeeps DEF Refuse, Fail
<1>6. CASE BeginWalk \/ WalkCheck \/ ReadPage
  BY <1>6, BeginWalkKeeps, WalkCheckKeeps, ReadPageKeeps
<1>7. /\ walk \in Walk /\ WalkKeeps /\ WalkIsComplete
      /\ status \in {"active", "blocked"} /\ clock \in Times
  BY DEF ChatInv, TypeOK
<1>8. ASSUME UNCHANGED <<messages, walk>>
      PROVE  walk' \in Walk /\ WalkKeeps' /\ WalkIsComplete'
  BY <1>7, <1>8 DEF WalkKeeps, WalkIsComplete, Below
<1>9. CASE Block
  <2>1. /\ UNCHANGED <<messages, notices, lastRead, marked, published, tx, walk>>
        /\ status' \in {"active", "blocked"} /\ clock' \in Times
    BY <1>7, <1>9 DEF Block
  <2> QED
    BY <1>8, <2>1, OthersKeep
<1>10. CASE Tick
  <2>1. /\ UNCHANGED <<messages, notices, lastRead, marked, published, tx, walk>>
        /\ status' = status /\ clock' = clock + 1 /\ clock < MaxTime
    BY <1>10 DEF Tick, db
  <2>2. clock' \in Times
    BY <1>7, <2>1, MaxTimeAssumption DEF Times
  <2> QED
    BY <1>7, <1>8, <2>1, <2>2, OthersKeep
<1>11. CASE UNCHANGED vars
  <2>1. UNCHANGED <<status, messages, notices, lastRead, marked, published, clock, tx,
                    walk>>
    BY <1>11 DEF vars, db
  <2> QED
    BY <1>7, <1>8, <2>1, OthersKeep
<1> QED
  BY <1>1, <1>2, <1>3, <1>4, <1>5, <1>6, <1>9, <1>10, <1>11 DEF Next

LEMMA InvariantOfChat == Spec => []ChatInv
BY ChatInit, ChatNext, PTL DEF Spec

\* Every variable has its type in every reachable state of a chat.
THEOREM ChatTypesHold == Spec => []TypeOK
<1>1. ChatInv => TypeOK
  BY DEF ChatInv
<1> QED
  BY <1>1, InvariantOfChat, PTL

\* However many requests send the same client id at once, fail or are sent
\* again, one message is stored for it: the insert waits for an open insert of
\* its key and sees what has been committed.
THEOREM MessagesAreSentOnce == Spec => []SentOnce
<1>1. ChatInv => SentOnce
  BY DEF ChatInv
<1> QED
  BY <1>1, InvariantOfChat, PTL

\* The other member is notified of a message once, since only the transaction
\* that inserts it notifies and no two insert it; and the hub is told of
\* committed messages and of read cursors that still stand.
THEOREM MembersAreToldOnce == Spec => []ToldOnce
<1>1. ChatInv => ToldOnce
  <2> SUFFICES ASSUME ChatInv PROVE ToldOnce
    OBVIOUS
  <2>1. ASSUME NEW i \in Ids
        PROVE  notices[i] = Cardinality({m \in messages : m.id = i})
    <3>1. notices[i] = IF i \in {m.id : m \in messages} THEN 1 ELSE 0
      BY DEF ChatInv, Told
    <3>2. CASE i \in {m.id : m \in messages}
      <4>1. PICK m \in messages : m.id = i
        BY <3>2
      <4>2. {n \in messages : n.id = i} = {m}
        BY <4>1 DEF ChatInv, OneId
      <4>3. Cardinality({m}) = 1
        BY FS_Singleton
      <4> QED
        BY <3>1, <3>2, <4>2, <4>3
    <3>3. CASE i \notin {m.id : m \in messages}
      <4>1. {n \in messages : n.id = i} = {}
        BY <3>3
      <4> QED
        BY <3>1, <3>3, <4>1, FS_EmptySet
    <3> QED
      BY <3>2, <3>3
  <2>2. ASSUME NEW e \in published
        PROVE  IF e[1] = "message.created"
                 THEN \E m \in messages : m.id = e[2]
                 ELSE e[3] <= lastRead[e[2]]
    <3>1. CASE e \in {"message.created"} \X {m.id : m \in messages}
      BY <3>1
    <3>2. CASE e \in {"chat.read"} \X Members \X (Times \cup {0})
      <4>1. PICK u \in Members, t \in Times \cup {0} : e = <<"chat.read", u, t>>
        BY <3>2
      <4> QED
        BY <2>2, <4>1 DEF ChatInv, Told
    <3> QED
      BY <2>2, <3>1, <3>2 DEF ChatInv, Told
  <2> QED
    BY <2>1, <2>2 DEF ToldOnce
<1> QED
  BY <1>1, InvariantOfChat, PTL

\* What a send was answered with is in the chat, with the content it sent,
\* whether the send inserted it or found it.
THEOREM SendsAreAnsweredTruly == Spec => []AnswersStand
<1>1. ChatInv => AnswersStand
  <2> SUFFICES ASSUME ChatInv, NEW p \in Requests, tx[p].pc = "done", tx[p].answer # None
               PROVE  \E m \in Stored(tx[p]) :
                         m.id = tx[p].answer /\ m.content = tx[p].content
    BY DEF AnswersStand
  <2>1. Held(tx[p])
    BY ChatTypes
  <2> QED
    BY <2>1 DEF Held, Stands
<1> QED
  BY <1>1, InvariantOfChat, PTL

\* Reading moves forward: no interleaving of two devices' marks brings a marked
\* message back to the unread ones.
THEOREM ReadMessagesStayRead == Spec => []ReadStaysRead
<1>1. ChatInv => ReadStaysRead
  <2> SUFFICES ASSUME ChatInv, NEW u \in Members, NEW m \in messages,
                      m.at > lastRead[u], <<u, m.id>> \in marked
               PROVE  FALSE
    BY DEF ReadStaysRead, Unread
  <2>1. m.id \in Ids /\ m.at \in Nat
    <3>1. m \in Row
      BY ChatTypes
    <3> QED
      BY <3>1 DEF Row, Times
  <2>2. PICK n \in messages : n.id = m.id /\ n.at <= lastRead[u]
    BY <2>1 DEF ChatInv, MarkedBelow
  <2>3. n = m
    BY <2>2 DEF ChatInv, OneId
  <2>4. lastRead[u] \in Nat
    BY ChatTypes DEF Times
  <2> QED
    BY <2>1, <2>2, <2>3, <2>4
<1> QED
  BY <1>1, InvariantOfChat, PTL

\* A client that follows next_cursor to the end of a chat has received each
\* message that was there at its first page once, for every page size and
\* whatever is sent meanwhile with equal or earlier times.
THEOREM WalksAreComplete == Spec => []WalkIsComplete
<1>1. ChatInv => WalkIsComplete
  BY DEF ChatInv
<1> QED
  BY <1>1, InvariantOfChat, PTL

-----------------------------------------------------------------------------
(* Chat implements Mailbox.  A send is accepted at its check, and posted,  *)
(* answered or given up where its transaction ends; MarkRead reads at its  *)
(* UPDATE; every other step of a request leaves the mailbox alone.         *)

\* The refinement mapping of Box.
Accepted == [p \in Requests |-> DraftOf(tx[p])]
Answers == [p \in Requests |-> AnswerOf(tx[p])]
box == <<status = "active", Accepted, Answers, messages, notices, lastRead, published>>

LEMMA BoxInit == Init => Box!Init
<1> SUFFICES ASSUME Init PROVE Box!Init
  OBVIOUS
<1>1. \A p \in Requests : DraftOf(tx[p]) = None /\ AnswerOf(tx[p]) = None
  BY DEF Init, Idle, DraftOf, AnswerOf
<1>2. \A i \in Ids : i \in {m.id : m \in Earlier} <=> \E m \in Earlier : m.id = i
  OBVIOUS
<1>3. notices = [i \in Ids |-> IF \E m \in Earlier : m.id = i THEN 1 ELSE 0]
  BY <1>2 DEF Init
<1> QED
  BY <1>1, <1>3 DEF Init, Box!Init

\* What a step of p makes of the sends under way.
LEMMA Mapped ==
  ASSUME ChatInv, NEW p \in Requests, NEW r, Set(p, r)
  PROVE  /\ Accepted' = [Accepted EXCEPT ![p] = DraftOf(r)]
         /\ Answers' = [Answers EXCEPT ![p] = AnswerOf(r)]
         /\ DraftOf(r) = DraftOf(tx[p]) => Accepted' = Accepted
         /\ AnswerOf(r) = AnswerOf(tx[p]) => Answers' = Answers
<1>1. tx' = [tx EXCEPT ![p] = r] /\ tx \in [Requests -> Transaction]
  BY ChatTypes DEF Set
<1>2. tx'[p] = r /\ \A q \in Requests \ {p} : tx'[q] = tx[q]
  BY <1>1
<1>3. /\ Accepted' = [q \in Requests |-> DraftOf(tx'[q])]
      /\ Answers' = [q \in Requests |-> AnswerOf(tx'[q])]
  BY DEF Accepted, Answers, DraftOf, AnswerOf
<1>4. Accepted' = [Accepted EXCEPT ![p] = DraftOf(r)]
  BY <1>2, <1>3 DEF Accepted
<1>5. Answers' = [Answers EXCEPT ![p] = AnswerOf(r)]
  BY <1>2, <1>3 DEF Answers
<1>6. DraftOf(r) = DraftOf(tx[p]) => Accepted' = Accepted
  BY <1>4 DEF Accepted
<1>7. AnswerOf(r) = AnswerOf(tx[p]) => Answers' = Answers
  BY <1>5 DEF Answers
<1> QED
  BY <1>4, <1>5, <1>6, <1>7

\* A request that goes on with the same send, or with none, leaves the box
\* alone.
LEMMA GoesOn ==
  ASSUME ChatInv, NEW p \in Requests, NEW r, Step(p, r),
         DraftOf(r) = DraftOf(tx[p]), AnswerOf(r) = AnswerOf(tx[p])
  PROVE  UNCHANGED box
<1>1. Set(p, r) /\ UNCHANGED <<status, messages, notices, lastRead, published>>
  BY DEF Step, db
<1>2. Accepted' = Accepted /\ Answers' = Answers
  BY <1>1, Mapped
<1> QED
  BY <1>1, <1>2 DEF box

\* What the box holds of a send that inserts, loads or commits.
LEMMA Sending ==
  ASSUME ChatInv, NEW p \in Requests, tx[p].pc \in {"insert", "load", "commit"}
  PROVE  /\ Accepted[p] = [sender |-> tx[p].user, client |-> tx[p].client,
                           content |-> tx[p].content, at |-> tx[p].at]
         /\ Accepted[p] \in Drafts /\ Accepted[p] # None /\ Answers[p] = None
<1>1. Held(tx[p])
  BY ChatTypes
<1>2. /\ tx[p].user \in Members /\ tx[p].client \in ClientIds
      /\ tx[p].content \in Contents /\ tx[p].at \in Times
  BY <1>1 DEF Held
<1>3. Accepted[p] = [sender |-> tx[p].user, client |-> tx[p].client,
                     content |-> tx[p].content, at |-> tx[p].at]
  BY DEF Accepted, DraftOf
<1> QED
  BY <1>2, <1>3, DraftsAssumption DEF Drafts, Answers, AnswerOf

\* A request that ends without an answer gives its send up if it had one.
LEMMA EndGivesUp ==
  ASSUME ChatInv, NEW p \in Requests, End(p), tx[p].pc \notin {"publish", "done"}
  PROVE  [Box!Next]_box
<1>1. Step(p, Finished) /\ Set(p, Finished)
      /\ UNCHANGED <<status, messages, notices, lastRead, published>>
  BY DEF End, Step, db
<1>2. DraftOf(Finished) = None /\ AnswerOf(Finished) = None /\ AnswerOf(tx[p]) = None
  BY DEF DraftOf, AnswerOf, Finished, Idle
<1>3. CASE tx[p].pc \in {"insert", "load", "commit"}
  <2>1. Accepted[p] # None
    BY <1>3, Sending
  <2>2. Accepted' = [Accepted EXCEPT ![p] = None] /\ Answers' = Answers
    BY <1>1, <1>2, Mapped
  <2>3. Box!GiveUp(p)
    BY <1>1, <2>1, <2>2 DEF Box!GiveUp, Box!Ends, Accepted, Answers
  <2> QED
    BY <2>3 DEF Box!Next
<1>4. CASE tx[p].pc \notin {"insert", "load", "commit"}
  <2>1. DraftOf(tx[p]) = None
    BY <1>4 DEF DraftOf
  <2> QED
    BY <1>1, <1>2, <2>1, GoesOn
<1> QED
  BY <1>3, <1>4

\* The check that finds the match active accepts the send.
LEMMA CheckAccepts ==
  ASSUME ChatInv, NEW p \in Requests, CheckActive(p)
  PROVE  Box!Next
<1>1. tx[p] \in Transaction /\ Held(tx[p]) /\ tx[p].pc = "check" /\ status = "active"
  BY ChatTypes DEF CheckActive
<1>2. PICK r : r = [tx[p] EXCEPT !.pc = "insert"]
  OBVIOUS
<1>3. /\ r.pc = "insert" /\ r.user = tx[p].user /\ r.client = tx[p].client
      /\ r.content = tx[p].content /\ r.at = tx[p].at
  BY <1>1, <1>2 DEF Transaction
<1>4. DraftOf(r) \in Drafts /\ AnswerOf(r) = None
  BY <1>1, <1>3 DEF Held, DraftOf, AnswerOf, Drafts
<1>5. Set(p, r) /\ UNCHANGED <<status, messages, notices, lastRead, published>>
  BY <1>2 DEF CheckActive, Step, db
<1>6. DraftOf(tx[p]) = None /\ AnswerOf(tx[p]) = None
  BY <1>1 DEF DraftOf, AnswerOf
<1>7. Accepted' = [Accepted EXCEPT ![p] = DraftOf(r)] /\ Answers' = Answers
  BY <1>4, <1>5, <1>6, Mapped
<1>8. Accepted[p] = None /\ Answers[p] = None
  BY <1>6 DEF Accepted, Answers
<1>9. Box!Accept(p)
  BY <1>1, <1>4, <1>5, <1>7, <1>8 DEF Box!Accept, Accepted, Answers
<1> QED
  BY <1>9 DEF Box!Next

\* A commit posts the message it has inserted, or answers with the stored one.
LEMMA CommitAnswers ==
  ASSUME ChatInv, NEW p \in Requests, Commit(p)
  PROVE  Box!Next
<1>1. /\ tx[p] \in Transaction /\ Held(tx[p]) /\ tx[p].pc = "commit" /\ tx[p].answer \in Ids
      /\ \/ /\ tx[p].new = {NewMessage(tx[p], tx[p].answer)} /\ Stored(tx[p]) = {}
            /\ \A m \in messages : m.id # tx[p].answer
         \/ tx[p].new = {} /\ Stands(tx[p])
  BY ChatTypes DEF Commit, Held
<1>2. PICK i, d : i = tx[p].answer /\ d = Accepted[p]
  OBVIOUS
<1>3. /\ d.sender = tx[p].user /\ d.client = tx[p].client /\ d.content = tx[p].content
      /\ d.at = tx[p].at /\ d # None
  <2>1. tx[p].pc \in {"insert", "load", "commit"}
    BY <1>1
  <2>2. /\ d = [sender |-> tx[p].user, client |-> tx[p].client,
                content |-> tx[p].content, at |-> tx[p].at]
        /\ d # None
    BY <1>2, <2>1, Sending
  <2> QED
    BY <2>2
<1>4. PICK r : r = IF tx[p].new = {} THEN Answered(tx[p])
                                     ELSE [Answered(tx[p]) EXCEPT !.pc = "publish"]
  OBVIOUS
<1>5. r.pc \in {"publish", "done"} /\ r.answer = i
  BY <1>1, <1>2, <1>4 DEF Answered, Transaction
<1>6. /\ Set(p, r) /\ messages' = messages \cup tx[p].new
      /\ notices' = [j \in Ids |-> IF j \in {m.id : m \in tx[p].new}
                                     THEN notices[j] + 1 ELSE notices[j]]
      /\ UNCHANGED <<status, lastRead, published>>
  BY <1>4 DEF Commit
<1>7. /\ Accepted' = [Accepted EXCEPT ![p] = None]
      /\ Answers' = [Answers EXCEPT ![p] = i]
  <2>1. DraftOf(r) = None /\ AnswerOf(r) = i
    BY <1>5 DEF DraftOf, AnswerOf
  <2> QED
    BY <1>6, <2>1, Mapped
<1>8. Box!Ends(p)
  BY <1>2, <1>3, <1>7 DEF Box!Ends, Accepted
<1>9. notices \in [Ids -> Nat]
  BY DEF ChatInv, TypeOK
<1>10. CASE tx[p].new = {NewMessage(tx[p], i)} /\ Stored(tx[p]) = {}
            /\ \A m \in messages : m.id # i
  <2>1. NewMessage(tx[p], i) = [id |-> i, sender |-> d.sender, client |-> d.client,
                                content |-> d.content, at |-> d.at]
    BY <1>3 DEF NewMessage
  <2>2. \A m \in messages :
          m.id # i /\ <<m.sender, m.client>> # <<d.sender, d.client>>
    BY <1>3, <1>10 DEF Stored
  <2>3. {m.id : m \in tx[p].new} = {i}
    BY <1>10 DEF NewMessage
  <2>4. notices' = [notices EXCEPT ![i] = @ + 1]
    BY <1>1, <1>2, <1>6, <1>9, <2>3
  <2>5. messages' = messages \cup {[id |-> i, sender |-> d.sender, client |-> d.client,
                                    content |-> d.content, at |-> d.at]}
    BY <1>6, <1>10, <2>1
  <2>6. Box!Post(p, i)
    BY <1>2, <1>6, <1>7, <1>8, <2>2, <2>4, <2>5 DEF Box!Post, Accepted, Answers
  <2> QED
    BY <1>1, <1>2, <2>6 DEF Box!Next
<1>11. CASE tx[p].new = {} /\ Stands(tx[p])
  <2>1. PICK m \in messages : m.sender = d.sender /\ m.client = d.client
                              /\ m.content = d.content /\ m.id = i
    BY <1>2, <1>3, <1>11 DEF Stands, Stored
  <2>2. messages' = messages
    BY <1>6, <1>11
  <2>3. notices' = notices
    BY <1>6, <1>9, <1>11
  <2>4. Box!Repeat(p)
    BY <1>2, <1>6, <1>7, <1>8, <2>1, <2>2, <2>3 DEF Box!Repeat, Accepted, Answers
  <2> QED
    BY <2>4 DEF Box!Next
<1> QED
  BY <1>1, <1>2, <1>10, <1>11

\* message.created tells of a committed message.
LEMMA PublishTells ==
  ASSUME ChatInv, NEW p \in Requests, Publish(p)
  PROVE  Box!Next
<1>1. tx[p] \in Transaction /\ Held(tx[p]) /\ tx[p].pc = "publish"
  BY ChatTypes DEF Publish
<1>2. PICK i : i = tx[p].answer
  OBVIOUS
<1>3. i \in Ids /\ \E m \in messages : m.id = i
  <2>1. Stands(tx[p])
    BY <1>1 DEF Held
  <2> QED
    BY <1>2, <2>1, ChatTypes DEF Stands, Stored, Row
<1>4. PICK r : r = [tx[p] EXCEPT !.pc = "done"]
  OBVIOUS
<1>5. r.pc = "done" /\ r.answer = tx[p].answer
  BY <1>1, <1>4 DEF Transaction
<1>6. /\ Set(p, r) /\ UNCHANGED <<status, messages, notices, lastRead>>
      /\ published' = published \cup {<<"message.created", i>>}
  BY <1>2, <1>4 DEF Publish, db
<1>7. Accepted' = Accepted /\ Answers' = Answers
  <2>1. DraftOf(r) = DraftOf(tx[p]) /\ AnswerOf(r) = AnswerOf(tx[p])
    BY <1>1, <1>5 DEF DraftOf, AnswerOf
  <2> QED
    BY <1>6, <2>1, Mapped
<1>8. Box!TellMessage(i)
  BY <1>3, <1>6, <1>7 DEF Box!TellMessage, Accepted, Answers
<1> QED
  BY <1>3, <1>8 DEF Box!Next

\* The UPDATE of the cursor reads up to the marked message, or changes nothing
\* when the member has read further.
LEMMA MarkReads ==
  ASSUME ChatInv, NEW p \in Requests, Mark(p)
  PROVE  [Box!Next]_box
<1>1. tx[p] \in Transaction /\ Held(tx[p]) /\ tx[p].pc = "mark"
  BY ChatTypes DEF Mark
<1>2. PICK u : u = tx[p].user
  OBVIOUS
<1>3. u \in Members /\ lastRead \in [Members -> Times \cup {0}] /\ messages \subseteq Row
  BY <1>1, <1>2, ChatTypes DEF Held
<1>4. PICK m \in messages :
        /\ lastRead' = [lastRead EXCEPT ![u] = Later(@, m.at)]
        /\ Set(p, [tx[p] EXCEPT !.pc = "announce", !.at = Later(lastRead[u], m.at)])
  BY <1>2 DEF Mark
<1>5. UNCHANGED <<status, messages, notices, published>>
  BY DEF Mark
<1>6. PICK r : r = [tx[p] EXCEPT !.pc = "announce", !.at = Later(lastRead[u], m.at)]
  OBVIOUS
<1>7. Accepted' = Accepted /\ Answers' = Answers
  <2>1. r.pc = "announce"
    BY <1>1, <1>6 DEF Transaction
  <2>2. DraftOf(r) = DraftOf(tx[p]) /\ AnswerOf(r) = AnswerOf(tx[p])
    BY <1>1, <2>1 DEF DraftOf, AnswerOf
  <2> QED
    BY <1>4, <1>6, <2>2, Mapped
<1>8. m.at \in Nat /\ lastRead[u] \in Nat
  BY <1>3, <1>4 DEF Row, Times
<1>9. CASE m.at > lastRead[u]
  <2>1. lastRead' = [lastRead EXCEPT ![u] = m.at]
    BY <1>3, <1>4, <1>8, <1>9 DEF Later
  <2>2. Box!Read(u)
    BY <1>4, <1>5, <1>7, <1>9, <2>1 DEF Box!Read, Accepted, Answers
  <2> QED
    BY <1>3, <2>2 DEF Box!Next
<1>10. CASE ~(m.at > lastRead[u])
  <2>1. lastRead' = lastRead
    BY <1>3, <1>4, <1>8, <1>10 DEF Later
  <2> QED
    BY <1>5, <1>7, <2>1 DEF box
<1> QED
  BY <1>9, <1>10

\* chat.read tells of a cursor that stands.
LEMMA AnnounceTells ==
  ASSUME ChatInv, NEW p \in Requests, Announce(p)
  PROVE  Box!Next
<1>1. tx[p] \in Transaction /\ Held(tx[p]) /\ tx[p].pc = "announce"
  BY ChatTypes DEF Announce
<1>2. PICK u, t : u = tx[p].user /\ t = tx[p].at
  OBVIOUS
<1>3. u \in Members /\ t \in 0..lastRead[u]
  <2>1. u \in Members /\ t <= lastRead[u]
    BY <1>1, <1>2 DEF Held
  <2>2. t \in Nat /\ lastRead[u] \in Nat
    BY <1>1, <1>2, <2>1, ChatTypes DEF Transaction, Times
  <2> QED
    BY <2>1, <2>2
<1>4. /\ Set(p, Finished) /\ UNCHANGED <<status, messages, notices, lastRead>>
      /\ published' = published \cup {<<"chat.read", u, t>>}
  BY <1>2 DEF Announce, db
<1>5. Accepted' = Accepted /\ Answers' = Answers
  <2>1. DraftOf(Finished) = DraftOf(tx[p]) /\ AnswerOf(Finished) = AnswerOf(tx[p])
    BY <1>1 DEF DraftOf, AnswerOf, Finished, Idle
  <2> QED
    BY <1>4, <2>1, Mapped
<1>6. Box!TellRead(u)
  BY <1>3, <1>4, <1>5 DEF Box!TellRead, Accepted, Answers
<1> QED
  BY <1>3, <1>6 DEF Box!Next

\* The steps of a request that only it can see.
LEMMA SilentSteps ==
  ASSUME ChatInv, NEW p \in Requests,
         \/ \E s \in Sends : BeginSend(p, s[1], s[2], s[3])
         \/ \E u \in Readers, i \in Ids : BeginMark(p, u, i)
         \/ Insert(p) \/ CheckMember(p)
  PROVE  UNCHANGED box
<1>1. tx[p] \in Transaction
  BY ChatTypes
<1>2. ASSUME NEW s \in Sends, BeginSend(p, s[1], s[2], s[3]) PROVE UNCHANGED box
  <2>1. PICK r : r = [Idle EXCEPT !.pc = "check", !.user = s[1], !.client = s[2],
                                  !.content = s[3], !.at = clock]
    OBVIOUS
  <2>2. r.pc = "check" /\ tx[p].pc = "idle" /\ Step(p, r)
    BY <1>2, <2>1 DEF BeginSend, Idle
  <2>3. DraftOf(r) = DraftOf(tx[p]) /\ AnswerOf(r) = AnswerOf(tx[p])
    BY <2>2 DEF DraftOf, AnswerOf
  <2> QED
    BY <2>2, <2>3, GoesOn
<1>3. ASSUME NEW u \in Readers, NEW i \in Ids, BeginMark(p, u, i) PROVE UNCHANGED box
  <2>1. PICK r : r = [Idle EXCEPT !.pc = "markCheck", !.user = u, !.target = i]
    OBVIOUS
  <2>2. r.pc = "markCheck" /\ tx[p].pc = "idle" /\ Step(p, r)
    BY <1>3, <2>1 DEF BeginMark, Idle
  <2>3. DraftOf(r) = DraftOf(tx[p]) /\ AnswerOf(r) = AnswerOf(tx[p])
    BY <2>2 DEF DraftOf, AnswerOf
  <2> QED
    BY <2>2, <2>3, GoesOn
<1>4. CASE Insert(p)
  <2>1. PICK r : /\ Step(p, r)
                 /\ \/ r = [tx[p] EXCEPT !.pc = "load"]
                    \/ \E i \in FreshIds :
                         r = [tx[p] EXCEPT !.pc = "commit", !.answer = i,
                                           !.new = {NewMessage(tx[p], i)}]
    BY <1>4 DEF Insert
  <2>2. /\ tx[p].pc = "insert" /\ r.pc \in {"load", "commit"} /\ r.user = tx[p].user
        /\ r.client = tx[p].client /\ r.content = tx[p].content /\ r.at = tx[p].at
    BY <1>1, <1>4, <2>1 DEF Transaction, Insert
  <2>3. DraftOf(r) = DraftOf(tx[p]) /\ AnswerOf(r) = AnswerOf(tx[p])
    BY <2>2 DEF DraftOf, AnswerOf
  <2> QED
    BY <2>1, <2>3, GoesOn
<1>5. CASE CheckMember(p)
  <2>1. PICK r : r = [tx[p] EXCEPT !.pc = "mark"]
    OBVIOUS
  <2>2. r.pc = "mark" /\ tx[p].pc = "markCheck" /\ Step(p, r)
    BY <1>1, <1>5, <2>1 DEF CheckMember, Transaction
  <2>3. DraftOf(r) = DraftOf(tx[p]) /\ AnswerOf(r) = AnswerOf(tx[p])
    BY <2>2 DEF DraftOf, AnswerOf
  <2> QED
    BY <2>2, <2>3, GoesOn
<1> QED
  BY <1>2, <1>3, <1>4, <1>5

\* A send that meets its key goes on if the content is its own.
LEMMA LoadGoesOn ==
  ASSUME ChatInv, NEW p \in Requests, Load(p)
  PROVE  [Box!Next]_box
<1>1. PICK m \in Stored(tx[p]) :
         Step(p, [tx[p] EXCEPT !.pc = "commit", !.answer = m.id]) \/ End(p)
  BY DEF Load
<1>2. tx[p] \in Transaction /\ tx[p].pc = "load"
  BY ChatTypes DEF Load
<1>3. CASE End(p)
  BY <1>2, <1>3, EndGivesUp
<1>4. CASE Step(p, [tx[p] EXCEPT !.pc = "commit", !.answer = m.id])
  <2>1. PICK r : r = [tx[p] EXCEPT !.pc = "commit", !.answer = m.id]
    OBVIOUS
  <2>2. /\ r.pc = "commit" /\ r.user = tx[p].user
        /\ r.client = tx[p].client /\ r.content = tx[p].content /\ r.at = tx[p].at
    BY <1>2, <2>1 DEF Transaction
  <2>3. DraftOf(r) = DraftOf(tx[p]) /\ AnswerOf(r) = AnswerOf(tx[p])
    BY <1>2, <2>2 DEF DraftOf, AnswerOf
  <2> QED
    BY <1>4, <2>1, <2>3, GoesOn
<1> QED
  BY <1>1, <1>3, <1>4

LEMMA BoxNext == ChatInv /\ [Next]_vars => [Box!Next]_box
<1> SUFFICES ASSUME ChatInv, [Next]_vars PROVE [Box!Next]_box
  OBVIOUS
<1>1. ASSUME NEW p \in Requests, NEW s \in Sends, BeginSend(p, s[1], s[2], s[3])
      PROVE  UNCHANGED box
  BY <1>1, SilentSteps
<1>2. ASSUME NEW p \in Requests, NEW u \in Readers, NEW i \in Ids, BeginMark(p, u, i)
      PROVE  UNCHANGED box
  BY <1>2, SilentSteps
<1>3. ASSUME NEW p \in Requests, SendStep(p) PROVE [Box!Next]_box
  BY <1>3, CheckAccepts, SilentSteps, LoadGoesOn, CommitAnswers, PublishTells DEF SendStep
<1>4. ASSUME NEW p \in Requests, MarkStep(p) PROVE [Box!Next]_box
  BY <1>4, SilentSteps, MarkReads, AnnounceTells DEF MarkStep
<1>5. ASSUME NEW p \in Requests, Refuse(p) \/ Fail(p) PROVE [Box!Next]_box
  BY <1>5, EndGivesUp DEF Refuse, Fail
<1>6. CASE BeginWalk \/ WalkCheck \/ ReadPage \/ Tick \/ UNCHANGED vars
  <2>1. UNCHANGED <<status, messages, notices, lastRead, published, tx>>
    BY <1>6 DEF BeginWalk, WalkCheck, ReadPage, Tick, vars, db
  <2> QED
    BY <2>1 DEF box, Accepted, Answers
<1>7. CASE Block
  <2>1. /\ status = "active" /\ status' = "blocked"
        /\ UNCHANGED <<messages, notices, lastRead, published, tx>>
    BY <1>7 DEF Block
  <2>2. Accepted' = Accepted /\ Answers' = Answers
    BY <2>1 DEF Accepted, Answers
  <2>3. Box!Close
    BY <2>1, <2>2 DEF Box!Close, Accepted, Answers
  <2> QED
    BY <2>3 DEF Box!Next
<1> QED
  BY <1>1, <1>2, <1>3, <1>4, <1>5, <1>6, <1>7 DEF Next

\* To whoever reads the chat and hears its events, a send is accepted while the
\* match is active, once posted it is there with its one notice, and a repeat is
\* answered with it: Chat implements Mailbox (chat/service.go).
THEOREM ChatImplementsMailbox == Spec => ImplementsMailbox
<1>1. Spec => Box!Spec
  BY BoxInit, BoxNext, InvariantOfChat, PTL
  DEF Spec, Box!Spec, box, Accepted, Answers
<1> QED
  BY <1>1 DEF ImplementsMailbox

=============================================================================
