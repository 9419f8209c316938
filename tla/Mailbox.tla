------------------------------- MODULE Mailbox -------------------------------
(***************************************************************************)
(* What a chat of two members promises, with nothing of how the server     *)
(* does it.  A send that finds the chat open is accepted; it ends by being *)
(* posted, in one step with the other member's notice of it, by being      *)
(* answered with the very message an earlier attempt posted, or without an *)
(* answer.  A send accepted before the chat closes may still be posted     *)
(* after it; none is accepted then.  A member's read mark never goes back, *)
(* and what is told to the members is true from then on.                   *)
(* Chat implements this specification.                                     *)
(***************************************************************************)
EXTENDS Naturals

CONSTANTS
  Members, Ids,
  Requests,  \* the attempts to send
  Drafts,    \* a sender, a client's id, a content and a time: a message but its id
  Earlier,   \* the messages at the start
  None       \* the absent value

VARIABLES
  open,      \* nobody has blocked the other member
  accepted,  \* accepted[p]: what p is about to send, None if nothing
  answer,    \* answer[p]: the message p was answered with
  messages,
  notices,   \* notices[i]: how often the other member was notified of i
  lastRead,  \* lastRead[u]: the time up to which u has read
  told       \* the events the members' clients may get

Accept(p) ==
  /\ open /\ accepted[p] = None /\ answer[p] = None
  /\ UNCHANGED <<open, answer, messages, notices, lastRead, told>>
  /\ \E d \in Drafts : accepted' = [accepted EXCEPT ![p] = d]

Ends(p) == accepted[p] # None /\ accepted' = [accepted EXCEPT ![p] = None]

Post(p, i) ==
  LET d == accepted[p] IN
  /\ Ends(p)
  /\ \A m \in messages :
       m.id # i /\ <<m.sender, m.client>> # <<d.sender, d.client>>
  /\ messages' = messages \cup {[id |-> i, sender |-> d.sender, client |-> d.client,
                                 content |-> d.content, at |-> d.at]}
  /\ notices' = [notices EXCEPT ![i] = @ + 1]
  /\ answer' = [answer EXCEPT ![p] = i]
  /\ UNCHANGED <<open, lastRead, told>>

Repeat(p) ==
  /\ Ends(p)
  /\ \E m \in messages :
       /\ m.sender = accepted[p].sender /\ m.client = accepted[p].client
       /\ m.content = accepted[p].content
       /\ answer' = [answer EXCEPT ![p] = m.id]
  /\ UNCHANGED <<open, messages, notices, lastRead, told>>

GiveUp(p) == Ends(p) /\ UNCHANGED <<open, answer, messages, notices, lastRead, told>>

Read(u) ==
  /\ \E m \in messages :
       /\ m.at > lastRead[u]
       /\ lastRead' = [lastRead EXCEPT ![u] = m.at]
  /\ UNCHANGED <<open, accepted, answer, messages, notices, told>>

TellMessage(i) ==
  /\ \E m \in messages : m.id = i
  /\ told' = told \cup {<<"message.created", i>>}
  /\ UNCHANGED <<open, accepted, answer, messages, notices, lastRead>>

TellRead(u) ==
  /\ \E t \in 0..lastRead[u] : told' = told \cup {<<"chat.read", u, t>>}
  /\ UNCHANGED <<open, accepted, answer, messages, notices, lastRead>>

Close ==
  /\ open /\ open' = FALSE
  /\ UNCHANGED <<accepted, answer, messages, notices, lastRead, told>>

Init ==
  /\ open = TRUE /\ messages = Earlier /\ told = {}
  /\ accepted = [p \in Requests |-> None] /\ answer = [p \in Requests |-> None]
  /\ notices = [i \in Ids |-> IF \E m \in Earlier : m.id = i THEN 1 ELSE 0]
  /\ lastRead = [u \in Members |-> 0]

Next ==
  \/ \E p \in Requests :
       Accept(p) \/ (\E i \in Ids : Post(p, i)) \/ Repeat(p) \/ GiveUp(p)
  \/ \E u \in Members : Read(u) \/ TellRead(u)
  \/ \E i \in Ids : TellMessage(i)
  \/ Close

Spec == Init /\ [][Next]_<<open, accepted, answer, messages, notices, lastRead, told>>
=============================================================================
