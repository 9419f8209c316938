--------------------------- MODULE AccountsProofs ---------------------------
(***************************************************************************)
(* Proofs about Accounts, for any number of accounts, addresses, provider  *)
(* accounts, links, keys and requests: every link and key is honoured at   *)
(* most once, and a provider account opens only what it earned.            *)
(*                                                                         *)
(* What a request has inserted and not committed is reserved for it by the *)
(* unique indexes (Adding, Linking), what it has locked stays as it read   *)
(* it (Using), and no two requests reserve or lock the same (Apart).       *)
(* Rows says what the committed tables and Redis keep.                     *)
(***************************************************************************)
EXTENDS Accounts, FiniteSetTheorems, TLAPS

LinkJobs == {"verify", "reset"}
InSignIn(r) ==
  r.job = "callback" /\ r.pc \in {"findIdentity", "findEmail", "insertUser", "linkIdentity",
                                  "session", "commit", "mint"}
Registering(r) == r.job = "register" /\ r.pc \in {"insertUser", "issue", "commit"}
Locking(r) == r.pc \in {"setPassword", "commit"} /\ r.job \in {"register"} \cup LinkJobs

\* Which handler a request runs.
Control(r) ==
  /\ r.pc \in {"redeem", "answer", "findIdentity", "findEmail", "linkIdentity", "session",
               "mint"} => r.job = "callback"
  /\ r.pc = "insertUser" => r.job \in {"register", "callback"}
  /\ r.pc = "issue" => r.job \in {"register", "resend", "forgot"}
  /\ r.pc \in {"findUser", "cooldown"} => r.job \in {"resend", "forgot"}
  /\ r.pc \in {"findLink", "lockLink"} => r.job \in LinkJobs
  /\ r.pc = "setPassword" => r.job = "reset"
  /\ r.pc = "lockUser" => r.job = "delete"
  /\ r.pc = "commit" => r.job \in {"register", "callback", "delete"} \cup LinkJobs
  /\ r.pc = "redeem" => r.key \in Keys

\* What it knows of the person who asks.
Claiming(r) ==
  /\ InSignIn(r) => /\ r.claim \in Claims /\ r.email = r.claim.email
                    /\ r.claim.verified => <<r.claim.subject, r.email>> \in vouched
  /\ Registering(r) => r.claim = Nil /\ r.email \in Emails

\* The account it has inserted.
Adding(r) ==
  /\ r.fresh =>
       /\ r.pc \in {"issue", "linkIdentity", "session", "commit"}
       /\ r.job \in {"register", "callback"}
       /\ r.user \in Ids /\ ~Exists(r.user) /\ Holders(r.email) = {}
  /\ r.job = "register" /\ r.pc \in {"issue", "commit"} => r.fresh

Earned(r) ==
  /\ r.user \in Ids /\ Exists(r.user) /\ account[r.user].email = r.email
  /\ <<r.claim.subject, r.email>> \in vouched

\* The provider account it has linked, or is going to.
Linking(r) ==
  /\ r.linked => /\ r.job = "callback" /\ r.pc \in {"session", "commit"}
                 /\ Linkable(r.claim.subject, r.user)
  /\ r.linked \/ r.pc = "linkIdentity" => r.fresh \/ Earned(r)
  /\ r.job = "callback" /\ r.pc \in {"session", "commit"} /\ ~r.linked => ~r.fresh
  /\ r.job = "callback" /\ ((r.pc \in {"session", "commit"} /\ ~r.linked) \/ r.pc = "mint") =>
       r.user \in Ids /\ identity[r.claim.subject] = r.user

\* The account it has found.
Asking(r) ==
  /\ r.job \in {"resend", "forgot"} /\ r.pc \in {"findUser", "cooldown", "issue"} =>
       r.email \in Emails
  /\ r.job \in {"resend", "forgot"} /\ r.pc \in {"cooldown", "issue"} =>
       r.user \in Ids /\ Exists(r.user) /\ account[r.user].email = r.email
  /\ r.pc = "lockUser" \/ (r.job = "delete" /\ r.pc = "commit") =>
       r.user \in Ids /\ Exists(r.user)

\* The link it has found, or is going to insert.
Using(r) ==
  /\ r.pc = "findLink" => r.link \in Links
  /\ r.pc \in {"lockLink", "setPassword"} \/ (r.job \in LinkJobs /\ r.pc = "commit") =>
       /\ r.link \in Links /\ link[r.link] # Nil
       /\ link[r.link].kind = r.job /\ link[r.link].user = r.user
       /\ r.pc # "lockLink" => ~link[r.link].used
  /\ r.job = "register" /\ r.pc = "commit" => r.link \in Links /\ link[r.link] = Nil

Local(r) == Control(r) /\ Claiming(r) /\ Adding(r) /\ Linking(r) /\ Asking(r) /\ Using(r)

\* Two requests have not inserted, linked or locked the same.
Apart(r, s) ==
  /\ r.fresh /\ s.fresh => r.user # s.user /\ r.email # s.email
  /\ r.linked /\ s.linked =>
       /\ r.claim.subject # s.claim.subject
       /\ r.user = s.user => ProviderOf[r.claim.subject] # ProviderOf[s.claim.subject]
  /\ Locking(r) /\ Locking(s) => r.link # s.link

Types ==
  /\ account \in [Ids -> Account \cup {Nil}]
  /\ identity \in [Subjects -> Ids \cup {Nil}]
  /\ link \in [Links -> LinkRow \cup {Nil}]
  /\ key \in [Keys -> RedisValue]
  /\ req \in [Clients -> HTTPRequest]
  /\ spent \in [Links \cup Keys -> Nat]
  /\ vouched \subseteq Subjects \X (Emails \cup {Blank})

OneHolder ==
  \A u, v \in Ids : Current(u) /\ Current(v) /\ account[u].email = account[v].email => u = v
OneIdentity ==
  \A s, t \in Subjects :
    identity[s] = identity[t] /\ ProviderOf[s] = ProviderOf[t] => s = t \/ identity[s] = Nil
LinksHaveUsers ==
  \A l \in Links : link[l] # Nil =>
    /\ Exists(link[l].user)
    /\ link[l].kind = "reset" => account[link[l].user].email # Blank
BlankHasNoPassword ==
  \A u \in Ids : Exists(u) /\ account[u].email = Blank => ~account[u].password
SpentOnce ==
  /\ \A l \in Links : spent[l] <= 1 /\ (link[l] = Nil \/ ~link[l].used => spent[l] = 0)
  /\ \A k \in Keys : spent[k] <= 1 /\ (key[k] # Gone => spent[k] = 0)

Rows ==
  /\ OneHolder /\ OneIdentity /\ LinksHaveUsers /\ BlankHasNoPassword /\ SpentOnce
  /\ IdentitiesAreEarned

AccountsInv ==
  /\ Types
  /\ Rows
  /\ \A p \in Clients : Local(req[p])
  /\ \A p, q \in Clients : p # q => Apart(req[p], req[q])

-----------------------------------------------------------------------------
LEMMA EmptyRequests ==
  /\ Awaiting \in HTTPRequest /\ Answered \in HTTPRequest
  /\ \A r \in {Awaiting, Answered} : r.pc \in {"idle", "done"} /\ ~r.fresh /\ ~r.linked
<1>1. Awaiting \in HTTPRequest
  BY DEF Awaiting, HTTPRequest
<1>2. Answered \in HTTPRequest
  BY <1>1 DEF Answered, HTTPRequest
<1>3. \A r \in {Awaiting, Answered} : r.pc \in {"idle", "done"} /\ ~r.fresh /\ ~r.linked
  BY DEF Answered, Awaiting
<1>4. QED
  BY <1>1, <1>2, <1>3

\* A request that has inserted, linked and locked nothing is apart.
LEMMA Unreserved ==
  ASSUME NEW r, ~r.fresh, ~r.linked, ~Locking(r)
  PROVE  \A s : Apart(r, s) /\ Apart(s, r)
  BY DEF Apart

\* A request that has not begun, or has ended, promises nothing.
LEMMA Ended ==
  ASSUME NEW r, r.pc \in {"idle", "done"}, ~r.fresh, ~r.linked
  PROVE  Local(r) /\ \A s : Apart(r, s) /\ Apart(s, r)
<1>1. Local(r)
  BY DEF Local, Control, Claiming, Adding, Linking, Asking, Using, InSignIn, Registering
<1>2. QED
  BY <1>1, Unreserved DEF Locking

LEMMA InitAccountsInv == AccountsInit => AccountsInv
<1> SUFFICES ASSUME AccountsInit PROVE AccountsInv
  OBVIOUS
<1>1. Types
  BY EmptyRequests DEF AccountsInit, Types, RedisValue
<1>2. Unused.kind = "unused" /\ Unused # Gone
  BY DEF Unused, Gone
<1>3. Rows
  BY <1>2, NilAssumption, SecretsAssumption
  DEF AccountsInit, Rows, OneHolder, OneIdentity, LinksHaveUsers, BlankHasNoPassword,
      SpentOnce, IdentitiesAreEarned, Exists, Current, IsTicket
<1>4. \A p \in Clients : req[p] = Awaiting
  BY DEF AccountsInit
<1>5. \A p \in Clients : Local(req[p])
  BY <1>4, EmptyRequests, Ended
<1>6. \A p, q \in Clients : Apart(req[p], req[q])
  BY <1>4, EmptyRequests, Ended
<1>7. QED
  BY <1>1, <1>3, <1>5, <1>6 DEF AccountsInv

\* What the invariant says of one request.
LEMMA OneRequest ==
  ASSUME AccountsInv, NEW p \in Clients
  PROVE  /\ req[p] \in HTTPRequest /\ Local(req[p])
         /\ \A q \in Clients \ {p} : Apart(req[p], req[q]) /\ Apart(req[q], req[p])
  BY DEF AccountsInv, Types

\* A request goes on, and the tables stay as they are.
LEMMA MoveStep ==
  ASSUME AccountsInv, NEW p \in Clients, NEW r \in HTTPRequest, Move(p, r), Local(r),
         \A q \in Clients \ {p} : Apart(r, req[q]) /\ Apart(req[q], r)
  PROVE  AccountsInv'
<1>1. /\ req' = [req EXCEPT ![p] = r] /\ req \in [Clients -> HTTPRequest]
      /\ UNCHANGED <<account, identity, link, key, spent, vouched>>
  BY DEF Move, Become, tables, AccountsInv, Types
<1>2. req'[p] = r /\ \A q \in Clients \ {p} : req'[q] = req[q]
  BY <1>1
<1>3. Types'
  BY <1>1 DEF AccountsInv, Types
<1>4. Rows'
  BY <1>1
  DEF AccountsInv, Rows, OneHolder, OneIdentity, LinksHaveUsers, BlankHasNoPassword,
      SpentOnce, IdentitiesAreEarned, Exists, Current, IsTicket
<1>5. ASSUME NEW q \in Clients PROVE Local(req[q])'
  <2>1. Local(req'[q])
    BY <1>2 DEF AccountsInv
  <2>2. QED
    BY SMTT(30), <1>1, <2>1
    DEF Local, Control, Claiming, Adding, Linking, Asking, Using, InSignIn, Registering,
        Exists, Holders, Current, Earned, Linkable
<1>6. ASSUME NEW q \in Clients, NEW v \in Clients, q # v PROVE Apart(req[q], req[v])'
  <2>1. Apart(req'[q], req'[v])
    BY <1>2, <1>6 DEF AccountsInv
  <2>2. QED
    BY <2>1 DEF Apart, Locking
<1>7. QED
  BY <1>3, <1>4, <1>5, <1>6 DEF AccountsInv

LEMMA StopStep ==
  ASSUME AccountsInv, NEW p \in Clients, Stop(p)
  PROVE  AccountsInv'
  BY EmptyRequests, Ended, MoveStep DEF Stop

-----------------------------------------------------------------------------
(* The beginnings of the handlers.                                         *)

LEMMA BeginStep ==
  ASSUME AccountsInv, NEW p \in Clients, Request(p)
  PROVE  AccountsInv'
<1>1. ASSUME NEW e \in Emails \cup {Blank}, BeginRegister(p, e) PROVE AccountsInv'
  <2>1. PICK r : r = [Awaiting EXCEPT !.pc = "insertUser", !.email = e, !.job = "register"]
    OBVIOUS
  <2>2. Move(p, r) /\ e \in Emails
    BY <1>1, <2>1, EmptyRequests DEF BeginRegister, Start, Awaiting
  <2>3. r \in HTTPRequest
    BY ZenonT(60), <2>1, <2>2, EmptyRequests DEF HTTPRequest
  <2>4. /\ r.pc = "insertUser" /\ r.job = "register" /\ r.email \in Emails /\ r.claim = Nil
        /\ ~r.fresh /\ ~r.linked
    BY <2>1, <2>2 DEF Awaiting
  <2>5. Local(r)
    BY <2>4 DEF Local, Control, Claiming, Adding, Linking, Asking, Using, InSignIn, Registering
  <2>6. QED
    BY <2>2, <2>3, <2>4, <2>5, Unreserved, MoveStep DEF Locking
<1>2. ASSUME NEW e \in Emails \cup {Blank}, NEW job \in {"resend", "forgot"},
             BeginAsk(p, e, job)
      PROVE  AccountsInv'
  <2>1. PICK r : r = [Awaiting EXCEPT !.pc = "findUser", !.email = e, !.job = job]
    OBVIOUS
  <2>2. Move(p, r) /\ e \in Emails
    BY <1>2, <2>1, EmptyRequests DEF BeginAsk, Start, Awaiting
  <2>3. r \in HTTPRequest
    BY ZenonT(60), <2>1, <2>2, EmptyRequests DEF HTTPRequest
  <2>4. /\ r.pc = "findUser" /\ r.job = job /\ r.email \in Emails /\ ~r.fresh /\ ~r.linked
    BY <2>1, <2>2 DEF Awaiting
  <2>5. Local(r)
    BY <2>4 DEF Local, Control, Claiming, Adding, Linking, Asking, Using, InSignIn, Registering
  <2>6. QED
    BY <2>2, <2>3, <2>4, <2>5, Unreserved, MoveStep DEF Locking
<1>3. ASSUME NEW k \in Keys, BeginCallback(p, k) PROVE AccountsInv'
  <2>1. PICK r : r = [Awaiting EXCEPT !.pc = "redeem", !.key = k, !.job = "callback"]
    OBVIOUS
  <2>2. Move(p, r)
    BY <1>3, <2>1, EmptyRequests DEF BeginCallback, Start, Awaiting
  <2>3. r \in HTTPRequest
    BY ZenonT(60), <2>1, EmptyRequests DEF HTTPRequest
  <2>4. r.pc = "redeem" /\ r.job = "callback" /\ r.key \in Keys /\ ~r.fresh /\ ~r.linked
    BY <2>1 DEF Awaiting
  <2>5. Local(r)
    BY <2>4 DEF Local, Control, Claiming, Adding, Linking, Asking, Using, InSignIn, Registering
  <2>6. QED
    BY <2>2, <2>3, <2>4, <2>5, Unreserved, MoveStep DEF Locking
<1>4. ASSUME NEW l \in Links, NEW job \in LinkJobs, BeginUse(p, l, job) PROVE AccountsInv'
  <2>1. PICK r : r = [Awaiting EXCEPT !.pc = "findLink", !.link = l, !.job = job,
                        !.stale = link[l] # Nil /\ link[l].expired]
    OBVIOUS
  <2>2. Move(p, r)
    BY <1>4, <2>1, EmptyRequests DEF BeginUse, Start, Awaiting
  <2>3. r \in HTTPRequest
    <3>1. PICK b \in BOOLEAN : b = (link[l] # Nil /\ link[l].expired)
      OBVIOUS
    <3>2. r = [Awaiting EXCEPT !.pc = "findLink", !.link = l, !.job = job, !.stale = b]
      BY <2>1, <3>1
    <3>3. QED
      BY ZenonT(60), <3>2, EmptyRequests DEF HTTPRequest, LinkJobs
  <2>4. r.pc = "findLink" /\ r.job = job /\ r.link \in Links /\ ~r.fresh /\ ~r.linked
    BY <2>1 DEF Awaiting
  <2>5. Local(r)
    BY <2>4
    DEF Local, Control, Claiming, Adding, Linking, Asking, Using, InSignIn, Registering, LinkJobs
  <2>6. QED
    BY <2>2, <2>3, <2>4, <2>5, Unreserved, MoveStep DEF Locking
<1>5. ASSUME NEW u \in Ids, BeginDelete(p, u) PROVE AccountsInv'
  <2>1. PICK r : r = [Awaiting EXCEPT !.pc = "lockUser", !.user = u, !.job = "delete"]
    OBVIOUS
  <2>2. Move(p, r) /\ Exists(u)
    BY <1>5, <2>1, EmptyRequests DEF BeginDelete, Start, Awaiting
  <2>3. r \in HTTPRequest
    BY ZenonT(60), <2>1, EmptyRequests DEF HTTPRequest
  <2>4. r.pc = "lockUser" /\ r.job = "delete" /\ r.user = u /\ ~r.fresh /\ ~r.linked
    BY <2>1 DEF Awaiting
  <2>5. Local(r)
    BY <2>2, <2>4
    DEF Local, Control, Claiming, Adding, Linking, Asking, Using, InSignIn, Registering
  <2>6. QED
    BY <2>2, <2>3, <2>4, <2>5, Unreserved, MoveStep DEF Locking
<1>6. QED
  BY <1>1, <1>2, <1>3, <1>4, <1>5 DEF Request, LinkJobs

-----------------------------------------------------------------------------
(* Statements that only the request remembers.                             *)

\* InsertUser reserves an account and an address that nobody has.
LEMMA InsertUserStep ==
  ASSUME AccountsInv, NEW p \in Clients, InsertUser(p)
  PROVE  AccountsInv'
<1> DEFINE o == req[p]
<1>1. o \in HTTPRequest /\ Local(o) /\ o.pc = "insertUser" /\ Holders(o.email) = {}
  BY OneRequest DEF InsertUser
<1>2. PICK u \in Ids :
        /\ ~Exists(u) /\ \A q \in Clients : ~(req[q].fresh /\ req[q].user = u)
        /\ Move(p, [o EXCEPT !.user = u, !.fresh = TRUE,
             !.pc = IF o.job = "register" THEN "issue" ELSE "linkIdentity"])
  BY DEF InsertUser
<1>3. PICK r : r = [o EXCEPT !.user = u, !.fresh = TRUE,
                      !.pc = IF o.job = "register" THEN "issue" ELSE "linkIdentity"]
  OBVIOUS
<1>4. r \in HTTPRequest
  BY ZenonT(60), <1>1, <1>3 DEF HTTPRequest
<1>5. /\ r.user = u /\ r.fresh /\ r.pc = IF o.job = "register" THEN "issue" ELSE "linkIdentity"
      /\ r.job = o.job /\ r.email = o.email /\ r.claim = o.claim /\ (r.linked <=> o.linked)
  BY <1>1, <1>3 DEF HTTPRequest
<1>6. Local(r)
  BY <1>1, <1>2, <1>5
  DEF Local, Control, Claiming, Adding, Linking, Asking, Using, InSignIn, Registering
<1>7. ASSUME NEW q \in Clients \ {p} PROVE Apart(r, req[q]) /\ Apart(req[q], r)
  <2>1. ~r.linked /\ ~Locking(r)
    BY <1>1, <1>5 DEF Local, Linking, Locking
  <2>2. ~(req[q].fresh /\ req[q].email = o.email) /\ ~(req[q].fresh /\ req[q].user = u)
    BY <1>2 DEF InsertUser, EmailFree
  <2>3. QED
    BY <1>5, <2>1, <2>2 DEF Apart
<1>8. QED
  BY <1>2, <1>3, <1>4, <1>6, <1>7, MoveStep

LEMMA FindIdentityStep ==
  ASSUME AccountsInv, NEW p \in Clients, FindIdentity(p)
  PROVE  AccountsInv'
<1> DEFINE o == req[p]
           u == identity[o.claim.subject]
<1>1. /\ o \in HTTPRequest /\ Local(o) /\ o.pc = "findIdentity"
      /\ \A q \in Clients \ {p} : Apart(o, req[q]) /\ Apart(req[q], o)
  BY OneRequest DEF FindIdentity
<1>2. /\ o.job = "callback" /\ o.claim \in Claims /\ o.claim.subject \in Subjects
      /\ ~o.fresh /\ ~o.linked
  BY <1>1, ClaimsAssumption
  DEF Local, Control, Claiming, InSignIn, Adding, Linking, Claim
<1>3. PICK r : r = [o EXCEPT !.pc = IF u # Nil /\ Current(u) THEN "session"
                                   ELSE IF o.email = Blank THEN "insertUser" ELSE "findEmail",
                            !.user = IF u # Nil /\ Current(u) THEN u ELSE o.user]
  OBVIOUS
<1>4. Move(p, r)
  <2>1. CASE u # Nil /\ Current(u)
    BY <1>3, <2>1 DEF FindIdentity
  <2>2. CASE ~(u # Nil /\ Current(u))
    BY <1>1, <1>3, <2>2 DEF FindIdentity, Go, HTTPRequest
  <2>3. QED
    BY <2>1, <2>2
<1>5. u \in Ids \cup {Nil}
  BY <1>2 DEF AccountsInv, Types
<1>6. r \in HTTPRequest
  <2>1. PICK pc, v : /\ r = [o EXCEPT !.pc = pc, !.user = v]
                     /\ pc \in {"session", "insertUser", "findEmail"} /\ v \in {u, o.user}
    BY <1>3
  <2>2. v \in Ids \cup {Nil}
    BY <1>1, <1>5, <2>1 DEF HTTPRequest
  <2>3. QED
    BY <1>1, <2>1, <2>2 DEF HTTPRequest
<1>7. /\ r.pc \in {"session", "insertUser", "findEmail"} /\ r.job = "callback"
      /\ r.claim = o.claim /\ r.email = o.email /\ ~r.fresh /\ ~r.linked
      /\ r.pc = "session" => r.user \in Ids /\ identity[r.claim.subject] = r.user
  BY <1>1, <1>2, <1>3, <1>5 DEF HTTPRequest
<1>8. Local(r)
  BY <1>1, <1>2, <1>7
  DEF Local, Control, Claiming, Adding, Linking, Asking, Using, InSignIn, Registering
<1>9. QED
  BY <1>4, <1>6, <1>7, <1>8, Unreserved, MoveStep DEF Locking

LEMMA FindEmailStep ==
  ASSUME AccountsInv, NEW p \in Clients, FindEmail(p)
  PROVE  AccountsInv'
<1> DEFINE o == req[p]
<1>1. o \in HTTPRequest /\ Local(o) /\ o.pc = "findEmail"
  BY OneRequest DEF FindEmail
<1>2. /\ o.job = "callback" /\ o.claim \in Claims /\ ~o.fresh /\ ~o.linked
      /\ o.claim.verified => <<o.claim.subject, o.email>> \in vouched
  BY <1>1 DEF Local, Control, Claiming, InSignIn, Adding, Linking
<1>3. CASE Holders(o.email) = {}
  <2>1. PICK r : r = [o EXCEPT !.pc = "insertUser"]
    OBVIOUS
  <2>2. Move(p, r) /\ r \in HTTPRequest
    BY <1>1, <1>3, <2>1 DEF FindEmail, Go, HTTPRequest
  <2>3. /\ r.pc = "insertUser" /\ r.job = "callback"
        /\ r.claim = o.claim /\ r.email = o.email /\ ~r.fresh /\ ~r.linked
    BY <1>1, <1>2, <2>1 DEF HTTPRequest
  <2>4. Local(r)
    BY <1>1, <1>2, <2>3
    DEF Local, Control, Claiming, Adding, Linking, Asking, Using, InSignIn, Registering
  <2>5. QED
    BY <2>2, <2>3, <2>4, Unreserved, MoveStep DEF Locking
<1>4. CASE Holders(o.email) # {} /\ ~o.claim.verified
  BY <1>4, StopStep DEF FindEmail
<1>5. CASE Holders(o.email) # {} /\ o.claim.verified
  <2>1. PICK u \in Holders(o.email) : Move(p, [o EXCEPT !.pc = "linkIdentity", !.user = u])
    BY <1>5 DEF FindEmail
  <2>2. PICK r : r = [o EXCEPT !.pc = "linkIdentity", !.user = u]
    OBVIOUS
  <2>3. u \in Ids /\ Exists(u) /\ account[u].email = o.email
    BY <2>1 DEF Holders, Current
  <2>4. r \in HTTPRequest
    BY <1>1, <2>2, <2>3 DEF HTTPRequest
  <2>5. /\ r.pc = "linkIdentity" /\ r.job = "callback" /\ r.user = u
        /\ r.claim = o.claim /\ r.email = o.email /\ ~r.fresh /\ ~r.linked
    BY <1>1, <1>2, <2>2 DEF HTTPRequest
  <2>6. Local(r)
    BY <1>1, <1>2, <1>5, <2>3, <2>5
    DEF Local, Control, Claiming, Adding, Linking, Earned, Asking, Using, InSignIn, Registering
  <2>7. QED
    BY <2>1, <2>2, <2>4, <2>5, <2>6, Unreserved, MoveStep DEF Locking
<1>6. QED
  BY <1>3, <1>4, <1>5

\* LinkIdentity reserves a provider account that nobody is linking.
LEMMA LinkIdentityStep ==
  ASSUME AccountsInv, NEW p \in Clients, LinkIdentity(p)
  PROVE  AccountsInv'
<1> DEFINE o == req[p]
<1>1. /\ o \in HTTPRequest /\ Local(o) /\ o.pc = "linkIdentity"
      /\ \A q \in Clients \ {p} : Apart(o, req[q]) /\ Apart(req[q], o)
  BY OneRequest DEF LinkIdentity
<1>2. o.job = "callback" /\ o.claim \in Claims /\ o.claim.subject \in Subjects
  BY <1>1, ClaimsAssumption DEF Local, Control, Claiming, InSignIn, Claim
<1>3. CASE Linkable(o.claim.subject, o.user)
  <2>1. PICK r : r = [o EXCEPT !.pc = "session", !.linked = TRUE]
    OBVIOUS
  <2>2. Move(p, r) /\ r \in HTTPRequest
    BY <1>1, <1>3, <2>1 DEF LinkIdentity, HTTPRequest
  <2>3. /\ r.pc = "session" /\ r.job = "callback" /\ r.user = o.user /\ r.linked
        /\ r.claim = o.claim /\ r.email = o.email /\ (r.fresh <=> o.fresh)
    BY <1>1, <1>2, <2>1 DEF HTTPRequest
  <2>4. Local(r)
    BY <1>1, <1>2, <1>3, <2>3
    DEF Local, Control, Claiming, Adding, Linking, Earned, Asking, Using, InSignIn, Registering
  <2>5. ASSUME NEW q \in Clients \ {p} PROVE Apart(r, req[q]) /\ Apart(req[q], r)
    <3>1. req[q].linked =>
            /\ req[q].claim.subject # o.claim.subject
            /\ ~(req[q].user = o.user
                    /\ ProviderOf[req[q].claim.subject] = ProviderOf[o.claim.subject])
      BY DEF LinkIdentity, IdentityFree
    <3>2. ~Locking(r)
      BY <2>3 DEF Locking
    <3>3. QED
      BY <1>1, <2>3, <3>1, <3>2 DEF Apart
  <2>6. QED
    BY <2>2, <2>4, <2>5, MoveStep
<1>4. CASE ~Linkable(o.claim.subject, o.user)
  <2>1. PICK r : r = [Answered EXCEPT !.refused = o.claim.subject]
    OBVIOUS
  <2>2. Move(p, r)
    BY <1>4, <2>1 DEF LinkIdentity
  <2>3. r \in HTTPRequest
    BY <1>2, <2>1, EmptyRequests DEF HTTPRequest
  <2>4. r.pc \in {"idle", "done"} /\ ~r.fresh /\ ~r.linked
    BY <2>1 DEF Answered, Awaiting
  <2>5. QED
    BY <2>2, <2>3, <2>4, Ended, MoveStep
<1>5. QED
  BY <1>3, <1>4

LEMMA CreateSessionStep ==
  ASSUME AccountsInv, NEW p \in Clients, CreateSession(p)
  PROVE  AccountsInv'
<1> DEFINE o == req[p]
<1>1. /\ o \in HTTPRequest /\ Local(o) /\ o.pc = "session"
      /\ \A q \in Clients \ {p} : Apart(o, req[q]) /\ Apart(req[q], o)
  BY OneRequest DEF CreateSession
<1>2. PICK r : r = [o EXCEPT !.pc = "commit"]
  OBVIOUS
<1>3. Move(p, r) /\ r \in HTTPRequest
  BY <1>1, <1>2 DEF CreateSession, Go, HTTPRequest
<1>4. /\ r.pc = "commit" /\ o.job = "callback" /\ r.job = o.job /\ r.user = o.user
      /\ r.claim = o.claim /\ r.email = o.email /\ (r.fresh <=> o.fresh)
      /\ (r.linked <=> o.linked)
  BY <1>1, <1>2 DEF HTTPRequest, Local, Control
<1>5. Local(r)
  BY <1>1, <1>4
  DEF Local, Control, Claiming, Adding, Linking, Earned, Asking, Using, InSignIn, Registering,
      LinkJobs
<1>6. ASSUME NEW q \in Clients \ {p} PROVE Apart(r, req[q]) /\ Apart(req[q], r)
  <2>1. ~Locking(r)
    BY <1>4 DEF Locking, LinkJobs
  <2>2. QED
    BY <1>1, <1>4, <2>1 DEF Apart
<1>7. QED
  BY <1>3, <1>5, <1>6, MoveStep

LEMMA FindUserStep ==
  ASSUME AccountsInv, NEW p \in Clients, FindUser(p)
  PROVE  AccountsInv'
<1> DEFINE o == req[p]
<1>1. o \in HTTPRequest /\ Local(o) /\ o.pc = "findUser"
  BY OneRequest DEF FindUser
<1>2. CASE Holders(o.email) = {}
  BY <1>2, StopStep DEF FindUser
<1>3. CASE Holders(o.email) # {}
  <2>1. PICK u \in Holders(o.email) : Move(p, [o EXCEPT !.pc = "cooldown", !.user = u])
    BY <1>3 DEF FindUser
  <2>2. PICK r : r = [o EXCEPT !.pc = "cooldown", !.user = u]
    OBVIOUS
  <2>3. u \in Ids /\ Exists(u) /\ account[u].email = o.email
    BY <2>1 DEF Holders, Current
  <2>4. r \in HTTPRequest
    BY <1>1, <2>2, <2>3 DEF HTTPRequest
  <2>5. /\ r.pc = "cooldown" /\ r.job \in {"resend", "forgot"} /\ r.user = u
        /\ r.email = o.email /\ ~r.fresh /\ ~r.linked
    BY <1>1, <2>2 DEF HTTPRequest, Local, Control, Adding, Linking
  <2>6. Local(r)
    BY <1>1, <2>3, <2>5
    DEF Local, Control, Claiming, Adding, Linking, Asking, Using, InSignIn, Registering
  <2>7. QED
    BY <2>1, <2>2, <2>4, <2>5, <2>6, Unreserved, MoveStep DEF Locking
<1>4. QED
  BY <1>2, <1>3

LEMMA CooldownStep ==
  ASSUME AccountsInv, NEW p \in Clients, Cooldown(p)
  PROVE  AccountsInv'
<1> DEFINE o == req[p]
<1>1. o \in HTTPRequest /\ Local(o) /\ o.pc = "cooldown"
  BY OneRequest DEF Cooldown
<1>2. CASE ~Stop(p)
  <2>1. PICK r : r = [o EXCEPT !.pc = "issue"]
    OBVIOUS
  <2>2. Move(p, r)
    BY <1>2, <2>1 DEF Cooldown, Go
  <2>3. r \in HTTPRequest
    BY <1>1, <2>1 DEF HTTPRequest
  <2>4. /\ r.pc = "issue" /\ r.job \in {"resend", "forgot"} /\ r.job = o.job
        /\ r.user = o.user /\ r.email = o.email /\ ~r.fresh /\ ~r.linked
    BY <1>1, <2>1 DEF HTTPRequest, Local, Control, Adding, Linking
  <2>5. Local(r)
    BY <1>1, <2>4
    DEF Local, Control, Claiming, Adding, Linking, Asking, Using, InSignIn, Registering
  <2>6. QED
    BY <2>2, <2>3, <2>4, <2>5, Unreserved, MoveStep DEF Locking
<1>3. QED
  BY <1>2, StopStep

LEMMA FindLinkStep ==
  ASSUME AccountsInv, NEW p \in Clients, FindLink(p)
  PROVE  AccountsInv'
<1> DEFINE o == req[p]
           t == link[o.link]
<1>1. /\ o \in HTTPRequest /\ Local(o) /\ o.pc = "findLink" /\ o.link \in Links
      /\ o.job \in LinkJobs
  BY OneRequest DEF FindLink, Local, Control, Using
<1>2. CASE ~Stop(p)
  <2>1. PICK r : r = [o EXCEPT !.pc = "lockLink", !.user = t.user]
    OBVIOUS
  <2>2. Move(p, r) /\ t # Nil /\ t.kind = o.job
    BY <1>2, <2>1 DEF FindLink
  <2>3. t.user \in Ids
    BY <1>1, <2>2 DEF AccountsInv, Types, LinkRow
  <2>4. r \in HTTPRequest
    BY <1>1, <2>1, <2>3 DEF HTTPRequest
  <2>5. /\ r.pc = "lockLink" /\ r.job = o.job /\ r.user = t.user /\ r.link = o.link
        /\ ~r.fresh /\ ~r.linked
    BY <1>1, <2>1 DEF HTTPRequest, Local, Adding, Linking
  <2>6. Local(r)
    BY <1>1, <2>2, <2>5
    DEF Local, Control, Claiming, Adding, Linking, Asking, Using, InSignIn, Registering, LinkJobs
  <2>7. QED
    BY <2>2, <2>4, <2>5, <2>6, Unreserved, MoveStep DEF Locking
<1>3. QED
  BY <1>2, StopStep

\* LockLink waits for whoever has locked the link, and reads it again.
LEMMA LockLinkStep ==
  ASSUME AccountsInv, NEW p \in Clients, LockLink(p)
  PROVE  AccountsInv'
<1> DEFINE o == req[p]
<1>1. /\ o \in HTTPRequest /\ Local(o) /\ o.pc = "lockLink" /\ o.job \in LinkJobs
      /\ ~o.fresh /\ ~o.linked
  BY OneRequest DEF LockLink, Local, Control, Adding, Linking
<1>2. CASE ~Usable(p)
  BY <1>2, StopStep DEF LockLink
<1>3. CASE Usable(p)
  <2>1. PICK r : r = [o EXCEPT !.pc = IF o.job = "reset" THEN "setPassword" ELSE "commit"]
    OBVIOUS
  <2>2. Move(p, r) /\ ~link[o.link].used
    BY <1>3, <2>1 DEF LockLink, Go, Usable
  <2>3. r \in HTTPRequest
    BY <1>1, <2>1 DEF HTTPRequest
  <2>4. /\ r.pc \in {"setPassword", "commit"} /\ (r.pc = "setPassword" => r.job = "reset")
        /\ r.job = o.job /\ r.user = o.user /\ r.link = o.link /\ ~r.fresh /\ ~r.linked
    BY <1>1, <2>1 DEF HTTPRequest
  <2>5. Local(r)
    BY <1>1, <2>2, <2>4
    DEF Local, Control, Claiming, Adding, Linking, Asking, Using, InSignIn, Registering, LinkJobs
  <2>6. ASSUME NEW q \in Clients \ {p} PROVE Apart(r, req[q]) /\ Apart(req[q], r)
    <3>1. ~(req[q].link = o.link /\ req[q].pc \in {"setPassword", "commit"})
      BY DEF LockLink, LinkFree
    <3>2. QED
      BY <2>4, <3>1 DEF Apart, Locking
  <2>7. QED
    BY <2>2, <2>3, <2>5, <2>6, MoveStep
<1>4. QED
  BY <1>2, <1>3

LEMMA SetPasswordStep ==
  ASSUME AccountsInv, NEW p \in Clients, SetPassword(p)
  PROVE  AccountsInv'
<1> DEFINE o == req[p]
<1>1. /\ o \in HTTPRequest /\ Local(o) /\ o.pc = "setPassword" /\ o.job = "reset"
      /\ ~o.fresh /\ ~o.linked
      /\ \A q \in Clients \ {p} : Apart(o, req[q]) /\ Apart(req[q], o)
  BY OneRequest DEF SetPassword, Local, Control, Adding, Linking
<1>2. PICK r : r = [o EXCEPT !.pc = "commit"]
  OBVIOUS
<1>3. Move(p, r) /\ r \in HTTPRequest
  BY <1>1, <1>2 DEF SetPassword, Go, HTTPRequest
<1>4. /\ r.pc = "commit" /\ r.job = "reset" /\ r.user = o.user /\ r.link = o.link
      /\ ~r.fresh /\ ~r.linked
  BY <1>1, <1>2 DEF HTTPRequest
<1>5. Local(r)
  BY <1>1, <1>4
  DEF Local, Control, Claiming, Adding, Linking, Asking, Using, InSignIn, Registering, LinkJobs
<1>6. ASSUME NEW q \in Clients \ {p} PROVE Apart(r, req[q]) /\ Apart(req[q], r)
  BY <1>1, <1>4 DEF Apart, Locking, LinkJobs
<1>7. QED
  BY <1>3, <1>5, <1>6, MoveStep

LEMMA LockUserStep ==
  ASSUME AccountsInv, NEW p \in Clients, LockUser(p)
  PROVE  AccountsInv'
<1> DEFINE o == req[p]
<1>1. o \in HTTPRequest /\ Local(o) /\ o.pc = "lockUser" /\ o.job = "delete"
  BY OneRequest DEF LockUser, Local, Control
<1>2. CASE ~Stop(p)
  <2>1. PICK r : r = [o EXCEPT !.pc = "commit"]
    OBVIOUS
  <2>2. Move(p, r) /\ r \in HTTPRequest
    BY <1>1, <1>2, <2>1 DEF LockUser, Go, HTTPRequest
  <2>3. r.pc = "commit" /\ r.job = "delete" /\ r.user = o.user /\ ~r.fresh /\ ~r.linked
    BY <1>1, <2>1 DEF HTTPRequest, Local, Adding, Linking
  <2>4. Local(r)
    BY <1>1, <2>3
    DEF Local, Control, Claiming, Adding, Linking, Asking, Using, InSignIn, Registering, LinkJobs
  <2>5. QED
    BY <2>2, <2>3, <2>4, Unreserved, MoveStep DEF Locking, LinkJobs
<1>3. QED
  BY <1>2, StopStep

-----------------------------------------------------------------------------
(* Statements that change Redis or commit.                                 *)

\* What a request relies on, in a step of another.
Undisturbed(q) ==
  LET r == req[q] IN
  /\ \A u \in Ids : Exists(u) => account'[u] # Nil /\ account'[u].email = account[u].email
  /\ \A s \in Subjects : identity[s] # Nil => identity'[s] = identity[s]
  /\ \A l \in Links : link[l] # Nil =>
       link'[l] # Nil /\ link'[l].kind = link[l].kind /\ link'[l].user = link[l].user
  /\ vouched \subseteq vouched'
  /\ r.fresh =>
       /\ account'[r.user] = Nil
       /\ \A u \in Ids : account'[u] # Nil /\ account'[u].email = r.email => account'[u].gone
  /\ r.linked =>
       /\ identity'[r.claim.subject] = Nil
       /\ \A t \in Subjects :
            identity'[t] = r.user => ProviderOf[t] # ProviderOf[r.claim.subject]
  /\ Locking(r) => IF r.job = "register" THEN link'[r.link] = Nil ELSE ~link'[r.link].used

LEMMA UndisturbedStays ==
  ASSUME AccountsInv, NEW q \in Clients, Undisturbed(q), req'[q] = req[q]
  PROVE  Local(req[q])'
<1>0. PICK r : r = req[q]
  OBVIOUS
<1>1. Local(r) /\ r \in HTTPRequest /\ req'[q] = r
  BY <1>0, OneRequest
<1>2. InSignIn(r) => r.claim.subject \in Subjects
  BY <1>1, ClaimsAssumption DEF Local, Claiming, Claim
<1>3. Control(r)'
  BY <1>0, <1>1 DEF Local, Control
<1>4. Claiming(r)'
  BY <1>0, <1>1 DEF Local, Claiming, InSignIn, Registering, Undisturbed
<1>5. Adding(r)'
  BY <1>0, <1>1 DEF Local, Adding, Exists, Holders, Current, Undisturbed
<1>6. Linking(r)'
  <2>1. identity \in [Subjects -> Ids \cup {Nil}]
    BY DEF AccountsInv, Types
  <2>2. (r.linked => Linkable(r.claim.subject, r.user))'
    BY <1>0, <1>1 DEF Linkable, Undisturbed
  <2>3. (r.fresh \/ Earned(r)) => (r.fresh \/ Earned(r))'
    BY <1>0, <1>1 DEF Earned, Exists, Undisturbed
  <2>4. r.user \in Ids /\ InSignIn(r) /\ identity[r.claim.subject] = r.user =>
          (identity[r.claim.subject] = r.user)'
    BY <1>0, <1>1, <1>2, <2>1, NilAssumption DEF Undisturbed
  <2>5. QED
    BY <1>1, <1>2, <2>2, <2>3, <2>4 DEF Local, Linking, InSignIn
<1>7. Asking(r)'
  BY <1>0, <1>1 DEF Local, Asking, Exists, Undisturbed
<1>8. Using(r)'
  BY <1>0, <1>1 DEF Local, Control, Using, Locking, LinkJobs, Undisturbed
<1>9. QED
  <2>1. Local(r)'
    BY <1>3, <1>4, <1>5, <1>6, <1>7, <1>8 DEF Local
  <2>2. QED
    BY <1>0, <1>1, <2>1

LEMMA NothingDisturbed ==
  ASSUME AccountsInv, NEW q \in Clients, UNCHANGED <<account, identity, link>>,
         vouched \subseteq vouched'
  PROVE  Undisturbed(q)
<1> DEFINE r == req[q]
<1>1. Local(r)
  BY OneRequest
<1>2. r.fresh =>
        /\ account[r.user] = Nil
        /\ \A u \in Ids : account[u] # Nil /\ account[u].email = r.email => account[u].gone
  BY <1>1 DEF Local, Adding, Holders, Current, Exists
<1>3. r.linked =>
        /\ identity[r.claim.subject] = Nil
        /\ \A t \in Subjects :
             identity[t] = r.user => ProviderOf[t] # ProviderOf[r.claim.subject]
  BY <1>1 DEF Local, Linking, Linkable
<1>4. Locking(r) => IF r.job = "register" THEN link[r.link] = Nil ELSE ~link[r.link].used
  BY <1>1 DEF Local, Control, Using, Locking, LinkJobs
<1>5. QED
  BY <1>2, <1>3, <1>4 DEF Undisturbed, Exists

LEMMA BecomeStep ==
  ASSUME AccountsInv, NEW p \in Clients, NEW r \in HTTPRequest, Become(p, r),
         Types', Rows', Local(r)', \A q \in Clients \ {p} : Undisturbed(q),
         \A q \in Clients \ {p} : Apart(r, req[q]) /\ Apart(req[q], r)
  PROVE  AccountsInv'
<1>1. req'[p] = r /\ \A q \in Clients \ {p} : req'[q] = req[q]
  BY DEF Become, AccountsInv, Types
<1>2. ASSUME NEW q \in Clients PROVE Local(req[q])'
  BY <1>1, UndisturbedStays
<1>3. ASSUME NEW q \in Clients, NEW v \in Clients, q # v PROVE Apart(req[q], req[v])'
  <2>1. Apart(req'[q], req'[v])
    BY <1>1, <1>3 DEF AccountsInv
  <2>2. QED
    BY <2>1 DEF Apart, Locking
<1>4. QED
  BY <1>2, <1>3 DEF AccountsInv

\* The request ends.
LEMMA AnswerStep ==
  ASSUME AccountsInv, NEW p \in Clients, Become(p, Answered),
         Types', Rows', \A q \in Clients \ {p} : Undisturbed(q)
  PROVE  AccountsInv'
<1>1. Local(Answered)'
  BY EmptyRequests
  DEF Local, Control, Claiming, Adding, Linking, Asking, Using, InSignIn, Registering
<1>2. QED
  BY <1>1, EmptyRequests, Ended, BecomeStep

LEMMA RowsStep ==
  ASSUME AccountsInv, req' = req, Types', Rows', \A q \in Clients : Undisturbed(q)
  PROVE  AccountsInv'
<1>1. ASSUME NEW q \in Clients PROVE Local(req[q])'
  BY UndisturbedStays
<1>2. ASSUME NEW q \in Clients, NEW v \in Clients, q # v PROVE Apart(req[q], req[v])'
  <2>1. Apart(req'[q], req'[v])
    BY <1>2 DEF AccountsInv
  <2>2. QED
    BY <2>1 DEF Apart, Locking
<1>3. QED
  BY <1>1, <1>2 DEF AccountsInv

\* The rows of PostgreSQL, when none of them changes.
LEMMA RowsStay ==
  ASSUME AccountsInv, UNCHANGED <<account, identity, link>>, vouched \subseteq vouched'
  PROVE  /\ (OneHolder /\ OneIdentity /\ LinksHaveUsers /\ BlankHasNoPassword)'
         /\ \A k \in Keys : IsTicket(k)' /\ key'[k] = key[k] =>
              identity'[key'[k].subject] = key'[k].user
         /\ (\A k \in Keys : IsTicket(k)' => identity'[key'[k].subject] = key'[k].user)
              => IdentitiesAreEarned'
<1>1. (OneHolder /\ OneIdentity /\ LinksHaveUsers /\ BlankHasNoPassword)'
  BY DEF AccountsInv, Rows, OneHolder, OneIdentity, LinksHaveUsers, BlankHasNoPassword,
         Current, Exists
<1>2. ASSUME NEW k \in Keys, IsTicket(k)', key'[k] = key[k]
      PROVE  identity'[key'[k].subject] = key'[k].user
  BY <1>2 DEF AccountsInv, Rows, IdentitiesAreEarned, IsTicket
<1>3. (\A k \in Keys : IsTicket(k)' => identity'[key'[k].subject] = key'[k].user)
              => IdentitiesAreEarned'
  BY DEF AccountsInv, Rows, IdentitiesAreEarned, Exists
<1>4. QED
  BY <1>1, <1>2, <1>3

LEMMA Values ==
  /\ Unused \in RedisValue /\ Unused.kind = "unused"
  /\ State \in RedisValue /\ State.kind = "state"
  /\ Gone \in RedisValue /\ Gone.kind = "gone"
  BY DEF RedisValue, Unused, State, Gone

\* GETDEL of a state: it was never honoured before, and is gone.
LEMMA RedeemStateStep ==
  ASSUME AccountsInv, NEW p \in Clients, RedeemState(p)
  PROVE  AccountsInv'
<1> DEFINE o == req[p]
<1>1. /\ o \in HTTPRequest /\ Local(o) /\ o.pc = "redeem" /\ o.key \in Keys
      /\ o.job = "callback" /\ ~o.fresh /\ ~o.linked
  BY OneRequest DEF RedeemState, Local, Control, Adding, Linking
<1>2. UNCHANGED <<account, identity, link, vouched>>
  BY DEF RedeemState, tables
<1>3. \A q \in Clients : Undisturbed(q)
  BY <1>2, NothingDisturbed
<1>4. CASE key[o.key] = State
  <2>1. PICK r : r = [o EXCEPT !.pc = "answer"]
    OBVIOUS
  <2>2. /\ Become(p, r) /\ key' = [key EXCEPT ![o.key] = Gone]
        /\ spent' = [spent EXCEPT ![o.key] = @ + 1]
    BY <1>4, <2>1 DEF RedeemState, Honour
  <2>3. r \in HTTPRequest
    BY <1>1, <2>1 DEF HTTPRequest
  <2>4. r.pc = "answer" /\ r.job = "callback" /\ ~r.fresh /\ ~r.linked
    BY <1>1, <2>1 DEF HTTPRequest
  <2>5. Types'
    BY <1>1, <1>2, <2>2, <2>3, Values DEF AccountsInv, Types, Become
  <2>6. SpentOnce'
    BY <1>1, <1>2, <1>4, <2>2, Values, SecretsAssumption
    DEF AccountsInv, Types, Rows, SpentOnce
  <2>7. \A k \in Keys : IsTicket(k)' => key'[k] = key[k]
    BY <1>1, <2>2, Values DEF AccountsInv, Types, IsTicket
  <2>8. Rows'
    BY <1>2, <2>6, <2>7, RowsStay DEF Rows
  <2>9. Local(r)'
    BY <2>4
    DEF Local, Control, Claiming, Adding, Linking, Asking, Using, InSignIn, Registering
  <2>10. QED
    BY <1>3, <2>2, <2>3, <2>4, <2>5, <2>8, <2>9, Unreserved, BecomeStep DEF Locking
<1>5. CASE key[o.key] # State
  <2>1. Stop(p)
    BY <1>2, <1>5 DEF RedeemState, Stop, Move, tables
  <2>2. QED
    BY <2>1, StopStep
<1>6. QED
  BY <1>4, <1>5

LEMMA VerifyStep ==
  ASSUME AccountsInv, NEW p \in Clients, Verify(p)
  PROVE  AccountsInv'
<1> DEFINE o == req[p]
<1>1. /\ o \in HTTPRequest /\ Local(o) /\ o.pc = "answer" /\ o.job = "callback"
      /\ ~o.fresh /\ ~o.linked
  BY OneRequest DEF Verify, Local, Control, Adding, Linking
<1>2. PICK c \in Claims :
        /\ Become(p, [o EXCEPT !.pc = "findIdentity", !.claim = c, !.email = c.email,
                               !.key = Nil])
        /\ vouched' = IF c.verified THEN vouched \cup {<<c.subject, c.email>>} ELSE vouched
  BY DEF Verify
<1>3. PICK r : r = [o EXCEPT !.pc = "findIdentity", !.claim = c, !.email = c.email, !.key = Nil]
  OBVIOUS
<1>4. UNCHANGED <<account, identity, link, key, spent>>
  BY DEF Verify, tables
<1>5. c.subject \in Subjects /\ c.email \in Emails \cup {Blank}
  BY ClaimsAssumption DEF Claim
<1>6. r \in HTTPRequest
  BY <1>1, <1>3, <1>5 DEF HTTPRequest
<1>7. /\ r.pc = "findIdentity" /\ r.job = "callback" /\ r.claim = c /\ r.email = c.email
      /\ ~r.fresh /\ ~r.linked
  BY <1>1, <1>3 DEF HTTPRequest
<1>8. Types'
  BY <1>2, <1>3, <1>4, <1>5, <1>6 DEF AccountsInv, Types, Become
<1>9. Rows'
  <2>1. SpentOnce'
    BY <1>4 DEF AccountsInv, Rows, SpentOnce
  <2>2. QED
    BY <1>2, <1>4, <2>1, RowsStay DEF Rows, IsTicket
<1>10. Local(r)'
  BY <1>2, <1>7
  DEF Local, Control, Claiming, Adding, Linking, Asking, Using, InSignIn, Registering
<1>11. \A q \in Clients : Undisturbed(q)
  BY <1>2, <1>4, NothingDisturbed
<1>12. QED
  BY <1>2, <1>3, <1>6, <1>7, <1>8, <1>9, <1>10, <1>11, Unreserved, BecomeStep DEF Locking

\* A ticket is for the account its provider account is linked to.
LEMMA MintTicketStep ==
  ASSUME AccountsInv, NEW p \in Clients, MintTicket(p)
  PROVE  AccountsInv'
<1> DEFINE o == req[p]
           x == Ticket(o)
<1>1. /\ o \in HTTPRequest /\ o.claim \in Claims /\ o.user \in Ids
      /\ identity[o.claim.subject] = o.user
  BY OneRequest DEF MintTicket, Local, Control, Claiming, InSignIn, Linking
<1>2. PICK k \in Keys : key[k] = Unused /\ key' = [key EXCEPT ![k] = x]
  BY DEF MintTicket
<1>3. Become(p, Answered) /\ UNCHANGED <<account, identity, link, spent, vouched>>
  BY DEF MintTicket, tables
<1>4. /\ x.kind = "ticket" /\ x.user = o.user /\ x.subject = o.claim.subject
      /\ x \in RedisValue
  <2>1. o.claim.subject \in Subjects
    BY <1>1, ClaimsAssumption DEF Claim
  <2>2. x = [kind |-> "ticket", user |-> o.user, subject |-> o.claim.subject]
    BY DEF Ticket
  <2>3. QED
    BY <1>1, <2>1, <2>2 DEF RedisValue
<1> HIDE DEF x
<1>5. Types'
  BY <1>2, <1>3, <1>4, EmptyRequests DEF AccountsInv, Types, Become
<1>6. SpentOnce'
  BY <1>2, <1>3, <1>4, Values DEF AccountsInv, Types, Rows, SpentOnce
<1>7. \A l \in Keys : IsTicket(l)' => identity'[key'[l].subject] = key'[l].user
  BY <1>1, <1>2, <1>3, <1>4 DEF AccountsInv, Types, Rows, IdentitiesAreEarned, IsTicket
<1>8. Rows'
  BY <1>3, <1>6, <1>7, RowsStay DEF Rows
<1>9. QED
  BY <1>3, <1>5, <1>8, NothingDisturbed, AnswerStep

LEMMA KeyStep ==
  ASSUME AccountsInv, NEW k \in Keys, SetState(k) \/ Exchange(k) \/ ExpireKey(k)
  PROVE  AccountsInv'
<1>1. UNCHANGED <<account, identity, link, req, vouched>>
  BY DEF SetState, Exchange, ExpireKey, tables
<1>2. \/ key[k] = Unused /\ key' = [key EXCEPT ![k] = State] /\ spent' = spent
      \/ /\ key[k].kind = "ticket" /\ key' = [key EXCEPT ![k] = Gone]
         /\ spent' = [spent EXCEPT ![k] = @ + 1]
      \/ key[k].kind \in {"state", "ticket"} /\ key' = [key EXCEPT ![k] = Gone] /\ spent' = spent
  BY DEF SetState, Exchange, ExpireKey, IsTicket, Honour
<1>3. Types'
  BY <1>1, <1>2, Values DEF AccountsInv, Types
<1>4. SpentOnce'
  BY <1>1, <1>2, Values, SecretsAssumption DEF AccountsInv, Types, Rows, SpentOnce
<1>5. \A l \in Keys : IsTicket(l)' => key'[l] = key[l]
  BY <1>2, Values DEF AccountsInv, Types, IsTicket
<1>6. Rows'
  BY <1>1, <1>4, <1>5, RowsStay DEF Rows
<1>7. QED
  BY <1>1, <1>3, <1>6, NothingDisturbed, RowsStep

\* The row of a new link.
LEMMA NewLinkFacts ==
  ASSUME NEW r, r.user \in Ids
  PROVE  /\ NewLink(r) \in LinkRow /\ NewLink(r) # Nil /\ NewLink(r).user = r.user
         /\ ~NewLink(r).used /\ (NewLink(r).kind = "reset" => r.job = "forgot")
<1>1. NewLink(r) \in LinkRow
  BY DEF NewLink, LinkRow
<1>2. QED
  BY <1>1, NilAssumption DEF NewLink

\* A link that nobody has becomes the link of the account's holder.
LEMMA IssueStep ==
  ASSUME AccountsInv, NEW p \in Clients, Issue(p)
  PROVE  AccountsInv'
<1> DEFINE o == req[p]
<1>1. /\ o \in HTTPRequest /\ Local(o) /\ o.pc = "issue"
      /\ \A q \in Clients \ {p} : Apart(o, req[q]) /\ Apart(req[q], o)
  BY OneRequest DEF Issue
<1>2. PICK l \in Links :
        /\ link[l] = Nil /\ \A q \in Clients : req[q].link # l
        /\ IF o.job = "register"
             THEN Become(p, [o EXCEPT !.pc = "commit", !.link = l]) /\ UNCHANGED link
             ELSE Become(p, Answered) /\ link' = [link EXCEPT ![l] = NewLink(o)]
  BY DEF Issue
<1>3. UNCHANGED <<account, identity, key, spent, vouched>>
  BY DEF Issue
<1>4. CASE o.job = "register"
  <2>1. PICK r : r = [o EXCEPT !.pc = "commit", !.link = l]
    OBVIOUS
  <2>2. Move(p, r)
    BY <1>2, <1>3, <1>4, <2>1 DEF Move, tables
  <2>3. r \in HTTPRequest
    BY <1>1, <2>1 DEF HTTPRequest
  <2>4. /\ r.pc = "commit" /\ r.job = "register" /\ r.link = l /\ r.user = o.user
        /\ r.email = o.email /\ r.claim = o.claim /\ (r.fresh <=> o.fresh) /\ ~r.linked
    BY <1>1, <1>4, <2>1 DEF HTTPRequest, Local, Linking
  <2>5. Local(r)
    BY <1>1, <1>2, <1>4, <2>4
    DEF Local, Control, Claiming, Adding, Linking, Asking, Using, InSignIn, Registering, LinkJobs
  <2>6. ASSUME NEW q \in Clients \ {p} PROVE Apart(r, req[q]) /\ Apart(req[q], r)
    BY <1>1, <1>2, <2>4 DEF Apart
  <2>7. QED
    BY <2>2, <2>3, <2>5, <2>6, MoveStep
<1>5. CASE o.job # "register"
  <2> DEFINE n == NewLink(o)
  <2>1. /\ o.job \in {"resend", "forgot"} /\ o.user \in Ids /\ Exists(o.user)
        /\ account[o.user].email = o.email /\ o.email \in Emails
    BY <1>1, <1>5 DEF Local, Control, Asking
  <2>2. /\ n \in LinkRow /\ n # Nil /\ n.user = o.user /\ ~n.used
        /\ Become(p, Answered) /\ link' = [link EXCEPT ![l] = n]
    BY <1>2, <1>5, <2>1, NewLinkFacts
  <2> HIDE DEF n
  <2>3. link'[l] = n /\ \A x \in Links \ {l} : link'[x] = link[x]
    BY <2>2 DEF AccountsInv, Types
  <2>4. Types'
    BY <1>3, <2>2, EmptyRequests DEF AccountsInv, Types, Become
  <2>5. LinksHaveUsers'
    BY <1>3, <2>1, <2>2, <2>3, BlankAssumption DEF AccountsInv, Rows, LinksHaveUsers, Exists
  <2>6. SpentOnce'
    BY <1>2, <1>3, <2>2, <2>3 DEF AccountsInv, Rows, SpentOnce
  <2>7. (OneHolder /\ OneIdentity /\ BlankHasNoPassword /\ IdentitiesAreEarned)'
    BY <1>3
    DEF AccountsInv, Rows, OneHolder, OneIdentity, BlankHasNoPassword, IdentitiesAreEarned,
        Current, Exists, IsTicket
  <2>8. ASSUME NEW q \in Clients \ {p} PROVE Undisturbed(q)
    <3>1. /\ Local(req[q]) /\ req[q].link # l
          /\ account' = account /\ identity' = identity /\ vouched' = vouched
      BY <1>2, <1>3, OneRequest
    <3>2. /\ \A x \in Links : link[x] # Nil => link'[x] = link[x]
          /\ Locking(req[q]) => link'[req[q].link] = link[req[q].link]
      BY <1>2, <2>3, <3>1 DEF Local, Control, Using, Locking, LinkJobs
    <3>3. QED
      BY <3>1, <3>2
      DEF Local, Control, Adding, Holders, Current, Exists, Linking, Linkable, Using, Locking,
          LinkJobs, Undisturbed
  <2>9. QED
    BY <2>2, <2>4, <2>5, <2>6, <2>7, <2>8, AnswerStep DEF Rows
<1>6. QED
  BY <1>4, <1>5

\* The account and its link, of which nobody else has either.
LEMMA CommitRegisterStep ==
  ASSUME AccountsInv, NEW p \in Clients, CommitRegister(p)
  PROVE  AccountsInv'
<1> DEFINE o == req[p]
           u == o.user
           l == o.link
           a == NewAccount(o)
           n == NewLink(o)
<1>1. /\ o \in HTTPRequest /\ Local(o) /\ o.pc = "commit" /\ o.job = "register"
      /\ \A q \in Clients \ {p} : Apart(o, req[q]) /\ Apart(req[q], o)
  BY OneRequest DEF CommitRegister
<1>2. /\ o.fresh /\ u \in Ids /\ ~Exists(u) /\ Holders(o.email) = {} /\ o.claim = Nil
      /\ o.email \in Emails /\ l \in Links /\ link[l] = Nil
  BY <1>1 DEF Local, Adding, Claiming, Registering, Using
<1>3. /\ Become(p, Answered) /\ account' = [account EXCEPT ![u] = a]
      /\ link' = [link EXCEPT ![l] = n] /\ UNCHANGED <<identity, key, spent, vouched>>
  BY DEF CommitRegister
<1>4. /\ a \in Account /\ a # Nil /\ a.email = o.email /\ ~a.gone /\ a.born = Nil
  <2>1. a \in Account
    BY <1>1, <1>2 DEF NewAccount, Account
  <2>2. QED
    BY <1>2, <2>1, NilAssumption DEF NewAccount
<1>5. n \in LinkRow /\ n # Nil /\ n.user = u /\ ~n.used /\ n.kind # "reset"
  BY <1>1, <1>2, NewLinkFacts
<1> HIDE DEF a, n
<1>6. /\ account'[u] = a /\ \A v \in Ids \ {u} : account'[v] = account[v]
      /\ link'[l] = n /\ \A x \in Links \ {l} : link'[x] = link[x]
  BY <1>2, <1>3 DEF AccountsInv, Types
<1>7. Types'
  BY <1>3, <1>4, <1>5, EmptyRequests DEF AccountsInv, Types, Become
<1>8. OneHolder'
  BY <1>2, <1>4, <1>6 DEF AccountsInv, Rows, OneHolder, Holders, Current, Exists
<1>9. (OneIdentity /\ SpentOnce)'
  BY <1>2, <1>3, <1>5, <1>6 DEF AccountsInv, Rows, OneIdentity, SpentOnce
<1>10. LinksHaveUsers'
  <2>1. ASSUME NEW x \in Links, link'[x] # Nil
        PROVE  /\ account'[link'[x].user] # Nil
               /\ link'[x].kind = "reset" => account'[link'[x].user].email # Blank
    <3>1. CASE x = l
      BY <1>2, <1>4, <1>5, <1>6, <3>1
    <3>2. CASE x # l
      BY <1>2, <1>6, <2>1, <3>2 DEF AccountsInv, Types, Rows, LinksHaveUsers, LinkRow, Exists
    <3>3. QED
      BY <3>1, <3>2
  <2>2. QED
    BY <2>1 DEF LinksHaveUsers, Exists
<1>11. BlankHasNoPassword'
  BY <1>2, <1>4, <1>6, BlankAssumption DEF AccountsInv, Rows, BlankHasNoPassword, Exists
<1>12. IdentitiesAreEarned'
  <2>1. \A s \in Subjects : identity[s] # u
    BY <1>2, NilAssumption DEF AccountsInv, Rows, IdentitiesAreEarned
  <2>2. \A s \in Subjects : identity[s] # Nil => account'[identity[s]] = account[identity[s]]
    BY <1>6, <2>1 DEF AccountsInv, Types
  <2>3. QED
    BY <1>3, <1>4, <1>6, <2>2
    DEF AccountsInv, Rows, IdentitiesAreEarned, Exists, IsTicket
<1>13. ASSUME NEW q \in Clients \ {p} PROVE Undisturbed(q)
  <2> DEFINE r == req[q]
  <2>1. Local(r) /\ Apart(o, r)
    BY <1>1, OneRequest
  <2>2. r.fresh =>
          /\ account'[r.user] = Nil
          /\ \A v \in Ids : account'[v] # Nil /\ account'[v].email = r.email => account'[v].gone
    BY <1>2, <1>4, <1>6, <2>1 DEF Local, Adding, Apart, Holders, Current, Exists
  <2>3. r.linked =>
          /\ identity'[r.claim.subject] = Nil
          /\ \A t \in Subjects :
               identity'[t] = r.user => ProviderOf[t] # ProviderOf[r.claim.subject]
    BY <1>3, <2>1 DEF Local, Linking, Linkable
  <2>4. Locking(r) => IF r.job = "register" THEN link'[r.link] = Nil ELSE ~link'[r.link].used
    BY <1>1, <1>6, <2>1 DEF Local, Control, Using, Apart, Locking, LinkJobs
  <2>5. QED
    BY <1>2, <1>3, <1>6, <2>2, <2>3, <2>4 DEF Undisturbed, Exists
<1>14. QED
  BY <1>3, <1>7, <1>8, <1>9, <1>10, <1>11, <1>12, <1>13, AnswerStep DEF Rows

\* The account a sign-in has inserted, and the link it has earned.
LEMMA CommitSignInStep ==
  ASSUME AccountsInv, NEW p \in Clients, CommitSignIn(p)
  PROVE  AccountsInv'
<1> DEFINE o == req[p]
           u == o.user
           c == o.claim.subject
           a == NewAccount(o)
<1>1. /\ o \in HTTPRequest /\ Local(o) /\ o.pc = "commit" /\ o.job = "callback"
      /\ \A q \in Clients \ {p} : Apart(o, req[q]) /\ Apart(req[q], o)
  BY OneRequest DEF CommitSignIn
<1>2. /\ o.claim \in Claims /\ c \in Subjects /\ o.claim # Nil /\ u \in Ids
      /\ o.email \in Emails \cup {Blank}
  BY <1>1, ClaimsAssumption, NilAssumption
  DEF Local, Claiming, InSignIn, Adding, Linking, Earned, Claim
<1>3. PICK r : r = [o EXCEPT !.pc = "mint", !.fresh = FALSE, !.linked = FALSE]
  OBVIOUS
<1>4. /\ Become(p, r) /\ UNCHANGED <<link, key, spent, vouched>>
      /\ account' = IF o.fresh THEN [account EXCEPT ![u] = a] ELSE account
      /\ identity' = IF o.linked THEN [identity EXCEPT ![c] = u] ELSE identity
  BY <1>3 DEF CommitSignIn
<1>5. r \in HTTPRequest
  BY <1>1, <1>3 DEF HTTPRequest
<1>6. /\ r.pc = "mint" /\ r.job = "callback" /\ r.claim = o.claim /\ r.email = o.email
      /\ r.user = u /\ ~r.fresh /\ ~r.linked
  BY <1>1, <1>3 DEF HTTPRequest
<1>7. /\ a \in Account /\ a # Nil /\ a.email = o.email /\ ~a.gone /\ a.born = c /\ ~a.password
  <2>1. a \in Account
    BY <1>1, <1>2 DEF NewAccount, Account
  <2>2. QED
    BY <1>1, <1>2, <2>1, NilAssumption DEF NewAccount
<1> HIDE DEF a
<1>8. /\ o.fresh => o.linked /\ ~Exists(u) /\ Holders(o.email) = {} /\ account'[u] = a
      /\ ~o.fresh => account' = account
      /\ \A v \in Ids \ {u} : account'[v] = account[v]
  BY <1>1, <1>2, <1>4 DEF AccountsInv, Types, Local, Adding, Linking
<1>9. /\ identity'[c] = u
      /\ \A s \in Subjects \ {c} : identity'[s] = identity[s]
      /\ o.linked => Linkable(c, u)
      /\ ~o.linked => identity' = identity
  BY <1>1, <1>2, <1>4 DEF AccountsInv, Types, Local, Linking
<1>10. /\ (account'[u] # Nil /\ account'[u].email = o.email) \/ ~o.linked
       /\ o.linked /\ ~o.fresh => <<c, o.email>> \in vouched
  BY <1>1, <1>2, <1>7, <1>8
  DEF AccountsInv, Rows, IdentitiesAreEarned, Local, Adding, Linking, Earned, Exists
<1>11. Types'
  BY <1>1, <1>2, <1>4, <1>5, <1>7 DEF AccountsInv, Types, Become
<1>12. OneHolder'
  BY <1>2, <1>7, <1>8 DEF AccountsInv, Rows, OneHolder, Holders, Current, Exists
<1>13. OneIdentity'
  BY <1>2, <1>9, NilAssumption DEF AccountsInv, Rows, OneIdentity, Linkable
<1>14. LinksHaveUsers'
  <2>1. ASSUME NEW x \in Links, link[x] # Nil
        PROVE  account'[link[x].user] = account[link[x].user]
    BY <1>8, <2>1 DEF AccountsInv, Types, Rows, LinksHaveUsers, LinkRow, Exists
  <2>2. QED
    BY <1>4, <2>1 DEF AccountsInv, Rows, LinksHaveUsers, Exists
<1>15. BlankHasNoPassword'
  BY <1>2, <1>7, <1>8 DEF AccountsInv, Rows, BlankHasNoPassword, Exists
<1>16. SpentOnce'
  BY <1>4 DEF AccountsInv, Rows, SpentOnce
<1>17. IdentitiesAreEarned'
  <2>1. ASSUME NEW s \in Subjects, identity'[s] # Nil
        PROVE  /\ account'[identity'[s]] # Nil
               /\ \/ account'[identity'[s]].born = s
                  \/ <<s, account'[identity'[s]].email>> \in vouched
    <3>1. CASE s = c /\ o.linked
      BY <1>7, <1>8, <1>9, <1>10, <3>1
    <3>2. CASE ~(s = c /\ o.linked)
      <4>1. identity'[s] = identity[s] /\ identity[s] \in Ids
        BY <1>9, <2>1, <3>2 DEF AccountsInv, Types
      <4>2. account'[identity[s]] = account[identity[s]]
        BY <1>8, <2>1, <4>1, NilAssumption DEF AccountsInv, Rows, IdentitiesAreEarned
      <4>3. QED
        BY <2>1, <4>1, <4>2 DEF AccountsInv, Rows, IdentitiesAreEarned, Exists
    <3>3. QED
      BY <3>1, <3>2
  <2>2. ASSUME NEW v \in Ids, account'[v] # Nil, account'[v].born # Nil
        PROVE  identity'[account'[v].born] = v
    <3>1. CASE v = u /\ o.fresh
      BY <1>7, <1>8, <1>9, <3>1
    <3>2. CASE ~(v = u /\ o.fresh)
      <4>1. account'[v] = account[v]
        BY <1>8, <3>2
      <4>2. identity[account[v].born] = v /\ account[v].born \in Subjects
        BY <2>2, <4>1 DEF AccountsInv, Types, Account, Rows, IdentitiesAreEarned, Exists
      <4>3. QED
        BY <1>9, <4>1, <4>2, NilAssumption DEF Linkable
    <3>3. QED
      BY <3>1, <3>2
  <2>3. ASSUME NEW k \in Keys, IsTicket(k) PROVE identity'[key[k].subject] = key[k].user
    <3>1. key[k].subject \in Subjects /\ key[k].user \in Ids
      BY <2>3, Values DEF AccountsInv, Types, RedisValue, IsTicket
    <3>2. QED
      BY <1>9, <2>3, <3>1, NilAssumption
      DEF AccountsInv, Rows, IdentitiesAreEarned, Linkable
  <2>4. QED
    BY <1>4, <2>1, <2>2, <2>3 DEF IdentitiesAreEarned, Exists, IsTicket
<1>18. Local(r)'
  <2>1. Claiming(r)'
    BY <1>1, <1>4, <1>6 DEF Local, Claiming, InSignIn, Registering
  <2>2. Linking(r)'
    BY <1>2, <1>6, <1>9 DEF Linking
  <2>3. QED
    BY <1>6, <2>1, <2>2 DEF Local, Control, Adding, Asking, Using
<1>19. ASSUME NEW q \in Clients \ {p} PROVE Undisturbed(q)
  <2> DEFINE s == req[q]
  <2>1. Local(s) /\ Apart(o, s)
    BY <1>1, OneRequest
  <2>2. s.fresh =>
          /\ account'[s.user] = Nil
          /\ \A v \in Ids : account'[v] # Nil /\ account'[v].email = s.email => account'[v].gone
    BY <1>2, <1>7, <1>8, <2>1 DEF Local, Adding, Apart, Holders, Current, Exists
  <2>3. s.linked => s.claim.subject \in Subjects
    BY <2>1, ClaimsAssumption DEF Local, Claiming, InSignIn, Linking, Claim
  <2>4. s.linked =>
          /\ identity'[s.claim.subject] = Nil
          /\ \A t \in Subjects :
               identity'[t] = s.user => ProviderOf[t] # ProviderOf[s.claim.subject]
    BY <1>2, <1>9, <2>1, <2>3 DEF Local, Linking, Linkable, Apart
  <2>5. Locking(s) => IF s.job = "register" THEN link'[s.link] = Nil ELSE ~link'[s.link].used
    BY <1>4, <2>1 DEF Local, Control, Using, Locking, LinkJobs
  <2>6. \A x \in Subjects : identity[x] # Nil => identity'[x] = identity[x]
    BY <1>9 DEF Linkable
  <2>7. QED
    BY <1>4, <1>8, <2>2, <2>4, <2>5, <2>6 DEF Undisturbed, Exists
<1>20. QED
  BY <1>4, <1>5, <1>6, <1>11, <1>12, <1>13, <1>14, <1>15, <1>16, <1>17, <1>18, <1>19,
     Unreserved, BecomeStep
  DEF Rows, Locking

\* The link is used for the first time: it was locked since it was found unused.
LEMMA CommitUseStep ==
  ASSUME AccountsInv, NEW p \in Clients, CommitUse(p)
  PROVE  AccountsInv'
<1> DEFINE o == req[p]
           u == o.user
           l == o.link
<1>1. /\ o \in HTTPRequest /\ Local(o) /\ o.pc = "commit" /\ o.job \in LinkJobs
      /\ \A q \in Clients \ {p} : Apart(o, req[q]) /\ Apart(req[q], o)
  BY OneRequest DEF CommitUse, LinkJobs
<1>2. /\ l \in Links /\ link[l] # Nil /\ link[l].kind = o.job /\ link[l].user = u
      /\ ~link[l].used /\ link[l] \in LinkRow
  BY <1>1 DEF Local, Using, AccountsInv, Types
<1>3. /\ u \in Ids /\ Exists(u) /\ account[u] \in Account
      /\ o.job = "reset" => account[u].email # Blank
  BY <1>1, <1>2 DEF AccountsInv, Types, Rows, LinksHaveUsers, LinkRow, Exists
<1>4. /\ Become(p, Answered) /\ UNCHANGED <<identity, key, vouched>>
      /\ link' = [link EXCEPT ![l].used = TRUE] /\ spent' = [spent EXCEPT ![l] = @ + 1]
      /\ account' = IF o.job = "reset" THEN [account EXCEPT ![u].password = TRUE] ELSE account
  BY DEF CommitUse, Honour
<1>5. /\ link'[l] = [link[l] EXCEPT !.used = TRUE]
      /\ \A x \in Links \ {l} : link'[x] = link[x]
  BY <1>2, <1>4 DEF AccountsInv, Types
<1>6. /\ link'[l] \in LinkRow /\ link'[l] # Nil /\ link'[l].used
      /\ link'[l].kind = link[l].kind /\ link'[l].user = link[l].user
  BY ZenonT(60), <1>2, <1>5, NilAssumption DEF LinkRow
<1>7. /\ account'[u] \in Account /\ account'[u] # Nil /\ account'[u].email = account[u].email
      /\ account'[u].gone = account[u].gone /\ account'[u].born = account[u].born
      /\ account'[u].password => account[u].password \/ account[u].email # Blank
      /\ \A v \in Ids \ {u} : account'[v] = account[v]
  <2>1. CASE o.job = "reset"
    <3>1. account'[u] = [account[u] EXCEPT !.password = TRUE]
      BY <1>3, <1>4, <2>1 DEF AccountsInv, Types
    <3>2. account'[u] \in Account
      BY <1>3, <3>1 DEF Account
    <3>3. QED
      BY ZenonT(60), <1>3, <1>4, <2>1, <3>1, <3>2, NilAssumption DEF AccountsInv, Types, Account
  <2>2. CASE o.job # "reset"
    BY <1>3, <1>4, <2>2 DEF Exists
  <2>3. QED
    BY <2>1, <2>2
<1>8. \A v \in Ids :
        /\ (account'[v] # Nil <=> account[v] # Nil)
        /\ account[v] # Nil => /\ account'[v].email = account[v].email
                               /\ account'[v].gone = account[v].gone
                               /\ account'[v].born = account[v].born
  BY <1>3, <1>7 DEF Exists
<1>9. Types'
  <2>1. account' \in [Ids -> Account \cup {Nil}]
    BY <1>3, <1>4, <1>7 DEF AccountsInv, Types
  <2>2. link' \in [Links -> LinkRow \cup {Nil}]
    BY <1>2, <1>4, <1>6 DEF AccountsInv, Types
  <2>3. QED
    BY <1>2, <1>4, <2>1, <2>2, EmptyRequests DEF AccountsInv, Types, Become
<1>10. (OneHolder /\ OneIdentity)'
  BY <1>4, <1>8 DEF AccountsInv, Rows, OneHolder, OneIdentity, Current, Exists
<1>11. LinksHaveUsers'
  <2>1. ASSUME NEW x \in Links, link'[x] # Nil
        PROVE  /\ link[x] # Nil /\ link'[x].user = link[x].user /\ link'[x].kind = link[x].kind
               /\ link[x].user \in Ids
    BY <1>2, <1>5, <1>6, <2>1 DEF AccountsInv, Types, LinkRow
  <2>2. QED
    BY <1>8, <2>1 DEF AccountsInv, Rows, LinksHaveUsers, Exists
<1>12. BlankHasNoPassword'
  BY <1>7, <1>8 DEF AccountsInv, Rows, BlankHasNoPassword, Exists
<1>13. SpentOnce'
  BY <1>2, <1>4, <1>5, <1>6, SecretsAssumption DEF AccountsInv, Types, Rows, SpentOnce
<1>14. IdentitiesAreEarned'
  <2>1. identity \in [Subjects -> Ids \cup {Nil}]
    BY DEF AccountsInv, Types
  <2>2. QED
    BY SMTT(30), <1>4, <1>8, <2>1 DEF AccountsInv, Rows, IdentitiesAreEarned, Exists, IsTicket
<1>15. ASSUME NEW q \in Clients \ {p} PROVE Undisturbed(q)
  <2> DEFINE s == req[q]
  <2>1. Local(s) /\ Apart(o, s)
    BY <1>1, OneRequest
  <2>2. s.fresh =>
          /\ account'[s.user] = Nil
          /\ \A v \in Ids : account'[v] # Nil /\ account'[v].email = s.email => account'[v].gone
    BY <1>8, <2>1 DEF Local, Adding, Holders, Current, Exists
  <2>3. s.linked =>
          /\ identity'[s.claim.subject] = Nil
          /\ \A t \in Subjects :
               identity'[t] = s.user => ProviderOf[t] # ProviderOf[s.claim.subject]
    BY <1>4, <2>1 DEF Local, Linking, Linkable
  <2>4. Locking(s) => IF s.job = "register" THEN link'[s.link] = Nil ELSE ~link'[s.link].used
    BY <1>1, <1>5, <2>1 DEF Local, Control, Using, Apart, Locking, LinkJobs
  <2>5. \A x \in Links : link[x] # Nil =>
          link'[x] # Nil /\ link'[x].kind = link[x].kind /\ link'[x].user = link[x].user
    BY <1>5, <1>6
  <2>6. QED
    BY <1>4, <1>8, <2>2, <2>3, <2>4, <2>5 DEF Undisturbed, Exists
<1>16. QED
  BY <1>4, <1>9, <1>10, <1>11, <1>12, <1>13, <1>14, <1>15, AnswerStep DEF Rows

LEMMA AgeStep ==
  ASSUME AccountsInv, NEW l \in Links, Age(l)
  PROVE  AccountsInv'
<1>1. /\ link[l] # Nil /\ link[l] \in LinkRow
      /\ link' = [link EXCEPT ![l] = IF @.recent THEN [@ EXCEPT !.recent = FALSE]
                                     ELSE [@ EXCEPT !.expired = TRUE]]
      /\ UNCHANGED <<account, identity, key, req, spent, vouched>>
  BY DEF Age, AccountsInv, Types
<1>2. PICK n : n = IF link[l].recent THEN [link[l] EXCEPT !.recent = FALSE]
                   ELSE [link[l] EXCEPT !.expired = TRUE]
  OBVIOUS
<1>3. /\ n \in LinkRow /\ n # Nil /\ n.kind = link[l].kind /\ n.user = link[l].user
      /\ (n.used <=> link[l].used)
  BY <1>1, <1>2, NilAssumption DEF LinkRow
<1>4. link' = [link EXCEPT ![l] = n]
  BY <1>1, <1>2 DEF AccountsInv, Types
<1>5. \A x \in Links :
        /\ (link'[x] # Nil <=> link[x] # Nil)
        /\ link[x] # Nil => /\ link'[x].kind = link[x].kind /\ link'[x].user = link[x].user
                            /\ (link'[x].used <=> link[x].used)
  BY <1>1, <1>3, <1>4 DEF AccountsInv, Types
<1>6. Types'
  BY <1>1, <1>3, <1>4 DEF AccountsInv, Types
<1>7. (OneHolder /\ OneIdentity /\ BlankHasNoPassword /\ IdentitiesAreEarned)'
  BY <1>1
  DEF AccountsInv, Rows, OneHolder, OneIdentity, BlankHasNoPassword, IdentitiesAreEarned,
      Current, Exists, IsTicket
<1>8. (LinksHaveUsers /\ SpentOnce)'
  BY <1>1, <1>5 DEF AccountsInv, Rows, LinksHaveUsers, SpentOnce, Exists
<1>9. ASSUME NEW q \in Clients PROVE Undisturbed(q)
  <2> DEFINE r == req[q]
  <2>1. Local(r)
    BY OneRequest
  <2>2. Locking(r) => IF r.job = "register" THEN link'[r.link] = Nil ELSE ~link'[r.link].used
    BY <1>5, <2>1 DEF Local, Control, Using, Locking, LinkJobs
  <2>3. r.fresh =>
          /\ account'[r.user] = Nil
          /\ \A v \in Ids : account'[v] # Nil /\ account'[v].email = r.email => account'[v].gone
    BY <1>1, <2>1 DEF Local, Adding, Holders, Current, Exists
  <2>4. r.linked =>
          /\ identity'[r.claim.subject] = Nil
          /\ \A t \in Subjects :
               identity'[t] = r.user => ProviderOf[t] # ProviderOf[r.claim.subject]
    BY <1>1, <2>1 DEF Local, Linking, Linkable
  <2>5. QED
    BY <1>1, <1>5, <2>2, <2>3, <2>4 DEF Undisturbed, Exists
<1>10. QED
  BY <1>1, <1>6, <1>7, <1>8, <1>9, RowsStep DEF Rows

LEMMA CommitDeleteStep ==
  ASSUME AccountsInv, NEW p \in Clients, CommitDelete(p)
  PROVE  AccountsInv'
<1> DEFINE o == req[p]
           u == o.user
<1>1. Become(p, Answered) /\ UNCHANGED <<identity, link, key, spent, vouched>>
  BY DEF CommitDelete
<1>0. /\ u \in Ids /\ Exists(u) /\ account[u] \in Account
      /\ account' = [account EXCEPT ![u].gone = TRUE, ![u].password = FALSE]
  BY OneRequest DEF CommitDelete, Local, Asking, Exists, AccountsInv, Types
<1>2. PICK a : a = [account[u] EXCEPT !.gone = TRUE, !.password = FALSE]
  OBVIOUS
<1>3. /\ a \in Account /\ a # Nil /\ a.email = account[u].email /\ a.born = account[u].born
      /\ a.gone /\ ~a.password
  BY <1>0, <1>2, NilAssumption DEF Account
<1>4. account' = [account EXCEPT ![u] = a]
  BY <1>0, <1>2 DEF AccountsInv, Types
<1>5. \A v \in Ids :
        /\ (account'[v] # Nil <=> account[v] # Nil)
        /\ account[v] # Nil => /\ account'[v].email = account[v].email
                               /\ account[v].gone => account'[v].gone
                               /\ account'[v].password => account[v].password
                               /\ account'[v].born = account[v].born
  BY <1>0, <1>3, <1>4 DEF AccountsInv, Types, Exists
<1>6. Types'
  BY <1>0, <1>1, <1>3, <1>4, EmptyRequests DEF AccountsInv, Types, Become
<1>7. (OneHolder /\ OneIdentity /\ BlankHasNoPassword /\ SpentOnce)'
  BY <1>1, <1>5
  DEF AccountsInv, Rows, OneHolder, OneIdentity, BlankHasNoPassword, SpentOnce, Current, Exists
<1>8. LinksHaveUsers'
  BY <1>1, <1>5 DEF AccountsInv, Types, LinkRow, Rows, LinksHaveUsers, Exists
<1>9. IdentitiesAreEarned'
  <2>1. identity \in [Subjects -> Ids \cup {Nil}]
    BY DEF AccountsInv, Types
  <2>2. QED
    BY <1>1, <1>5, <2>1 DEF AccountsInv, Rows, IdentitiesAreEarned, Exists, IsTicket
<1>10. ASSUME NEW q \in Clients \ {p} PROVE Undisturbed(q)
  <2> DEFINE r == req[q]
  <2>1. Local(r)
    BY OneRequest
  <2>2. Locking(r) => IF r.job = "register" THEN link'[r.link] = Nil ELSE ~link'[r.link].used
    BY <1>1, <2>1 DEF Local, Control, Using, Locking, LinkJobs
  <2>3. r.fresh =>
          /\ account'[r.user] = Nil
          /\ \A v \in Ids : account'[v] # Nil /\ account'[v].email = r.email => account'[v].gone
    BY <1>5, <2>1 DEF Local, Adding, Holders, Current, Exists
  <2>4. r.linked =>
          /\ identity'[r.claim.subject] = Nil
          /\ \A t \in Subjects :
               identity'[t] = r.user => ProviderOf[t] # ProviderOf[r.claim.subject]
    BY <1>1, <2>1 DEF Local, Linking, Linkable
  <2>5. QED
    BY <1>1, <1>5, <2>2, <2>3, <2>4 DEF Undisturbed, Exists
<1>11. QED
  BY <1>1, <1>6, <1>7, <1>8, <1>9, <1>10, AnswerStep DEF Rows

-----------------------------------------------------------------------------
(* The theorems.                                                           *)

LEMMA NextAccountsInv == AccountsInv /\ [AccountsNext]_accountsVars => AccountsInv'
<1> SUFFICES ASSUME AccountsInv, [AccountsNext]_accountsVars PROVE AccountsInv'
  OBVIOUS
<1>1. ASSUME NEW p \in Clients,
             \/ Request(p)
             \/ InsertUser(p) \/ EmailTaken(p) \/ Issue(p) \/ CommitRegister(p)
             \/ RedeemState(p) \/ Verify(p) \/ FindIdentity(p) \/ FindEmail(p)
             \/ LinkIdentity(p) \/ CreateSession(p) \/ CommitSignIn(p) \/ MintTicket(p)
      PROVE  AccountsInv'
  BY <1>1, BeginStep, InsertUserStep, StopStep, IssueStep, CommitRegisterStep, RedeemStateStep,
     VerifyStep, FindIdentityStep, FindEmailStep, LinkIdentityStep, CreateSessionStep,
     CommitSignInStep, MintTicketStep
  DEF EmailTaken
<1>2. ASSUME NEW p \in Clients,
             \/ FindUser(p) \/ Cooldown(p) \/ FindLink(p) \/ LockLink(p) \/ SetPassword(p)
             \/ CommitUse(p) \/ LockUser(p) \/ CommitDelete(p) \/ Fail(p)
      PROVE  AccountsInv'
  BY <1>2, FindUserStep, CooldownStep, FindLinkStep, LockLinkStep, SetPasswordStep,
     CommitUseStep, LockUserStep, CommitDeleteStep, StopStep
  DEF Fail
<1>3. ASSUME NEW k \in Keys, SetState(k) \/ Exchange(k) \/ ExpireKey(k) PROVE AccountsInv'
  BY <1>3, KeyStep
<1>4. ASSUME NEW l \in Links, Age(l) PROVE AccountsInv'
  BY <1>4, AgeStep
<1>5. CASE UNCHANGED accountsVars
  <2>1. UNCHANGED <<account, identity, link, key, req, spent, vouched>>
    BY <1>5 DEF accountsVars
  <2>2. Types' /\ SpentOnce'
    BY <2>1 DEF AccountsInv, Types, Rows, SpentOnce
  <2>3. Rows'
    BY <2>1, <2>2, RowsStay DEF Rows
  <2>4. QED
    BY <2>1, <2>2, <2>3, NothingDisturbed, RowsStep
<1>6. QED
  BY <1>1, <1>2, <1>3, <1>4, <1>5 DEF AccountsNext

LEMMA InvariantOfAccounts == AccountsSpec => []AccountsInv
  BY InitAccountsInv, NextAccountsInv, PTL DEF AccountsSpec

\* An address has one account, an account one provider account of each
\* provider, a link an account, and an account without an address no password.
THEOREM AccountsTypes == AccountsSpec => []AccountsTypeOK
<1>1. ASSUME AccountsInv, NEW e \in Emails \cup {Blank} PROVE Cardinality(Holders(e)) <= 1
  <2>1. \A u, v \in Holders(e) : u = v
    BY <1>1 DEF AccountsInv, Rows, OneHolder, Holders
  <2>2. CASE Holders(e) = {}
    BY <2>2, FS_EmptySet
  <2>3. CASE Holders(e) # {}
    <3>1. PICK u : Holders(e) = {u}
      BY <2>1, <2>3
    <3>2. QED
      BY <3>1, FS_Singleton
  <2>4. QED
    BY <2>2, <2>3
<1>2. AccountsInv => AccountsTypeOK
  BY <1>1
  DEF AccountsInv, Types, Rows, OneIdentity, LinksHaveUsers, BlankHasNoPassword, AccountsTypeOK
<1>3. QED
  BY <1>2, InvariantOfAccounts, PTL

\* A link, an OAuth state and an exchange ticket are each honoured at most once
\* (verification.go:81-84, password_reset.go:114-119, oauth.go:79-84, 211).
THEOREM SecretsServeOnce == AccountsSpec => []SecretsAreUsedOnce
<1>1. AccountsInv => SecretsAreUsedOnce
  BY DEF AccountsInv, Rows, SpentOnce, SecretsAreUsedOnce
<1>2. QED
  BY <1>1, InvariantOfAccounts, PTL

\* A provider account opens only an account it created or whose address its
\* provider vouched for, and a ticket is for that account (oauth.go:225-299).
THEOREM IdentitiesStayEarned == AccountsSpec => []IdentitiesAreEarned
<1>1. AccountsInv => IdentitiesAreEarned
  BY DEF AccountsInv, Rows
<1>2. QED
  BY <1>1, InvariantOfAccounts, PTL
=============================================================================
