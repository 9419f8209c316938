------------------------------ MODULE Accounts ------------------------------
(***************************************************************************)
(* How accounts come into being, are linked to provider accounts and end:  *)
(* registration, sign-in with Google or Apple (modules/auth/oauth.go,      *)
(* apple_oauth.go), verification and reset links (verification.go,         *)
(* password_reset.go) and account deletion (account/deletion.go), run      *)
(* concurrently against PostgreSQL under READ COMMITTED and Redis.  One    *)
(* action is one SQL statement, Redis command or answer of a provider.     *)
(* Sessions and refresh tokens are in module AuthSessions; here an INSERT  *)
(* of a session only takes its locks.                                      *)
(***************************************************************************)
EXTENDS Naturals, FiniteSets

CONSTANTS
  Ids,         \* users.id
  Emails,      \* addresses
  Blank,       \* the empty address, of a provider account that gives none
  Subjects,    \* provider accounts: oidc.Claims.Subject of one provider
  ProviderOf,  \* their provider
  Claims,      \* what the providers may say of their accounts
  Links,       \* tokens of email_verifications and password_resets
  Keys,        \* Redis keys: OAuth states and exchange tickets
  Clients,     \* HTTP requests, each of which runs one handler once
  Jobs,        \* the handlers that run in this instance
  Nil          \* the absent value

Claim == [subject : Subjects, email : Emails \cup {Blank}, verified : BOOLEAN]
Account == [email : Emails \cup {Blank}, gone : BOOLEAN, password : BOOLEAN,
            born : Subjects \cup {Nil}]
LinkRow == [kind : {"verify", "reset"}, user : Ids, used : BOOLEAN,
            recent : BOOLEAN, expired : BOOLEAN]

ASSUME BlankAssumption == Blank \notin Emails
ASSUME SecretsAssumption == Links \cap Keys = {}
ASSUME ClaimsAssumption == Claims \subseteq Claim
ASSUME NilAssumption ==
  /\ Nil \notin Ids \cup Emails \cup {Blank} \cup Subjects \cup Links \cup Keys
  /\ Nil \notin Claim \cup Account \cup LinkRow

VARIABLES
  account,   \* users; a deleted account (gone) keeps its former address here
  identity,  \* oauth_identities: the account a provider account is linked to
  link,      \* email_verifications and password_resets
  key,       \* unused, an OAuth state, an exchange ticket, or gone
  req,       \* the requests and their open transactions
  spent,     \* history: how often a link or key was honoured
  vouched    \* history: addresses a provider has vouched for

accountsVars == <<account, identity, link, key, req, spent, vouched>>
tables == <<account, identity, link>>

Awaiting == [pc |-> "idle", job |-> Nil, user |-> Nil, email |-> Nil, claim |-> Nil,
             link |-> Nil, key |-> Nil, stale |-> FALSE,
             fresh |-> FALSE,    \* it has inserted an account
             linked |-> FALSE,   \* it has inserted an identity
             refused |-> Nil]    \* the provider account it could not sign in
Answered == [Awaiting EXCEPT !.pc = "done"]
Busy(r) == r.pc \notin {"idle", "done"}

\* Values in Redis; the payload of a state is of no account here.
Unused == [kind |-> "unused", user |-> Nil, subject |-> Nil]
State == [Unused EXCEPT !.kind = "state"]
Gone == [Unused EXCEPT !.kind = "gone"]
Ticket(r) == [kind |-> "ticket", user |-> r.user, subject |-> r.claim.subject]

Become(p, r) == req' = [req EXCEPT ![p] = r]
Move(p, r) == Become(p, r) /\ UNCHANGED <<tables, key, spent, vouched>>
Go(p, pc) == Move(p, [req[p] EXCEPT !.pc = pc])
Stop(p) == Move(p, Answered)
Start(p, job, r) ==
  req[p].pc = "idle" /\ job \in Jobs /\ Move(p, [r EXCEPT !.job = job])

Exists(u) == account[u] # Nil
Current(u) == Exists(u) /\ ~account[u].gone
Holders(e) == {u \in Ids : Current(u) /\ account[u].email = e}

-----------------------------------------------------------------------------
(* Locks.                                                                  *)

\* SELECT ... FOR UPDATE of a deletion, against foreign-key locks.
Deleting(q, u) == req[q].job = "delete" /\ req[q].pc = "commit" /\ req[q].user = u
UserFree(u) == \A q \in Clients : ~Deleting(q, u)
KeyShared(u) ==
  \E q \in Clients : /\ req[q].user = u /\ req[q].job = "callback" /\ ~req[q].fresh
                     /\ req[q].linked \/ req[q].pc = "commit"
PasswordFree(p, u) ==
  \A q \in Clients \ {p} : ~(req[q].job = "reset" /\ req[q].pc = "commit"
                               /\ req[q].user = u)

\* Uncommitted rows of the unique indexes.
EmailFree(p, e) ==
  \A q \in Clients \ {p} :
    /\ ~(req[q].fresh /\ req[q].email = e)
    /\ \A u \in Holders(e) : ~Deleting(q, u)
IdentityFree(p, s, u) ==
  \A q \in Clients \ {p} : req[q].linked =>
    /\ req[q].claim.subject # s
    /\ ~(req[q].user = u /\ ProviderOf[req[q].claim.subject] = ProviderOf[s])

LinkFree(p, l) ==
  \A q \in Clients \ {p} : ~(req[q].link = l /\ req[q].pc \in {"setPassword", "commit"})

-----------------------------------------------------------------------------
(* Registration, and the accounts that sign-ins create.                    *)

BeginRegister(p, e) ==
  /\ e # Blank
  /\ Start(p, "register", [Awaiting EXCEPT !.pc = "insertUser", !.email = e])

InsertUser(p) ==
  LET r == req[p] IN
  /\ r.pc = "insertUser" /\ EmailFree(p, r.email) /\ Holders(r.email) = {}
  /\ \E u \in Ids :
       /\ ~Exists(u) /\ \A q \in Clients : ~(req[q].fresh /\ req[q].user = u)
       /\ Move(p, [r EXCEPT !.user = u, !.fresh = TRUE,
            !.pc = IF r.job = "register" THEN "issue" ELSE "linkIdentity"])

\* 23505: email_in_use.
EmailTaken(p) ==
  LET r == req[p] IN
  /\ r.pc = "insertUser" /\ EmailFree(p, r.email) /\ Holders(r.email) # {}
  /\ Stop(p)

NewAccount(r) == [email |-> r.email, gone |-> FALSE, password |-> r.job = "register",
                  born |-> IF r.claim = Nil THEN Nil ELSE r.claim.subject]
NewLink(r) == [kind |-> IF r.job = "forgot" THEN "reset" ELSE "verify",
               user |-> r.user, used |-> FALSE, recent |-> TRUE, expired |-> FALSE]

\* The link of a registration belongs to its transaction; resend and forgot
\* insert theirs at once.
Issue(p) ==
  LET r == req[p] IN
  /\ r.pc = "issue" /\ UserFree(r.user)
  /\ \E l \in Links :
       /\ link[l] = Nil /\ \A q \in Clients : req[q].link # l
       /\ IF r.job = "register"
            THEN Become(p, [r EXCEPT !.pc = "commit", !.link = l]) /\ UNCHANGED link
            ELSE Become(p, Answered) /\ link' = [link EXCEPT ![l] = NewLink(r)]
  /\ UNCHANGED <<account, identity, key, spent, vouched>>

CommitRegister(p) ==
  LET r == req[p] IN
  /\ r.job = "register" /\ r.pc = "commit"
  /\ Become(p, Answered)
  /\ account' = [account EXCEPT ![r.user] = NewAccount(r)]
  /\ link' = [link EXCEPT ![r.link] = NewLink(r)]
  /\ UNCHANGED <<identity, key, spent, vouched>>

-----------------------------------------------------------------------------
(* Sign-in with a provider.                                                *)

\* googleStart, appleStart: one SET of a new state.
SetState(k) ==
  /\ key[k] = Unused
  /\ key' = [key EXCEPT ![k] = State]
  /\ UNCHANGED <<tables, req, spent, vouched>>

BeginCallback(p, k) ==
  Start(p, "callback", [Awaiting EXCEPT !.pc = "redeem", !.key = k])

Honour(x) == spent' = [spent EXCEPT ![x] = @ + 1]

\* GETDEL; invalid_oauth_state.
RedeemState(p) ==
  LET r == req[p] IN
  /\ r.pc = "redeem"
  /\ IF key[r.key] = State
       THEN /\ Become(p, [r EXCEPT !.pc = "answer"])
            /\ key' = [key EXCEPT ![r.key] = Gone] /\ Honour(r.key)
       ELSE Become(p, Answered) /\ UNCHANGED <<key, spent>>
  /\ UNCHANGED <<tables, vouched>>

\* The code is exchanged and the identity token verified.
Verify(p) ==
  /\ req[p].pc = "answer"
  /\ \E c \in Claims :
       /\ Become(p, [req[p] EXCEPT !.pc = "findIdentity", !.claim = c,
                                   !.email = c.email, !.key = Nil])
       /\ vouched' = IF c.verified THEN vouched \cup {<<c.subject, c.email>>} ELSE vouched
  /\ UNCHANGED <<tables, key, spent>>

FindIdentity(p) ==
  LET r == req[p]  u == identity[r.claim.subject] IN
  /\ r.pc = "findIdentity"
  /\ IF u # Nil /\ Current(u) THEN Move(p, [r EXCEPT !.pc = "session", !.user = u])
     ELSE Go(p, IF r.email = Blank THEN "insertUser" ELSE "findEmail")

\* Fault: claims.EmailVerified is not asked for.
FindEmailUnverified(p) ==
  LET r == req[p]  found == Holders(r.email) IN
  /\ r.pc = "findEmail"
  /\ IF found = {} THEN Go(p, "insertUser")
     ELSE \E u \in found : Move(p, [r EXCEPT !.pc = "linkIdentity", !.user = u])

\* An account of that address: it is linked if the provider vouches for the
\* address, and the sign-in is refused (email_in_use) if not.
FindEmail(p) ==
  LET r == req[p]  found == Holders(r.email) IN
  /\ r.pc = "findEmail"
  /\ IF found = {} THEN Go(p, "insertUser")
     ELSE IF ~r.claim.verified THEN Stop(p)
     ELSE \E u \in found : Move(p, [r EXCEPT !.pc = "linkIdentity", !.user = u])

\* The unique keys: a provider account is linked once, and an account to one
\* provider account of each provider.
Linkable(s, u) ==
  /\ identity[s] = Nil
  /\ \A t \in Subjects : identity[t] = u => ProviderOf[t] # ProviderOf[s]

LinkIdentity(p) ==
  LET r == req[p]  s == r.claim.subject IN
  /\ r.pc = "linkIdentity" /\ IdentityFree(p, s, r.user) /\ UserFree(r.user)
  /\ IF Linkable(s, r.user) THEN Move(p, [r EXCEPT !.pc = "session", !.linked = TRUE])
     ELSE Move(p, [Answered EXCEPT !.refused = s])

\* createSession, as far as its foreign keys go.
CreateSession(p) ==
  req[p].pc = "session" /\ UserFree(req[p].user) /\ Go(p, "commit")

CommitSignIn(p) ==
  LET r == req[p] IN
  /\ r.job = "callback" /\ r.pc = "commit"
  /\ Become(p, [r EXCEPT !.pc = "mint", !.fresh = FALSE, !.linked = FALSE])
  /\ account' = IF r.fresh THEN [account EXCEPT ![r.user] = NewAccount(r)] ELSE account
  /\ identity' = IF r.linked THEN [identity EXCEPT ![r.claim.subject] = r.user]
                 ELSE identity
  /\ UNCHANGED <<link, key, spent, vouched>>

MintTicket(p) ==
  /\ req[p].pc = "mint"
  /\ \E k \in Keys : key[k] = Unused /\ key' = [key EXCEPT ![k] = Ticket(req[p])]
  /\ Become(p, Answered)
  /\ UNCHANGED <<tables, spent, vouched>>

IsTicket(k) == key[k].kind = "ticket"

\* oauthExchange: one GETDEL.
Exchange(k) ==
  /\ IsTicket(k)
  /\ key' = [key EXCEPT ![k] = Gone] /\ Honour(k)
  /\ UNCHANGED <<tables, req, vouched>>

ExpireKey(k) ==
  /\ key[k].kind \in {"state", "ticket"}
  /\ key' = [key EXCEPT ![k] = Gone]
  /\ UNCHANGED <<tables, req, spent, vouched>>

-----------------------------------------------------------------------------
(* Verification and reset links.                                           *)

\* resendVerification, forgotPassword.
BeginAsk(p, e, job) ==
  /\ job \in {"resend", "forgot"} /\ e # Blank
  /\ Start(p, job, [Awaiting EXCEPT !.pc = "findUser", !.email = e])

FindUser(p) ==
  LET r == req[p] IN
  /\ r.pc = "findUser"
  /\ IF Holders(r.email) = {} THEN Stop(p)
     ELSE \E u \in Holders(r.email) : Move(p, [r EXCEPT !.pc = "cooldown", !.user = u])

Cooldown(p) ==
  LET r == req[p]
      recent == {l \in Links : link[l] # Nil /\ link[l].user = r.user /\ link[l].recent
                    /\ ~link[l].used /\ link[l].kind = NewLink(r).kind} IN
  /\ r.pc = "cooldown"
  /\ IF recent = {} THEN Go(p, "issue") ELSE Stop(p)

\* A handler takes its clock before it waits for the link.
BeginUse(p, l, job) ==
  /\ job \in {"verify", "reset"}
  /\ Start(p, job, [Awaiting EXCEPT !.pc = "findLink", !.link = l,
                      !.stale = link[l] # Nil /\ link[l].expired])

\* The row, and for a reset its undeleted account, as the statement's
\* snapshot has them.
FindLink(p) ==
  LET r == req[p]  t == link[r.link] IN
  /\ r.pc = "findLink"
  /\ IF t # Nil /\ t.kind = r.job /\ (r.job = "reset" => Current(t.user))
       THEN Move(p, [r EXCEPT !.pc = "lockLink", !.user = t.user]) ELSE Stop(p)

Usable(p) == ~link[req[p].link].used /\ ~req[p].stale

\* Fault: the link is read without FOR UPDATE.
LockLinkUnlocked(p) ==
  /\ req[p].pc = "lockLink"
  /\ IF ~Usable(p) THEN Stop(p)
     ELSE Go(p, IF req[p].job = "reset" THEN "setPassword" ELSE "commit")

\* FOR UPDATE, then evaluateOneTimeToken.
LockLink(p) ==
  /\ req[p].pc = "lockLink" /\ LinkFree(p, req[p].link)
  /\ IF ~Usable(p) THEN Stop(p)
     ELSE Go(p, IF req[p].job = "reset" THEN "setPassword" ELSE "commit")

SetPassword(p) ==
  LET r == req[p] IN
  /\ r.pc = "setPassword" /\ UserFree(r.user) /\ PasswordFree(p, r.user)
  /\ Go(p, "commit")

\* used_at and the password: also that of an account which was deleted after
\* FindLink.
CommitUse(p) ==
  LET r == req[p] IN
  /\ r.job \in {"verify", "reset"} /\ r.pc = "commit"
  /\ Become(p, Answered)
  /\ link' = [link EXCEPT ![r.link].used = TRUE] /\ Honour(r.link)
  /\ account' = IF r.job = "reset" THEN [account EXCEPT ![r.user].password = TRUE]
                ELSE account
  /\ UNCHANGED <<identity, key, vouched>>

\* resendCooldownWindow, and later expires_at, pass.
Age(l) ==
  /\ link[l] # Nil
  /\ link' = [link EXCEPT ![l] = IF @.recent THEN [@ EXCEPT !.recent = FALSE]
                                 ELSE [@ EXCEPT !.expired = TRUE]]
  /\ UNCHANGED <<account, identity, key, req, spent, vouched>>

-----------------------------------------------------------------------------
(* Deletion.                                                               *)

BeginDelete(p, u) ==
  Exists(u) /\ Start(p, "delete", [Awaiting EXCEPT !.pc = "lockUser", !.user = u])

\* The password is known, and its account is there.
LockUser(p) ==
  LET r == req[p] IN
  /\ r.pc = "lockUser"
  /\ UserFree(r.user) /\ ~KeyShared(r.user) /\ PasswordFree(p, r.user)
  /\ IF Current(r.user) /\ account[r.user].password THEN Go(p, "commit") ELSE Stop(p)

CommitDelete(p) ==
  LET r == req[p] IN
  /\ r.job = "delete" /\ r.pc = "commit"
  /\ Become(p, Answered)
  /\ account' = [account EXCEPT ![r.user].gone = TRUE, ![r.user].password = FALSE]
  /\ UNCHANGED <<identity, link, key, spent, vouched>>

\* A statement fails, the connection is lost or the process dies.
Fail(p) == Busy(req[p]) /\ Stop(p)

-----------------------------------------------------------------------------
(* The specification.                                                      *)

AccountsInit ==
  /\ account = [u \in Ids |-> Nil]
  /\ identity = [s \in Subjects |-> Nil]
  /\ link = [l \in Links |-> Nil]
  /\ key = [k \in Keys |-> Unused]
  /\ req = [p \in Clients |-> Awaiting]
  /\ spent = [x \in Links \cup Keys |-> 0]
  /\ vouched = {}

Request(p) ==
  \/ \E e \in Emails \cup {Blank} :
       BeginRegister(p, e) \/ \E job \in {"resend", "forgot"} : BeginAsk(p, e, job)
  \/ \E k \in Keys : BeginCallback(p, k)
  \/ \E l \in Links, job \in {"verify", "reset"} : BeginUse(p, l, job)
  \/ \E u \in Ids : BeginDelete(p, u)

AccountsNext ==
  \/ \E p \in Clients :
       \/ Request(p)
       \/ InsertUser(p) \/ EmailTaken(p) \/ Issue(p) \/ CommitRegister(p)
       \/ RedeemState(p) \/ Verify(p) \/ FindIdentity(p) \/ FindEmail(p)
       \/ LinkIdentity(p) \/ CreateSession(p) \/ CommitSignIn(p) \/ MintTicket(p)
       \/ FindUser(p) \/ Cooldown(p)
       \/ FindLink(p) \/ LockLink(p) \/ SetPassword(p) \/ CommitUse(p)
       \/ LockUser(p) \/ CommitDelete(p) \/ Fail(p)
  \/ \E k \in Keys : SetState(k) \/ Exchange(k) \/ ExpireKey(k)
  \/ \E l \in Links : Age(l)

AccountsSpec == AccountsInit /\ [][AccountsNext]_accountsVars

-----------------------------------------------------------------------------
(* Properties.                                                             *)

RedisValue == {Unused, State, Gone} \cup [kind : {"ticket"}, user : Ids, subject : Subjects]
HTTPRequest ==
  [pc : {"idle", "done", "insertUser", "issue", "commit", "redeem", "answer",
         "findIdentity", "findEmail", "linkIdentity", "session", "mint", "findUser",
         "cooldown", "findLink", "lockLink", "setPassword", "lockUser"},
   job : {"register", "callback", "resend", "forgot", "verify", "reset", "delete", Nil},
   user : Ids \cup {Nil},
   email : Emails \cup {Blank, Nil}, claim : Claims \cup {Nil},
   link : Links \cup {Nil}, key : Keys \cup {Nil}, stale : BOOLEAN,
   fresh : BOOLEAN, linked : BOOLEAN, refused : Subjects \cup {Nil}]

\* The tables keep their keys: an address has one account, an account one
\* provider account of each provider, a link an account; and an account
\* without an address never has a password, since neither register nor
\* forgot-password accepts an empty address (auth.go:554-557,
\* password_reset.go:36).
AccountsTypeOK ==
  /\ account \in [Ids -> Account \cup {Nil}]
  /\ identity \in [Subjects -> Ids \cup {Nil}]
  /\ link \in [Links -> LinkRow \cup {Nil}]
  /\ key \in [Keys -> RedisValue]
  /\ req \in [Clients -> HTTPRequest]
  /\ spent \in [Links \cup Keys -> Nat]
  /\ vouched \subseteq Subjects \X (Emails \cup {Blank})
  /\ \A e \in Emails \cup {Blank} : Cardinality(Holders(e)) <= 1
  /\ \A s, t \in Subjects :
       identity[s] = identity[t] /\ ProviderOf[s] = ProviderOf[t] =>
         s = t \/ identity[s] = Nil
  /\ \A l \in Links : link[l] # Nil => Exists(link[l].user)
  /\ \A u \in Ids : Exists(u) /\ account[u].email = Blank => ~account[u].password

\* A verification or reset link, an OAuth state and an exchange ticket are
\* each honoured at most once, however many requests present them at the same
\* time, and whichever of them fail (verification.go:81-84,
\* password_reset.go:114-119: the row lock; oauth.go:79-84, 211: GETDEL).
SecretsAreUsedOnce == \A x \in Links \cup Keys : spent[x] <= 1

\* A provider account opens only an account it created or whose address its
\* provider vouched for; an account made by a sign-in is never left without
\* its link; and an exchange ticket is for the account its provider account
\* is linked to: whatever sign-ins, registrations, resets and deletions of
\* the same addresses run at the same time (oauth.go:225-299).
IdentitiesAreEarned ==
  /\ \A s \in Subjects : identity[s] # Nil =>
       /\ Exists(identity[s])
       /\ \/ account[identity[s]].born = s
          \/ <<s, account[identity[s]].email>> \in vouched
  /\ \A u \in Ids : Exists(u) /\ account[u].born # Nil => identity[account[u].born] = u
  /\ \A k \in Keys : IsTicket(k) => identity[key[k].subject] = key[k].user

\* A provider account is not kept from a new account by the deleted account
\* it was linked to ("No existing link and no verified-email match: create a
\* fresh account", oauth.go:239-240; "a departed user's address isn't
\* reserved forever", account/deletion.go:30).
DeletedAccountsLetGo ==
  \A p \in Clients : req[p].refused # Nil =>
    LET u == identity[req[p].refused] IN u # Nil => Current(u)
=============================================================================
