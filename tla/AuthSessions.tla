---------------------------- MODULE AuthSessions ----------------------------
(***************************************************************************)
(* Sign-in sessions and rotating refresh tokens, as the handlers of        *)
(* server/internal/modules/auth (login, refresh, logout, sessions/{id},    *)
(* logout-all, reset-password) and account/deletion.go execute them        *)
(* concurrently against PostgreSQL.                                        *)
(*                                                                         *)
(* Every handler opens its transaction with pgx.TxOptions{}, which is READ *)
(* COMMITTED: a statement works on the rows committed when the statement   *)
(* starts, then locks and re-reads the rows it changes one by one, waiting *)
(* for the transactions that hold them.  That is the granularity here: a   *)
(* request is a record tx[p] with its program counter, the row locks it    *)
(* holds and the writes that become visible when it commits.               *)
(*                                                                         *)
(* A family is the chain of refresh tokens of one sign-in, and the row of  *)
(* the sessions table that carries the same family_id.                     *)
(***************************************************************************)
EXTENDS Naturals, FiniteSets

CONSTANTS
  Users,      \* accounts
  Families,   \* family_id values, one per sign-in
  Tokens,     \* ids of refresh_tokens rows
  Requests,   \* HTTP requests, each of which runs one handler once
  SignedIn,   \* the families that may be open at the start
  Owner,      \* Owner[f]: the account a sign-in with family f belongs to
  Ops,        \* the handlers this instance exercises (a subset of AllOps)
  None        \* the absent value

AllOps == {"login", "rotate", "logout", "revoke", "logoutAll", "reset",
           "delete", "expire"}

ASSUME OwnerAssumption == Owner \in [Families -> Users]
ASSUME SignedInAssumption == SignedIn \subseteq Families
ASSUME NoneAssumption ==
  None \notin Users \cup Families \cup Tokens \cup Requests

VARIABLES
  family,      \* committed refresh_tokens rows: family_id, None when no row
  used,        \* rows with used_at set
  revoked,     \* rows with revoked_at set
  expired,     \* rows whose expires_at has passed
  ended,       \* sessions rows with revoked_at set
  sealed,      \* history: those ended by a handler that locks the session first
  deleted,     \* users rows with deleted_at set
  password,    \* users.password_hash, as a version number
  openedWith,  \* history: the version a family's sign-in was verified against
  tx           \* the requests and their open transactions

db == <<family, used, revoked, expired, ended, sealed, deleted, password,
        openedWith>>
vars == <<db, tx>>

-----------------------------------------------------------------------------
(* Requests.                                                               *)

PCs == {"idle", "lock", "insert", "touch", "create", "user", "tokens",
        "updTokens", "flush", "sessions", "updSessions", "commit", "done"}

Idle == [pc |-> "idle", op |-> "none", user |-> None, fam |-> None,
         cur |-> None, next |-> None, seen |-> 0,
         heldT |-> {}, heldF |-> {}, heldU |-> FALSE,
         rev |-> {}, use |-> {}, end |-> {}, todoT |-> {}, todoF |-> {}]

Finished == [Idle EXCEPT !.pc = "done"]

Transaction ==
  [pc : PCs, op : AllOps \cup {"none", "reuse"},
   user : Users \cup {None}, fam : Families \cup {None},
   cur : Tokens \cup {None}, next : Tokens \cup {None}, seen : Nat,
   heldT : SUBSET Tokens,    \* refresh_tokens rows locked
   heldF : SUBSET Families,  \* sessions rows locked
   heldU : BOOLEAN,          \* the users row of `user' locked
   rev : SUBSET Tokens,      \* uncommitted: revoked_at set
   use : SUBSET Tokens,      \* uncommitted: used_at set
   end : SUBSET Families,    \* uncommitted: sessions.revoked_at set
   todoT : SUBSET Tokens,    \* rows the running UPDATE has still to reach
   todoF : SUBSET Families]

Active(p) == tx[p].pc \notin {"idle", "done"}

\* Row locks are exclusive, and kept until the transaction ends.
TokenFree(p, t) == \A q \in Requests \ {p} : t \notin tx[q].heldT
SessionFree(p, f) == \A q \in Requests \ {p} : f \notin tx[q].heldF
UserFree(p, u) == \A q \in Requests \ {p} : ~(tx[q].heldU /\ tx[q].user = u)

\* An INSERT into refresh_tokens or sessions takes a key-share lock on the
\* users row it references: it conflicts with the FOR UPDATE of deleteAccount,
\* not with the UPDATE of password_hash.
KeyShareFree(p, u) ==
  \A q \in Requests \ {p} :
     ~(tx[q].heldU /\ tx[q].op = "delete" /\ tx[q].user = u)
NoKeyShare(p, u) ==
  \A q \in Requests \ {p} : ~(tx[q].next # None /\ tx[q].user = u)

Rows(f) == {t \in Tokens : family[t] = f}
Live(t) == family[t] # None /\ t \notin used \cup revoked

FreshTokens ==
  {t \in Tokens : family[t] = None /\ \A q \in Requests : tx[q].next # t}
FreshFamilies(u) ==
  {f \in Families : /\ Owner[f] = u
                    /\ Rows(f) = {}
                    /\ \A q \in Requests : tx[q].fam # f}

\* The WHERE clause of a revoking UPDATE: one family, or everything of a user.
Scope(r) ==
  IF r.op \in {"logoutAll", "reset", "delete"}
    THEN {f \in Families : Owner[f] = r.user}
    ELSE {r.fam}

\* logout and the reuse branch of rotate update every row of the family with
\* COALESCE(revoked_at, now()); the others add AND revoked_at IS NULL.
Coalesced(r) == r.op \in {"logout", "reuse"}

\* The rows a revoking UPDATE finds in its snapshot.
TokensToRevoke(r) ==
  {t \in Tokens : family[t] \in Scope(r) /\ (Coalesced(r) \/ t \notin revoked)}
SessionsToEnd(r) ==
  {f \in Scope(r) : Rows(f) # {} /\ (Coalesced(r) \/ f \notin ended)}

Set(p, r) == tx' = [tx EXCEPT ![p] = r]

-----------------------------------------------------------------------------
(* login, register: the password is verified without locking the user;     *)
(* createSession inserts a token and a session under a new family id.      *)

Login(p, u) ==
  /\ tx[p].pc = "idle"
  /\ "login" \in Ops
  /\ u \notin deleted
  /\ Set(p, [tx[p] EXCEPT !.pc = "create", !.op = "login", !.user = u,
                          !.seen = password[u]])
  /\ UNCHANGED db

CreateSession(p) ==
  /\ tx[p].pc = "create"
  /\ KeyShareFree(p, tx[p].user)
  /\ \E f \in FreshFamilies(tx[p].user), n \in FreshTokens :
       Set(p, [tx[p] EXCEPT !.pc = "commit", !.fam = f, !.next = n])
  /\ UNCHANGED db

\* Fault: the token's lookup does not join the user's deleted_at.
RotateLookupAnyUser(p, t) ==
  /\ tx[p].pc = "idle"
  /\ "rotate" \in Ops
  /\ family[t] # None
  /\ Set(p, [tx[p] EXCEPT !.pc = "lock", !.op = "rotate", !.cur = t,
                          !.fam = family[t], !.user = Owner[family[t]]])
  /\ UNCHANGED db

(* refresh: rotate.  A token that is unknown, or whose user is deleted, is *)
(* refused without any effect and is left out.                             *)

RotateLookup(p, t) ==
  /\ tx[p].pc = "idle"
  /\ "rotate" \in Ops
  /\ family[t] # None
  /\ Owner[family[t]] \notin deleted
  /\ Set(p, [tx[p] EXCEPT !.pc = "lock", !.op = "rotate", !.cur = t,
                          !.fam = family[t], !.user = Owner[family[t]]])
  /\ UNCHANGED db

\* Fault: the current token is read without FOR UPDATE.
LocksCurrentUnlocked(p) == tx[p].pc = "lock"

\* SELECT ... FOR UPDATE has waited for the row and reads its last version.
LocksCurrent(p) == tx[p].pc = "lock" /\ TokenFree(p, tx[p].cur)

RotateReused(p) ==
  /\ LocksCurrent(p)
  /\ tx[p].cur \in used \cup revoked
  /\ Set(p, [tx[p] EXCEPT !.pc = "tokens", !.op = "reuse",
                          !.heldT = {tx[p].cur}])
  /\ UNCHANGED db

RotateExpired(p) ==
  /\ LocksCurrent(p)
  /\ tx[p].cur \notin used \cup revoked
  /\ tx[p].cur \in expired
  /\ Set(p, [tx[p] EXCEPT !.pc = "commit", !.heldT = {tx[p].cur},
                          !.rev = {tx[p].cur}])
  /\ UNCHANGED db

RotateValid(p) ==
  /\ LocksCurrent(p)
  /\ tx[p].cur \notin used \cup revoked \cup expired
  /\ Set(p, [tx[p] EXCEPT !.pc = "insert", !.heldT = {tx[p].cur}])
  /\ UNCHANGED db

\* Fault: the current token's used_at is not set.
RotateInsertKeepsCurrent(p) ==
  /\ tx[p].pc = "insert"
  /\ KeyShareFree(p, tx[p].user)
  /\ \E n \in FreshTokens : Set(p, [tx[p] EXCEPT !.pc = "touch", !.next = n])
  /\ UNCHANGED db

\* INSERT of the successor and UPDATE of the current row, which is locked.
\* The UPDATE's own condition on used_at and revoked_at is RotationHits.
RotateInsert(p) ==
  /\ tx[p].pc = "insert"
  /\ KeyShareFree(p, tx[p].user)
  /\ \E n \in FreshTokens :
       Set(p, [tx[p] EXCEPT !.pc = "touch", !.next = n, !.use = {tx[p].cur}])
  /\ UNCHANGED db

\* Fault: last_used_at is not kept, and with it goes the session's lock.
RotateTouchNothing(p) ==
  /\ tx[p].pc = "touch"
  /\ Set(p, [tx[p] EXCEPT !.pc = "commit"])
  /\ UNCHANGED db

\* UPDATE sessions SET last_used_at: nothing here reads the value, the lock
\* on the session row is what matters.
RotateTouch(p) ==
  /\ tx[p].pc = "touch"
  /\ SessionFree(p, tx[p].fam)
  /\ Set(p, [tx[p] EXCEPT !.pc = "commit", !.heldF = {tx[p].fam}])
  /\ UNCHANGED db

(* The entry of the revoking handlers.                                     *)

\* Fault: the token's own id is taken for its family_id.
LogoutByTokenId(p, t) ==
  /\ tx[p].pc = "idle"
  /\ "logout" \in Ops
  /\ family[t] # None
  /\ Set(p, [tx[p] EXCEPT !.pc = "tokens", !.op = "logout", !.fam = t,
                          !.user = Owner[family[t]]])
  /\ UNCHANGED db

Logout(p, t) ==
  /\ tx[p].pc = "idle"
  /\ "logout" \in Ops
  /\ family[t] # None
  /\ Set(p, [tx[p] EXCEPT !.pc = "tokens", !.op = "logout", !.fam = family[t],
                          !.user = Owner[family[t]]])
  /\ UNCHANGED db

RevokeSession(p, f) ==
  /\ tx[p].pc = "idle"
  /\ "revoke" \in Ops
  /\ Rows(f) # {}
  /\ Set(p, [tx[p] EXCEPT !.pc = "sessions", !.op = "revoke", !.fam = f,
                          !.user = Owner[f]])
  /\ UNCHANGED db

LogoutAll(p, u) ==
  /\ tx[p].pc = "idle"
  /\ "logoutAll" \in Ops
  /\ Set(p, [tx[p] EXCEPT !.pc = "sessions", !.op = "logoutAll", !.user = u])
  /\ UNCHANGED db

\* A valid reset link is presented (OneTimeTokens models its single use); the
\* join with users reads deleted_at without a lock, the UPDATE then locks.
ResetPassword(p, u) ==
  /\ tx[p].pc = "idle"
  /\ "reset" \in Ops
  /\ u \notin deleted
  /\ Set(p, [tx[p] EXCEPT !.pc = "user", !.op = "reset", !.user = u])
  /\ UNCHANGED db

ResetLocksUser(p) ==
  /\ tx[p].pc = "user"
  /\ UserFree(p, tx[p].user)
  /\ Set(p, [tx[p] EXCEPT !.pc = "tokens", !.heldU = TRUE])
  /\ UNCHANGED db

\* Fault: the user is read without FOR UPDATE.
DeleteAccountUnlocked(p, u) ==
  /\ tx[p].pc = "idle"
  /\ "delete" \in Ops
  /\ u \notin deleted
  /\ Set(p, [tx[p] EXCEPT !.pc = "sessions", !.op = "delete", !.user = u])
  /\ UNCHANGED db

\* SELECT ... FOR UPDATE of the user, with the password; then pets (not here),
\* sessions and tokens.
DeleteAccount(p, u) ==
  /\ tx[p].pc = "idle"
  /\ "delete" \in Ops
  /\ UserFree(p, u)
  /\ NoKeyShare(p, u)
  /\ u \notin deleted
  /\ Set(p, [tx[p] EXCEPT !.pc = "sessions", !.op = "delete", !.user = u,
                          !.heldU = TRUE])
  /\ UNCHANGED db

-----------------------------------------------------------------------------
(* UPDATE refresh_tokens SET revoked_at ... : the snapshot, the rows, the  *)
(* end of the statement.                                                   *)

BeginTokens(p) ==
  /\ tx[p].pc = "tokens"
  /\ Set(p, [tx[p] EXCEPT !.pc = "updTokens", !.todoT = TokensToRevoke(tx[p])])
  /\ UNCHANGED db

UpdateToken(p, t) ==
  /\ tx[p].pc = "updTokens"
  /\ t \in tx[p].todoT
  /\ TokenFree(p, t)
  /\ Set(p, [tx[p] EXCEPT !.todoT = @ \ {t}, !.heldT = @ \cup {t},
                          !.rev = @ \cup {t}])
  /\ UNCHANGED db

EndTokens(p) ==
  /\ tx[p].pc = "updTokens"
  /\ tx[p].todoT = {}
  /\ Set(p, [tx[p] EXCEPT !.pc = CASE tx[p].op = "logout" -> "flush"
                                   [] tx[p].op = "reuse" -> "sessions"
                                   [] OTHER -> "commit"])
  /\ UNCHANGED db

\* logout runs outside a transaction: its first UPDATE commits by itself.
Flush(p) ==
  /\ tx[p].pc = "flush"
  /\ revoked' = revoked \cup tx[p].rev
  /\ Set(p, [tx[p] EXCEPT !.pc = "sessions", !.heldT = {}, !.rev = {}])
  /\ UNCHANGED <<family, used, expired, ended, sealed, deleted, password,
                 openedWith>>

(* UPDATE sessions SET revoked_at ..., and revokeSession's SELECT FOR      *)
(* UPDATE before it, which finds the same row.                             *)

BeginSessions(p) ==
  /\ tx[p].pc = "sessions"
  /\ Set(p, [tx[p] EXCEPT !.pc = "updSessions", !.todoF = SessionsToEnd(tx[p])])
  /\ UNCHANGED db

UpdateSession(p, f) ==
  /\ tx[p].pc = "updSessions"
  /\ f \in tx[p].todoF
  /\ SessionFree(p, f)
  /\ Set(p, [tx[p] EXCEPT !.todoF = @ \ {f}, !.heldF = @ \cup {f},
                          !.end = @ \cup ({f} \ ended)])
  /\ UNCHANGED db

\* revokeSession answers session_not_found when its row is revoked already.
EndSessions(p) ==
  /\ tx[p].pc = "updSessions"
  /\ tx[p].todoF = {}
  /\ Set(p, IF tx[p].op = "revoke" /\ tx[p].end = {}
              THEN Finished
              ELSE [tx[p] EXCEPT !.pc = IF Coalesced(tx[p]) THEN "commit"
                                                        ELSE "tokens"])
  /\ UNCHANGED db

-----------------------------------------------------------------------------
(* COMMIT makes the writes visible and releases the locks.  Any other end  *)
(* of the request runs the deferred Rollback, or the server drops the      *)
(* transaction with the connection: the writes and the locks are gone.     *)

Commit(p) ==
  /\ tx[p].pc = "commit"
  /\ family' = [t \in Tokens |-> IF t = tx[p].next THEN tx[p].fam
                                                   ELSE family[t]]
  /\ used' = used \cup tx[p].use
  /\ revoked' = revoked \cup tx[p].rev
  /\ ended' = ended \cup tx[p].end
  /\ sealed' = IF Coalesced(tx[p]) THEN sealed ELSE sealed \cup tx[p].end
  /\ deleted' = deleted \cup (IF tx[p].op = "delete" THEN {tx[p].user} ELSE {})
  /\ password' = [u \in Users |->
                    IF tx[p].op = "reset" /\ u = tx[p].user
                      THEN password[u] + 1 ELSE password[u]]
  /\ openedWith' = [f \in Families |->
                      IF tx[p].op = "login" /\ f = tx[p].fam
                        THEN tx[p].seen ELSE openedWith[f]]
  /\ Set(p, Finished)
  /\ UNCHANGED expired

\* Fault: no deferred Rollback, so the connection keeps its locks.
FailWithoutRollback(p) ==
  /\ Active(p)
  /\ Set(p, [tx[p] EXCEPT !.pc = "done"])
  /\ UNCHANGED db

Fail(p) ==
  /\ Active(p)
  /\ Set(p, Finished)
  /\ UNCHANGED db

\* The transactions p may be waiting for.
Blockers(p) ==
  {q \in Requests \ {p} :
     \/ tx[p].pc = "lock" /\ tx[p].cur \in tx[q].heldT
     \/ tx[p].pc = "touch" /\ tx[p].fam \in tx[q].heldF
     \/ /\ tx[p].pc \in {"insert", "create"}
        /\ tx[q].heldU /\ tx[q].op = "delete" /\ tx[q].user = tx[p].user
     \/ tx[p].pc = "user" /\ tx[q].heldU /\ tx[q].user = tx[p].user
     \/ tx[p].pc = "updTokens" /\ tx[p].todoT \cap tx[q].heldT # {}
     \/ tx[p].pc = "updSessions" /\ tx[p].todoF \cap tx[q].heldF # {}}

\* PostgreSQL aborts a transaction it finds on a cycle of waits.
DeadlockVictim(p) ==
  /\ \E S \in SUBSET Requests :
       /\ p \in S
       /\ \E waits \in [S -> S] :
            /\ \A q \in S : waits[q] \in Blockers(q)
            /\ \A q \in S : \E r \in S : waits[r] = q
  /\ Set(p, Finished)
  /\ UNCHANGED db

\* expires_at passes.
Expire(t) ==
  /\ "expire" \in Ops
  /\ Live(t)
  /\ t \notin expired
  /\ expired' = expired \cup {t}
  /\ UNCHANGED <<family, used, revoked, ended, sealed, deleted, password,
                 openedWith, tx>>

-----------------------------------------------------------------------------
\* The database holds any of these sessions, each with its first token.
Init ==
  /\ family \in [Tokens -> SignedIn \cup {None}]
  /\ \A t, v \in Tokens : family[t] = family[v] /\ family[t] # None => t = v
  /\ used = {} /\ revoked = {} /\ expired = {}
  /\ ended = {} /\ sealed = {} /\ deleted = {}
  /\ password = [u \in Users |-> 0]
  /\ openedWith = [f \in Families |-> 0]
  /\ tx = [p \in Requests |-> Idle]

\* The steps a request takes by itself once it has begun.
Progress(p) ==
  \/ CreateSession(p)
  \/ RotateReused(p) \/ RotateExpired(p) \/ RotateValid(p)
  \/ RotateInsert(p) \/ RotateTouch(p)
  \/ ResetLocksUser(p)
  \/ BeginTokens(p) \/ (\E t \in Tokens : UpdateToken(p, t)) \/ EndTokens(p)
  \/ Flush(p)
  \/ BeginSessions(p) \/ (\E f \in Families : UpdateSession(p, f))
  \/ EndSessions(p)
  \/ Commit(p)

Arrive(p) ==
  \/ \E u \in Users : \/ Login(p, u) \/ LogoutAll(p, u)
                      \/ ResetPassword(p, u) \/ DeleteAccount(p, u)
  \/ \E t \in Tokens : RotateLookup(p, t) \/ Logout(p, t)
  \/ \E f \in Families : RevokeSession(p, f)

Next ==
  \/ \E p \in Requests :
       Arrive(p) \/ Progress(p) \/ Fail(p) \/ DeadlockVictim(p)
  \/ \E t \in Tokens : Expire(t)

Spec == Init /\ [][Next]_vars

\* Go runs every handler that can run, and PostgreSQL wakes the waiters of a
\* released lock and resolves deadlocks.  Nothing makes a request arrive.
FairSpec ==
  /\ Spec
  /\ \A p \in Requests : WF_vars(Progress(p)) /\ WF_vars(DeadlockVictim(p))
-----------------------------------------------------------------------------
(* Properties.                                                             *)

\* Every variable has its type.
TypeOK ==
  /\ family \in [Tokens -> Families \cup {None}]
  /\ used \subseteq Tokens /\ revoked \subseteq Tokens
  /\ expired \subseteq Tokens
  /\ ended \subseteq Families /\ sealed \subseteq Families
  /\ deleted \subseteq Users
  /\ password \in [Users -> Nat]
  /\ openedWith \in [Families -> Nat]
  /\ tx \in [Requests -> Transaction]

\* Rotation is a chain: however many refreshes of one sign-in race, at most one
\* token of the family has not been exchanged, so a stolen copy and the owner
\* cannot both go on refreshing (rotate, auth.go:438-528).
OneUnusedToken ==
  \A t, v \in Tokens :
    /\ family[t] # None /\ family[t] = family[v]
    /\ t \notin used /\ v \notin used
    => t = v

\* A rotation that has inserted a successor still owns a current token that no
\* one has used or revoked: the UPDATE's own condition (auth.go:505) always
\* matches its row and the branch at auth.go:506-511 is never taken.
RotationHits ==
  \A p \in Requests :
    tx[p].op = "rotate" /\ tx[p].next # None =>
      Live(tx[p].cur) /\ family[tx[p].cur] = tx[p].fam

\* Once revokeSession, logoutAll or deleteAccount has ended a session, nothing
\* can be refreshed in its family any more, whatever rotations, logouts and
\* resets overlapped them: these three lock the session row before they look
\* for the family's tokens (sessions.go:95-116 and 143-149, deletion.go:95-102),
\* and every rotation needs that lock to commit.
SealedSessionsAreDead ==
  \A f \in sealed : \A t \in Tokens : family[t] = f => ~Live(t)

\* No rotation gets as far as a successor for an account that is deleted
\* already, although rotate reads deleted_at without locking the user.
NoRotationAfterDeletion ==
  \A p \in Requests :
    tx[p].op = "rotate" /\ tx[p].next # None => tx[p].user \notin deleted

\* What the handlers commit are the steps of TokenChain and no others: a token
\* is exchanged once and while its account exists, and a sign-in whose token has
\* been taken never gets another, whatever rotations were under way.
Chain == INSTANCE TokenChain WITH live <- {t \in Tokens : Live(t)}, closed <- sealed
ImplementsTokenChain == Chain!Spec

\* Every request that has begun ends, although the revoking handlers lock
\* sessions before tokens and rotate locks them the other way round.
EveryRequestEnds ==
  \A p \in Requests : Active(p) ~> tx[p].pc = "done"

\* "Revoking a session is expected to also revoke every refresh_tokens row
\* sharing its family_id" (migrations/000002_auth_sessions.sql:79-80).  Broken
\* by logout and by the reuse branch of rotate: their UPDATE of refresh_tokens
\* does not see the successor a concurrent rotation has not committed yet.
RevokedSessionIsDead ==
  \A f \in ended : \A t \in Tokens : family[t] = f => ~Live(t)

\* "revoke every refresh token so a stolen session dies along with the
\* compromised password" (password_reset.go:140-142): a token that can still be
\* refreshed was signed in with the present password.  Broken by the rotation
\* and the sign-in that overlap the reset.
ResetEndsOldSessions ==
  \A t \in Tokens :
    Live(t) => openedWith[family[t]] = password[Owner[family[t]]]
=============================================================================
