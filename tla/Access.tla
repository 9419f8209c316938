------------------------------- MODULE Access -------------------------------
(***************************************************************************)
(* Access tokens, their invalidation by logout-all and account deletion,   *)
(* and the tickets that open WebSockets (platform/authjwt, platform/httpx, *)
(* modules/auth/sessions.go, account/deletion.go, realtime/tickets.go and  *)
(* server.go), for one user.  Time passes in ticks, several of which make  *)
(* a second, since tokens carry whole seconds and markers do not.  What    *)
(* revokes which refresh tokens is in module AuthSessions, and what a      *)
(* socket does once it is open in module Realtime.                         *)
(***************************************************************************)
EXTENDS Naturals, FiniteSets

CONSTANTS
  Records,     \* refresh_tokens.id, the sid of an access token
  Passes,      \* tickets
  Requests,    \* HTTP requests, each of which runs one handler once
  PerSecond,   \* ticks of a second
  AccessTTL,   \* seconds an access token lives
  TicketTTL,   \* ticks a ticket lives
  MaxTime,     \* bound of the clock
  Absent       \* no record, ticket or token

ASSUME AccessAssumption ==
  /\ PerSecond \in Nat \ {0} /\ AccessTTL \in Nat \ {0} /\ TicketTTL \in Nat \ {0}
  /\ MaxTime \in Nat \ {0} /\ Absent \notin Records \cup Passes

VARIABLES
  clock,
  record,   \* refresh_tokens: "none", "pending" (uncommitted), "live", "revoked"
  token,    \* the access token issued with a record; born is its exact time
  marker,   \* petconnect:auth:invalidated_after, 0 if absent
  pass,     \* tickets: unused, in Redis ("held"), or gone
  call,     \* the requests
  sealed    \* history: the last cutoff of a logout-all that no other overlapped

accessVars == <<clock, record, token, marker, pass, call, sealed>>

NoRequest == [pc |-> "idle", op |-> "none", record |-> Absent, pass |-> Absent,
              exp |-> 0, ttl |-> 0, cutoff |-> 0,
              floor |-> 0,        \* history: sealed when its token was accepted
              known |-> FALSE,    \* history: Redis answered Authenticate
              live |-> FALSE,     \* history: its record was live at Consume
              opened |-> 0]       \* history: when its socket opened
Over == [NoRequest EXCEPT !.pc = "done"]

NoPass == [state |-> "unused", record |-> Absent, exp |-> 0, until |-> 0]
UsedPass == [NoPass EXCEPT !.state = "gone"]

Seconds(t) == (t \div PerSecond) * PerSecond
Later(s, t) == IF s < t THEN t ELSE s

Turn(c, r) == call' = [call EXCEPT ![c] = r]
Shift(c, r) == Turn(c, r) /\ UNCHANGED <<clock, record, token, marker, pass, sealed>>
Hop(c, pc) == Shift(c, [call[c] EXCEPT !.pc = pc])
Quit(c) == Shift(c, Over)

-----------------------------------------------------------------------------
(* Access tokens.                                                          *)

\* Issue, in the transaction of a sign-in or refresh.
IssueToken(r) ==
  /\ record[r] = "none"
  /\ record' = [record EXCEPT ![r] = "pending"]
  /\ token' = [token EXCEPT ![r] = [iat |-> Seconds(clock), born |-> clock,
                                    exp |-> Seconds(clock) + AccessTTL * PerSecond]]
  /\ UNCHANGED <<clock, marker, pass, call, sealed>>

CommitToken(r) ==
  /\ record[r] = "pending"
  /\ record' = [record EXCEPT ![r] = "live"]
  /\ UNCHANGED <<clock, token, marker, pass, call, sealed>>

\* logout and revokeSession revoke the records of a session.
Revoke(R) ==
  /\ R # {} /\ \A r \in R : record[r] = "live"
  /\ record' = [r \in Records |-> IF r \in R THEN "revoked" ELSE record[r]]
  /\ UNCHANGED <<clock, token, marker, pass, call, sealed>>

Fresh(r) == clock < token[r].exp

\* Parse, and the marker unless Redis fails.
Authenticate(c, r, op) ==
  /\ call[c].pc = "idle" /\ record[r] \in {"live", "revoked"}
  /\ op \in {"ticket", "logoutAll", "delete"}
  /\ \E up \in BOOLEAN :
       IF ~Fresh(r) \/ (up /\ token[r].iat < marker) THEN Quit(c)
       ELSE Shift(c, [NoRequest EXCEPT !.op = op, !.record = r, !.exp = token[r].exp,
              !.floor = sealed, !.known = up,
              !.pc = CASE op = "ticket" -> "active" [] op = "logoutAll" -> "cutoff"
                       [] OTHER -> "revoke"])

\* logoutAll takes its clock first, deleteAccount after its commit.
TakeCutoff(c) ==
  LET r == call[c] IN
  /\ r.pc = "cutoff"
  /\ Shift(c, [r EXCEPT !.cutoff = clock,
                 !.pc = IF r.op = "logoutAll" THEN "revoke" ELSE "mark"])

\* The transaction; records that are not committed are not seen.
RevokeAll(c) ==
  LET r == call[c] IN
  /\ r.pc = "revoke"
  /\ Turn(c, [r EXCEPT !.pc = IF r.op = "logoutAll" THEN "mark" ELSE "cutoff"])
  /\ record' = [s \in Records |-> IF record[s] = "live" THEN "revoked" ELSE record[s]]
  /\ UNCHANGED <<clock, token, marker, pass, sealed>>

Invalidating(d) == call[d].cutoff > 0 /\ call[d].pc \in {"revoke", "mark"}
Sealed(c) == IF \E d \in Requests \ {c} : Invalidating(d) THEN sealed
             ELSE Later(sealed, call[c].cutoff)

\* Fault: the marker is written in whole seconds.
MarkSeconds(c) ==
  /\ call[c].pc = "mark"
  /\ Turn(c, Over)
  /\ marker' = Seconds(call[c].cutoff) /\ sealed' = Sealed(c)
  /\ UNCHANGED <<clock, record, token, pass>>

\* SET; if it fails, the handler still succeeds (Fail).
Mark(c) ==
  /\ call[c].pc = "mark"
  /\ Turn(c, Over)
  /\ marker' = call[c].cutoff /\ sealed' = Sealed(c)
  /\ UNCHANGED <<clock, record, token, pass>>

-----------------------------------------------------------------------------
(* Tickets and sockets.                                                    *)

\* IssueTicket: Parse again, and sessionActive.
TicketActive(c) ==
  LET r == call[c] IN
  /\ r.pc = "active"
  /\ IF Fresh(r.record) /\ record[r.record] = "live" THEN Hop(c, "issue") ELSE Quit(c)

\* Issue: what is left of the token's life bounds the ticket's.
IssueTicket(c) ==
  LET r == call[c] IN
  /\ r.pc = "issue"
  /\ IF clock < r.exp
       THEN Shift(c, [r EXCEPT !.pc = "store",
              !.ttl = IF r.exp - clock < TicketTTL THEN r.exp - clock ELSE TicketTTL])
       ELSE Quit(c)

\* SETNX counts that life from when Redis runs it, so the key may outlive the
\* token.
StoreTicket(c) ==
  LET r == call[c] IN
  /\ r.pc = "store"
  /\ Turn(c, Over)
  /\ \E t \in Passes : pass[t] = NoPass /\ pass' = [pass EXCEPT ![t] =
       [state |-> "held", record |-> r.record, exp |-> r.exp, until |-> clock + r.ttl]]
  /\ UNCHANGED <<clock, record, token, marker, sealed>>

Held(t) == pass[t].state = "held"

\* Upgrade: GETDEL, and the token's expiry.
Consume(c, t) ==
  /\ call[c].pc = "idle" /\ Held(t)
  /\ pass' = [pass EXCEPT ![t] = UsedPass]
  /\ Turn(c, IF clock < pass[t].until /\ clock < pass[t].exp
       THEN [NoRequest EXCEPT !.pc = "upgrade", !.op = "upgrade", !.pass = t,
               !.record = pass[t].record, !.exp = pass[t].exp,
               !.live = record[pass[t].record] = "live"]
       ELSE Over)
  /\ UNCHANGED <<clock, record, token, marker, sealed>>

\* Fault: the session is not asked for again.
UpgradeUnchecked(c) == call[c].pc = "upgrade" /\ Hop(c, "connect")

\* sessionActive.
Upgrade(c) ==
  LET r == call[c] IN
  /\ r.pc = "upgrade"
  /\ IF record[r.record] = "live" THEN Hop(c, "connect") ELSE Quit(c)

\* handleConnection.
Connect(c) ==
  LET r == call[c] IN
  /\ r.pc = "connect"
  /\ IF clock < r.exp THEN Shift(c, [r EXCEPT !.pc = "open", !.opened = clock]) ELSE Quit(c)

\* A request fails, its process dies, or its socket closes.
Drop(c) == call[c].pc \notin {"idle", "done"} /\ Quit(c)

Tick ==
  /\ clock < MaxTime
  /\ clock' = clock + 1
  /\ UNCHANGED <<record, token, marker, pass, call, sealed>>

-----------------------------------------------------------------------------
(* The specification.                                                      *)

AccessInit ==
  /\ clock = 1
  /\ record = [r \in Records |-> "none"]
  /\ token = [r \in Records |-> [iat |-> 0, born |-> 0, exp |-> 0]]
  /\ marker = 0 /\ sealed = 0
  /\ pass = [t \in Passes |-> NoPass]
  /\ call = [c \in Requests |-> NoRequest]

AccessNext ==
  \/ \E r \in Records : IssueToken(r) \/ CommitToken(r)
  \/ \E R \in SUBSET Records : Revoke(R)
  \/ \E c \in Requests :
       \/ \E r \in Records, op \in {"ticket", "logoutAll", "delete"} : Authenticate(c, r, op)
       \/ TakeCutoff(c) \/ RevokeAll(c) \/ Mark(c)
       \/ TicketActive(c) \/ IssueTicket(c) \/ StoreTicket(c)
       \/ \E t \in Passes : Consume(c, t)
       \/ Upgrade(c) \/ Connect(c) \/ Drop(c)
  \/ Tick

AccessSpec == AccessInit /\ [][AccessNext]_accessVars

-----------------------------------------------------------------------------
(* Properties.                                                             *)

Times == 0..MaxTime
Expiries == 0..(MaxTime + AccessTTL * PerSecond)
HeldPass == [state : {"held"}, record : Records, exp : Expiries,
             until : 0..(MaxTime + TicketTTL)]
Call ==
  [pc : {"idle", "done", "active", "issue", "store", "cutoff", "revoke", "mark",
         "upgrade", "connect", "open"},
   op : {"none", "ticket", "logoutAll", "delete", "upgrade"},
   record : Records \cup {Absent}, pass : Passes \cup {Absent}, exp : Expiries,
   ttl : 0..TicketTTL, cutoff : Times, floor : Times, known : BOOLEAN, live : BOOLEAN, opened : Times]

\* Each variable has its type.
AccessTypeOK ==
  /\ clock \in Times /\ marker \in Times /\ sealed \in Times
  /\ record \in [Records -> {"none", "pending", "live", "revoked"}]
  /\ token \in [Records -> [iat : Times, born : Times, exp : Expiries]]
  /\ pass \in [Passes -> {NoPass, UsedPass} \cup HeldPass]
  /\ call \in [Requests -> Call]

\* A socket was opened by a ticket of its own, before its access token
\* expired, for a session that was not revoked before the ticket was
\* presented (realtime/server.go:92-131, tickets.go:71-92).
SocketsAreEarned ==
  \A c \in Requests : call[c].pc = "open" =>
    /\ \A d \in Requests : call[d].pc = "open" /\ call[d].pass = call[c].pass => c = d
    /\ call[c].opened < call[c].exp
    /\ call[c].live

\* Once a logout-all or deletion has set the marker while no other was under
\* way, no request that Redis answered is let in with an access token issued
\* before its cutoff, to the fraction of a second: later markers only raise
\* the bar (httpx.go:96-108, sessions.go:136-166, deletion.go:108-114).
LogoutAllHolds ==
  \A c \in Requests : call[c].known => call[c].floor <= token[call[c].record].born
=============================================================================
