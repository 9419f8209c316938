--------------------------- MODULE PlatformProofs ---------------------------
(***************************************************************************)
(* Proofs about the two components that the others stand on: Access, the   *)
(* access tokens and tickets that let requests in, and Migrations, the     *)
(* schema the server starts with.                                          *)
(*                                                                         *)
(* Access, for any number of records, tickets and requests, any clock,     *)
(* token and ticket lifetimes: what a logout-all has sealed stays shut,    *)
(* and every open socket was earned.  A marker may be overwritten by an    *)
(* older one, but only by that of a logout-all which overlapped: so the    *)
(* last cutoff no other overlapped (sealed) is never above the marker, nor *)
(* above the cutoff of a marker that is still to be written (Raising).  A  *)
(* ticket is consumed by one request (Pass, Apart), and a record that is   *)
(* live when its session is asked for was live before (Recorded).          *)
(*                                                                         *)
(* Migrations, for any number of replicas and of files: a replica that is  *)
(* past the advisory lock holds it, so that at most one of them looks at   *)
(* the ledger, and what it has concluded from it is still so when it       *)
(* commits.                                                                *)
(***************************************************************************)
EXTENDS Access, Migrations, TLAPS


Kept == {"live", "revoked"}
Upgrading == {"upgrade", "connect", "open"}

\* The record of a request, and its token, were committed and are not undone.
Recorded(r) ==
  /\ r.pc \in {"active", "issue", "store"} \cup Upgrading \/ r.known =>
       r.record \in Records /\ record[r.record] \in Kept
  /\ r.pc \in Upgrading => (record[r.record] = "live" => r.live)
  /\ r.pc \in {"connect", "open"} => r.live
  /\ r.known => r.floor <= token[r.record].born

\* The ticket of an upgrade is gone.
Pass(r) ==
  /\ r.pc \in Upgrading => r.pass \in Passes /\ pass[r.pass] = UsedPass
  /\ r.pc = "open" => r.opened < r.exp

\* A marker still to be written seals no less than what is sealed.
Raising(r) ==
  /\ r.cutoff <= clock
  /\ r.pc = "mark" \/ (r.pc = "revoke" /\ r.op = "logoutAll") => r.cutoff > 0
  /\ r.pc \in {"revoke", "mark"} /\ r.cutoff > 0 => sealed <= r.cutoff

Sound(r) == Recorded(r) /\ Pass(r) /\ Raising(r)

\* Two upgrades have two tickets.
Apart(r, s) == r.pc \in Upgrading /\ s.pc \in Upgrading => r.pass # s.pass

Tables ==
  /\ clock > 0 /\ sealed <= marker /\ marker <= clock
  /\ \A r \in Records : token[r].iat <= token[r].born
  /\ \A t \in Passes : Held(t) => record[pass[t].record] \in Kept

AccessInv ==
  /\ AccessTypeOK
  /\ Tables
  /\ \A c \in Requests : Sound(call[c])
  /\ \A c, d \in Requests : c # d => Apart(call[c], call[d])

-----------------------------------------------------------------------------
LEMMA SecondsFacts ==
  ASSUME NEW t \in Nat
  PROVE  Seconds(t) \in Nat /\ Seconds(t) <= t
<1> DEFINE q == t \div PerSecond
<1>1. PerSecond \in Nat \ {0}
  BY AccessAssumption
<1>2. q \in Nat /\ q * PerSecond <= t
  BY <1>1
<1>3. QED
  BY <1>1, <1>2 DEF Seconds

LEMMA Lifetime == AccessTTL * PerSecond \in Nat
  BY AccessAssumption

LEMMA NoCall ==
  /\ NoRequest \in Call
  /\ Over \in Call /\ Over.pc = "done" /\ Over.cutoff = 0 /\ ~Over.known
<1>1. 0 \in Times /\ 0 \in Expiries /\ 0 \in 0..TicketTTL
  BY AccessAssumption, Lifetime DEF Times, Expiries
<1>2. NoRequest \in Call
  BY <1>1 DEF NoRequest, Call
<1>3. Over \in Call
  BY <1>2 DEF Over, Call
<1>4. Over.pc = "done" /\ Over.cutoff = 0 /\ ~Over.known
  BY DEF Over, NoRequest
<1>5. QED
  BY <1>2, <1>3, <1>4

LEMMA InitAccessInv == AccessInit => AccessInv
<1> SUFFICES ASSUME AccessInit PROVE AccessInv
  OBVIOUS
<1> USE AccessAssumption, Lifetime DEF AccessInit
<1>1. NoRequest \in Call
  BY NoCall
<1>2. AccessTypeOK
  BY <1>1 DEF AccessTypeOK, Times, Expiries, Held, NoPass
<1>3. Tables
  BY DEF Tables, Held, NoPass
<1>4. \A c \in Requests : Sound(call[c])
  BY DEF Sound, Recorded, Pass, Raising, Upgrading, NoRequest
<1>5. \A c, d \in Requests : Apart(call[c], call[d])
  BY DEF Apart, Upgrading, NoRequest
<1>6. QED
  BY <1>2, <1>3, <1>4, <1>5 DEF AccessInv

LEMMA HeldFacts ==
  ASSUME AccessTypeOK, NEW t \in Passes, Held(t)
  PROVE  pass[t] \in HeldPass /\ pass[t] # UsedPass
<1>1. NoPass.state = "unused" /\ UsedPass.state = "gone"
  BY DEF NoPass, UsedPass
<1>2. QED
  BY <1>1 DEF AccessTypeOK, Held

\* What the invariant says of one request.
LEMMA OneCall ==
  ASSUME AccessInv, NEW c \in Requests
  PROVE  /\ call[c] \in Call /\ Sound(call[c])
         /\ \A d \in Requests \ {c} : Apart(call[c], call[d]) /\ Apart(call[d], call[c])
         /\ clock \in Nat /\ sealed \in Nat /\ marker \in Nat
  BY AccessAssumption DEF AccessInv, AccessTypeOK, Times

\* A request goes on, and the tables stay as they are.
LEMMA ShiftStep ==
  ASSUME AccessInv, NEW c \in Requests, NEW r \in Call, Shift(c, r), Sound(r),
         \A d \in Requests \ {c} : Apart(r, call[d])
  PROVE  AccessInv'
<1>1. /\ call' = [call EXCEPT ![c] = r] /\ call \in [Requests -> Call]
      /\ UNCHANGED <<clock, record, token, marker, pass, sealed>>
  BY DEF Shift, Turn, AccessInv, AccessTypeOK
<1>2. call'[c] = r /\ \A d \in Requests \ {c} : call'[d] = call[d]
  BY <1>1
<1>3. AccessTypeOK'
  BY <1>1 DEF AccessInv, AccessTypeOK, Held
<1>4. Tables'
  BY <1>1 DEF AccessInv, Tables, Held
<1>5. ASSUME NEW d \in Requests PROVE Sound(call[d])'
  <2>1. Sound(call'[d])
    BY <1>2 DEF AccessInv
  <2>2. QED
    BY <1>1, <2>1 DEF Sound, Recorded, Pass, Raising
<1>6. ASSUME NEW d \in Requests, NEW e \in Requests, d # e PROVE Apart(call[d], call[e])'
  <2>1. Apart(call'[d], call'[e])
    BY <1>2, <1>6 DEF AccessInv, Apart
  <2>2. QED
    BY <2>1 DEF Apart
<1>7. QED
  BY <1>3, <1>4, <1>5, <1>6 DEF AccessInv

\* A request that has ended, or that only says where it has got.
LEMMA QuitStep ==
  ASSUME AccessInv, NEW c \in Requests, Quit(c)
  PROVE  AccessInv'
<1>1. Sound(Over)
  BY NoCall, OneCall DEF Sound, Recorded, Pass, Raising, Upgrading
<1>2. \A d \in Requests : Apart(Over, call[d])
  BY NoCall DEF Apart, Upgrading
<1>3. QED
  BY NoCall, <1>1, <1>2, ShiftStep DEF Quit

-----------------------------------------------------------------------------
(* Requests.                                                               *)

LEMMA AuthenticateStep ==
  ASSUME AccessInv, NEW c \in Requests, NEW r \in Records,
         NEW op \in {"ticket", "logoutAll", "delete"}, Authenticate(c, r, op)
  PROVE  AccessInv'
<1>1. CASE Quit(c)
  BY <1>1, QuitStep
<1>2. CASE ~Quit(c)
  <2>1. PICK up \in BOOLEAN :
          /\ ~(up /\ token[r].iat < marker)
          /\ Shift(c, [NoRequest EXCEPT !.op = op, !.record = r, !.exp = token[r].exp,
               !.floor = sealed, !.known = up,
               !.pc = CASE op = "ticket" -> "active" [] op = "logoutAll" -> "cutoff"
                        [] OTHER -> "revoke"])
    BY <1>2 DEF Authenticate
  <2> DEFINE s == [NoRequest EXCEPT !.op = op, !.record = r, !.exp = token[r].exp,
               !.floor = sealed, !.known = up,
               !.pc = CASE op = "ticket" -> "active" [] op = "logoutAll" -> "cutoff"
                        [] OTHER -> "revoke"]
  <2>2. /\ token[r].exp \in Expiries /\ sealed \in Times /\ token[r].iat \in Nat
        /\ token[r].born \in Nat /\ marker \in Nat /\ sealed \in Nat
        /\ token[r].iat <= token[r].born /\ sealed <= marker /\ clock \in Nat
    BY AccessAssumption DEF AccessInv, AccessTypeOK, Tables, Times
  <2>3. s \in Call
    BY <2>2, NoCall DEF Call
  <2>4. /\ s.pc \in {"active", "cutoff", "revoke"} /\ s.record = r /\ s.cutoff = 0
        /\ s.floor = sealed /\ s.known = up /\ (s.pc = "revoke" => s.op = "delete")
    BY DEF NoRequest
  <2>5. Shift(c, s)
    BY <2>1
  <2> HIDE DEF s
  <2>6. record[r] \in Kept
    BY DEF Authenticate, Kept
  <2>7. Sound(s)
    BY <2>1, <2>2, <2>4, <2>6 DEF Sound, Recorded, Pass, Raising, Upgrading
  <2>8. \A d \in Requests : Apart(s, call[d])
    BY <2>4 DEF Apart, Upgrading
  <2>9. QED
    BY <2>3, <2>5, <2>7, <2>8, ShiftStep
<1>3. QED
  BY <1>1, <1>2

LEMMA TakeCutoffStep ==
  ASSUME AccessInv, NEW c \in Requests, TakeCutoff(c)
  PROVE  AccessInv'
<1> DEFINE r == call[c]
           s == [r EXCEPT !.cutoff = clock,
                  !.pc = IF r.op = "logoutAll" THEN "revoke" ELSE "mark"]
<1>1. /\ r \in Call /\ Sound(r) /\ r.pc = "cutoff" /\ Shift(c, s)
  BY OneCall DEF TakeCutoff
<1>2. clock \in Times /\ clock \in Nat /\ clock > 0 /\ sealed <= clock /\ sealed \in Nat
  BY OneCall DEF AccessInv, AccessTypeOK, Tables
<1>3. s \in Call
  BY <1>1, <1>2 DEF Call
<1>4. /\ s.pc \in {"revoke", "mark"} /\ s.cutoff = clock /\ s.known = r.known
      /\ s.record = r.record /\ s.floor = r.floor
  BY <1>1 DEF Call
<1>5. Sound(s)
  BY <1>1, <1>2, <1>4 DEF Sound, Recorded, Pass, Raising, Upgrading
<1>6. \A d \in Requests : Apart(s, call[d])
  BY <1>4 DEF Apart, Upgrading
<1>7. QED
  BY <1>1, <1>3, <1>5, <1>6, ShiftStep

\* A request that only goes on to another point.
LEMMA HopStep ==
  ASSUME AccessInv, NEW c \in Requests, NEW pc \in {"issue", "connect"}, Hop(c, pc),
         pc = "issue" => call[c].pc = "active",
         pc = "connect" => call[c].pc = "upgrade" /\ record[call[c].record] = "live"
  PROVE  AccessInv'
<1> DEFINE r == call[c]
           s == [r EXCEPT !.pc = pc]
<1>1. /\ r \in Call /\ Sound(r) /\ Shift(c, s)
      /\ \A d \in Requests \ {c} : Apart(r, call[d])
  BY OneCall DEF Hop
<1>2. s \in Call
  BY <1>1 DEF Call
<1>3. /\ s.pc = pc /\ s.cutoff = r.cutoff /\ s.known = r.known /\ s.record = r.record
      /\ s.floor = r.floor /\ s.pass = r.pass /\ s.live = r.live
  BY <1>1 DEF Call
<1> HIDE DEF s
<1>4. Recorded(s)
  BY <1>1, <1>3 DEF Sound, Recorded, Upgrading
<1>5. Pass(s)
  BY <1>1, <1>3 DEF Sound, Pass, Upgrading
<1>6. Raising(s)
  BY <1>1, <1>3 DEF Sound, Raising
<1>7. \A d \in Requests \ {c} : Apart(s, call[d])
  BY <1>1, <1>3 DEF Apart, Upgrading
<1>8. QED
  BY <1>1, <1>2, <1>4, <1>5, <1>6, <1>7, ShiftStep DEF Sound

LEMMA ConnectStep ==
  ASSUME AccessInv, NEW c \in Requests, Connect(c), ~Quit(c)
  PROVE  AccessInv'
<1> DEFINE r == call[c]
           s == [r EXCEPT !.pc = "open", !.opened = clock]
<1>1. /\ r \in Call /\ Sound(r) /\ Shift(c, s) /\ r.pc = "connect" /\ clock < r.exp
      /\ clock \in Times
      /\ \A d \in Requests \ {c} : Apart(r, call[d])
  BY OneCall DEF Connect, AccessInv, AccessTypeOK
<1>2. s \in Call
  BY <1>1 DEF Call
<1>3. /\ s.pc = "open" /\ s.cutoff = r.cutoff /\ s.known = r.known /\ s.record = r.record
      /\ s.floor = r.floor /\ s.pass = r.pass /\ s.live = r.live
      /\ s.opened = clock /\ s.exp = r.exp
  BY <1>1 DEF Call
<1> HIDE DEF s
<1>4. Recorded(s)
  BY <1>1, <1>3 DEF Sound, Recorded, Upgrading
<1>5. Pass(s)
  BY <1>1, <1>3 DEF Sound, Pass, Upgrading
<1>6. Raising(s)
  BY <1>1, <1>3 DEF Sound, Raising
<1>7. \A d \in Requests \ {c} : Apart(s, call[d])
  BY <1>1, <1>3 DEF Apart, Upgrading
<1>8. QED
  BY <1>1, <1>2, <1>4, <1>5, <1>6, <1>7, ShiftStep DEF Sound

\* A request becomes r, and the tables change as they may.
LEMMA TurnStep ==
  ASSUME AccessInv, NEW c \in Requests, NEW r \in Call, call' = [call EXCEPT ![c] = r],
         AccessTypeOK', Tables', Sound(r)',
         \A d \in Requests \ {c} : Apart(r, call[d]),
         clock' = clock, token' = token,
         \A x \in Records : /\ record[x] \in Kept => record'[x] \in Kept
                            /\ record'[x] = "live" /\ record[x] \in Kept => record[x] = "live",
         \A t \in Passes : pass[t] = UsedPass => pass'[t] = UsedPass,
         sealed' = sealed \/ \A d \in Requests \ {c} : ~Invalidating(d)
  PROVE  AccessInv'
<1>1. call \in [Requests -> Call]
  BY DEF AccessInv, AccessTypeOK
<1>2. call'[c] = r /\ \A d \in Requests \ {c} : call'[d] = call[d]
  BY <1>1
<1>3. ASSUME NEW d \in Requests PROVE Sound(call[d])'
  <2>1. CASE d = c
    BY <1>2, <2>1
  <2>2. CASE d # c
    <3>1. call'[d] = call[d] /\ Sound(call[d]) /\ call[d].cutoff \in Nat
      BY <1>1, <1>2, <2>2, AccessAssumption DEF AccessInv, Call, Times
    <3>2. Recorded(call[d])'
      BY <3>1 DEF Sound, Recorded
    <3>3. Pass(call[d])'
      BY <3>1 DEF Sound, Pass
    <3>4. Raising(call[d])'
      BY <2>2, <3>1 DEF Sound, Raising, Invalidating
    <3>5. QED
      BY <3>2, <3>3, <3>4 DEF Sound
  <2>3. QED
    BY <2>1, <2>2
<1>4. ASSUME NEW d \in Requests, NEW e \in Requests, d # e PROVE Apart(call[d], call[e])'
  <2>1. Apart(call'[d], call'[e])
    BY <1>2, <1>4 DEF AccessInv, Apart
  <2>2. QED
    BY <2>1 DEF Apart
<1>5. QED
  BY <1>3, <1>4 DEF AccessInv

LEMMA RevokeAllStep ==
  ASSUME AccessInv, NEW c \in Requests, RevokeAll(c)
  PROVE  AccessInv'
<1> DEFINE r == call[c]
<1>0. PICK s : s = [r EXCEPT !.pc = IF r.op = "logoutAll" THEN "mark" ELSE "cutoff"]
  OBVIOUS
<1>1. /\ r \in Call /\ Sound(r) /\ r.pc = "revoke" /\ call' = [call EXCEPT ![c] = s]
      /\ record' = [x \in Records |-> IF record[x] = "live" THEN "revoked" ELSE record[x]]
      /\ UNCHANGED <<clock, token, marker, pass, sealed>>
  BY <1>0, OneCall DEF RevokeAll, Turn
<1>2. s \in Call
  BY <1>0, <1>1 DEF Call
<1>3. /\ s.pc \in {"mark", "cutoff"} /\ s.cutoff = r.cutoff /\ s.known = r.known
      /\ s.record = r.record /\ s.floor = r.floor /\ (s.pc = "mark" => r.op = "logoutAll")
  BY <1>0, <1>1 DEF Call
<1>4. AccessTypeOK'
  BY <1>1, <1>2 DEF AccessInv, AccessTypeOK, Held
<1>5. Tables'
  <2>1. \A x \in Records : record[x] \in Kept => record'[x] \in Kept
    BY <1>1 DEF Kept
  <2>2. \A t \in Passes : Held(t) => pass[t].record \in Records
    BY HeldFacts DEF AccessInv, HeldPass
  <2>3. QED
    BY <1>1, <2>1, <2>2 DEF AccessInv, Tables, Held
<1>6. Sound(s)'
  <2>1. Recorded(s)'
    BY <1>1, <1>3 DEF Sound, Recorded, Kept, Upgrading
  <2>2. Pass(s)'
    BY <1>1, <1>3 DEF Sound, Pass, Upgrading
  <2>3. Raising(s)'
    BY <1>1, <1>3 DEF Sound, Raising
  <2>4. QED
    BY <2>1, <2>2, <2>3 DEF Sound
<1>7. \A d \in Requests : Apart(s, call[d])
  BY <1>3 DEF Apart, Upgrading
<1>8. QED
  BY <1>1, <1>2, <1>4, <1>5, <1>6, <1>7, TurnStep DEF Kept

\* No other marker is to be written when a cutoff becomes sealed.
LEMMA MarkStep ==
  ASSUME AccessInv, NEW c \in Requests, Mark(c)
  PROVE  AccessInv'
<1> DEFINE r == call[c]
<1>1. /\ r \in Call /\ Sound(r) /\ r.pc = "mark" /\ call' = [call EXCEPT ![c] = Over]
      /\ marker' = r.cutoff /\ sealed' = Sealed(c)
      /\ UNCHANGED <<clock, record, token, pass>>
  BY OneCall DEF Mark, Turn
<1>2. /\ r.cutoff \in Times /\ r.cutoff \in Nat /\ sealed \in Times /\ sealed \in Nat
      /\ 0 < r.cutoff /\ sealed <= r.cutoff /\ r.cutoff <= clock /\ clock \in Nat
  BY <1>1, OneCall, AccessAssumption
  DEF Sound, Raising, Call, Times, AccessInv, AccessTypeOK
<1>3. /\ sealed' \in {sealed, r.cutoff}
      /\ sealed' = sealed \/ \A d \in Requests \ {c} : ~Invalidating(d)
  BY <1>1, <1>2 DEF Sealed, Later
<1>4. AccessTypeOK'
  BY <1>1, <1>2, <1>3, NoCall DEF AccessInv, AccessTypeOK, Held
<1>5. Tables'
  BY <1>1, <1>2, <1>3 DEF AccessInv, Tables, Held
<1>6. Sound(Over)'
  BY <1>1, <1>2, NoCall DEF Sound, Recorded, Pass, Raising, Upgrading
<1>7. \A d \in Requests : Apart(Over, call[d])
  BY NoCall DEF Apart, Upgrading
<1>8. QED
  BY <1>1, <1>3, <1>4, <1>5, <1>6, <1>7, NoCall, TurnStep

\* The life of a ticket that is still to be stored.
LEMMA IssueTicketStep ==
  ASSUME AccessInv, NEW c \in Requests, IssueTicket(c)
  PROVE  AccessInv'
<1> DEFINE r == call[c]
<1>1. r \in Call /\ Sound(r) /\ r.pc = "issue"
  BY OneCall DEF IssueTicket
<1>2. PICK l : l = IF r.exp - clock < TicketTTL THEN r.exp - clock ELSE TicketTTL
  OBVIOUS
<1>3. PICK s : s = [r EXCEPT !.pc = "store", !.ttl = l]
  OBVIOUS
<1>4. CASE Quit(c)
  BY <1>4, QuitStep
<1>5. CASE clock < r.exp /\ Shift(c, s)
  <2>1. r.exp \in Nat /\ clock \in Nat
    BY <1>1, OneCall, Lifetime, AccessAssumption DEF Call, Expiries
  <2>2. l \in 0..TicketTTL
    BY <1>2, <1>5, <2>1, AccessAssumption
  <2>3. s \in Call
    BY <1>1, <1>3, <2>2 DEF Call
  <2>4. /\ s.pc = "store" /\ s.cutoff = r.cutoff /\ s.known = r.known
        /\ s.record = r.record /\ s.floor = r.floor
    BY <1>1, <1>3 DEF Call
  <2>5. Sound(s)
    BY <1>1, <2>4 DEF Sound, Recorded, Pass, Raising, Upgrading
  <2>6. \A d \in Requests : Apart(s, call[d])
    BY <2>4 DEF Apart, Upgrading
  <2>7. QED
    BY <1>5, <2>3, <2>5, <2>6, ShiftStep
<1>6. QED
  BY <1>2, <1>3, <1>4, <1>5 DEF IssueTicket

\* The ticket of a committed record.
LEMMA StoreTicketStep ==
  ASSUME AccessInv, NEW c \in Requests, StoreTicket(c)
  PROVE  AccessInv'
<1> DEFINE r == call[c]
<1>1. /\ r \in Call /\ Sound(r) /\ r.pc = "store" /\ call' = [call EXCEPT ![c] = Over]
      /\ UNCHANGED <<clock, record, token, marker, sealed>>
  BY OneCall DEF StoreTicket, Turn
<1>2. PICK x : x = [state |-> "held", record |-> r.record, exp |-> r.exp,
                    until |-> clock + r.ttl]
  OBVIOUS
<1>3. \E t \in Passes : pass[t] = NoPass /\ pass' = [pass EXCEPT ![t] = x]
  BY <1>2 DEF StoreTicket
<1>4. /\ x.state = "held" /\ x.record = r.record
      /\ x \in HeldPass /\ record[x.record] \in Kept
  <2>1. r.exp \in Expiries /\ r.ttl \in 0..TicketTTL /\ clock \in Times
    BY <1>1 DEF Call, AccessInv, AccessTypeOK
  <2>2. x.until \in 0..(MaxTime + TicketTTL)
    BY <1>2, <2>1, AccessAssumption DEF Times
  <2>3. r.record \in Records /\ record[r.record] \in Kept
    BY <1>1 DEF Sound, Recorded
  <2>4. QED
    BY <1>2, <2>1, <2>2, <2>3 DEF HeldPass
<1>5. NoPass # UsedPass
  BY DEF NoPass, UsedPass
<1>6. AccessTypeOK'
  BY <1>1, <1>3, <1>4, NoCall DEF AccessInv, AccessTypeOK, Held
<1>7. Tables'
  BY <1>1, <1>3, <1>4 DEF AccessInv, AccessTypeOK, Tables, Held
<1>8. Sound(Over)'
  BY <1>1, OneCall, NoCall DEF Sound, Recorded, Pass, Raising, Upgrading
<1>9. \A d \in Requests : Apart(Over, call[d])
  BY NoCall DEF Apart, Upgrading
<1>10. \A t \in Passes : pass[t] = UsedPass => pass'[t] = UsedPass
  BY <1>3, <1>5 DEF AccessInv, AccessTypeOK
<1>11. QED
  BY <1>1, <1>6, <1>7, <1>8, <1>9, <1>10, NoCall, TurnStep

\* GETDEL: whoever gets the ticket is the only one to get it.
LEMMA ConsumeStep ==
  ASSUME AccessInv, NEW c \in Requests, NEW t \in Passes, Consume(c, t)
  PROVE  AccessInv'
<1>1. PICK s : s = IF clock < pass[t].until /\ clock < pass[t].exp
       THEN [NoRequest EXCEPT !.pc = "upgrade", !.op = "upgrade", !.pass = t,
               !.record = pass[t].record, !.exp = pass[t].exp,
               !.live = record[pass[t].record] = "live"]
       ELSE Over
  OBVIOUS
<1>2. /\ call' = [call EXCEPT ![c] = s] /\ Held(t)
      /\ pass' = [pass EXCEPT ![t] = UsedPass]
      /\ UNCHANGED <<clock, record, token, marker, sealed>>
  BY <1>1 DEF Consume, Turn
<1>3. /\ pass[t] \in HeldPass /\ pass[t] # UsedPass /\ record[pass[t].record] \in Kept
      /\ pass[t].record \in Records /\ pass[t].exp \in Expiries
  BY <1>2, HeldFacts DEF AccessInv, Tables, HeldPass
<1>4. /\ s.pc = "upgrade" \/ s = Over
      /\ s.pc = "upgrade" => /\ s.record = pass[t].record /\ s.pass = t
                             /\ (record[s.record] = "live" => s.live)
      /\ s.cutoff = 0 /\ ~s.known
  BY <1>1, NoCall DEF NoRequest
<1>5. s \in Call
  BY <1>1, <1>3, NoCall DEF Call
<1>6. pass' \in [Passes -> {NoPass, UsedPass} \cup HeldPass] /\ pass'[t] = UsedPass
      /\ \A x \in Passes \ {t} : pass'[x] = pass[x]
  BY <1>2 DEF AccessInv, AccessTypeOK
<1>7. UsedPass.state # "held"
  BY DEF UsedPass, NoPass
<1>8. AccessTypeOK'
  BY <1>2, <1>5, <1>6, <1>7 DEF AccessInv, AccessTypeOK, Held
<1>9. Tables'
  BY <1>2, <1>6, <1>7 DEF AccessInv, Tables, Held
<1>10. Sound(s)'
  <2>1. Recorded(s)'
    BY <1>2, <1>3, <1>4, NoCall DEF Recorded, Upgrading
  <2>2. Pass(s)'
    BY <1>2, <1>4, <1>6, NoCall DEF Pass, Upgrading
  <2>3. Raising(s)'
    BY <1>2, <1>4, NoCall, OneCall DEF Raising
  <2>4. QED
    BY <2>1, <2>2, <2>3 DEF Sound
<1>11. ASSUME NEW d \in Requests PROVE Apart(s, call[d])
  <2>1. call[d].pc \in Upgrading => pass[call[d].pass] = UsedPass
    BY OneCall DEF Sound, Pass
  <2>2. QED
    BY <1>3, <1>4, <2>1, NoCall DEF Apart, Upgrading
<1>12. QED
  BY <1>2, <1>5, <1>6, <1>8, <1>9, <1>10, <1>11, TurnStep

-----------------------------------------------------------------------------
(* Steps of no request.                                                    *)

LEMMA TablesStep ==
  ASSUME AccessInv, AccessTypeOK', Tables', call' = call, sealed' = sealed,
         pass' = pass, clock' \in {clock, clock + 1},
         \A x \in Records : record[x] \in Kept =>
           /\ record'[x] \in Kept /\ token'[x] = token[x]
           /\ record'[x] = "live" => record[x] = "live"
  PROVE  AccessInv'
<1>1. ASSUME NEW d \in Requests PROVE Sound(call[d])'
  <2>1. /\ call'[d] = call[d] /\ Sound(call[d]) /\ call[d].cutoff \in Nat
        /\ clock \in Nat
    BY OneCall, AccessAssumption DEF Call, Times
  <2>2. Recorded(call[d])'
    BY <2>1 DEF Sound, Recorded
  <2>3. Pass(call[d])'
    BY <2>1 DEF Sound, Pass
  <2>4. Raising(call[d])'
    BY <2>1 DEF Sound, Raising
  <2>5. QED
    BY <2>2, <2>3, <2>4 DEF Sound
<1>2. ASSUME NEW d \in Requests, NEW e \in Requests, d # e PROVE Apart(call[d], call[e])'
  BY <1>2 DEF AccessInv, Apart
<1>3. QED
  BY <1>1, <1>2 DEF AccessInv

LEMMA IssueTokenStep ==
  ASSUME AccessInv, NEW r \in Records, IssueToken(r)
  PROVE  AccessInv'
<1> DEFINE t == [iat |-> Seconds(clock), born |-> clock,
                 exp |-> Seconds(clock) + AccessTTL * PerSecond]
<1>1. /\ record[r] = "none" /\ record' = [record EXCEPT ![r] = "pending"]
      /\ token' = [token EXCEPT ![r] = t]
      /\ UNCHANGED <<clock, marker, pass, call, sealed>>
  BY DEF IssueToken
<1>2. t \in [iat : Times, born : Times, exp : Expiries] /\ t.iat <= t.born
  <2>1. Seconds(clock) \in Nat /\ Seconds(clock) <= clock /\ clock \in Times
    BY SecondsFacts, AccessAssumption DEF AccessInv, AccessTypeOK, Times
  <2>2. QED
    BY <2>1, Lifetime, AccessAssumption DEF Times, Expiries
<1> HIDE DEF t
<1>3. AccessTypeOK'
  BY <1>1, <1>2 DEF AccessInv, AccessTypeOK, Held
<1>4. Tables'
  <2>1. \A x \in Passes : Held(x) => pass[x].record \in Records /\ pass[x].record # r
    BY <1>1, HeldFacts DEF AccessInv, Tables, HeldPass, Kept
  <2>2. QED
    BY <1>1, <1>2, <2>1 DEF AccessInv, AccessTypeOK, Tables, Held
<1>5. QED
  BY <1>1, <1>3, <1>4, TablesStep DEF Kept, AccessInv, AccessTypeOK

LEMMA CommitTokenStep ==
  ASSUME AccessInv, NEW r \in Records, CommitToken(r)
  PROVE  AccessInv'
<1>1. /\ record[r] = "pending" /\ record' = [record EXCEPT ![r] = "live"]
      /\ UNCHANGED <<clock, token, marker, pass, call, sealed>>
  BY DEF CommitToken
<1>2. AccessTypeOK'
  BY <1>1 DEF AccessInv, AccessTypeOK, Held
<1>3. \A x \in Passes : Held(x) => pass[x].record \in Records
  BY HeldFacts DEF AccessInv, HeldPass
<1>4. Tables'
  BY <1>1, <1>3 DEF AccessInv, AccessTypeOK, Tables, Held, Kept
<1>5. QED
  BY <1>1, <1>2, <1>4, TablesStep DEF Kept, AccessInv, AccessTypeOK

LEMMA RevokeStep ==
  ASSUME AccessInv, NEW R \in SUBSET Records, Revoke(R)
  PROVE  AccessInv'
<1>1. /\ \A r \in R : record[r] = "live"
      /\ record' = [r \in Records |-> IF r \in R THEN "revoked" ELSE record[r]]
      /\ UNCHANGED <<clock, token, marker, pass, call, sealed>>
  BY DEF Revoke
<1>2. AccessTypeOK'
  BY <1>1 DEF AccessInv, AccessTypeOK, Held
<1>3. \A x \in Passes : Held(x) => pass[x].record \in Records
  BY HeldFacts DEF AccessInv, HeldPass
<1>4. Tables'
  BY <1>1, <1>3 DEF AccessInv, AccessTypeOK, Tables, Held, Kept
<1>5. QED
  BY <1>1, <1>2, <1>4, TablesStep DEF Kept

LEMMA TickStep ==
  ASSUME AccessInv, Tick
  PROVE  AccessInv'
<1>1. /\ clock \in Nat /\ clock < MaxTime /\ clock' = clock + 1 /\ marker \in Nat
      /\ UNCHANGED <<record, token, marker, pass, call, sealed>>
  BY AccessAssumption DEF Tick, AccessInv, AccessTypeOK, Times
<1>2. clock' \in Times
  BY <1>1, AccessAssumption DEF Times
<1>3. AccessTypeOK'
  BY <1>1, <1>2 DEF AccessInv, AccessTypeOK, Held
<1>4. Tables'
  BY <1>1 DEF AccessInv, Tables, Held
<1>5. QED
  BY <1>1, <1>3, <1>4, TablesStep

-----------------------------------------------------------------------------
(* The theorems.                                                           *)

LEMMA NextAccessInv == AccessInv /\ [AccessNext]_accessVars => AccessInv'
<1> SUFFICES ASSUME AccessInv, [AccessNext]_accessVars PROVE AccessInv'
  OBVIOUS
<1>1. ASSUME NEW r \in Records, IssueToken(r) \/ CommitToken(r) PROVE AccessInv'
  BY <1>1, IssueTokenStep, CommitTokenStep
<1>2. ASSUME NEW R \in SUBSET Records, Revoke(R) PROVE AccessInv'
  BY <1>2, RevokeStep
<1>3. ASSUME NEW c \in Requests,
             \/ \E r \in Records, op \in {"ticket", "logoutAll", "delete"} :
                  Authenticate(c, r, op)
             \/ TakeCutoff(c) \/ RevokeAll(c) \/ Mark(c)
             \/ IssueTicket(c) \/ StoreTicket(c)
             \/ \E t \in Passes : Consume(c, t)
      PROVE  AccessInv'
  BY <1>3, AuthenticateStep, TakeCutoffStep, RevokeAllStep, MarkStep, IssueTicketStep,
     StoreTicketStep, ConsumeStep
<1>4. ASSUME NEW c \in Requests, TicketActive(c) PROVE AccessInv'
  BY <1>4, HopStep, QuitStep DEF TicketActive
<1>5. ASSUME NEW c \in Requests, Upgrade(c) PROVE AccessInv'
  BY <1>5, HopStep, QuitStep DEF Upgrade
<1>6. ASSUME NEW c \in Requests, Connect(c) \/ Drop(c) PROVE AccessInv'
  BY <1>6, ConnectStep, QuitStep DEF Drop
<1>7. CASE Tick
  BY <1>7, TickStep
<1>8. CASE UNCHANGED accessVars
  <2>1. UNCHANGED <<clock, record, token, marker, pass, call, sealed>>
    BY <1>8 DEF accessVars
  <2>2. AccessTypeOK' /\ Tables'
    BY <2>1 DEF AccessInv, AccessTypeOK, Tables, Held
  <2>3. QED
    BY <2>1, <2>2, TablesStep
<1>9. QED
  BY <1>1, <1>2, <1>3, <1>4, <1>5, <1>6, <1>7, <1>8 DEF AccessNext

LEMMA InvariantOfAccess == AccessSpec => []AccessInv
  BY InitAccessInv, NextAccessInv, PTL DEF AccessSpec

\* The state of access tokens, tickets and requests keeps its types.
THEOREM AccessTypes == AccessSpec => []AccessTypeOK
<1>1. AccessInv => AccessTypeOK
  BY DEF AccessInv
<1>2. QED
  BY <1>1, InvariantOfAccess, PTL

\* No request that Redis answered is let in with an access token issued before
\* the cutoff of a logout-all or deletion that no other overlapped
\* (httpx.go:96-108, sessions.go:136-166, deletion.go:108-114).
THEOREM LoggedOutIsOut == AccessSpec => []LogoutAllHolds
<1>1. AccessInv => LogoutAllHolds
  BY DEF AccessInv, Sound, Recorded, LogoutAllHolds
<1>2. QED
  BY <1>1, InvariantOfAccess, PTL

\* Every socket was opened by a ticket of its own, in the lifetime of its
\* access token, for a session that was live when the ticket was presented
\* (realtime/server.go:92-131, tickets.go:71-92).
THEOREM OpenSocketsAreEarned == AccessSpec => []SocketsAreEarned
<1>1. AccessInv => SocketsAreEarned
  BY DEF AccessInv, Sound, Recorded, Pass, Apart, Upgrading, SocketsAreEarned
<1>2. QED
  BY <1>1, InvariantOfAccess, PTL

-----------------------------------------------------------------------------
(* Migrations.                                                             *)


\* Where a replica that holds the lock may be: all earlier files are applied,
\* and the one that it runs is the next.
Progress(r) ==
  /\ replica[r].pc = "check" => replica[r].file \in 1..(Len(schema) + 1)
  /\ replica[r].pc \in {"run", "commit"} =>
       replica[r].file = Len(schema) + 1 /\ replica[r].file \in 1..Files

MigrationsInv ==
  /\ MigrationsTypeOK
  /\ MigrationsRunOnce
  /\ \A r \in Replicas : Progress(r)

-----------------------------------------------------------------------------

LEMMA MigrationsInitInv == MigrationsInit => MigrationsInv
  BY FilesAssumption DEF MigrationsInit, MigrationsInv, MigrationsTypeOK,
     MigrationsRunOnce, Progress, Applying

\* The ledger is an initial segment of the files.
LEMMA AppliedBound == MigrationsInv => Len(schema) \in 0..Files
<1> SUFFICES ASSUME MigrationsInv PROVE Len(schema) \in 0..Files
  OBVIOUS
<1>1. /\ schema \in Seq(1..Files) /\ Len(schema) \in Nat
      /\ 1..Len(schema) \subseteq 1..Files
  BY DEF MigrationsInv, MigrationsTypeOK, MigrationsRunOnce
<1>2. Len(schema) # 0 => Len(schema) \in 1..Len(schema)
  BY <1>1
<1>3. QED
  BY <1>1, <1>2, FilesAssumption

\* A step that leaves the ledger and the schema alone, and gives r the lock if
\* r goes on applying.
LEMMA QuietStep ==
  ASSUME MigrationsInv, NEW r \in Replicas, NEW pc, NEW n, At(r, pc, n),
         UNCHANGED <<ledger, schema>>,
         pc \in {"start", "check", "run", "commit", "serving"},
         n \in 0..(Files + 1),
         advisory' \in Replicas \cup {NoReplica},
         \A q \in Replicas \ {r} : Applying(q) => advisory' = q,
         pc \in {"check", "run", "commit"} => advisory' = r,
         pc = "check" => n \in 1..(Len(schema) + 1),
         pc \in {"run", "commit"} => n = Len(schema) + 1 /\ n \in 1..Files,
         pc = "serving" => Len(schema) = Files
  PROVE  MigrationsInv'
<1>1. /\ replica'[r] = [pc |-> pc, file |-> n]
      /\ \A q \in Replicas \ {r} : replica'[q] = replica[q]
  BY DEF At, MigrationsInv, MigrationsTypeOK
<1>2. MigrationsTypeOK'
  <2>1. \A q \in Replicas : Applying(q)' => advisory' = q
    BY <1>1 DEF Applying
  <2>2. QED
    BY <2>1 DEF At, MigrationsInv, MigrationsTypeOK
<1>3. MigrationsRunOnce'
  <2>1. ASSUME NEW q \in Replicas
        PROVE  /\ replica'[q].pc # "refused"
               /\ replica'[q].pc = "serving" => Len(schema) = Files
    BY <1>1 DEF MigrationsInv, MigrationsRunOnce
  <2>2. QED
    BY <2>1 DEF MigrationsInv, MigrationsRunOnce
<1>4. ASSUME NEW q \in Replicas PROVE Progress(q)'
  BY <1>1 DEF MigrationsInv, Progress
<1>5. QED
  BY <1>2, <1>3, <1>4 DEF MigrationsInv

LEMMA TakeLockInv ==
  ASSUME MigrationsInv, NEW r \in Replicas, TakeLock(r) PROVE MigrationsInv'
<1>1. \A q \in Replicas : ~Applying(q)
  BY NoReplicaAssumption DEF TakeLock, MigrationsInv, MigrationsTypeOK
<1>2. Len(schema) \in 0..Files
  BY AppliedBound
<1>3. QED
  BY <1>1, <1>2, FilesAssumption, QuietStep DEF TakeLock

LEMMA CheckFileInv ==
  ASSUME MigrationsInv, NEW r \in Replicas, CheckFile(r) PROVE MigrationsInv'
<1> DEFINE n == replica[r].file
<1>1. /\ Len(schema) \in 0..Files /\ ledger = 1..Len(schema)
      /\ n \in 1..(Len(schema) + 1) /\ n <= Files
      /\ advisory \in Replicas \cup {NoReplica} /\ advisory' = advisory
      /\ \A q \in Replicas : Applying(q) => advisory = q
      /\ advisory = r
  BY AppliedBound DEF CheckFile, MigrationsInv, MigrationsTypeOK,
     MigrationsRunOnce, Progress, Applying
<1>2. CASE n \in ledger
  BY <1>1, <1>2, FilesAssumption, QuietStep DEF CheckFile
<1>3. CASE n \notin ledger
  BY <1>1, <1>3, FilesAssumption, QuietStep DEF CheckFile
<1>4. QED
  BY <1>2, <1>3

LEMMA RunFileInv ==
  ASSUME MigrationsInv, NEW r \in Replicas, RunFile(r) PROVE MigrationsInv'
<1> DEFINE n == replica[r].file
<1>1. /\ Len(schema) \in 0..Files
      /\ \A i \in 1..Len(schema) : schema[i] = i
      /\ n = Len(schema) + 1 /\ n \in 1..Files
      /\ advisory \in Replicas \cup {NoReplica}
      /\ \A q \in Replicas : Applying(q) => advisory = q
      /\ advisory = r
  BY AppliedBound DEF RunFile, MigrationsInv, MigrationsTypeOK,
     MigrationsRunOnce, Progress, Applying
<1>2. ~ \E i \in 1..Len(schema) : schema[i] = n
  BY <1>1
<1>3. At(r, "commit", n) /\ UNCHANGED <<advisory, ledger, schema>>
  BY <1>2 DEF RunFile
<1>4. QED
  BY <1>1, <1>3, FilesAssumption, QuietStep

LEMMA CommitFileInv ==
  ASSUME MigrationsInv, NEW r \in Replicas, CommitFile(r) PROVE MigrationsInv'
<1> DEFINE n == replica[r].file
<1>1. /\ Len(schema) \in 0..Files /\ schema \in Seq(1..Files)
      /\ \A i \in 1..Len(schema) : schema[i] = i
      /\ ledger = 1..Len(schema)
      /\ n = Len(schema) + 1 /\ n \in 1..Files
      /\ advisory = r
      /\ \A q \in Replicas : Applying(q) => q = r
  BY AppliedBound DEF CommitFile, MigrationsInv, MigrationsTypeOK,
     MigrationsRunOnce, Progress, Applying
<1>2. /\ replica'[r] = [pc |-> "check", file |-> n + 1]
      /\ \A q \in Replicas \ {r} : replica'[q] = replica[q]
      /\ UNCHANGED advisory
  BY DEF CommitFile, At, MigrationsInv, MigrationsTypeOK
<1>3. /\ Len(schema') = Len(schema) + 1
      /\ \A i \in 1..Len(schema') : schema'[i] = i
      /\ ledger' = 1..Len(schema')
  <2>1. schema' = Append(schema, n) /\ ledger' = ledger \cup {n}
    BY DEF CommitFile
  <2>2. QED
    BY <1>1, <2>1
<1>4. MigrationsTypeOK'
  <2>1. \A q \in Replicas : Applying(q)' => advisory' = q
    BY <1>1, <1>2 DEF Applying
  <2>2. QED
    BY <1>1, <1>2, <2>1, FilesAssumption DEF CommitFile, At, MigrationsInv,
       MigrationsTypeOK
<1>5. ASSUME NEW q \in Replicas
      PROVE  replica[q].pc # "serving"
  BY <1>1, FilesAssumption DEF MigrationsInv, MigrationsRunOnce
<1>6. MigrationsRunOnce'
  <2>1. ASSUME NEW q \in Replicas PROVE replica'[q].pc \notin {"refused", "serving"}
    BY <1>2, <1>5 DEF MigrationsInv, MigrationsRunOnce
  <2>2. QED
    BY <1>3, <2>1 DEF MigrationsRunOnce
<1>7. ASSUME NEW q \in Replicas PROVE Progress(q)'
  BY <1>1, <1>2, <1>3 DEF Progress, Applying
<1>8. QED
  BY <1>4, <1>6, <1>7 DEF MigrationsInv

LEMMA LeaveInv ==
  ASSUME MigrationsInv, NEW r \in Replicas, Serve(r) \/ Restart(r)
  PROVE  MigrationsInv'
<1>1. /\ Len(schema) \in 0..Files
      /\ advisory \in Replicas \cup {NoReplica}
      /\ \A q \in Replicas : Applying(q) => advisory = q
      /\ replica[r].pc = "check" => replica[r].file \in 1..(Len(schema) + 1)
  BY AppliedBound DEF MigrationsInv, MigrationsTypeOK, Progress
<1>2. /\ advisory' = IF advisory = r THEN NoReplica ELSE advisory
      /\ \A q \in Replicas \ {r} : Applying(q) => advisory' = q
  BY <1>1 DEF Serve, Restart
<1>3. CASE Serve(r)
  <2>1. Len(schema) = Files
    BY <1>1, <1>3, FilesAssumption DEF Serve
  <2>2. QED
    BY <1>1, <1>2, <1>3, <2>1, FilesAssumption, QuietStep DEF Serve
<1>4. CASE Restart(r)
  BY <1>1, <1>2, <1>4, FilesAssumption, QuietStep DEF Restart
<1>5. QED
  BY <1>3, <1>4

LEMMA MigrationsNextInv ==
  MigrationsInv /\ [MigrationsNext]_migrationVars => MigrationsInv'
<1> SUFFICES ASSUME MigrationsInv, [MigrationsNext]_migrationVars
             PROVE  MigrationsInv'
  OBVIOUS
<1>1. ASSUME NEW r \in Replicas, TakeLock(r) PROVE MigrationsInv'
  BY <1>1, TakeLockInv
<1>2. ASSUME NEW r \in Replicas, CheckFile(r) PROVE MigrationsInv'
  BY <1>2, CheckFileInv
<1>3. ASSUME NEW r \in Replicas, RunFile(r) PROVE MigrationsInv'
  BY <1>3, RunFileInv
<1>4. ASSUME NEW r \in Replicas, CommitFile(r) PROVE MigrationsInv'
  BY <1>4, CommitFileInv
<1>5. ASSUME NEW r \in Replicas, Serve(r) \/ Restart(r) PROVE MigrationsInv'
  BY <1>5, LeaveInv
<1>6. CASE UNCHANGED migrationVars
  BY <1>6 DEF migrationVars, MigrationsInv, MigrationsTypeOK, MigrationsRunOnce,
     Progress, Applying
<1>7. QED
  BY <1>1, <1>2, <1>3, <1>4, <1>5, <1>6 DEF MigrationsNext

-----------------------------------------------------------------------------

\* However many replicas start together and die on the way, each of any number
\* of files is applied once and in order, the ledger lists exactly those, no
\* replica is refused, and none serves an older schema (migrations/embed.go).
THEOREM EachMigrationRunsOnce == MigrationsSpec => []MigrationsRunOnce
<1>1. MigrationsInv => MigrationsRunOnce
  BY DEF MigrationsInv
<1>2. QED
  BY <1>1, MigrationsInitInv, MigrationsNextInv, PTL DEF MigrationsSpec

\* Each variable of Migrations has its type, and of any number of replicas
\* only the one that holds the advisory lock is at work.
THEOREM MigrationsTypes == MigrationsSpec => []MigrationsTypeOK
<1>1. MigrationsInv => MigrationsTypeOK
  BY DEF MigrationsInv
<1>2. QED
  BY <1>1, MigrationsInitInv, MigrationsNextInv, PTL DEF MigrationsSpec
=============================================================================
