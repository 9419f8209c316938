------------------------- MODULE AuthSessionsProofs -------------------------
(***************************************************************************)
(* Proofs about AuthSessions, for any number of requests, accounts,        *)
(* sign-ins and tokens and any mix of handlers: rotation is a chain, a     *)
(* session ended by a handler that locks it first is dead, and no rotation *)
(* gets through for a deleted user.                                        *)
(*                                                                         *)
(* The inductive invariant has a part about one transaction and the        *)
(* database, Local, a part about two transactions, Apart, and a part about *)
(* the database alone.  A step that leaves the database alone changes one  *)
(* transaction, so lemma LocalStep reduces it to Local and Apart of the    *)
(* new record; only Flush, Commit and Expire are about more.  Deleted      *)
(* users need a second invariant on top of it, DeletionInv, and the steps  *)
(* are gone through again for it.                                          *)
(***************************************************************************)
EXTENDS AuthSessions, TLAPS

Sealing == {"revoke", "logoutAll", "delete"}

\* A rotation that has inserted the successor.
Rotating(r) == r.op = "rotate" /\ r.next # None

-----------------------------------------------------------------------------
(* The inductive invariant.                                                *)

\* How far a handler has got, and with which arguments.
Control(r) ==
  /\ r.pc \in {"idle", "done"} => r = [Idle EXCEPT !.pc = r.pc]
  /\ r.pc = "create" => r.op = "login" /\ r.next = None /\ r.todoF = {}
  /\ r.pc \in {"lock", "insert", "touch"} => r.op = "rotate"
  /\ r.pc \in {"lock", "insert"} => r.next = None
  /\ r.pc = "user" => r.op = "reset"
  /\ r.pc = "flush" => r.op = "logout"
  /\ r.pc \in {"tokens", "updTokens"} =>
       r.op \in Sealing \cup {"reset", "logout", "reuse"}
  /\ r.pc \in {"sessions", "updSessions"} =>
       r.op \in Sealing \cup {"logout", "reuse"}
  /\ r.next # None => \/ r.op = "rotate" /\ r.pc \in {"touch", "commit"}
                      \/ r.op = "login" /\ r.pc = "commit"
  /\ r.op = "delete" => r.user \in Users
  /\ r.op \in {"logout", "reuse", "revoke"} => r.fam \in Families

\* What is still to be written is written to a row that is there, under a lock,
\* and whoever inserts a token revokes none.
Writes(r) ==
  /\ r.rev \subseteq r.heldT
  /\ r.pc \in {"lock", "insert", "create"} \/ r.next # None => r.rev = {}
  /\ \A t \in r.rev \cup r.todoT : family[t] # None
  /\ r.end \subseteq r.heldF
  /\ r.use = IF Rotating(r) THEN {r.cur} ELSE {}
  /\ r.end # {} => r.op \in Sealing \cup {"logout", "reuse"}

\* A rotation past its checks holds the one token it exchanges, unchanged.
Rotation(r) ==
  /\ r.op = "rotate" => /\ r.cur \in Tokens /\ r.fam \in Families
                        /\ family[r.cur] = r.fam
  /\ r.pc = "insert" \/ Rotating(r) =>
       r.cur \in r.heldT /\ r.cur \notin used \cup revoked
  /\ Rotating(r) /\ r.pc = "commit" => r.fam \in r.heldF

\* What is being inserted is not there yet.
Fresh(r) ==
  r.next # None => /\ family[r.next] = None
                   /\ r.fam \in Families
                   /\ r.op = "login" => Rows(r.fam) = {}

\* A handler that holds a session it has ended reaches its live tokens.
Reach(r) ==
  /\ \A f \in r.todoF \cup r.end : Rows(f) # {} /\ f \in Scope(r)
  /\ r.op \in Sealing /\ r.pc = "updTokens" =>
       \A t \in Tokens : family[t] \in r.end /\ Live(t)
                           => t \in r.todoT \cup r.rev
  /\ r.op \in Sealing /\ r.pc = "commit" =>
       \A t \in Tokens : family[t] \in r.end /\ Live(t) => t \in r.rev

Local(r) == Control(r) /\ Writes(r) /\ Rotation(r) /\ Fresh(r) /\ Reach(r)

\* Row locks are exclusive and so are the ids two transactions insert.
Apart(r, s) ==
  /\ r.heldT \cap s.heldT = {}
  /\ r.heldF \cap s.heldF = {}
  /\ r.next # None => r.next # s.next
  /\ r.next # None /\ r.op = "login" => r.fam # s.fam

RowsExist ==
  /\ \A f \in sealed : Rows(f) # {}
  /\ \A t \in used \cup revoked : family[t] # None

Inv ==
  /\ TypeOK
  /\ \A p \in Requests : Local(tx[p])
  /\ \A p, q \in Requests : p # q => Apart(tx[p], tx[q])
  /\ RowsExist
  /\ OneUnusedToken
  /\ SealedSessionsAreDead

-----------------------------------------------------------------------------
LEMMA InitInv == Init => Inv
<1> SUFFICES ASSUME Init PROVE Inv
  OBVIOUS
<1>1. TypeOK
  BY SignedInAssumption DEF Init, TypeOK, Transaction, Idle, PCs
<1>2. ASSUME NEW p \in Requests PROVE Local(tx[p])
  BY DEF Init, Idle, Local, Control, Writes, Rotation, Rotating, Fresh, Reach
<1>3. ASSUME NEW p \in Requests, NEW q \in Requests PROVE Apart(tx[p], tx[q])
  BY DEF Init, Idle, Apart
<1>4. RowsExist /\ OneUnusedToken /\ SealedSessionsAreDead
  BY DEF Init, RowsExist, OneUnusedToken, SealedSessionsAreDead
<1>5. QED
  BY <1>1, <1>2, <1>3, <1>4 DEF Inv

\* A step of p that leaves the database alone keeps the invariant if p's new
\* record fits in.
LEMMA LocalStep ==
  ASSUME Inv, NEW p \in Requests, NEW r \in Transaction,
         Set(p, r), UNCHANGED db,
         Local(r),
         \A q \in Requests \ {p} : Apart(r, tx[q]) /\ Apart(tx[q], r)
  PROVE  Inv'
<1>1. /\ tx' = [tx EXCEPT ![p] = r]
      /\ tx \in [Requests -> Transaction]
  BY DEF Set, Inv, TypeOK
<1>2. tx'[p] = r /\ \A q \in Requests \ {p} : tx'[q] = tx[q]
  BY <1>1
<1>3. TypeOK'
  BY <1>1 DEF Inv, TypeOK, db
<1>4. ASSUME NEW q \in Requests PROVE Local(tx[q])'
  <2>1. tx'[q] \in {r, tx[q]} /\ Local(tx'[q])
    BY <1>2 DEF Inv
  <2>2. QED
    BY <2>1 DEF db, Local, Control, Writes, Rotation, Rotating, Fresh, Reach,
       Rows, Live, Scope
<1>5. ASSUME NEW q \in Requests, NEW v \in Requests, q # v
      PROVE  Apart(tx[q], tx[v])'
  <2>1. Apart(tx'[q], tx'[v])
    BY <1>2, <1>5 DEF Inv
  <2>2. QED
    BY <2>1
<1>6. (RowsExist /\ OneUnusedToken /\ SealedSessionsAreDead)'
  BY DEF Inv, db, RowsExist, OneUnusedToken, SealedSessionsAreDead, Rows,
     Live
<1>7. QED
  BY <1>3, <1>4, <1>5, <1>6 DEF Inv
\* What the invariant says of one request.
LEMMA OneTransaction ==
  ASSUME Inv, NEW p \in Requests
  PROVE  /\ tx[p] \in Transaction /\ Local(tx[p])
         /\ \A q \in Requests \ {p} :
              Local(tx[q]) /\ Apart(tx[p], tx[q]) /\ Apart(tx[q], tx[p])
  BY DEF Inv, TypeOK

-----------------------------------------------------------------------------
(* The steps of a request before it commits.                               *)

LEMMA LoginStep ==
  ASSUME Inv, NEW p \in Requests, NEW u \in Users, Login(p, u) PROVE Inv'
<1> DEFINE r == [tx[p] EXCEPT !.pc = "create", !.op = "login", !.user = u,
                          !.seen = password[u]]
<1>1. /\ tx[p] \in Transaction /\ Local(tx[p])
      /\ \A q \in Requests \ {p} :
           Local(tx[q]) /\ Apart(tx[p], tx[q]) /\ Apart(tx[q], tx[p])
  BY OneTransaction
<1>2. Set(p, r) /\ UNCHANGED db
  BY DEF Login
<1>3. r \in Transaction
  BY <1>1, OwnerAssumption DEF Login, Transaction, PCs, AllOps, Local, Control,
     Rotation, Inv, TypeOK
<1>4. Local(r)
  <2>1. Control(r)
    BY <1>1, OwnerAssumption DEF Login, Transaction, Local, Control, Idle,
       Sealing, Rotation, Inv
  <2>2. Writes(r)
    BY <1>1, OwnerAssumption DEF Login, Transaction, Local, Control, Idle,
       Writes, Rotating, Sealing, Inv
  <2>3. Rotation(r)
    BY <1>1, OwnerAssumption DEF Login, Transaction, Local, Control, Idle,
       Rotation, Rotating, Inv
  <2>4. Fresh(r)
    BY <1>1, OwnerAssumption DEF Login, Transaction, Local, Control, Idle,
       Fresh, Rows, Inv
  <2>5. Reach(r)
    BY <1>1, OwnerAssumption DEF Login, Transaction, Local, Control, Idle,
       Reach, Sealing, Rows, Live, Scope, Inv
  <2>6. QED
    BY <2>1, <2>2, <2>3, <2>4, <2>5 DEF Local
<1>5. ASSUME NEW q \in Requests \ {p} PROVE Apart(r, tx[q]) /\ Apart(tx[q], r)
  BY <1>1, <1>5 DEF Login, Transaction, Apart, TokenFree, SessionFree, Local,
     Fresh, Control, Idle, Rows, TypeOK
<1>6. QED
  BY <1>2, <1>3, <1>4, <1>5, LocalStep

LEMMA RotateLookupStep ==
  ASSUME Inv, NEW p \in Requests, NEW t \in Tokens, RotateLookup(p, t)
  PROVE  Inv'
<1> DEFINE r == [tx[p] EXCEPT !.pc = "lock", !.op = "rotate", !.cur = t,
                          !.fam = family[t], !.user = Owner[family[t]]]
<1>1. /\ tx[p] \in Transaction /\ Local(tx[p])
      /\ \A q \in Requests \ {p} :
           Local(tx[q]) /\ Apart(tx[p], tx[q]) /\ Apart(tx[q], tx[p])
  BY OneTransaction
<1>2. Set(p, r) /\ UNCHANGED db
  BY DEF RotateLookup
<1>0. family[t] \in Families /\ Owner[family[t]] \in Users
  BY OwnerAssumption DEF RotateLookup, Inv, TypeOK
<1>3. r \in Transaction
  BY <1>1, OwnerAssumption, <1>0 DEF RotateLookup, Transaction, PCs, AllOps,
     Local, Control, Rotation, Inv
<1>4. Local(r)
  <2>1. Control(r)
    BY <1>1, OwnerAssumption, <1>0 DEF RotateLookup, Transaction, Local,
       Control, Idle, Sealing, Rotation, Inv
  <2>2. Writes(r)
    BY SMTT(30), <1>1, OwnerAssumption, <1>0 DEF RotateLookup, Transaction, Local,
       Control, Idle, Writes, Rotating, Sealing, Inv
  <2>3. Rotation(r)
    BY <1>1, OwnerAssumption, <1>0 DEF RotateLookup, Transaction, Local,
       Control, Idle, Rotation, Rotating, Inv
  <2>4. Fresh(r)
    BY <1>1, OwnerAssumption, <1>0 DEF RotateLookup, Transaction, Local,
       Control, Idle, Fresh, Rows, Inv
  <2>5. Reach(r)
    BY <1>1, OwnerAssumption, <1>0 DEF RotateLookup, Transaction, Local,
       Control, Idle, Reach, Sealing, Rows, Live, Scope, Inv
  <2>6. QED
    BY <2>1, <2>2, <2>3, <2>4, <2>5 DEF Local
<1>5. ASSUME NEW q \in Requests \ {p} PROVE Apart(r, tx[q]) /\ Apart(tx[q], r)
  BY <1>1, <1>5 DEF RotateLookup, Transaction, Apart, TokenFree, SessionFree,
     Local, Fresh, Control, Idle, Rows, TypeOK, Inv
<1>6. QED
  BY <1>2, <1>3, <1>4, <1>5, LocalStep

LEMMA RotateReusedStep ==
  ASSUME Inv, NEW p \in Requests, RotateReused(p) PROVE Inv'
<1> DEFINE r == [tx[p] EXCEPT !.pc = "tokens", !.op = "reuse",
!.heldT = {tx[p].cur}]
<1>1. /\ tx[p] \in Transaction /\ Local(tx[p])
      /\ \A q \in Requests \ {p} :
           Local(tx[q]) /\ Apart(tx[p], tx[q]) /\ Apart(tx[q], tx[p])
  BY OneTransaction
<1>2. Set(p, r) /\ UNCHANGED db
  BY DEF RotateReused
<1>3. r \in Transaction
  BY ZenonT(60), <1>1 DEF RotateReused, LocksCurrent, Transaction, PCs, AllOps, Local,
     Control, Rotation
<1>4. Local(r)
  <2>1. Control(r)
    BY <1>1 DEF RotateReused, LocksCurrent, Transaction, Local, Control, Idle,
       Sealing, Rotation
  <2>2. Writes(r)
    BY <1>1 DEF RotateReused, LocksCurrent, Transaction, Local, Control, Idle,
       Writes, Rotating
  <2>3. Rotation(r)
    BY <1>1 DEF RotateReused, LocksCurrent, Transaction, Local, Control, Idle,
       Rotation, Rotating
  <2>4. Fresh(r)
    BY <1>1 DEF RotateReused, LocksCurrent, Transaction, Local, Control, Idle,
       Fresh
  <2>5. Reach(r)
    BY <1>1 DEF RotateReused, LocksCurrent, Transaction, Local, Control, Idle,
       Reach, Sealing, Rows, Live, Scope
  <2>6. QED
    BY <2>1, <2>2, <2>3, <2>4, <2>5 DEF Local
<1>5. ASSUME NEW q \in Requests \ {p} PROVE Apart(r, tx[q]) /\ Apart(tx[q], r)
  BY <1>1, <1>5 DEF RotateReused, LocksCurrent, Transaction, Apart, TokenFree
<1>6. QED
  BY <1>2, <1>3, <1>4, <1>5, LocalStep

LEMMA RotateExpiredStep ==
  ASSUME Inv, NEW p \in Requests, RotateExpired(p) PROVE Inv'
<1> DEFINE r == [tx[p] EXCEPT !.pc = "commit", !.heldT = {tx[p].cur},
                          !.rev = {tx[p].cur}]
<1>1. /\ tx[p] \in Transaction /\ Local(tx[p])
      /\ \A q \in Requests \ {p} :
           Local(tx[q]) /\ Apart(tx[p], tx[q]) /\ Apart(tx[q], tx[p])
  BY OneTransaction
<1>2. Set(p, r) /\ UNCHANGED db
  BY DEF RotateExpired
<1>3. r \in Transaction
  BY ZenonT(60), <1>1 DEF RotateExpired, LocksCurrent, Transaction, PCs, AllOps, Local,
     Control, Rotation
<1>4. Local(r)
  <2>1. Control(r) /\ Rotation(r) /\ Fresh(r) /\ Reach(r)
    BY <1>1 DEF RotateExpired, LocksCurrent, Transaction, Local, Control, Writes,
       Rotation, Rotating, Fresh, Reach, Sealing, Rows, Live, Scope
  <2>2. family[r.cur] # None /\ r.next = None /\ r.todoT = tx[p].todoT /\ r.rev = {r.cur}
    BY <1>1, NoneAssumption DEF RotateExpired, LocksCurrent, Transaction, Local, Control,
       Rotation
  <2>3. Writes(r)
    BY <1>1, <2>2 DEF RotateExpired, LocksCurrent, Transaction, Local, Control, Writes,
       Rotating
  <2>4. QED
    BY <2>1, <2>3 DEF Local
<1>5. ASSUME NEW q \in Requests \ {p} PROVE Apart(r, tx[q]) /\ Apart(tx[q], r)
  BY <1>1, <1>5 DEF RotateExpired, LocksCurrent, Transaction, Apart, TokenFree
<1>6. QED
  BY <1>2, <1>3, <1>4, <1>5, LocalStep

LEMMA RotateValidStep ==
  ASSUME Inv, NEW p \in Requests, RotateValid(p) PROVE Inv'
<1> DEFINE r == [tx[p] EXCEPT !.pc = "insert", !.heldT = {tx[p].cur}]
<1>1. /\ tx[p] \in Transaction /\ Local(tx[p])
      /\ \A q \in Requests \ {p} :
           Local(tx[q]) /\ Apart(tx[p], tx[q]) /\ Apart(tx[q], tx[p])
  BY OneTransaction
<1>2. Set(p, r) /\ UNCHANGED db
  BY DEF RotateValid
<1>3. r \in Transaction
  BY ZenonT(60), <1>1 DEF RotateValid, LocksCurrent, Transaction, PCs, AllOps, Local,
     Control, Rotation
<1>4. Local(r)
  <2>1. Control(r)
    BY <1>1 DEF RotateValid, LocksCurrent, Transaction, Local, Control, Idle,
       Sealing
  <2>2. Writes(r)
    BY <1>1 DEF RotateValid, LocksCurrent, Transaction, Local, Control, Idle,
       Writes, Rotating
  <2>3. Rotation(r)
    BY <1>1 DEF RotateValid, LocksCurrent, Transaction, Local, Control, Idle,
       Rotation
  <2>4. Fresh(r)
    BY <1>1 DEF RotateValid, LocksCurrent, Transaction, Local, Control, Idle,
       Fresh
  <2>5. Reach(r)
    BY <1>1 DEF RotateValid, LocksCurrent, Transaction, Local, Control, Idle,
       Reach, Sealing, Rows, Live, Scope
  <2>6. QED
    BY <2>1, <2>2, <2>3, <2>4, <2>5 DEF Local
<1>5. ASSUME NEW q \in Requests \ {p} PROVE Apart(r, tx[q]) /\ Apart(tx[q], r)
  BY <1>1, <1>5 DEF RotateValid, LocksCurrent, Transaction, Apart, TokenFree
<1>6. QED
  BY <1>2, <1>3, <1>4, <1>5, LocalStep

LEMMA RotateTouchStep ==
  ASSUME Inv, NEW p \in Requests, RotateTouch(p) PROVE Inv'
<1> DEFINE r == [tx[p] EXCEPT !.pc = "commit", !.heldF = {tx[p].fam}]
<1>1. /\ tx[p] \in Transaction /\ Local(tx[p])
      /\ \A q \in Requests \ {p} :
           Local(tx[q]) /\ Apart(tx[p], tx[q]) /\ Apart(tx[q], tx[p])
  BY OneTransaction
<1>2. Set(p, r) /\ UNCHANGED db
  BY DEF RotateTouch
<1>3. r \in Transaction
  BY ZenonT(60), <1>1 DEF RotateTouch, Transaction, PCs, AllOps, Local, Control, Rotation
<1>4. Local(r)
  BY <1>1 DEF RotateTouch, Transaction, Local, Control, Writes, Rotation,
     Rotating, Fresh, Reach, Sealing, Rows, Live, Scope
<1>5. ASSUME NEW q \in Requests \ {p} PROVE Apart(r, tx[q]) /\ Apart(tx[q], r)
  BY <1>1, <1>5 DEF RotateTouch, Transaction, Apart, TokenFree, SessionFree
<1>6. QED
  BY <1>2, <1>3, <1>4, <1>5, LocalStep

LEMMA LogoutStep ==
  ASSUME Inv, NEW p \in Requests, NEW t \in Tokens, Logout(p, t) PROVE Inv'
<1> DEFINE r == [tx[p] EXCEPT !.pc = "tokens", !.op = "logout",
!.fam = family[t],
                          !.user = Owner[family[t]]]
<1>1. /\ tx[p] \in Transaction /\ Local(tx[p])
      /\ \A q \in Requests \ {p} :
           Local(tx[q]) /\ Apart(tx[p], tx[q]) /\ Apart(tx[q], tx[p])
  BY OneTransaction
<1>2. Set(p, r) /\ UNCHANGED db
  BY DEF Logout
<1>0. family[t] \in Families /\ Owner[family[t]] \in Users
  BY OwnerAssumption DEF Logout, Inv, TypeOK
<1>3. r \in Transaction
  BY <1>1, OwnerAssumption, <1>0 DEF Logout, Transaction, PCs, AllOps, Local,
     Control, Rotation, Inv, TypeOK
<1>4. Local(r)
  <2>1. Control(r)
    BY <1>1, OwnerAssumption, <1>0 DEF Logout, Transaction, Local, Control,
       Idle, Sealing, Rotation, Inv
  <2>2. Writes(r)
    BY <1>1, OwnerAssumption, <1>0 DEF Logout, Transaction, Local, Control,
       Idle, Writes, Rotating, Sealing, Inv
  <2>3. Rotation(r)
    BY <1>1, OwnerAssumption, <1>0 DEF Logout, Transaction, Local, Control,
       Idle, Rotation, Rotating, Inv
  <2>4. Fresh(r)
    BY <1>1, OwnerAssumption, <1>0 DEF Logout, Transaction, Local, Control,
       Idle, Fresh, Rows, Inv
  <2>5. Reach(r)
    BY <1>1, OwnerAssumption, <1>0 DEF Logout, Transaction, Local, Control,
       Idle, Reach, Sealing, Rows, Live, Scope, Inv
  <2>6. QED
    BY <2>1, <2>2, <2>3, <2>4, <2>5 DEF Local
<1>5. ASSUME NEW q \in Requests \ {p} PROVE Apart(r, tx[q]) /\ Apart(tx[q], r)
  BY <1>1, <1>5 DEF Logout, Transaction, Apart, TokenFree, SessionFree, Local,
     Fresh, Control, Idle, Rows, TypeOK, Inv
<1>6. QED
  BY <1>2, <1>3, <1>4, <1>5, LocalStep

LEMMA RevokeSessionStep ==
  ASSUME Inv, NEW p \in Requests, NEW f \in Families, RevokeSession(p, f)
  PROVE  Inv'
<1> DEFINE r == [tx[p] EXCEPT !.pc = "sessions", !.op = "revoke", !.fam = f,
                          !.user = Owner[f]]
<1>1. /\ tx[p] \in Transaction /\ Local(tx[p])
      /\ \A q \in Requests \ {p} :
           Local(tx[q]) /\ Apart(tx[p], tx[q]) /\ Apart(tx[q], tx[p])
  BY OneTransaction
<1>2. Set(p, r) /\ UNCHANGED db
  BY DEF RevokeSession
<1>3. r \in Transaction
  BY <1>1, OwnerAssumption DEF RevokeSession, Transaction, PCs, AllOps, Local,
     Control, Rotation, Inv
<1>4. Local(r)
  <2>1. Control(r)
    BY <1>1, OwnerAssumption DEF RevokeSession, Transaction, Local, Control,
       Idle, Sealing, Rotation, Inv
  <2>2. Writes(r)
    BY <1>1, OwnerAssumption DEF RevokeSession, Transaction, Local, Control,
       Idle, Writes, Rotating, Sealing, Inv
  <2>3. Rotation(r)
    BY <1>1, OwnerAssumption DEF RevokeSession, Transaction, Local, Control,
       Idle, Rotation, Rotating, Inv
  <2>4. Fresh(r)
    BY <1>1, OwnerAssumption DEF RevokeSession, Transaction, Local, Control,
       Idle, Fresh, Rows, Inv
  <2>5. Reach(r)
    BY <1>1, OwnerAssumption DEF RevokeSession, Transaction, Local, Control,
       Idle, Reach, Sealing, Rows, Live, Scope, Inv
  <2>6. QED
    BY <2>1, <2>2, <2>3, <2>4, <2>5 DEF Local
<1>5. ASSUME NEW q \in Requests \ {p} PROVE Apart(r, tx[q]) /\ Apart(tx[q], r)
  BY <1>1, <1>5 DEF RevokeSession, Transaction, Apart, TokenFree, SessionFree,
     Local, Fresh, Control, Idle, Rows, TypeOK, Inv
<1>6. QED
  BY <1>2, <1>3, <1>4, <1>5, LocalStep

LEMMA LogoutAllStep ==
  ASSUME Inv, NEW p \in Requests, NEW u \in Users, LogoutAll(p, u) PROVE Inv'
<1> DEFINE r == [tx[p] EXCEPT !.pc = "sessions", !.op = "logoutAll", !.user = u]
<1>1. /\ tx[p] \in Transaction /\ Local(tx[p])
      /\ \A q \in Requests \ {p} :
           Local(tx[q]) /\ Apart(tx[p], tx[q]) /\ Apart(tx[q], tx[p])
  BY OneTransaction
<1>2. Set(p, r) /\ UNCHANGED db
  BY DEF LogoutAll
<1>3. r \in Transaction
  BY <1>1 DEF LogoutAll, Transaction, PCs, AllOps, Local, Control
<1>4. Local(r)
  BY <1>1 DEF LogoutAll, Transaction, Local, Control, Writes, Rotation,
     Rotating, Fresh, Reach, Sealing, Rows, Live, Scope, Idle
<1>5. ASSUME NEW q \in Requests \ {p} PROVE Apart(r, tx[q]) /\ Apart(tx[q], r)
  BY <1>1, <1>5 DEF LogoutAll, Transaction, Apart, TokenFree
<1>6. QED
  BY <1>2, <1>3, <1>4, <1>5, LocalStep

LEMMA ResetPasswordStep ==
  ASSUME Inv, NEW p \in Requests, NEW u \in Users, ResetPassword(p, u)
  PROVE  Inv'
<1> DEFINE r == [tx[p] EXCEPT !.pc = "user", !.op = "reset", !.user = u]
<1>1. /\ tx[p] \in Transaction /\ Local(tx[p])
      /\ \A q \in Requests \ {p} :
           Local(tx[q]) /\ Apart(tx[p], tx[q]) /\ Apart(tx[q], tx[p])
  BY OneTransaction
<1>2. Set(p, r) /\ UNCHANGED db
  BY DEF ResetPassword
<1>3. r \in Transaction
  BY <1>1 DEF ResetPassword, Transaction, PCs, AllOps, Local, Control
<1>4. Local(r)
  BY <1>1 DEF ResetPassword, Transaction, Local, Control, Writes, Rotation,
     Rotating, Fresh, Reach, Sealing, Rows, Live, Scope, Idle
<1>5. ASSUME NEW q \in Requests \ {p} PROVE Apart(r, tx[q]) /\ Apart(tx[q], r)
  BY <1>1, <1>5 DEF ResetPassword, Transaction, Apart, TokenFree
<1>6. QED
  BY <1>2, <1>3, <1>4, <1>5, LocalStep

LEMMA ResetLocksUserStep ==
  ASSUME Inv, NEW p \in Requests, ResetLocksUser(p) PROVE Inv'
<1> DEFINE r == [tx[p] EXCEPT !.pc = "tokens", !.heldU = TRUE]
<1>1. /\ tx[p] \in Transaction /\ Local(tx[p])
      /\ \A q \in Requests \ {p} :
           Local(tx[q]) /\ Apart(tx[p], tx[q]) /\ Apart(tx[q], tx[p])
  BY OneTransaction
<1>2. Set(p, r) /\ UNCHANGED db
  BY DEF ResetLocksUser
<1>3. r \in Transaction
  BY <1>1 DEF ResetLocksUser, Transaction, PCs, AllOps, Local, Control
<1>4. Local(r)
  BY <1>1 DEF ResetLocksUser, Transaction, Local, Control, Writes, Rotation,
     Rotating, Fresh, Reach, Sealing, Rows, Live, Scope
<1>5. ASSUME NEW q \in Requests \ {p} PROVE Apart(r, tx[q]) /\ Apart(tx[q], r)
  BY <1>1, <1>5 DEF ResetLocksUser, Transaction, Apart, TokenFree
<1>6. QED
  BY <1>2, <1>3, <1>4, <1>5, LocalStep

LEMMA DeleteAccountStep ==
  ASSUME Inv, NEW p \in Requests, NEW u \in Users, DeleteAccount(p, u)
  PROVE  Inv'
<1> DEFINE r == [tx[p] EXCEPT !.pc = "sessions", !.op = "delete", !.user = u,
                          !.heldU = TRUE]
<1>1. /\ tx[p] \in Transaction /\ Local(tx[p])
      /\ \A q \in Requests \ {p} :
           Local(tx[q]) /\ Apart(tx[p], tx[q]) /\ Apart(tx[q], tx[p])
  BY OneTransaction
<1>2. Set(p, r) /\ UNCHANGED db
  BY DEF DeleteAccount
<1>3. r \in Transaction
  BY <1>1 DEF DeleteAccount, Transaction, PCs, AllOps, Local, Control
<1>4. Local(r)
  BY <1>1 DEF DeleteAccount, Transaction, Local, Control, Writes, Rotation,
     Rotating, Fresh, Reach, Sealing, Rows, Live, Scope, Idle
<1>5. ASSUME NEW q \in Requests \ {p} PROVE Apart(r, tx[q]) /\ Apart(tx[q], r)
  BY <1>1, <1>5 DEF DeleteAccount, Transaction, Apart, TokenFree
<1>6. QED
  BY <1>2, <1>3, <1>4, <1>5, LocalStep

LEMMA CreateSessionStep ==
  ASSUME Inv, NEW p \in Requests, CreateSession(p) PROVE Inv'
<1>1. /\ tx[p] \in Transaction /\ Local(tx[p])
      /\ \A q \in Requests \ {p} :
           Local(tx[q]) /\ Apart(tx[p], tx[q]) /\ Apart(tx[q], tx[p])
  BY OneTransaction
<1>2. PICK f \in FreshFamilies(tx[p].user), n \in FreshTokens :
        Set(p, [tx[p] EXCEPT !.pc = "commit", !.fam = f, !.next = n])
  BY DEF CreateSession
<1> DEFINE r == [tx[p] EXCEPT !.pc = "commit", !.fam = f, !.next = n]
<1>3. r \in Transaction
  BY <1>1, <1>2 DEF CreateSession, Transaction, PCs, AllOps, Local, Control,
     Rotation, FreshTokens, FreshFamilies
<1>4. Local(r)
  <2>1. Control(r) /\ Writes(r)
    BY <1>1, <1>2, NoneAssumption DEF CreateSession, Transaction, Local,
       Control, Writes, Rotating, Idle, Sealing
  <2>2. Rotation(r)
    BY <1>1, <1>2, NoneAssumption DEF CreateSession, Transaction, Local,
       Control, Rotation, Rotating
  <2>3. Fresh(r)
    BY <1>1, <1>2 DEF CreateSession, Transaction, Local, Control, Rotation,
       Fresh, FreshTokens, FreshFamilies
  <2>4. Reach(r)
    BY <1>1, <1>2 DEF CreateSession, Transaction, Local, Control, Writes,
       Reach, Sealing, Rows, Live
  <2>5. QED
    BY <2>1, <2>2, <2>3, <2>4 DEF Local
<1>5. ASSUME NEW q \in Requests \ {p} PROVE Apart(r, tx[q]) /\ Apart(tx[q], r)
  BY <1>1, <1>2, <1>5 DEF CreateSession, Transaction, Apart, FreshTokens,
     FreshFamilies, Local, Control, Fresh, Rotation
<1>6. QED
  BY <1>2, <1>3, <1>4, <1>5, LocalStep DEF CreateSession

LEMMA RotateInsertStep ==
  ASSUME Inv, NEW p \in Requests, RotateInsert(p) PROVE Inv'
<1>1. /\ tx[p] \in Transaction /\ Local(tx[p])
      /\ \A q \in Requests \ {p} :
           Local(tx[q]) /\ Apart(tx[p], tx[q]) /\ Apart(tx[q], tx[p])
  BY OneTransaction
<1>2. PICK n \in FreshTokens :
        Set(p, [tx[p] EXCEPT !.pc = "touch", !.next = n, !.use = {tx[p].cur}])
  BY DEF RotateInsert
<1> DEFINE r == [tx[p] EXCEPT !.pc = "touch", !.next = n, !.use = {tx[p].cur}]
<1>3. r \in Transaction
  BY ZenonT(60), <1>1, <1>2 DEF RotateInsert, Transaction, PCs, AllOps, Local, Control,
     Rotation, FreshTokens
<1>4. Local(r)
  <2>1. Control(r) /\ Writes(r)
    BY <1>1, <1>2, NoneAssumption DEF RotateInsert, Transaction, Local,
       Control, Writes, Rotating, Idle, Sealing, FreshTokens
  <2>2. Rotation(r)
    BY <1>1, <1>2, NoneAssumption DEF RotateInsert, Transaction, Local,
       Control, Rotation
  <2>3. Fresh(r)
    BY <1>1, <1>2 DEF RotateInsert, Transaction, Local, Control, Rotation,
       Fresh, FreshTokens, FreshFamilies
  <2>4. Reach(r)
    BY <1>1, <1>2 DEF RotateInsert, Transaction, Local, Control, Writes, Reach,
       Sealing, Rows, Live, Scope
  <2>5. QED
    BY <2>1, <2>2, <2>3, <2>4 DEF Local
<1>5. ASSUME NEW q \in Requests \ {p} PROVE Apart(r, tx[q]) /\ Apart(tx[q], r)
  BY <1>1, <1>2, <1>5 DEF RotateInsert, Transaction, Apart, FreshTokens,
     FreshFamilies, Local, Control, Fresh, Rotation
<1>6. QED
  BY <1>2, <1>3, <1>4, <1>5, LocalStep DEF RotateInsert

LEMMA BeginTokensStep ==
  ASSUME Inv, NEW p \in Requests, BeginTokens(p) PROVE Inv'
<1> DEFINE r == [tx[p] EXCEPT !.pc = "updTokens",
!.todoT = TokensToRevoke(tx[p])]
<1>1. /\ tx[p] \in Transaction /\ Local(tx[p])
      /\ \A q \in Requests \ {p} :
           Local(tx[q]) /\ Apart(tx[p], tx[q]) /\ Apart(tx[q], tx[p])
  BY OneTransaction
<1>2. Set(p, r) /\ UNCHANGED db
  BY DEF BeginTokens
<1>3. r \in Transaction
  BY <1>1 DEF BeginTokens, TokensToRevoke, Transaction, PCs, AllOps, Local,
     Control
<1>4. Local(r)
  <2>1. Control(r)
    BY <1>1 DEF BeginTokens, TokensToRevoke, Transaction, Local, Control, Idle,
       Sealing
  <2>0. \A t \in TokensToRevoke(tx[p]) : family[t] # None
    BY <1>1, NoneAssumption DEF BeginTokens, TokensToRevoke, Scope, Local, Control, Sealing
  <2>2. Writes(r)
    BY <1>1, <2>0 DEF BeginTokens, Transaction, Local, Control, Writes, Rotating
  <2>3. Rotation(r)
    BY <1>1 DEF BeginTokens, TokensToRevoke, Transaction, Local, Control, Idle,
       Rotation, Rotating
  <2>4. Fresh(r)
    BY <1>1 DEF BeginTokens, TokensToRevoke, Transaction, Local, Control, Idle,
       Fresh
  <2>5. Reach(r)
    BY <1>1 DEF BeginTokens, TokensToRevoke, Transaction, Local, Control, Idle,
       Reach, Sealing, Rows, Live, Scope
  <2>6. QED
    BY <2>1, <2>2, <2>3, <2>4, <2>5 DEF Local
<1>5. ASSUME NEW q \in Requests \ {p} PROVE Apart(r, tx[q]) /\ Apart(tx[q], r)
  BY <1>1, <1>5 DEF BeginTokens, TokensToRevoke, Transaction, Apart, TokenFree
<1>6. QED
  BY <1>2, <1>3, <1>4, <1>5, LocalStep

LEMMA UpdateTokenStep ==
  ASSUME Inv, NEW p \in Requests, NEW t \in Tokens, UpdateToken(p, t) PROVE Inv'
<1> DEFINE r == [tx[p] EXCEPT !.todoT = @ \ {t}, !.heldT = @ \cup {t},
                          !.rev = @ \cup {t}]
<1>1. /\ tx[p] \in Transaction /\ Local(tx[p])
      /\ \A q \in Requests \ {p} :
           Local(tx[q]) /\ Apart(tx[p], tx[q]) /\ Apart(tx[q], tx[p])
  BY OneTransaction
<1>2. Set(p, r) /\ UNCHANGED db
  BY DEF UpdateToken
<1>3. r \in Transaction
  BY ZenonT(60), <1>1 DEF UpdateToken, Transaction, PCs, AllOps, Local, Control
<1>4. Local(r)
  <2>1. Control(r)
    BY <1>1 DEF UpdateToken, Transaction, Local, Control, Idle, Sealing
  <2>2. Writes(r)
    BY <1>1 DEF UpdateToken, Transaction, Local, Control, Idle, Writes,
       Rotating
  <2>3. Rotation(r)
    BY <1>1 DEF UpdateToken, Transaction, Local, Control, Idle, Rotation,
       Rotating
  <2>4. Fresh(r)
    BY <1>1 DEF UpdateToken, Transaction, Local, Control, Idle, Fresh
  <2>5. Reach(r)
    BY <1>1 DEF UpdateToken, Transaction, Local, Control, Idle, Reach, Sealing,
       Rows, Live, Scope
  <2>6. QED
    BY <2>1, <2>2, <2>3, <2>4, <2>5 DEF Local
<1>5. ASSUME NEW q \in Requests \ {p} PROVE Apart(r, tx[q]) /\ Apart(tx[q], r)
  BY <1>1, <1>5 DEF UpdateToken, Transaction, Apart, TokenFree
<1>6. QED
  BY <1>2, <1>3, <1>4, <1>5, LocalStep

LEMMA EndTokensStep ==
  ASSUME Inv, NEW p \in Requests, EndTokens(p) PROVE Inv'
<1> DEFINE r == [tx[p] EXCEPT !.pc = CASE tx[p].op = "logout" -> "flush"
                                   [] tx[p].op = "reuse" -> "sessions"
                                   [] OTHER -> "commit"]
<1>1. /\ tx[p] \in Transaction /\ Local(tx[p])
      /\ \A q \in Requests \ {p} :
           Local(tx[q]) /\ Apart(tx[p], tx[q]) /\ Apart(tx[q], tx[p])
  BY OneTransaction
<1>2. Set(p, r) /\ UNCHANGED db
  BY DEF EndTokens
<1>3. r \in Transaction
  BY <1>1 DEF EndTokens, Transaction, PCs, AllOps, Local, Control
<1>4. Local(r)
  <2>1. Control(r)
    BY <1>1 DEF EndTokens, Transaction, Local, Control, Idle, Sealing
  <2>2. Writes(r)
    BY <1>1 DEF EndTokens, Transaction, Local, Control, Idle, Writes, Rotating
  <2>3. Rotation(r)
    BY <1>1 DEF EndTokens, Transaction, Local, Control, Idle, Rotation,
       Rotating
  <2>4. Fresh(r)
    BY <1>1 DEF EndTokens, Transaction, Local, Control, Idle, Fresh
  <2>5. Reach(r)
    BY <1>1 DEF EndTokens, Transaction, Local, Control, Idle, Reach, Sealing,
       Rows, Live, Scope
  <2>6. QED
    BY <2>1, <2>2, <2>3, <2>4, <2>5 DEF Local
<1>5. ASSUME NEW q \in Requests \ {p} PROVE Apart(r, tx[q]) /\ Apart(tx[q], r)
  BY <1>1, <1>5 DEF EndTokens, Transaction, Apart, TokenFree
<1>6. QED
  BY <1>2, <1>3, <1>4, <1>5, LocalStep

LEMMA BeginSessionsStep ==
  ASSUME Inv, NEW p \in Requests, BeginSessions(p) PROVE Inv'
<1> DEFINE r == [tx[p] EXCEPT !.pc = "updSessions",
!.todoF = SessionsToEnd(tx[p])]
<1>1. /\ tx[p] \in Transaction /\ Local(tx[p])
      /\ \A q \in Requests \ {p} :
           Local(tx[q]) /\ Apart(tx[p], tx[q]) /\ Apart(tx[q], tx[p])
  BY OneTransaction
<1>2. Set(p, r) /\ UNCHANGED db
  BY DEF BeginSessions
<1>3. r \in Transaction
  <2>1. Scope(tx[p]) \subseteq Families
    BY <1>1 DEF BeginSessions, Scope, Local, Control, Sealing
  <2>2. QED
    BY <1>1, <2>1 DEF SessionsToEnd, Transaction, PCs
<1>4. Local(r)
  <2>1. Control(r)
    BY <1>1 DEF BeginSessions, SessionsToEnd, Transaction, Local, Control,
       Idle, Sealing
  <2>2. Writes(r)
    BY <1>1 DEF BeginSessions, SessionsToEnd, Transaction, Local, Control,
       Idle, Writes, Rotating
  <2>3. Rotation(r)
    BY <1>1 DEF BeginSessions, SessionsToEnd, Transaction, Local, Control,
       Idle, Rotation, Rotating
  <2>4. Fresh(r)
    BY <1>1 DEF BeginSessions, SessionsToEnd, Transaction, Local, Control,
       Idle, Fresh
  <2>5. Reach(r)
    BY <1>1 DEF BeginSessions, SessionsToEnd, Transaction, Local, Control,
       Idle, Reach, Sealing, Rows, Live, Scope
  <2>6. QED
    BY <2>1, <2>2, <2>3, <2>4, <2>5 DEF Local
<1>5. ASSUME NEW q \in Requests \ {p} PROVE Apart(r, tx[q]) /\ Apart(tx[q], r)
  BY <1>1, <1>5 DEF BeginSessions, SessionsToEnd, Transaction, Apart, TokenFree
<1>6. QED
  BY <1>2, <1>3, <1>4, <1>5, LocalStep

LEMMA UpdateSessionStep ==
  ASSUME Inv, NEW p \in Requests, NEW f \in Families, UpdateSession(p, f)
  PROVE  Inv'
<1> DEFINE r == [tx[p] EXCEPT !.todoF = @ \ {f}, !.heldF = @ \cup {f},
                          !.end = @ \cup ({f} \ ended)]
<1>1. /\ tx[p] \in Transaction /\ Local(tx[p])
      /\ \A q \in Requests \ {p} :
           Local(tx[q]) /\ Apart(tx[p], tx[q]) /\ Apart(tx[q], tx[p])
  BY OneTransaction
<1>2. Set(p, r) /\ UNCHANGED db
  BY DEF UpdateSession
<1>3. r \in Transaction
  BY ZenonT(60), <1>1 DEF UpdateSession, Transaction, PCs, AllOps, Local, Control
<1>4. Local(r)
  <2>1. Control(r)
    BY <1>1 DEF UpdateSession, Transaction, Local, Control, Idle, Sealing
  <2>2. Writes(r)
    BY <1>1 DEF UpdateSession, Transaction, Local, Control, Idle, Writes,
       Rotating
  <2>3. Rotation(r)
    BY <1>1 DEF UpdateSession, Transaction, Local, Control, Idle, Rotation,
       Rotating
  <2>4. Fresh(r)
    BY <1>1 DEF UpdateSession, Transaction, Local, Control, Idle, Fresh
  <2>5. Reach(r)
    BY <1>1 DEF UpdateSession, Transaction, Local, Control, Idle, Reach,
       Sealing, Rows, Live, Scope
  <2>6. QED
    BY <2>1, <2>2, <2>3, <2>4, <2>5 DEF Local
<1>5. ASSUME NEW q \in Requests \ {p} PROVE Apart(r, tx[q]) /\ Apart(tx[q], r)
  BY <1>1, <1>5 DEF UpdateSession, Transaction, Apart, TokenFree, SessionFree
<1>6. QED
  BY <1>2, <1>3, <1>4, <1>5, LocalStep

\* A request that ends without committing leaves nothing behind.
LEMMA FinishedStep ==
  ASSUME Inv, NEW p \in Requests, Set(p, Finished), UNCHANGED db PROVE Inv'
<1>1. Finished \in Transaction
  BY DEF Finished, Idle, Transaction, PCs
<1>2. Local(Finished)
  BY DEF Finished, Idle, Local, Control, Writes, Rotation, Rotating, Fresh,
     Reach
<1>3. ASSUME NEW q \in Requests \ {p}
      PROVE  Apart(Finished, tx[q]) /\ Apart(tx[q], Finished)
  BY NoneAssumption, OneTransaction, <1>3 DEF Finished, Idle, Apart, Local,
     Fresh
<1>4. QED
  BY <1>1, <1>2, <1>3, LocalStep

LEMMA EndSessionsStep ==
  ASSUME Inv, NEW p \in Requests, EndSessions(p) PROVE Inv'
<1> DEFINE r == [tx[p] EXCEPT !.pc = IF Coalesced(tx[p]) THEN "commit"
                                                         ELSE "tokens"]
<1>1. /\ tx[p] \in Transaction /\ Local(tx[p])
      /\ \A q \in Requests \ {p} :
           Local(tx[q]) /\ Apart(tx[p], tx[q]) /\ Apart(tx[q], tx[p])
  BY OneTransaction
<1>2. (Set(p, Finished) \/ Set(p, r)) /\ UNCHANGED db
  BY DEF EndSessions
<1>3. r \in Transaction
  BY <1>1 DEF EndSessions, Transaction, PCs
<1>4. Local(r)
  <2>1. Control(r) /\ Writes(r) /\ Rotation(r)
    BY <1>1 DEF EndSessions, Transaction, Local, Control, Writes, Rotation,
       Rotating, Idle, Sealing
  <2>2. Fresh(r) /\ Reach(r)
    BY <1>1 DEF EndSessions, Transaction, Local, Control, Fresh, Reach, Scope,
       Sealing, Coalesced, Rows
  <2>3. QED
    BY <2>1, <2>2 DEF Local
<1>5. ASSUME NEW q \in Requests \ {p} PROVE Apart(r, tx[q]) /\ Apart(tx[q], r)
  BY <1>1, <1>5 DEF EndSessions, Transaction, Apart
<1>6. QED
  BY <1>2, <1>3, <1>4, <1>5, LocalStep, FinishedStep

-----------------------------------------------------------------------------
(* The steps that change the database.                                     *)

LEMMA FlushStep ==
  ASSUME Inv, NEW p \in Requests, Flush(p) PROVE Inv'
<1> DEFINE r == [tx[p] EXCEPT !.pc = "sessions", !.heldT = {}, !.rev = {}]
<1>1. /\ tx[p] \in Transaction /\ Local(tx[p])
      /\ \A q \in Requests \ {p} :
           Local(tx[q]) /\ Apart(tx[p], tx[q]) /\ Apart(tx[q], tx[p])
  BY OneTransaction
<1>2. tx \in [Requests -> Transaction] /\ tx' = [tx EXCEPT ![p] = r]
  BY DEF Flush, Set, Inv, TypeOK
<1>3. tx'[p] = r /\ \A q \in Requests \ {p} : tx'[q] = tx[q]
  BY <1>2
<1>4. r \in Transaction
  BY <1>1 DEF Transaction, PCs
<1>5. TypeOK'
  BY <1>1, <1>2, <1>4 DEF Inv, TypeOK, Flush, Transaction
<1>6. ASSUME NEW q \in Requests, q = p PROVE Local(tx[q])'
  <2>1. tx'[q] = r /\ tx[p].op = "logout" /\ tx[p].next = None
    BY <1>1, <1>3, <1>6 DEF Flush, Local, Control
  <2>6. Control(tx[q])'
    BY ZenonT(60), <1>1, <2>1 DEF Transaction, Local, Control
  <2>7. /\ r.rev = {} /\ r.todoT = tx[p].todoT /\ r.end = tx[p].end
        /\ r.heldF = tx[p].heldF /\ r.use = tx[p].use /\ r.op = tx[p].op
        /\ r.next = tx[p].next
    BY <1>1 DEF Transaction
  <2>8. family' = family
    BY DEF Flush
  <2>2. Control(tx[q])' /\ Writes(tx[q])'
    <3> HIDE DEF r
    <3> QED
      BY <1>1, <2>1, <2>6, <2>7, <2>8 DEF Local, Writes, Rotating
  <2>3. Rotation(tx[q])' /\ Fresh(tx[q])'
    BY <1>1, <2>1 DEF Flush, Transaction, Rotation, Rotating, Fresh
  <2>4. Reach(tx[q])'
    BY <1>1, <2>1 DEF Flush, Transaction, Local, Reach, Sealing, Rows, Scope
  <2>5. QED
    BY <2>2, <2>3, <2>4 DEF Local
<1>7. ASSUME NEW q \in Requests \ {p} PROVE Local(tx[q])'
  <2> DEFINE s == tx[q]
  <2>1. Local(s) /\ tx[p].rev \cap s.heldT = {}
    BY <1>1 DEF Local, Writes, Apart
  <2>2. Control(s)' /\ Writes(s)'
    BY <1>3, <2>1 DEF Flush, Local, Control, Writes, Rotating
  <2>3. Rotation(s)' /\ Fresh(s)'
    BY <1>3, <2>1 DEF Flush, Local, Rotation, Rotating, Fresh, Rows
  <2>4. Reach(s)'
    BY <1>3, <2>1 DEF Flush, Local, Reach, Rows, Live
  <2>5. QED
    BY <2>2, <2>3, <2>4 DEF Local
<1>8. ASSUME NEW q \in Requests, NEW v \in Requests, q # v
      PROVE  Apart(tx[q], tx[v])'
  <2>1. \A w \in Requests \ {p} : Apart(r, tx[w]) /\ Apart(tx[w], r)
    BY <1>1 DEF Apart
  <2>2. Apart(tx'[q], tx'[v])
    BY <1>3, <1>8, <2>1 DEF Inv
  <2>3. QED
    BY <2>2
<1>9. (RowsExist /\ OneUnusedToken /\ SealedSessionsAreDead)'
  BY <1>1 DEF Flush, Inv, RowsExist, OneUnusedToken, SealedSessionsAreDead,
     Rows, Live, Local, Writes
<1>10. ASSUME NEW q \in Requests PROVE Local(tx[q])'
  BY <1>6, <1>7, <1>10
<1>11. QED
  BY <1>5, <1>8, <1>9, <1>10 DEF Inv

LEMMA ExpireStep ==
  ASSUME Inv, NEW t \in Tokens, Expire(t) PROVE Inv'
<1>1. TypeOK'
  BY DEF Inv, TypeOK, Expire
<1>2. ASSUME NEW q \in Requests PROVE Local(tx[q])'
  <2>1. Local(tx[q])
    BY DEF Inv
  <2>2. QED
    BY <2>1 DEF Expire, Local, Control, Writes, Rotation, Rotating, Fresh,
       Reach, Rows, Live
<1>3. ASSUME NEW q \in Requests, NEW v \in Requests, q # v
      PROVE  Apart(tx[q], tx[v])'
  BY <1>3 DEF Inv, Expire
<1>4. (RowsExist /\ OneUnusedToken /\ SealedSessionsAreDead)'
  BY DEF Inv, Expire, RowsExist, OneUnusedToken, SealedSessionsAreDead,
     Rows, Live
<1>5. QED
  BY <1>1, <1>2, <1>3, <1>4 DEF Inv

LEMMA CommitStep ==
  ASSUME Inv, NEW p \in Requests, Commit(p) PROVE Inv'
<1> DEFINE r == tx[p]
<1>1. /\ r \in Transaction /\ Local(r)
      /\ \A q \in Requests \ {p} :
           Local(tx[q]) /\ Apart(r, tx[q]) /\ Apart(tx[q], r)
  BY OneTransaction
<1>2. tx \in [Requests -> Transaction] /\ tx' = [tx EXCEPT ![p] = Finished]
  BY DEF Commit, Set, Inv, TypeOK
<1>3. tx'[p] = Finished /\ \A q \in Requests \ {p} : tx'[q] = tx[q]
  BY <1>2
<1>4. r.pc = "commit" /\ r.next \in Tokens \cup {None} /\ r.fam \in Families \cup {None}
  BY <1>1 DEF Commit, Transaction
<1>5. /\ family \in [Tokens -> Families \cup {None}]
      /\ \A t \in Tokens : family'[t] = IF t = r.next THEN r.fam ELSE family[t]
      /\ used' = used \cup r.use /\ revoked' = revoked \cup r.rev
  BY DEF Commit, Inv, TypeOK
\* What a committing insertion adds.
<1>6. ASSUME r.next # None
      PROVE  /\ family[r.next] = None /\ r.fam \in Families
             /\ r.end = {}
             /\ \/ Rows(r.fam) = {}
                \/ /\ r.op = "rotate" /\ r.use = {r.cur} /\ r.fam \in r.heldF
                   /\ r.cur \in r.heldT /\ Live(r.cur) /\ family[r.cur] = r.fam
                   /\ r.cur \in Tokens
  BY <1>1, <1>4, <1>6, NoneAssumption DEF Local, Control, Writes, Rotation,
     Rotating, Fresh, Live, Sealing
<1>7. TypeOK'
  <2>1. Finished \in Transaction
    BY DEF Finished, Idle, Transaction, PCs
  <2>2. tx' \in [Requests -> Transaction]
    BY <1>2, <2>1
  <2>3. family' \in [Tokens -> Families \cup {None}]
    BY <1>4, <1>5 DEF Commit
  <2>4. deleted' \subseteq Users
    BY <1>1 DEF Commit, Inv, TypeOK, Local, Control
  <2>5. /\ password' \in [Users -> Nat] /\ openedWith' \in [Families -> Nat]
    BY <1>1 DEF Commit, Inv, TypeOK, Transaction
  <2>6. QED
    BY <1>1, <2>2, <2>3, <2>4, <2>5 DEF Commit, Inv, TypeOK, Transaction
<1>8. ASSUME NEW f \in Families, Rows(f) # {} PROVE Rows(f)' # {}
  <2>1. PICK t \in Tokens : family[t] = f
    BY <1>8 DEF Rows
  <2>2. family'[t] = f
    BY <1>5, <1>6, <2>1, NoneAssumption
  <2>3. QED
    BY <2>2 DEF Rows
<1>9. ASSUME NEW q \in Requests \ {p} PROVE Local(tx[q])'
  <2> DEFINE s == tx[q]
  <2>1. s \in Transaction /\ Local(s) /\ Apart(r, s) /\ Apart(s, r)
    BY <1>1 DEF Inv, TypeOK
  <2>2. (r.use \cup r.rev) \cap s.heldT = {}
    BY <1>1, <2>1, <1>4 DEF Local, Writes, Rotation, Rotating, Apart
  <2>10. ASSUME NEW t \in s.rev \cup s.todoT PROVE family'[t] # None
    BY <1>5, <1>6, <2>1, NoneAssumption DEF Local, Writes, Transaction
  <2>3. Control(s)' /\ Writes(s)'
    BY <1>3, <2>1, <2>10 DEF Local, Control, Writes, Rotating
  <2>4. Rotation(s)'
    BY <1>3, <1>5, <1>6, <2>1, <2>2, NoneAssumption DEF Local, Rotation
  <2>5. Fresh(s)'
    BY <1>3, <1>5, <1>6, <2>1, NoneAssumption DEF Transaction, Local, Fresh,
       Rows, Apart
  <2>6. ASSUME NEW f \in s.todoF \cup s.end PROVE Rows(f)' # {} /\ f \in Scope(s)
    BY <1>8, <2>1 DEF Local, Reach, Transaction
  <2>7. ASSUME NEW t \in Tokens, family'[t] \in s.end, Live(t)'
        PROVE  family[t] \in s.end /\ Live(t)
    <3>1. CASE t = r.next
      BY <1>5, <1>6, <2>1, <2>7, <3>1, NoneAssumption DEF Apart, Local, Writes,
         Reach
    <3>2. CASE t # r.next
      BY <1>5, <2>7, <3>2 DEF Live
    <3>3. QED
      BY <3>1, <3>2
  <2>8. Reach(s)'
    BY <1>3, <2>1, <2>6, <2>7 DEF Local, Reach
  <2>9. QED
    BY <2>3, <2>4, <2>5, <2>8 DEF Local
<1>10. ASSUME NEW q \in Requests, q = p PROVE Local(tx[q])'
  BY ZenonT(60), <1>3, <1>10 DEF Finished, Idle, Local, Control, Writes, Rotation,
     Rotating, Fresh, Reach
<1>11. ASSUME NEW q \in Requests PROVE Local(tx[q])'
  BY <1>9, <1>10, <1>11
<1>12. ASSUME NEW q \in Requests, NEW v \in Requests, q # v
       PROVE  Apart(tx[q], tx[v])'
  <2>1. Apart(tx'[q], tx'[v])
    BY <1>1, <1>3, <1>12, NoneAssumption DEF Inv, Apart, Finished, Idle, Local,
       Fresh
  <2>2. QED
    BY <2>1
<1>13. ASSUME NEW f \in sealed'
       PROVE  /\ f \in Families /\ Rows(f) # {}
              /\ f \in sealed \/ (f \in r.end /\ r.op \in Sealing)
  <2>1. f \in sealed \/ (f \in r.end /\ r.op \notin {"logout", "reuse"})
    <3>1. sealed' = IF tx[p].op \in {"logout", "reuse"}
                      THEN sealed ELSE sealed \cup tx[p].end
      BY DEF Commit, Coalesced
    <3>2. QED
      BY <1>13, <3>1
  <2>2. f \in sealed \/ (f \in r.end /\ r.op \in Sealing)
    <3>1. r.end # {} => r.op \in Sealing \cup {"logout", "reuse"}
      BY <1>1 DEF Local, Writes
    <3>2. QED
      BY <2>1, <3>1
  <2>3. f \in Families
    BY <1>1, <2>1 DEF Inv, TypeOK, Transaction
  <2>4. Rows(f) # {}
    BY <1>1, <2>1 DEF Inv, RowsExist, Local, Reach
  <2>5. QED
    BY <2>2, <2>3, <2>4
<1>14. RowsExist'
  <2>1. ASSUME NEW t \in used' \cup revoked' PROVE family'[t] # None
    <3>1. t \in Tokens /\ family[t] # None
      BY <1>1, <1>5, <1>4, NoneAssumption, <2>1 DEF Inv, TypeOK, RowsExist, Transaction, Local, Writes,
         Rotation, Rotating
    <3>2. QED
      BY <1>5, <1>6, <3>1, NoneAssumption
  <2>2. QED
    BY <1>8, <1>13, <2>1 DEF RowsExist
<1>15. OneUnusedToken'
  <2> SUFFICES ASSUME NEW t \in Tokens, NEW v \in Tokens,
                      family'[t] # None, family'[t] = family'[v],
                      t \notin used', v \notin used'
               PROVE  t = v
    BY DEF OneUnusedToken
  \* No row but the new one is unused in the family of an insertion.
  <2>1. ASSUME NEW n \in Tokens, NEW o \in Tokens, n = r.next, o # n,
               family'[n] = family'[o], o \notin used'
        PROVE  FALSE
    <3>1. r.next # None /\ family[o] = r.fam /\ o \notin used /\ r.fam # None
      BY <1>5, <1>6, <2>1, NoneAssumption
    <3>2. Rows(r.fam) # {}
      BY <3>1 DEF Rows
    <3>3. r.use = {r.cur} /\ Live(r.cur) /\ family[r.cur] = r.fam /\ r.cur \in Tokens
      BY <1>6, <3>1, <3>2
    <3>4. o = r.cur
      BY <3>1, <3>3 DEF Inv, OneUnusedToken, Live
    <3>5. QED
      BY <1>5, <2>1, <3>3, <3>4
  <2>2. CASE t # r.next /\ v # r.next
    BY <1>5, <2>2 DEF Inv, OneUnusedToken
  <2>3. QED
    BY <2>1, <2>2
<1>16. SealedSessionsAreDead'
  <2> SUFFICES ASSUME NEW f \in sealed', NEW t \in Tokens, family'[t] = f,
  Live(t)'
               PROVE  FALSE
    BY DEF SealedSessionsAreDead
  <2>1. CASE t = r.next
    <3>1. r.next # None /\ r.fam = f
      BY <1>5, <2>1, NoneAssumption
    <3>2. r.end = {} /\ Live(r.cur) /\ family[r.cur] = f /\ r.cur \in Tokens
      BY <1>6, <1>13, <3>1
    <3>3. QED
      BY <1>13, <3>2 DEF Inv, SealedSessionsAreDead
  <2>2. CASE t # r.next
    <3>1. family[t] = f /\ Live(t) /\ t \notin r.rev
      BY <1>5, <2>2 DEF Live
    <3>2. f \notin sealed
      BY <3>1 DEF Inv, SealedSessionsAreDead
    <3>3. f \in r.end /\ r.op \in Sealing
      BY <1>13, <3>2
    <3>4. QED
      BY <1>1, <1>4, <3>1, <3>3 DEF Local, Reach
  <2>3. QED
    BY <2>1, <2>2
<1>17. QED
  BY <1>7, <1>11, <1>12, <1>14, <1>15, <1>16 DEF Inv

-----------------------------------------------------------------------------
(* Theorems.                                                               *)

LEMMA NextInv == Inv /\ [Next]_vars => Inv'
<1> SUFFICES ASSUME Inv, [Next]_vars PROVE Inv'
  OBVIOUS
<1>1. ASSUME NEW p \in Requests, Arrive(p) PROVE Inv'
  BY <1>1, LoginStep, LogoutAllStep, ResetPasswordStep, DeleteAccountStep,
     RotateLookupStep, LogoutStep, RevokeSessionStep DEF Arrive
<1>2. ASSUME NEW p \in Requests, Progress(p) PROVE Inv'
  BY <1>2, CreateSessionStep, RotateReusedStep, RotateExpiredStep,
     RotateValidStep, RotateInsertStep, RotateTouchStep, ResetLocksUserStep,
     BeginTokensStep, UpdateTokenStep, EndTokensStep, FlushStep,
     BeginSessionsStep, UpdateSessionStep, EndSessionsStep, CommitStep
     DEF Progress
<1>3. ASSUME NEW p \in Requests, Fail(p) \/ DeadlockVictim(p) PROVE Inv'
  BY <1>3, FinishedStep DEF Fail, DeadlockVictim
<1>4. ASSUME NEW t \in Tokens, Expire(t) PROVE Inv'
  BY <1>4, ExpireStep
<1>5. CASE UNCHANGED vars
  <2>1. TypeOK'
    BY <1>5 DEF vars, db, Inv, TypeOK
  <2>2. ASSUME NEW q \in Requests PROVE Local(tx[q])'
    <3>1. Local(tx[q])
      BY DEF Inv
    <3>2. QED
      BY <1>5, <3>1 DEF vars, db, Local, Control, Writes, Rotation, Rotating,
         Fresh, Reach, Rows, Live
  <2>3. ASSUME NEW q \in Requests, NEW v \in Requests, q # v
        PROVE  Apart(tx[q], tx[v])'
    BY <1>5, <2>3 DEF vars, Inv
  <2>4. (RowsExist /\ OneUnusedToken /\ SealedSessionsAreDead)'
    BY <1>5 DEF vars, db, Inv, RowsExist, OneUnusedToken,
       SealedSessionsAreDead, Rows, Live
  <2>5. QED
    BY <2>1, <2>2, <2>3, <2>4 DEF Inv
<1>6. QED
  BY <1>1, <1>2, <1>3, <1>4, <1>5 DEF Next

\* Inv holds in every state of every behaviour.
THEOREM Invariance == Spec => []Inv
<1>1. QED
  BY InitInv, NextInv, PTL DEF Spec

\* Every variable keeps its type.
THEOREM TypeCorrect == Spec => []TypeOK
<1>1. Inv => TypeOK
  BY DEF Inv
<1>2. QED
  BY <1>1, Invariance, PTL

\* Refreshes that race, whatever else runs, leave at most one token of a
\* family unexchanged.
THEOREM RotationIsAChain == Spec => []OneUnusedToken
<1>1. Inv => OneUnusedToken
  BY DEF Inv
<1>2. QED
  BY <1>1, Invariance, PTL

\* The conditional UPDATE of a rotation always matches its row.
THEOREM RotationAlwaysHits == Spec => []RotationHits
<1>1. Inv => RotationHits
  <2> SUFFICES ASSUME Inv, NEW p \in Requests, Rotating(tx[p])
               PROVE  Live(tx[p].cur) /\ family[tx[p].cur] = tx[p].fam
    BY DEF RotationHits, Rotating
  <2>1. Local(tx[p])
    BY DEF Inv
  <2>2. QED
    BY <2>1, NoneAssumption DEF Local, Rotation, Rotating, Live
<1>2. QED
  BY <1>1, Invariance, PTL

\* revokeSession, logoutAll and deleteAccount leave nothing to refresh in the
\* sessions they end.
THEOREM SealingIsComplete == Spec => []SealedSessionsAreDead
<1>1. Inv => SealedSessionsAreDead
  BY DEF Inv
<1>2. QED
  BY <1>1, Invariance, PTL

-----------------------------------------------------------------------------
(* Deletion and rotation.  A deletion that is under way keeps every INSERT *)
(* for its user out with the lock on the users row, and so every token of  *)
(* the user that lives is one it has still to reach or has revoked; once   *)
(* it commits, a rotation for that user has lost its token.  A sign-in     *)
(* that overlaps the deletion may still open a session afterwards, which   *)
(* is why the invariant is about the token a rotation holds and not about  *)
(* all the tokens of a deleted user.                                       *)

\* A request's user is the one its family belongs to.
Owned(r) ==
  r.op = "rotate" \/ r.next # None =>
    r.fam \in Families /\ r.user = Owner[r.fam]

\* A rotation for a deleted user has nothing to exchange.
Hopeless(r) == r.op = "rotate" /\ r.user \in deleted => ~Live(r.cur)

\* The tokens that can be refreshed for u.
Refreshable(u) ==
  {t \in Tokens : family[t] \in Families /\ Owner[family[t]] = u /\ Live(t)}

\* A deletion holds its user and misses no token.
Closing(r) ==
  r.op = "delete" =>
    /\ r.heldU
    /\ r.pc = "updTokens" => Refreshable(r.user) \subseteq r.todoT \cup r.rev
    /\ r.pc = "commit" => Refreshable(r.user) \subseteq r.rev

\* Nothing is being inserted for the user that r deletes.
Excludes(r, s) == r.op = "delete" /\ s.next # None => s.user # r.user

Settled(r) == Owned(r) /\ Hopeless(r) /\ Closing(r)

DeletionInv ==
  /\ \A p \in Requests : Settled(tx[p])
  /\ \A p, q \in Requests : p # q => Excludes(tx[p], tx[q])

\* A step of p that leaves the database alone keeps DeletionInv if p's new
\* record fits in.
LEMMA Placed ==
  ASSUME Inv, DeletionInv, NEW p \in Requests, NEW r \in Transaction,
         Set(p, r), UNCHANGED db,
         Settled(r),
         \A q \in Requests \ {p} : Excludes(r, tx[q]) /\ Excludes(tx[q], r)
  PROVE  DeletionInv'
<1>1. tx'[p] = r /\ \A q \in Requests \ {p} : tx'[q] = tx[q]
  BY DEF Set, Inv, TypeOK
<1>2. ASSUME NEW q \in Requests PROVE Settled(tx[q])'
  <2>1. Settled(tx'[q])
    BY <1>1 DEF DeletionInv
  <2> QED
    BY <2>1 DEF db, Settled, Owned, Hopeless, Closing, Refreshable, Live
<1>3. ASSUME NEW q \in Requests, NEW v \in Requests, q # v
      PROVE  Excludes(tx[q], tx[v])'
  <2>1. Excludes(tx'[q], tx'[v])
    BY <1>1, <1>3 DEF DeletionInv
  <2> QED
    BY <2>1
<1> QED
  BY <1>2, <1>3 DEF DeletionInv

\* A handler that neither rotates, inserts nor deletes has nothing to keep.
LEMMA Uninvolved ==
  ASSUME Inv, DeletionInv, NEW p \in Requests, NEW r \in Transaction,
         Set(p, r), UNCHANGED db, r.op \notin {"rotate", "delete"}, r.next = None
  PROVE  DeletionInv'
<1>1. Settled(r)
  BY DEF Settled, Owned, Hopeless, Closing
<1>2. ASSUME NEW q \in Requests \ {p} PROVE Excludes(r, tx[q]) /\ Excludes(tx[q], r)
  BY DEF Excludes
<1> QED
  BY <1>1, <1>2, Placed

\* A step that changes neither who p works for nor what it inserts.
LEMMA CarriesOn ==
  ASSUME Inv, DeletionInv, NEW p \in Requests, NEW r \in Transaction,
         Set(p, r), UNCHANGED db,
         r.op = tx[p].op, r.user = tx[p].user, r.fam = tx[p].fam,
         r.cur = tx[p].cur, r.next = tx[p].next, r.heldU = tx[p].heldU,
         r.op = "delete" => r.pc \notin {"updTokens", "commit"}
  PROVE  DeletionInv'
<1>1. Settled(tx[p])
  BY DEF DeletionInv
<1>2. Settled(r)
  BY <1>1 DEF Settled, Owned, Hopeless, Closing
<1>3. ASSUME NEW q \in Requests \ {p} PROVE Excludes(r, tx[q]) /\ Excludes(tx[q], r)
  <2>1. Excludes(tx[p], tx[q]) /\ Excludes(tx[q], tx[p])
    BY DEF DeletionInv
  <2> QED
    BY <2>1 DEF Excludes
<1> QED
  BY <1>2, <1>3, Placed

LEMMA ArrivalsKeep ==
  ASSUME Inv, DeletionInv, NEW p \in Requests, Arrive(p)
  PROVE  DeletionInv'
<1>0. tx[p] \in Transaction
  BY OneTransaction
<1>1. tx[p].pc = "idle" => tx[p].next = None
  <2>1. Control(tx[p])
    BY OneTransaction DEF Local
  <2> QED
    BY <2>1 DEF Control, Idle
<1>2. ASSUME NEW u \in Users, Login(p, u) PROVE DeletionInv'
  <2> DEFINE r == [tx[p] EXCEPT !.pc = "create", !.op = "login", !.user = u,
                            !.seen = password[u]]
  <2>0. tx[p].next = None
    BY <1>1, <1>2 DEF Login
  <2>1. Set(p, r) /\ UNCHANGED db
    BY <1>2 DEF Login
  <2>3. "login" \in AllOps /\ "create" \in PCs /\ u \in Users /\ password[u] \in Nat
    BY <1>2 DEF AllOps, PCs, Inv, TypeOK
  <2>2. r \in Transaction /\ r.op = "login" /\ r.next = None
    BY ZenonT(60), <1>0, <2>0, <2>3 DEF Transaction
  <2> QED
    BY <2>1, <2>2, Uninvolved
<1>3. ASSUME NEW u \in Users, LogoutAll(p, u) PROVE DeletionInv'
  <2> DEFINE r == [tx[p] EXCEPT !.pc = "sessions", !.op = "logoutAll", !.user = u]
  <2>0. tx[p].next = None
    BY <1>1, <1>3 DEF LogoutAll
  <2>1. Set(p, r) /\ UNCHANGED db
    BY <1>3 DEF LogoutAll
  <2>3. "logoutAll" \in AllOps /\ "sessions" \in PCs /\ u \in Users
    BY <1>3 DEF AllOps, PCs
  <2>2. r \in Transaction /\ r.op = "logoutAll" /\ r.next = None
    BY ZenonT(60), <1>0, <2>0, <2>3 DEF Transaction
  <2> QED
    BY <2>1, <2>2, Uninvolved
<1>4. ASSUME NEW u \in Users, ResetPassword(p, u) PROVE DeletionInv'
  <2> DEFINE r == [tx[p] EXCEPT !.pc = "user", !.op = "reset", !.user = u]
  <2>0. tx[p].next = None
    BY <1>1, <1>4 DEF ResetPassword
  <2>1. Set(p, r) /\ UNCHANGED db
    BY <1>4 DEF ResetPassword
  <2>3. "reset" \in AllOps /\ "user" \in PCs /\ u \in Users
    BY <1>4 DEF AllOps, PCs
  <2>2. r \in Transaction /\ r.op = "reset" /\ r.next = None
    BY ZenonT(60), <1>0, <2>0, <2>3 DEF Transaction
  <2> QED
    BY <2>1, <2>2, Uninvolved
<1>5. ASSUME NEW t \in Tokens, Logout(p, t) PROVE DeletionInv'
  <2> DEFINE r == [tx[p] EXCEPT !.pc = "tokens", !.op = "logout", !.fam = family[t],
                            !.user = Owner[family[t]]]
  <2>0. tx[p].next = None
    BY <1>1, <1>5 DEF Logout
  <2>1. Set(p, r) /\ UNCHANGED db
    BY <1>5 DEF Logout
  <2>2. family[t] \in Families /\ Owner[family[t]] \in Users
    BY <1>5, OwnerAssumption DEF Logout, Inv, TypeOK
  <2>3. r \in Transaction /\ r.op = "logout" /\ r.next = None
    BY ZenonT(60), <1>0, <1>5, <2>0, <2>2 DEF Transaction, PCs, AllOps
  <2> QED
    BY <2>1, <2>3, Uninvolved
<1>6. ASSUME NEW f \in Families, RevokeSession(p, f) PROVE DeletionInv'
  <2> DEFINE r == [tx[p] EXCEPT !.pc = "sessions", !.op = "revoke", !.fam = f,
                            !.user = Owner[f]]
  <2>0. tx[p].next = None
    BY <1>1, <1>6 DEF RevokeSession
  <2>1. Set(p, r) /\ UNCHANGED db
    BY <1>6 DEF RevokeSession
  <2>3. "revoke" \in AllOps /\ "sessions" \in PCs /\ f \in Families /\ Owner[f] \in Users
    BY <1>6, OwnerAssumption DEF AllOps, PCs
  <2>2. r \in Transaction /\ r.op = "revoke" /\ r.next = None
    BY ZenonT(60), <1>0, <2>0, <2>3 DEF Transaction
  <2> QED
    BY <2>1, <2>2, Uninvolved
<1>7. ASSUME NEW t \in Tokens, RotateLookup(p, t) PROVE DeletionInv'
  <2> DEFINE r == [tx[p] EXCEPT !.pc = "lock", !.op = "rotate", !.cur = t,
                            !.fam = family[t], !.user = Owner[family[t]]]
  <2>0. tx[p].next = None
    BY <1>1, <1>7 DEF RotateLookup
  <2>1. Set(p, r) /\ UNCHANGED db
    BY <1>7 DEF RotateLookup
  <2>2. /\ family[t] \in Families /\ Owner[family[t]] \in Users
        /\ Owner[family[t]] \notin deleted
    BY <1>7, OwnerAssumption DEF RotateLookup, Inv, TypeOK
  <2>3. /\ r \in Transaction /\ r.op = "rotate" /\ r.next = None
        /\ r.fam = family[t] /\ r.user = Owner[family[t]]
    BY ZenonT(60), <1>0, <1>7, <2>0, <2>2 DEF Transaction, PCs, AllOps
  <2>4. Settled(r)
    BY <2>2, <2>3 DEF Settled, Owned, Hopeless, Closing
  <2>5. ASSUME NEW q \in Requests \ {p} PROVE Excludes(r, tx[q]) /\ Excludes(tx[q], r)
    BY <2>3 DEF Excludes
  <2> QED
    BY <2>1, <2>3, <2>4, <2>5, Placed
<1>8. ASSUME NEW u \in Users, DeleteAccount(p, u) PROVE DeletionInv'
  <2> DEFINE r == [tx[p] EXCEPT !.pc = "sessions", !.op = "delete", !.user = u,
                            !.heldU = TRUE]
  <2>0. tx[p].next = None
    BY <1>1, <1>8 DEF DeleteAccount
  <2>1. Set(p, r) /\ UNCHANGED db
    BY <1>8 DEF DeleteAccount
  <2>2. /\ r \in Transaction /\ r.pc = "sessions" /\ r.op = "delete"
        /\ r.next = None /\ r.user = u /\ r.heldU
    <3>1. "delete" \in AllOps /\ "sessions" \in PCs /\ u \in Users
      BY <1>8 DEF AllOps, PCs
    <3> QED
      BY ZenonT(60), <1>0, <2>0, <3>1 DEF Transaction
  <2>3. Settled(r)
    BY <2>2 DEF Settled, Owned, Hopeless, Closing
  <2>4. ASSUME NEW q \in Requests \ {p} PROVE Excludes(r, tx[q]) /\ Excludes(tx[q], r)
    BY <1>8, <2>2 DEF Excludes, DeleteAccount, NoKeyShare
  <2> QED
    BY <2>1, <2>2, <2>3, <2>4, Placed
<1> QED
  BY <1>2, <1>3, <1>4, <1>5, <1>6, <1>7, <1>8 DEF Arrive

\* A request that inserts for a user nobody is deleting.
LEMMA InsertsKeep ==
  ASSUME Inv, DeletionInv, NEW p \in Requests, CreateSession(p) \/ RotateInsert(p)
  PROVE  DeletionInv'
<1>1. tx[p] \in Transaction /\ Control(tx[p]) /\ Settled(tx[p])
  BY OneTransaction DEF Local, DeletionInv
<1>2. ASSUME NEW q \in Requests \ {p}, tx[q].op = "delete"
      PROVE  tx[q].heldU
  BY <1>2 DEF DeletionInv, Settled, Closing
<1>3. CASE CreateSession(p)
  <2>1. PICK f \in FreshFamilies(tx[p].user), n \in FreshTokens :
          Set(p, [tx[p] EXCEPT !.pc = "commit", !.fam = f, !.next = n])
    BY <1>3 DEF CreateSession
  <2> DEFINE r == [tx[p] EXCEPT !.pc = "commit", !.fam = f, !.next = n]
  <2>2. f \in Families /\ Owner[f] = tx[p].user /\ n \in Tokens /\ "commit" \in PCs
    BY <2>1 DEF FreshFamilies, FreshTokens, PCs
  <2>3. tx[p].op = "login"
    BY <1>1, <1>3 DEF CreateSession, Control
  <2>4. /\ r \in Transaction /\ r.op = "login" /\ r.fam = f /\ r.next = n
        /\ r.user = tx[p].user
    BY <1>1, <2>2, <2>3 DEF Transaction
  <2>5. Settled(r)
    BY <2>2, <2>4 DEF Settled, Owned, Hopeless, Closing
  <2>6. ASSUME NEW q \in Requests \ {p} PROVE Excludes(r, tx[q]) /\ Excludes(tx[q], r)
    BY <1>2, <1>3, <2>4 DEF Excludes, CreateSession, KeyShareFree
  <2> QED
    BY <1>3, <2>1, <2>4, <2>5, <2>6, Placed DEF CreateSession
<1>4. CASE RotateInsert(p)
  <2>1. PICK n \in FreshTokens :
          Set(p, [tx[p] EXCEPT !.pc = "touch", !.next = n, !.use = {tx[p].cur}])
    BY <1>4 DEF RotateInsert
  <2> DEFINE r == [tx[p] EXCEPT !.pc = "touch", !.next = n, !.use = {tx[p].cur}]
  <2>2. tx[p].op = "rotate"
    BY <1>1, <1>4 DEF RotateInsert, Control
  <2>3. n \in Tokens /\ {tx[p].cur} \in SUBSET Tokens /\ "touch" \in PCs
    BY <2>2, OneTransaction DEF FreshTokens, PCs, Local, Rotation
  <2>4. /\ r \in Transaction /\ r.op = "rotate" /\ r.fam = tx[p].fam /\ r.next = n
        /\ r.user = tx[p].user /\ r.cur = tx[p].cur
    BY <1>1, <2>2, <2>3 DEF Transaction
  <2>5. Settled(r)
    BY <1>1, <2>2, <2>4 DEF Settled, Owned, Hopeless, Closing
  <2>6. ASSUME NEW q \in Requests \ {p} PROVE Excludes(r, tx[q]) /\ Excludes(tx[q], r)
    BY <1>2, <1>4, <2>4 DEF Excludes, RotateInsert, KeyShareFree
  <2> QED
    BY <1>4, <2>1, <2>4, <2>5, <2>6, Placed DEF RotateInsert
<1> QED
  BY <1>3, <1>4

\* The checks of a rotation, its UPDATE of the session, and a reset's lock.
LEMMA ChecksKeep ==
  ASSUME Inv, DeletionInv, NEW p \in Requests,
         \/ RotateReused(p) \/ RotateExpired(p) \/ RotateValid(p) \/ RotateTouch(p)
         \/ ResetLocksUser(p)
  PROVE  DeletionInv'
<1>1. tx[p] \in Transaction /\ Control(tx[p])
  BY OneTransaction DEF Local
<1>2. tx[p].op = "rotate" => {tx[p].cur} \in SUBSET Tokens /\ {tx[p].fam} \in SUBSET Families
  BY OneTransaction DEF Local, Rotation
<1>3. CASE RotateReused(p)
  <2> DEFINE r == [tx[p] EXCEPT !.pc = "tokens", !.op = "reuse", !.heldT = {tx[p].cur}]
  <2>1. /\ tx[p].op = "rotate" /\ tx[p].next = None /\ "tokens" \in PCs
    BY <1>1, <1>3 DEF RotateReused, LocksCurrent, Control, PCs
  <2>2. r \in Transaction /\ r.op = "reuse" /\ r.next = None
    BY ZenonT(60), <1>1, <1>2, <2>1 DEF Transaction
  <2> QED
    BY <1>3, <2>2, Uninvolved DEF RotateReused
<1>4. CASE RotateExpired(p)
  <2> DEFINE r == [tx[p] EXCEPT !.pc = "commit", !.heldT = {tx[p].cur}, !.rev = {tx[p].cur}]
  <2>1. tx[p].op = "rotate" /\ "commit" \in PCs
    BY <1>1, <1>4 DEF RotateExpired, LocksCurrent, Control, PCs
  <2>2. /\ r \in Transaction /\ r.op = tx[p].op /\ r.user = tx[p].user
        /\ r.fam = tx[p].fam /\ r.cur = tx[p].cur /\ r.next = tx[p].next
        /\ r.heldU = tx[p].heldU
    BY <1>1, <1>2, <2>1 DEF Transaction
  <2> QED
    BY <1>4, <2>1, <2>2, CarriesOn DEF RotateExpired
<1>5. CASE RotateValid(p)
  <2> DEFINE r == [tx[p] EXCEPT !.pc = "insert", !.heldT = {tx[p].cur}]
  <2>1. tx[p].op = "rotate" /\ "insert" \in PCs
    BY <1>1, <1>5 DEF RotateValid, LocksCurrent, Control, PCs
  <2>2. /\ r \in Transaction /\ r.op = tx[p].op /\ r.user = tx[p].user
        /\ r.fam = tx[p].fam /\ r.cur = tx[p].cur /\ r.next = tx[p].next
        /\ r.heldU = tx[p].heldU
    BY <1>1, <1>2, <2>1 DEF Transaction
  <2> QED
    BY <1>5, <2>1, <2>2, CarriesOn DEF RotateValid
<1>6. CASE RotateTouch(p)
  <2> DEFINE r == [tx[p] EXCEPT !.pc = "commit", !.heldF = {tx[p].fam}]
  <2>1. tx[p].op = "rotate" /\ "commit" \in PCs
    BY <1>1, <1>6 DEF RotateTouch, Control, PCs
  <2>2. /\ r \in Transaction /\ r.op = tx[p].op /\ r.user = tx[p].user
        /\ r.fam = tx[p].fam /\ r.cur = tx[p].cur /\ r.next = tx[p].next
        /\ r.heldU = tx[p].heldU
    BY <1>1, <1>2, <2>1 DEF Transaction
  <2> QED
    BY <1>6, <2>1, <2>2, CarriesOn DEF RotateTouch
<1>7. CASE ResetLocksUser(p)
  <2> DEFINE r == [tx[p] EXCEPT !.pc = "tokens", !.heldU = TRUE]
  <2>1. tx[p].op = "reset" /\ tx[p].next = None /\ "tokens" \in PCs
    BY <1>1, <1>7 DEF ResetLocksUser, Control, PCs
  <2>2. r \in Transaction /\ r.op = "reset" /\ r.next = None
    BY ZenonT(60), <1>1, <2>1 DEF Transaction
  <2> QED
    BY <1>7, <2>2, Uninvolved DEF ResetLocksUser
<1> QED
  BY <1>3, <1>4, <1>5, <1>6, <1>7

\* The UPDATE of sessions.
LEMMA SessionStepsKeep ==
  ASSUME Inv, DeletionInv, NEW p \in Requests,
         \/ BeginSessions(p) \/ (\E f \in Families : UpdateSession(p, f))
         \/ EndSessions(p)
  PROVE  DeletionInv'
<1>1. tx[p] \in Transaction /\ Control(tx[p])
  BY OneTransaction DEF Local
<1>2. CASE BeginSessions(p)
  <2> DEFINE r == [tx[p] EXCEPT !.pc = "updSessions", !.todoF = SessionsToEnd(tx[p])]
  <2>1. "updSessions" \in PCs
    BY DEF PCs
  <2>2. SessionsToEnd(tx[p]) \in SUBSET Families
    <3>1. Scope(tx[p]) \subseteq Families
      BY <1>1, <1>2 DEF BeginSessions, Scope, Control, Sealing
    <3> QED
      BY <3>1 DEF SessionsToEnd
  <2>3. /\ r \in Transaction /\ r.op = tx[p].op /\ r.user = tx[p].user
        /\ r.fam = tx[p].fam /\ r.cur = tx[p].cur /\ r.next = tx[p].next
        /\ r.heldU = tx[p].heldU /\ r.pc = "updSessions"
    BY <1>1, <2>1, <2>2 DEF Transaction
  <2> QED
    BY <1>2, <2>3, CarriesOn DEF BeginSessions
<1>3. ASSUME NEW f \in Families, UpdateSession(p, f) PROVE DeletionInv'
  <2> DEFINE r == [tx[p] EXCEPT !.todoF = @ \ {f}, !.heldF = @ \cup {f},
                                !.end = @ \cup ({f} \ ended)]
  <2>1. /\ tx[p].todoF \ {f} \in SUBSET Families /\ tx[p].heldF \cup {f} \in SUBSET Families
        /\ tx[p].end \cup ({f} \ ended) \in SUBSET Families
    BY <1>1, <1>3 DEF Transaction
  <2>2. /\ r \in Transaction /\ r.op = tx[p].op /\ r.user = tx[p].user
        /\ r.fam = tx[p].fam /\ r.cur = tx[p].cur /\ r.next = tx[p].next
        /\ r.heldU = tx[p].heldU /\ r.pc = tx[p].pc
    BY <1>1, <2>1 DEF Transaction
  <2> QED
    BY <1>3, <2>2, CarriesOn DEF UpdateSession
<1>4. CASE EndSessions(p)
  <2>1. CASE Set(p, Finished)
    <3>1. Finished \in Transaction /\ Finished.op = "none" /\ Finished.next = None
      BY DEF Finished, Idle, Transaction, PCs
    <3> QED
      BY <1>4, <2>1, <3>1, Uninvolved DEF EndSessions
  <2>2. CASE ~Set(p, Finished)
    <3>1. PICK c \in {"commit", "tokens"} :
            /\ Set(p, [tx[p] EXCEPT !.pc = c])
            /\ Coalesced(tx[p]) \/ c = "tokens"
      BY <1>4, <2>2 DEF EndSessions
    <3> DEFINE r == [tx[p] EXCEPT !.pc = c]
    <3>2. c \in PCs
      BY <3>1 DEF PCs
    <3>3. /\ r \in Transaction /\ r.op = tx[p].op /\ r.user = tx[p].user
          /\ r.fam = tx[p].fam /\ r.cur = tx[p].cur /\ r.next = tx[p].next
          /\ r.heldU = tx[p].heldU /\ r.pc = c
      BY <1>1, <3>2 DEF Transaction
    <3>4. r.op = "delete" => r.pc \notin {"updTokens", "commit"}
      BY <3>1, <3>3 DEF Coalesced
    <3> QED
      BY <1>4, <3>1, <3>3, <3>4, CarriesOn DEF EndSessions
  <2> QED
    BY <2>1, <2>2
<1> QED
  BY <1>2, <1>3, <1>4

\* A step of p that only changes how far its UPDATE of refresh_tokens has got.
LEMMA Closes ==
  ASSUME Inv, DeletionInv, NEW p \in Requests, NEW r \in Transaction,
         Set(p, r), UNCHANGED db,
         r.op = tx[p].op, r.user = tx[p].user, r.fam = tx[p].fam,
         r.cur = tx[p].cur, r.next = tx[p].next, r.heldU = tx[p].heldU,
         Closing(r)
  PROVE  DeletionInv'
<1>1. Settled(tx[p])
  BY DEF DeletionInv
<1>2. Settled(r)
  BY <1>1 DEF Settled, Owned, Hopeless
<1>3. ASSUME NEW q \in Requests \ {p} PROVE Excludes(r, tx[q]) /\ Excludes(tx[q], r)
  <2>1. Excludes(tx[p], tx[q]) /\ Excludes(tx[q], tx[p])
    BY DEF DeletionInv
  <2> QED
    BY <2>1 DEF Excludes
<1> QED
  BY <1>2, <1>3, Placed

\* The UPDATE of refresh_tokens.
LEMMA TokenStepsKeep ==
  ASSUME Inv, DeletionInv, NEW p \in Requests,
         \/ BeginTokens(p) \/ (\E t \in Tokens : UpdateToken(p, t))
         \/ EndTokens(p)
  PROVE  DeletionInv'
<1>1. tx[p] \in Transaction /\ Control(tx[p]) /\ Closing(tx[p])
  BY OneTransaction DEF Local, DeletionInv, Settled
<1>2. CASE BeginTokens(p)
  <2> DEFINE r == [tx[p] EXCEPT !.pc = "updTokens", !.todoT = TokensToRevoke(tx[p])]
  <2>1. "updTokens" \in PCs /\ TokensToRevoke(tx[p]) \in SUBSET Tokens
    BY DEF PCs, TokensToRevoke
  <2>2. /\ r \in Transaction /\ r.op = tx[p].op /\ r.user = tx[p].user
        /\ r.fam = tx[p].fam /\ r.cur = tx[p].cur /\ r.next = tx[p].next
        /\ r.heldU = tx[p].heldU /\ r.pc = "updTokens"
        /\ r.todoT = TokensToRevoke(tx[p])
    BY <1>1, <2>1 DEF Transaction
  <2>3. tx[p].op = "delete" => Refreshable(tx[p].user) \subseteq TokensToRevoke(tx[p])
    BY DEF Refreshable, TokensToRevoke, Scope, Live
  <2>4. Closing(r)
    BY <1>1, <2>2, <2>3 DEF Closing
  <2> QED
    BY <1>2, <2>2, <2>4, Closes DEF BeginTokens
<1>3. ASSUME NEW t \in Tokens, UpdateToken(p, t) PROVE DeletionInv'
  <2> DEFINE r == [tx[p] EXCEPT !.todoT = @ \ {t}, !.heldT = @ \cup {t},
                                !.rev = @ \cup {t}]
  <2>1. /\ tx[p].todoT \ {t} \in SUBSET Tokens /\ tx[p].heldT \cup {t} \in SUBSET Tokens
        /\ tx[p].rev \cup {t} \in SUBSET Tokens
    BY <1>1, <1>3 DEF Transaction
  <2>2. /\ r \in Transaction /\ r.op = tx[p].op /\ r.user = tx[p].user
        /\ r.fam = tx[p].fam /\ r.cur = tx[p].cur /\ r.next = tx[p].next
        /\ r.heldU = tx[p].heldU /\ r.pc = tx[p].pc
        /\ r.todoT = tx[p].todoT \ {t} /\ r.rev = tx[p].rev \cup {t}
    BY <1>1, <2>1 DEF Transaction
  <2>3. tx[p].pc = "updTokens"
    BY <1>3 DEF UpdateToken
  <2>4. Closing(r)
    BY <1>1, <2>2, <2>3 DEF Closing
  <2> QED
    BY <1>3, <2>2, <2>4, Closes DEF UpdateToken
<1>4. CASE EndTokens(p)
  <2>1. PICK c \in {"flush", "sessions", "commit"} : Set(p, [tx[p] EXCEPT !.pc = c])
    BY <1>4 DEF EndTokens
  <2> DEFINE r == [tx[p] EXCEPT !.pc = c]
  <2>2. c \in PCs /\ c # "updTokens"
    BY <2>1 DEF PCs
  <2>3. /\ r \in Transaction /\ r.op = tx[p].op /\ r.user = tx[p].user
        /\ r.fam = tx[p].fam /\ r.cur = tx[p].cur /\ r.next = tx[p].next
        /\ r.heldU = tx[p].heldU /\ r.pc = c
        /\ r.todoT = tx[p].todoT /\ r.rev = tx[p].rev
    BY <1>1, <2>2 DEF Transaction
  <2>4. tx[p].pc = "updTokens" /\ tx[p].todoT = {}
    BY <1>4 DEF EndTokens
  <2>5. Closing(r)
    BY <1>1, <2>2, <2>3, <2>4 DEF Closing
  <2> QED
    BY <1>4, <2>1, <2>3, <2>5, Closes DEF EndTokens
<1> QED
  BY <1>2, <1>3, <1>4

\* logout's first UPDATE commits by itself, and only takes tokens away.
LEMMA FlushKeeps ==
  ASSUME Inv, DeletionInv, NEW p \in Requests, Flush(p)
  PROVE  DeletionInv'
<1> DEFINE r == [tx[p] EXCEPT !.pc = "sessions", !.heldT = {}, !.rev = {}]
<1>1. tx[p] \in Transaction /\ tx[p].op = "logout" /\ tx[p].next = None /\ "sessions" \in PCs
  BY OneTransaction DEF Local, Control, Flush, PCs
<1>2. r.op = "logout" /\ r.next = None
  BY <1>1 DEF Transaction
<1>3. /\ tx'[p] = r /\ \A q \in Requests \ {p} : tx'[q] = tx[q]
      /\ family' = family /\ used' = used /\ deleted' = deleted /\ revoked \subseteq revoked'
  BY DEF Flush, Set, Inv, TypeOK
<1>4. ASSUME NEW q \in Requests PROVE Settled(tx[q])'
  <2>1. CASE q = p
    <3>1. tx'[q].op = "logout" /\ tx'[q].next = None
      BY <1>2, <1>3, <2>1
    <3> QED
      BY <3>1 DEF Settled, Owned, Hopeless, Closing
  <2>2. CASE q # p
    <3>1. Settled(tx[q]) /\ tx'[q] = tx[q]
      BY <1>3, <2>2 DEF DeletionInv
    <3> QED
      BY <1>3, <3>1 DEF Settled, Owned, Hopeless, Closing, Refreshable, Live
  <2> QED
    BY <2>1, <2>2
<1>5. ASSUME NEW q \in Requests, NEW v \in Requests, q # v
      PROVE  Excludes(tx[q], tx[v])'
  <2>1. Excludes(tx[q], tx[v])
    BY <1>5 DEF DeletionInv
  <2>2. tx'[q].op = "delete" => q # p /\ tx'[q] = tx[q]
    BY <1>2, <1>3
  <2>3. tx'[v].next # None => v # p /\ tx'[v] = tx[v]
    BY <1>2, <1>3
  <2> QED
    BY <2>1, <2>2, <2>3 DEF Excludes
<1> QED
  BY <1>4, <1>5 DEF DeletionInv

\* A commit: a deletion has revoked what a rotation of its user holds, and
\* what another transaction inserts is for a user nobody is deleting.
LEMMA CommitKeeps ==
  ASSUME Inv, DeletionInv, NEW p \in Requests, Commit(p)
  PROVE  DeletionInv'
<1>1. /\ tx[p] \in Transaction /\ Control(tx[p]) /\ Fresh(tx[p]) /\ Settled(tx[p])
      /\ tx[p].pc = "commit"
  BY OneTransaction DEF Local, DeletionInv, Commit
<1>2. tx'[p] = Finished /\ \A q \in Requests \ {p} : tx'[q] = tx[q]
  BY DEF Commit, Set, Inv, TypeOK
<1>3. tx'[p].op = "none" /\ tx'[p].next = None
  BY <1>2 DEF Finished, Idle
<1>4. /\ \A t \in Tokens : family'[t] = IF t = tx[p].next THEN tx[p].fam ELSE family[t]
      /\ used \subseteq used' /\ revoked' = revoked \cup tx[p].rev
  BY DEF Commit
<1>5. deleted' = deleted \cup (IF tx[p].op = "delete" THEN {tx[p].user} ELSE {})
  BY DEF Commit
<1>6. ASSUME NEW q \in Requests \ {p} PROVE Settled(tx[q])'
  <2>1. /\ Settled(tx[q]) /\ tx'[q] = tx[q]
        /\ Excludes(tx[p], tx[q]) /\ Excludes(tx[q], tx[p])
    BY <1>2 DEF DeletionInv
  <2>2. Owned(tx[q])'
    BY <2>1 DEF Settled, Owned
  <2>3. Hopeless(tx[q])'
    <3> SUFFICES ASSUME tx[q].op = "rotate", tx[q].user \in deleted', Live(tx[q].cur)'
                 PROVE  FALSE
      BY <2>1 DEF Hopeless
    <3>1. /\ tx[q].cur \in Tokens /\ tx[q].fam \in Families
          /\ family[tx[q].cur] = tx[q].fam /\ tx[q].user = Owner[tx[q].fam]
      BY <2>1, OneTransaction DEF Local, Rotation, Settled, Owned
    <3>2. tx[q].cur # tx[p].next /\ family[tx[q].cur] # None
      BY <1>1, <3>1, NoneAssumption DEF Fresh
    <3>3. Live(tx[q].cur) /\ tx[q].cur \notin tx[p].rev
      BY <2>1, <1>4, <3>1, <3>2 DEF Live
    <3>4. tx[q].user \notin deleted
      BY <2>1, <3>3 DEF Settled, Hopeless
    <3>5. tx[p].op = "delete" /\ tx[q].user = tx[p].user
      BY <1>5, <3>4
    <3>6. tx[q].cur \in Refreshable(tx[p].user)
      BY <3>1, <3>3, <3>5 DEF Refreshable
    <3> QED
      BY <1>1, <3>3, <3>5, <3>6 DEF Settled, Closing
  <2>4. Closing(tx[q])'
    <3> SUFFICES ASSUME tx[q].op = "delete" PROVE Closing(tx[q])'
      BY <2>1 DEF Closing
    <3>1. ASSUME NEW t \in Tokens, family'[t] \in Families, Owner[family'[t]] = tx[q].user,
                 Live(t)'
          PROVE  t \in Refreshable(tx[q].user)
      <4>1. CASE t = tx[p].next
        <5>1. tx[p].next # None /\ family'[t] = tx[p].fam
          BY <1>4, <3>1, <4>1, NoneAssumption
        <5>2. Owner[tx[p].fam] = tx[p].user /\ tx[p].user # tx[q].user
          BY <1>1, <2>1, <5>1 DEF Settled, Owned, Excludes
        <5> QED
          BY <3>1, <5>1, <5>2
      <4>2. CASE t # tx[p].next
        <5>1. family'[t] = family[t] /\ Live(t)
          BY <1>4, <3>1, <4>2 DEF Live
        <5> QED
          BY <3>1, <5>1 DEF Refreshable
      <4> QED
        BY <4>1, <4>2
    <3>2. \A t \in Refreshable(tx[q].user)' : t \in Refreshable(tx[q].user)
      BY <2>1, <3>1 DEF Refreshable
    <3> QED
      BY <2>1, <3>2 DEF Settled, Closing
  <2> QED
    BY <2>2, <2>3, <2>4 DEF Settled
<1>7. Settled(tx[p])'
  BY <1>3 DEF Settled, Owned, Hopeless, Closing
<1>8. ASSUME NEW q \in Requests, NEW v \in Requests, q # v
      PROVE  Excludes(tx[q], tx[v])'
  <2>1. Excludes(tx[q], tx[v])
    BY <1>8 DEF DeletionInv
  <2>2. tx'[q].op = "delete" => q # p /\ tx'[q] = tx[q]
    BY <1>2, <1>3
  <2>3. tx'[v].next # None => v # p /\ tx'[v] = tx[v]
    BY <1>2, <1>3
  <2> QED
    BY <2>1, <2>2, <2>3 DEF Excludes
<1> QED
  BY <1>6, <1>7, <1>8 DEF DeletionInv

LEMMA DeletionNext ==
  Inv /\ DeletionInv /\ [Next]_vars => DeletionInv'
<1> SUFFICES ASSUME Inv, DeletionInv, [Next]_vars PROVE DeletionInv'
  OBVIOUS
<1>1. ASSUME NEW p \in Requests, Progress(p) PROVE DeletionInv'
  BY <1>1, InsertsKeep, ChecksKeep, SessionStepsKeep, TokenStepsKeep, FlushKeeps,
     CommitKeeps DEF Progress
<1>2. ASSUME NEW p \in Requests, Fail(p) \/ DeadlockVictim(p) PROVE DeletionInv'
  <2>1. Finished \in Transaction /\ Finished.op = "none" /\ Finished.next = None
    BY DEF Finished, Idle, Transaction, PCs
  <2> QED
    BY <1>2, <2>1, Uninvolved DEF Fail, DeadlockVictim
<1>3. CASE (\E t \in Tokens : Expire(t)) \/ UNCHANGED vars
  <2>1. /\ tx' = tx /\ family' = family /\ used' = used /\ revoked' = revoked
        /\ deleted' = deleted
    BY <1>3 DEF Expire, vars, db
  <2>2. ASSUME NEW q \in Requests PROVE Settled(tx[q])'
    <3>1. Settled(tx[q])
      BY DEF DeletionInv
    <3> QED
      BY <2>1, <3>1 DEF Settled, Owned, Hopeless, Closing, Refreshable, Live
  <2>3. ASSUME NEW q \in Requests, NEW v \in Requests, q # v
        PROVE  Excludes(tx[q], tx[v])'
    BY <2>1, <2>3 DEF DeletionInv, Excludes
  <2> QED
    BY <2>2, <2>3 DEF DeletionInv
<1> QED
  BY <1>1, <1>2, <1>3, ArrivalsKeep DEF Next

\* No rotation inserts a successor for an account that is deleted already,
\* although rotate reads deleted_at without a lock: the deletion has taken the
\* token it would have exchanged.
THEOREM DeletedUsersDoNotRotate == Spec => []NoRotationAfterDeletion
<1>1. Init => DeletionInv
  BY DEF Init, Idle, DeletionInv, Settled, Owned, Hopeless, Closing, Excludes
<1>2. Inv /\ DeletionInv => NoRotationAfterDeletion
  <2> SUFFICES ASSUME Inv, DeletionInv, NEW p \in Requests, Rotating(tx[p])
               PROVE  tx[p].user \notin deleted
    BY DEF NoRotationAfterDeletion, Rotating
  <2>1. Live(tx[p].cur)
    BY OneTransaction, NoneAssumption DEF Local, Rotation, Rotating, Live
  <2> QED
    BY <2>1 DEF DeletionInv, Settled, Hopeless, Rotating
<1> QED
  BY <1>1, <1>2, Invariance, DeletionNext, PTL DEF Spec

-----------------------------------------------------------------------------
(* AuthSessions implements TokenChain: the commits are its steps.          *)

\* The refinement mapping of Chain.
Living == {t \in Tokens : Live(t)}
chain == <<family, Living, sealed, deleted>>

LEMMA ChainInit == Init => Chain!Init
<1> SUFFICES ASSUME Init PROVE Chain!Init
  OBVIOUS
<1>1. {t \in Tokens : Live(t)} = {t \in Tokens : family[t] # None}
  BY DEF Init, Live
<1> QED
  BY <1>1 DEF Init, Chain!Init

\* A commit that inserts a token issues it: for a new sign-in, or for the live
\* token that the rotation holds.
LEMMA CommitIssues ==
  ASSUME Inv, DeletionInv, NEW p \in Requests, Commit(p), tx[p].next # None
  PROVE  Chain!Next
<1> DEFINE r == tx[p]
<1>1. /\ r \in Transaction /\ Control(r) /\ Writes(r) /\ Rotation(r) /\ Fresh(r)
      /\ Settled(r) /\ r.pc = "commit"
  BY OneTransaction DEF Local, DeletionInv, Commit
<1>2. PICK n, f, t : n = r.next /\ f = r.fam /\ t = r.cur
  OBVIOUS
<1>3. /\ n \in Tokens /\ f \in Families /\ family[n] = None /\ r.rev = {} /\ f # None
      /\ r.end = {} /\ r.op \in {"rotate", "login"}
  BY <1>1, <1>2, NoneAssumption DEF Transaction, Control, Writes, Fresh, Sealing
<1>4. family' = [family EXCEPT ![n] = f]
  BY <1>2, <1>3 DEF Commit, Inv, TypeOK
<1>5. /\ used' = used \cup r.use /\ revoked' = revoked
      /\ sealed' = sealed /\ deleted' = deleted
  BY <1>3 DEF Commit
<1>6. n \notin used \cup revoked \cup r.use
  <2>1. n \notin used \cup revoked
    BY <1>3 DEF Inv, RowsExist
  <2>2. r.op = "rotate" => family[r.cur] # None
    BY <1>1, NoneAssumption DEF Rotation
  <2> QED
    BY <1>1, <1>3, <2>1, <2>2 DEF Writes, Rotating
<1>7. \A v \in Tokens : Live(v)' <=> v = n \/ (Live(v) /\ v \notin r.use)
  BY <1>3, <1>4, <1>5, <1>6 DEF Live, Inv, TypeOK
<1>8. CASE r.op = "login"
  <2>1. r.use = {} /\ Rows(f) = {}
    BY <1>1, <1>2, <1>8 DEF Writes, Rotating, Fresh
  <2>2. {v \in Tokens : Live(v)}' = {v \in Tokens : Live(v)} \cup {n}
    BY <1>3, <1>7, <2>1
  <2>3. ~Chain!Opened(f)
    BY <2>1 DEF Chain!Opened, Rows
  <2>4. Chain!Open(f, n)
    BY <1>3, <1>4, <1>5, <2>2, <2>3 DEF Chain!Open, Chain!Issue
  <2> QED
    BY <1>3, <2>4 DEF Chain!Next
<1>9. CASE r.op = "rotate"
  <2>1. r.use = {t} /\ t \in Tokens /\ family[t] = f /\ Live(t)
    BY <1>1, <1>2, <1>3, <1>9 DEF Writes, Rotation, Rotating, Live
  <2>2. {v \in Tokens : Live(v)}' = ({v \in Tokens : Live(v)} \ {t}) \cup {n}
    BY <1>3, <1>7, <2>1
  <2>3. Owner[f] \notin deleted
    BY <1>1, <1>2, <1>9, <2>1 DEF Settled, Owned, Hopeless
  <2>4. Chain!Exchange(t, n)
    BY <1>3, <1>4, <1>5, <2>1, <2>2, <2>3 DEF Chain!Exchange, Chain!Issue
  <2> QED
    BY <1>3, <2>1, <2>4 DEF Chain!Next
<1> QED
  BY <1>3, <1>8, <1>9

\* Any other commit takes tokens away, with the sessions it has locked and the
\* account it deletes.
LEMMA CommitTakes ==
  ASSUME Inv, DeletionInv, NEW p \in Requests, Commit(p), tx[p].next = None
  PROVE  Chain!Next
<1> DEFINE r == tx[p]
<1>1. /\ r \in Transaction /\ Control(r) /\ Writes(r) /\ Reach(r) /\ Settled(r)
      /\ r.pc = "commit"
  BY OneTransaction DEF Local, DeletionInv, Commit
<1>2. PICK T \in SUBSET Tokens, F \in SUBSET Families, U \in SUBSET Users :
        /\ T = r.rev /\ F = (IF Coalesced(r) THEN {} ELSE r.end)
        /\ U = (IF r.op = "delete" THEN {r.user} ELSE {})
  <2>1. (IF Coalesced(r) THEN {} ELSE r.end) \in SUBSET Families /\ r.rev \in SUBSET Tokens
    BY <1>1 DEF Transaction
  <2>2. (IF r.op = "delete" THEN {r.user} ELSE {}) \in SUBSET Users
    BY <1>1 DEF Control
  <2> QED
    BY <2>1, <2>2
<1>3. family' = family
  <2>1. family' = [t \in Tokens |-> IF t = None THEN r.fam ELSE family[t]]
    BY DEF Commit
  <2>2. \A t \in Tokens : (IF t = None THEN r.fam ELSE family[t]) = family[t]
    BY NoneAssumption
  <2> QED
    BY <2>1, <2>2 DEF Inv, TypeOK
<1>4. /\ used' = used /\ revoked' = revoked \cup T
      /\ sealed' = sealed \cup F /\ deleted' = deleted \cup U
  BY <1>1, <1>2 DEF Commit, Writes, Rotating
<1>5. {t \in Tokens : Live(t)}' = {t \in Tokens : Live(t)} \ T
  BY <1>3, <1>4 DEF Live
<1>6. \A g \in F : Chain!Opened(g)
  BY <1>1, <1>2 DEF Reach, Rows, Chain!Opened
<1>7. ASSUME NEW t \in Tokens, Live(t)' PROVE family[t] \notin F /\ Owner[family[t]] \notin U
  <2>1. Live(t) /\ t \notin r.rev /\ family[t] \in Families
    BY <1>2, <1>3, <1>4, <1>7 DEF Live, Inv, TypeOK
  <2>2. family[t] \notin F
    <3>1. r.end # {} /\ ~Coalesced(r) => r.op \in Sealing
      BY <1>1 DEF Writes, Coalesced
    <3> QED
      BY <1>1, <1>2, <2>1, <3>1 DEF Reach
  <2>3. Owner[family[t]] \notin U
    <3>1. r.op = "delete" => t \notin Refreshable(r.user)
      BY <1>1, <2>1 DEF Settled, Closing
    <3> QED
      BY <1>2, <2>1, <3>1 DEF Refreshable
  <2> QED
    BY <2>2, <2>3
<1>8. Chain!Take(T, F, U)
  BY <1>3, <1>4, <1>5, <1>6, <1>7 DEF Chain!Take
<1> QED
  BY <1>2, <1>8 DEF Chain!Next

\* logout's first UPDATE takes the tokens it has locked.
LEMMA FlushTakes ==
  ASSUME Inv, NEW p \in Requests, Flush(p)
  PROVE  Chain!Next
<1>1. PICK T \in SUBSET Tokens : T = tx[p].rev
  BY OneTransaction DEF Transaction
<1>2. /\ revoked' = revoked \cup T /\ family' = family /\ used' = used
      /\ sealed' = sealed /\ deleted' = deleted
  BY <1>1 DEF Flush
<1>3. {t \in Tokens : Live(t)}' = {t \in Tokens : Live(t)} \ T
  BY <1>2 DEF Live
<1>4. Chain!Take(T, {}, {})
  BY <1>2, <1>3 DEF Chain!Take
<1>5. {} \in SUBSET Families /\ {} \in SUBSET Users
  OBVIOUS
<1> QED
  BY <1>1, <1>4, <1>5 DEF Chain!Next

LEMMA ChainNext == Inv /\ DeletionInv /\ [Next]_vars => [Chain!Next]_chain
<1> SUFFICES ASSUME Inv, DeletionInv, [Next]_vars PROVE [Chain!Next]_chain
  OBVIOUS
<1>1. ASSUME NEW p \in Requests, Commit(p) \/ Flush(p) PROVE Chain!Next
  BY <1>1, CommitIssues, CommitTakes, FlushTakes
<1>2. ASSUME UNCHANGED <<family, used, revoked, sealed, deleted>> PROVE UNCHANGED chain
  BY <1>2 DEF chain, Living, Live
<1>3. ASSUME NEW p \in Requests, Arrive(p) PROVE UNCHANGED db
  BY <1>3 DEF Arrive, Login, LogoutAll, ResetPassword, DeleteAccount, RotateLookup, Logout,
     RevokeSession
<1>4. ASSUME NEW p \in Requests, Progress(p) \/ Fail(p) \/ DeadlockVictim(p)
      PROVE  Commit(p) \/ Flush(p) \/ UNCHANGED db
  BY <1>4 DEF Progress, Fail, DeadlockVictim, CreateSession, RotateReused, RotateExpired,
     RotateValid, RotateInsert, RotateTouch, ResetLocksUser, BeginTokens, UpdateToken,
     EndTokens, BeginSessions, UpdateSession, EndSessions
<1>5. CASE (\E t \in Tokens : Expire(t)) \/ UNCHANGED vars
  BY <1>2, <1>5 DEF Expire, vars, db
<1>6. UNCHANGED db => UNCHANGED <<family, used, revoked, sealed, deleted>>
  BY DEF db
<1> QED
  BY <1>1, <1>2, <1>3, <1>4, <1>5, <1>6 DEF Next

\* To whoever reads the database, an exchange is one step, a token is taken for
\* good, and no sign-in that has lost its token has one again: AuthSessions
\* implements TokenChain (auth.go, sessions.go, deletion.go).
THEOREM ChainIsImplemented == Spec => ImplementsTokenChain
<1>1. [Chain!Next]_chain = [Chain!Next]_<<family, {t \in Tokens : Live(t)}, sealed, deleted>>
  BY DEF chain, Living
<1>2. Init => DeletionInv
  BY DEF Init, Idle, DeletionInv, Settled, Owned, Hopeless, Closing, Excludes
<1>3. Spec => Chain!Spec
  BY <1>2, ChainInit, ChainNext, Invariance, DeletionNext, PTL
  DEF Spec, Chain!Spec, chain, Living
<1> QED
  BY <1>3 DEF ImplementsTokenChain

=============================================================================
