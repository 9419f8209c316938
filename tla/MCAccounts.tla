----------------------------- MODULE MCAccounts -----------------------------
(***************************************************************************)
(* Accounts with three requests of any kind, Access with three, Migrations *)
(* with three replicas, and ClientSession with three tasks.  They share no *)
(* variable, so a behaviour takes the steps of one of them: "part" says of *)
(* which.                                                                  *)
(***************************************************************************)
EXTENDS Accounts, Access, Migrations, ClientSession, TLC

CONSTANTS home, first, second, ann

VARIABLE part

MCProviderOf == first :> "google" @@ second :> "google"
MCClaims ==
  {[subject |-> first, email |-> home, verified |-> TRUE],
   [subject |-> second, email |-> home, verified |-> FALSE],
   [subject |-> second, email |-> Blank, verified |-> FALSE]}
MCJobs == {"register", "callback", "resend", "forgot", "verify", "reset", "delete"}

Still == part = "accounts" /\ UNCHANGED <<accessVars, migrationVars, clientVars, part>>
AccountsStill ==
  part = "access" /\ UNCHANGED <<accountsVars, migrationVars, clientVars, part>>
OthersStill ==
  part = "migrations" /\ UNCHANGED <<accountsVars, accessVars, clientVars, part>>
ServerStill ==
  part = "client" /\ UNCHANGED <<accountsVars, accessVars, migrationVars, part>>

\* Requests are numbered in the order of their arrival.
Arrived(p) == \A q \in Clients : q < p => req[q].pc # "idle"
\* Rows and keys are numbers, and the lowest that serves is taken.
Lowest(old, new) == \A x \in old \ new, y \in new : x < y
NoUsers == {u \in Ids : ~Exists(u) /\ \A p \in Clients : ~(req[p].fresh /\ req[p].user = u)}
NoLinks == {l \in Links : link[l] = Nil /\ \A p \in Clients : req[p].link # l}
NoKeys == {k \in Keys : key[k] = Unused}
LowestUser == Lowest(NoUsers, NoUsers')
LowestLink == Lowest(NoLinks, NoLinks')
LowestKey == Lowest(NoKeys, NoKeys')
Presented(k) == key[k] = Gone \/ \E p \in Clients : req[p].key = k
KeysInOrder(p) ==
  \A k \in Keys : req'[p].key # Nil /\ k < req'[p].key => Presented(k)
\* Two states are set before the requests arrive, and tokens issued in order.
Before == Cardinality(NoKeys) > 1 /\ \A p \in Clients : req[p].pc = "idle"
InOrder(r) == \A q \in Records : q < r => record[q] # "none"
Called(c) == \A d \in Requests : d < c => call[d].pc # "idle"

\* The last of them only asks for a ticket, and the first alone fails or
\* deletes the account, or finds Redis away.
Asked(c) == /\ c = 3 => call'[c].op \in {"none", "ticket"}
            /\ c > 1 => call'[c] = Over \/ (call'[c].known /\ call'[c].op # "delete")

\* Tasks begin, and sessions are granted, in the order of their numbers.
Begun(t) == \A q \in Tasks : q < t => task[q].pc # "idle"
Taken(s) == \A q \in Logins : q < s => login[q].who # Void
First(s, p) == s = 1 => p = ann

MCInit ==
  /\ AccountsInit /\ AccessInit /\ MigrationsInit /\ ClientInit
  /\ part \in {"accounts", "access", "migrations", "client"}
  /\ \A s \in Logins : login[s].who # Void =>
                           part = "client" /\ s = 1 /\ First(s, login[s].who)

\* The next-state relations of the four modules, action by action.
MCNext ==
  \/ \E p \in Clients :
       \/ (Still /\ Arrived(p) /\ Request(p) /\ KeysInOrder(p))
       \/ (InsertUser(p) /\ LowestUser /\ Still) \/ (EmailTaken(p) /\ Still)
       \/ (Issue(p) /\ LowestLink /\ Still) \/ (CommitRegister(p) /\ Still)
       \/ (RedeemState(p) /\ Still) \/ (Verify(p) /\ Still)
       \/ (FindIdentity(p) /\ Still) \/ (FindEmail(p) /\ Still)
       \/ (LinkIdentity(p) /\ Still) \/ (CreateSession(p) /\ Still)
       \/ (CommitSignIn(p) /\ Still) \/ (MintTicket(p) /\ LowestKey /\ Still)
       \/ (FindUser(p) /\ Still) \/ (Cooldown(p) /\ Still)
       \/ (FindLink(p) /\ Still) \/ (LockLink(p) /\ Still)
       \/ (SetPassword(p) /\ Still) \/ (CommitUse(p) /\ Still)
       \/ (LockUser(p) /\ Still) \/ (CommitDelete(p) /\ Still)
       \/ (p # 3 /\ Fail(p) /\ Still)
  \/ \E k \in Keys :
       (Still /\ Before /\ SetState(k) /\ LowestKey) \/ (Exchange(k) /\ Still) \/ (ExpireKey(k) /\ Still)
  \/ \E l \in Links : Still /\ Age(l)
  \/ \E r \in Records :
       (AccountsStill /\ InOrder(r) /\ IssueToken(r)) \/ (CommitToken(r) /\ AccountsStill)
  \/ \E R \in {Records} \cup {{r} : r \in Records} : Revoke(R) /\ AccountsStill
  \/ \E c \in Requests :
       \/ \E r \in Records, op \in {"ticket", "logoutAll", "delete"} :
            AccountsStill /\ Called(c) /\ Authenticate(c, r, op) /\ Asked(c)
       \/ \E x \in Passes : AccountsStill /\ Called(c) /\ Consume(c, x)
       \/ (TakeCutoff(c) /\ AccountsStill) \/ (RevokeAll(c) /\ AccountsStill)
       \/ (Mark(c) /\ AccountsStill) \/ (TicketActive(c) /\ AccountsStill)
       \/ (IssueTicket(c) /\ AccountsStill) \/ (StoreTicket(c) /\ AccountsStill)
       \/ (Upgrade(c) /\ AccountsStill) \/ (Connect(c) /\ AccountsStill)
       \/ (c = 1 /\ Drop(c) /\ AccountsStill)
  \/ AccountsStill /\ Tick
  \/ \E r \in Replicas :
       \/ (OthersStill /\ TakeLock(r)) \/ (CheckFile(r) /\ OthersStill)
       \/ (RunFile(r) /\ OthersStill) \/ (CommitFile(r) /\ OthersStill)
       \/ (Serve(r) /\ OthersStill) \/ (OthersStill /\ Restart(r))
  \/ \E t \in Tasks :
       \/ \E op \in {"call", "update", "logoutAll"} :
            ServerStill /\ Begun(t) /\ BeginCall(t, op)
       \/ (ServerStill /\ Begun(t) /\ BeginRestore(t))
       \/ (ServerStill /\ Begun(t) /\ BeginLogin(t))
       \/ (ServerStill /\ Begun(t) /\ BeginLogout(t))
       \/ (ServerRotates(t) /\ ServerStill) \/ (RefreshIsLost(t) /\ ServerStill)
       \/ (Receive(t) /\ ServerStill) \/ (GiveUp(t) /\ ServerStill)
       \/ (Served(t) /\ ServerStill) \/ (Unauthorized(t) /\ ServerStill)
       \/ (CallFails(t) /\ ServerStill)
       \/ \E s \in Logins, p \in Persons :
            Taken(s) /\ First(s, p) /\ ServerGrants(t, s, p) /\ ServerStill
       \/ (LoginFails(t) /\ ServerStill) \/ (Install(t) /\ ServerStill)
       \/ (ServerLogsOut(t) /\ ServerStill) \/ (LogoutIsLost(t) /\ ServerStill)
       \/ (Clear(t) /\ ServerStill)
  \/ ServerStill /\ Relaunch

MCSpec == MCInit /\ [][MCNext]_<<accountsVars, accessVars, migrationVars, clientVars, part>>
=============================================================================
