----------------------------- MODULE ClientSession -----------------------------
(***************************************************************************)
(* The session of one installation of the app: the access token in memory, *)
(* the refresh token in secure storage, the refresh that all 401 answers   *)
(* share, and the sign-in state that the screens show (lib/core/network/   *)
(* api_client.dart, core/auth/token_store.dart, features/auth).  Dart runs *)
(* one task at a time: an action is what a task does between two awaits.   *)
(* Calls to the secure storage reach the platform in the order they are    *)
(* made and are taken to end before anything else comes in.                *)
(*                                                                         *)
(* The server is what module AuthSessions promises of it: rotation makes a *)
(* refresh token unusable, and using it again ends the session.  An access *)
(* token is issued with a refresh token, and the pair is one value; it may *)
(* be refused at any time, as it expires.                                  *)
(***************************************************************************)
EXTENDS Naturals

CONSTANTS
  Persons,   \* accounts that sign in on this device
  Logins,    \* sessions of the server (token families)
  MaxGen,    \* bound of the rotations of a session
  Tasks,     \* calls of the screens, each of which runs once
  Void       \* no token, task or account

ASSUME ClientAssumption ==
  /\ MaxGen \in Nat \ {0}
  /\ Void \notin Persons \cup Logins \cup Tasks
                   \cup [login : Logins, gen : 1..MaxGen]
  /\ Void \notin {"call", "update", "logoutAll", "restore", "login", "logout"}

VARIABLES
  memory,     \* TokenStore._accessToken
  stored,     \* petconnect.refresh_token in the secure storage
  flight,     \* ApiClient._refreshInFlight: the task that runs it
  screen,     \* AuthState.user
  ready,      \* AuthState.initialized
  task,       \* the tasks
  login,      \* the server's sessions
  reused,     \* history: sessions that the server ended because of a reuse
  died,       \* history: sessions whose refresh a death of the app cut off
  adrift,     \* history: the session changed while an answer was still due
  signedOut   \* history: the user signed out and not in again

credentials == <<memory, stored>>
shown == <<screen, ready>>
history == <<died, adrift, signedOut>>
clientVars == <<credentials, flight, shown, task, login, reused, history>>

Pair == [login : Logins, gen : 1..MaxGen]

NoTask == [pc |-> "idle", op |-> Void, token |-> Void, answer |-> Void,
           retried |-> FALSE]
Ended == [NoTask EXCEPT !.pc = "done"]

\* The account of a token.
Whose(x) == login[x.login].who
Doing(op) == \E t \in Tasks : task[t].op = op

\* A refresh or an update of the profile, whose answer will be taken over.
Late(t) == flight \notin {Void, t} \/ \E q \in Tasks \ {t} : task[q].op = "update"

SetTask(t, r) == task' = [task EXCEPT ![t] = r]
Onward(t, r) ==
  SetTask(t, r) /\ UNCHANGED <<credentials, flight, shown, login, reused, history>>

\* What a task does when the refresh it waits for has ended.  A restore then
\* asks for the profile, a call is sent again with the token that is in
\* memory by now, and a logoutAll signs out whatever has failed.
Resume(r, ok, token) ==
  IF ok THEN [r EXCEPT !.pc = "sent", !.token = token, !.answer = Void]
  ELSE IF r.op = "logoutAll" THEN [r EXCEPT !.pc = "clearing", !.answer = Void]
  ELSE Ended

-----------------------------------------------------------------------------
(* Refreshing.                                                             *)

\* Fault: every 401 refreshes for itself.
RefreshAlone(t, r) ==
  \/ /\ stored = Void
     /\ SetTask(t, Resume(r, FALSE, Void))
     /\ ready' = (ready \/ r.op = "restore")
     /\ flight' = flight
  \/ /\ stored # Void
     /\ flight' = t
     /\ SetTask(t, [r EXCEPT !.pc = "refreshing", !.token = stored])
     /\ ready' = ready

\* refreshSession and the beginning of _performRefresh: a refresh that runs
\* is joined; without a stored token there is none.
Refresh(t, r) ==
  \/ /\ flight # Void
     /\ SetTask(t, [r EXCEPT !.pc = "waiting"])
     /\ UNCHANGED <<flight, ready>>
  \/ /\ flight = Void /\ stored = Void
     /\ SetTask(t, Resume(r, FALSE, Void))
     /\ ready' = (ready \/ r.op = "restore")
     /\ UNCHANGED flight
  \/ /\ flight = Void /\ stored # Void
     /\ flight' = t
     /\ SetTask(t, [r EXCEPT !.pc = "refreshing", !.token = stored])
     /\ UNCHANGED ready

\* POST /auth/refresh on the server.
ServerRotates(t) ==
  LET x == task[t].token  s == login[x.login]
      valid == s.live /\ x.gen = s.gen
  IN
  /\ task[t].pc = "refreshing"
  /\ valid => s.gen < MaxGen
  /\ login' = [login EXCEPT ![x.login] =
       IF valid THEN [s EXCEPT !.gen = @ + 1] ELSE [s EXCEPT !.live = FALSE]]
  /\ reused' = IF s.live /\ ~valid THEN reused \cup {x.login} ELSE reused
  /\ SetTask(t, [task[t] EXCEPT !.pc = "answered",
                   !.answer = IF valid THEN [x EXCEPT !.gen = @ + 1] ELSE Void])
  /\ UNCHANGED <<credentials, flight, shown, history>>

\* No connection, or the timeout, before the server has the request or after
\* it has answered.
RefreshIsLost(t) ==
  /\ task[t].pc \in {"refreshing", "answered"}
  /\ Onward(t, [task[t] EXCEPT !.pc = "answered", !.answer = Void])

Joined(t) == {q \in Tasks : q = t \/ task[q].pc = "waiting"}

\* installSession, and whenComplete: all who wait go on.
Receive(t) ==
  LET x == task[t].answer IN
  /\ task[t].pc = "answered" /\ x # Void
  /\ memory' = x /\ stored' = x /\ flight' = Void
  /\ task' = [q \in Tasks |-> IF q \in Joined(t) THEN Resume(task[q], TRUE, x)
                              ELSE task[q]]
  /\ UNCHANGED <<shown, login, reused, history>>

\* The catch of _performRefresh, whatever went wrong; handleSessionExpired.
GiveUp(t) ==
  /\ task[t].pc = "answered" /\ task[t].answer = Void
  /\ memory' = Void /\ stored' = Void /\ flight' = Void /\ screen' = Void
  /\ ready' = (ready \/ \E q \in Joined(t) : task[q].op = "restore")
  /\ task' = [q \in Tasks |-> IF q \in Joined(t) THEN Resume(task[q], FALSE, Void)
                              ELSE task[q]]
  /\ adrift' = (adrift \/ \E q \in Tasks \ Joined(t) : task[q].op = "update")
  /\ UNCHANGED <<login, reused, died, signedOut>>

-----------------------------------------------------------------------------
(* Authorized calls, logoutAll, and the restore at the start of the app.   *)

\* The Authorization header is what is in memory now.
BeginCall(t, op) ==
  /\ task[t].pc = "idle" /\ screen # Void
  /\ op \in {"call", "update", "logoutAll"}
  /\ op = "logoutAll" => ~Doing("logoutAll")
  /\ Onward(t, [NoTask EXCEPT !.pc = "sent", !.op = op, !.token = memory])

BeginRestore(t) ==
  /\ task[t].pc = "idle" /\ ~ready /\ ~Doing("restore")
  /\ Refresh(t, [NoTask EXCEPT !.op = "restore"])
  /\ UNCHANGED <<credentials, screen, login, reused, history>>

\* The answer of the server.  logoutAll ends all sessions of the account;
\* restore, updateProfile and completeOnboarding show the user they get.
Served(t) ==
  LET r == task[t] IN
  /\ r.pc = "sent" /\ r.token # Void
  /\ SetTask(t, IF r.op = "logoutAll" THEN [r EXCEPT !.pc = "clearing"] ELSE Ended)
  /\ login' = IF r.op = "logoutAll"
                THEN [s \in Logins |-> IF login[s].who = Whose(r.token)
                        THEN [login[s] EXCEPT !.live = FALSE] ELSE login[s]]
                ELSE login
  /\ screen' = IF r.op \in {"restore", "update"} THEN Whose(r.token) ELSE screen
  /\ ready' = (ready \/ r.op = "restore")
  /\ UNCHANGED <<credentials, flight, reused, history>>

\* A 401; the second one of a call is final, as is a lost answer.
Unauthorized(t) ==
  /\ task[t].pc = "sent" /\ ~task[t].retried
  /\ Refresh(t, [task[t] EXCEPT !.retried = TRUE])
  /\ UNCHANGED <<credentials, screen, login, reused, history>>

CallFails(t) ==
  /\ task[t].pc = "sent"
  /\ SetTask(t, Resume(task[t], FALSE, Void))
  /\ ready' = (ready \/ task[t].op = "restore")
  /\ UNCHANGED <<credentials, flight, screen, login, reused, history>>

-----------------------------------------------------------------------------
(* Signing in and out.                                                     *)

\* The login screen allows one at a time.
BeginLogin(t) ==
  /\ task[t].pc = "idle" /\ ready /\ screen = Void /\ ~Doing("login")
  /\ Onward(t, [NoTask EXCEPT !.pc = "asking", !.op = "login"])

\* /auth/login or /auth/register opens a session.
ServerGrants(t, s, p) ==
  /\ task[t].pc = "asking" /\ login[s].who = Void
  /\ login' = [login EXCEPT ![s] = [who |-> p, gen |-> 1, live |-> TRUE]]
  /\ SetTask(t, [task[t] EXCEPT !.pc = "granted",
                   !.answer = [login |-> s, gen |-> 1]])
  /\ UNCHANGED <<credentials, flight, shown, reused, history>>

LoginFails(t) ==
  /\ task[t].pc \in {"asking", "granted"}
  /\ SetTask(t, Ended) /\ screen' = Void
  /\ UNCHANGED <<credentials, flight, ready, login, reused, history>>

\* installSession and _authenticate.
Install(t) ==
  LET x == task[t].answer IN
  /\ task[t].pc = "granted"
  /\ memory' = x /\ stored' = x /\ screen' = Whose(x)
  /\ adrift' = Late(t) /\ signedOut' = FALSE
  /\ SetTask(t, Ended)
  /\ UNCHANGED <<flight, ready, login, reused, died>>

BeginLogout(t) ==
  /\ task[t].pc = "idle" /\ screen # Void
  /\ Onward(t, [NoTask EXCEPT !.pc = IF stored = Void THEN "clearing" ELSE "leaving",
                  !.op = "logout", !.token = stored])

\* /auth/logout ends the session, or does not reach the server.
ServerLogsOut(t) ==
  /\ task[t].pc = "leaving"
  /\ login' = [login EXCEPT ![task[t].token.login].live = FALSE]
  /\ SetTask(t, [task[t] EXCEPT !.pc = "clearing"])
  /\ UNCHANGED <<credentials, flight, shown, reused, history>>

LogoutIsLost(t) ==
  task[t].pc = "leaving" /\ Onward(t, [task[t] EXCEPT !.pc = "clearing"])

\* Fault: the stored token is left behind.
ClearMemory(t) ==
  /\ task[t].pc = "clearing"
  /\ memory' = Void /\ stored' = stored /\ screen' = Void
  /\ adrift' = Late(t) /\ signedOut' = TRUE
  /\ SetTask(t, Ended)
  /\ UNCHANGED <<flight, ready, login, reused, died>>

\* tokens.clear, and AuthController.
Clear(t) ==
  /\ task[t].pc = "clearing"
  /\ memory' = Void /\ stored' = Void /\ screen' = Void
  /\ adrift' = Late(t) /\ signedOut' = TRUE
  /\ SetTask(t, Ended)
  /\ UNCHANGED <<flight, ready, login, reused, died>>

\* The app is killed and started again: only the storage is left.
Relaunch ==
  /\ memory' = Void /\ flight' = Void /\ screen' = Void /\ ready' = FALSE
  /\ task' = [t \in Tasks |-> IF task[t].pc = "idle" THEN NoTask ELSE Ended]
  /\ died' = IF flight = Void THEN died ELSE died \cup {task[flight].token.login}
  /\ adrift' = FALSE /\ signedOut' = FALSE
  /\ UNCHANGED <<stored, login, reused>>

-----------------------------------------------------------------------------
(* The specification.                                                      *)

\* The first start, or one after sign-ins of earlier days, just begun or with
\* its session restored.
ClientInit ==
  /\ flight = Void /\ task = [t \in Tasks |-> NoTask]
  /\ reused = {} /\ died = {} /\ adrift = FALSE /\ signedOut = FALSE
  /\ \/ /\ login = [s \in Logins |-> [who |-> Void, gen |-> 0, live |-> FALSE]]
        /\ memory = Void /\ stored = Void /\ screen = Void /\ ready = FALSE
     \/ \E s \in Logins, p \in Persons :
          /\ login = [q \in Logins |-> IF q = s THEN [who |-> p, gen |-> 1, live |-> TRUE]
                                       ELSE [who |-> Void, gen |-> 0, live |-> FALSE]]
          /\ stored = [login |-> s, gen |-> 1]
          /\ \/ memory = Void /\ screen = Void /\ ready = FALSE
             \/ memory = stored /\ screen = p /\ ready = TRUE

ClientNext ==
  \/ \E t \in Tasks :
       \/ \E op \in {"call", "update", "logoutAll"} : BeginCall(t, op)
       \/ BeginRestore(t) \/ BeginLogin(t) \/ BeginLogout(t)
       \/ ServerRotates(t) \/ RefreshIsLost(t) \/ Receive(t) \/ GiveUp(t)
       \/ Served(t) \/ Unauthorized(t) \/ CallFails(t)
       \/ \E s \in Logins, p \in Persons : ServerGrants(t, s, p)
       \/ LoginFails(t) \/ Install(t)
       \/ ServerLogsOut(t) \/ LogoutIsLost(t) \/ Clear(t)
  \/ Relaunch

ClientSpec == ClientInit /\ [][ClientNext]_clientVars

-----------------------------------------------------------------------------
(* Properties.                                                             *)

Session == [who : Persons \cup {Void}, gen : 0..MaxGen, live : BOOLEAN]
Task ==
  [pc : {"idle", "done", "sent", "refreshing", "answered", "waiting", "asking",
         "granted", "leaving", "clearing"},
   op : {Void, "call", "update", "logoutAll", "restore", "login", "logout"},
   token : Pair \cup {Void}, answer : Pair \cup {Void}, retried : BOOLEAN]

\* Tokens belong to sessions of the server and are not ahead of it, and the
\* refresh in flight is that of a task that waits for its answer.
ClientTypeOK ==
  /\ memory \in Pair \cup {Void} /\ stored \in Pair \cup {Void}
  /\ flight \in Tasks \cup {Void} /\ screen \in Persons \cup {Void}
  /\ login \in [Logins -> Session] /\ task \in [Tasks -> Task]
  /\ reused \subseteq Logins /\ died \subseteq Logins
  /\ {ready, adrift, signedOut} \subseteq BOOLEAN
  /\ \A x \in {memory, stored} \ {Void} : x.gen <= login[x.login].gen
  /\ \A t \in Tasks : task[t].pc \in {"refreshing", "answered"} <=> flight = t

\* The app never makes the server end its session for reuse, however many
\* calls meet an expired token at once, sign out or sign in meanwhile, and
\* lose their answers: the one exception is an app that was killed while it
\* waited for a refresh, and presents the old token after its restart
\* (api_client.dart:111-139, 50-60).
OnlyDeathMakesReuse == reused \subseteq died

\* Who is signed in on the screens is who the tokens are of, and nothing is
\* left after signing out.  The code does not keep this when the session
\* changes while a refresh or an update of the profile waits for its answer,
\* which is then installed or shown all the same (api_client.dart:120-161,
\* auth_controller.dart:76-190).
CredentialsFollowTheUser ==
  ready /\ ~adrift =>
    /\ screen # Void => stored # Void /\ memory = stored /\ Whose(stored) = screen
    /\ signedOut => memory = Void /\ stored = Void
=============================================================================
