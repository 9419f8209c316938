------------------------- MODULE ClientSessionProofs -------------------------
(***************************************************************************)
(* Proofs about ClientSession, for any number of accounts, sessions,       *)
(* rotations and tasks: only the death of the app makes the server see a   *)
(* refresh token twice, and whoever the screens show is whose tokens the   *)
(* app has.                                                                *)
(*                                                                         *)
(* All refreshes go through one flight.  So a stored token that has been   *)
(* rotated is the one whose answer the flight has (Kept), and a token is   *)
(* current when it is presented (Steady).  A session just granted has no   *)
(* token but the one in its answer (Unheard).                              *)
(***************************************************************************)
EXTENDS ClientSession, TLAPS

\* The server has issued x; and x is its last, unless the session is over or
\* a death of the app came between.
Known(x) == x # Void => login[x.login].who # Void /\ x.gen <= login[x.login].gen
Current(x) ==
  login[x.login].live /\ x.login \notin died => x.gen = login[x.login].gen
Away(x, s) == x # Void => x.login # s

Steady(r) ==
  /\ Known(r.token) /\ Known(r.answer)
  /\ r.pc \in {"refreshing", "answered", "leaving"} => r.token # Void
  /\ r.pc = "refreshing" => Current(r.token)
  /\ r.pc = "answered" /\ r.answer # Void =>
       r.answer.login = r.token.login /\ Current(r.answer)
  /\ r.pc = "granted" => r.answer # Void /\ Current(r.answer)

Kept ==
  stored # Void =>
    \/ Current(stored)
    \/ flight # Void /\ task[flight].pc = "answered"
         /\ task[flight].token.login = stored.login

Unheard ==
  \A t \in Tasks : task[t].pc = "granted" =>
    LET s == task[t].answer.login IN
    /\ Away(memory, s) /\ Away(stored, s)
    /\ \A q \in Tasks : Away(task[q].token, s) /\ (q # t => Away(task[q].answer, s))

TokensInv ==
  /\ ClientTypeOK
  /\ Known(memory) /\ Known(stored) /\ Kept /\ Unheard
  /\ \A t \in Tasks : Steady(task[t])
  /\ OnlyDeathMakesReuse

\* Which task does what.
Control(r) ==
  /\ r.pc \in {"idle", "done"} => r.op = Void
  /\ r.pc \in {"asking", "granted"} <=> r.op = "login"
  /\ r.pc = "leaving" => r.op = "logout"
  /\ r.pc = "clearing" => r.op \in {"logout", "logoutAll"}
  /\ r.pc \in {"sent", "refreshing", "answered", "waiting"} =>
       r.op \in {"call", "update", "logoutAll", "restore"}
  /\ r.op = "restore" => r.pc \in {"sent", "refreshing", "answered"}

\* Before the app is ready, it only restores its session.
Starting ==
  ~ready =>
    /\ screen = Void /\ ~signedOut /\ ~adrift
    /\ \A t \in Tasks : task[t].op \in {Void, "restore"}
    /\ \A t \in Tasks : task[t].op = "restore" /\ task[t].pc = "sent" =>
         task[t].token = stored /\ memory = stored

Alone ==
  /\ \A t \in Tasks : task[t].op = "restore" => ~ready
  /\ \A t, q \in Tasks : task[t].op = task[q].op /\ task[t].op \in {"restore", "login"} => t = q

\* As long as nothing is adrift, what is still to come is of who is shown.
Settled ==
  ~adrift =>
    /\ flight # Void => ~signedOut /\ task[flight].token = stored
    /\ \A t \in Tasks : task[t].op = "update" =>
         screen # Void /\ (task[t].pc = "sent" => task[t].token # Void /\ Whose(task[t].token) = screen)
    /\ \A t \in Tasks : task[t].op = "login" => screen = Void

ScreensInv ==
  /\ \A t \in Tasks : Control(task[t])
  /\ Starting /\ Alone /\ Settled /\ CredentialsFollowTheUser

-----------------------------------------------------------------------------
(* The tokens.                                                             *)

LEMMA TokensInit == ClientInit => TokensInv
<1> SUFFICES ASSUME ClientInit PROVE TokensInv
  OBVIOUS
<1>1. NoTask \in Task /\ NoTask.pc = "idle" /\ NoTask.token = Void /\ NoTask.answer = Void
  BY DEF NoTask, Task
<1>2. task \in [Tasks -> Task] /\ \A t \in Tasks : task[t] = NoTask
  BY <1>1 DEF ClientInit
<1>3. {ready, adrift, signedOut} \subseteq BOOLEAN
  BY Zenon DEF ClientInit
<1>4. ClientTypeOK /\ Known(memory) /\ Known(stored) /\ Kept
  <2>1. CASE /\ login = [s \in Logins |-> [who |-> Void, gen |-> 0, live |-> FALSE]]
             /\ memory = Void /\ stored = Void /\ screen = Void /\ ready = FALSE
    <3>1. login \in [Logins -> Session]
      BY <2>1, ClientAssumption DEF Session
    <3> QED
      BY <1>1, <1>2, <1>3, <2>1, <3>1, ClientAssumption
         DEF ClientInit, ClientTypeOK, Known, Kept
  <2>2. CASE \E s \in Logins, p \in Persons :
          /\ login = [q \in Logins |-> IF q = s THEN [who |-> p, gen |-> 1, live |-> TRUE]
                                       ELSE [who |-> Void, gen |-> 0, live |-> FALSE]]
          /\ stored = [login |-> s, gen |-> 1]
          /\ \/ memory = Void /\ screen = Void /\ ready = FALSE
             \/ memory = stored /\ screen = p /\ ready = TRUE
    <3>1. PICK s \in Logins, p \in Persons :
          /\ login = [q \in Logins |-> IF q = s THEN [who |-> p, gen |-> 1, live |-> TRUE]
                                       ELSE [who |-> Void, gen |-> 0, live |-> FALSE]]
          /\ stored = [login |-> s, gen |-> 1]
          /\ \/ memory = Void /\ screen = Void /\ ready = FALSE
             \/ memory = stored /\ screen = p /\ ready = TRUE
      BY <2>2
    <3>2. p # Void /\ stored \in Pair /\ stored.login = s /\ stored.gen = 1
      BY <3>1, ClientAssumption DEF Pair
    <3>3. login \in [Logins -> Session] /\ login[s].who = p /\ login[s].gen = 1
      BY <3>1, ClientAssumption DEF Session
    <3>4. Known(stored) /\ Known(memory) /\ Current(stored)
      BY <3>1, <3>2, <3>3 DEF Known, Current
    <3>5. memory \in {Void, stored} /\ screen \in Persons \cup {Void}
      BY <3>1
    <3>6. /\ flight = Void /\ reused = {} /\ died = {}
          /\ \A t \in Tasks : flight # t
      BY ClientAssumption DEF ClientInit
    <3>7. \A y \in {memory, stored} \ {Void} : y.gen <= login[y.login].gen
      BY <3>2, <3>3, <3>5
    <3>8. ClientTypeOK
      BY <1>1, <1>2, <1>3, <3>2, <3>3, <3>5, <3>6, <3>7 DEF ClientTypeOK
    <3> QED
      BY <3>4, <3>8 DEF Kept
  <2> QED
    BY <2>1, <2>2 DEF ClientInit
<1>5. Unheard /\ \A t \in Tasks : Steady(task[t])
  BY <1>1, <1>2 DEF Unheard, Steady, Known
<1> QED
  BY <1>4, <1>5 DEF TokensInv, OnlyDeathMakesReuse, ClientInit

\* A step in which tasks take over tokens of the app, or the token x that one
\* of them was given, and the server at most ends sessions.
Tame(r, old, x) ==
  /\ r.pc # "granted"
  /\ r.token \in {old.token, memory, stored, Void, x}
  /\ r.answer \in {old.answer, Void}

NoneRevived ==
  \A s \in Logins : /\ login'[s].who = login[s].who /\ login'[s].gen = login[s].gen
                    /\ login'[s].live => login[s].live

LEMMA MoveStep ==
  ASSUME TokensInv, ClientTypeOK', NoneRevived,
         reused' = reused, died \subseteq died',
         NEW x \in Pair \cup {Void}, Known(x), x # Void => Current(x),
         memory' \in {memory, stored, Void, x}, stored' \in {stored, Void, x},
         \A g \in Tasks : task[g].pc = "granted" /\ task'[g].pc = "granted" =>
           Away(x, task[g].answer.login),
         \A q \in Tasks : task'[q] = task[q] \/ (Steady(task'[q]) /\ Tame(task'[q], task[q], x)),
         \A q \in Tasks : task[q].pc = "answered" =>
           \/ stored' \in {Void, x}
           \/ task'[q].pc = "answered" /\ task'[q].token = task[q].token
           \/ task[q].token.login \in died'
  PROVE  TokensInv'
<1>1. \A y \in Pair \cup {Void} : Known(y) => Known(y)'
  BY DEF Known, NoneRevived, Pair
<1>2. \A y \in Pair : Current(y) => Current(y)'
  BY DEF Current, NoneRevived, Pair
<1>3. /\ \A q \in Tasks : task[q] \in Task /\ task'[q] \in Task
      /\ \A q \in Tasks : Steady(task[q])
      /\ memory \in Pair \cup {Void} /\ stored \in Pair \cup {Void}
      /\ Known(memory) /\ Known(stored)
  BY DEF TokensInv, ClientTypeOK
<1>4. \A q \in Tasks : Steady(task'[q])
  <2> SUFFICES ASSUME NEW q \in Tasks PROVE Steady(task'[q])
    OBVIOUS
  <2>1. CASE task'[q] = task[q]
    BY <1>3, <2>1 DEF Steady
  <2> QED
    BY <2>1
<1>5. \A q \in Tasks : Steady(task[q])'
  <2> SUFFICES ASSUME NEW q \in Tasks PROVE Steady(task[q])'
    OBVIOUS
  <2>1. PICK r \in Task : r = task'[q]
    BY <1>3
  <2>2. r.token \in Pair \cup {Void} /\ r.answer \in Pair \cup {Void}
    BY DEF Task
  <2>3. Steady(r)
    BY <1>4, <2>1
  <2>4. Steady(r)'
    BY <1>1, <1>2, <2>2, <2>3 DEF Steady
  <2> QED
    BY <2>1, <2>4 DEF Steady, Known, Current
<1>6. /\ memory' \in Pair \cup {Void} /\ stored' \in Pair \cup {Void}
      /\ Known(memory') /\ Known(stored')
  BY <1>3 DEF Known
<1>7. Known(memory)' /\ Known(stored)'
  BY <1>1, <1>6 DEF Known
<1>8. Kept'
  <2> SUFFICES ASSUME stored' # Void
               PROVE \/ Current(stored)'
                     \/ flight' # Void /\ task'[flight'].pc = "answered"
                          /\ task'[flight'].token.login = stored'.login
    BY DEF Kept
  <2>1. CASE stored' = x
    BY <1>2, <2>1 DEF Current
  <2>2. CASE stored' = stored /\ Current(stored)
    BY <1>2, <1>3, <2>2 DEF Current
  <2>3. CASE /\ stored' = stored /\ stored' # x
             /\ flight # Void /\ task[flight].pc = "answered"
             /\ task[flight].token.login = stored.login
    <3>1. flight \in Tasks
      BY <2>3 DEF TokensInv, ClientTypeOK
    <3>2. CASE task[flight].token.login \in died'
      BY <2>3, <3>2 DEF Current
    <3>3. CASE task'[flight].pc = "answered" /\ task'[flight].token = task[flight].token
      <4>1. flight' = flight
        BY <3>1, <3>3 DEF ClientTypeOK
      <4> QED
        BY <2>3, <3>3, <4>1
    <3> QED
      BY <2>3, <3>1, <3>2, <3>3
  <2> QED
    BY <2>1, <2>2, <2>3 DEF TokensInv, Kept
<1>9. Unheard'
  <2> SUFFICES ASSUME NEW t \in Tasks, task'[t].pc = "granted"
               PROVE LET s == task'[t].answer.login IN
                     /\ Away(memory', s) /\ Away(stored', s)
                     /\ \A q \in Tasks : /\ Away(task'[q].token, s)
                                         /\ q # t => Away(task'[q].answer, s)
    BY DEF Unheard, Away
  <2>1. task'[t] = task[t]
    BY DEF Tame
  <2>2. PICK s : s = task[t].answer.login
    OBVIOUS
  <2>3. /\ Away(memory, s) /\ Away(stored, s) /\ Away(x, s) /\ Away(Void, s)
        /\ \A q \in Tasks : Away(task[q].token, s) /\ (q # t => Away(task[q].answer, s))
    BY <2>1, <2>2 DEF TokensInv, Unheard, Away
  <2>4. \A q \in Tasks : Away(task'[q].token, s) /\ (q # t => Away(task'[q].answer, s))
    BY <2>3 DEF Tame
  <2> QED
    BY <2>1, <2>2, <2>3, <2>4
<1>10. OnlyDeathMakesReuse'
  BY DEF TokensInv, OnlyDeathMakesReuse
<1> QED
  BY <1>5, <1>7, <1>8, <1>9, <1>10 DEF TokensInv

LEMMA EndedFacts ==
  /\ Ended \in Task /\ Ended.pc = "done" /\ Ended.op = Void
  /\ Ended.token = Void /\ Ended.answer = Void /\ Steady(Ended)
  /\ NoTask \in Task /\ NoTask.pc = "idle" /\ NoTask.op = Void
  /\ NoTask.token = Void /\ NoTask.answer = Void /\ Steady(NoTask)
<1>1. NoTask \in Task /\ NoTask.pc = "idle" /\ NoTask.op = Void
        /\ NoTask.token = Void /\ NoTask.answer = Void
  BY DEF NoTask, Task
<1>2. Ended \in Task /\ Ended.pc = "done" /\ Ended.op = Void
        /\ Ended.token = Void /\ Ended.answer = Void
  BY DEF Ended, NoTask, Task
<1> QED
  BY <1>1, <1>2 DEF Steady, Known

LEMMA ResumeFacts ==
  ASSUME NEW r \in Task, NEW x \in Pair \cup {Void}
  PROVE  /\ Resume(r, TRUE, x) \in Task /\ Resume(r, TRUE, x).pc = "sent"
         /\ Resume(r, TRUE, x).token = x /\ Resume(r, TRUE, x).answer = Void
         /\ Resume(r, TRUE, x).op = r.op
         /\ Resume(r, FALSE, x) \in Task /\ Resume(r, FALSE, x).pc \in {"clearing", "done"}
         /\ Resume(r, FALSE, x).token \in {r.token, Void}
         /\ Resume(r, FALSE, x).answer = Void
<1>1. PICK s : s = [r EXCEPT !.pc = "sent", !.token = x, !.answer = Void]
  OBVIOUS
<1>2. s \in Task /\ s.pc = "sent" /\ s.token = x /\ s.answer = Void /\ s.op = r.op
  BY <1>1 DEF Task
<1>3. Resume(r, TRUE, x) = s
  BY <1>1 DEF Resume
<1>4. PICK c : c = [r EXCEPT !.pc = "clearing", !.answer = Void]
  OBVIOUS
<1>5. c \in Task /\ c.pc = "clearing" /\ c.token = r.token /\ c.answer = Void /\ c.op = r.op
  BY <1>4 DEF Task
<1>6. Resume(r, FALSE, x) = IF r.op = "logoutAll" THEN c ELSE Ended
  BY <1>4 DEF Resume
<1> QED
  BY <1>2, <1>3, <1>5, <1>6, EndedFacts

LEMMA ResumeFails ==
  ASSUME NEW r \in Task, NEW o, o = Resume(r, FALSE, Void)
  PROVE  /\ o \in Task /\ o.token \in {r.token, Void} /\ o.answer = Void
         /\ \/ r.op = "logoutAll" /\ o.op = r.op /\ o.pc = "clearing"
            \/ r.op # "logoutAll" /\ o.op = Void /\ o.pc = "done"
<1>1. CASE r.op = "logoutAll"
  <2>1. o = [r EXCEPT !.pc = "clearing", !.answer = Void]
    BY <1>1 DEF Resume
  <2> QED
    BY <1>1, <2>1 DEF Task
<1>2. CASE r.op # "logoutAll"
  <2>1. o = Ended
    BY <1>2 DEF Resume
  <2> QED
    BY <1>2, <2>1, EndedFacts
<1> QED
  BY <1>1, <1>2

\* One task goes on.
LEMMA TaskStep ==
  ASSUME TokensInv, NEW t \in Tasks, NEW r \in Task, SetTask(t, r), Steady(r),
         NEW x \in Pair \cup {Void}, Known(x), x # Void => Current(x),
         \A g \in Tasks \ {t} : task[g].pc = "granted" => Away(x, task[g].answer.login),
         Tame(r, task[t], x), NoneRevived, login' \in [Logins -> Session],
         reused' = reused, died' = died,
         memory' \in {memory, Void, x}, stored' \in {stored, Void, x},
         screen' \in Persons \cup {Void}, {ready', adrift', signedOut'} \subseteq BOOLEAN,
         flight' \in {flight, t}, flight' # flight => flight = Void,
         r.pc \in {"refreshing", "answered"} <=> flight' = t,
         task[t].pc = "answered" => r.pc = "answered" /\ r.token = task[t].token
  PROVE  TokensInv'
<1>1. /\ task' \in [Tasks -> Task] /\ task'[t] = r
      /\ \A q \in Tasks \ {t} : task'[q] = task[q]
  BY DEF SetTask, TokensInv, ClientTypeOK
<1>2. Void \notin Tasks /\ Void \notin Pair
  BY ClientAssumption DEF Pair
<1>3. \A q \in Tasks : task'[q].pc \in {"refreshing", "answered"} <=> flight' = q
  BY <1>1, <1>2 DEF TokensInv, ClientTypeOK
<1>4. /\ memory \in Pair \cup {Void} /\ stored \in Pair \cup {Void}
      /\ login \in [Logins -> Session] /\ Known(memory) /\ Known(stored)
      /\ flight \in Tasks \cup {Void} /\ reused \subseteq Logins /\ died \subseteq Logins
  BY DEF TokensInv, ClientTypeOK
<1>5. \A y \in Pair : Known(y) => y.gen <= login'[y.login].gen
  BY <1>2, <1>4 DEF Known, NoneRevived, Pair
<1>6. memory' \in Pair \cup {Void} /\ stored' \in Pair \cup {Void}
  BY <1>4
<1>7. Known(memory') /\ Known(stored')
  BY <1>4 DEF Known
<1>8. \A y \in {memory', stored'} \ {Void} : y.gen <= login'[y.login].gen
  BY <1>5, <1>6, <1>7
<1>9. flight' \in Tasks \cup {Void} /\ reused' \subseteq Logins /\ died' \subseteq Logins
  BY <1>4
<1>10. ClientTypeOK'
  BY <1>1, <1>3, <1>6, <1>8, <1>9 DEF ClientTypeOK
<1>11. \A g \in Tasks : task[g].pc = "granted" /\ task'[g].pc = "granted" =>
         Away(x, task[g].answer.login)
  BY <1>1 DEF Tame
<1>12. \A q \in Tasks : task'[q] = task[q] \/ (Steady(task'[q]) /\ Tame(task'[q], task[q], x))
  <2>1. Steady(task'[t])
    BY <1>1, Zenon
  <2>2. Tame(task'[t], task[t], x)
    BY <1>1, Zenon
  <2> QED
    BY <1>1, <2>1, <2>2
<1>13. \A q \in Tasks : task[q].pc = "answered" =>
           \/ stored' \in {Void, x}
           \/ task'[q].pc = "answered" /\ task'[q].token = task[q].token
           \/ task[q].token.login \in died'
  BY <1>1
<1> QED
  BY <1>4, <1>10, <1>11, <1>12, <1>13, MoveStep

\* Without a new token, and with the server as it was.
Tidy(r, old) ==
  /\ r.pc \notin {"granted", "refreshing", "answered"}
  /\ r.token \in {old.token, memory, stored, Void}
  /\ r.answer \in {old.answer, Void}

LEMMA TidyStep ==
  ASSUME TokensInv, NEW t \in Tasks, NEW r \in Task, SetTask(t, r), Steady(r),
         Tidy(r, task[t]), task[t].pc \notin {"refreshing", "answered"},
         NoneRevived, login' \in [Logins -> Session],
         reused' = reused, died' = died, flight' = flight,
         memory' \in {memory, Void}, stored' \in {stored, Void},
         screen' \in Persons \cup {Void}, {ready', adrift', signedOut'} \subseteq BOOLEAN
  PROVE  TokensInv'
<1>1. PICK x : x = Void
  OBVIOUS
<1>2. x \in Pair \cup {Void} /\ Known(x) /\ \A s : Away(x, s)
  BY <1>1 DEF Known, Away
<1>3. Tame(r, task[t], x)
  BY <1>1 DEF Tame, Tidy
<1>4. r.pc \in {"refreshing", "answered"} <=> flight' = t
  BY DEF Tidy, TokensInv, ClientTypeOK
<1> QED
  BY <1>1, <1>2, <1>3, <1>4, TaskStep

LEMMA ServerStays ==
  ASSUME TokensInv, login' = login
  PROVE  NoneRevived /\ login' \in [Logins -> Session]
BY DEF TokensInv, ClientTypeOK, NoneRevived

LEMMA TokensTypes ==
  ASSUME TokensInv
  PROVE  /\ \A t \in Tasks : task[t] \in Task /\ Steady(task[t])
         /\ memory \in Pair \cup {Void} /\ stored \in Pair \cup {Void}
         /\ Known(memory) /\ Known(stored)
         /\ login \in [Logins -> Session] /\ screen \in Persons \cup {Void}
         /\ flight \in Tasks \cup {Void}
         /\ ready \in BOOLEAN /\ adrift \in BOOLEAN /\ signedOut \in BOOLEAN
         /\ {ready, adrift, signedOut} \subseteq BOOLEAN
BY DEF TokensInv, ClientTypeOK

LEMMA RefreshTokens ==
  ASSUME TokensInv, NEW t \in Tasks, NEW r \in Task, Refresh(t, r), Steady(r),
         r.pc \in {"idle", "sent"}, task[t].pc \notin {"refreshing", "answered"},
         r.token \in {task[t].token, Void}, r.answer \in {task[t].answer, Void},
         UNCHANGED <<credentials, screen, login, reused, history>>
  PROVE  TokensInv'
<1>1. NoneRevived /\ login' \in [Logins -> Session]
  BY ServerStays
<1>2. /\ died' = died /\ screen' \in Persons \cup {Void}
      /\ memory' = memory /\ stored' = stored
  BY TokensTypes DEF credentials, history
<1>3. {ready', adrift', signedOut'} \subseteq BOOLEAN
  BY TokensTypes DEF Refresh, history
<1>4. CASE flight # Void /\ SetTask(t, [r EXCEPT !.pc = "waiting"]) /\ UNCHANGED <<flight, ready>>
  <2>1. PICK o : o = [r EXCEPT !.pc = "waiting"]
    OBVIOUS
  <2>2. o \in Task /\ o.pc = "waiting" /\ o.token = r.token /\ o.answer = r.answer
    BY <2>1 DEF Task
  <2>3. Steady(o) /\ Tidy(o, task[t]) /\ SetTask(t, o)
    BY <1>4, <2>1, <2>2 DEF Steady, Tidy
  <2> QED
    BY <1>1, <1>2, <1>3, <1>4, <2>2, <2>3, TidyStep
<1>5. CASE SetTask(t, Resume(r, FALSE, Void)) /\ flight' = flight
  <2>1. PICK o : o = Resume(r, FALSE, Void)
    OBVIOUS
  <2>2. o \in Task /\ o.pc \in {"clearing", "done"} /\ o.token \in {r.token, Void} /\ o.answer = Void
    BY <2>1, ResumeFacts
  <2>3. Steady(o) /\ Tidy(o, task[t]) /\ SetTask(t, o)
    BY <1>5, <2>1, <2>2 DEF Steady, Tidy, Known
  <2> QED
    BY <1>1, <1>2, <1>3, <1>5, <2>2, <2>3, TidyStep
<1>6. CASE /\ flight = Void /\ stored # Void /\ flight' = t
           /\ SetTask(t, [r EXCEPT !.pc = "refreshing", !.token = stored])
  <2>1. PICK o : o = [r EXCEPT !.pc = "refreshing", !.token = stored]
    OBVIOUS
  <2>2. o \in Task /\ o.pc = "refreshing" /\ o.token = stored /\ o.answer = r.answer
    BY <2>1, TokensTypes DEF Task
  <2>3. Current(stored)
    BY <1>6 DEF TokensInv, Kept
  <2>4. Steady(o) /\ SetTask(t, o)
    BY <1>6, <2>1, <2>2, <2>3, TokensTypes DEF Steady
  <2>5. PICK x : x = Void
    OBVIOUS
  <2>6. x \in Pair \cup {Void} /\ Known(x) /\ \A s : Away(x, s)
    BY <2>5 DEF Known, Away
  <2>7. Tame(o, task[t], x)
    BY <2>2 DEF Tame
  <2> QED
    BY <1>1, <1>2, <1>3, <1>6, <2>2, <2>4, <2>5, <2>6, <2>7, TaskStep
<1> QED
  BY <1>4, <1>5, <1>6 DEF Refresh

LEMMA BeginCallTokens ==
  ASSUME TokensInv, NEW t \in Tasks, NEW op \in {"call", "update", "logoutAll"},
         BeginCall(t, op)
  PROVE  TokensInv'
<1>1. PICK o : o = [NoTask EXCEPT !.pc = "sent", !.op = op, !.token = memory]
  OBVIOUS
<1>2. o \in Task /\ o.pc = "sent" /\ o.token = memory /\ o.answer = Void
  BY <1>1, TokensTypes DEF NoTask, Task
<1>3. Steady(o) /\ Tidy(o, task[t])
  BY <1>2, TokensTypes DEF Steady, Tidy, Known
<1>4. SetTask(t, o) /\ task[t].pc = "idle"
  BY <1>1 DEF BeginCall, Onward
<1>5. /\ UNCHANGED <<flight, memory, stored, screen, login, reused, died>>
      /\ ready' = ready /\ adrift' = adrift /\ signedOut' = signedOut
  BY DEF BeginCall, Onward, credentials, shown, history
<1> QED
  BY <1>2, <1>3, <1>4, <1>5, ServerStays, TokensTypes, TidyStep

LEMMA BeginRestoreTokens ==
  ASSUME TokensInv, NEW t \in Tasks, BeginRestore(t)
  PROVE  TokensInv'
<1>1. PICK r : r = [NoTask EXCEPT !.op = "restore"]
  OBVIOUS
<1>2. r \in Task /\ r.pc = "idle" /\ r.token = Void /\ r.answer = Void
  BY <1>1 DEF NoTask, Task
<1>3. Steady(r)
  BY <1>2 DEF Steady, Known
<1> QED
  BY <1>1, <1>2, <1>3, RefreshTokens DEF BeginRestore

LEMMA UnauthorizedTokens ==
  ASSUME TokensInv, NEW t \in Tasks, Unauthorized(t)
  PROVE  TokensInv'
<1>1. PICK r : r = [task[t] EXCEPT !.retried = TRUE]
  OBVIOUS
<1>2. /\ r \in Task /\ r.pc = "sent"
      /\ r.token = task[t].token /\ r.answer = task[t].answer
  BY <1>1, TokensTypes DEF Task, Unauthorized
<1>3. Steady(r)
  BY <1>2, TokensTypes DEF Steady
<1> QED
  BY <1>1, <1>2, <1>3, RefreshTokens DEF Unauthorized

LEMMA BeginLoginTokens ==
  ASSUME TokensInv, NEW t \in Tasks, BeginLogin(t)
  PROVE  TokensInv'
<1>1. PICK o : o = [NoTask EXCEPT !.pc = "asking", !.op = "login"]
  OBVIOUS
<1>2. o \in Task /\ o.pc = "asking" /\ o.token = Void /\ o.answer = Void
  BY <1>1 DEF NoTask, Task
<1>3. Steady(o) /\ Tidy(o, task[t])
  BY <1>2 DEF Steady, Tidy, Known
<1>4. SetTask(t, o) /\ task[t].pc = "idle"
  BY <1>1 DEF BeginLogin, Onward
<1>5. /\ UNCHANGED <<flight, memory, stored, screen, login, reused, died>>
      /\ ready' = ready /\ adrift' = adrift /\ signedOut' = signedOut
  BY DEF BeginLogin, Onward, credentials, shown, history
<1> QED
  BY <1>2, <1>3, <1>4, <1>5, ServerStays, TokensTypes, TidyStep

LEMMA BeginLogoutTokens ==
  ASSUME TokensInv, NEW t \in Tasks, BeginLogout(t)
  PROVE  TokensInv'
<1>1. PICK pc \in {"clearing", "leaving"} :
        pc = IF stored = Void THEN "clearing" ELSE "leaving"
  OBVIOUS
<1>2. PICK o : o = [NoTask EXCEPT !.pc = pc, !.op = "logout", !.token = stored]
  OBVIOUS
<1>3. o \in Task /\ o.pc = pc /\ o.token = stored /\ o.answer = Void
  BY <1>2, TokensTypes DEF NoTask, Task
<1>4. Steady(o) /\ Tidy(o, task[t])
  BY <1>1, <1>3, TokensTypes DEF Steady, Tidy, Known
<1>5. SetTask(t, o) /\ task[t].pc = "idle"
  BY <1>1, <1>2 DEF BeginLogout, Onward
<1>6. /\ UNCHANGED <<flight, memory, stored, screen, login, reused, died>>
      /\ ready' = ready /\ adrift' = adrift /\ signedOut' = signedOut
  BY DEF BeginLogout, Onward, credentials, shown, history
<1> QED
  BY <1>3, <1>4, <1>5, <1>6, ServerStays, TokensTypes, TidyStep

LEMMA RefreshIsLostTokens ==
  ASSUME TokensInv, NEW t \in Tasks, RefreshIsLost(t)
  PROVE  TokensInv'
<1>1. PICK o : o = [task[t] EXCEPT !.pc = "answered", !.answer = Void]
  OBVIOUS
<1>2. o \in Task /\ o.pc = "answered" /\ o.token = task[t].token /\ o.answer = Void
  BY <1>1, TokensTypes DEF Task
<1>3. task[t].pc \in {"refreshing", "answered"} /\ flight = t
  BY DEF RefreshIsLost, TokensInv, ClientTypeOK
<1>4. Steady(o)
  BY <1>2, <1>3, TokensTypes DEF Steady, Known
<1>5. PICK x : x = Void
  OBVIOUS
<1>6. x \in Pair \cup {Void} /\ Known(x) /\ \A s : Away(x, s)
  BY <1>5 DEF Known, Away
<1>7. Tame(o, task[t], x)
  BY <1>2 DEF Tame
<1>8. /\ SetTask(t, o)
      /\ UNCHANGED <<flight, memory, stored, screen, login, reused, died>>
      /\ ready' = ready /\ adrift' = adrift /\ signedOut' = signedOut
  BY <1>1 DEF RefreshIsLost, Onward, credentials, shown, history
<1> QED
  BY <1>2, <1>3, <1>4, <1>5, <1>6, <1>7, <1>8, ServerStays, TokensTypes, TaskStep

LEMMA CallFailsTokens ==
  ASSUME TokensInv, NEW t \in Tasks, CallFails(t)
  PROVE  TokensInv'
<1>1. PICK o : o = Resume(task[t], FALSE, Void)
  OBVIOUS
<1>2. /\ o \in Task /\ o.pc \in {"clearing", "done"}
      /\ o.token \in {task[t].token, Void} /\ o.answer = Void
  <2>1. PICK r \in Task : r = task[t]
    BY TokensTypes
  <2> QED
    BY <1>1, <2>1, ResumeFacts
<1>3. Steady(o) /\ Tidy(o, task[t])
  BY <1>2, TokensTypes DEF Steady, Tidy, Known
<1>4. SetTask(t, o) /\ task[t].pc = "sent"
  BY <1>1 DEF CallFails
<1>5. /\ UNCHANGED <<flight, memory, stored, screen, login, reused, died>>
      /\ ready' \in BOOLEAN /\ adrift' = adrift /\ signedOut' = signedOut
  BY DEF CallFails, credentials, history
<1> QED
  BY <1>2, <1>3, <1>4, <1>5, ServerStays, TokensTypes, TidyStep

LEMMA LoginFailsTokens ==
  ASSUME TokensInv, NEW t \in Tasks, LoginFails(t)
  PROVE  TokensInv'
<1>1. Tidy(Ended, task[t])
  BY EndedFacts DEF Tidy
<1>2. SetTask(t, Ended) /\ task[t].pc \in {"asking", "granted"}
  BY DEF LoginFails
<1>3. /\ UNCHANGED <<flight, memory, stored, login, reused, died>> /\ screen' = Void
      /\ ready' = ready /\ adrift' = adrift /\ signedOut' = signedOut
  BY DEF LoginFails, credentials, history
<1> QED
  BY <1>1, <1>2, <1>3, EndedFacts, ServerStays, TokensTypes, TidyStep

LEMMA LogoutIsLostTokens ==
  ASSUME TokensInv, NEW t \in Tasks, LogoutIsLost(t)
  PROVE  TokensInv'
<1>1. PICK o : o = [task[t] EXCEPT !.pc = "clearing"]
  OBVIOUS
<1>2. o \in Task /\ o.pc = "clearing" /\ o.token = task[t].token /\ o.answer = task[t].answer
  BY <1>1, TokensTypes DEF Task
<1>3. Steady(o) /\ Tidy(o, task[t])
  BY <1>2, TokensTypes DEF Steady, Tidy
<1>4. SetTask(t, o) /\ task[t].pc = "leaving"
  BY <1>1 DEF LogoutIsLost, Onward
<1>5. /\ UNCHANGED <<flight, memory, stored, screen, login, reused, died>>
      /\ ready' = ready /\ adrift' = adrift /\ signedOut' = signedOut
  BY DEF LogoutIsLost, Onward, credentials, shown, history
<1> QED
  BY <1>2, <1>3, <1>4, <1>5, ServerStays, TokensTypes, TidyStep

LEMMA ServerLogsOutTokens ==
  ASSUME TokensInv, NEW t \in Tasks, ServerLogsOut(t)
  PROVE  TokensInv'
<1>1. PICK o : o = [task[t] EXCEPT !.pc = "clearing"]
  OBVIOUS
<1>2. o \in Task /\ o.pc = "clearing" /\ o.token = task[t].token /\ o.answer = task[t].answer
  BY <1>1, TokensTypes DEF Task
<1>3. Steady(o) /\ Tidy(o, task[t])
  BY <1>2, TokensTypes DEF Steady, Tidy
<1>4. SetTask(t, o) /\ task[t].pc = "leaving"
  BY <1>1 DEF ServerLogsOut
<1>5. PICK s : s = task[t].token.login
  OBVIOUS
<1>6. s \in Logins
  BY <1>4, <1>5, TokensTypes DEF Steady, Task, Pair
<1>7. NoneRevived /\ login' \in [Logins -> Session]
  <2>1. login' = [login EXCEPT ![s].live = FALSE]
    BY <1>5 DEF ServerLogsOut
  <2> QED
    BY <1>6, <2>1, TokensTypes DEF NoneRevived, Session
<1>8. /\ UNCHANGED <<flight, memory, stored, screen, reused, died>>
      /\ ready' = ready /\ adrift' = adrift /\ signedOut' = signedOut
  BY DEF ServerLogsOut, credentials, shown, history
<1> QED
  BY <1>2, <1>3, <1>4, <1>7, <1>8, TokensTypes, TidyStep

LEMMA ServedTokens ==
  ASSUME TokensInv, NEW t \in Tasks, Served(t)
  PROVE  TokensInv'
<1>1. /\ task[t].pc = "sent" /\ task[t].token \in Pair
      /\ task[t] \in Task /\ Known(task[t].token)
  BY TokensTypes DEF Served, Task, Steady
<1>2. PICK o : o = IF task[t].op = "logoutAll" THEN [task[t] EXCEPT !.pc = "clearing"] ELSE Ended
  OBVIOUS
<1>3. /\ o \in Task /\ o.pc \in {"clearing", "done"}
      /\ o.token \in {task[t].token, Void} /\ o.answer \in {task[t].answer, Void}
  BY <1>1, <1>2, EndedFacts DEF Task
<1>4. Steady(o) /\ Tidy(o, task[t])
  BY <1>3, TokensTypes DEF Steady, Tidy, Known
<1>5. SetTask(t, o)
  BY <1>2 DEF Served
<1>6. NoneRevived /\ login' \in [Logins -> Session]
  <2>1. CASE login' = login
    BY <2>1, ServerStays
  <2>2. CASE login' = [s \in Logins |-> IF login[s].who = Whose(task[t].token)
                        THEN [login[s] EXCEPT !.live = FALSE] ELSE login[s]]
    <3>1. PICK p : p = Whose(task[t].token)
      OBVIOUS
    <3>2. login' = [s \in Logins |-> IF login[s].who = p
                        THEN [login[s] EXCEPT !.live = FALSE] ELSE login[s]]
      BY <2>2, <3>1
    <3>3. \A s \in Logins : [login[s] EXCEPT !.live = FALSE] \in Session
      BY TokensTypes DEF Session
    <3>4. login' \in [Logins -> Session]
      BY <3>2, <3>3, TokensTypes
    <3> QED
      BY <3>2, <3>4, TokensTypes DEF NoneRevived, Session
  <2> QED
    BY <2>1, <2>2 DEF Served
<1>7. Whose(task[t].token) \in Persons
  BY <1>1, TokensTypes, ClientAssumption DEF Whose, Known, Pair, Session
<1>8. /\ UNCHANGED <<flight, memory, stored, reused, died>>
      /\ screen' \in Persons \cup {Void}
      /\ ready' \in BOOLEAN /\ adrift' = adrift /\ signedOut' = signedOut
  BY <1>7, TokensTypes DEF Served, credentials, history
<1> QED
  BY <1>1, <1>3, <1>4, <1>5, <1>6, <1>8, TokensTypes, TidyStep

LEMMA ClearTokens ==
  ASSUME TokensInv, NEW t \in Tasks, Clear(t)
  PROVE  TokensInv'
<1>1. Tidy(Ended, task[t])
  BY EndedFacts DEF Tidy
<1>2. SetTask(t, Ended) /\ task[t].pc = "clearing"
  BY DEF Clear
<1>3. /\ UNCHANGED <<flight, login, reused, died>>
      /\ screen' = Void /\ memory' = Void /\ stored' = Void
      /\ ready' = ready /\ adrift' \in BOOLEAN /\ signedOut' = TRUE
  BY DEF Clear, Late
<1> QED
  BY <1>1, <1>2, <1>3, EndedFacts, ServerStays, TokensTypes, TidyStep

LEMMA InstallTokens ==
  ASSUME TokensInv, NEW t \in Tasks, Install(t)
  PROVE  TokensInv'
<1>1. PICK x : x = task[t].answer
  OBVIOUS
<1>2. x \in Pair /\ Known(x) /\ Current(x) /\ task[t].pc = "granted"
  BY <1>1, TokensTypes DEF Install, Steady, Task
<1>3. \A g \in Tasks \ {t} : task[g].pc = "granted" => Away(x, task[g].answer.login)
  BY <1>1 DEF TokensInv, Unheard
<1>4. Tame(Ended, task[t], x)
  BY EndedFacts DEF Tame
<1>5. flight # t
  BY <1>2 DEF TokensInv, ClientTypeOK
<1>6. Whose(x) \in Persons
  BY <1>2, TokensTypes, ClientAssumption DEF Whose, Known, Pair, Session
<1>7. /\ SetTask(t, Ended) /\ memory' = x /\ stored' = x /\ screen' = Whose(x)
      /\ UNCHANGED <<flight, login, reused, died>>
      /\ ready' = ready /\ adrift' \in BOOLEAN /\ signedOut' = FALSE
  BY <1>1 DEF Install, Late
<1>8. {ready', adrift', signedOut'} \subseteq BOOLEAN
  BY <1>7, TokensTypes
<1> QED
  BY <1>2, <1>3, <1>4, <1>5, <1>6, <1>7, <1>8, EndedFacts, ServerStays, TokensTypes, TaskStep

LEMMA ServerRotatesTokens ==
  ASSUME TokensInv, NEW t \in Tasks, ServerRotates(t)
  PROVE  TokensInv'
<1>1. PICK x : x = task[t].token
  OBVIOUS
<1>2. x \in Pair /\ Known(x) /\ Current(x) /\ task[t].pc = "refreshing" /\ flight = t
  BY <1>1, TokensTypes DEF ServerRotates, Steady, Task, TokensInv, ClientTypeOK
<1>3. PICK s \in Logins : s = x.login
  BY <1>2 DEF Pair
<1>4. PICK valid \in BOOLEAN : valid <=> login[s].live /\ x.gen = login[s].gen
  OBVIOUS
<1>5. PICK y : y = [x EXCEPT !.gen = @ + 1]
  OBVIOUS
<1>6. PICK o : o = [task[t] EXCEPT !.pc = "answered", !.answer = IF valid THEN y ELSE Void]
  OBVIOUS
<1>7. SetTask(t, o)
  BY <1>1, <1>3, <1>4, <1>5, <1>6 DEF ServerRotates
<1>8. login' = [login EXCEPT ![s] =
         IF valid THEN [login[s] EXCEPT !.gen = @ + 1] ELSE [login[s] EXCEPT !.live = FALSE]]
  BY <1>1, <1>3, <1>4 DEF ServerRotates
<1>9. login[s] \in Session /\ x.gen \in 1..MaxGen /\ MaxGen \in Nat
  BY <1>2, TokensTypes, ClientAssumption DEF Pair
<1>10. valid => login[s].gen < MaxGen
  BY <1>1, <1>3, <1>4 DEF ServerRotates
<1>11. valid => y \in Pair /\ y.login = s /\ y.gen = login[s].gen + 1
  BY <1>2, <1>3, <1>4, <1>5, <1>9, <1>10 DEF Pair, Session
<1>12. /\ login' \in [Logins -> Session] /\ login'[s].who = login[s].who
       /\ login'[s].gen = IF valid THEN login[s].gen + 1 ELSE login[s].gen
       /\ login'[s].live => valid /\ login[s].live
       /\ \A q \in Logins \ {s} : login'[q] = login[q]
  <2>1. CASE valid
    <3>1. PICK n : n = [login[s] EXCEPT !.gen = @ + 1]
      OBVIOUS
    <3>2. n \in Session /\ n.who = login[s].who /\ n.gen = login[s].gen + 1
      BY <1>9, <1>10, <2>1, <3>1 DEF Session
    <3>3. login[s].live
      BY <1>4, <2>1
    <3>4. login' = [login EXCEPT ![s] = n]
      BY <1>8, <2>1, <3>1
    <3> QED
      BY <2>1, <3>2, <3>3, <3>4, TokensTypes
  <2>2. CASE ~valid
    <3>1. PICK n : n = [login[s] EXCEPT !.live = FALSE]
      OBVIOUS
    <3>2. n \in Session /\ n.who = login[s].who /\ n.gen = login[s].gen /\ ~n.live
      BY <1>9, <3>1 DEF Session
    <3>3. login' = [login EXCEPT ![s] = n]
      BY <1>8, <2>2, <3>1
    <3> QED
      BY <2>2, <3>2, <3>3, TokensTypes
  <2> QED
    BY <2>1, <2>2
<1>13. task[t] \in Task /\ task \in [Tasks -> Task]
  BY DEF TokensInv, ClientTypeOK
<1>14. /\ o \in Task /\ o.pc = "answered" /\ o.token = x
       /\ o.answer = IF valid THEN y ELSE Void
  BY <1>1, <1>6, <1>11, <1>13 DEF Task
<1>15. /\ task' \in [Tasks -> Task] /\ task'[t] = o
       /\ \A q \in Tasks \ {t} : task'[q] = task[q]
  BY <1>7, <1>13, <1>14 DEF SetTask
<1>16. UNCHANGED <<flight, memory, stored, screen, ready, died, adrift, signedOut>>
  BY DEF ServerRotates, credentials, shown, history
<1>17. \A z \in Pair \cup {Void} : Known(z) =>
         Known(z)' /\ (z # Void => z.gen <= login'[z.login].gen)
  <2> SUFFICES ASSUME NEW z \in Pair, Known(z), z # Void
               PROVE login'[z.login].who # Void /\ z.gen <= login'[z.login].gen
    BY DEF Known
  <2>1. z.login \in Logins /\ z.gen \in 1..MaxGen /\ login[z.login] \in Session
    BY TokensTypes DEF Pair
  <2> QED
    BY <1>9, <1>12, <2>1 DEF Known, Session
<1>18. \A z \in Pair : Current(z) /\ z.login # s => Current(z)'
  BY <1>12, <1>16 DEF Current, Pair
<1>19. Void \notin Pair
  BY ClientAssumption DEF Pair
<1>20. ClientTypeOK'
  <2>1. reused' \subseteq Logins
    BY <1>1, <1>3 DEF ServerRotates, TokensInv, ClientTypeOK
  <2>2. \A z \in {memory', stored'} \ {Void} : z.gen <= login'[z.login].gen
    BY <1>16, <1>17, TokensTypes
  <2>3. \A q \in Tasks : task'[q].pc \in {"refreshing", "answered"} <=> flight' = q
    BY <1>2, <1>14, <1>15, <1>16 DEF TokensInv, ClientTypeOK
  <2>4. {ready', adrift', signedOut'} \subseteq BOOLEAN
    BY <1>16, TokensTypes, Zenon
  <2> QED
    BY <1>12, <1>15, <1>16, <2>1, <2>2, <2>3, <2>4 DEF TokensInv, ClientTypeOK
<1>21. Known(memory)' /\ Known(stored)'
  <2>1. Known(memory') /\ Known(stored')
    BY <1>16, TokensTypes DEF Known
  <2> QED
    BY <1>16, <1>17, <2>1, TokensTypes DEF Known
<1>22. Kept'
  <2> SUFFICES ASSUME stored' # Void
               PROVE \/ Current(stored)'
                     \/ flight' # Void /\ task'[flight'].pc = "answered"
                          /\ task'[flight'].token.login = stored'.login
    BY DEF Kept
  <2>1. stored \in Pair /\ stored' = stored /\ flight' = t /\ t # Void
    BY <1>2, <1>16, TokensTypes, ClientAssumption
  <2>2. CASE stored.login = s
    BY <1>3, <1>14, <1>15, <2>1, <2>2
  <2>3. CASE stored.login # s
    <3>1. Current(stored)
      BY <1>2, <2>1 DEF TokensInv, Kept
    <3> QED
      BY <1>18, <2>1, <2>3, <3>1 DEF Current
  <2> QED
    BY <2>2, <2>3
<1>23. \A q \in Tasks : Steady(task[q])'
  <2> SUFFICES ASSUME NEW q \in Tasks PROVE Steady(task[q])'
    OBVIOUS
  <2>1. CASE q = t
    <3>1. Known(x)'
      BY <1>2, <1>17
    <3>2. valid => Known(y)' /\ Current(y)'
      BY <1>2, <1>3, <1>9, <1>11, <1>12, <1>19 DEF Known, Current, Session
    <3>3. Steady(o)'
      BY <1>2, <1>3, <1>11, <1>14, <1>19, <3>1, <3>2 DEF Steady, Known
    <3> QED
      BY <1>15, <2>1, <3>3 DEF Steady, Known, Current
  <2>2. CASE q # t
    <3>1. PICK r \in Task : r = task[q] /\ r = task'[q]
      BY <1>15, <2>2, TokensTypes
    <3>2. r.token \in Pair \cup {Void} /\ r.answer \in Pair \cup {Void}
      BY DEF Task
    <3>3. Steady(r) /\ r.pc \notin {"refreshing", "answered"}
      BY <1>2, <2>2, <3>1, TokensTypes DEF TokensInv, ClientTypeOK
    <3>4. r.pc = "granted" => r.answer.login # s
      BY <1>1, <1>2, <1>3, <1>19, <3>1 DEF TokensInv, Unheard, Away
    <3>5. Steady(r)'
      BY <1>17, <1>18, <3>2, <3>3, <3>4 DEF Steady
    <3> QED
      BY <3>1, <3>5 DEF Steady, Known, Current
  <2> QED
    BY <2>1, <2>2
<1>24. Unheard'
  <2> SUFFICES ASSUME NEW g \in Tasks, task'[g].pc = "granted"
               PROVE LET w == task'[g].answer.login IN
                     /\ Away(memory', w) /\ Away(stored', w)
                     /\ \A q \in Tasks : /\ Away(task'[q].token, w)
                                         /\ q # g => Away(task'[q].answer, w)
    BY DEF Unheard, Away
  <2>1. g # t /\ task'[g] = task[g]
    BY <1>14, <1>15
  <2>2. PICK w : w = task[g].answer.login
    OBVIOUS
  <2>3. /\ Away(memory, w) /\ Away(stored, w)
        /\ \A q \in Tasks : Away(task[q].token, w) /\ (q # g => Away(task[q].answer, w))
    BY <2>1, <2>2 DEF TokensInv, Unheard
  <2>4. Away(o.token, w) /\ Away(o.answer, w)
    BY <1>1, <1>2, <1>3, <1>11, <1>14, <1>19, <2>1, <2>3 DEF Away
  <2>5. \A q \in Tasks : Away(task'[q].token, w) /\ (q # g => Away(task'[q].answer, w))
    BY <1>15, <2>3, <2>4
  <2> QED
    BY <1>16, <2>1, <2>2, <2>3, <2>5
<1>25. OnlyDeathMakesReuse'
  <2>1. reused' = IF login[s].live /\ ~valid THEN reused \cup {s} ELSE reused
    BY <1>1, <1>3, <1>4 DEF ServerRotates
  <2>2. login[s].live /\ ~valid => s \in died
    BY <1>2, <1>3, <1>4 DEF Current
  <2> QED
    BY <1>16, <2>1, <2>2 DEF TokensInv, OnlyDeathMakesReuse
<1> QED
  BY <1>20, <1>21, <1>22, <1>23, <1>24, <1>25 DEF TokensInv

LEMMA ServerGrantsTokens ==
  ASSUME TokensInv, NEW t \in Tasks, NEW s \in Logins, NEW p \in Persons,
         ServerGrants(t, s, p)
  PROVE  TokensInv'
<1>1. PICK y : y = [login |-> s, gen |-> 1]
  OBVIOUS
<1>2. PICK o : o = [task[t] EXCEPT !.pc = "granted", !.answer = y]
  OBVIOUS
<1>3. PICK n : n = [who |-> p, gen |-> 1, live |-> TRUE]
  OBVIOUS
<1>4. /\ y \in Pair /\ y.login = s /\ y.gen = 1 /\ Void \notin Pair
      /\ n \in Session /\ n.who = p /\ n.gen = 1 /\ p # Void
  BY <1>1, <1>3, ClientAssumption DEF Pair, Session
<1>5. task[t] \in Task /\ task \in [Tasks -> Task] /\ task[t].pc = "asking" /\ login[s].who = Void
  BY DEF ServerGrants, TokensInv, ClientTypeOK
<1>6. /\ o \in Task /\ o.pc = "granted" /\ o.token = task[t].token /\ o.answer = y
  BY <1>2, <1>4, <1>5 DEF Task
<1>7. /\ task' \in [Tasks -> Task] /\ task'[t] = o
      /\ \A q \in Tasks \ {t} : task'[q] = task[q]
  <2>1. SetTask(t, o)
    BY <1>1, <1>2 DEF ServerGrants
  <2> QED
    BY <1>5, <1>6, <2>1 DEF SetTask
<1>8. /\ login' \in [Logins -> Session] /\ login'[s] = n
      /\ \A q \in Logins \ {s} : login'[q] = login[q]
  BY <1>3, <1>4, TokensTypes DEF ServerGrants
<1>9. UNCHANGED <<flight, memory, stored, screen, ready, reused, died, adrift, signedOut>>
  BY DEF ServerGrants, credentials, shown, history
<1>10. \A z \in Pair : Known(z) =>
         /\ z.login # s /\ Known(z)' /\ z.gen <= login'[z.login].gen
         /\ Current(z) => Current(z)'
  BY <1>4, <1>5, <1>8, <1>9, TokensTypes DEF Known, Current, Pair
<1>11. \A z \in Pair \cup {Void} : Known(z) => Known(z)' /\ Away(z, s)
  BY <1>10 DEF Known, Away
<1>12. ClientTypeOK'
  <2>1. \A z \in {memory', stored'} \ {Void} : z.gen <= login'[z.login].gen
    BY <1>9, <1>10, TokensTypes
  <2>2. \A q \in Tasks : task'[q].pc \in {"refreshing", "answered"} <=> flight' = q
    BY <1>5, <1>6, <1>7, <1>9 DEF TokensInv, ClientTypeOK
  <2>3. {ready', adrift', signedOut'} \subseteq BOOLEAN
    BY <1>9, TokensTypes, Zenon
  <2> QED
    BY <1>7, <1>8, <1>9, <2>1, <2>2, <2>3 DEF TokensInv, ClientTypeOK
<1>13. Known(memory)' /\ Known(stored)' /\ Away(memory', s) /\ Away(stored', s)
  <2>1. PICK m \in Pair \cup {Void}, c \in Pair \cup {Void} : m = memory /\ c = stored
    BY TokensTypes
  <2>2. Known(m) /\ Known(c)
    BY <2>1, TokensTypes DEF Known
  <2>3. Known(m)' /\ Known(c)' /\ Away(m, s) /\ Away(c, s)
    BY <1>11, <2>2
  <2> QED
    BY <1>9, <2>1, <2>3 DEF Known, Away
<1>14. Kept'
  <2>1. CASE stored = Void
    BY <1>9, <2>1 DEF Kept
  <2>2. CASE Current(stored) /\ stored # Void
    <3>1. Current(stored)'
      BY <1>9, <1>10, <2>2, TokensTypes DEF Current
    <3> QED
      BY <3>1 DEF Kept
  <2>3. CASE /\ flight # Void /\ task[flight].pc = "answered"
             /\ task[flight].token.login = stored.login
    <3>1. flight \in Tasks /\ flight # t
      BY <1>5, <2>3, TokensTypes
    <3> QED
      BY <1>7, <1>9, <2>3, <3>1 DEF Kept
  <2> QED
    BY <2>1, <2>2, <2>3 DEF TokensInv, Kept
<1>15. \A q \in Tasks : Steady(task[q])'
  <2> SUFFICES ASSUME NEW q \in Tasks PROVE Steady(task[q])'
    OBVIOUS
  <2>1. CASE q = t
    <3>1. PICK r \in Task : r = task[t]
      BY <1>5
    <3>2. Known(r.token) /\ r.token \in Pair \cup {Void}
      BY <3>1, TokensTypes DEF Steady, Task
    <3>3. Known(o.token)'
      BY <1>6, <1>11, <3>1, <3>2
    <3>4. Known(y)' /\ Current(y)'
      BY <1>4, <1>8 DEF Known, Current
    <3>5. Steady(o)'
      BY <1>4, <1>6, <3>3, <3>4 DEF Steady
    <3> QED
      BY <1>7, <2>1, <3>5 DEF Steady, Known, Current
  <2>2. CASE q # t
    <3>1. PICK r \in Task : r = task[q] /\ r = task'[q]
      BY <1>7, <2>2, TokensTypes
    <3>2. r.token \in Pair \cup {Void} /\ r.answer \in Pair \cup {Void}
      BY DEF Task
    <3>3. Steady(r)
      BY <3>1, TokensTypes
    <3>4. Steady(r)'
      BY <1>10, <1>11, <3>2, <3>3 DEF Steady
    <3> QED
      BY <3>1, <3>4 DEF Steady, Known, Current
  <2> QED
    BY <2>1, <2>2
<1>16. \A q \in Tasks : Away(task'[q].token, s) /\ (q # t => Away(task'[q].answer, s))
  <2> SUFFICES ASSUME NEW q \in Tasks
               PROVE Away(task'[q].token, s) /\ (q # t => Away(task'[q].answer, s))
    OBVIOUS
  <2>1. PICK r \in Task : r = task[q]
    BY TokensTypes
  <2>2. Known(r.token) /\ Known(r.answer) /\ {r.token, r.answer} \subseteq Pair \cup {Void}
    BY <2>1, TokensTypes DEF Steady, Task
  <2>3. Away(r.token, s) /\ Away(r.answer, s)
    BY <1>11, <2>2
  <2> QED
    BY <1>6, <1>7, <2>1, <2>3
<1>17. Unheard'
  <2> SUFFICES ASSUME NEW g \in Tasks, task'[g].pc = "granted"
               PROVE LET w == task'[g].answer.login IN
                     /\ Away(memory', w) /\ Away(stored', w)
                     /\ \A q \in Tasks : /\ Away(task'[q].token, w)
                                         /\ q # g => Away(task'[q].answer, w)
    BY DEF Unheard, Away
  <2>1. CASE g = t
    <3>1. task'[g].answer.login = s
      BY <1>4, <1>6, <1>7, <2>1
    <3> QED
      BY <1>13, <1>16, <2>1, <3>1
  <2>2. CASE g # t
    <3>1. PICK w : w = task[g].answer.login /\ w = task'[g].answer.login
      BY <1>7, <2>2
    <3>2. /\ Away(memory, w) /\ Away(stored, w)
          /\ \A q \in Tasks : Away(task[q].token, w) /\ (q # g => Away(task[q].answer, w))
      BY <1>7, <2>2, <3>1 DEF TokensInv, Unheard
    <3>3. w # s
      <4>1. PICK r \in Task : r = task[g]
        BY TokensTypes
      <4>2. r.pc = "granted" /\ Steady(r) /\ r.answer \in Pair \cup {Void}
        BY <1>7, <2>2, <4>1, TokensTypes DEF Task
      <4> QED
        BY <1>10, <3>1, <4>1, <4>2 DEF Steady
    <3>4. Away(y, w)
      BY <1>4, <3>3 DEF Away
    <3>5. \A q \in Tasks : Away(task'[q].token, w) /\ (q # g => Away(task'[q].answer, w))
      BY <1>6, <1>7, <3>2, <3>4
    <3> QED
      BY <1>9, <3>1, <3>2, <3>5
  <2> QED
    BY <2>1, <2>2
<1> QED
  BY <1>9, <1>12, <1>13, <1>14, <1>15, <1>17 DEF TokensInv, OnlyDeathMakesReuse

\* The refresh in flight is that of t, and it has ended.
LEMMA AnswerFacts ==
  ASSUME TokensInv, NEW t \in Tasks, task[t].pc = "answered"
  PROVE  /\ flight = t
         /\ \A q \in Tasks \ Joined(t) : task[q].pc \notin {"refreshing", "answered"}
<1>1. flight = t
  BY DEF TokensInv, ClientTypeOK
<1> QED
  BY <1>1 DEF TokensInv, ClientTypeOK, Joined

LEMMA ReceiveTokens ==
  ASSUME TokensInv, NEW t \in Tasks, Receive(t)
  PROVE  TokensInv'
<1>1. PICK x : x = task[t].answer
  OBVIOUS
<1>2. x \in Pair /\ Known(x) /\ Current(x) /\ task[t].pc = "answered"
  BY <1>1, TokensTypes DEF Receive, Steady, Task
<1>3. task' = [q \in Tasks |-> IF q \in Joined(t) THEN Resume(task[q], TRUE, x) ELSE task[q]]
  BY <1>1 DEF Receive
<1>4. \A q \in Tasks : IF q \in Joined(t)
        THEN /\ task'[q] \in Task /\ task'[q].pc = "sent" /\ task'[q].token = x
             /\ task'[q].answer = Void
        ELSE task'[q] = task[q]
  <2> SUFFICES ASSUME NEW q \in Tasks
               PROVE IF q \in Joined(t)
        THEN /\ task'[q] \in Task /\ task'[q].pc = "sent" /\ task'[q].token = x
             /\ task'[q].answer = Void
        ELSE task'[q] = task[q]
    OBVIOUS
  <2>1. PICK r \in Task : r = task[q]
    BY TokensTypes
  <2>2. PICK o : o = Resume(r, TRUE, x)
    OBVIOUS
  <2>3. task'[q] = IF q \in Joined(t) THEN o ELSE task[q]
    BY <1>3, <2>1, <2>2
  <2>4. o \in Task /\ o.pc = "sent" /\ o.token = x /\ o.answer = Void
    BY <1>2, <2>2, ResumeFacts
  <2> QED
    BY <2>3, <2>4
<1>5. /\ memory' = x /\ stored' = x /\ flight' = Void
      /\ UNCHANGED <<screen, ready, login, reused, died, adrift, signedOut>>
  BY <1>1 DEF Receive, shown, history
<1>6. ClientTypeOK'
  <2>1. task' \in [Tasks -> Task]
    BY <1>3, <1>4, TokensTypes
  <2>2. \A q \in Tasks : task'[q].pc \in {"refreshing", "answered"} <=> flight' = q
    BY <1>2, <1>4, <1>5, AnswerFacts, ClientAssumption
  <2>3. \A z \in {memory', stored'} \ {Void} : z.gen <= login'[z.login].gen
    BY <1>2, <1>5 DEF Known
  <2>4. {ready', adrift', signedOut'} \subseteq BOOLEAN
    BY <1>5, TokensTypes, Zenon
  <2> QED
    BY <1>2, <1>5, <2>1, <2>2, <2>3, <2>4 DEF TokensInv, ClientTypeOK
<1>7. \A g \in Tasks : task[g].pc = "granted" /\ task'[g].pc = "granted" =>
         Away(x, task[g].answer.login)
  BY <1>1, <1>2 DEF TokensInv, Unheard
<1>8. \A q \in Tasks : task'[q] = task[q] \/ (Steady(task'[q]) /\ Tame(task'[q], task[q], x))
  BY <1>2, <1>4 DEF Steady, Tame, Known
<1>9. NoneRevived
  BY <1>5, ServerStays
<1> QED
  BY <1>2, <1>5, <1>6, <1>7, <1>8, <1>9, MoveStep

LEMMA GiveUpTokens ==
  ASSUME TokensInv, NEW t \in Tasks, GiveUp(t)
  PROVE  TokensInv'
<1>1. PICK x : x = Void
  OBVIOUS
<1>2. x \in Pair \cup {Void} /\ Known(x) /\ \A s : Away(x, s)
  BY <1>1 DEF Known, Away
<1>3. task' = [q \in Tasks |-> IF q \in Joined(t) THEN Resume(task[q], FALSE, Void) ELSE task[q]]
  BY DEF GiveUp
<1>4. \A q \in Tasks : IF q \in Joined(t)
        THEN /\ task'[q] \in Task /\ task'[q].pc \in {"clearing", "done"}
             /\ task'[q].token \in {task[q].token, Void} /\ task'[q].answer = Void
        ELSE task'[q] = task[q]
  <2> SUFFICES ASSUME NEW q \in Tasks
               PROVE IF q \in Joined(t)
        THEN /\ task'[q] \in Task /\ task'[q].pc \in {"clearing", "done"}
             /\ task'[q].token \in {task[q].token, Void} /\ task'[q].answer = Void
        ELSE task'[q] = task[q]
    OBVIOUS
  <2>1. PICK r \in Task : r = task[q]
    BY TokensTypes
  <2>2. PICK o : o = Resume(r, FALSE, Void)
    OBVIOUS
  <2>3. task'[q] = IF q \in Joined(t) THEN o ELSE task[q]
    BY <1>3, <2>1, <2>2
  <2>4. /\ o \in Task /\ o.pc \in {"clearing", "done"}
        /\ o.token \in {r.token, Void} /\ o.answer = Void
    BY <2>2, ResumeFacts
  <2> QED
    BY <2>1, <2>3, <2>4
<1>5. /\ memory' = Void /\ stored' = Void /\ flight' = Void /\ screen' = Void
      /\ UNCHANGED <<login, reused, died>> /\ task[t].pc = "answered"
      /\ ready' \in BOOLEAN /\ adrift' \in BOOLEAN /\ signedOut' = signedOut
  BY TokensTypes DEF GiveUp
<1>6. ClientTypeOK'
  <2>1. task' \in [Tasks -> Task]
    BY <1>3, <1>4, TokensTypes
  <2>2. \A q \in Tasks : task'[q].pc \in {"refreshing", "answered"} <=> flight' = q
    BY <1>4, <1>5, AnswerFacts, ClientAssumption
  <2>3. {ready', adrift', signedOut'} \subseteq BOOLEAN
    BY <1>5, TokensTypes
  <2> QED
    BY <1>5, <2>1, <2>2, <2>3 DEF TokensInv, ClientTypeOK
<1>7. \A q \in Tasks : task'[q] = task[q] \/ (Steady(task'[q]) /\ Tame(task'[q], task[q], x))
  <2> SUFFICES ASSUME NEW q \in Tasks, q \in Joined(t)
               PROVE Steady(task'[q]) /\ Tame(task'[q], task[q], x)
    BY <1>4
  <2>1. PICK r, o : r = task[q] /\ o = task'[q]
    OBVIOUS
  <2>2. /\ o.pc \in {"clearing", "done"} /\ o.token \in {r.token, Void} /\ o.answer = Void
        /\ Known(r.token)
    BY <1>4, <2>1, TokensTypes DEF Steady
  <2> QED
    BY <2>1, <2>2 DEF Steady, Tame, Known
<1>8. NoneRevived
  BY <1>5, ServerStays
<1> QED
  BY <1>1, <1>2, <1>5, <1>6, <1>7, <1>8, MoveStep

LEMMA RelaunchTokens ==
  ASSUME TokensInv, Relaunch
  PROVE  TokensInv'
<1>1. PICK x : x = Void
  OBVIOUS
<1>2. x \in Pair \cup {Void} /\ Known(x) /\ \A s : Away(x, s)
  BY <1>1 DEF Known, Away
<1>3. task' \in [Tasks -> Task] /\ \A q \in Tasks : task'[q] \in {NoTask, Ended}
  BY EndedFacts DEF Relaunch
<1>4. /\ memory' = Void /\ stored' = stored /\ flight' = Void /\ screen' = Void
      /\ UNCHANGED <<login, reused>>
      /\ ready' = FALSE /\ adrift' = FALSE /\ signedOut' = FALSE
  BY DEF Relaunch
<1>5. /\ died \subseteq died' /\ died' \subseteq Logins
      /\ \A q \in Tasks : task[q].pc = "answered" => task[q].token.login \in died'
  <2>1. CASE flight = Void
    BY <2>1, ClientAssumption DEF Relaunch, TokensInv, ClientTypeOK
  <2>2. CASE flight # Void
    <3>1. PICK r \in Task : flight \in Tasks /\ r = task[flight]
      BY <2>2, TokensTypes
    <3>2. r.pc \in {"refreshing", "answered"} /\ Steady(r)
      BY <3>1, TokensTypes DEF TokensInv, ClientTypeOK
    <3>3. r.token.login \in Logins
      BY <3>2 DEF Steady, Task, Pair
    <3>4. died' = died \cup {r.token.login}
      BY <2>2, <3>1 DEF Relaunch
    <3> QED
      BY <3>1, <3>3, <3>4 DEF TokensInv, ClientTypeOK
  <2> QED
    BY <2>1, <2>2
<1>6. ClientTypeOK'
  <2>1. \A q \in Tasks : task'[q].pc \in {"refreshing", "answered"} <=> flight' = q
    BY <1>3, <1>4, EndedFacts, ClientAssumption
  <2>2. \A z \in {memory', stored'} \ {Void} : z.gen <= login'[z.login].gen
    BY <1>4 DEF TokensInv, ClientTypeOK
  <2>3. {ready', adrift', signedOut'} \subseteq BOOLEAN
    BY <1>4, Zenon
  <2> QED
    BY <1>3, <1>4, <1>5, <2>1, <2>2, <2>3 DEF TokensInv, ClientTypeOK
<1>7. \A q \in Tasks : Steady(task'[q]) /\ Tame(task'[q], task[q], x)
  <2> SUFFICES ASSUME NEW q \in Tasks PROVE Steady(task'[q]) /\ Tame(task'[q], task[q], x)
    OBVIOUS
  <2>1. PICK o \in {NoTask, Ended} : o = task'[q]
    BY <1>3
  <2>2. Steady(o) /\ o.token = Void /\ o.answer = Void /\ o.pc \in {"idle", "done"}
    BY <2>1, EndedFacts
  <2> QED
    BY <2>1, <2>2 DEF Steady, Tame
<1>8. NoneRevived
  BY <1>4, ServerStays
<1> QED
  BY <1>1, <1>2, <1>4, <1>5, <1>6, <1>7, <1>8, MoveStep

LEMMA TokensStutter ==
  ASSUME TokensInv, UNCHANGED clientVars
  PROVE  TokensInv'
<1>1. UNCHANGED <<memory, stored, flight, screen, ready, task, login, reused, died, adrift, signedOut>>
  BY DEF clientVars, credentials, shown, history
<1>2. ClientTypeOK' /\ Known(memory)' /\ Known(stored)' /\ Kept' /\ Unheard'
  BY <1>1 DEF TokensInv, ClientTypeOK, Known, Kept, Unheard, Current, Away
<1>3. \A t \in Tasks : Steady(task[t])'
  BY <1>1 DEF TokensInv, Steady, Known, Current
<1> QED
  BY <1>1, <1>2, <1>3 DEF TokensInv, OnlyDeathMakesReuse

LEMMA TokensNext == TokensInv /\ [ClientNext]_clientVars => TokensInv'
<1> SUFFICES ASSUME TokensInv, [ClientNext]_clientVars PROVE TokensInv'
  OBVIOUS
<1>1. CASE \E t \in Tasks :
         \/ \E op \in {"call", "update", "logoutAll"} : BeginCall(t, op)
         \/ BeginRestore(t) \/ BeginLogin(t) \/ BeginLogout(t)
         \/ ServerRotates(t) \/ RefreshIsLost(t) \/ Receive(t) \/ GiveUp(t)
         \/ Served(t) \/ Unauthorized(t) \/ CallFails(t)
         \/ \E s \in Logins, p \in Persons : ServerGrants(t, s, p)
         \/ LoginFails(t) \/ Install(t)
         \/ ServerLogsOut(t) \/ LogoutIsLost(t) \/ Clear(t)
  BY <1>1, BeginCallTokens, BeginRestoreTokens, BeginLoginTokens, BeginLogoutTokens,
     ServerRotatesTokens, RefreshIsLostTokens, ReceiveTokens, GiveUpTokens, ServedTokens,
     UnauthorizedTokens, CallFailsTokens, ServerGrantsTokens, LoginFailsTokens,
     InstallTokens, ServerLogsOutTokens, LogoutIsLostTokens, ClearTokens
<1>2. CASE Relaunch
  BY <1>2, RelaunchTokens
<1>3. CASE UNCHANGED clientVars
  BY <1>3, TokensStutter
<1> QED
  BY <1>1, <1>2, <1>3 DEF ClientNext

LEMMA InvariantOfTokens == ClientSpec => []TokensInv
BY TokensInit, TokensNext, PTL DEF ClientSpec

-----------------------------------------------------------------------------
(* The screens.                                                            *)

LEMMA ScreensInit == ClientInit => ScreensInv
<1> SUFFICES ASSUME ClientInit PROVE ScreensInv
  OBVIOUS
<1>1. \A t \in Tasks : task[t].op = Void /\ task[t].pc = "idle"
  BY EndedFacts DEF ClientInit
<1>2. \A t \in Tasks : Control(task[t])
  BY <1>1, ClientAssumption DEF Control
<1>3. Starting /\ Alone
  BY <1>1, ClientAssumption DEF ClientInit, Starting, Alone
<1>4. Settled
  BY <1>1, ClientAssumption DEF ClientInit, Settled
<1>5. CredentialsFollowTheUser
  BY ClientAssumption DEF ClientInit, CredentialsFollowTheUser, Whose
<1> QED
  BY <1>2, <1>3, <1>4, <1>5 DEF ScreensInv

\* The task of the flight asks for a refresh, and while the app starts it is
\* that of the restore.
LEMMA FlightFacts ==
  ASSUME TokensInv, ScreensInv, flight # Void
  PROVE  /\ flight \in Tasks /\ task[flight].pc \in {"refreshing", "answered"}
         /\ ~ready => task[flight].op = "restore"
<1>1. flight \in Tasks /\ task[flight].pc \in {"refreshing", "answered"}
  BY DEF TokensInv, ClientTypeOK
<1> QED
  BY <1>1, ClientAssumption DEF ScreensInv, Control, Starting

NoneRenamed ==
  \A x \in Pair : Known(x) => login'[x.login].who = login[x.login].who

\* One task goes on, and neither the tokens nor the user shown change.
LEMMA QuietStep ==
  ASSUME TokensInv, ScreensInv, NEW t \in Tasks, NEW r \in Task, SetTask(t, r),
         NoneRenamed, UNCHANGED <<memory, stored, screen, adrift, signedOut>>,
         Control(r), Known(r.token),
         ready' \in BOOLEAN, ready => ready',
         ready' # ready => \A q \in Tasks \ {t} : task[q].op # "restore",
         r.op = "restore" => ~ready' /\ r.pc # "sent",
         r.op \in {"restore", "login"} => \A q \in Tasks \ {t} : task[q].op # r.op,
         ~ready' => r.op \in {Void, "restore"},
         ~adrift /\ r.op = "update" =>
           screen # Void /\ (r.pc = "sent" => r.token # Void /\ Whose(r.token) = screen),
         ~adrift /\ r.op = "login" => screen = Void,
         \/ flight' = Void
         \/ flight' = flight /\ flight # t
         \/ flight' = t /\ (~adrift => r.token = stored /\ ~signedOut)
  PROVE  ScreensInv'
<1>1. /\ task'[t] = r /\ \A q \in Tasks \ {t} : task'[q] = task[q]
  BY DEF SetTask, TokensInv, ClientTypeOK
<1>2. \A q \in Tasks : Control(task[q])'
  <2>1. Control(r)' /\ \A q \in Tasks : Control(task[q])
    BY DEF Control, ScreensInv
  <2> QED
    BY <1>1, <2>1 DEF Control
<1>3. Starting'
  BY <1>1 DEF ScreensInv, Starting
<1>4. Alone'
  <2>1. \A q \in Tasks : task'[q].op = "restore" => ~ready'
    BY <1>1 DEF ScreensInv, Alone
  <2>2. \A p, q \in Tasks :
          task'[p].op = task'[q].op /\ task'[p].op \in {"restore", "login"} => p = q
    BY <1>1 DEF ScreensInv, Alone
  <2> QED
    BY <2>1, <2>2 DEF Alone
<1>5. ~adrift => (flight' # Void => ~signedOut /\ task'[flight'].token = stored)
  <2>1. flight \in Tasks \cup {Void}
    BY TokensTypes
  <2> QED
    BY <1>1, <2>1 DEF ScreensInv, Settled
<1>6. \A x \in Pair : Known(x) => Whose(x)' = Whose(x)
  BY DEF NoneRenamed, Whose
<1>7. \A q \in Tasks : task[q].token \in Pair \cup {Void} /\ Known(task[q].token)
  BY TokensTypes DEF Task, Steady
<1>8. ASSUME ~adrift, NEW q \in Tasks, task'[q].op = "update"
      PROVE  screen # Void /\ (task'[q].pc = "sent" =>
               task'[q].token # Void /\ login'[task'[q].token.login].who = screen)
  <2>1. PICK y : y = task'[q].token
    OBVIOUS
  <2>2. CASE q = t
    <3>1. y = r.token /\ r.token \in Pair \cup {Void} /\ r.op = "update"
            /\ task'[q].pc = r.pc
      BY <1>1, <1>8, <2>1, <2>2 DEF Task
    <3>2. screen # Void /\ (r.pc = "sent" => y # Void /\ Whose(y) = screen)
      BY <1>8, <3>1
    <3>3. Known(y)
      BY <3>1
    <3>4. r.pc = "sent" => Whose(y)' = screen
      BY <1>6, <3>1, <3>2, <3>3
    <3> QED
      BY <2>1, <3>1, <3>2, <3>4 DEF Whose
  <2>3. CASE q # t
    <3>1. y = task[q].token /\ task'[q] = task[q]
      BY <1>1, <2>1, <2>3
    <3>2. screen # Void /\ (task[q].pc = "sent" => y # Void /\ Whose(y) = screen)
      BY <1>8, <3>1 DEF ScreensInv, Settled
    <3>3. Known(y) /\ y \in Pair \cup {Void}
      BY <1>7, <3>1
    <3>4. task[q].pc = "sent" => Whose(y)' = screen
      BY <1>6, <3>2, <3>3
    <3> QED
      BY <2>1, <3>1, <3>2, <3>4 DEF Whose
  <2> QED
    BY <2>2, <2>3
<1>9. ~adrift => \A q \in Tasks : task'[q].op = "login" => screen = Void
  BY <1>1 DEF ScreensInv, Settled
<1>10. Settled'
  BY <1>5, <1>8, <1>9 DEF Settled, Whose
<1>11. CredentialsFollowTheUser'
  <2> SUFFICES ASSUME ready', ~adrift
               PROVE  /\ screen # Void => stored # Void /\ memory = stored
                                           /\ Whose(stored)' = screen
                      /\ signedOut => memory = Void /\ stored = Void
    BY DEF CredentialsFollowTheUser, Whose
  <2>1. CASE ready
    <3>1. PICK y \in Pair \cup {Void} : y = stored
      BY TokensTypes
    <3>2. /\ screen # Void => y # Void /\ memory = y /\ Whose(y) = screen
          /\ signedOut => memory = Void /\ stored = Void
      BY <2>1, <3>1 DEF ScreensInv, CredentialsFollowTheUser
    <3>3. Known(y)
      BY <3>1, TokensTypes
    <3>4. screen # Void => Whose(y)' = screen
      BY <1>6, <3>2, <3>3
    <3> QED
      BY <3>1, <3>2, <3>4 DEF Whose
  <2>2. CASE ~ready
    BY <2>2 DEF ScreensInv, Starting
  <2> QED
    BY <2>1, <2>2
<1> QED
  BY <1>2, <1>3, <1>4, <1>10, <1>11 DEF ScreensInv

LEMMA ScreensFacts ==
  ASSUME TokensInv, ScreensInv
  PROVE  /\ \A q \in Tasks : Control(task[q])
         /\ screen # Void => ready
         /\ ~ready => \A q \in Tasks : task[q].op \in {Void, "restore"}
         /\ \A q \in Tasks : task[q].op = "restore" => ~ready
         /\ ~adrift /\ screen # Void =>
              stored # Void /\ memory = stored /\ Whose(stored) = screen
         /\ ~adrift /\ signedOut => stored = Void /\ memory = Void
         /\ ~adrift => \A q \in Tasks : task[q].op = "update" => screen # Void
BY DEF ScreensInv, Starting, Alone, Settled, CredentialsFollowTheUser

LEMMA NamesStay ==
  ASSUME TokensInv, login' = login \/ NoneRevived
  PROVE  NoneRenamed
BY DEF NoneRenamed, NoneRevived, Pair

LEMMA RefreshScreens ==
  ASSUME TokensInv, ScreensInv, NEW t \in Tasks, NEW r \in Task, Refresh(t, r),
         UNCHANGED <<credentials, screen, login, reused, history>>,
         r.op \in {"call", "update", "logoutAll", "restore"}, Known(r.token), flight # t,
         r.op = "restore" => ~ready /\ \A q \in Tasks \ {t} : task[q].op # "restore",
         ~ready => r.op = "restore",
         ~adrift /\ r.op = "update" => screen # Void
  PROVE  ScreensInv'
<1>1. NoneRenamed /\ UNCHANGED <<memory, stored, screen, adrift, signedOut>>
  BY NamesStay DEF credentials, history
<1>2. CASE flight # Void /\ SetTask(t, [r EXCEPT !.pc = "waiting"]) /\ UNCHANGED <<flight, ready>>
  <2>1. PICK o : o = [r EXCEPT !.pc = "waiting"]
    OBVIOUS
  <2>2. o \in Task /\ o.pc = "waiting" /\ o.token = r.token /\ o.op = r.op
    BY <2>1 DEF Task
  <2>3. r.op # "restore" /\ ready
    BY <1>2, FlightFacts
  <2>4. Control(o) /\ SetTask(t, o)
    BY <1>2, <2>1, <2>2, <2>3, ClientAssumption DEF Control
  <2> QED
    BY <1>1, <1>2, <2>2, <2>3, <2>4, QuietStep
<1>3. CASE SetTask(t, Resume(r, FALSE, Void)) /\ ready' = (ready \/ r.op = "restore")
             /\ flight' = flight
  <2>1. PICK o : o = Resume(r, FALSE, Void)
    OBVIOUS
  <2>2. /\ o \in Task /\ o.token \in {r.token, Void}
        /\ \/ r.op = "logoutAll" /\ o.op = r.op /\ o.pc = "clearing"
           \/ r.op # "logoutAll" /\ o.op = Void /\ o.pc = "done"
    BY <2>1, ResumeFails
  <2>3. Control(o) /\ SetTask(t, o) /\ Known(o.token)
    BY <1>3, <2>1, <2>2, ClientAssumption DEF Control, Known
  <2>4. ready' \in BOOLEAN /\ ready' /\ (ready' # ready => r.op = "restore")
    BY <1>3, TokensTypes
  <2>5. o.op \notin {"restore", "login", "update"}
    BY <2>2, ClientAssumption
  <2> QED
    BY <1>1, <1>3, <2>2, <2>3, <2>4, <2>5, QuietStep
<1>4. CASE /\ flight = Void /\ stored # Void /\ flight' = t
           /\ SetTask(t, [r EXCEPT !.pc = "refreshing", !.token = stored])
           /\ UNCHANGED ready
  <2>1. PICK o : o = [r EXCEPT !.pc = "refreshing", !.token = stored]
    OBVIOUS
  <2>2. o \in Task /\ o.pc = "refreshing" /\ o.token = stored /\ o.op = r.op
    BY <2>1, TokensTypes DEF Task
  <2>3. Control(o) /\ SetTask(t, o) /\ Known(o.token)
    BY <1>4, <2>1, <2>2, TokensTypes, ClientAssumption DEF Control
  <2>4. ~adrift => ~signedOut
    BY <1>4, ScreensFacts
  <2> QED
    BY <1>1, <1>4, <2>2, <2>3, <2>4, TokensTypes, QuietStep
<1> QED
  BY <1>2, <1>3, <1>4 DEF Refresh

LEMMA BeginRestoreScreens ==
  ASSUME TokensInv, ScreensInv, NEW t \in Tasks, BeginRestore(t)
  PROVE  ScreensInv'
<1>1. PICK r : r = [NoTask EXCEPT !.op = "restore"]
  OBVIOUS
<1>2. r \in Task /\ r.op = "restore" /\ r.token = Void
  BY <1>1 DEF NoTask, Task
<1>3. Known(r.token) /\ flight # t /\ ~ready
  BY <1>2 DEF Known, BeginRestore, TokensInv, ClientTypeOK
<1>4. \A q \in Tasks : task[q].op # "restore"
  BY DEF BeginRestore, Doing
<1> QED
  BY <1>1, <1>2, <1>3, <1>4, RefreshScreens DEF BeginRestore

LEMMA UnauthorizedScreens ==
  ASSUME TokensInv, ScreensInv, NEW t \in Tasks, Unauthorized(t)
  PROVE  ScreensInv'
<1>1. PICK r : r = [task[t] EXCEPT !.retried = TRUE]
  OBVIOUS
<1>2. r \in Task /\ r.op = task[t].op /\ r.token = task[t].token /\ task[t].pc = "sent"
  BY <1>1, TokensTypes DEF Task, Unauthorized
<1>3. Known(r.token) /\ flight # t
  BY <1>2, TokensTypes DEF Steady, TokensInv, ClientTypeOK
<1>4. r.op \in {"call", "update", "logoutAll", "restore"}
  BY <1>2, ScreensFacts DEF Control
<1>5. r.op = "restore" => ~ready /\ \A q \in Tasks \ {t} : task[q].op # "restore"
  BY <1>2 DEF ScreensInv, Alone
<1>6. ~ready => r.op = "restore"
  BY <1>2, <1>4, ScreensFacts, ClientAssumption
<1>7. ~adrift /\ r.op = "update" => screen # Void
  BY <1>2, ScreensFacts
<1> QED
  BY <1>1, <1>2, <1>3, <1>4, <1>5, <1>6, <1>7, RefreshScreens DEF Unauthorized

LEMMA BeginCallScreens ==
  ASSUME TokensInv, ScreensInv, NEW t \in Tasks, NEW op \in {"call", "update", "logoutAll"},
         BeginCall(t, op)
  PROVE  ScreensInv'
<1>1. PICK o : o = [NoTask EXCEPT !.pc = "sent", !.op = op, !.token = memory]
  OBVIOUS
<1>2. o \in Task /\ o.pc = "sent" /\ o.token = memory /\ o.op = op
  BY <1>1, TokensTypes DEF NoTask, Task
<1>3. Control(o) /\ Known(o.token) /\ op \notin {"restore", "login", Void}
  BY <1>2, TokensTypes, ClientAssumption DEF Control
<1>4. SetTask(t, o) /\ screen # Void /\ flight # t
  BY <1>1 DEF BeginCall, Onward, TokensInv, ClientTypeOK
<1>5. UNCHANGED <<flight, memory, stored, screen, ready, login, adrift, signedOut>>
  BY DEF BeginCall, Onward, credentials, shown, history
<1>6. ready /\ (~adrift => memory # Void /\ Whose(memory) = screen)
  BY <1>4, ScreensFacts
<1> QED
  BY <1>2, <1>3, <1>4, <1>5, <1>6, NamesStay, TokensTypes, QuietStep

LEMMA BeginLoginScreens ==
  ASSUME TokensInv, ScreensInv, NEW t \in Tasks, BeginLogin(t)
  PROVE  ScreensInv'
<1>1. PICK o : o = [NoTask EXCEPT !.pc = "asking", !.op = "login"]
  OBVIOUS
<1>2. o \in Task /\ o.pc = "asking" /\ o.token = Void /\ o.op = "login"
  BY <1>1 DEF NoTask, Task
<1>3. Control(o) /\ Known(o.token)
  BY <1>2, ClientAssumption DEF Control, Known
<1>4. /\ SetTask(t, o) /\ screen = Void /\ ready /\ flight # t
      /\ \A q \in Tasks : task[q].op # "login"
  BY <1>1 DEF BeginLogin, Doing, Onward, TokensInv, ClientTypeOK
<1>5. UNCHANGED <<flight, memory, stored, screen, ready, login, adrift, signedOut>>
  BY DEF BeginLogin, Onward, credentials, shown, history
<1> QED
  BY <1>2, <1>3, <1>4, <1>5, NamesStay, TokensTypes, QuietStep

LEMMA BeginLogoutScreens ==
  ASSUME TokensInv, ScreensInv, NEW t \in Tasks, BeginLogout(t)
  PROVE  ScreensInv'
<1>1. PICK pc \in {"clearing", "leaving"} :
        pc = IF stored = Void THEN "clearing" ELSE "leaving"
  OBVIOUS
<1>2. PICK o : o = [NoTask EXCEPT !.pc = pc, !.op = "logout", !.token = stored]
  OBVIOUS
<1>3. o \in Task /\ o.pc = pc /\ o.token = stored /\ o.op = "logout"
  BY <1>2, TokensTypes DEF NoTask, Task
<1>4. Control(o) /\ Known(o.token)
  BY <1>1, <1>3, TokensTypes, ClientAssumption DEF Control
<1>5. SetTask(t, o) /\ screen # Void /\ flight # t
  BY <1>1, <1>2 DEF BeginLogout, Onward, TokensInv, ClientTypeOK
<1>6. UNCHANGED <<flight, memory, stored, screen, ready, login, adrift, signedOut>>
  BY DEF BeginLogout, Onward, credentials, shown, history
<1>7. ready
  BY <1>5, ScreensFacts
<1> QED
  BY <1>3, <1>4, <1>5, <1>6, <1>7, NamesStay, TokensTypes, QuietStep

\* A task that goes on with the call it makes.
LEMMA SameCallScreens ==
  ASSUME TokensInv, ScreensInv, NEW t \in Tasks, NEW r \in Task, SetTask(t, r),
         NoneRenamed, UNCHANGED <<flight, memory, stored, screen, ready, adrift, signedOut>>,
         Control(r), r.pc # "sent", r.op = task[t].op, r.token = task[t].token
  PROVE  ScreensInv'
<1>1. Known(r.token) /\ ready \in BOOLEAN
  BY TokensTypes DEF Steady
<1>2. r.op = "restore" => ~ready
  BY ScreensFacts
<1>3. r.op \in {"restore", "login"} => \A q \in Tasks \ {t} : task[q].op # r.op
  BY DEF ScreensInv, Alone
<1>4. ~ready => r.op \in {Void, "restore"}
  BY ScreensFacts
<1>5. ~adrift /\ r.op = "update" => screen # Void
  BY ScreensFacts
<1>6. ~adrift /\ r.op = "login" => screen = Void
  BY DEF ScreensInv, Settled
<1>7. \/ flight' = Void
      \/ flight' = flight /\ flight # t
      \/ flight' = t /\ (~adrift => r.token = stored /\ ~signedOut)
  BY DEF ScreensInv, Settled
<1> QED
  BY <1>1, <1>2, <1>3, <1>4, <1>5, <1>6, <1>7, QuietStep

LEMMA ServerRotatesScreens ==
  ASSUME TokensInv, ScreensInv, NEW t \in Tasks, ServerRotates(t)
  PROVE  ScreensInv'
<1>1. PICK x : x = task[t].token
  OBVIOUS
<1>2. PICK valid \in BOOLEAN : valid <=> login[x.login].live /\ x.gen = login[x.login].gen
  OBVIOUS
<1>3. PICK y : y = IF valid THEN [x EXCEPT !.gen = @ + 1] ELSE Void
  OBVIOUS
<1>4. PICK o : o = [task[t] EXCEPT !.pc = "answered", !.answer = y]
  OBVIOUS
<1>5. task[t] \in Task /\ x \in Pair /\ task[t].pc = "refreshing"
  BY <1>1, TokensTypes DEF ServerRotates, Steady, Task
<1>6. y \in Pair \cup {Void}
  <2>1. CASE ~valid
    BY <1>3, <2>1
  <2>2. CASE valid
    <3>1. PICK s \in Logins, g \in 1..MaxGen : x.login = s /\ x.gen = g
      BY <1>5 DEF Pair
    <3>2. g < MaxGen
      BY <1>1, <1>2, <2>2, <3>1 DEF ServerRotates
    <3>3. g + 1 \in 1..MaxGen
      BY <3>1, <3>2, ClientAssumption
    <3>4. y = [x EXCEPT !.gen = g + 1]
      BY <1>3, <2>2, <3>1
    <3> QED
      BY <1>5, <3>3, <3>4 DEF Pair
  <2> QED
    BY <2>1, <2>2
<1>7. /\ o \in Task /\ o.pc = "answered" /\ o.op = task[t].op /\ o.token = task[t].token
      /\ SetTask(t, o)
  <2>1. SetTask(t, o)
    BY <1>1, <1>2, <1>3, <1>4 DEF ServerRotates
  <2> QED
    BY <1>4, <1>5, <1>6, <2>1 DEF Task
<1>8. Control(o)
  <2>1. Control(task[t])
    BY ScreensFacts
  <2> QED
    BY <1>5, <1>7, <2>1 DEF Control
<1>9. NoneRenamed
  <2>1. PICK s \in Logins : s = x.login
    BY <1>5 DEF Pair
  <2>2. PICK n : n = IF valid THEN [login[s] EXCEPT !.gen = @ + 1]
                      ELSE [login[s] EXCEPT !.live = FALSE]
    OBVIOUS
  <2>3. n.who = login[s].who
    <3>1. login[s] \in Session
      BY TokensTypes
    <3>2. CASE valid
      BY <2>2, <3>1, <3>2 DEF Session
    <3>3. CASE ~valid
      <4>1. n = [login[s] EXCEPT !.live = FALSE]
        BY <2>2, <3>3
      <4> QED
        BY <3>1, <4>1 DEF Session
    <3> QED
      BY <3>2, <3>3
  <2>4. login' = [login EXCEPT ![s] = n]
    BY <1>1, <1>2, <2>1, <2>2 DEF ServerRotates
  <2> QED
    BY <2>3, <2>4, TokensTypes DEF NoneRenamed, Pair
<1> QED
  BY <1>7, <1>8, <1>9, SameCallScreens DEF ServerRotates, credentials, shown, history

LEMMA RefreshIsLostScreens ==
  ASSUME TokensInv, ScreensInv, NEW t \in Tasks, RefreshIsLost(t)
  PROVE  ScreensInv'
<1>1. PICK o : o = [task[t] EXCEPT !.pc = "answered", !.answer = Void]
  OBVIOUS
<1>2. /\ o \in Task /\ o.pc = "answered" /\ o.token = task[t].token /\ o.op = task[t].op
      /\ task[t].pc \in {"refreshing", "answered"}
  BY <1>1, TokensTypes DEF Task, RefreshIsLost
<1>3. Control(o)
  <2>1. Control(task[t])
    BY ScreensFacts
  <2> QED
    BY <1>2, <2>1 DEF Control
<1>4. /\ SetTask(t, o)
      /\ UNCHANGED <<flight, memory, stored, screen, ready, login, adrift, signedOut>>
  BY <1>1 DEF RefreshIsLost, Onward, credentials, shown, history
<1> QED
  BY <1>2, <1>3, <1>4, NamesStay, SameCallScreens

LEMMA ServerGrantsScreens ==
  ASSUME TokensInv, ScreensInv, NEW t \in Tasks, NEW s \in Logins, NEW p \in Persons,
         ServerGrants(t, s, p)
  PROVE  ScreensInv'
<1>1. PICK y : y = [login |-> s, gen |-> 1]
  OBVIOUS
<1>2. y \in Pair
  BY <1>1, ClientAssumption DEF Pair
<1>3. PICK o : o = [task[t] EXCEPT !.pc = "granted", !.answer = y]
  OBVIOUS
<1>4. /\ o \in Task /\ o.pc = "granted" /\ o.op = task[t].op /\ o.token = task[t].token
      /\ task[t].pc = "asking"
  BY ZenonT(60), <1>2, <1>3, TokensTypes DEF Task, ServerGrants
<1>5. Control(o)
  <2>1. Control(task[t])
    BY ScreensFacts
  <2> QED
    BY <1>4, <2>1 DEF Control
<1>6. SetTask(t, o) /\ UNCHANGED <<flight, memory, stored, screen, ready, adrift, signedOut>>
  BY <1>1, <1>3 DEF ServerGrants, credentials, shown, history
<1>7. NoneRenamed
  <2>1. \A q \in Logins \ {s} : login'[q] = login[q]
    BY TokensTypes DEF ServerGrants
  <2>2. login[s].who = Void
    BY DEF ServerGrants
  <2>3. Void \notin Pair
    BY ClientAssumption DEF Pair
  <2> QED
    BY <2>1, <2>2, <2>3 DEF NoneRenamed, Known, Pair
<1> QED
  BY <1>4, <1>5, <1>6, <1>7, SameCallScreens

LEMMA LogoutIsLostScreens ==
  ASSUME TokensInv, ScreensInv, NEW t \in Tasks, LogoutIsLost(t)
  PROVE  ScreensInv'
<1>1. PICK o : o = [task[t] EXCEPT !.pc = "clearing"]
  OBVIOUS
<1>2. /\ o \in Task /\ o.pc = "clearing" /\ o.token = task[t].token /\ o.op = task[t].op
      /\ task[t].pc = "leaving"
  BY <1>1, TokensTypes DEF Task, LogoutIsLost
<1>3. Control(o)
  <2>1. Control(task[t])
    BY ScreensFacts
  <2> QED
    BY <1>2, <2>1, ClientAssumption DEF Control
<1>4. /\ SetTask(t, o)
      /\ UNCHANGED <<flight, memory, stored, screen, ready, login, adrift, signedOut>>
  BY <1>1 DEF LogoutIsLost, Onward, credentials, shown, history
<1> QED
  BY <1>2, <1>3, <1>4, NamesStay, SameCallScreens

LEMMA ServerLogsOutScreens ==
  ASSUME TokensInv, ScreensInv, NEW t \in Tasks, ServerLogsOut(t)
  PROVE  ScreensInv'
<1>1. PICK o : o = [task[t] EXCEPT !.pc = "clearing"]
  OBVIOUS
<1>2. /\ o \in Task /\ o.pc = "clearing" /\ o.token = task[t].token /\ o.op = task[t].op
      /\ task[t].pc = "leaving"
  BY <1>1, TokensTypes DEF Task, ServerLogsOut
<1>3. Control(o)
  <2>1. Control(task[t])
    BY ScreensFacts
  <2> QED
    BY <1>2, <2>1, ClientAssumption DEF Control
<1>4. SetTask(t, o) /\ UNCHANGED <<flight, memory, stored, screen, ready, adrift, signedOut>>
  BY <1>1 DEF ServerLogsOut, credentials, shown, history
<1>5. NoneRenamed
  <2>1. PICK s : s = task[t].token.login
    OBVIOUS
  <2>2. s \in Logins
    BY <1>2, <2>1, TokensTypes DEF Steady, Task, Pair
  <2>3. login' = [login EXCEPT ![s].live = FALSE]
    BY <2>1 DEF ServerLogsOut
  <2> QED
    BY <2>2, <2>3, TokensTypes DEF NoneRenamed, Pair, Session
<1> QED
  BY <1>2, <1>3, <1>4, <1>5, SameCallScreens

\* A task that ends, or goes on to sign out, and the restore has ended too if
\* it was that.
LEMMA EndingScreens ==
  ASSUME TokensInv, ScreensInv, NEW t \in Tasks, NEW r \in Task, SetTask(t, r),
         task[t].pc = "sent", NoneRenamed,
         UNCHANGED <<flight, memory, stored, screen, adrift, signedOut>>,
         ready' = (ready \/ task[t].op = "restore"), r.token \in {task[t].token, Void},
         \/ task[t].op = "logoutAll" /\ r.op = task[t].op /\ r.pc = "clearing"
         \/ task[t].op # "logoutAll" /\ r.op = Void /\ r.pc = "done"
  PROVE  ScreensInv'
<1>1. Control(r)
  BY ClientAssumption DEF Control
<1>2. Known(r.token) /\ flight # t
  BY TokensTypes DEF Known, Steady, TokensInv, ClientTypeOK
<1>3. r.op \notin {"restore", "login", "update"}
  BY ClientAssumption
<1>4. /\ ready' \in BOOLEAN /\ (ready => ready')
      /\ ready' # ready => task[t].op = "restore"
      /\ ~ready' => ~ready
  BY TokensTypes
<1>5. ready' # ready => \A q \in Tasks \ {t} : task[q].op # "restore"
  BY <1>4 DEF ScreensInv, Alone
<1>6. ~ready' => r.op \in {Void, "restore"}
  BY <1>4, ScreensFacts, ClientAssumption
<1> QED
  BY <1>1, <1>2, <1>3, <1>4, <1>5, <1>6, QuietStep

LEMMA CallFailsScreens ==
  ASSUME TokensInv, ScreensInv, NEW t \in Tasks, CallFails(t)
  PROVE  ScreensInv'
<1>1. PICK r \in Task : r = task[t]
  BY TokensTypes
<1>2. PICK o : o = Resume(r, FALSE, Void)
  OBVIOUS
<1>3. /\ o \in Task /\ o.token \in {r.token, Void}
      /\ \/ r.op = "logoutAll" /\ o.op = r.op /\ o.pc = "clearing"
         \/ r.op # "logoutAll" /\ o.op = Void /\ o.pc = "done"
  BY <1>2, ResumeFails
<1>4. SetTask(t, o) /\ task[t].pc = "sent"
  BY <1>1, <1>2 DEF CallFails
<1>5. /\ UNCHANGED <<flight, memory, stored, screen, login, adrift, signedOut>>
      /\ ready' = (ready \/ task[t].op = "restore")
  BY DEF CallFails, credentials, history
<1> QED
  BY <1>1, <1>3, <1>4, <1>5, NamesStay, EndingScreens

\* A task that ends while the app is, or becomes, ready.
LEMMA OverStep ==
  ASSUME TokensInv, ScreensInv, NEW t \in Tasks, SetTask(t, Ended), ready',
         \A q \in Tasks \ {t} : task[q].op # "restore",
         Settled', CredentialsFollowTheUser'
  PROVE  ScreensInv'
<1>1. /\ task'[t] = Ended /\ \A q \in Tasks \ {t} : task'[q] = task[q]
  BY DEF SetTask, TokensInv, ClientTypeOK
<1>2. \A q \in Tasks : Control(task[q])'
  <2>1. Control(Ended)
    BY EndedFacts, ClientAssumption DEF Control
  <2> QED
    BY <1>1, <2>1, ScreensFacts DEF Control
<1>3. Ended.op \notin {"restore", "login"}
  BY EndedFacts, ClientAssumption
<1>4. Starting'
  BY DEF Starting
<1>5. Alone'
  BY <1>1, <1>3 DEF ScreensInv, Alone
<1> QED
  BY <1>2, <1>4, <1>5 DEF ScreensInv

\* Who ends a call has no part in what is still to come.
LEMMA LeaveFacts ==
  ASSUME TokensInv, NEW t \in Tasks, SetTask(t, Ended)
  PROVE  \A q \in Tasks : /\ task'[q].op \in {"update", "login", "restore"} => q # t
                          /\ q # t => task'[q] = task[q]
BY EndedFacts, ClientAssumption DEF SetTask, TokensInv, ClientTypeOK

LEMMA ServedScreens ==
  ASSUME TokensInv, ScreensInv, NEW t \in Tasks, Served(t)
  PROVE  ScreensInv'
<1>1. PICK r \in Task : r = task[t]
  BY TokensTypes
<1>2. /\ r.pc = "sent" /\ r.token # Void /\ r.token \in Pair /\ Known(r.token)
      /\ Control(r)
  BY <1>1, TokensTypes, ScreensFacts DEF Served, Task, Steady
<1>3. UNCHANGED <<flight, memory, stored, adrift, signedOut>>
  BY DEF Served, credentials, history
<1>4. flight # t /\ ready' = (ready \/ r.op = "restore")
  BY <1>1, <1>2 DEF Served, TokensInv, ClientTypeOK
<1>5. NoneRenamed
  <2>1. CASE login' = login
    BY <2>1, NamesStay
  <2>2. CASE login' = [s \in Logins |-> IF login[s].who = Whose(r.token)
                        THEN [login[s] EXCEPT !.live = FALSE] ELSE login[s]]
    <3>1. PICK p : p = Whose(r.token)
      OBVIOUS
    <3>2. login' = [s \in Logins |-> IF login[s].who = p
                        THEN [login[s] EXCEPT !.live = FALSE] ELSE login[s]]
      BY <2>2, <3>1
    <3> QED
      BY <3>2, TokensTypes DEF NoneRenamed, Pair, Session
  <2> QED
    BY <1>1, <2>1, <2>2 DEF Served
<1>6. CASE r.op \in {"call", "logoutAll"}
  <2>1. PICK o : o = IF r.op = "logoutAll" THEN [r EXCEPT !.pc = "clearing"] ELSE Ended
    OBVIOUS
  <2>2. /\ o \in Task /\ o.token \in {r.token, Void}
        /\ \/ r.op = "logoutAll" /\ o.op = r.op /\ o.pc = "clearing"
           \/ r.op # "logoutAll" /\ o.op = Void /\ o.pc = "done"
    <3>1. CASE r.op = "logoutAll"
      BY <2>1, <3>1 DEF Task
    <3>2. CASE r.op # "logoutAll"
      BY <2>1, <3>2, EndedFacts
    <3> QED
      BY <3>1, <3>2
  <2>3. SetTask(t, o) /\ screen' = screen
    BY <1>1, <1>6, <2>1 DEF Served
  <2> QED
    BY <1>1, <1>2, <1>3, <1>4, <1>5, <2>2, <2>3, EndingScreens
<1>7. CASE r.op = "restore"
  <2>1. ~ready /\ ready' /\ ~signedOut /\ ~adrift
    BY <1>1, <1>4, <1>7 DEF ScreensInv, Alone, Starting
  <2>2. r.token = stored /\ memory = stored
    BY <1>1, <1>2, <1>7, <2>1 DEF ScreensInv, Starting
  <2>3. SetTask(t, Ended) /\ login' = login /\ screen' = Whose(r.token)
    BY <1>1, <1>7 DEF Served
  <2>4. \A q \in Tasks \ {t} : task[q].op = Void
    BY <1>1, <1>7, <2>1, ScreensFacts DEF ScreensInv, Alone
  <2>5. flight = Void
    <3>1. SUFFICES ASSUME flight # Void PROVE FALSE
      OBVIOUS
    <3>2. flight \in Tasks \ {t} /\ task[flight].op = "restore"
      BY <1>4, <2>1, <3>1, FlightFacts
    <3> QED
      BY <2>4, <3>2, ClientAssumption
  <2>6. Settled'
    <3>1. flight' = Void
      BY <1>3, <2>5
    <3>2. \A q \in Tasks : task'[q].op \notin {"update", "login"}
      BY <2>3, <2>4, LeaveFacts, ClientAssumption
    <3> QED
      BY <3>1, <3>2 DEF Settled
  <2>7. CredentialsFollowTheUser'
    BY <1>2, <1>3, <2>1, <2>2, <2>3 DEF CredentialsFollowTheUser, Whose
  <2> QED
    BY <2>1, <2>3, <2>4, <2>6, <2>7, OverStep, ClientAssumption
<1>8. CASE r.op = "update"
  <2>1. ready
    BY <1>1, <1>8, ScreensFacts, ClientAssumption
  <2>2. SetTask(t, Ended) /\ login' = login /\ screen' = Whose(r.token)
    BY <1>1, <1>8 DEF Served
  <2>3. CASE adrift
    <3>1. Settled' /\ CredentialsFollowTheUser'
      BY <1>3, <2>3 DEF Settled, CredentialsFollowTheUser
    <3>2. \A q \in Tasks \ {t} : task[q].op # "restore"
      BY <2>1, ScreensFacts
    <3> QED
      BY <1>4, <2>1, <2>2, <3>1, <3>2, OverStep
  <2>4. CASE ~adrift
    <3>1. screen' = screen
      BY <1>1, <1>2, <1>8, <2>2, <2>4 DEF ScreensInv, Settled
    <3> QED
      BY <1>1, <1>2, <1>3, <1>4, <1>5, <1>8, <2>2, <3>1, EndedFacts, EndingScreens
  <2> QED
    BY <2>3, <2>4
<1> QED
  BY <1>2, <1>6, <1>7, <1>8 DEF Control

LEMMA LoginFailsScreens ==
  ASSUME TokensInv, ScreensInv, NEW t \in Tasks, LoginFails(t)
  PROVE  ScreensInv'
<1>1. task[t].op = "login" /\ task[t].pc \in {"asking", "granted"}
  BY ScreensFacts DEF LoginFails, Control
<1>2. ready /\ \A q \in Tasks : task[q].op # "restore"
  BY <1>1, ScreensFacts, ClientAssumption
<1>3. /\ SetTask(t, Ended) /\ screen' = Void
      /\ UNCHANGED <<flight, memory, stored, ready, login, adrift, signedOut>>
  BY DEF LoginFails, credentials, history
<1>4. flight # t /\ flight \in Tasks \cup {Void}
  BY <1>1 DEF TokensInv, ClientTypeOK
<1>5. Settled'
  <2>1. \A q \in Tasks : ~adrift => task'[q].op # "update"
    BY <1>1, <1>3, LeaveFacts DEF ScreensInv, Settled
  <2>2. ~adrift /\ flight # Void => ~signedOut /\ task'[flight].token = stored
    BY <1>3, <1>4, LeaveFacts DEF ScreensInv, Settled
  <2> QED
    BY <1>3, <2>1, <2>2 DEF Settled
<1>6. CredentialsFollowTheUser'
  BY <1>2, <1>3 DEF ScreensInv, CredentialsFollowTheUser
<1> QED
  BY <1>2, <1>3, <1>5, <1>6, OverStep

LEMMA ClearScreens ==
  ASSUME TokensInv, ScreensInv, NEW t \in Tasks, Clear(t)
  PROVE  ScreensInv'
<1>1. task[t].op \in {"logout", "logoutAll"} /\ task[t].pc = "clearing"
  BY ScreensFacts DEF Clear, Control
<1>2. ready /\ \A q \in Tasks : task[q].op # "restore"
  BY <1>1, ScreensFacts, ClientAssumption
<1>3. /\ SetTask(t, Ended) /\ screen' = Void /\ memory' = Void /\ stored' = Void
      /\ UNCHANGED <<flight, ready, login>> /\ adrift' = Late(t)
  BY DEF Clear
<1>4. flight # t
  BY <1>1 DEF TokensInv, ClientTypeOK
<1>5. Settled'
  <2> SUFFICES ASSUME ~Late(t)
               PROVE flight' = Void /\ screen' = Void /\ \A q \in Tasks : task'[q].op # "update"
    BY <1>3 DEF Settled
  <2>1. flight = Void /\ \A q \in Tasks \ {t} : task[q].op # "update"
    BY <1>4 DEF Late
  <2> QED
    BY <1>3, <2>1, LeaveFacts
<1>6. CredentialsFollowTheUser'
  BY <1>3 DEF CredentialsFollowTheUser
<1> QED
  BY <1>2, <1>3, <1>5, <1>6, OverStep

LEMMA InstallScreens ==
  ASSUME TokensInv, ScreensInv, NEW t \in Tasks, Install(t)
  PROVE  ScreensInv'
<1>1. task[t].op = "login" /\ task[t].pc = "granted" /\ task[t].answer # Void
  BY ScreensFacts, TokensTypes DEF Install, Control, Steady
<1>2. ready /\ \A q \in Tasks : task[q].op # "restore"
  BY <1>1, ScreensFacts, ClientAssumption
<1>3. PICK x : x = task[t].answer
  OBVIOUS
<1>4. /\ SetTask(t, Ended) /\ screen' = Whose(x) /\ memory' = x /\ stored' = x
      /\ UNCHANGED <<flight, ready, login>> /\ adrift' = Late(t) /\ signedOut' = FALSE
  BY <1>3 DEF Install
<1>5. flight # t
  BY <1>1 DEF TokensInv, ClientTypeOK
<1>6. Settled'
  <2> SUFFICES ASSUME ~Late(t)
               PROVE flight' = Void /\ \A q \in Tasks : task'[q].op \notin {"update", "login"}
    BY <1>4 DEF Settled
  <2>1. flight = Void /\ \A q \in Tasks \ {t} : task[q].op # "update"
    BY <1>5 DEF Late
  <2>2. \A q \in Tasks \ {t} : task[q].op # "login"
    BY <1>1 DEF ScreensInv, Alone
  <2> QED
    BY <1>4, <2>1, <2>2, LeaveFacts
<1>7. CredentialsFollowTheUser'
  BY <1>1, <1>3, <1>4 DEF CredentialsFollowTheUser, Whose
<1> QED
  BY <1>2, <1>4, <1>6, <1>7, OverStep

LEMMA RelaunchScreens ==
  ASSUME TokensInv, ScreensInv, Relaunch
  PROVE  ScreensInv'
<1>1. \A q \in Tasks : task'[q] \in {NoTask, Ended}
  BY DEF Relaunch
<1>2. \A q \in Tasks : task'[q].op = Void /\ task'[q].pc \in {"idle", "done"}
  BY <1>1, EndedFacts
<1>3. flight' = Void /\ screen' = Void /\ ~ready' /\ ~adrift' /\ ~signedOut'
  BY DEF Relaunch
<1>4. \A q \in Tasks : Control(task[q])'
  BY <1>2, ClientAssumption DEF Control
<1>5. Starting' /\ Alone'
  BY <1>2, <1>3, ClientAssumption DEF Starting, Alone
<1>6. Settled'
  BY <1>2, <1>3, ClientAssumption DEF Settled
<1>7. CredentialsFollowTheUser'
  BY <1>3 DEF CredentialsFollowTheUser
<1> QED
  BY <1>4, <1>5, <1>6, <1>7 DEF ScreensInv

LEMMA ReceiveScreens ==
  ASSUME TokensInv, ScreensInv, NEW t \in Tasks, Receive(t)
  PROVE  ScreensInv'
<1>1. PICK x : x = task[t].answer
  OBVIOUS
<1>2. x \in Pair /\ x # Void /\ task[t].pc = "answered" /\ flight = t /\ t # Void
  BY <1>1, TokensTypes, AnswerFacts, ClientAssumption DEF Receive, Task
<1>3. /\ memory' = x /\ stored' = x /\ flight' = Void
      /\ UNCHANGED <<screen, ready, login, reused, died, adrift, signedOut>>
  BY <1>1 DEF Receive, shown, history
<1>4. \A q \in Tasks : /\ task'[q].op = task[q].op
                       /\ q \in Joined(t) => task'[q].pc = "sent" /\ task'[q].token = x
                       /\ q \notin Joined(t) => task'[q] = task[q]
  <2> SUFFICES ASSUME NEW q \in Tasks
               PROVE /\ task'[q].op = task[q].op
                     /\ q \in Joined(t) => task'[q].pc = "sent" /\ task'[q].token = x
                     /\ q \notin Joined(t) => task'[q] = task[q]
    OBVIOUS
  <2>1. PICK r \in Task : r = task[q]
    BY TokensTypes
  <2>2. PICK o : o = Resume(r, TRUE, x)
    OBVIOUS
  <2>3. o.pc = "sent" /\ o.token = x /\ o.op = r.op
    BY <1>2, <2>2, ResumeFacts
  <2>4. task'[q] = IF q \in Joined(t) THEN o ELSE task[q]
    BY <1>1, <2>1, <2>2 DEF Receive
  <2> QED
    BY <2>1, <2>3, <2>4
<1>5. \A q \in Joined(t) : task[q].op \in {"call", "update", "logoutAll", "restore"}
  BY <1>2, ScreensFacts DEF Joined, Control
<1>6. \A q \in Tasks : Control(task[q])'
  <2> SUFFICES ASSUME NEW q \in Tasks PROVE Control(task[q])'
    OBVIOUS
  <2>1. Control(task[q])
    BY ScreensFacts
  <2> QED
    BY <1>4, <1>5, <2>1, ClientAssumption DEF Control
<1>7. ~adrift => stored # Void /\ ~signedOut /\ task[t].token = stored /\ Whose(x) = Whose(stored)
  <2>1. ~adrift => ~signedOut /\ task[t].token = stored
    BY <1>2 DEF ScreensInv, Settled
  <2>2. task[t].token # Void /\ x.login = task[t].token.login
    BY <1>1, <1>2, TokensTypes DEF Steady
  <2> QED
    BY <2>1, <2>2 DEF Whose
<1>8. Starting'
  <2> SUFFICES ASSUME ~ready, NEW q \in Tasks, task'[q].op = "restore", task'[q].pc = "sent"
               PROVE task'[q].token = x
    BY <1>3, <1>4 DEF ScreensInv, Starting
  <2>1. task[t].op = "restore"
    BY <1>2, FlightFacts
  <2>2. q = t
    BY <1>4, <2>1 DEF ScreensInv, Alone
  <2> QED
    BY <1>4, <2>2 DEF Joined
<1>9. Alone'
  BY <1>3, <1>4 DEF ScreensInv, Alone
<1>10. Settled'
  <2> SUFFICES ASSUME ~adrift, NEW q \in Tasks
               PROVE /\ task'[q].op = "update" => screen # Void /\
                          (task'[q].pc = "sent" => task'[q].token # Void
                             /\ login[task'[q].token.login].who = screen)
                     /\ task'[q].op = "login" => screen = Void
    BY <1>3 DEF Settled, Whose
  <2>1. task'[q].op = "login" => screen = Void
    BY <1>4 DEF ScreensInv, Settled
  <2>2. ASSUME task'[q].op = "update"
        PROVE  screen # Void /\ (task'[q].pc = "sent" => task'[q].token # Void
                             /\ login[task'[q].token.login].who = screen)
    <3>1. screen # Void /\ Whose(stored) = screen
      BY <1>4, <2>2, ScreensFacts
    <3>2. CASE q \in Joined(t)
      BY <1>2, <1>4, <1>7, <3>1, <3>2 DEF Whose
    <3>3. CASE q \notin Joined(t)
      BY <1>4, <2>2, <3>1, <3>3 DEF ScreensInv, Settled, Whose
    <3> QED
      BY <3>2, <3>3
  <2> QED
    BY <2>1, <2>2
<1>11. CredentialsFollowTheUser'
  BY <1>2, <1>3, <1>7, ScreensFacts DEF CredentialsFollowTheUser, Whose
<1> QED
  BY <1>6, <1>8, <1>9, <1>10, <1>11 DEF ScreensInv

LEMMA GiveUpScreens ==
  ASSUME TokensInv, ScreensInv, NEW t \in Tasks, GiveUp(t)
  PROVE  ScreensInv'
<1>1. task[t].pc = "answered" /\ flight = t /\ t # Void /\ t \in Joined(t)
  BY AnswerFacts, ClientAssumption DEF GiveUp, Joined
<1>2. /\ memory' = Void /\ stored' = Void /\ flight' = Void /\ screen' = Void
      /\ UNCHANGED <<login, signedOut>>
      /\ ready' = (ready \/ \E q \in Joined(t) : task[q].op = "restore")
      /\ adrift' = (adrift \/ \E q \in Tasks \ Joined(t) : task[q].op = "update")
  BY DEF GiveUp
<1>3. \A q \in Tasks :
        \/ q \notin Joined(t) /\ task'[q] = task[q]
        \/ /\ q \in Joined(t) /\ task[q].op = "logoutAll"
           /\ task'[q].op = "logoutAll" /\ task'[q].pc = "clearing"
        \/ q \in Joined(t) /\ task'[q].op = Void /\ task'[q].pc = "done"
  <2> SUFFICES ASSUME NEW q \in Tasks, q \in Joined(t)
               PROVE \/ /\ task[q].op = "logoutAll"
                        /\ task'[q].op = "logoutAll" /\ task'[q].pc = "clearing"
                     \/ task'[q].op = Void /\ task'[q].pc = "done"
    BY DEF GiveUp
  <2>1. PICK r \in Task : r = task[q]
    BY TokensTypes
  <2>2. PICK o : o = Resume(r, FALSE, Void)
    OBVIOUS
  <2>3. \/ r.op = "logoutAll" /\ o.op = r.op /\ o.pc = "clearing"
        \/ o.op = Void /\ o.pc = "done"
    BY <2>2, ResumeFails
  <2>4. task'[q] = o
    BY <2>1, <2>2 DEF GiveUp
  <2> QED
    BY <2>1, <2>3, <2>4
<1>4. \A q \in Tasks : Control(task[q])'
  <2> SUFFICES ASSUME NEW q \in Tasks PROVE Control(task[q])'
    OBVIOUS
  <2>1. Control(task[q])
    BY ScreensFacts
  <2> QED
    BY <1>3, <2>1, ClientAssumption DEF Control
<1>5. ready' /\ \A q \in Tasks \ Joined(t) : task[q].op # "restore"
  <2>1. CASE ready
    BY <1>2, <2>1, ScreensFacts
  <2>2. CASE ~ready
    <3>1. task[t].op = "restore"
      BY <1>1, <2>2, FlightFacts
    <3> QED
      BY <1>1, <1>2, <3>1 DEF ScreensInv, Alone
  <2> QED
    BY <2>1, <2>2
<1>6. Starting'
  BY <1>5 DEF Starting
<1>7. Alone'
  BY <1>3, <1>5, ClientAssumption DEF ScreensInv, Alone
<1>8. Settled'
  <2> SUFFICES ASSUME ~adrift' PROVE \A q \in Tasks : task'[q].op # "update"
    BY <1>2 DEF Settled
  <2> QED
    BY <1>2, <1>3, ClientAssumption
<1>9. CredentialsFollowTheUser'
  BY <1>2 DEF CredentialsFollowTheUser
<1> QED
  BY <1>4, <1>6, <1>7, <1>8, <1>9 DEF ScreensInv

LEMMA ScreensStutter ==
  ASSUME ScreensInv, UNCHANGED clientVars
  PROVE  ScreensInv'
<1>1. UNCHANGED <<memory, stored, flight, screen, ready, task, login, reused, died, adrift, signedOut>>
  BY DEF clientVars, credentials, shown, history
<1>2. \A t \in Tasks : Control(task[t])'
  BY <1>1 DEF ScreensInv, Control
<1> QED
  BY <1>1, <1>2 DEF ScreensInv, Starting, Alone, Settled, CredentialsFollowTheUser, Whose

LEMMA ScreensNext == TokensInv /\ ScreensInv /\ [ClientNext]_clientVars => ScreensInv'
<1> SUFFICES ASSUME TokensInv, ScreensInv, [ClientNext]_clientVars PROVE ScreensInv'
  OBVIOUS
<1>1. CASE \E t \in Tasks :
         \/ \E op \in {"call", "update", "logoutAll"} : BeginCall(t, op)
         \/ BeginRestore(t) \/ BeginLogin(t) \/ BeginLogout(t)
         \/ ServerRotates(t) \/ RefreshIsLost(t) \/ Receive(t) \/ GiveUp(t)
         \/ Served(t) \/ Unauthorized(t) \/ CallFails(t)
         \/ \E s \in Logins, p \in Persons : ServerGrants(t, s, p)
         \/ LoginFails(t) \/ Install(t)
         \/ ServerLogsOut(t) \/ LogoutIsLost(t) \/ Clear(t)
  BY <1>1, BeginCallScreens, BeginRestoreScreens, BeginLoginScreens, BeginLogoutScreens,
     ServerRotatesScreens, RefreshIsLostScreens, ReceiveScreens, GiveUpScreens, ServedScreens,
     UnauthorizedScreens, CallFailsScreens, ServerGrantsScreens, LoginFailsScreens,
     InstallScreens, ServerLogsOutScreens, LogoutIsLostScreens, ClearScreens
<1>2. CASE Relaunch
  BY <1>2, RelaunchScreens
<1>3. CASE UNCHANGED clientVars
  BY <1>3, ScreensStutter
<1> QED
  BY <1>1, <1>2, <1>3 DEF ClientNext

LEMMA InvariantOfScreens == ClientSpec => []ScreensInv
BY ScreensInit, ScreensNext, InvariantOfTokens, PTL DEF ClientSpec

-----------------------------------------------------------------------------
(* The theorems.                                                           *)

\* The tokens of the app are sessions of the server and not ahead of it, and
\* there is one refresh at a time, that of the task whose answer is due.
THEOREM ClientTypes == ClientSpec => []ClientTypeOK
<1>1. TokensInv => ClientTypeOK
  BY DEF TokensInv
<1> QED
  BY <1>1, InvariantOfTokens, PTL

\* However many calls meet an expired token at once, sign in or out meanwhile
\* and lose their answers, the server ends no session for a reused token, unless
\* a death of the app cut a refresh off (api_client.dart:111-139).
THEOREM OnlyADeadAppReuses == ClientSpec => []OnlyDeathMakesReuse
<1>1. TokensInv => OnlyDeathMakesReuse
  BY DEF TokensInv
<1> QED
  BY <1>1, InvariantOfTokens, PTL

\* Who is signed in on the screens is whose tokens the app has, and nothing is
\* left after signing out, as long as the session does not change while an
\* answer is due (auth_controller.dart:76-190).
THEOREM ScreensShowTheHolder == ClientSpec => []CredentialsFollowTheUser
<1>1. ScreensInv => CredentialsFollowTheUser
  BY DEF ScreensInv
<1> QED
  BY <1>1, InvariantOfScreens, PTL

=============================================================================
