----------------------------- MODULE TokenChain ------------------------------
(***************************************************************************)
(* What signing in promises, with nothing of how the handlers do it: a     *)
(* sign-in issues one token; whoever presents the token that lives gets    *)
(* the next one for it, in one step, as long as the account exists; and    *)
(* tokens are taken away for good.  A session may be ended together with   *)
(* its tokens, or an account deleted with the tokens of all its sessions.  *)
(* A family that has lost its token never has one again.                   *)
(* AuthSessions implements this specification.                             *)
(***************************************************************************)
CONSTANTS
  Users, Families, Tokens,
  Owner,     \* Owner[f]: the account of a sign-in
  SignedIn,  \* the sign-ins that may be there at the start
  None       \* the absent value

VARIABLES
  family,    \* family[t]: the sign-in a token was issued for
  live,      \* the tokens that can be exchanged
  closed,    \* the sessions that were ended together with their tokens
  deleted    \* the accounts that were deleted

Opened(f) == \E t \in Tokens : family[t] = f
Issue(n, f) == family[n] = None /\ family' = [family EXCEPT ![n] = f]

Open(f, n) ==
  /\ ~Opened(f) /\ Issue(n, f)
  /\ live' = live \cup {n}
  /\ UNCHANGED <<closed, deleted>>

Exchange(t, n) ==
  /\ t \in live /\ Owner[family[t]] \notin deleted
  /\ Issue(n, family[t])
  /\ live' = (live \ {t}) \cup {n}
  /\ UNCHANGED <<closed, deleted>>

Take(T, F, U) ==
  /\ live' = live \ T
  /\ \A f \in F : Opened(f)
  /\ \A t \in live' : family[t] \notin F /\ Owner[family[t]] \notin U
  /\ closed' = closed \cup F /\ deleted' = deleted \cup U
  /\ UNCHANGED family

Init ==
  /\ family \in [Tokens -> SignedIn \cup {None}]
  /\ \A t, n \in Tokens : family[t] = family[n] /\ family[t] # None => t = n
  /\ live = {t \in Tokens : family[t] # None}
  /\ closed = {} /\ deleted = {}

Next ==
  \/ \E f \in Families, n \in Tokens : Open(f, n)
  \/ \E t, n \in Tokens : Exchange(t, n)
  \/ \E T \in SUBSET Tokens, F \in SUBSET Families, U \in SUBSET Users : Take(T, F, U)

Spec == Init /\ [][Next]_<<family, live, closed, deleted>>
=============================================================================
