-------------------------------- MODULE Feed ---------------------------------
(***************************************************************************)
(* What the hub promises to those who publish and to connections, with     *)
(* nothing of how events travel.  A connection may miss any event.  It is  *)
(* sent one twice only if the event was sent to other instances again, and *)
(* one publisher's in their order, save those that strayed on their way to *)
(* other instances.  The connections of the publisher's own instance are   *)
(* sent an event once, while its call lasts, or not at all, so that        *)
(* whoever is answered after it knows that they have been served.          *)
(* Realtime implements this specification.                                 *)
(***************************************************************************)
EXTENDS Naturals, Sequences

CONSTANTS
  Conns, UserOf, Instances,
  Publishers, At,  \* At[p]: the instance of a publisher
  Plan, To,        \* Plan[p]: the events of p; To[e]: the users e is for
  Events, None

VARIABLES
  told,     \* told[p]: how many of its events p has begun to publish
  calling,  \* the publishers whose call has not returned
  late,     \* the events that may reach other instances after their call
  repeated, \* the events that were sent to other instances again
  home,     \* home[c]: the instance of a connection, None if there is none yet
  heard     \* heard[c][e]: how often c was sent e

Begin(p) ==
  /\ p \notin calling /\ told[p] < Len(Plan[p])
  /\ told' = [told EXCEPT ![p] = @ + 1] /\ calling' = calling \cup {p}
  /\ UNCHANGED <<late, repeated, home, heard>>

Return(p) ==
  /\ p \in calling /\ calling' = calling \ {p}
  /\ late' \in {late, late \cup {Plan[p][told[p]]}}
  /\ UNCHANGED <<told, repeated, home, heard>>

Resend(p) ==
  /\ p \in calling /\ repeated' = repeated \cup {Plan[p][told[p]]}
  /\ late' \in {late, late \cup {Plan[p][told[p]]}}
  /\ UNCHANGED <<told, calling, home, heard>>

Join(c, i) ==
  /\ home[c] = None /\ home' = [home EXCEPT ![c] = i]
  /\ UNCHANGED <<told, calling, late, repeated, heard>>

Hear(c, p, j) ==
  LET e == Plan[p][j] IN
  /\ j <= told[p] /\ UserOf[c] \in To[e]
  /\ home[c] # None /\ (home[c] = At[p] => p \in calling /\ j = told[p])
  /\ heard[c][e] = 0 \/ (home[c] # At[p] /\ e \in repeated)
  /\ \A k \in DOMAIN Plan[p] : j < k /\ heard[c][Plan[p][k]] > 0 => e \in late
  /\ heard' = [heard EXCEPT ![c][e] = @ + 1]
  /\ UNCHANGED <<told, calling, late, repeated, home>>

Init ==
  /\ told = [p \in Publishers |-> 0] /\ calling = {}
  /\ late = {} /\ repeated = {}
  /\ home = [c \in Conns |-> None]
  /\ heard = [c \in Conns |-> [e \in Events |-> 0]]

Next ==
  \/ \E p \in Publishers : Begin(p) \/ Return(p) \/ Resend(p)
  \/ \E c \in Conns :
       \/ \E i \in Instances : Join(c, i)
       \/ \E p \in Publishers : \E j \in DOMAIN Plan[p] : Hear(c, p, j)

Spec == Init /\ [][Next]_<<told, calling, late, repeated, home, heard>>
=============================================================================
