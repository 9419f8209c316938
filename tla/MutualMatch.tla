---------------------------- MODULE MutualMatch -----------------------------
(***************************************************************************)
(* What swiping promises, with nothing of how the server does it: a pet    *)
(* decides about another pet once and for all; the decision that makes the *)
(* interest mutual creates, in the same instant, the one match of the pair *)
(* and tells each owner once; a match may later be severed, for good.      *)
(* Matching implements this specification.                                 *)
(***************************************************************************)
EXTENDS Naturals

CONSTANTS
  Pets,      \* a set of numbers: the ids of two pets can be compared
  Owners,
  OwnerOf,   \* OwnerOf[a]: the owner of pet a
  Decisions, \* a subset of skip, like, super_like
  None       \* the absent value

VARIABLES
  decided,   \* decided[<<a, b>>]: what a decided about b
  match,     \* the status of each pair's match, "none" when there is none
  notices    \* notices[m][u]: how often owner u has been told of match m

Interest == Decisions \cap {"like", "super_like"}
Pairs == {m \in Pets \X Pets : m[1] < m[2]}
PairOf(a, b) == IF a < b THEN <<a, b>> ELSE <<b, a>>

\* The first decision of a about b, and the match it completes.
Decide(a, b, d) ==
  LET m == PairOf(a, b) IN
  /\ OwnerOf[a] # OwnerOf[b]
  /\ decided[<<a, b>>] = None
  /\ decided' = [decided EXCEPT ![<<a, b>>] = d]
  /\ IF d \in Interest /\ decided[<<b, a>>] \in Interest
       THEN /\ match[m] = "none"
            /\ match' = [match EXCEPT ![m] = "active"]
            /\ notices' = [notices EXCEPT ![m][OwnerOf[a]] = @ + 1,
                                          ![m][OwnerOf[b]] = @ + 1]
       ELSE UNCHANGED <<match, notices>>

Sever(S) ==
  /\ \A m \in S : match[m] = "active"
  /\ match' = [m \in Pairs |-> IF m \in S THEN "blocked" ELSE match[m]]
  /\ UNCHANGED <<decided, notices>>

Init ==
  /\ decided = [ab \in Pets \X Pets |-> None]
  /\ match = [m \in Pairs |-> "none"]
  /\ notices = [m \in Pairs |-> [u \in Owners |-> 0]]

Next ==
  \/ \E a, b \in Pets, d \in Decisions : Decide(a, b, d)
  \/ \E S \in SUBSET Pairs : Sever(S)

Spec == Init /\ [][Next]_<<decided, match, notices>>
=============================================================================
