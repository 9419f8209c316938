-------------------------- MODULE MCAccountsDeleted --------------------------
(* A person with a password signs in with a provider, deletes the account   *)
(* and signs in again.                                                      *)
EXTENDS Accounts, TLC

CONSTANTS home, first

MCProviderOf == first :> "google"
MCClaims == {[subject |-> first, email |-> home, verified |-> TRUE]}
MCJobs == {"register", "callback", "delete"}

Alike == Permutations(Ids) \cup Permutations(Keys)
\* Requests are numbered in the order of their arrival.
InOrder ==
  \A p, q \in Clients : q < p /\ req'[p].pc # "idle" => req'[q].pc # "idle"
=============================================================================
