----------------------------- MODULE MCMatching -----------------------------
(* Matching on small instances: two owners, bob with pets 1 and 3 and alice  *)
(* with pet 2.  MCSpec runs two cases: pet 3 was deleted, pet 1 may change,  *)
(* and every decision is made; or pet 3 lives, so that a block severs two    *)
(* matches and a request id can be used again for another pet, no pet        *)
(* changes, and only likes are sent.                                         *)
EXTENDS Matching, TLC

CONSTANTS alice, bob

MCTwoPets == {1, 2}
MCThreePets == {1, 2, 3}
MCTwoOwnerOf == 1 :> alice @@ 2 :> bob
MCThreeOwnerOf == 1 :> bob @@ 2 :> alice @@ 3 :> bob
MCSymmetry == Permutations(Requests) \cup Permutations(ReqIds)

MCInit ==
  \E third \in {"active", "deleted"} :
    InitWith([a \in Pets |-> IF a = 3 THEN third ELSE "active"])

MCSpec == MCInit /\ [][Next]_vars

ThreePets == petStatus[3] = "active"
MCCases ==
  /\ ThreePets => UNCHANGED petStatus
  /\ \A p \in Requests : tx[p].pc = "idle" /\ tx'[p].pc = "lock" =>
       IF ThreePets THEN tx'[p].decision = "like"
       ELSE 3 \notin {tx'[p].source, tx'[p].target}
=============================================================================
