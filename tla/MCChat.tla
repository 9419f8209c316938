------------------------------- MODULE MCChat -------------------------------
(* Chat on a small instance: alice has sent a message; she sends another,    *)
(* perhaps twice, or a different one with the same id; bob sends one and     *)
(* marks messages as read.  Message ids are ordered, so not symmetric.       *)
EXTENDS Chat, TLC

CONSTANTS alice, bob, c1, c2, x1, x2

MCEarlier == {[id |-> 2, sender |-> alice, client |-> c2, content |-> x1,
               at |-> 1]}
MCSends == {<<alice, c1, x1>>, <<alice, c1, x2>>, <<bob, c1, x1>>}
MCSymmetry == Permutations(Requests)
=============================================================================
