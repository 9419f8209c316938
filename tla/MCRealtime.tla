----------------------------- MODULE MCRealtime -----------------------------
(* Realtime with two instances and one handler that publishes two events one *)
(* after the other, or one event while the client sends a frame.  The        *)
(* connection to Redis may break while the first event is published.         *)
EXTENDS Realtime, TLC

CONSTANTS i1, i2, phone, p1, bob, e1, e2

MCUserOf == [c \in Conns |-> bob]
MCAt == p1 :> i1
MCPlan == p1 :> <<e1, e2>>
MCTo == [e \in Events |-> {bob}]
MCRetries == [e \in Events |-> IF e = e1 THEN 1 ELSE 0]

Begun(p) == pub[p].n + (IF pub[p].pc = "idle" THEN 0 ELSE 1)

\* Neither Publish nor Reply is fair, so a fair behaviour may leave either out.
MCCases ==
  \A c \in Conns, p \in Publishers : conn'[c].replies > 0 => Begun(p)' <= 1
=============================================================================
