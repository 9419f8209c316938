--------------------------- MODULE MCAuthSessions ---------------------------
(* Small instances of AuthSessions for TLC. *)
EXTENDS AuthSessions, TLC

CONSTANT alice

\* Every sign-in belongs to the one account.
MCOwner == [f \in Families |-> alice]

\* Every handler, and expiry.
MCAllOps == AllOps

\* Every handler that waits for locks other requests take.
MCRevokingOps == AllOps \ {"login", "expire"}

\* Refreshes only: the race of a replayed token with its successor.
MCRotateOps == {"rotate"}

\* The handlers of a race between one refresh and one plain logout.
MCLogoutOps == {"rotate", "logout"}

\* The handlers of a race between a password reset and a refresh or sign-in.
MCResetOps == {"rotate", "login", "reset"}

\* Requests, sign-ins and token ids are interchangeable.
MCSymmetry ==
  Permutations(Requests) \cup Permutations(Families) \cup Permutations(Tokens)
=============================================================================
