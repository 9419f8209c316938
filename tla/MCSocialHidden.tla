--------------------------- MODULE MCSocialHidden ---------------------------
(* A user with a pet and a post makes the account private while another    *)
(* reads the feed.                                                         *)
EXTENDS Social, TLC

CONSTANTS o, v, a, x

MCOwnerOf == a :> o
MCStartPosts ==
  {x :> [pet |-> a, vis |-> "public", media |-> <<>>, cover |-> None, gone |-> FALSE]}
MCWork == {"feed", "getPet", "petPosts", "goPrivate"}
=============================================================================
