------------------------------ MODULE MCSocial ------------------------------
(***************************************************************************)
(* Two users with a pet each, an existing post, a community, an event and  *)
(* an adoption listing.  A behaviour runs two requests of any kind, or     *)
(* three that follow, block and read, or three of Community, which shares  *)
(* no table with Social: the other slots are spent at its start.           *)
(***************************************************************************)
EXTENDS Social, Community, TLC

CONSTANTS o, v, a, b, x, y, photo, film

MCOwnerOf == a :> o @@ b :> v
MCCarousels == {<<photo, film>>, <<film, film>>}
MCStartPosts ==
  {x :> [pet |-> a, vis |-> "followers", media |-> <<photo, film>>, cover |-> photo,
         gone |-> FALSE] @@ y :> NoPost}

MCWork ==
  {"createPost", "patchPost", "deletePost", "feed", "discover", "stories", "getPet",
   "petPosts", "petStories", "follow", "unfollow", "like", "unlike", "save",
   "unsave", "comment", "comments", "report", "createStory", "profile",
   "followers", "block", "mute", "unblock", "unmute", "createPet", "patchPet",
   "deletePet", "goPrivate", "goPublic", "deleteAccount"}
Few == {"follow", "unfollow", "block", "feed"}

NoCalls == [c \in Calls |-> Spent]
Slots(S) == [p \in Requests |-> IF p \in S THEN Idle ELSE Finished]

MCInit ==
  \/ SocialInit(Slots(1..2)) /\ CommunityInit(NoCalls)
  \/ SocialInit(Slots(Requests)) /\ follows = {} /\ CommunityInit(NoCalls)
  \/ SocialInit(Slots({})) /\ follows = {} /\ CommunityInitial

SocialStill == UNCHANGED socialVars
Still == UNCHANGED communityVars

\* Requests are numbered in the order of their arrival.
Turn(p) == \A q \in Requests : q < p => tx[q].pc # "idle"
Among(p) == tx[3].pc = "idle" => tx'[p].op \in Few
\* A post is created for followers and made public, never the reverse, and
\* pets are paused.
Sent(p) ==
  CASE tx'[p].op = "createPost" -> tx'[p].set = "followers"
    [] tx'[p].op = "patchPost" -> tx'[p].set # "followers"
    [] tx'[p].op = "patchPet" -> tx'[p].set = "paused" \/ tx'[p].pet = a
    [] tx'[p].op \in {"like", "comment"} -> tx'[p].pet # b
    [] OTHER -> TRUE
CallTurn(c) == \A d \in Calls : d < c => call[d].pc # "idle"

\* SocialNext and CommunityNext, action by action.
MCNext ==
  \/ \E p \in Requests :
       \/ (Turn(p) /\ Begin(p) /\ Among(p) /\ Sent(p)
            /\ Still) \/ (InsertPost(p) /\ Still)
       \/ (UpdatePost(p) /\ Still) \/ (DeleteMedia(p) /\ Still)
       \/ (InsertMedia(p) /\ Still) \/ (CommitPost(p) /\ Still)
       \/ (RemovePost(p) /\ Still) \/ (RefusePost(p) /\ Still)
       \/ (CheckPet(p) /\ Still) \/ (ReadPet(p) /\ Still) \/ (PostRows(p) /\ Still)
       \/ (AttachMedia(p) /\ Still) \/ (StoryRows(p) /\ Still)
       \/ (CheckSource(p) /\ Still) \/ (NearbyRows(p) /\ Still)
       \/ (EmptyPage(p) /\ Still) \/ (CanView(p) /\ Still)
       \/ (CheckActor(p) /\ Still) \/ (Touch(p) /\ Still)
       \/ (ListComments(p) /\ Still)
       \/ (InsertStory(p) /\ Still) \/ (InsertFollow(p) /\ Still)
       \/ (Notify(p) /\ Still) \/ (CommitFollow(p) /\ Still)
       \/ (DeleteFollow(p) /\ Still) \/ (CheckUser(p) /\ Still)
       \/ (ListFollowers(p) /\ Still) \/ (CheckTarget(p) /\ Still)
       \/ (InsertBlock(p) /\ Still) \/ (CommitBlock(p) /\ Still)
       \/ (InsertMute(p) /\ Still) \/ (Release(p) /\ Still)
       \/ (CreatePet(p) /\ Still) \/ (PatchPet(p) /\ Still)
       \/ (RefusePet(p) /\ Still) \/ (PatchMe(p) /\ Still) \/ (LockUser(p) /\ Still)
       \/ (DeletePets(p) /\ Still) \/ (CommitDeletion(p) /\ Still)
       \/ (Fail(p) /\ Still)
  \/ \E d \in Pets : ExpireStory(d) /\ Still
  \/ \E p \in Calls :
       \/ (CallTurn(p) /\ BeginCall(p) /\ SocialStill) \/ (InsertCommunity(p) /\ SocialStill)
       \/ (NameTaken(p) /\ SocialStill) \/ (InsertOwner(p) /\ SocialStill)
       \/ (CommitCommunity(p) /\ SocialStill) \/ (JoinRow(p) /\ SocialStill)
       \/ (JoinExists(p) /\ SocialStill) \/ (LeaveCheck(p) /\ SocialStill)
       \/ (LeaveRow(p) /\ SocialStill) \/ (HostCheck(p) /\ SocialStill)
       \/ (InsertEvent(p) /\ SocialStill) \/ (UpsertRSVP(p) /\ SocialStill)
       \/ (EventExists(p) /\ SocialStill) \/ (DeleteRSVP(p) /\ SocialStill)
       \/ (InsertListing(p) /\ SocialStill) \/ (ListingExists(p) /\ SocialStill)
       \/ (SetSaved(p) /\ SocialStill) \/ (Break(p) /\ SocialStill)

MCSpec == MCInit /\ [][MCNext]_<<socialVars, communityVars>>

=============================================================================
