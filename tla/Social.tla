------------------------------- MODULE Social -------------------------------
(***************************************************************************)
(* Posts and their carousels, likes, saves and comments, stories, follows, *)
(* the rules of who may see what (platform/visibility), pets, blocks,      *)
(* mutes and reports, private accounts, and what the deletion of an        *)
(* account does to them: the handlers of modules/social, pets, profile,    *)
(* account and safety, run concurrently against PostgreSQL under READ      *)
(* COMMITTED.  One action is one SQL statement of a handler; what a        *)
(* transaction has written stays in its request until it commits.          *)
(*                                                                         *)
(* A page of a feed stands for one of its rows, a reel for a post, and     *)
(* text, photos and locations are left out.  Requests are not refused      *)
(* after the deletion of their user's account: an access token may outlive *)
(* it (see account/deletion.go, "Best-effort").                            *)
(***************************************************************************)
EXTENDS Naturals, Sequences, FiniteSets

CONSTANTS
  Users, Pets,
  OwnerOf,    \* pets.owner_id, of the pets that may be created too
  Born,       \* the pets that exist at the start
  Posts,      \* posts.id
  Media,      \* uploaded files of the authors
  Carousels,  \* the media_ids lists that are sent
  StartPosts, \* the tables of posts a behaviour may start with
  Requests,   \* HTTP requests, each of which runs one handler once
  Work,       \* the handlers that run in this instance
  None        \* the absent value

Visibilities == {"public", "followers"}
PetStatuses == {"none", "active", "paused",
                "deleted",  \* by deleteAccount: deleted_at is NULL
                "gone"}     \* by DELETE /pets/:petId

PostRow == [pet : Pets, vis : Visibilities, media : Seq(Media),
            cover : Media \cup {None}, gone : BOOLEAN]
NoPost == [pet |-> None, vis |-> "public", media |-> <<>>, cover |-> None,
           gone |-> FALSE]

ASSUME OwnerOfAssumption == OwnerOf \in [Pets -> Users]
ASSUME BornAssumption == Born \subseteq Pets
ASSUME CarouselsAssumption == Carousels \subseteq Seq(Media) \ {<<>>}
ASSUME SocialNoneAssumption == None \notin Users \cup Pets \cup Posts \cup Media
ASSUME StartPostsAssumption ==
  \A t \in StartPosts :
    /\ t \in [Posts -> PostRow \cup {NoPost}]
    /\ \A x \in Posts : t[x] # NoPost =>
         /\ t[x].pet \in Born /\ t[x].media \in Carousels \cup {<<>>}
         /\ t[x].media = <<>> \/ t[x].cover = Head(t[x].media)

VARIABLES
  pet,         \* pets.status and deleted_at, as one of PetStatuses
  private,     \* users with is_private
  departed,    \* users with deleted_at
  post,        \* posts with their post_media
  ties,        \* post_likes, post_saves and comments
  stories,     \* pets with a story that has not expired
  reports,     \* <<reporter, reported user>>
  follows,     \* <<user, pet>>
  notices,     \* notices[f]: 'follow' notifications sent for f
  unfollowed,  \* history: how often f was removed from follows
  blocks,      \* <<blocker, blocked user>>
  mutes,       \* <<muter, muted user>>
  tx,          \* the requests and their open transactions
  sight        \* history: users and pets the requester might see meanwhile

accounts == <<pet, private, departed>>
content == <<post, ties, stories, reports>>
fans == <<follows, notices, unfollowed>>
safety == <<blocks, mutes>>
socialVars == <<accounts, content, fans, safety, tx, sight>>

-----------------------------------------------------------------------------
(* Requests.                                                               *)

Idle == [pc |-> "idle", op |-> None, user |-> None, pet |-> None,
         post |-> None, other |-> None, set |-> None, list |-> <<>>,
         put |-> 0, row |-> NoPost, fresh |-> FALSE, page |-> <<>>,
         seen |-> None, shown |-> None, listed |-> None]

Finished == [Idle EXCEPT !.pc = "done"]
Active(r) == r.pc \notin {"idle", "done"}

\* What the rules let user u see now: users no block keeps apart, and pets
\* of accounts that are not private to u.
Severed(u, w) == {<<u, w>>, <<w, u>>} \cap blocks # {}
OpenTo(u, a) ==
  /\ pet[a] = "active" \/ (OwnerOf[a] = u /\ pet[a] \notin {"none", "gone"})
  /\ OwnerOf[a] \notin departed
  /\ OwnerOf[a] = u \/ OwnerOf[a] \notin private \/ <<u, a>> \in follows
  /\ ~Severed(u, OwnerOf[a])
Prospect(u) == {w \in Users : ~Severed(u, w)} \cup {a \in Pets : OpenTo(u, a)}

\* The handlers that answer with something of a user or act on it.
Viewers == {"feed", "discover", "stories", "getPet", "petPosts", "petStories", "postByID",
            "like", "unlike", "save", "unsave", "comment", "comments",
            "follow", "profile", "followers"}

Set(p, r) ==
  /\ tx' = [tx EXCEPT ![p] = r]
  /\ sight' = [q \in Requests |->
       IF q = p /\ r.seen = None /\ r.pc = "done" THEN {}
       ELSE IF Active(tx[q]) /\ tx[q].op \in Viewers
         THEN sight[q] \cup Prospect(tx[q].user)
       ELSE sight[q]]
Step(p, r) == Set(p, r) /\ UNCHANGED <<accounts, content, fans, safety>>
End(p) == Step(p, Finished)
Arrive(p, op, r) ==
  tx[p].pc = "idle" /\ op \in Work /\ Step(p, [r EXCEPT !.op = op])

\* What a read has answered with: the user and the pet it is about, and the
\* pet again if more than its identity is shown.
Answer(p, w, shown, page) ==
  Step(p, [Finished EXCEPT !.seen = w, !.shown = shown, !.page = page])

\* Row locks of users: FOR UPDATE of a deletion, and the foreign-key locks
\* that uncommitted inserts hold.
LockedBy(q, w) ==
  tx[q].op = "deleteAccount" /\ tx[q].pc \in {"deletePets", "commit"}
    /\ tx[q].user = w
UserFree(w) == \A q \in Requests : ~LockedBy(q, w)
KeyShares(q) ==
  IF ~tx[q].fresh THEN {}
  ELSE IF tx[q].op = "block" THEN {tx[q].user, tx[q].other}
  ELSE IF tx[q].op = "follow" /\ tx[q].pc = "commit"
    THEN {tx[q].user, OwnerOf[tx[q].pet]} ELSE {tx[q].user}
PostFree(p, x) ==
  \A q \in Requests \ {p} : ~(tx[q].op = "patchPost" /\ tx[q].row # NoPost
                                /\ tx[q].post = x)
PetFree(a) ==
  \A q \in Requests : ~(LockedBy(q, OwnerOf[a]) /\ tx[q].pc = "commit"
                          /\ pet[a] \in {"active", "paused"})

-----------------------------------------------------------------------------
(* Visibility.                                                             *)

Owns(u, a) == OwnerOf[a] = u
Follows(u, a) == <<u, a>> \in follows
Undeleted(a) == pet[a] \notin {"none", "gone"}
Live(x) == post[x] # NoPost /\ ~post[x].gone
Author(x) == OwnerOf[post[x].pet]

\* The NOT EXISTS over blocks that the queries share.
Apart(u, w) == <<u, w>> \in blocks \/ <<w, u>> \in blocks

\* ForPet: not ErrNotFound, and PetAccess.Restricted.
ForPet(u, a) ==
  /\ Undeleted(a) /\ OwnerOf[a] \notin departed
  /\ Owns(u, a) \/ pet[a] = "active"
  /\ ~Apart(u, OwnerOf[a])
Restricted(u, a) == OwnerOf[a] \in private /\ ~Owns(u, a) /\ ~Follows(u, a)

\* ForUser: not ErrNotFound, and UserAccess.Restricted.
ForUser(u, w) == w \notin departed /\ ~Apart(u, w)
RestrictedUser(u, w) == w \in private /\ w # u

Readable(u, x) ==
  /\ Live(x)
  /\ post[x].vis = "public" \/ Author(x) = u \/ Follows(u, post[x].pet)

\* Fault: the gate of likes and comments forgets the blocks.
CanViewPostUnblocked(u, x) == Readable(u, x) /\ pet[post[x].pet] = "active"

CanViewPost(u, x) ==
  /\ Readable(u, x)
  /\ pet[post[x].pet] = "active"
  /\ ~Apart(u, Author(x))

InFeed(u, x) == CanViewPost(u, x) /\ <<u, Author(x)>> \notin mutes

\* A pet that nearbyPets may find; its filters find fewer.
Discoverable(u, a) ==
  /\ pet[a] = "active" /\ ~Owns(u, a) /\ OwnerOf[a] \notin departed
  /\ ~Apart(u, OwnerOf[a]) /\ ~Restricted(u, a)

InStories(u, a) ==
  a \in stories /\ (Owns(u, a) \/ Follows(u, a))

-----------------------------------------------------------------------------
(* Posts.                                                                  *)

BeginCreatePost(p, u, a, v, l) ==
  Arrive(p, "createPost", [Idle EXCEPT !.pc = "insertPost", !.user = u,
                             !.pet = a, !.set = v, !.list = l])

CoverOf(l) == IF l = <<>> THEN None ELSE Head(l)

\* INSERT INTO posts ... SELECT ... FROM pets, which locks its author's row.
InsertPost(p) ==
  LET r == tx[p] IN
  /\ r.pc = "insertPost" /\ UserFree(r.user)
  /\ Owns(r.user, r.pet) /\ pet[r.pet] \in {"active", "paused"}
  /\ \E x \in {y \in Posts : post[y] = NoPost
                  /\ \A q \in Requests : tx[q].op = "createPost" => tx[q].post # y} :
       Step(p, [r EXCEPT !.pc = "media", !.post = x, !.fresh = TRUE,
                  !.row = [pet |-> r.pet, vis |-> r.set, media |-> <<>>,
                           cover |-> CoverOf(r.list), gone |-> FALSE]])

BeginPatchPost(p, u, x, v, l) ==
  /\ v # None \/ l # <<>>
  /\ Arrive(p, "patchPost", [Idle EXCEPT !.pc = "updatePost", !.user = u,
                               !.post = x, !.set = v, !.list = l])

\* Fault: the update forgets deleted_at IS NULL.
EditableDeleted(u, x) == post[x] # NoPost /\ Author(x) = u

Editable(u, x) == Live(x) /\ Author(x) = u

\* UPDATE posts, which locks the post's row.
UpdatePost(p) ==
  LET r == tx[p] IN
  /\ r.pc = "updatePost" /\ PostFree(p, r.post) /\ Editable(r.user, r.post)
  /\ Step(p, [r EXCEPT !.pc = IF r.list = <<>> THEN "media" ELSE "deleteMedia",
       !.row = [post[r.post] EXCEPT
                  !.vis = IF r.set = None THEN @ ELSE r.set,
                  !.cover = IF r.list = <<>> THEN @ ELSE Head(r.list)]])

DeleteMedia(p) ==
  /\ tx[p].pc = "deleteMedia"
  /\ Step(p, [tx[p] EXCEPT !.pc = "media", !.row.media = <<>>])

\* Fault: the inserts run outside the transaction.
InsertMediaOutside(p) ==
  LET r == tx[p]  m == r.list[r.put + 1] IN
  /\ r.pc = "media" /\ r.put < Len(r.list)
  /\ Set(p, [r EXCEPT !.put = r.put + 1, !.row.media = Append(@, m)])
  /\ post' = [post EXCEPT ![r.post] = [r.row EXCEPT !.media = Append(@, m)]]
  /\ UNCHANGED <<accounts, ties, stories, reports, fans, safety>>

\* insertPostMedia, one item; a second insert of the same item violates the
\* primary key of post_media, and the request fails (Fail).
InsertMedia(p) ==
  LET r == tx[p]  m == r.list[r.put + 1] IN
  /\ r.pc = "media" /\ r.put < Len(r.list)
  /\ \A i \in 1..r.put : r.list[i] # m
  /\ Step(p, [r EXCEPT !.put = r.put + 1, !.row.media = Append(@, m)])

\* Commit; the handler then loads the post it answers with.
CommitPost(p) ==
  LET r == tx[p] IN
  /\ r.pc = "media" /\ r.put = Len(r.list)
  /\ Set(p, [Idle EXCEPT !.pc = "rows", !.op = "postByID", !.user = r.user,
                         !.post = r.post])
  /\ post' = [post EXCEPT ![r.post] = r.row]
  /\ UNCHANGED <<accounts, ties, stories, reports, fans, safety>>

BeginDeletePost(p, u, x) ==
  Arrive(p, "deletePost", [Idle EXCEPT !.pc = "removePost", !.user = u, !.post = x])

RemovePost(p) ==
  LET r == tx[p] IN
  /\ r.pc = "removePost" /\ PostFree(p, r.post) /\ Editable(r.user, r.post)
  /\ Set(p, Finished)
  /\ post' = [post EXCEPT ![r.post].gone = TRUE]
  /\ UNCHANGED <<accounts, ties, stories, reports, fans, safety>>

\* ErrNoRows of the insert, RowsAffected = 0 of the updates.
RefusePost(p) ==
  LET r == tx[p] IN
  /\ \/ r.pc = "insertPost"
          /\ ~(Owns(r.user, r.pet) /\ pet[r.pet] \in {"active", "paused"})
     \/ r.pc \in {"updatePost", "removePost"} /\ PostFree(p, r.post)
          /\ ~Editable(r.user, r.post)
  /\ End(p)

-----------------------------------------------------------------------------
(* Pages of posts and stories.                                             *)

BeginRead(p, u, op) ==
  /\ op \in {"feed", "stories"}
  /\ Arrive(p, op, [Idle EXCEPT !.pc = "rows", !.user = u])

\* The handlers that first ask visibility.ForPet.
BeginPet(p, u, a, op) ==
  /\ op \in {"getPet", "petPosts", "petStories", "follow", "unfollow"}
  /\ Arrive(p, op, [Idle EXCEPT !.pc = "forPet", !.user = u, !.pet = a])

\* ErrNotFound ends them all; a page of a restricted pet is empty.
CheckPet(p) ==
  LET r == tx[p]
      teaser == r.op \in {"petPosts", "petStories"} /\ Restricted(r.user, r.pet)
      own == r.op \in {"follow", "unfollow"} /\ Owns(r.user, r.pet)
  IN
  /\ r.pc = "forPet"
  /\ IF ~ForPet(r.user, r.pet) \/ teaser \/ own THEN End(p)
     ELSE Step(p, [r EXCEPT
       !.pc = CASE r.op = "getPet" -> "readPet"
                [] r.op = "follow" -> "insertFollow"
                [] r.op = "unfollow" -> "deleteFollow"
                [] OTHER -> "rows",
       !.shown = IF r.op = "getPet" /\ Restricted(r.user, r.pet) THEN None ELSE r.pet])

ReadPet(p) ==
  LET r == tx[p] IN
  /\ r.pc = "readPet"
  /\ IF Undeleted(r.pet) THEN Answer(p, OwnerOf[r.pet], r.shown, <<>>) ELSE End(p)

\* The first query of a page: x is one of its rows.
Listed(r, x) ==
  CASE r.op = "feed" -> InFeed(r.user, x)
    [] r.op = "petPosts" -> Readable(r.user, x) /\ post[x].pet = r.pet
    [] r.op = "postByID" -> Live(x) /\ x = r.post
    [] OTHER -> FALSE

PostRows(p) ==
  LET r == tx[p] IN
  /\ r.pc = "rows"
  /\ \E x \in Posts :
       /\ Listed(r, x)
       /\ Step(p, [r EXCEPT !.pc = "attach", !.post = x, !.pet = post[x].pet])

\* attachMedia, the second query.
AttachMedia(p) ==
  LET r == tx[p] IN
  /\ r.pc = "attach"
  /\ Answer(p, OwnerOf[r.pet], IF r.op = "postByID" THEN None ELSE r.pet,
            post[r.post].media)

StoryRows(p) ==
  LET r == tx[p] IN
  /\ r.pc = "rows"
  /\ \E a \in Pets :
       /\ InStories(r.user, a)
       /\ \/ r.op = "stories" /\ pet[a] = "active" /\ ~Apart(r.user, OwnerOf[a])
          \/ r.op = "petStories" /\ a = r.pet
       /\ Answer(p, OwnerOf[a], a, <<>>)

\* a: source_pet_id, or None.
BeginDiscover(p, u, a) ==
  Arrive(p, "discover", [Idle EXCEPT !.pc = IF a = None THEN "rows" ELSE "source",
                           !.user = u, !.pet = a])

\* pet_not_owned.
CheckSource(p) ==
  LET r == tx[p] IN
  /\ r.pc = "source"
  /\ IF Owns(r.user, r.pet) /\ pet[r.pet] \in {"active", "paused"}
       THEN Step(p, [r EXCEPT !.pc = "rows"]) ELSE End(p)

NearbyRows(p) ==
  LET r == tx[p] IN
  /\ r.pc = "rows" /\ r.op = "discover"
  /\ \E a \in Pets : Discoverable(r.user, a) /\ Answer(p, OwnerOf[a], a, <<>>)

EmptyPage(p) == tx[p].pc = "rows" /\ End(p)

-----------------------------------------------------------------------------
(* Likes, saves, comments and reports of posts.                            *)

Tie == {"like", "save", "comment"} \X Users \X Posts

BeginTouch(p, u, x, op, a) ==
  /\ op \in {"like", "unlike", "save", "unsave", "comment", "comments", "report"}
  /\ a # None => op \in {"like", "comment"}
  /\ Arrive(p, op, [Idle EXCEPT !.pc = "canView", !.user = u, !.post = x, !.pet = a])

\* canViewPost; a report only resolves the post's author.
CanView(p) ==
  LET r == tx[p]
      visible == IF r.op = "report" THEN Live(r.post) /\ Author(r.post) # r.user
                 ELSE CanViewPost(r.user, r.post)
  IN
  /\ r.pc = "canView"
  /\ IF ~visible THEN End(p)
     ELSE Step(p, [r EXCEPT !.pc = IF r.pet = None THEN "touch" ELSE "actor",
                            !.seen = IF r.op = "report" THEN None ELSE Author(r.post)])

\* resolveOwnedActorPet.
CheckActor(p) ==
  LET r == tx[p] IN
  /\ r.pc = "actor"
  /\ IF Owns(r.user, r.pet) /\ Undeleted(r.pet) THEN Step(p, [r EXCEPT !.pc = "touch"])
     ELSE End(p)

Touch(p) ==
  LET r == tx[p]  t(kind) == {<<kind, r.user, r.post>>} IN
  /\ r.pc = "touch" /\ r.op # "comments"
  /\ r.op \in {"comment", "report"} \/ (r.op \in {"like", "save"} /\ ties \cap t(r.op) = {})
       => UserFree(r.user)
  /\ r.op = "report" => UserFree(Author(r.post))
  /\ ties' = CASE r.op \in {"like", "save", "comment"} -> ties \cup t(r.op)
               [] r.op = "unlike" -> ties \ t("like")
               [] r.op = "unsave" -> ties \ t("save")
               [] OTHER -> ties
  /\ reports' = IF r.op = "report" THEN reports \cup {<<r.user, Author(r.post)>>}
                ELSE reports
  /\ Set(p, [Finished EXCEPT !.seen = r.seen])
  /\ UNCHANGED <<accounts, post, stories, fans, safety>>

\* A page of comments stands for one of its writers, or is empty.
ListComments(p) ==
  LET r == tx[p]  writers == {w \in Users : <<"comment", w, r.post>> \in ties} IN
  /\ r.pc = "touch" /\ r.op = "comments"
  /\ \E w \in writers \cup {None} :
       Step(p, [Finished EXCEPT !.seen = r.seen, !.listed = w])

BeginCreateStory(p, u, a) ==
  Arrive(p, "createStory", [Idle EXCEPT !.pc = "insertStory", !.user = u, !.pet = a])

InsertStory(p) ==
  LET r == tx[p] IN
  /\ r.pc = "insertStory" /\ UserFree(r.user)
  /\ Owns(r.user, r.pet) /\ pet[r.pet] \in {"active", "paused"}
  /\ Set(p, Finished)
  /\ stories' = stories \cup {r.pet}
  /\ UNCHANGED <<accounts, post, ties, reports, fans, safety>>

\* expires_at passes.
ExpireStory(a) ==
  /\ a \in stories
  /\ stories' = stories \ {a}
  /\ UNCHANGED <<accounts, post, ties, reports, fans, safety, tx, sight>>

-----------------------------------------------------------------------------
(* Follows.                                                                *)

FollowFree(p) ==
  \A q \in Requests \ {p} : ~(tx[q].op = "follow" /\ tx[q].fresh
                      /\ tx[q].user = tx[p].user /\ tx[q].pet = tx[p].pet)

\* INSERT ... ON CONFLICT DO NOTHING, and RowsAffected.
InsertFollow(p) ==
  LET r == tx[p]  new == ~Follows(r.user, r.pet) IN
  /\ r.pc = "insertFollow" /\ FollowFree(p) /\ (new => UserFree(r.user))
  /\ Step(p, [r EXCEPT !.pc = IF new THEN "notify" ELSE "commit", !.fresh = new])

\* Fault: the notification is sent after the commit.
NotifyAfterCommit(p) ==
  LET r == tx[p]  f == <<r.user, r.pet>> IN
  /\ r.pc = "notify"
  /\ \/ /\ f \notin follows
        /\ Set(p, r)
        /\ follows' = follows \cup {f}
        /\ UNCHANGED <<accounts, content, notices, unfollowed, safety>>
     \/ /\ f \in follows
        /\ Set(p, Finished)
        /\ notices' = [notices EXCEPT ![f] = @ + 1]
        /\ UNCHANGED <<accounts, content, follows, unfollowed, safety>>

Notify(p) ==
  /\ tx[p].pc = "notify" /\ UserFree(OwnerOf[tx[p].pet])
  /\ Step(p, [tx[p] EXCEPT !.pc = "commit"])

CommitFollow(p) ==
  LET r == tx[p]  f == <<r.user, r.pet>> IN
  /\ r.op = "follow" /\ r.pc = "commit"
  /\ Set(p, [Finished EXCEPT !.seen = OwnerOf[r.pet]])
  /\ IF r.fresh THEN /\ follows' = follows \cup {f}
                     /\ notices' = [notices EXCEPT ![f] = @ + 1]
     ELSE UNCHANGED <<follows, notices>>
  /\ UNCHANGED <<accounts, content, unfollowed, safety>>

DeleteFollow(p) ==
  LET r == tx[p]  f == <<r.user, r.pet>> IN
  /\ r.pc = "deleteFollow"
  /\ Set(p, Finished)
  /\ follows' = follows \ {f}
  /\ unfollowed' = IF f \in follows THEN [unfollowed EXCEPT ![f] = @ + 1]
                   ELSE unfollowed
  /\ UNCHANGED <<accounts, content, notices, safety>>

-----------------------------------------------------------------------------
(* Profiles, blocks and mutes.                                             *)

BeginUser(p, u, w, op) ==
  /\ op \in {"profile", "followers", "block", "mute", "unblock", "unmute"}
  /\ op \in {"block", "mute"} => u # w
  /\ Arrive(p, op, [Idle EXCEPT !.user = u, !.other = w,
       !.pc = CASE op \in {"profile", "followers"} -> "forUser"
                [] op \in {"block", "mute"} -> "target"
                [] OTHER -> "release"])

\* The profile is one statement; a list of followers counts and reads after
\* ForUser.
CheckUser(p) ==
  LET r == tx[p] IN
  /\ r.pc = "forUser"
  /\ IF ~ForUser(r.user, r.other) THEN End(p)
     ELSE IF r.op = "followers" /\ ~RestrictedUser(r.user, r.other)
       THEN Step(p, [r EXCEPT !.pc = "listUsers"])
     ELSE Answer(p, r.other, None, <<>>)

\* The second query, whose page stands for one of the followers, or is empty.
ListFollowers(p) ==
  LET r == tx[p]
      followers == {w \in Users \ departed :
                      \E a \in Pets : Owns(r.other, a) /\ pet[a] = "active" /\ Follows(w, a)}
  IN
  /\ r.pc = "listUsers"
  /\ \E w \in followers \cup {None} :
       Step(p, [Finished EXCEPT !.seen = r.other, !.listed = w])

CheckTarget(p) ==
  LET r == tx[p] IN
  /\ r.pc = "target"
  /\ IF r.other \in departed THEN End(p)
     ELSE Step(p, [r EXCEPT !.pc = IF r.op = "block" THEN "insertBlock" ELSE "insertMute"])

\* INSERT INTO blocks; the UPDATE of matches is in module Matching.
InsertBlock(p) ==
  LET r == tx[p]  new == <<r.user, r.other>> \notin blocks IN
  /\ r.pc = "insertBlock"
  /\ new => UserFree(r.user) /\ UserFree(r.other)
  /\ \A q \in Requests : ~(tx[q].op = "block" /\ tx[q].fresh
                            /\ tx[q].user = r.user /\ tx[q].other = r.other)
  /\ Step(p, [r EXCEPT !.pc = "commit", !.fresh = new])

CommitBlock(p) ==
  LET r == tx[p] IN
  /\ r.op = "block" /\ r.pc = "commit"
  /\ Set(p, Finished)
  /\ blocks' = IF r.fresh THEN blocks \cup {<<r.user, r.other>>} ELSE blocks
  /\ UNCHANGED <<accounts, content, fans, mutes>>

InsertMute(p) ==
  LET r == tx[p] IN
  /\ r.pc = "insertMute"
  /\ <<r.user, r.other>> \notin mutes => UserFree(r.user) /\ UserFree(r.other)
  /\ Set(p, Finished)
  /\ mutes' = mutes \cup {<<r.user, r.other>>}
  /\ UNCHANGED <<accounts, content, fans, blocks>>

Release(p) ==
  LET r == tx[p]  pair == {<<r.user, r.other>>} IN
  /\ r.pc = "release"
  /\ Set(p, Finished)
  /\ IF r.op = "unblock" THEN blocks' = blocks \ pair /\ mutes' = mutes
     ELSE mutes' = mutes \ pair /\ blocks' = blocks
  /\ UNCHANGED <<accounts, content, fans>>

-----------------------------------------------------------------------------
(* Pets and accounts.                                                      *)

\* set: the status that PATCH /pets/:petId sets.
BeginOwn(p, u, a, op, set) ==
  /\ op \in {"createPet", "patchPet", "deletePet"}
  /\ op = "patchPet" <=> set # None
  /\ Arrive(p, op, [Idle EXCEPT !.pc = "pet", !.user = u, !.pet = a, !.set = set])

CreatePet(p) ==
  LET r == tx[p] IN
  /\ r.op = "createPet" /\ r.pc = "pet"
  /\ Owns(r.user, r.pet) /\ pet[r.pet] = "none" /\ UserFree(r.user)
  /\ Set(p, Finished)
  /\ pet' = [pet EXCEPT ![r.pet] = "active"]
  /\ UNCHANGED <<private, departed, content, fans, safety>>

PatchPet(p) ==
  LET r == tx[p] IN
  /\ r.op \in {"patchPet", "deletePet"} /\ r.pc = "pet" /\ PetFree(r.pet)
  /\ Owns(r.user, r.pet) /\ Undeleted(r.pet)
  /\ Set(p, Finished)
  /\ pet' = [pet EXCEPT ![r.pet] = IF r.op = "patchPet" THEN r.set ELSE "gone"]
  /\ UNCHANGED <<private, departed, content, fans, safety>>

RefusePet(p) ==
  LET r == tx[p] IN
  /\ r.pc = "pet" /\ r.op # "createPet"
  /\ ~(Owns(r.user, r.pet) /\ Undeleted(r.pet))
  /\ End(p)

BeginAccount(p, u, op) ==
  /\ op \in {"goPrivate", "goPublic", "deleteAccount"}
  /\ Arrive(p, op, [Idle EXCEPT !.user = u,
       !.pc = IF op = "deleteAccount" THEN "lockUser" ELSE "patchMe"])

PatchMe(p) ==
  LET r == tx[p] IN
  /\ r.pc = "patchMe" /\ UserFree(r.user)
  /\ Set(p, Finished)
  /\ private' = IF r.user \in departed THEN private
                ELSE IF r.op = "goPrivate" THEN private \cup {r.user}
                ELSE private \ {r.user}
  /\ UNCHANGED <<pet, departed, content, fans, safety>>

\* SELECT ... FOR UPDATE, and UPDATE users.
LockUser(p) ==
  LET r == tx[p] IN
  /\ r.pc = "lockUser" /\ UserFree(r.user)
  /\ \A q \in Requests : r.user \notin KeyShares(q)
  /\ IF r.user \in departed THEN End(p)
     ELSE Step(p, [r EXCEPT !.pc = "deletePets"])

\* UPDATE pets, which locks the rows it writes.
DeletePets(p) ==
  tx[p].pc = "deletePets" /\ Step(p, [tx[p] EXCEPT !.pc = "commit"])

CommitDeletion(p) ==
  LET r == tx[p] IN
  /\ r.op = "deleteAccount" /\ r.pc = "commit"
  /\ Set(p, Finished)
  /\ departed' = departed \cup {r.user}
  /\ pet' = [a \in Pets |-> IF Owns(r.user, a) /\ pet[a] \in {"active", "paused"}
                             THEN "deleted" ELSE pet[a]]
  /\ UNCHANGED <<private, content, fans, safety>>

\* A statement fails, the connection is lost or the process dies.
Fail(p) == Active(tx[p]) /\ End(p)

-----------------------------------------------------------------------------
(* The specification.                                                      *)

SocialInit(t) ==
  /\ pet = [a \in Pets |-> IF a \in Born THEN "active" ELSE "none"]
  /\ private = {} /\ departed = {}
  /\ post \in StartPosts
  /\ ties = {} /\ stories = {} /\ reports = {}
  /\ follows \in SUBSET {f \in Users \X Born : OwnerOf[f[2]] # f[1]}
  /\ notices = [f \in Users \X Pets |-> IF f \in follows THEN 1 ELSE 0]
  /\ unfollowed = [f \in Users \X Pets |-> 0]
  /\ blocks = {} /\ mutes = {}
  /\ tx = t
  /\ sight = [p \in Requests |-> {}]

Begin(p) ==
  \E u \in Users :
    \/ \E op \in {"feed", "stories"} : BeginRead(p, u, op)
    \/ \E op \in {"goPrivate", "goPublic", "deleteAccount"} : BeginAccount(p, u, op)
    \/ \E w \in Users, op \in {"profile", "followers", "block", "mute",
                               "unblock", "unmute"} : BeginUser(p, u, w, op)
    \/ \E a \in Pets :
         \/ \E op \in {"getPet", "petPosts", "petStories", "follow", "unfollow"} :
              BeginPet(p, u, a, op)
         \/ \E op \in {"createPet", "patchPet", "deletePet"},
               s \in {"active", "paused", None} : BeginOwn(p, u, a, op, s)
         \/ \E v \in Visibilities, l \in Carousels \cup {<<>>} :
              BeginCreatePost(p, u, a, v, l)
         \/ BeginCreateStory(p, u, a)
    \/ \E a \in Pets \cup {None} : BeginDiscover(p, u, a)
    \/ \E x \in Posts :
         \/ \E v \in Visibilities \cup {None}, l \in Carousels \cup {<<>>} :
              BeginPatchPost(p, u, x, v, l)
         \/ BeginDeletePost(p, u, x)
         \/ \E op \in {"like", "unlike", "save", "unsave", "comment", "comments",
                       "report"}, a \in Pets \cup {None} : BeginTouch(p, u, x, op, a)

SocialInitial == SocialInit([p \in Requests |-> Idle])

SocialNext ==
  \/ \E p \in Requests :
       \/ Begin(p)
       \/ InsertPost(p) \/ UpdatePost(p) \/ DeleteMedia(p) \/ InsertMedia(p)
       \/ CommitPost(p) \/ RemovePost(p) \/ RefusePost(p)
       \/ CheckPet(p) \/ ReadPet(p) \/ PostRows(p) \/ AttachMedia(p)
       \/ StoryRows(p) \/ CheckSource(p) \/ NearbyRows(p) \/ EmptyPage(p)
       \/ CanView(p) \/ CheckActor(p) \/ Touch(p) \/ ListComments(p)
       \/ InsertStory(p)
       \/ InsertFollow(p) \/ Notify(p) \/ CommitFollow(p) \/ DeleteFollow(p)
       \/ CheckUser(p) \/ ListFollowers(p) \/ CheckTarget(p)
       \/ InsertBlock(p) \/ CommitBlock(p) \/ InsertMute(p) \/ Release(p)
       \/ CreatePet(p) \/ PatchPet(p) \/ RefusePet(p)
       \/ PatchMe(p) \/ LockUser(p) \/ DeletePets(p) \/ CommitDeletion(p)
       \/ Fail(p)
  \/ \E a \in Pets : ExpireStory(a)

SocialSpec == SocialInitial /\ [][SocialNext]_socialVars

-----------------------------------------------------------------------------
(* Properties.                                                             *)

Lists == Carousels \cup {<<>>}

Handlers ==
  Viewers \cup {"createPost", "patchPost", "deletePost", "createStory", "unfollow",
               "report", "block", "mute", "unblock", "unmute", "createPet", "patchPet",
               "deletePet", "goPrivate", "goPublic", "deleteAccount"}

Statements ==
  {"insertPost", "updatePost", "deleteMedia", "media", "removePost", "rows", "source",
   "attach", "forPet", "readPet", "canView", "actor", "touch", "insertStory",
   "insertFollow", "notify", "commit", "deleteFollow", "forUser", "listUsers",
   "target", "insertBlock", "insertMute", "release", "pet", "patchMe", "lockUser",
   "deletePets"}

SocialRequest ==
  [pc : Statements \cup {"idle", "done"}, op : Handlers \cup {None},
   user : Users \cup {None}, pet : Pets \cup {None},
   post : Posts \cup {None}, other : Users \cup {None},
   set : Visibilities \cup PetStatuses \cup {None}, list : Lists, put : Nat,
   row : PostRow \cup {NoPost}, fresh : BOOLEAN, page : Seq(Media),
   seen : Users \cup {None}, shown : Pets \cup {None},
   listed : Users \cup {None}]

\* The tables hold what their columns allow, and each request is at a
\* statement of its handler with the transaction that the statement needs.
SocialTypeOK ==
  /\ pet \in [Pets -> PetStatuses]
  /\ private \subseteq Users /\ departed \subseteq Users
  /\ post \in [Posts -> PostRow \cup {NoPost}]
  /\ ties \subseteq Tie /\ stories \subseteq Pets
  /\ reports \subseteq Users \X Users
  /\ follows \subseteq Users \X Pets
  /\ notices \in [Users \X Pets -> Nat] /\ unfollowed \in [Users \X Pets -> Nat]
  /\ blocks \subseteq Users \X Users /\ mutes \subseteq Users \X Users
  /\ tx \in [Requests -> SocialRequest]
  /\ sight \in [Requests -> SUBSET (Users \cup Pets)]
  /\ \A p \in Requests :
       tx[p].pc \in {"deleteMedia", "media"} => tx[p].row # NoPost

\* A post's carousel is one media_ids list that a request sent, complete and
\* in order, and its cover is the first item, whatever requests edit the post
\* at the same time and wherever they fail; and no page shows a carousel
\* that is half rewritten (social/handlers.go:246-511, 578-613: the DELETE
\* and the INSERTs of post_media share the transaction of the UPDATE, and
\* attachMedia reads them in one statement).
CarouselIsOneRequest ==
  /\ \A x \in Posts : post[x] # NoPost =>
       /\ post[x].media \in Lists
       /\ post[x].media # <<>> => post[x].cover = Head(post[x].media)
  /\ \A p \in Requests : tx[p].page \in Lists

\* Every follow is announced to the pet's owner exactly once, however many
\* requests follow at the same time, retry or fail: a retried follow finds
\* its row and says nothing, so a lost notification would be lost for good
\* (social/handlers.go:1044-1094).
EveryFollowIsTold ==
  \A f \in Users \X Pets :
    notices[f] = unfollowed[f] + (IF f \in follows THEN 1 ELSE 0)

\* The user whom a request asks for, whose pet, post or story it shows, or
\* whose post or pet it acts on, was at some instant of the request kept from
\* the requester by no block, whoever blocked whom; a block that commits while
\* the request runs may be missed (social/handlers.go:79-83, 738-754;
\* visibility/pets.go, users.go).  The exception is who is named in a list, of
\* the comments on a post or of followers: those queries have no condition on
\* blocks, and all that holds is that the list is of such a user or their post.
BlocksHold ==
  \A p \in Requests : tx[p].pc = "done" =>
    /\ tx[p].seen # None => tx[p].seen \in sight[p]
    /\ tx[p].listed # None => tx[p].seen # None

\* A deleted post never comes back and is never edited again, although edits
\* run in transactions of several statements while deletePost is one
\* (social/handlers.go:416-536).
DeletedPostsAreFrozen ==
  [][\A x \in Posts : post[x].gone => post'[x] = post[x]]_socialVars

\* A pet whose account is private to the requester, or deleted, is not served
\* beyond its identity ("Private/blocked/deleted pets cannot be fetched
\* through direct IDs, feed, discovery, or search", account/deletion.go:40-41).
HiddenPetsAreNotServed ==
  \A p \in Requests :
    tx[p].pc = "done" /\ tx[p].shown # None => tx[p].shown \in sight[p]
=============================================================================
